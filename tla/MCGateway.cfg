CONSTANTS
    web = web
    db = db
    legacy = legacy
    empty = empty
    text = text
    s1 = s1
    s2 = s2
    s3 = s3
    n1 = n1
    n2 = n2
    r1 = r1
    r2 = r2
    r3 = r3
    r4 = r4
    f1 = f1
    f2 = f2
    f3 = f3
    p1 = p1
    p2 = p2
    p3 = p3
    a1 = a1
    a2 = a2
    a3 = a3
    a6 = a6
    all = all
    ssh = ssh
    sctp = sctp
    any = any
    ten = ten
    tenHost = tenHost
    v6 = v6
    None = None
    Blank = empty
    Anywhere = any
    Name <- MCName
    GroupName <- MCGroupName
    Description <- MCDescription
    SgId <- FourSgIds
    RuleId <- FewRuleIds
    PortId <- TwoPortIds
    Addr <- MCAddr
    V4 <- MCV4
    Service <- MCService
    CodeService <- MCCodeService
    Prefix <- MCPrefix
    Canonical <- MCCanonical
    DefaultRule <- MCDefaultRule
    Calls <- MCCalls
    FirstClouds <- MCFirstClouds
    Position <- MCPosition
    PageSize = 2
    MaxTries = 2
    MaxCalls = 2
    MaxChanges = 1

SPECIFICATION Spec

INVARIANTS
    TypeOK
    ReadingWellFormed
    ReadingIsOfItsTime
    OkMeansDone
    GroupsMadeByRetries

PROPERTIES
    OthersMembershipsKept
    CallsEnd
