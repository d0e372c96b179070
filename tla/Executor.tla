------------------------------ MODULE Executor ------------------------------
(***************************************************************************)
(* engine.execute: one run of `apply --yes`.  The plan is made from `read` *)
(* (a live inventory, or a snapshot file); the run finds the cloud as in   *)
(* `origin`, which differs from `read` when the reading is stale.  Every   *)
(* action is then performed against the live cloud (`sgs`, `rules`,        *)
(* `attached`), ends in one result, and never stops the run.               *)
(*                                                                         *)
(* A gateway call ends in one of three ways: it takes effect and returns;  *)
(* it raises without effect; or it takes effect and raises all the same,   *)
(* because the answer was lost or the second of two calls failed.  A       *)
(* create that an APIGW error answers is sent again (_run), so it can take *)
(* effect several times, whichever way it ends.                            *)
(***************************************************************************)
EXTENDS Naturals, FiniteSets, Planner

CONSTANTS
    Projects,    \* project directories load_project accepts
    Estates,     \* observations of the cloud
    MaxTries,    \* throttle_tries
    MaxRepeated  \* bound: creates of a run that take effect several times

ASSUME ExecutorAssumption ==
    /\ \A c \in Projects : Loaded(c)
    /\ \A e \in Estates : WellFormed(e)
    /\ MaxTries \in Nat \ {0} /\ MaxRepeated \in Nat

VARIABLES
    code,            \* the desired state
    read,            \* the inventory the plan is made from
    origin,          \* the cloud when the run starts
    sgs,             \* live security groups
    rules,           \* live rules
    attached,        \* live <<group id, port id>> memberships
    todo,            \* actions not performed yet
    results,         \* [action, status] of the others
    created,         \* group name -> id, for the CreateSg that returned one
    failed_creates,  \* groups whose CreateSg failed
    cached,          \* the gateway's name -> id cache for remote groups
    repeated         \* creates that took effect several times (history)

vars == <<code, read, origin, sgs, rules, attached, todo, results, created,
          failed_creates, cached, repeated>>

Status == {"ok", "failed"}

TypeOK ==
    /\ code \in Projects /\ read \in Estates /\ origin \in Estates
    /\ sgs \subseteq CloudSg
    /\ rules \subseteq CloudRule
    /\ attached \subseteq SgId \X PortId
    /\ todo \subseteq Action
    /\ results \subseteq [action : Action, status : Status]
    /\ created \in [GroupName -> SgId \cup {None}]
    /\ failed_creates \subseteq GroupName
    /\ cached \in [Name -> SgId \cup {None}]
    /\ repeated \subseteq Action

(***************************************************************************)
(* Where a run starts.                                                     *)
(***************************************************************************)
\* A slip: every entry of a page gets the id of one group of it.
ListingsOfPage(groups, cache) ==
    {c \in [Name -> SgId \cup {None}] : \A n \in Name :
        IF \E sg \in groups : sg.name = n
        THEN c[n] \in {sg.id : sg \in groups} ELSE c[n] = cache[n]}

\* What a listing can leave in the cache: each listed name has the id of a
\* group of that name (of the last one, when a name is there twice), and the
\* other entries stay.
Listings(groups, cache) ==
    {c \in [Name -> SgId \cup {None}] : \A n \in Name :
        IF \E sg \in groups : sg.name = n
        THEN \E sg \in groups : sg.name = n /\ c[n] = sg.id
        ELSE c[n] = cache[n]}

Uncached == [n \in Name |-> None]

\* `later` can be the cloud some time after `earlier` was read: rules are
\* never edited in place and ids never come back.
CanFollow(earlier, later) ==
    \A x \in earlier.rules, y \in later.rules : x.id = y.id => x = y

Init ==
    /\ code \in Projects
    /\ read \in Estates
    /\ origin \in {e \in Estates : CanFollow(read, e)}
    /\ Plannable(code, read)
    /\ sgs = origin.sgs
    /\ rules = origin.rules
    /\ attached = origin.attached
    /\ todo = Plan(code, read)
    /\ results = {}
    /\ created = [g \in GroupName |-> None]
    /\ failed_creates = {}
    /\ cached \in Listings(read.sgs, Uncached) \cup {Uncached}
    /\ repeated = {}

(***************************************************************************)
(* The executor's loop: kinds in the order of _ORDER.                      *)
(***************************************************************************)
\* A slip: removals of rules and members run before the additions.
RemovalsFirst ==
    [CreateSg |-> 0, UpdateSg |-> 1, CreateRule |-> 4, AttachNic |-> 5,
     DeleteRule |-> 2, DetachNic |-> 3, DeleteSg |-> 6]

Order ==
    [CreateSg |-> 0, UpdateSg |-> 1, CreateRule |-> 2, AttachNic |-> 3,
     DeleteRule |-> 4, DetachNic |-> 5, DeleteSg |-> 6]

Ready(a) == \A b \in todo : Order[a.op] <= Order[b.op]

\* The id a payload ends up with: its own, or that of the group created
\* earlier in this run.
SgIdOf(a) == IF a.sg_id # None THEN a.sg_id ELSE created[a.group]

\* A slip: dependents of a failed create are performed like any other.
SkipsNothing(a) == FALSE

Skipped(a) ==
    /\ a.op \in {"CreateRule", "AttachNic"}
    /\ a.group \in failed_creates
    /\ SgIdOf(a) = None

\* The action whose turn it is, of kind `op`, and not skipped.
Turn(a, op) == a.op = op /\ Ready(a) /\ ~Skipped(a)

\* A slip: a failed action is tried again, forever.
RecordRetrying(a, status) ==
    /\ todo' = IF status = "failed" THEN todo ELSE todo \ {a}
    /\ results' = results \cup {[action |-> a, status |-> status]}

Record(a, status) ==
    /\ todo' = todo \ {a}
    /\ results' = results \cup {[action |-> a, status |-> status]}

Skip(a) ==
    /\ Ready(a)
    /\ Skipped(a)
    /\ Record(a, "failed")
    /\ UNCHANGED <<code, read, origin, sgs, rules, attached, created,
                   failed_creates, cached, repeated>>

(***************************************************************************)
(* The gateway calls.  Live(id): the cloud has that group.                 *)
(***************************************************************************)
Live(id) == \E sg \in sgs : sg.id = id

UsedSgIds ==
    {sg.id : sg \in sgs \cup read.sgs}
    \cup {r.remote_group_id : r \in rules} \cup {p[1] : p \in attached}
FreshSgIds == SgId \ UsedSgIds
FreshRuleIds == RuleId \ {r.id : r \in rules \cup read.rules}

SelfRules(id) ==
    {[id |-> <<id, d>>, sg_id |-> id, direction |-> d.direction,
      service |-> d.service, remote_group_id |-> id, remote_ip_prefix |-> None] :
        d \in DefaultRule}

\* What the tries of one create make, of the ids still free: as many as took
\* effect, one at least.
Copies(fresh) == {S \in SUBSET fresh : S # {} /\ Cardinality(S) <= MaxTries}

Remember(a, ids) ==
    /\ repeated' = repeated \cup {x \in {a} : \E i, j \in ids : i # j}
    /\ Cardinality(repeated') <= MaxRepeated

\* Every try that took effect made a group, with the platform's self rules;
\* the reply of the last one names `id`, which alone is described.
MakeGroups(a, ids, id, description) ==
    /\ sgs' = sgs \cup
         {[id |-> i, name |-> a.group,
           description |-> IF i = id THEN description ELSE Blank] : i \in ids}
    /\ rules' = rules \cup UNION {SelfRules(i) : i \in ids}
    /\ Remember(a, ids)

\* The name enters the cache once a reply is in; the description goes in a
\* second call.
CreateSgOk(a) ==
    /\ Turn(a, "CreateSg")
    /\ \E ids \in Copies(FreshSgIds) : \E id \in ids :
          /\ MakeGroups(a, ids, id, a.description)
          /\ created' = [created EXCEPT ![a.group] = id]
          /\ cached' = [cached EXCEPT ![a.group] = id]
    /\ Record(a, "ok")
    /\ UNCHANGED <<code, read, origin, attached, failed_creates>>

\* Made, but the run never learns the id: no try of the create is answered,
\* or the description call fails, with or without effect.
CreateSgHalf(a) ==
    /\ Turn(a, "CreateSg")
    /\ \E ids \in Copies(FreshSgIds) : \E id \in ids :
          \/ MakeGroups(a, ids, id, Blank) /\ UNCHANGED cached
          \/ /\ a.description # Blank
             /\ \E d \in {Blank, a.description} : MakeGroups(a, ids, id, d)
             /\ cached' = [cached EXCEPT ![a.group] = id]
    /\ failed_creates' = failed_creates \cup {a.group}
    /\ Record(a, "failed")
    /\ UNCHANGED <<code, read, origin, attached, created>>

CreateSgFails(a) ==
    /\ Turn(a, "CreateSg")
    /\ failed_creates' = failed_creates \cup {a.group}
    /\ Record(a, "failed")
    /\ UNCHANGED <<code, read, origin, sgs, rules, attached, created, cached, repeated>>

DoUpdateSg(a, status) ==
    /\ Turn(a, "UpdateSg")
    /\ Live(a.sg_id)
    /\ sgs' = {IF sg.id = a.sg_id
               THEN [id |-> sg.id, name |-> sg.name, description |-> a.description]
               ELSE sg : sg \in sgs}
    /\ Record(a, status)
    /\ UNCHANGED <<code, read, origin, rules, attached, created, failed_creates,
                   cached, repeated>>

\* create_rule lists the groups when the cache lacks the remote.
Unknown(remote) == remote \in Name /\ cached[remote] = None

CachesFor(remote) == IF Unknown(remote) THEN Listings(sgs, cached) ELSE {cached}

\* As with groups, every try that took effect made a rule.
DoCreateRule(a, status) ==
    /\ Turn(a, "CreateRule")
    /\ Live(SgIdOf(a))
    /\ cached' \in CachesFor(a.rule.remote)
    /\ LET remote_id == IF a.rule.remote \in Name THEN cached'[a.rule.remote] ELSE None
       IN  /\ a.rule.remote \in Name => Live(remote_id)
           /\ \E ids \in Copies(FreshRuleIds) :
                 /\ rules' = rules \cup
                      {[id |-> i, sg_id |-> SgIdOf(a), direction |-> a.rule.direction,
                        service |-> a.rule.service, remote_group_id |-> remote_id,
                        remote_ip_prefix |-> IF a.rule.remote \in Name THEN None
                                             ELSE a.rule.remote] : i \in ids}
                 /\ Remember(a, ids)
    /\ Record(a, status)
    /\ UNCHANGED <<code, read, origin, sgs, attached, created, failed_creates>>

\* The listing itself can fail, after any of its pages.
CreateRuleFails(a) ==
    /\ Turn(a, "CreateRule")
    /\ \/ UNCHANGED cached
       \/ /\ Unknown(a.rule.remote)
          /\ \E listed \in SUBSET sgs : cached' \in Listings(listed, cached)
    /\ Record(a, "failed")
    /\ UNCHANGED <<code, read, origin, sgs, rules, attached, created, failed_creates,
                   repeated>>

HasPort(port_id) == \E n \in origin.nics : n.port_id = port_id

DoAttachNic(a, status) ==
    /\ Turn(a, "AttachNic")
    /\ Live(SgIdOf(a)) /\ HasPort(a.port_id)
    /\ attached' = attached \cup {<<SgIdOf(a), a.port_id>>}
    /\ Record(a, status)
    /\ UNCHANGED <<code, read, origin, sgs, rules, created, failed_creates, cached,
                   repeated>>

DoDeleteRule(a, status) ==
    /\ Turn(a, "DeleteRule")
    /\ \E r \in rules : r.id = a.rule_id
    /\ rules' = {r \in rules : r.id # a.rule_id}
    /\ Record(a, status)
    /\ UNCHANGED <<code, read, origin, sgs, attached, created, failed_creates, cached,
                   repeated>>

DoDetachNic(a, status) ==
    /\ Turn(a, "DetachNic")
    /\ HasPort(a.port_id)
    /\ attached' = attached \ {<<a.sg_id, a.port_id>>}
    /\ Record(a, status)
    /\ UNCHANGED <<code, read, origin, sgs, rules, created, failed_creates, cached,
                   repeated>>

\* Refused while ports are attached; the group's rules go with it, the rules
\* of others that name it stay.
DoDeleteSg(a, status) ==
    /\ Turn(a, "DeleteSg")
    /\ Live(a.sg_id)
    /\ \A p \in attached : p[1] # a.sg_id
    /\ sgs' = {sg \in sgs : sg.id # a.sg_id}
    /\ rules' = {r \in rules : r.sg_id # a.sg_id}
    /\ Record(a, status)
    /\ UNCHANGED <<code, read, origin, attached, created, failed_creates, cached,
                   repeated>>

\* Any of the single-call operations can raise without effect.
CallFails(a) ==
    /\ a.op \in {"UpdateSg", "AttachNic", "DeleteRule", "DetachNic", "DeleteSg"}
    /\ Turn(a, a.op)
    /\ Record(a, "failed")
    /\ UNCHANGED <<code, read, origin, sgs, rules, attached, created,
                   failed_creates, cached, repeated>>

Perform(a) ==
    \/ Skip(a)
    \/ CreateSgOk(a) \/ CreateSgHalf(a) \/ CreateSgFails(a)
    \/ CreateRuleFails(a) \/ CallFails(a)
    \/ \E status \in Status :
          \/ DoUpdateSg(a, status) \/ DoCreateRule(a, status)
          \/ DoAttachNic(a, status) \/ DoDeleteRule(a, status)
          \/ DoDetachNic(a, status) \/ DoDeleteSg(a, status)

\* The run is over and its results are printed.
Finished == todo = {} /\ UNCHANGED vars

Next == (\E a \in todo : Perform(a)) \/ Finished

Spec == Init /\ [][Next]_vars

-----------------------------------------------------------------------------
(***************************************************************************)
(* Properties.                                                             *)
(***************************************************************************)
\* What an inventory taken now would hold.
Now == [sgs |-> sgs, rules |-> rules, attached |-> attached, nics |-> origin.nics]

\* The plan was made from what the run found.
Fresh == read = origin

Done == todo = {}
Failures == {r.action : r \in {x \in results : x.status = "failed"}}

\* Every listed address is the first address of the NICs that have it.
PrimaryMembers ==
    \A m \in code.members : \A n \in NicsByIp(read, m[2]) : n.ip = m[2]

\* Two actions that do the same work, whether or not the group's id was
\* known when they were planned.
Payload(a) ==
    CASE a.op = "CreateRule" -> a.rule
      [] a.op \in {"AttachNic", "DetachNic"} -> a.port_id
      [] a.op = "DeleteRule" -> a.rule_id
      [] OTHER -> a.group

SameWork(a, b) ==
    /\ a.group = b.group
    /\ \/ a.op = b.op /\ Payload(a) = Payload(b)
       \/ a.op = "CreateSg" /\ b.op = "UpdateSg"

\* The group has been made several times by one CreateSg of the run.
Twinned(g) == \E a \in repeated : a.op = "CreateSg" /\ a.group = g

\* The plan and its execution agree on what code wants and on when it is
\* reached (engine.plan, engine.execute): planning again after a run finds
\* only the work of the actions the run reported as failed, and nothing at
\* all when none failed.  Set apart are a member listed by an address that is
\* not its NIC's first (MembersAttached fails there) and a group made several
\* times (there is no next plan: OneSgPerName).
ReplanIsWhatFailed ==
    Done /\ Fresh /\ PrimaryMembers /\ (\A g \in GroupName : ~Twinned(g)) =>
        \A b \in Plan(code, Now) : \E a \in Failures : SameWork(a, b)

\* "Returns one ActionResult per action" (execute): at every moment each
\* planned action is either still to do or has exactly one result.
OneResultPerAction ==
    /\ todo \cup {r.action : r \in results} = Plan(code, read)
    /\ \A r \in results : r.action \notin todo
    /\ \A x, y \in results : x.action = y.action => x = y

\* "Dependents of a failed group create are skipped, not orphaned"
\* (execute): no rule or member call goes out with a blank group id, and the
\* skips happen only where the group really has no known id.
BlankIdNeverSent ==
    \A a \in todo : a.op \in {"CreateRule", "AttachNic"} /\ Ready(a) =>
        (SgIdOf(a) = None) = Skipped(a)

\* A run planned from the cloud it meets gives a name to two groups, a cloud
\* _name_to_sg then refuses to plan, in one case only: the create of that
\* group was answered by an APIGW error after its effect and sent again
\* (_run).  In that case it does, and no later action of the run mends it.
OneSgPerName ==
    Fresh => \A g \in Name :
        (\E x, y \in sgs : x.name = g /\ y.name = g /\ x.id # y.id) = Twinned(g)

\* Removals are limited to what the plan read as unwanted: a group without a
\* directory; a member of such a group, or one whose address its group does
\* not list; a rule of a deleted group, or one that a managed direction does
\* not list and that is no self rule (_plan_rules: "an UNMANAGED direction
\* never touches the cloud side", self rules "are never stale").
RemovalJustified ==
    /\ \A sg \in sgs : (\A x \in sgs' : x.id # sg.id) =>
         \E x \in read.sgs : x.id = sg.id /\ x.name \notin code.groups
    /\ \A p \in attached \ attached' : \E x \in read.sgs :
         /\ x.id = p[1]
         /\ \A n \in read.nics : n.port_id = p[2] => <<x.name, n.ip>> \notin code.members
    /\ \A r \in rules \ rules' :
         \/ r.sg_id \notin {sg.id : sg \in sgs'}
         \/ /\ r.remote_group_id # r.sg_id
            /\ \E x \in read.sgs : /\ x.id = r.sg_id
                                   /\ <<x.name, r.direction>> \in code.managed
                                   /\ IdentityOf(read, r) \notin
                                         Wanted(code, x.name, r.direction)

RemovalsJustified == [][RemovalJustified]_vars

\* The group a live id was known under: as read, or as made by this run.
KnownAs(id, g) == created[g] = id \/ \E x \in read.sgs : x.id = id /\ x.name = g

\* A live rule is what code wants: a remote CIDR is its prefix; a remote group
\* is the one of that name, in the reading or in the cloud.
Meets(r, w) ==
    /\ r.direction = w.direction /\ r.service = w.service
    /\ \/ /\ w.remote \in Name
          /\ r.remote_ip_prefix = None
          /\ \E x \in read.sgs \cup sgs : x.id = r.remote_group_id /\ x.name = w.remote
       \/ /\ w.remote \notin Name
          /\ r.remote_group_id = None /\ r.remote_ip_prefix = w.remote

\* Additions go where code asks for them (resolve_sg_id substitutes the ids
\* of groups created earlier in the run, _resolve_remote_id those of remote
\* groups): a new member is a NIC whose address that very group lists; a new
\* rule is one that group's managed direction lists, remote included, or a
\* self rule of a group just made.
AdditionWanted ==
    /\ \A p \in attached' \ attached : \E m \in code.members :
         /\ KnownAs(p[1], m[1])
         /\ \E n \in NicsByIp(read, m[2]) : n.port_id = p[2]
    /\ \A r \in rules' \ rules :
         \/ r.remote_group_id = r.sg_id /\ ~Live(r.sg_id)
         \/ \E m \in code.managed :
              /\ KnownAs(r.sg_id, m[1])
              /\ \E w \in Wanted(code, m[1], m[2]) : Meets(r, w)

AdditionsWanted == [][AdditionWanted]_vars

\* "Allow-rules and members, then removals" (_ORDER): a managed direction
\* loses a rule only once everything code wants there is live or has been
\* reported as failed.
CutOver ==
    Fresh => \A m \in code.managed :
        \/ RulesOf(origin, m[1], m[2]) \subseteq rules
        \/ \A w \in Wanted(code, m[1], m[2]) :
             \/ \E r \in RulesOf(Now, m[1], m[2]) : IdentityOf(Now, r) = w
             \/ \E a \in Failures : a.op = "CreateRule" /\ a.group = m[1] /\ a.rule = w

\* The same for members: a NIC that was in some group and that code lists in
\* one is in a group at every moment, unless an attach of it failed.
NeverBare ==
    Fresh => \A n \in origin.nics :
        /\ \E m \in code.members : m[2] = n.ip
        /\ \E p \in origin.attached : p[2] = n.port_id
        => \/ \E p \in attached : p[2] = n.port_id
           \/ \E a \in Failures : a.op = "AttachNic" /\ a.port_id = n.port_id

\* The warning shown with the preview is true (_plan_managed_direction,
\* clears): of the managed directions code leaves empty, a run without
\* failures strips exactly the announced ones.
ClearsHonest ==
    Done /\ Fresh /\ Failures = {} =>
        Clears(code, read) =
            {m \in code.managed : /\ Wanted(code, m[1], m[2]) = {}
                                  /\ ~(RulesOf(origin, m[1], m[2]) \subseteq rules)}

\* "Membership: the IP list is the truth" (_plan_members): after a run
\* without failures every listed address has its NIC in its group.
MembersAttached ==
    Done /\ Fresh /\ Failures = {} =>
        \A m \in code.members : \E sg \in sgs :
            /\ sg.name = m[1]
            /\ \E n \in NicsByIp(Now, m[2]) : <<sg.id, n.port_id>> \in attached

\* "A coded self-reference matches them instead of duplicating" (README): no
\* create_rule goes out for a self-reference the group has already.
SelfReferenceMatched ==
    Fresh => \A a \in todo : a.op = "CreateRule" /\ Ready(a) /\ a.rule.remote = a.group =>
        \A r \in rules : r.sg_id = SgIdOf(a) /\ r.remote_group_id = r.sg_id =>
            IdentityOf(Now, r) # a.rule
=============================================================================
