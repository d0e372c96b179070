------------------------------- MODULE Loader -------------------------------
(***************************************************************************)
(* load_project (adapters/yaml_config.py) with parse_group and             *)
(* parse_rule_list (entities.py): the directory tree security-groups/ is   *)
(* read entry by entry into a desired state, and every fault becomes an    *)
(* error; one error and nothing is loaded.                                 *)
(*                                                                         *)
(* A document is what yaml.safe_load makes of a file.  Names, addresses,   *)
(* CIDRs and the services of a rule are those of Estate; `Bad` stands for  *)
(* a value of the wrong type or shape in their place.                      *)
(***************************************************************************)
EXTENDS Naturals, Sequences, Estate

CONSTANTS
    Trees,        \* contents of security-groups/: entry name -> entry
    Hidden,       \* names that begin with a dot
    Stray,        \* an entry that is not a directory
    NoDirectory,  \* there is no security-groups/
    Absent,       \* there is no such file
    Unreadable,   \* a file that cannot be read or is not YAML
    Null,         \* an empty file or a null document
    Bad           \* see above

(***************************************************************************)
(* What yaml.safe_load makes of the files, as far as the loader looks.  A  *)
(* group is [name, description, members], a key that is not there having   *)
(* the value the code takes for it (no name: Bad).  A rule is [remote,     *)
(* protocol, ports, services]: the protocol is "ranged", "portless" (icmp, *)
(* all) or Bad, and `services` is what protocol and ports come to, as      *)
(* module Ports has it, never looked at when one of them is wrong.         *)
(***************************************************************************)
NoDocument == {Absent, Unreadable, Null, Bad}

GroupDocument ==
    [name : Name \cup {Bad}, description : Description \cup {Bad},
     members : {Bad} \cup Seq(Addr \cup {Bad})]

RuleDocument ==
    [remote : Name \cup Prefix \cup {None, Bad}, protocol : {"ranged", "portless", Bad},
     ports : {"none", "given", Bad}, services : (SUBSET CodeService) \ {{}}]

Directory ==
    [group : NoDocument \cup GroupDocument,
     file : [Direction -> NoDocument \cup Seq({Bad} \cup RuleDocument)]]

ASSUME LoaderAssumption ==
    /\ Hidden \cap Name = {} /\ None \notin Name
    /\ {Stray, NoDirectory, Absent, Unreadable, Null, Bad}
          \cap (Name \cup Prefix \cup Addr \cup Description \cup {None}) = {}
    /\ Absent \notin {Unreadable, Null, Bad} /\ Unreadable \notin {Null, Bad} /\ Null # Bad
    /\ \A t \in Trees \ {NoDirectory} :
          \A e \in DOMAIN t : t[e] \in {Stray} \cup Directory

VARIABLES
    tree,    \* the directory being loaded
    left,    \* entries not looked at yet
    loaded,  \* the desired state so far
    errors,  \* the report
    outcome  \* what load_project returns: a state ("accepted") or none

vars == <<tree, left, loaded, errors, outcome>>

File == {"directory", "group"} \cup Direction
Error(e, f, item, what) == [entry |-> e, file |-> f, item |-> item, what |-> what]

Empty ==
    [groups |-> {}, description |-> [g \in GroupName |-> Blank],
     members |-> {}, managed |-> {}, rules |-> {}]

Init ==
    /\ tree \in Trees
    /\ left = IF tree = NoDirectory THEN {} ELSE DOMAIN tree
    /\ loaded = Empty
    /\ errors = {}
    /\ outcome = "reading"

(***************************************************************************)
(* group.yaml.                                                             *)
(***************************************************************************)
\* A slip: an address of either version makes a member.
BadMembersButV6(doc) == {i \in DOMAIN doc.members : doc.members[i] \notin Addr}

BadMembers(doc) == {i \in DOMAIN doc.members : doc.members[i] \notin V4}

FieldErrors(e, doc) ==
    {Error(e, "group", 0, "name") : x \in {doc.name} \ GroupName}
    \cup {Error(e, "group", 0, "description") : x \in {doc.description} \ Description}
    \cup IF doc.members = Bad THEN {Error(e, "group", 0, "members")}
         ELSE {Error(e, "group", i, "ip") : i \in BadMembers(doc)}

\* Looked for only in a group whose fields are all right.
DuplicateIps(e, doc) ==
    {Error(e, "group", 0, "duplicate ip") :
        i \in {k \in DOMAIN doc.members : \E j \in 1..k-1 : doc.members[j] = doc.members[k]}}

GroupErrors(e, doc) ==
    CASE doc = Absent -> {Error(e, "directory", 0, "missing group.yaml")}
      [] doc = Unreadable -> {Error(e, "group", 0, "unreadable")}
      [] doc = Null -> {Error(e, "group", 0, "empty")}
      [] doc = Bad -> {Error(e, "group", 0, "not a mapping")}
      [] OTHER ->
           IF FieldErrors(e, doc) # {} THEN FieldErrors(e, doc)
           ELSE IF DuplicateIps(e, doc) # {} THEN DuplicateIps(e, doc)
           ELSE {Error(e, "group", 0, "not the directory's name") : x \in {doc.name} \ {e}}

\* What keeps a directory from being a group.
EntryErrors(e) ==
    IF e \notin GroupName THEN {Error(e, "directory", 0, "directory name")}
    ELSE GroupErrors(e, tree[e].group)

(***************************************************************************)
(* ingress.yaml and egress.yaml.                                           *)
(***************************************************************************)
RemoteIn(doc) ==
    IF doc.remote \in DOMAIN Canonical THEN Canonical[doc.remote] ELSE doc.remote

\* The first fault of a rule, which is the only one told.
RuleFault(doc) ==
    IF doc = Bad THEN "not a mapping"
    ELSE IF doc.remote = None THEN "remote is required"
    ELSE IF doc.remote \notin Name \cup DOMAIN Canonical THEN "not a valid CIDR"
    ELSE IF doc.protocol = Bad THEN "protocol"
    ELSE IF doc.protocol = "portless" /\ doc.ports # "none" THEN "must not have ports"
    ELSE IF doc.ports = Bad THEN "ports"
    ELSE "none"

RuleOf(e, d, doc) ==
    [group |-> e, direction |-> d, services |-> doc.services, remote |-> RemoteIn(doc)]

\* A slip: rules are compared as they are written.
SeenAsWritten(e, d, list, i) ==
    \E j \in 1..i-1 : RuleFault(list[j]) = "none" /\ list[j] = list[i]

\* An earlier rule of the list that was taken has the same identity.
Seen(e, d, list, i) ==
    \E j \in 1..i-1 : /\ RuleFault(list[j]) = "none"
                      /\ RuleOf(e, d, list[j]) = RuleOf(e, d, list[i])

IsList(doc) == doc \notin NoDocument

\* A slip: the first faulty rule ends the list.
RuleErrorsToFirst(e, d, list) ==
    {Error(e, d, i, RuleFault(list[i])) :
        i \in {k \in DOMAIN list : RuleFault(list[k]) # "none"
                                 /\ \A j \in 1..k-1 : RuleFault(list[j]) = "none"}}

RuleErrors(e, d, list) ==
    {Error(e, d, i, RuleFault(list[i])) : i \in {k \in DOMAIN list : RuleFault(list[k]) # "none"}}
    \cup {Error(e, d, i, "duplicate") :
             i \in {k \in DOMAIN list : RuleFault(list[k]) = "none" /\ Seen(e, d, list, k)}}

DirectionErrors(e, d, doc) ==
    CASE doc = Absent -> {}
      [] doc = Unreadable -> {Error(e, d, 0, "unreadable")}
      [] doc = Null -> {Error(e, d, 0, "empty")}
      [] doc = Bad -> {Error(e, d, 0, "not a list")}
      [] OTHER -> RuleErrors(e, d, doc)

RulesIn(e, d, doc) ==
    {RuleOf(e, d, doc[i]) :
        i \in {k \in DOMAIN doc : RuleFault(doc[k]) = "none" /\ ~Seen(e, d, doc, k)}}

(***************************************************************************)
(* The loop over the entries.  The code sorts them; any order will do.     *)
(***************************************************************************)
SkipEntry(e) ==
    /\ e \in left
    /\ e \in Hidden \/ tree[e] = Stray
    /\ left' = left \ {e}
    /\ UNCHANGED <<tree, loaded, errors, outcome>>

RefuseEntry(e) ==
    /\ e \in left \ Hidden
    /\ tree[e] # Stray
    /\ EntryErrors(e) # {}
    /\ errors' = errors \cup EntryErrors(e)
    /\ left' = left \ {e}
    /\ UNCHANGED <<tree, loaded, outcome>>

LoadEntry(e) ==
    /\ e \in left \ Hidden
    /\ tree[e] # Stray
    /\ EntryErrors(e) = {}
    /\ LET file == tree[e].file
           group == tree[e].group
           present == {d \in Direction : file[d] # Absent}
       IN  /\ errors' = errors \cup UNION {DirectionErrors(e, d, file[d]) : d \in Direction}
           /\ loaded' =
                [groups |-> loaded.groups \cup {e},
                 description |-> [loaded.description EXCEPT ![e] = group.description],
                 members |-> loaded.members
                    \cup {<<e, group.members[i]>> : i \in DOMAIN group.members},
                 managed |-> loaded.managed \cup {<<e, d>> : d \in present},
                 rules |-> loaded.rules
                    \cup UNION {RulesIn(e, d, file[d]) : d \in {x \in present : IsList(file[x])}}]
    /\ left' = left \ {e}
    /\ UNCHANGED <<tree, outcome>>

\* A slip: only the sources of ingress rules are looked up.
DanglingSources ==
    {r \in loaded.rules :
        r.direction = "ingress" /\ r.remote \in Name /\ r.remote \notin loaded.groups}

\* Rules whose remote is a group the project does not declare.
Dangling == {r \in loaded.rules : r.remote \in Name /\ r.remote \notin loaded.groups}

\* The loop is over: the one check across files, and the verdict.
Conclude ==
    /\ outcome = "reading"
    /\ left = {}
    /\ errors' =
          IF tree = NoDirectory
          THEN {Error("security-groups", "directory", 0, "no directory")}
          ELSE errors \cup {Error(r.group, "directory", 0, "unknown group") : r \in Dangling}
    /\ outcome' = IF errors' = {} THEN "accepted" ELSE "refused"
    /\ UNCHANGED <<tree, left, loaded>>

Returned == outcome # "reading" /\ UNCHANGED vars

Next ==
    \/ \E e \in left : SkipEntry(e) \/ RefuseEntry(e) \/ LoadEntry(e)
    \/ Conclude
    \/ Returned

Spec == Init /\ [][Next]_vars

-----------------------------------------------------------------------------
(***************************************************************************)
(* Properties.                                                             *)
(***************************************************************************)
TypeOK ==
    /\ tree \in Trees
    /\ outcome \in {"reading", "accepted", "refused"}
    /\ left \subseteq IF tree = NoDirectory THEN {} ELSE DOMAIN tree
    /\ loaded \in [groups : SUBSET GroupName, description : [GroupName -> Description],
                   members : SUBSET (GroupName \X V4),
                   managed : SUBSET (GroupName \X Direction),
                   rules : SUBSET [group : GroupName, direction : Direction,
                                   services : (SUBSET CodeService) \ {{}},
                                   remote : Name \cup Cidr]]
    /\ \A x \in errors : x.file \in File /\ x.item \in Nat

\* What plan and execute rely on (modules Planner and Executor assume it of
\* every project) is what load_project lets through.
AcceptedIsLoaded == outcome = "accepted" => Loaded(loaded)

(***************************************************************************)
(* What a tree says, however it is read.                                   *)
(***************************************************************************)
Directories ==
    IF tree = NoDirectory THEN {} ELSE {e \in DOMAIN tree \ Hidden : tree[e] # Stray}

GoodGroup(e) ==
    LET doc == tree[e].group
    IN  /\ e \in GroupName
        /\ doc \notin NoDocument
        /\ doc.name = e /\ doc.description \in Description /\ doc.members # Bad
        /\ \A i \in DOMAIN doc.members :
              /\ doc.members[i] \in V4
              /\ \A j \in DOMAIN doc.members : doc.members[i] = doc.members[j] => i = j

GoodRule(doc) ==
    /\ doc # Bad
    /\ doc.remote \in Name \cup DOMAIN Canonical
    /\ doc.protocol # Bad /\ doc.ports # Bad
    /\ doc.protocol = "portless" => doc.ports = "none"

SameRule(x, y) == x.services = y.services /\ RemoteIn(x) = RemoteIn(y)

GoodDirection(doc) ==
    \/ doc = Absent
    \/ /\ IsList(doc)
       /\ \A i \in DOMAIN doc :
             /\ GoodRule(doc[i])
             /\ \A j \in DOMAIN doc : GoodRule(doc[j]) /\ SameRule(doc[i], doc[j]) => i = j
             /\ doc[i].remote \in Name => doc[i].remote \in Directories

\* "Every violation is collected, none fail fast" (parse_group and
\* parse_rule_list), and nothing is planned from part of a tree: whatever
\* the order of the entries, a tree is accepted exactly when no document in
\* it has a fault, and then nothing in it is overlooked: a directory without
\* its group would be planned for deletion, a file not seen would leave its
\* direction unmanaged, a rule not seen would be removed.
AcceptedIsTheTree ==
    outcome # "reading" =>
        /\ (outcome = "accepted") =
              /\ tree # NoDirectory
              /\ \A e \in Directories :
                    GoodGroup(e) /\ \A d \in Direction : GoodDirection(tree[e].file[d])
        /\ outcome = "accepted" =>
              /\ loaded.groups = Directories
              /\ \A e \in Directories, d \in Direction :
                    LET doc == tree[e].file[d]
                    IN  /\ (<<e, d>> \in loaded.managed) = (doc # Absent)
                        /\ {r \in loaded.rules : r.group = e /\ r.direction = d} =
                              IF doc = Absent THEN {} ELSE {RuleOf(e, d, doc[i]) : i \in DOMAIN doc}
              /\ \A e \in Directories : {m[2] : m \in {x \in loaded.members : x[1] = e}} =
                    {tree[e].group.members[i] : i \in DOMAIN tree[e].group.members}

\* The report names every directory that is no group and, in the files of
\* the others, every faulty document and rule; and it names nothing that is
\* right, a reference to a directory that is no group set apart.
FaultsTold ==
    outcome # "reading" => \A e \in Directories :
        /\ ~GoodGroup(e) = \E x \in errors : x.entry = e /\ x.file \in {"directory", "group"}
                                            /\ x.what # "unknown group"
        /\ GoodGroup(e) => \A d \in Direction :
              LET doc == tree[e].file[d]
              IN  /\ (\E x \in errors : x.entry = e /\ x.file = d) =>
                        ~GoodDirection(doc)
                  /\ IsList(doc) => \A i \in DOMAIN doc :
                        ~GoodRule(doc[i]) =>
                            \E x \in errors : x.entry = e /\ x.file = d /\ x.item = i
                  /\ doc \in {Unreadable, Null, Bad} =>
                        \E x \in errors : x.entry = e /\ x.file = d
=============================================================================
