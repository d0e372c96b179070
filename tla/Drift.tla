------------------------------- MODULE Drift --------------------------------
(***************************************************************************)
(* hcs-sg drift: the snapshot against the live cloud (diff_inventory),     *)
(* while others change the cloud between the two readings.                 *)
(***************************************************************************)
EXTENDS Naturals, FiniteSets, Planner

CONSTANTS
    Projects,     \* project directories load_project accepts
    FirstClouds,  \* what the first snapshot can find
    Groups,       \* groups others may add
    Rules,        \* rules others may add
    Addresses,    \* address sets a NIC may be given
    MaxChanges    \* bound: changes made in all

\* A reading of one moment: the groups that ports are in are listed.
Listed(inv) == \A p \in inv.attached : \E sg \in inv.sgs : sg.id = p[1]

ASSUME DriftAssumption ==
    /\ \A c \in Projects : Loaded(c)
    /\ \A inv \in FirstClouds : WellFormed(inv) /\ Listed(inv)
    /\ Groups \subseteq CloudSg
    /\ Rules \subseteq {r \in CloudRule : r.id \in RuleId}
    /\ Addresses \subseteq SUBSET Addr
    /\ MaxChanges \in Nat

VARIABLES
    taken,   \* what snapshot.json holds
    live,    \* what a reading taken now would hold
    changes  \* how many changes were made

vars == <<taken, live, changes>>

(***************************************************************************)
(* diff_inventory.  Everything is compared by id, and what belongs to a    *)
(* group only for the groups both readings have.  An entry prints the      *)
(* group it belongs to by `label`; `sg_id` is the loop's own.              *)
(***************************************************************************)
Ids(inv) == {sg.id : sg \in inv.sgs}
Group(inv, id) == CHOOSE sg \in inv.sgs : sg.id = id
RulesIn(inv, id) == {r \in inv.rules : r.sg_id = id}
PortsIn(inv, id) == {p[2] : p \in {x \in inv.attached : x[1] = id}}

Entry(part, type, id, sg_id, label) ==
    [part |-> part, type |-> type, id |-> id, sg_id |-> sg_id, label |-> label]

\* The entries of one kind of thing, by id, that only one reading has.
OnlyIn(type, sg_id, label, old, new) ==
    {Entry("missing", type, id, sg_id, label) : id \in old \ new}
    \cup {Entry("unexpected", type, id, sg_id, label) : id \in new \ old}

\* A slip: the description is not among the fields compared.
NameDiffers(o, n) == o.name # n.name

GroupDiffers(o, n) == o.name # n.name \/ o.description # n.description

DiffGroup(old, new, id) ==
    {Entry("changed", "group", id, id, Group(new, id).name) :
        x \in {y \in {id} : GroupDiffers(Group(old, y), Group(new, y))}}

DiffRules(old, new, id) ==
    LET label == Group(new, id).name
        was == RulesIn(old, id)
        now == RulesIn(new, id)
    IN  OnlyIn("rule", id, label, {r.id : r \in was}, {r.id : r \in now})
        \cup {Entry("changed", "rule", a.id, id, label) :
                a \in {x \in was : \E b \in now : b.id = x.id /\ b # x}}

\* A slip: members are printed under the name their group had.
DiffMembersAsTaken(old, new, id) ==
    OnlyIn("member", id, Group(old, id).name, PortsIn(old, id), PortsIn(new, id))

DiffMembers(old, new, id) ==
    OnlyIn("member", id, Group(new, id).name, PortsIn(old, id), PortsIn(new, id))

\* A slip: the rules of a group that is gone are listed with it.
GoneWithRules(old, new) ==
    {Entry("missing", "group", id, id, Group(old, id).name) : id \in Ids(old) \ Ids(new)}
    \cup {Entry("missing", "rule", r.id, r.sg_id, Group(old, r.sg_id).name) :
            r \in {x \in old.rules : x.sg_id \notin Ids(new)}}

Gone(old, new) ==
    {Entry("missing", "group", id, id, Group(old, id).name) : id \in Ids(old) \ Ids(new)}

New(old, new) ==
    {Entry("unexpected", "group", id, id, Group(new, id).name) : id \in Ids(new) \ Ids(old)}

Diff(old, new) ==
    Gone(old, new) \cup New(old, new)
    \cup UNION {DiffGroup(old, new, id) \cup DiffRules(old, new, id)
                  \cup DiffMembers(old, new, id) : id \in Ids(old) \cap Ids(new)}

\* "no drift", exit status 0.
NoDrift == Diff(taken, live) = {}

(***************************************************************************)
(* The snapshot command, and the changes of others.                        *)
(***************************************************************************)
Init ==
    /\ live \in FirstClouds
    /\ taken = live
    /\ changes = 0

Snapshot ==
    /\ taken' = live
    /\ UNCHANGED <<live, changes>>

Change(inv) ==
    /\ changes < MaxChanges
    /\ live' = inv
    /\ changes' = changes + 1
    /\ UNCHANGED taken

\* The platform's self rules come with the group.
AddGroup(sg) ==
    /\ sg.id \notin Ids(live)
    /\ \A r \in live.rules : r.remote_group_id # sg.id
    /\ \A p \in live.attached : p[1] # sg.id
    /\ Change([live EXCEPT
         !.sgs = @ \cup {sg},
         !.rules = @ \cup
            {[id |-> <<sg.id, d>>, sg_id |-> sg.id, direction |-> d.direction,
              service |-> d.service, remote_group_id |-> sg.id,
              remote_ip_prefix |-> None] : d \in DefaultRule}])

\* Refused while ports are attached.
RemoveGroup(sg) ==
    /\ \A p \in live.attached : p[1] # sg.id
    /\ Change([live EXCEPT !.sgs = @ \ {sg}, !.rules = {r \in @ : r.sg_id # sg.id}])

EditGroup(sg, name, description) ==
    /\ <<name, description>> # <<sg.name, sg.description>>
    /\ Change([live EXCEPT !.sgs =
         (@ \ {sg}) \cup {[id |-> sg.id, name |-> name, description |-> description]}])

AddRule(r) ==
    /\ r.sg_id \in Ids(live)
    /\ \A x \in live.rules : x.id # r.id
    /\ Change([live EXCEPT !.rules = @ \cup {r}])

RemoveRule(r) == Change([live EXCEPT !.rules = @ \ {r}])

AttachPort(id, port_id) ==
    /\ <<id, port_id>> \notin live.attached
    /\ Change([live EXCEPT !.attached = @ \cup {<<id, port_id>>}])

DetachPort(p) == Change([live EXCEPT !.attached = @ \ {p}])

\* A NIC gets other addresses; it is listed under the first.
Readdress(n, ips) ==
    /\ ips # n.ips
    /\ \E ip \in IF ips = {} THEN {None} ELSE ips :
          Change([live EXCEPT !.nics =
            (@ \ {n}) \cup {[port_id |-> n.port_id, ip |-> ip, ips |-> ips]}])

Next ==
    \/ Snapshot
    \/ \E sg \in Groups : AddGroup(sg)
    \/ \E sg \in live.sgs : RemoveGroup(sg)
    \/ \E sg \in live.sgs, name \in Name, description \in Description :
          EditGroup(sg, name, description)
    \/ \E r \in Rules : AddRule(r)
    \/ \E r \in live.rules : RemoveRule(r)
    \/ \E id \in Ids(live), n \in live.nics : AttachPort(id, n.port_id)
    \/ \E p \in live.attached : DetachPort(p)
    \/ \E n \in live.nics, ips \in Addresses : Readdress(n, ips)

Spec == Init /\ [][Next]_vars

-----------------------------------------------------------------------------
(***************************************************************************)
(* Properties.                                                             *)
(***************************************************************************)
EntryType ==
    LET of(type, ids) ==
          [part : {"missing", "unexpected", "changed"}, type : {type}, id : ids,
           sg_id : SgId, label : Name]
    IN  of("group", SgId) \cup of("rule", AnyRuleId) \cup of("member", PortId)

\* The name a group is known by: the live one, or the last one.
KnownName(old, new, id) == Group(IF id \in Ids(new) THEN new ELSE old, id).name

\* Both readings are well formed; an entry is about a group, a rule or a
\* member by its own kind of id, under the name its group is known by.
TypeOK ==
    /\ WellFormed(taken) /\ WellFormed(live)
    /\ changes \in 0..MaxChanges
    /\ \A e \in Diff(taken, live) :
          e \in EntryType /\ e.label = KnownName(taken, live, e.sg_id)

SamePlan(c) ==
    /\ Plannable(c, taken) = Plannable(c, live)
    /\ Plannable(c, taken) => Plan(c, taken) = Plan(c, live)

\* "No drift: the cloud matches the snapshot" (_cmd_drift), where the NICs
\* have kept their addresses: whatever the project, planning offline from
\* the snapshot is as good as planning from a live reading.
NoDriftSamePlan == NoDrift /\ taken.nics = live.nics => \A c \in Projects : SamePlan(c)

\* "Drift: N change(s) since the snapshot" (_cmd_drift): from a cloud that
\* matches the snapshot, one change of a group, a rule or a member makes N
\* one, also when a group comes or goes with its rules; a change undone
\* brings N back to none.
OneEntryPerChange ==
    [][/\ NoDrift /\ UNCHANGED <<taken, live.nics>> /\ live' # live
            => Cardinality(Diff(taken, live)') = 1
       /\ UNCHANGED taken /\ live' = taken => NoDrift']_vars

\* "No drift: the cloud matches the snapshot" (_cmd_drift), taken at its
\* word: it makes the same plans.
NoDriftMatches == NoDrift => \A c \in Projects : SamePlan(c)
=============================================================================
