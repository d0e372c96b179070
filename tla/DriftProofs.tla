---------------------------- MODULE DriftProofs -----------------------------
(***************************************************************************)
(* What an empty drift means, for every pair of readings, and that the     *)
(* cloud stays well formed under the changes of others.                    *)
(***************************************************************************)
EXTENDS Drift, PlannerProofs, FiniteSetTheorems

(***************************************************************************)
(* An empty diff.                                                          *)
(***************************************************************************)
\* Group is the group of that id.
LEMMA GroupFound ==
    ASSUME NEW inv, WellFormed(inv), NEW id \in Ids(inv)
    PROVE  /\ Group(inv, id) \in inv.sgs
           /\ Group(inv, id).id = id
           /\ \A sg \in inv.sgs : sg.id = id => sg = Group(inv, id)
<1>1. PICK sg \in inv.sgs : sg.id = id
  BY DEF Ids
<1>2. Group(inv, id) \in inv.sgs /\ Group(inv, id).id = id
  BY <1>1 DEF Group
<1> QED
  BY <1>2 DEF WellFormed

\* Without entries the two readings list the same ids.
LEMMA NoDiffIds ==
    ASSUME NEW old, NEW new, Diff(old, new) = {}
    PROVE  /\ Ids(old) = Ids(new)
           /\ \A id \in Ids(new) : /\ DiffGroup(old, new, id) = {}
                                   /\ DiffRules(old, new, id) = {}
                                   /\ DiffMembers(old, new, id) = {}
<1>1. Gone(old, new) = {} /\ New(old, new) = {}
  BY DEF Diff
<1>2. Ids(old) = Ids(new)
  BY <1>1 DEF Gone, New
<1> QED
  BY <1>2 DEF Diff

LEMMA OnlyInEmpty ==
    ASSUME NEW type, NEW sg_id, NEW label, NEW old, NEW new,
           OnlyIn(type, sg_id, label, old, new) = {}
    PROVE  old = new
<1>1. old \ new = {} /\ new \ old = {}
  BY DEF OnlyIn
<1> QED
  BY <1>1

LEMMA NoDiffGroups ==
    ASSUME NEW old, NEW new, WellFormed(old), WellFormed(new), Diff(old, new) = {}
    PROVE  old.sgs = new.sgs
<1>1. ASSUME NEW id \in Ids(new) PROVE Group(old, id) = Group(new, id)
  <2>1. id \in Ids(old) /\ DiffGroup(old, new, id) = {}
    BY NoDiffIds
  <2>2. ~GroupDiffers(Group(old, id), Group(new, id))
    BY <2>1 DEF DiffGroup
  <2>3. /\ Group(old, id) \in CloudSg /\ Group(new, id) \in CloudSg
        /\ Group(old, id).id = id /\ Group(new, id).id = id
    BY <2>1, GroupFound, InventoryType
  <2> QED
    BY <2>2, <2>3 DEF GroupDiffers, CloudSg
<1>2. Ids(old) = Ids(new)
  BY NoDiffIds
<1>3. ASSUME NEW sg \in old.sgs PROVE sg \in new.sgs
  <2>1. sg.id \in Ids(old) /\ sg.id \in Ids(new)
    BY <1>2 DEF Ids
  <2> QED
    BY <1>1, <2>1, GroupFound
<1>4. ASSUME NEW sg \in new.sgs PROVE sg \in old.sgs
  <2>1. sg.id \in Ids(old) /\ sg.id \in Ids(new)
    BY <1>2 DEF Ids
  <2> QED
    BY <1>1, <2>1, GroupFound
<1> QED
  BY <1>3, <1>4

LEMMA NoDiffRules ==
    ASSUME NEW old, NEW new, WellFormed(old), WellFormed(new), Diff(old, new) = {}
    PROVE  old.rules = new.rules
<1>1. ASSUME NEW id \in Ids(new) PROVE RulesIn(old, id) = RulesIn(new, id)
  <2> DEFINE IdsIn(inv) == {r.id : r \in RulesIn(inv, id)}
  <2>1. DiffRules(old, new, id) = {}
    BY NoDiffIds
  <2>2. OnlyIn("rule", id, Group(new, id).name, IdsIn(old), IdsIn(new)) = {}
    BY <2>1 DEF DiffRules
  <2>3. IdsIn(old) = IdsIn(new)
    <3> HIDE DEF IdsIn
    <3> QED
      BY <2>2, OnlyInEmpty
  <2>4. \A a \in RulesIn(old, id), b \in RulesIn(new, id) : b.id = a.id => b = a
    BY <2>1 DEF DiffRules
  <2>5. ASSUME NEW a \in RulesIn(old, id) PROVE a \in RulesIn(new, id)
    <3>1. a.id \in IdsIn(new)
      BY <2>3
    <3> QED
      BY <2>4, <3>1
  <2>6. ASSUME NEW b \in RulesIn(new, id) PROVE b \in RulesIn(old, id)
    <3>1. b.id \in IdsIn(old)
      BY <2>3
    <3> QED
      BY <2>4, <3>1
  <2> QED
    BY <2>5, <2>6
<1>2. Ids(old) = Ids(new)
  BY NoDiffIds
<1>3. /\ \A r \in old.rules : r.sg_id \in Ids(old) /\ r \in RulesIn(old, r.sg_id)
      /\ \A r \in new.rules : r.sg_id \in Ids(new) /\ r \in RulesIn(new, r.sg_id)
  BY DEF WellFormed, Ids, RulesIn
<1>4. ASSUME NEW r \in old.rules PROVE r \in new.rules
  BY <1>1, <1>2, <1>3 DEF RulesIn
<1>5. ASSUME NEW r \in new.rules PROVE r \in old.rules
  BY <1>1, <1>2, <1>3 DEF RulesIn
<1> QED
  BY <1>4, <1>5

\* Memberships agree for the groups the readings list.
LEMMA NoDiffMembers ==
    ASSUME NEW old, NEW new, Diff(old, new) = {}, NEW id \in Ids(new)
    PROVE  PortsIn(old, id) = PortsIn(new, id)
BY NoDiffIds, OnlyInEmpty DEF DiffMembers

(***************************************************************************)
(* The plan reads an inventory only through what the diff compares, and    *)
(* the addresses of the NICs.                                              *)
(***************************************************************************)
SameReading(old, new) ==
    /\ old.sgs = new.sgs /\ old.rules = new.rules /\ old.nics = new.nics
    /\ \A sg \in new.sgs : AttachedNics(old, sg.id) = AttachedNics(new, sg.id)

LEMMA NoDiffSameReading ==
    ASSUME NEW old, NEW new, WellFormed(old), WellFormed(new), Diff(old, new) = {},
           old.nics = new.nics
    PROVE  SameReading(old, new)
<1>1. old.sgs = new.sgs /\ old.rules = new.rules
  BY NoDiffGroups, NoDiffRules
<1>2. ASSUME NEW sg \in new.sgs, NEW n \in new.nics
      PROVE  <<sg.id, n.port_id>> \in old.attached <=> <<sg.id, n.port_id>> \in new.attached
  <2>1. PortsIn(old, sg.id) = PortsIn(new, sg.id)
    BY NoDiffMembers DEF Ids
  <2>2. old.attached \subseteq SgId \X PortId /\ new.attached \subseteq SgId \X PortId
    BY InventoryType
  <2>3. ASSUME NEW a \in {old.attached, new.attached}
        PROVE  <<sg.id, n.port_id>> \in a
                 <=> n.port_id \in {p[2] : p \in {x \in a : x[1] = sg.id}}
    BY <2>2
  <2> QED
    BY <2>1, <2>3 DEF PortsIn
<1> QED
  BY <1>1, <1>2 DEF SameReading, AttachedNics

LEMMA SameRefusals ==
    ASSUME NEW old, NEW new, SameReading(old, new), NEW c
    PROVE  Plannable(c, old) <=> Plannable(c, new)
BY DEF SameReading, Plannable, Unresolved, Resolves, NicsByIp, DuplicateNames, WholeEstate

LEMMA SameGroups ==
    ASSUME NEW old, NEW new, SameReading(old, new), NEW g
    PROVE  SgNamed(old, g) = SgNamed(new, g) /\ TargetId(old, g) = TargetId(new, g)
BY DEF SameReading, SgNamed, TargetId

LEMMA SameMembers ==
    ASSUME NEW old, NEW new, SameReading(old, new), NEW c, NEW g
    PROVE  PlanMembers(c, old, g) = PlanMembers(c, new, g)
<1>1. \A ip : Nic(old, ip) = Nic(new, ip)
  BY DEF SameReading, Nic, NicsByIp
<1>2. \A sg \in SgNamed(new, g) : AttachedNics(old, sg.id) = AttachedNics(new, sg.id)
  BY DEF SameReading, SgNamed
<1>3. AttachedIps(old, g) = AttachedIps(new, g)
  BY <1>2, SameGroups DEF AttachedIps
<1> QED
  BY <1>1, <1>2, <1>3, SameGroups DEF PlanMembers

LEMMA SameRules ==
    ASSUME NEW old, NEW new, SameReading(old, new), NEW c, NEW g
    PROVE  PlanRules(c, old, g) = PlanRules(c, new, g)
<1>1. \A r : IdentityOf(old, r) = IdentityOf(new, r)
  BY DEF SameReading, IdentityOf, RemoteOf
<1>2. ASSUME NEW d PROVE PlanManagedDirection(c, old, g, d) = PlanManagedDirection(c, new, g, d)
  <2>1. RulesOf(old, g, d) = RulesOf(new, g, d)
    BY SameGroups DEF RulesOf, SameReading
  <2>2. Stale(c, old, g, d) = Stale(c, new, g, d)
    BY <1>1, <2>1 DEF Stale
  <2> QED
    BY <1>1, <2>1, <2>2, SameGroups DEF PlanManagedDirection
<1> QED
  BY <1>2 DEF PlanRules

LEMMA SamePlans ==
    ASSUME NEW old, NEW new, SameReading(old, new), NEW c
    PROVE  Plan(c, old) = Plan(c, new)
<1>1. PlanAbsentGroups(c, old) = PlanAbsentGroups(c, new)
  BY DEF SameReading, PlanAbsentGroups
<1>2. \A g : PlanGroupRow(c, old, g) = PlanGroupRow(c, new, g)
  BY SameGroups DEF PlanGroupRow
<1> QED
  BY <1>1, <1>2, SameMembers, SameRules DEF Plan

(***************************************************************************)
(* The cloud stays well formed.                                            *)
(***************************************************************************)
WFInv == WellFormed(taken) /\ WellFormed(live)

\* The inventories the changes make.
LEMMA Put ==
    ASSUME NEW inv \in Inventory
    PROVE  /\ \A x \in SUBSET CloudSg : LET next == [inv EXCEPT !.sgs = x] IN
                /\ next \in Inventory
                /\ next.sgs = x /\ next.rules = inv.rules
                /\ next.attached = inv.attached /\ next.nics = inv.nics
           /\ \A x \in SUBSET CloudRule : LET next == [inv EXCEPT !.rules = x] IN
                /\ next \in Inventory
                /\ next.sgs = inv.sgs /\ next.rules = x
                /\ next.attached = inv.attached /\ next.nics = inv.nics
           /\ \A x \in SUBSET (SgId \X PortId) : LET next == [inv EXCEPT !.attached = x] IN
                /\ next \in Inventory
                /\ next.sgs = inv.sgs /\ next.rules = inv.rules
                /\ next.attached = x /\ next.nics = inv.nics
           /\ \A x \in SUBSET CloudNic : LET next == [inv EXCEPT !.nics = x] IN
                /\ next \in Inventory
                /\ next.sgs = inv.sgs /\ next.rules = inv.rules
                /\ next.attached = inv.attached /\ next.nics = x
BY DEF Inventory

LEMMA AddGroupWF ==
    ASSUME WFInv, NEW sg \in Groups, AddGroup(sg)
    PROVE  /\ WellFormed(live')
           /\ live'.sgs = live.sgs \cup {sg} /\ live'.attached = live.attached
           /\ live.rules \subseteq live'.rules
           /\ \A r \in live'.rules \ live.rules : r.sg_id = sg.id
<1> DEFINE self(d) == [id |-> <<sg.id, d>>, sg_id |-> sg.id, direction |-> d.direction,
                       service |-> d.service, remote_group_id |-> sg.id,
                       remote_ip_prefix |-> None]
           added == {self(d) : d \in DefaultRule}
<1>1. /\ live' = [live EXCEPT !.sgs = @ \cup {sg}, !.rules = @ \cup added]
      /\ sg.id \notin Ids(live)
  BY DEF AddGroup, Change
<1>3. sg \in CloudSg /\ sg.id \in SgId
  BY DriftAssumption DEF CloudSg
<1>4. \A r \in added : /\ r \in CloudRule /\ r.id \notin RuleId
                       /\ r.id[1] = sg.id /\ r.sg_id = sg.id
  <2>1. ASSUME NEW d \in DefaultRule
        PROVE  /\ self(d) \in CloudRule /\ self(d).id \notin RuleId
               /\ self(d).id[1] = sg.id /\ self(d).sg_id = sg.id
    <3>1. <<sg.id, d>> \in SgId \X DefaultRule
      BY <1>3
    <3>2. d.direction \in Direction /\ d.service \in Service
      BY EstateAssumption
    <3> QED
      BY <1>3, <3>1, <3>2, EstateAssumption DEF CloudRule, AnyRuleId
  <2> QED
    BY <2>1
<1>2. /\ live' \in Inventory
      /\ live'.sgs = live.sgs \cup {sg} /\ live'.rules = live.rules \cup added
      /\ live'.attached = live.attached /\ live'.nics = live.nics
  <2>1. live.sgs \cup {sg} \in SUBSET CloudSg /\ live.rules \cup added \in SUBSET CloudRule
    <3> HIDE DEF added
    <3> QED
      BY <1>3, <1>4, InventoryType DEF WFInv
  <2>2. live \in Inventory
    BY DEF WFInv, WellFormed
  <2> DEFINE x == live.sgs \cup {sg}
             y == live.rules \cup added
  <2>3. live' = [live EXCEPT !.sgs = x, !.rules = y]
    BY <1>1
  <2> HIDE DEF x, y
  <2>4. x \in SUBSET CloudSg /\ y \in SUBSET CloudRule
    BY <2>1 DEF x, y
  <2>5. /\ live' \in Inventory
        /\ live'.sgs = x /\ live'.rules = y
        /\ live'.attached = live.attached /\ live'.nics = live.nics
    BY <2>2, <2>3, <2>4 DEF Inventory
  <2> QED
    BY <2>5 DEF x, y
<1>6. \A x, y \in live'.sgs : x.id = y.id => x = y
  BY <1>1, <1>2 DEF Ids, WFInv, WellFormed
<1>7. \A r \in live.rules, q \in added : r.id # q.id
  <2> HIDE DEF added
  <2> QED
    BY <1>1, <1>4 DEF WFInv, WellFormed, Ids
<1>8. \A x, y \in added : x.id = y.id => x = y
  OBVIOUS
<1>9. \A x, y \in live'.rules : x.id = y.id => x = y
  <2> HIDE DEF added
  <2> QED
    BY <1>2, <1>7, <1>8 DEF WFInv, WellFormed
<1>10. \A r \in live'.rules : /\ \E x \in live'.sgs : x.id = r.sg_id
                              /\ r.id \notin RuleId => r.id[1] = r.sg_id
  <2> HIDE DEF added
  <2> QED
    BY <1>2, <1>4 DEF WFInv, WellFormed
<1> HIDE DEF added
<1> QED
  BY <1>2, <1>4, <1>6, <1>9, <1>10 DEF WellFormed, WFInv

LEMMA RemoveGroupWF ==
    ASSUME WFInv, NEW sg \in live.sgs, RemoveGroup(sg)
    PROVE  /\ WellFormed(live')
           /\ live'.sgs = live.sgs \ {sg} /\ live'.attached = live.attached
           /\ live'.rules = {r \in live.rules : r.sg_id # sg.id}
<1> DEFINE x == live.sgs \ {sg}
           y == {r \in live.rules : r.sg_id # sg.id}
<1>1. live' = [live EXCEPT !.sgs = x, !.rules = y]
  BY DEF RemoveGroup, Change
<1>2. live \in Inventory /\ x \in SUBSET CloudSg /\ y \in SUBSET CloudRule
  BY InventoryType DEF WFInv, WellFormed
<1>3. /\ live' \in Inventory
      /\ live'.sgs = x /\ live'.rules = y
      /\ live'.attached = live.attached /\ live'.nics = live.nics
  <2> HIDE DEF x, y
  <2> QED
    BY <1>1, <1>2 DEF Inventory
<1> QED
  BY <1>3 DEF WFInv, WellFormed

LEMMA EditGroupWF ==
    ASSUME WFInv, NEW sg \in live.sgs, NEW name \in Name, NEW description \in Description,
           EditGroup(sg, name, description)
    PROVE  /\ WellFormed(live')
           /\ live'.sgs = (live.sgs \ {sg}) \cup
                {[id |-> sg.id, name |-> name, description |-> description]}
           /\ live'.rules = live.rules /\ live'.attached = live.attached
<1> DEFINE edited == [id |-> sg.id, name |-> name, description |-> description]
<1>1. edited \in CloudSg /\ edited.id = sg.id
  BY InventoryType DEF WFInv, CloudSg
<1>2. /\ live' = [live EXCEPT !.sgs = (@ \ {sg}) \cup {edited}]
      /\ live \in Inventory
  BY DEF EditGroup, Change, WFInv, WellFormed
<1> HIDE DEF edited
<1>3. /\ live' \in Inventory
      /\ live'.sgs = (live.sgs \ {sg}) \cup {edited} /\ live'.rules = live.rules
      /\ live'.attached = live.attached /\ live'.nics = live.nics
  <2>1. (live.sgs \ {sg}) \cup {edited} \in SUBSET CloudSg
    BY <1>1, InventoryType DEF WFInv
  <2> QED
    BY <1>2, <2>1, Put
<1>4. \A x, y \in live'.sgs : x.id = y.id => x = y
  BY <1>1, <1>3 DEF WFInv, WellFormed
<1>5. \A r \in live'.rules : \E x \in live'.sgs : x.id = r.sg_id
  BY <1>1, <1>3 DEF WFInv, WellFormed
<1>6. WellFormed(live')
  BY <1>3, <1>4, <1>5 DEF WFInv, WellFormed
<1> QED
  BY <1>3, <1>6 DEF edited

LEMMA AddRuleWF ==
    ASSUME WFInv, NEW r \in Rules, AddRule(r)
    PROVE  /\ WellFormed(live')
           /\ live'.sgs = live.sgs /\ live'.attached = live.attached
           /\ live'.rules = live.rules \cup {r}
<1>1. r \in CloudRule /\ r.id \in RuleId
  BY DriftAssumption
<1>2. live.rules \cup {r} \in SUBSET CloudRule /\ live \in Inventory
  BY <1>1, InventoryType DEF WFInv, WellFormed
<1>3. /\ live' \in Inventory
      /\ live'.sgs = live.sgs /\ live'.rules = live.rules \cup {r}
      /\ live'.attached = live.attached /\ live'.nics = live.nics
  BY <1>2, Put DEF AddRule, Change
<1>4. /\ \A x, y \in live'.rules : x.id = y.id => x = y
      /\ \A x \in live'.rules : \E sg \in live'.sgs : sg.id = x.sg_id
  BY <1>3 DEF AddRule, Ids, WFInv, WellFormed
<1> QED
  BY <1>1, <1>3, <1>4 DEF WFInv, WellFormed

LEMMA RemoveRuleWF ==
    ASSUME WFInv, NEW r \in live.rules, RemoveRule(r)
    PROVE  /\ WellFormed(live')
           /\ live'.sgs = live.sgs /\ live'.attached = live.attached
           /\ live'.rules = live.rules \ {r}
<1>1. live.rules \ {r} \in SUBSET CloudRule /\ live \in Inventory
  BY InventoryType DEF WFInv, WellFormed
<1>2. /\ live' \in Inventory
      /\ live'.sgs = live.sgs /\ live'.rules = live.rules \ {r}
      /\ live'.attached = live.attached /\ live'.nics = live.nics
  BY <1>1, Put DEF RemoveRule, Change
<1> QED
  BY <1>2 DEF WFInv, WellFormed

LEMMA AttachPortWF ==
    ASSUME WFInv, NEW id \in Ids(live), NEW n \in live.nics, AttachPort(id, n.port_id)
    PROVE  /\ WellFormed(live')
           /\ live'.sgs = live.sgs /\ live'.rules = live.rules
           /\ live'.attached = live.attached \cup {<<id, n.port_id>>}
<1>1. id \in SgId /\ n.port_id \in PortId
  BY InventoryType DEF WFInv, Ids, CloudSg, CloudNic
<1>2. live.attached \cup {<<id, n.port_id>>} \in SUBSET (SgId \X PortId) /\ live \in Inventory
  BY <1>1, InventoryType DEF WFInv, WellFormed
<1>3. /\ live' \in Inventory
      /\ live'.sgs = live.sgs /\ live'.rules = live.rules
      /\ live'.attached = live.attached \cup {<<id, n.port_id>>} /\ live'.nics = live.nics
  BY <1>2, Put DEF AttachPort, Change
<1> QED
  BY <1>3 DEF WFInv, WellFormed

LEMMA DetachPortWF ==
    ASSUME WFInv, NEW p \in live.attached, DetachPort(p)
    PROVE  /\ WellFormed(live')
           /\ live'.sgs = live.sgs /\ live'.rules = live.rules
           /\ live'.attached = live.attached \ {p}
<1>1. live.attached \ {p} \in SUBSET (SgId \X PortId) /\ live \in Inventory
  BY InventoryType DEF WFInv, WellFormed
<1>2. /\ live' \in Inventory
      /\ live'.sgs = live.sgs /\ live'.rules = live.rules
      /\ live'.attached = live.attached \ {p} /\ live'.nics = live.nics
  BY <1>1, Put DEF DetachPort, Change
<1> QED
  BY <1>2 DEF WFInv, WellFormed

LEMMA ReaddressWF ==
    ASSUME WFInv, NEW n \in live.nics, NEW ips \in Addresses, Readdress(n, ips)
    PROVE  WellFormed(live') /\ live'.sgs = live.sgs /\ live'.attached = live.attached
<1>1. PICK ip \in IF ips = {} THEN {None} ELSE ips :
         live' = [live EXCEPT !.nics =
            (@ \ {n}) \cup {[port_id |-> n.port_id, ip |-> ip, ips |-> ips]}]
  BY DEF Readdress, Change
<1> DEFINE given == [port_id |-> n.port_id, ip |-> ip, ips |-> ips]
<1>2. /\ given \in CloudNic /\ given.port_id = n.port_id
      /\ given.ip \in given.ips \/ (given.ip = None /\ given.ips = {})
  <2>1. ips \subseteq Addr /\ n.port_id \in PortId
    BY DriftAssumption, InventoryType DEF WFInv, CloudNic
  <2> QED
    BY <2>1 DEF CloudNic
<1>3. live' = [live EXCEPT !.nics = (@ \ {n}) \cup {given}] /\ live \in Inventory
  BY <1>1 DEF WFInv, WellFormed
<1> HIDE DEF given
<1>4. (live.nics \ {n}) \cup {given} \in SUBSET CloudNic
  BY <1>2, InventoryType DEF WFInv
<1>5. /\ live' \in Inventory
      /\ live'.sgs = live.sgs /\ live'.rules = live.rules
      /\ live'.attached = live.attached /\ live'.nics = (live.nics \ {n}) \cup {given}
  BY <1>3, <1>4, Put
<1>6. \A x, y \in live'.nics : x.port_id = y.port_id => x = y
  BY <1>2, <1>5 DEF WFInv, WellFormed
<1>7. \A p \in live'.attached : \E x \in live'.nics : x.port_id = p[2]
  BY <1>2, <1>5 DEF WFInv, WellFormed
<1> QED
  BY <1>2, <1>5, <1>6, <1>7 DEF WFInv, WellFormed

LEMMA WFStep == WFInv /\ [Next]_vars => WFInv'
<1> SUFFICES ASSUME WFInv, [Next]_vars PROVE WFInv'
  OBVIOUS
<1>1. CASE UNCHANGED vars
  BY <1>1 DEF vars, WFInv
<1>2. CASE Snapshot
  BY <1>2 DEF Snapshot, WFInv
<1>3. ASSUME NEW inv, Change(inv) PROVE taken' = taken
  BY <1>3 DEF Change
<1>4. ASSUME NEW sg \in Groups, AddGroup(sg) PROVE WFInv'
  BY <1>3, <1>4, AddGroupWF DEF AddGroup, WFInv
<1>5. ASSUME NEW sg \in live.sgs, RemoveGroup(sg) PROVE WFInv'
  BY <1>3, <1>5, RemoveGroupWF DEF RemoveGroup, WFInv
<1>6. ASSUME NEW sg \in live.sgs, NEW name \in Name, NEW description \in Description,
             EditGroup(sg, name, description)
      PROVE  WFInv'
  BY <1>3, <1>6, EditGroupWF DEF EditGroup, WFInv
<1>7. ASSUME NEW r \in Rules, AddRule(r) PROVE WFInv'
  BY <1>3, <1>7, AddRuleWF DEF AddRule, WFInv
<1>8. ASSUME NEW r \in live.rules, RemoveRule(r) PROVE WFInv'
  BY <1>3, <1>8, RemoveRuleWF DEF RemoveRule, WFInv
<1>9. ASSUME NEW id \in Ids(live), NEW n \in live.nics, AttachPort(id, n.port_id) PROVE WFInv'
  BY <1>3, <1>9, AttachPortWF DEF AttachPort, WFInv
<1>10. ASSUME NEW p \in live.attached, DetachPort(p) PROVE WFInv'
  BY <1>3, <1>10, DetachPortWF DEF DetachPort, WFInv
<1>11. ASSUME NEW n \in live.nics, NEW ips \in Addresses, Readdress(n, ips) PROVE WFInv'
  BY <1>3, <1>11, ReaddressWF DEF Readdress, WFInv
<1> QED
  BY <1>1, <1>2, <1>4, <1>5, <1>6, <1>7, <1>8, <1>9, <1>10, <1>11 DEF Next

LEMMA InitWF == Init => WFInv
BY DriftAssumption DEF Init, WFInv

\* Both readings are well formed at every moment.
THEOREM ReadingsWellFormed == Spec => []WFInv
BY InitWF, WFStep, PTL DEF Spec

LEMMA SamePlanHolds == WFInv => NoDriftSamePlan
<1> SUFFICES ASSUME WFInv, NoDrift, taken.nics = live.nics, NEW c \in Projects
             PROVE  SamePlan(c)
  BY DEF NoDriftSamePlan
<1>1. SameReading(taken, live)
  BY NoDiffSameReading DEF WFInv, NoDrift
<1>2. (Plannable(c, taken) <=> Plannable(c, live)) /\ Plan(c, taken) = Plan(c, live)
  BY <1>1, SameRefusals, SamePlans
<1> QED
  BY <1>2 DEF SamePlan, Plannable, Unresolved, DuplicateNames, WholeEstate

\* "No drift: the cloud matches the snapshot" (_cmd_drift): however the cloud
\* was changed since the snapshot, when diff_inventory finds nothing and the
\* NICs have kept their addresses, every project is planned from the snapshot
\* as it is from a live reading, refusals included.
THEOREM NoDriftPlansTheSame == Spec => []NoDriftSamePlan
BY ReadingsWellFormed, SamePlanHolds, PTL

(***************************************************************************)
(* The entries.                                                            *)
(***************************************************************************)
Ids3 == [group |-> SgId, rule |-> AnyRuleId, member |-> PortId]

LEMMA EntryFields ==
    ASSUME NEW part \in {"missing", "unexpected", "changed"},
           NEW type \in {"group", "rule", "member"}, NEW id \in Ids3[type],
           NEW sg_id \in SgId, NEW label \in Name
    PROVE  /\ Entry(part, type, id, sg_id, label) \in EntryType
           /\ Entry(part, type, id, sg_id, label).sg_id = sg_id
           /\ Entry(part, type, id, sg_id, label).label = label
BY DEF Entry, EntryType, Ids3

LEMMA OnlyInType ==
    ASSUME NEW type \in {"group", "rule", "member"}, NEW sg_id \in SgId, NEW label \in Name,
           NEW old \in SUBSET Ids3[type], NEW new \in SUBSET Ids3[type]
    PROVE  \A e \in OnlyIn(type, sg_id, label, old, new) :
              e \in EntryType /\ e.sg_id = sg_id /\ e.label = label
BY EntryFields DEF OnlyIn

\* What diff_inventory prints, and under which name.
LEMMA DiffType ==
    ASSUME NEW old, NEW new, WellFormed(old), WellFormed(new)
    PROVE  \A e \in Diff(old, new) :
              e \in EntryType /\ e.label = KnownName(old, new, e.sg_id)
<1> DEFINE Good(S) == \A e \in S : e \in EntryType /\ e.label = KnownName(old, new, e.sg_id)
<1>1. ASSUME NEW inv, WellFormed(inv), NEW id \in Ids(inv)
      PROVE  id \in SgId /\ Group(inv, id).name \in Name
  BY <1>1, GroupFound, InventoryType DEF CloudSg
<1>2. Ids3["group"] = SgId /\ Ids3["rule"] = AnyRuleId /\ Ids3["member"] = PortId
  BY DEF Ids3
<1>3. ASSUME NEW id \in Ids(old) \ Ids(new)
      PROVE  Good({Entry("missing", "group", id, id, Group(old, id).name)})
  BY <1>1, <1>2, EntryFields DEF KnownName
<1>4. ASSUME NEW id \in Ids(new) \ Ids(old)
      PROVE  Good({Entry("unexpected", "group", id, id, Group(new, id).name)})
  BY <1>1, <1>2, EntryFields DEF KnownName
<1>5. Good(Gone(old, new)) /\ Good(New(old, new))
  BY <1>3, <1>4 DEF Gone, New
<1>6. ASSUME NEW id \in Ids(old) \cap Ids(new)
      PROVE  Good(DiffGroup(old, new, id) \cup DiffRules(old, new, id)
                     \cup DiffMembers(old, new, id))
  <2> DEFINE label == Group(new, id).name
  <2>1. id \in SgId /\ label \in Name /\ KnownName(old, new, id) = label
    BY <1>1 DEF KnownName
  <2>2. Good(DiffGroup(old, new, id))
    BY <2>1, <1>2, EntryFields DEF DiffGroup
  <2>3. \A inv \in {old, new} : \A r \in RulesIn(inv, id) : r.id \in AnyRuleId
    BY InventoryType DEF RulesIn, CloudRule
  <2>4. \A inv \in {old, new} : PortsIn(inv, id) \subseteq PortId
    BY InventoryType DEF PortsIn
  <2> HIDE DEF label
  <2>5. Good(OnlyIn("member", id, label, PortsIn(old, id), PortsIn(new, id)))
    BY <2>1, <2>4, <1>2, OnlyInType
  <2>6. Good(OnlyIn("rule", id, label, {r.id : r \in RulesIn(old, id)},
                                       {r.id : r \in RulesIn(new, id)}))
    BY <2>1, <2>3, <1>2, OnlyInType
  <2>7. \A a \in RulesIn(old, id) :
           LET e == Entry("changed", "rule", a.id, id, label)
           IN  e \in EntryType /\ e.label = KnownName(old, new, e.sg_id)
    BY <2>1, <2>3, <1>2, EntryFields
  <2>8. Good(DiffRules(old, new, id))
    BY <2>6, <2>7 DEF DiffRules, label
  <2>9. Good(DiffMembers(old, new, id))
    BY <2>5 DEF DiffMembers, label
  <2> QED
    BY <2>2, <2>8, <2>9
<1> QED
  BY <1>5, <1>6 DEF Diff

\* The number of changes is the model's own bound.
LEMMA ChangesBounded == Spec => [](changes \in 0..MaxChanges)
<1>1. Init => changes \in 0..MaxChanges
  BY DriftAssumption DEF Init
<1>2. changes \in 0..MaxChanges /\ [Next]_vars => (changes \in 0..MaxChanges)'
  <2>1. [Next]_vars => UNCHANGED changes \/ \E inv : Change(inv)
    <3>1. (\E sg \in Groups : AddGroup(sg)) => \E inv : Change(inv)
      BY DEF AddGroup
    <3>2. (\E sg \in live.sgs : RemoveGroup(sg)) => \E inv : Change(inv)
      BY DEF RemoveGroup
    <3>3. (\E sg \in live.sgs, name \in Name, description \in Description :
              EditGroup(sg, name, description)) => \E inv : Change(inv)
      BY DEF EditGroup
    <3>4. (\E r \in Rules : AddRule(r)) \/ (\E r \in live.rules : RemoveRule(r))
            => \E inv : Change(inv)
      BY DEF AddRule, RemoveRule
    <3>5. (\E id \in Ids(live), n \in live.nics : AttachPort(id, n.port_id))
            \/ (\E p \in live.attached : DetachPort(p)) => \E inv : Change(inv)
      BY DEF AttachPort, DetachPort
    <3>6. (\E n \in live.nics, ips \in Addresses : Readdress(n, ips)) => \E inv : Change(inv)
      BY DEF Readdress
    <3> QED
      BY <3>1, <3>2, <3>3, <3>4, <3>5, <3>6 DEF Next, Snapshot, vars
  <2> QED
    BY <2>1, DriftAssumption DEF Change
<1> QED
  BY <1>1, <1>2, PTL DEF Spec

\* Snapshot and cloud stay well formed whatever others do, and every entry of
\* a diff has its parts, the name its group is known by among them.
THEOREM TypeCorrect == Spec => []TypeOK
<1>1. WFInv /\ changes \in 0..MaxChanges => TypeOK
  BY DiffType DEF WFInv, TypeOK
<1> QED
  BY <1>1, ReadingsWellFormed, ChangesBounded, PTL

(***************************************************************************)
(* One change, one entry.                                                  *)
(***************************************************************************)
\* A port is in a listed group only, so the diff misses no membership.
ListedInv == Listed(taken) /\ Listed(live)

Matched == taken.sgs = live.sgs /\ taken.rules = live.rules /\ taken.attached = live.attached

LEMMA NoDriftMatched == ASSUME WFInv, ListedInv, NoDrift PROVE Matched
<1>1. taken.sgs = live.sgs /\ taken.rules = live.rules
  BY NoDiffGroups, NoDiffRules DEF WFInv, NoDrift
<1>2. \A sg \in live.sgs : PortsIn(taken, sg.id) = PortsIn(live, sg.id)
  BY NoDiffMembers DEF NoDrift, Ids
<1>3. taken.attached \subseteq SgId \X PortId /\ live.attached \subseteq SgId \X PortId
  BY InventoryType DEF WFInv
<1>4. ASSUME NEW p \in taken.attached PROVE p \in live.attached
  <2>1. PICK sg \in live.sgs : sg.id = p[1]
    BY <1>1 DEF ListedInv, Listed
  <2>2. p[2] \in PortsIn(live, sg.id)
    BY <1>2, <2>1 DEF PortsIn
  <2> QED
    BY <1>3, <2>1, <2>2 DEF PortsIn
<1>5. ASSUME NEW p \in live.attached PROVE p \in taken.attached
  <2>1. PICK sg \in live.sgs : sg.id = p[1]
    BY DEF ListedInv, Listed
  <2>2. p[2] \in PortsIn(taken, sg.id)
    BY <1>2, <2>1 DEF PortsIn
  <2> QED
    BY <1>3, <2>1, <2>2 DEF PortsIn
<1> QED
  BY <1>1, <1>4, <1>5 DEF Matched

\* The three kinds of entries a group both readings have can give.
LEMMA QuietGroup ==
    ASSUME NEW old, NEW new, NEW id, Group(old, id) = Group(new, id)
    PROVE  DiffGroup(old, new, id) = {}
BY DEF DiffGroup, GroupDiffers

LEMMA QuietRules ==
    ASSUME NEW old, NEW new, NEW id, RulesIn(old, id) = RulesIn(new, id), WellFormed(old)
    PROVE  DiffRules(old, new, id) = {}
<1>1. OnlyIn("rule", id, Group(new, id).name, {r.id : r \in RulesIn(old, id)},
             {r.id : r \in RulesIn(new, id)}) = {}
  BY DEF OnlyIn
<1>2. \A a, b \in RulesIn(old, id) : b.id = a.id => b = a
  BY DEF RulesIn, WellFormed
<1> QED
  BY <1>1, <1>2 DEF DiffRules

LEMMA QuietMembers ==
    ASSUME NEW old, NEW new, NEW id, PortsIn(old, id) = PortsIn(new, id)
    PROVE  DiffMembers(old, new, id) = {}
BY DEF DiffMembers, OnlyIn

\* Nothing changed, nothing shown.
LEMMA SelfDiff == ASSUME NEW inv, WellFormed(inv) PROVE Diff(inv, inv) = {}
<1>1. Gone(inv, inv) = {} /\ New(inv, inv) = {}
  BY DEF Gone, New
<1> QED
  BY <1>1, QuietGroup, QuietRules, QuietMembers DEF Diff

\* A group of both readings that no change touched is the same group.
LEMMA SameGroup ==
    ASSUME NEW old, NEW new, WellFormed(old), WellFormed(new),
           NEW sg \in old.sgs, sg \in new.sgs
    PROVE  Group(old, sg.id) = Group(new, sg.id)
BY GroupFound DEF Ids

LEMMA AddGroupShown ==
    ASSUME WFInv, ListedInv, Matched, NEW sg \in Groups, AddGroup(sg)
    PROVE  \E e : Diff(taken, live') = {e}
<1> DEFINE e == Entry("unexpected", "group", sg.id, sg.id, Group(live', sg.id).name)
<1>1. /\ WellFormed(live')
      /\ live'.sgs = live.sgs \cup {sg} /\ live'.attached = live.attached
      /\ live.rules \subseteq live'.rules
      /\ \A r \in live'.rules \ live.rules : r.sg_id = sg.id
  BY AddGroupWF
<1>2. sg.id \notin Ids(live)
  BY DEF AddGroup
<1>3. Ids(taken) = Ids(live) /\ Ids(live') = Ids(live) \cup {sg.id}
  BY <1>1 DEF Ids, Matched
<1>4. Gone(taken, live') = {}
  BY <1>3 DEF Gone
<1>5. New(taken, live') = {e}
  BY <1>2, <1>3 DEF New
<1>6. ASSUME NEW id \in Ids(taken) \cap Ids(live')
      PROVE  DiffGroup(taken, live', id) \cup DiffRules(taken, live', id)
               \cup DiffMembers(taken, live', id) = {}
  <2>1. PICK x \in live.sgs : x.id = id
    BY <1>3 DEF Ids
  <2>2. Group(taken, id) = Group(live', id)
    BY <1>1, <2>1, SameGroup DEF WFInv, Matched
  <2>3. RulesIn(taken, id) = RulesIn(live', id)
    BY <1>1, <1>2, <1>3 DEF RulesIn, Matched
  <2>4. PortsIn(taken, id) = PortsIn(live', id)
    BY <1>1 DEF PortsIn, Matched
  <2> QED
    BY <2>2, <2>3, <2>4, QuietGroup, QuietRules, QuietMembers DEF WFInv
<1> HIDE DEF e
<1>7. Diff(taken, live') = {e}
  BY <1>4, <1>5, <1>6 DEF Diff
<1> QED
  BY <1>7

LEMMA RemoveGroupShown ==
    ASSUME WFInv, ListedInv, Matched, NEW sg \in live.sgs, RemoveGroup(sg)
    PROVE  \E e : Diff(taken, live') = {e}
<1> DEFINE e == Entry("missing", "group", sg.id, sg.id, Group(taken, sg.id).name)
<1>1. /\ WellFormed(live')
      /\ live'.sgs = live.sgs \ {sg} /\ live'.attached = live.attached
      /\ live'.rules = {r \in live.rules : r.sg_id # sg.id}
  BY RemoveGroupWF
<1>2. Ids(taken) = Ids(live) /\ Ids(live') = Ids(live) \ {sg.id} /\ sg.id \in Ids(live)
  BY <1>1 DEF Ids, Matched, WFInv, WellFormed
<1>3. Gone(taken, live') = {e}
  BY <1>2 DEF Gone
<1>4. New(taken, live') = {}
  BY <1>2 DEF New
<1>5. ASSUME NEW id \in Ids(taken) \cap Ids(live')
      PROVE  DiffGroup(taken, live', id) \cup DiffRules(taken, live', id)
               \cup DiffMembers(taken, live', id) = {}
  <2>1. PICK x \in live'.sgs : x.id = id
    BY DEF Ids
  <2>2. Group(taken, id) = Group(live', id)
    BY <1>1, <2>1, SameGroup DEF WFInv, Matched
  <2>3. RulesIn(taken, id) = RulesIn(live', id)
    BY <1>1, <1>2 DEF RulesIn, Matched
  <2>4. PortsIn(taken, id) = PortsIn(live', id)
    BY <1>1 DEF PortsIn, Matched
  <2> QED
    BY <2>2, <2>3, <2>4, QuietGroup, QuietRules, QuietMembers DEF WFInv
<1> HIDE DEF e
<1>6. Diff(taken, live') = {e}
  BY <1>3, <1>4, <1>5 DEF Diff
<1> QED
  BY <1>6

\* A change inside one group leaves the entries of that group alone.
LEMMA InsideOne ==
    ASSUME NEW old, NEW new, Ids(old) = Ids(new), NEW id \in Ids(new),
           \A x \in Ids(new) \ {id} : /\ DiffGroup(old, new, x) = {}
                                      /\ DiffRules(old, new, x) = {}
                                      /\ DiffMembers(old, new, x) = {}
    PROVE  Diff(old, new) = DiffGroup(old, new, id) \cup DiffRules(old, new, id)
                              \cup DiffMembers(old, new, id)
<1>1. Gone(old, new) = {} /\ New(old, new) = {}
  BY DEF Gone, New
<1> QED
  BY <1>1 DEF Diff

LEMMA EditGroupShown ==
    ASSUME WFInv, ListedInv, Matched, NEW sg \in live.sgs, NEW name \in Name,
           NEW description \in Description, EditGroup(sg, name, description)
    PROVE  \E e : Diff(taken, live') = {e}
<1> DEFINE edited == [id |-> sg.id, name |-> name, description |-> description]
           e == Entry("changed", "group", sg.id, sg.id, Group(live', sg.id).name)
<1>1. /\ WellFormed(live')
      /\ live'.sgs = (live.sgs \ {sg}) \cup {edited}
      /\ live'.rules = live.rules /\ live'.attached = live.attached
  BY EditGroupWF
<1>2. edited.id = sg.id /\ GroupDiffers(sg, edited)
  BY DEF EditGroup, GroupDiffers
<1> HIDE DEF edited, e
<1>3. Ids(taken) = Ids(live') /\ sg.id \in Ids(live')
  BY <1>1, <1>2 DEF Ids, Matched
<1>4. \A id : /\ DiffRules(taken, live', id) = {}
              /\ DiffMembers(taken, live', id) = {}
  BY <1>1, QuietRules, QuietMembers DEF RulesIn, PortsIn, Matched, WFInv
<1>5. ASSUME NEW id \in Ids(live') \ {sg.id} PROVE DiffGroup(taken, live', id) = {}
  <2>1. PICK x \in live'.sgs : x.id = id /\ x \in live.sgs
    BY <1>1, <1>2 DEF Ids
  <2> QED
    BY <1>1, <2>1, SameGroup, QuietGroup DEF WFInv, Matched
<1>6. Group(taken, sg.id) = sg /\ Group(live', sg.id) = edited
  BY <1>1, <1>2, <1>3, GroupFound DEF Matched, WFInv
<1>7. DiffGroup(taken, live', sg.id) = {e}
  BY <1>2, <1>6 DEF DiffGroup, e
<1>8. Diff(taken, live') = {e}
  BY <1>3, <1>4, <1>5, <1>7, InsideOne
<1> QED
  BY <1>8

\* Groups and memberships as they were, what is shown is in one group's rules.
LEMMA OneRuleSet ==
    ASSUME WFInv, Matched, WellFormed(live'), live'.sgs = live.sgs,
           live'.attached = live.attached, NEW id \in Ids(live),
           \A r \in (live'.rules \ live.rules) \cup (live.rules \ live'.rules) : r.sg_id = id
    PROVE  Diff(taken, live') = DiffRules(taken, live', id)
<1>1. Ids(taken) = Ids(live') /\ id \in Ids(live')
  BY DEF Ids, Matched
<1>2. \A x : DiffMembers(taken, live', x) = {}
  BY QuietMembers DEF PortsIn, Matched
<1>3. \A x \in Ids(live') : DiffGroup(taken, live', x) = {}
  BY QuietGroup DEF Group, Matched
<1>4. ASSUME NEW x \in Ids(live') \ {id} PROVE DiffRules(taken, live', x) = {}
  <2>1. RulesIn(taken, x) = RulesIn(live', x)
    BY DEF RulesIn, Matched
  <2> QED
    BY <2>1, QuietRules DEF WFInv
<1> QED
  BY <1>1, <1>2, <1>3, <1>4, InsideOne

LEMMA AddRuleShown ==
    ASSUME WFInv, Matched, NEW r \in Rules, AddRule(r)
    PROVE  \E e : Diff(taken, live') = {e}
<1>1. /\ WellFormed(live')
      /\ live'.sgs = live.sgs /\ live'.attached = live.attached
      /\ live'.rules = live.rules \cup {r}
  BY AddRuleWF
<1>2. r.sg_id \in Ids(live) /\ \A x \in live.rules : x.id # r.id
  BY DEF AddRule
<1> DEFINE label == Group(live', r.sg_id).name
           e == Entry("unexpected", "rule", r.id, r.sg_id, label)
           was == {x.id : x \in RulesIn(taken, r.sg_id)}
           now == {x.id : x \in RulesIn(live', r.sg_id)}
<1>3. Diff(taken, live') = DiffRules(taken, live', r.sg_id)
  BY <1>1, <1>2, OneRuleSet
<1>4. was \ now = {} /\ now \ was = {r.id}
  BY <1>1, <1>2 DEF RulesIn, Matched
<1>5. \A a \in RulesIn(taken, r.sg_id), b \in RulesIn(live', r.sg_id) : b.id = a.id => b = a
  BY <1>1, <1>2 DEF RulesIn, Matched, WFInv, WellFormed
<1>6. OnlyIn("rule", r.sg_id, label, was, now) = {e}
  <2> HIDE DEF was, now, label
  <2> QED
    BY <1>4 DEF OnlyIn
<1>7. DiffRules(taken, live', r.sg_id) = {e}
  <2> HIDE DEF e
  <2> QED
    BY <1>5, <1>6 DEF DiffRules
<1> QED
  BY <1>3, <1>7

LEMMA RemoveRuleShown ==
    ASSUME WFInv, Matched, NEW r \in live.rules, RemoveRule(r)
    PROVE  \E e : Diff(taken, live') = {e}
<1>1. /\ WellFormed(live')
      /\ live'.sgs = live.sgs /\ live'.attached = live.attached
      /\ live'.rules = live.rules \ {r}
  BY RemoveRuleWF
<1>2. r.sg_id \in Ids(live) /\ \A x \in live.rules : x.id = r.id => x = r
  BY DEF WFInv, WellFormed, Ids
<1> DEFINE label == Group(live', r.sg_id).name
           e == Entry("missing", "rule", r.id, r.sg_id, label)
           was == {x.id : x \in RulesIn(taken, r.sg_id)}
           now == {x.id : x \in RulesIn(live', r.sg_id)}
<1>3. Diff(taken, live') = DiffRules(taken, live', r.sg_id)
  BY <1>1, <1>2, OneRuleSet
<1>4. was \ now = {r.id} /\ now \ was = {}
  BY <1>1, <1>2 DEF RulesIn, Matched
<1>5. \A a \in RulesIn(taken, r.sg_id), b \in RulesIn(live', r.sg_id) : b.id = a.id => b = a
  BY <1>1 DEF RulesIn, Matched, WFInv, WellFormed
<1>6. OnlyIn("rule", r.sg_id, label, was, now) = {e}
  <2> HIDE DEF was, now, label
  <2> QED
    BY <1>4 DEF OnlyIn
<1>7. DiffRules(taken, live', r.sg_id) = {e}
  <2> HIDE DEF e
  <2> QED
    BY <1>5, <1>6 DEF DiffRules
<1> QED
  BY <1>3, <1>7

\* The same for the memberships of one group.
LEMMA OneMemberSet ==
    ASSUME WFInv, Matched, live'.sgs = live.sgs, live'.rules = live.rules,
           NEW id \in Ids(live),
           \A x \in Ids(live) \ {id} : PortsIn(live, x) = PortsIn(live', x)
    PROVE  Diff(taken, live') = DiffMembers(taken, live', id)
<1>1. Ids(taken) = Ids(live') /\ Ids(live') = Ids(live)
  BY DEF Ids, Matched
<1>2. \A x : DiffRules(taken, live', x) = {}
  BY QuietRules DEF RulesIn, Matched, WFInv
<1>3. \A x : DiffGroup(taken, live', x) = {}
  BY QuietGroup DEF Group, Matched
<1>4. ASSUME NEW x \in Ids(live') \ {id} PROVE DiffMembers(taken, live', x) = {}
  <2>1. PortsIn(taken, x) = PortsIn(live', x)
    BY <1>1 DEF PortsIn, Matched
  <2> QED
    BY <2>1, QuietMembers
<1> QED
  BY <1>1, <1>2, <1>3, <1>4, InsideOne

LEMMA AttachPortShown ==
    ASSUME WFInv, Matched, NEW id \in Ids(live), NEW n \in live.nics, AttachPort(id, n.port_id)
    PROVE  \E e : Diff(taken, live') = {e}
<1>1. /\ live'.sgs = live.sgs /\ live'.rules = live.rules
      /\ live'.attached = live.attached \cup {<<id, n.port_id>>}
      /\ <<id, n.port_id>> \notin live.attached
  BY AttachPortWF DEF AttachPort
<1>2. live.attached \subseteq SgId \X PortId
  BY InventoryType DEF WFInv
<1>3. Diff(taken, live') = DiffMembers(taken, live', id)
  <2>1. \A x \in Ids(live) \ {id} : PortsIn(live, x) = PortsIn(live', x)
    BY <1>1 DEF PortsIn
  <2> QED
    BY <1>1, <2>1, OneMemberSet
<1> DEFINE e == Entry("unexpected", "member", n.port_id, id, Group(live', id).name)
<1>4. PortsIn(live', id) = PortsIn(taken, id) \cup {n.port_id} /\ n.port_id \notin PortsIn(taken, id)
  BY <1>1, <1>2 DEF PortsIn, Matched
<1>5. DiffMembers(taken, live', id) = {e}
  BY <1>4 DEF DiffMembers, OnlyIn
<1> QED
  BY <1>3, <1>5

LEMMA DetachPortShown ==
    ASSUME WFInv, ListedInv, Matched, NEW p \in live.attached, DetachPort(p)
    PROVE  \E e : Diff(taken, live') = {e}
<1> DEFINE id == p[1]
           e == Entry("missing", "member", p[2], id, Group(live', id).name)
<1>1. /\ live'.sgs = live.sgs /\ live'.rules = live.rules
      /\ live'.attached = live.attached \ {p}
  BY DetachPortWF
<1>2. live.attached \subseteq SgId \X PortId
  BY InventoryType DEF WFInv
<1>3. id \in Ids(live)
  BY DEF ListedInv, Listed, Ids
<1>4. Diff(taken, live') = DiffMembers(taken, live', id)
  <2>1. \A x \in Ids(live) \ {id} : PortsIn(live, x) = PortsIn(live', x)
    BY <1>1 DEF PortsIn
  <2> QED
    BY <1>1, <1>3, <2>1, OneMemberSet
<1>5. PortsIn(live', id) = PortsIn(taken, id) \ {p[2]} /\ p[2] \in PortsIn(taken, id)
  BY <1>1, <1>2 DEF PortsIn, Matched
<1>6. DiffMembers(taken, live', id) = {e}
  BY <1>5 DEF DiffMembers, OnlyIn
<1> QED
  BY <1>4, <1>6

LEMMA ListedStep == WFInv /\ ListedInv /\ [Next]_vars => ListedInv'
<1> SUFFICES ASSUME WFInv, ListedInv, [Next]_vars PROVE ListedInv'
  OBVIOUS
<1>1. CASE UNCHANGED vars
  BY <1>1 DEF vars, ListedInv
<1>2. CASE Snapshot
  BY <1>2 DEF Snapshot, ListedInv
<1>3. ASSUME NEW inv, Change(inv) PROVE taken' = taken
  BY <1>3 DEF Change
<1>4. ASSUME NEW sg \in Groups, AddGroup(sg) PROVE ListedInv'
  BY <1>3, <1>4, AddGroupWF DEF AddGroup, ListedInv, Listed
<1>5. ASSUME NEW sg \in live.sgs, RemoveGroup(sg) PROVE ListedInv'
  BY <1>3, <1>5, RemoveGroupWF DEF RemoveGroup, ListedInv, Listed
<1>6. ASSUME NEW sg \in live.sgs, NEW name \in Name, NEW description \in Description,
             EditGroup(sg, name, description)
      PROVE  ListedInv'
  <2>1. /\ live'.sgs = (live.sgs \ {sg}) \cup
             {[id |-> sg.id, name |-> name, description |-> description]}
        /\ live'.attached = live.attached
    BY <1>6, EditGroupWF
  <2>2. taken' = taken
    BY <1>3, <1>6 DEF EditGroup
  <2>3. \A x \in live.sgs : \E y \in live'.sgs : y.id = x.id
    BY <2>1
  <2> QED
    BY <2>1, <2>2, <2>3 DEF ListedInv, Listed
<1>7. ASSUME NEW r \in Rules, AddRule(r) PROVE ListedInv'
  BY <1>3, <1>7, AddRuleWF DEF AddRule, ListedInv, Listed
<1>8. ASSUME NEW r \in live.rules, RemoveRule(r) PROVE ListedInv'
  BY <1>3, <1>8, RemoveRuleWF DEF RemoveRule, ListedInv, Listed
<1>9. ASSUME NEW id \in Ids(live), NEW n \in live.nics, AttachPort(id, n.port_id)
      PROVE  ListedInv'
  BY <1>3, <1>9, AttachPortWF DEF AttachPort, ListedInv, Listed, Ids
<1>10. ASSUME NEW p \in live.attached, DetachPort(p) PROVE ListedInv'
  BY <1>3, <1>10, DetachPortWF DEF DetachPort, ListedInv, Listed
<1>11. ASSUME NEW n \in live.nics, NEW ips \in Addresses, Readdress(n, ips) PROVE ListedInv'
  BY <1>3, <1>11, ReaddressWF DEF Readdress, ListedInv, Listed
<1> QED
  BY <1>1, <1>2, <1>4, <1>5, <1>6, <1>7, <1>8, <1>9, <1>10, <1>11 DEF Next

LEMMA ReaddressMoves ==
    ASSUME WFInv, NEW n \in live.nics, NEW ips \in Addresses, Readdress(n, ips)
    PROVE  live'.nics # live.nics
<1>1. PICK ip : live' = [live EXCEPT !.nics =
          (@ \ {n}) \cup {[port_id |-> n.port_id, ip |-> ip, ips |-> ips]}]
  BY DEF Readdress, Change
<1>2. live'.nics = (live.nics \ {n}) \cup {[port_id |-> n.port_id, ip |-> ip, ips |-> ips]}
  BY <1>1 DEF WFInv, WellFormed, Inventory
<1>3. n \notin live'.nics
  BY <1>2 DEF Readdress
<1> QED
  BY <1>3

LEMMA OneEntryStep ==
    ASSUME WFInv, ListedInv, [Next]_vars, NoDrift, UNCHANGED <<taken, live.nics>>, live' # live
    PROVE  Cardinality(Diff(taken, live)') = 1
<1>1. Matched
  BY NoDriftMatched
<1>2. ~UNCHANGED vars /\ ~Snapshot
  BY DEF vars, Snapshot
<1>3. \E e : Diff(taken, live') = {e}
  <2>1. ASSUME NEW sg \in Groups, AddGroup(sg) PROVE \E e : Diff(taken, live') = {e}
    BY <1>1, <2>1, AddGroupShown
  <2>2. ASSUME NEW sg \in live.sgs, RemoveGroup(sg) PROVE \E e : Diff(taken, live') = {e}
    BY <1>1, <2>2, RemoveGroupShown
  <2>3. ASSUME NEW sg \in live.sgs, NEW name \in Name, NEW description \in Description,
               EditGroup(sg, name, description)
        PROVE  \E e : Diff(taken, live') = {e}
    BY <1>1, <2>3, EditGroupShown
  <2>4. ASSUME NEW r \in Rules, AddRule(r) PROVE \E e : Diff(taken, live') = {e}
    BY <1>1, <2>4, AddRuleShown
  <2>5. ASSUME NEW r \in live.rules, RemoveRule(r) PROVE \E e : Diff(taken, live') = {e}
    BY <1>1, <2>5, RemoveRuleShown
  <2>6. ASSUME NEW id \in Ids(live), NEW n \in live.nics, AttachPort(id, n.port_id)
        PROVE  \E e : Diff(taken, live') = {e}
    BY <1>1, <2>6, AttachPortShown
  <2>7. ASSUME NEW p \in live.attached, DetachPort(p) PROVE \E e : Diff(taken, live') = {e}
    BY <1>1, <2>7, DetachPortShown
  <2>8. ASSUME NEW n \in live.nics, NEW ips \in Addresses, Readdress(n, ips) PROVE FALSE
    BY <2>8, ReaddressMoves
  <2> QED
    BY <1>2, <2>1, <2>2, <2>3, <2>4, <2>5, <2>6, <2>7, <2>8 DEF Next
<1>4. Diff(taken, live)' = Diff(taken, live')
  OBVIOUS
<1> QED
  BY <1>3, <1>4, FS_Singleton

\* "Drift: N change(s) since the snapshot" (_cmd_drift): from a cloud that
\* matches the snapshot, every single change of a group, a rule or a member
\* is one entry of diff_inventory, and undoing it is none.
THEOREM OneEntryForOneChange == Spec => OneEntryPerChange
<1> DEFINE Step == /\ NoDrift /\ UNCHANGED <<taken, live.nics>> /\ live' # live
                        => Cardinality(Diff(taken, live)') = 1
                   /\ UNCHANGED taken /\ live' = taken => NoDrift'
<1>1. WFInv /\ ListedInv /\ [Next]_vars => [Step]_vars
  <2> SUFFICES ASSUME WFInv, ListedInv, [Next]_vars PROVE Step
    OBVIOUS
  <2>1. NoDrift /\ UNCHANGED <<taken, live.nics>> /\ live' # live
          => Cardinality(Diff(taken, live)') = 1
    BY OneEntryStep
  <2>2. UNCHANGED taken /\ live' = taken => NoDrift'
    BY SelfDiff DEF NoDrift, WFInv
  <2> QED
    BY <2>1, <2>2
<1>2. Init => ListedInv
  BY DriftAssumption DEF Init, ListedInv
<1> QED
  BY <1>1, <1>2, InitWF, WFStep, ListedStep, PTL DEF Spec, OneEntryPerChange
=============================================================================
