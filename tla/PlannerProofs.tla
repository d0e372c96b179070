--------------------------- MODULE PlannerProofs ----------------------------
(***************************************************************************)
(* What engine.plan can put in an action list, for every project and every *)
(* inventory.                                                              *)
(***************************************************************************)
EXTENDS Planner, TLAPS

(***************************************************************************)
(* The nouns have the types they were declared with.                       *)
(***************************************************************************)
LEMMA LoadedType ==
    ASSUME NEW code, Loaded(code)
    PROVE  /\ code.groups \subseteq GroupName
           /\ code.description \in [GroupName -> Description]
           /\ code.members \subseteq GroupName \X V4
           /\ code.managed \subseteq GroupName \X Direction
           /\ code.rules \subseteq CodeRule
BY DEF Loaded, DesiredState

LEMMA InventoryType ==
    ASSUME NEW inv, WellFormed(inv)
    PROVE  /\ inv.sgs \subseteq CloudSg
           /\ inv.rules \subseteq CloudRule
           /\ inv.attached \subseteq SgId \X PortId
           /\ inv.nics \subseteq CloudNic
BY DEF WellFormed, Inventory

\* The sub-rules of code rules are single-range rules with a coded remote.
LEMMA WantedType ==
    ASSUME NEW code, Loaded(code), NEW g, NEW d
    PROVE  Wanted(code, g, d) \subseteq RuleIdentity
<1>1. code.rules \subseteq CodeRule
  BY LoadedType
<1>2. ASSUME NEW r \in code.rules PROVE SubRules(r) \subseteq RuleIdentity
  BY <1>1, <1>2 DEF SubRules, Identity, CodeRule, RuleIdentity
<1> QED
  BY <1>2 DEF Wanted

\* A wanted identity has the direction it is wanted for.
LEMMA WantedDirection ==
    ASSUME NEW code, NEW g, NEW d, NEW w \in Wanted(code, g, d)
    PROVE  w.direction = d
BY DEF Wanted, SubRules, Identity

LEMMA TargetIdType ==
    ASSUME NEW inv, WellFormed(inv), NEW g
    PROVE  TargetId(inv, g) \in SgId \cup {None}
<1>1. SgNamed(inv, g) \subseteq CloudSg
  BY InventoryType DEF SgNamed
<1>2. CASE SgNamed(inv, g) = {}
  BY <1>2 DEF TargetId
<1>3. CASE SgNamed(inv, g) # {}
  <2>1. (CHOOSE sg \in SgNamed(inv, g) : TRUE) \in SgNamed(inv, g)
    BY <1>3
  <2> QED
    BY <1>1, <1>3, <2>1 DEF TargetId, CloudSg
<1> QED
  BY <1>2, <1>3

\* The NIC of a resolvable address is a NIC of the inventory with that address.
LEMMA NicResolves ==
    ASSUME NEW inv, NEW ip, Resolves(inv, ip)
    PROVE  Nic(inv, ip) \in NicsByIp(inv, ip) /\ Nic(inv, ip) \in inv.nics
<1>1. NicsByIp(inv, ip) # {}
  BY DEF Resolves
<1>2. Nic(inv, ip) \in NicsByIp(inv, ip)
  BY <1>1 DEF Nic
<1> QED
  BY <1>2 DEF NicsByIp

(***************************************************************************)
(* Where each kind of action can come from.  The executor's proofs cite    *)
(* these instead of expanding Plan.                                        *)
(***************************************************************************)
LEMMA PlanCases ==
    ASSUME NEW code, NEW inv, NEW a \in Plan(code, inv)
    PROVE  \/ a \in PlanAbsentGroups(code, inv)
           \/ \E g \in code.groups : a \in PlanGroupRow(code, inv, g)
           \/ \E g \in code.groups : a \in PlanMembers(code, inv, g)
           \/ \E g \in code.groups : a \in PlanRules(code, inv, g)
BY DEF Plan

LEMMA AbsentCases ==
    ASSUME NEW code, NEW inv, NEW a \in PlanAbsentGroups(code, inv)
    PROVE  \E sg \in inv.sgs :
             /\ sg.name \notin code.groups
             /\ \/ a = DeleteSg(sg.name, sg.id)
                \/ \E n \in AttachedNics(inv, sg.id) : a = DetachNic(sg.name, sg.id, n.port_id)
BY DEF PlanAbsentGroups

LEMMA GroupRowCases ==
    ASSUME NEW code, NEW inv, NEW g, NEW a \in PlanGroupRow(code, inv, g)
    PROVE  \/ SgNamed(inv, g) = {} /\ a = CreateSg(g, code.description[g])
           \/ \E sg \in SgNamed(inv, g) : a = UpdateSg(g, sg.id, code.description[g])
BY DEF PlanGroupRow

LEMMA MembersCases ==
    ASSUME NEW code, NEW inv, NEW g, NEW a \in PlanMembers(code, inv, g)
    PROVE  \/ \E ip \in DesiredIps(code, g) :
                a = AttachNic(g, TargetId(inv, g), Nic(inv, ip).port_id, ip)
           \/ \E sg \in SgNamed(inv, g) : \E n \in AttachedNics(inv, sg.id) :
                n.ip \notin DesiredIps(code, g) /\ a = DetachNic(g, sg.id, n.port_id)
BY DEF PlanMembers

LEMMA RulesCases ==
    ASSUME NEW code, NEW inv, NEW g, NEW a \in PlanRules(code, inv, g)
    PROVE  \E d \in Direction :
             /\ <<g, d>> \in code.managed
             /\ \/ \E w \in Wanted(code, g, d) : a = CreateRule(g, TargetId(inv, g), w)
                \/ \E r \in Stale(code, inv, g, d) : a = DeleteRule(g, r.id)
BY DEF PlanRules, PlanManagedDirection

\* Every payload of a plan is well typed: in particular a blank group id can
\* only be in a CreateRule or an AttachNic.
THEOREM PlanType ==
    ASSUME NEW code, Loaded(code), NEW inv, WellFormed(inv), ~Unresolved(code, inv)
    PROVE  Plan(code, inv) \subseteq Action
<1>1. SUFFICES ASSUME NEW a \in Plan(code, inv) PROVE a \in Action
  OBVIOUS
<1>n. GroupName \subseteq Name
  BY EstateAssumption
<1>2. CASE a \in PlanAbsentGroups(code, inv)
  <2>1. PICK sg \in inv.sgs :
          \/ a = DeleteSg(sg.name, sg.id)
          \/ \E n \in AttachedNics(inv, sg.id) : a = DetachNic(sg.name, sg.id, n.port_id)
    BY <1>2, AbsentCases
  <2>2. sg.name \in Name /\ sg.id \in SgId
    BY InventoryType DEF CloudSg
  <2>3. CASE a = DeleteSg(sg.name, sg.id)
    BY <2>2, <2>3 DEF DeleteSg, Action
  <2>4. ASSUME NEW n \in AttachedNics(inv, sg.id), a = DetachNic(sg.name, sg.id, n.port_id)
        PROVE a \in Action
    <3>1. n.port_id \in PortId
      BY InventoryType DEF AttachedNics, CloudNic
    <3> QED
      BY <2>2, <2>4, <3>1 DEF DetachNic, Action
  <2> QED
    BY <2>1, <2>3, <2>4
<1>3. ASSUME NEW g \in code.groups, a \in PlanGroupRow(code, inv, g) PROVE a \in Action
  <2>1. g \in GroupName /\ g \in Name /\ code.description[g] \in Description
    BY <1>n, LoadedType
  <2>2. CASE a = CreateSg(g, code.description[g])
    BY <2>1, <2>2 DEF CreateSg, Action
  <2>3. ASSUME NEW sg \in SgNamed(inv, g), a = UpdateSg(g, sg.id, code.description[g])
        PROVE a \in Action
    <3>1. sg.id \in SgId
      BY InventoryType DEF SgNamed, CloudSg
    <3> QED
      BY <2>1, <2>3, <3>1 DEF UpdateSg, Action
  <2> QED
    BY <1>3, <2>2, <2>3, GroupRowCases
<1>4. ASSUME NEW g \in code.groups, a \in PlanMembers(code, inv, g) PROVE a \in Action
  <2>1. g \in GroupName /\ g \in Name
    BY <1>n, LoadedType
  <2>2. ASSUME NEW ip \in DesiredIps(code, g),
               a = AttachNic(g, TargetId(inv, g), Nic(inv, ip).port_id, ip)
        PROVE a \in Action
    <3>1. ip \in V4
      BY LoadedType DEF DesiredIps
    <3>2. Resolves(inv, ip)
      BY DEF DesiredIps, Unresolved
    <3>3. Nic(inv, ip).port_id \in PortId
      BY <3>2, NicResolves, InventoryType DEF CloudNic
    <3>4. TargetId(inv, g) \in SgId \cup {None}
      BY TargetIdType
    <3> QED
      BY <2>1, <2>2, <3>1, <3>3, <3>4 DEF AttachNic, Action
  <2>3. ASSUME NEW sg \in SgNamed(inv, g), NEW n \in AttachedNics(inv, sg.id),
               a = DetachNic(g, sg.id, n.port_id)
        PROVE a \in Action
    <3>1. sg.id \in SgId /\ n.port_id \in PortId
      BY InventoryType DEF SgNamed, CloudSg, AttachedNics, CloudNic
    <3> QED
      BY <2>1, <2>3, <3>1 DEF DetachNic, Action
  <2> QED
    BY <1>4, <2>2, <2>3, MembersCases
<1>5. ASSUME NEW g \in code.groups, a \in PlanRules(code, inv, g) PROVE a \in Action
  <2>n. g \in GroupName
    BY LoadedType
  <2>1. PICK d \in Direction :
          /\ <<g, d>> \in code.managed
          /\ \/ \E w \in Wanted(code, g, d) : a = CreateRule(g, TargetId(inv, g), w)
             \/ \E r \in Stale(code, inv, g, d) : a = DeleteRule(g, r.id)
    BY <1>5, RulesCases
  <2>2. ASSUME NEW w \in Wanted(code, g, d), a = CreateRule(g, TargetId(inv, g), w)
        PROVE a \in Action
    <3>1. w \in RuleIdentity
      BY WantedType
    <3>2. TargetId(inv, g) \in SgId \cup {None}
      BY TargetIdType
    <3> QED
      BY <2>n, <2>2, <3>1, <3>2 DEF CreateRule, Action
  <2>3. ASSUME NEW r \in Stale(code, inv, g, d), a = DeleteRule(g, r.id)
        PROVE a \in Action
    <3>1. r.id \in AnyRuleId
      BY InventoryType DEF Stale, RulesOf, CloudRule
    <3> QED
      BY <2>n, <2>3, <3>1 DEF DeleteRule, Action
  <2> QED
    BY <2>1, <2>2, <2>3
<1> QED
  BY <1>2, <1>3, <1>4, <1>5, PlanCases
=============================================================================
