--------------------------- MODULE ExecutorProofs ---------------------------
(***************************************************************************)
(* Theorems about a run of engine.execute, for every set of projects and   *)
(* clouds.  The argument is one chain of invariants: what never changes    *)
(* (StartInv) and the types; the plan split into what is to do and what    *)
(* has a result; then, over that, the group ids, the group names and the   *)
(* rule ids.                                                               *)
(***************************************************************************)
EXTENDS Executor, PlannerProofs

\* The run keeps the reading it was planned from.
StartInv ==
    /\ code \in Projects /\ read \in Estates /\ origin \in Estates
    /\ Plannable(code, read)
    /\ CanFollow(read, origin)

\* Every action ends in one result and leaves the starting point alone.
LEMMA PerformRecords ==
    ASSUME NEW a \in todo, Perform(a)
    PROVE  /\ \E status \in Status : Record(a, status)
           /\ UNCHANGED <<code, read, origin>>
<1> USE DEF Status
<1>1. CASE Skip(a)
  BY <1>1 DEF Skip
<1>2. CASE CreateSgOk(a) \/ CreateSgHalf(a) \/ CreateSgFails(a)
  BY <1>2 DEF CreateSgOk, CreateSgHalf, CreateSgFails
<1>3. CASE CreateRuleFails(a) \/ CallFails(a)
  BY <1>3 DEF CreateRuleFails, CallFails
<1>4. ASSUME NEW status \in Status,
             \/ DoUpdateSg(a, status) \/ DoCreateRule(a, status)
             \/ DoAttachNic(a, status) \/ DoDeleteRule(a, status)
             \/ DoDetachNic(a, status) \/ DoDeleteSg(a, status)
      PROVE  (\E s \in Status : Record(a, s)) /\ UNCHANGED <<code, read, origin>>
  BY <1>4 DEF DoUpdateSg, DoCreateRule, DoAttachNic, DoDeleteRule, DoDetachNic, DoDeleteSg
<1> QED
  BY <1>1, <1>2, <1>3, <1>4 DEF Perform

LEMMA StartStep ==
    ASSUME StartInv, [Next]_vars
    PROVE  StartInv'
<1>1. UNCHANGED <<code, read, origin>>
  BY PerformRecords DEF Next, Finished, vars
<1> QED
  BY <1>1 DEF StartInv, Plannable, Unresolved, DuplicateNames, WholeEstate, Resolves, NicsByIp, CanFollow

THEOREM StartCorrect == Spec => []StartInv
<1>1. Init => StartInv
  BY DEF Init, StartInv
<1>2. StartInv /\ [Next]_vars => StartInv'
  BY StartStep
<1> QED
  BY <1>1, <1>2, PTL DEF Spec

(***************************************************************************)
(* Every planned action is to do or has exactly one result, so what a run  *)
(* performs is always an action of the plan.                               *)
(***************************************************************************)
LEMMA ResultsStep ==
    ASSUME OneResultPerAction, StartInv, [Next]_vars
    PROVE  OneResultPerAction'
<1>1. CASE UNCHANGED vars
  BY <1>1 DEF OneResultPerAction, vars
<1>2. ASSUME NEW a \in todo, Perform(a) PROVE OneResultPerAction'
  <2>1. PICK status \in Status : Record(a, status)
    BY <1>2, PerformRecords
  <2>2. Plan(code, read)' = Plan(code, read)
    BY <1>2, PerformRecords
  <2>3. PICK new : /\ new.action = a
                   /\ results' = results \cup {new}
                   /\ todo' = todo \ {a}
    BY <2>1 DEF Record
  <2>4. {r.action : r \in results'} = {r.action : r \in results} \cup {a}
    BY <2>3
  <2>5. a \notin {r.action : r \in results}
    BY DEF OneResultPerAction
  <2>6. todo' \cup {r.action : r \in results'} = Plan(code, read)'
    BY <2>2, <2>3, <2>4 DEF OneResultPerAction
  <2>7. \A r \in results' : r.action \notin todo'
    BY <2>3 DEF OneResultPerAction
  <2>8. ASSUME NEW x \in results', NEW y \in results', x.action = y.action PROVE x = y
    BY <2>3, <2>5, <2>8 DEF OneResultPerAction
  <2> QED
    BY <2>6, <2>7, <2>8 DEF OneResultPerAction
<1> QED
  BY <1>1, <1>2 DEF Next, Finished

\* execute returns one ActionResult per action, at every moment of a run.
THEOREM OneResult == Spec => []OneResultPerAction
<1>1. Init => OneResultPerAction
  BY DEF Init, OneResultPerAction
<1>2. OneResultPerAction /\ StartInv /\ [Next]_vars => OneResultPerAction'
  BY ResultsStep
<1> QED
  BY <1>1, <1>2, StartCorrect, PTL DEF Spec

\* What is to do comes from the plan, and is well typed.
LEMMA TodoPlanned ==
    ASSUME OneResultPerAction, StartInv
    PROVE  /\ todo \subseteq Plan(code, read)
           /\ todo \subseteq Action
           /\ Loaded(code) /\ WellFormed(read) /\ WellFormed(origin)
<1>1. Loaded(code) /\ WellFormed(read) /\ WellFormed(origin)
  BY ExecutorAssumption DEF StartInv
<1>2. todo \subseteq Plan(code, read)
  BY DEF OneResultPerAction
<1>3. ~Unresolved(code, read)
  BY DEF StartInv, Plannable
<1> QED
  BY <1>1, <1>2, <1>3, PlanType

(***************************************************************************)
(* Type correctness.                                                       *)
(***************************************************************************)
\* The fields each kind of payload has.
LEMMA ActionFields ==
    ASSUME NEW a \in Action
    PROVE  /\ a.op = "CreateSg" => a.group \in GroupName /\ a.description \in Description
           /\ a.op = "UpdateSg" => a.sg_id \in SgId /\ a.description \in Description
           /\ a.op = "CreateRule" => /\ a.group \in GroupName /\ a.sg_id \in SgId \cup {None}
                                     /\ a.rule \in RuleIdentity
           /\ a.op = "AttachNic" => /\ a.group \in GroupName /\ a.sg_id \in SgId \cup {None}
                                    /\ a.port_id \in PortId
           /\ a.op = "DeleteRule" => a.group \in GroupName
           /\ a.op = "DetachNic" => a.sg_id \in SgId /\ a.port_id \in PortId
           /\ a.op = "DeleteSg" => a.sg_id \in SgId
BY DEF Action

LEMMA RecordType ==
    ASSUME TypeOK, NEW a \in todo, NEW status \in Status, Record(a, status)
    PROVE  todo' \subseteq Action /\ results' \subseteq [action : Action, status : Status]
BY DEF TypeOK, Record

LEMMA CachesForType ==
    ASSUME TypeOK, NEW remote
    PROVE  CachesFor(remote) \subseteq [Name -> SgId \cup {None}]
BY DEF CachesFor, Listings, TypeOK

\* What a CreateSg that makes groups does, whichever way it ends.
LEMMA GroupsMade ==
    ASSUME NEW a \in todo, CreateSgOk(a) \/ CreateSgHalf(a)
    PROVE  /\ a.op = "CreateSg" /\ Turn(a, "CreateSg")
           /\ \E ids \in SUBSET FreshSgIds, id \in FreshSgIds, d \in {Blank, a.description} :
                /\ id \in ids
                /\ MakeGroups(a, ids, id, d)
                /\ cached' = cached \/ cached' = [cached EXCEPT ![a.group] = id]
                /\ \/ created' = created /\ a.group \in failed_creates'
                   \/ /\ created' = [created EXCEPT ![a.group] = id]
                      /\ d = a.description
<1>1. CASE CreateSgOk(a)
  BY <1>1 DEF CreateSgOk, Copies, Turn
<1>2. CASE CreateSgHalf(a)
  BY <1>2 DEF CreateSgHalf, Copies, Turn
<1> QED
  BY <1>1, <1>2

\* What a create_rule that takes effect makes.
RemoteIdOf(a) == IF a.rule.remote \in Name THEN cached'[a.rule.remote] ELSE None

RuleMade(a, id) ==
    [id |-> id, sg_id |-> SgIdOf(a), direction |-> a.rule.direction,
     service |-> a.rule.service, remote_group_id |-> RemoteIdOf(a),
     remote_ip_prefix |-> IF a.rule.remote \in Name THEN None ELSE a.rule.remote]

LEMMA RulesMade ==
    ASSUME NEW a \in todo, NEW status, DoCreateRule(a, status)
    PROVE  /\ a.rule.remote \in Name => Live(RemoteIdOf(a))
           /\ \E ids \in SUBSET FreshRuleIds :
                /\ ids # {}
                /\ rules' = rules \cup {RuleMade(a, i) : i \in ids}
                /\ Remember(a, ids)
BY DEF DoCreateRule, Copies, RemoteIdOf, RuleMade

LEMMA SelfRulesType ==
    ASSUME NEW id \in SgId
    PROVE  SelfRules(id) \subseteq CloudRule
BY EstateAssumption DEF SelfRules, CloudRule, AnyRuleId

LEMMA MakeGroupsType ==
    ASSUME TypeOK, NEW ids \in SUBSET SgId, NEW id \in ids, NEW d \in Description,
           NEW a \in Action, a.op = "CreateSg", MakeGroups(a, ids, id, d)
    PROVE  /\ sgs' \subseteq CloudSg /\ rules' \subseteq CloudRule
           /\ repeated' \subseteq Action
<1>1. a.group \in Name
  BY ActionFields, EstateAssumption
<1>2. sgs' \subseteq CloudSg
  BY <1>1, EstateAssumption DEF TypeOK, MakeGroups, CloudSg
<1>3. rules' \subseteq CloudRule
  BY SelfRulesType DEF TypeOK, MakeGroups
<1> QED
  BY <1>2, <1>3 DEF TypeOK, MakeGroups, Remember

LEMMA InitType == Init => TypeOK
<1> SUFFICES ASSUME Init PROVE TypeOK
  OBVIOUS
<1>1. Loaded(code) /\ WellFormed(read) /\ WellFormed(origin) /\ ~Unresolved(code, read)
  BY ExecutorAssumption DEF Init, Plannable
<1>2. todo \subseteq Action
  BY <1>1, PlanType DEF Init
<1>3. sgs \subseteq CloudSg /\ rules \subseteq CloudRule /\ attached \subseteq SgId \X PortId
  BY <1>1, InventoryType DEF Init
<1>4. Uncached \in [Name -> SgId \cup {None}]
  BY DEF Uncached
<1>5. cached \in [Name -> SgId \cup {None}]
  BY <1>4 DEF Init, Listings
<1> QED
  BY <1>2, <1>3, <1>5 DEF Init, TypeOK

\* The rule create_rule makes out of a payload whose remote the cache knows.
LEMMA CreateRuleType ==
    ASSUME TypeOK, NEW a \in todo, NEW status \in Status, DoCreateRule(a, status)
    PROVE  /\ rules' \subseteq CloudRule /\ cached' \in [Name -> SgId \cup {None}]
           /\ repeated' \subseteq Action
<1>1. a \in Action /\ a.op = "CreateRule" /\ a.rule \in RuleIdentity
  BY ActionFields DEF TypeOK, DoCreateRule, Turn
<1>2. cached' \in [Name -> SgId \cup {None}]
  BY CachesForType DEF DoCreateRule
<1>3. SgIdOf(a) \in SgId
  BY DEF TypeOK, DoCreateRule, Live, CloudSg
<1>4. a.rule.direction \in Direction /\ a.rule.service \in Service
  BY <1>1, EstateAssumption DEF RuleIdentity
<1>5. a.rule.remote \notin Name => a.rule.remote \in Prefix
  BY <1>1, EstateAssumption DEF RuleIdentity, Cidr
<1>6. PICK ids \in SUBSET FreshRuleIds :
        /\ rules' = rules \cup {RuleMade(a, i) : i \in ids}
        /\ Remember(a, ids)
  BY RulesMade
<1>7. ids \subseteq AnyRuleId
  BY DEF FreshRuleIds, AnyRuleId
<1>8. RemoteIdOf(a) \in SgId \cup {None}
  BY <1>2 DEF RemoteIdOf
<1>9. \A i \in ids : RuleMade(a, i) \in CloudRule
  BY <1>3, <1>4, <1>5, <1>7, <1>8 DEF RuleMade, CloudRule
<1> QED
  BY <1>1, <1>2, <1>6, <1>9 DEF TypeOK, Remember

LEMMA TypeStep ==
    ASSUME TypeOK, [Next]_vars
    PROVE  TypeOK'
<1>1. CASE UNCHANGED vars
  BY <1>1 DEF TypeOK, vars
<1>2. ASSUME NEW a \in todo, Perform(a) PROVE TypeOK'
  <2>1. a \in Action
    BY DEF TypeOK
  <2>2. /\ todo' \subseteq Action
        /\ results' \subseteq [action : Action, status : Status]
        /\ code' = code /\ read' = read /\ origin' = origin
    BY <1>2, PerformRecords, RecordType
  <2> USE <2>1, <2>2
  <2>3. CASE Skip(a)
    BY <2>3 DEF Skip, TypeOK
  <2>4. CASE CreateSgOk(a) \/ CreateSgHalf(a)
    <3>1. a.op = "CreateSg" /\ a.group \in GroupName /\ a.description \in Description
      BY <2>4, GroupsMade, ActionFields
    <3>2. PICK ids \in SUBSET FreshSgIds, id \in FreshSgIds, d \in {Blank, a.description} :
            /\ id \in ids
            /\ MakeGroups(a, ids, id, d)
            /\ cached' = cached \/ cached' = [cached EXCEPT ![a.group] = id]
            /\ created' = created \/ created' = [created EXCEPT ![a.group] = id]
      BY <2>4, GroupsMade
    <3>3. ids \subseteq SgId /\ id \in SgId /\ d \in Description
      BY <3>1, EstateAssumption DEF FreshSgIds
    <3>4. sgs' \subseteq CloudSg /\ rules' \subseteq CloudRule /\ repeated' \subseteq Action
      BY <3>1, <3>2, <3>3, MakeGroupsType
    <3>5. attached' = attached /\ failed_creates' \subseteq failed_creates \cup {a.group}
      BY <2>4 DEF CreateSgOk, CreateSgHalf
    <3> QED
      BY <3>1, <3>2, <3>3, <3>4, <3>5 DEF TypeOK
  <2>6. CASE CreateSgFails(a)
    <3>1. a.group \in GroupName
      BY <2>6, ActionFields DEF CreateSgFails, Turn
    <3> QED
      BY <2>6, <3>1 DEF CreateSgFails, TypeOK
  <2>7. CASE CreateRuleFails(a)
    <3>2. cached' \in [Name -> SgId \cup {None}]
      BY <2>7 DEF CreateRuleFails, Listings, TypeOK
    <3> QED
      BY <2>7, <3>2 DEF CreateRuleFails, TypeOK
  <2>8. CASE CallFails(a)
    BY <2>8 DEF CallFails, TypeOK
  <2>9. ASSUME NEW status \in Status, DoUpdateSg(a, status) PROVE TypeOK'
    <3>1. a.description \in Description
      BY <2>9, ActionFields DEF DoUpdateSg, Turn
    <3>2. sgs' \subseteq CloudSg
      BY <2>9, <3>1 DEF DoUpdateSg, TypeOK, CloudSg
    <3> QED
      BY <2>9, <3>2 DEF DoUpdateSg, TypeOK
  <2>10. ASSUME NEW status \in Status, DoCreateRule(a, status) PROVE TypeOK'
    BY <2>10, CreateRuleType DEF DoCreateRule, TypeOK
  <2>11. ASSUME NEW status \in Status, DoAttachNic(a, status) PROVE TypeOK'
    <3>1. SgIdOf(a) \in SgId /\ a.port_id \in PortId
      BY <2>11, ActionFields DEF DoAttachNic, Turn, Live, TypeOK, CloudSg
    <3> QED
      BY <2>11, <3>1 DEF DoAttachNic, TypeOK
  <2>12. ASSUME NEW status \in Status,
                DoDeleteRule(a, status) \/ DoDetachNic(a, status) \/ DoDeleteSg(a, status)
         PROVE TypeOK'
    BY <2>12 DEF DoDeleteRule, DoDetachNic, DoDeleteSg, TypeOK
  <2> QED
    BY <1>2, <2>3, <2>4, <2>6, <2>7, <2>8, <2>9, <2>10, <2>11, <2>12 DEF Perform
<1> QED
  BY <1>1, <1>2 DEF Next, Finished

\* Every state of a run is well typed: in particular nothing but an id of the
\* cloud ever enters its groups, rules and memberships.
THEOREM TypeCorrect == Spec => []TypeOK
BY InitType, TypeStep, PTL DEF Spec

(***************************************************************************)
(* Group ids.  BlankIdNeverSent speaks of the action whose turn it is; the *)
(* inductive form speaks of all that wait: a blank id is known, was given  *)
(* up, or its CreateSg is still to come, and that kind goes first.         *)
(***************************************************************************)
BlankInv ==
    \A a \in todo : a.op \in {"CreateRule", "AttachNic"} =>
        \/ SgIdOf(a) # None
        \/ a.group \in failed_creates
        \/ \E b \in todo : b.op = "CreateSg" /\ b.group = a.group

\* What a step does to the two tables the executor keeps about new groups.
LEMMA CreateTables ==
    ASSUME TypeOK, NEW a \in todo, Perform(a)
    PROVE  /\ a.op # "CreateSg" => UNCHANGED <<created, failed_creates>>
           /\ a.op = "CreateSg" =>
                \/ /\ a.group \in failed_creates' /\ failed_creates \subseteq failed_creates'
                   /\ UNCHANGED created
                \/ \E id \in SgId : /\ created' = [created EXCEPT ![a.group] = id]
                                    /\ UNCHANGED failed_creates
<1>1. CASE CreateSgOk(a)
  BY <1>1 DEF CreateSgOk, Copies, FreshSgIds, Turn
<1>2. CASE CreateSgHalf(a) \/ CreateSgFails(a)
  BY <1>2 DEF CreateSgHalf, CreateSgFails, Turn
<1>3. CASE Skip(a)
  BY <1>3 DEF Skip, Skipped
<1>4. CASE CreateRuleFails(a) \/ CallFails(a)
  BY <1>4 DEF CreateRuleFails, CallFails, Turn
<1>5. ASSUME NEW status \in Status,
             \/ DoUpdateSg(a, status) \/ DoCreateRule(a, status)
             \/ DoAttachNic(a, status) \/ DoDeleteRule(a, status)
             \/ DoDetachNic(a, status) \/ DoDeleteSg(a, status)
      PROVE  a.op # "CreateSg" /\ UNCHANGED <<created, failed_creates>>
  BY <1>5 DEF DoUpdateSg, DoCreateRule, DoAttachNic, DoDeleteRule, DoDetachNic, DoDeleteSg, Turn
<1> QED
  BY <1>1, <1>2, <1>3, <1>4, <1>5 DEF Perform

\* A group the reading does not have gets its CreateSg in the plan.
LEMMA BlankPlanned ==
    ASSUME NEW c, Loaded(c), NEW inv, WellFormed(inv),
           NEW a \in Plan(c, inv), a.op \in {"CreateRule", "AttachNic"}
    PROVE  /\ a.group \in c.groups
           /\ a.sg_id = TargetId(inv, a.group)
           /\ SgNamed(inv, a.group) = {} =>
                \E b \in Plan(c, inv) : b.op = "CreateSg" /\ b.group = a.group
<1>1. PICK g \in c.groups : a.group = g /\ a.sg_id = TargetId(inv, g)
  <2>1. CASE a \in PlanAbsentGroups(c, inv)
    BY <2>1, AbsentCases DEF DeleteSg, DetachNic
  <2>2. ASSUME NEW g \in c.groups, a \in PlanGroupRow(c, inv, g) PROVE FALSE
    BY <2>2, GroupRowCases DEF CreateSg, UpdateSg
  <2>3. ASSUME NEW g \in c.groups, a \in PlanMembers(c, inv, g)
        PROVE  a.group = g /\ a.sg_id = TargetId(inv, g)
    BY <2>3, MembersCases DEF AttachNic, DetachNic
  <2>4. ASSUME NEW g \in c.groups, a \in PlanRules(c, inv, g)
        PROVE  a.group = g /\ a.sg_id = TargetId(inv, g)
    <3>1. PICK d \in Direction :
            /\ <<g, d>> \in c.managed
            /\ \/ \E w \in Wanted(c, g, d) : a = CreateRule(g, TargetId(inv, g), w)
               \/ \E r \in Stale(c, inv, g, d) : a = DeleteRule(g, r.id)
      BY <2>4, RulesCases
    <3> QED
      BY <3>1 DEF CreateRule, DeleteRule
  <2> QED
    BY <2>1, <2>2, <2>3, <2>4, PlanCases
<1>2. ASSUME SgNamed(inv, g) = {}
      PROVE  \E b \in Plan(c, inv) : b.op = "CreateSg" /\ b.group = g
  <2>1. CreateSg(g, c.description[g]) \in PlanGroupRow(c, inv, g)
    BY <1>2 DEF PlanGroupRow
  <2>2. CreateSg(g, c.description[g]) \in Plan(c, inv)
    BY <2>1 DEF Plan
  <2> QED
    BY <2>2 DEF CreateSg
<1> QED
  BY <1>1, <1>2

LEMMA TargetIdKnown ==
    ASSUME NEW inv, WellFormed(inv), NEW g, SgNamed(inv, g) # {}
    PROVE  /\ TargetId(inv, g) \in SgId
           /\ TargetId(inv, g) # None
           /\ \E sg \in inv.sgs : sg.id = TargetId(inv, g) /\ sg.name = g
<1>1. (CHOOSE sg \in SgNamed(inv, g) : TRUE) \in SgNamed(inv, g)
  OBVIOUS
<1>2. PICK sg \in SgNamed(inv, g) : TargetId(inv, g) = sg.id
  BY <1>1 DEF TargetId
<1>3. sg \in inv.sgs /\ sg.name = g /\ sg.id \in SgId
  BY InventoryType DEF SgNamed, CloudSg
<1> QED
  BY <1>2, <1>3, EstateAssumption

LEMMA InitBlank == Init => BlankInv
<1> SUFFICES ASSUME Init, NEW a \in todo, a.op \in {"CreateRule", "AttachNic"},
                    SgIdOf(a) = None
             PROVE  \E b \in todo : b.op = "CreateSg" /\ b.group = a.group
  BY DEF BlankInv
<1>1. Loaded(code) /\ WellFormed(read) /\ a \in Plan(code, read)
  BY ExecutorAssumption DEF Init
<1>2. a.sg_id = None
  BY DEF SgIdOf
<1>3. SgNamed(read, a.group) = {}
  BY <1>1, <1>2, BlankPlanned, TargetIdKnown
<1> QED
  BY <1>1, <1>3, BlankPlanned DEF Init

LEMMA BlankStep ==
    ASSUME TypeOK, BlankInv, [Next]_vars
    PROVE  BlankInv'
<1>1. CASE UNCHANGED vars
  BY <1>1 DEF BlankInv, SgIdOf, vars
<1>2. ASSUME NEW b \in todo, Perform(b) PROVE BlankInv'
  <2>1. todo' = todo \ {b}
    BY <1>2, PerformRecords DEF Record
  <2>2. SUFFICES ASSUME NEW a \in todo', a.op \in {"CreateRule", "AttachNic"}
                 PROVE  \/ SgIdOf(a)' # None
                        \/ a.group \in failed_creates'
                        \/ \E c \in todo' : c.op = "CreateSg" /\ c.group = a.group
    BY DEF BlankInv
  <2>3. /\ a \in todo /\ a.group \in GroupName
        /\ created \in [GroupName -> SgId \cup {None}]
    BY <2>1, <2>2, ActionFields DEF TypeOK
  <2>4. None \notin SgId
    BY EstateAssumption
  <2>5. CASE b.op # "CreateSg"
    <3>1. created' = created /\ failed_creates' = failed_creates
      BY <1>2, <2>5, CreateTables
    <3> QED
      BY <2>1, <2>2, <2>3, <2>5, <3>1 DEF BlankInv, SgIdOf
  <2>6. CASE b.op = "CreateSg"
    <3>1. CASE a.group \in failed_creates' /\ b.group = a.group
      BY <3>1
    <3>2. CASE failed_creates \subseteq failed_creates' /\ created' = created /\ b.group # a.group
      BY <2>1, <2>2, <2>3, <3>2 DEF BlankInv, SgIdOf
    <3>3. ASSUME NEW id \in SgId, created' = [created EXCEPT ![b.group] = id],
                 failed_creates' = failed_creates
          PROVE  \/ SgIdOf(a)' # None
                 \/ a.group \in failed_creates'
                 \/ \E c \in todo' : c.op = "CreateSg" /\ c.group = a.group
      BY <2>1, <2>2, <2>3, <2>4, <3>3 DEF BlankInv, SgIdOf
    <3> QED
      BY <1>2, <2>6, <3>1, <3>2, <3>3, CreateTables
  <2> QED
    BY <2>5, <2>6
<1> QED
  BY <1>1, <1>2 DEF Next, Finished

LEMMA BlankImplied ==
    ASSUME BlankInv
    PROVE  BlankIdNeverSent
<1> SUFFICES ASSUME NEW a \in todo, a.op \in {"CreateRule", "AttachNic"}, Ready(a),
                    SgIdOf(a) = None
             PROVE  a.group \in failed_creates
  BY DEF BlankIdNeverSent, Skipped
<1>1. ASSUME NEW b \in todo, b.op = "CreateSg" PROVE FALSE
  <2>1. Order[a.op] <= Order[b.op]
    BY DEF Ready
  <2>2. Order[a.op] \in {2, 3} /\ Order[b.op] = 0
    BY <1>1 DEF Order
  <2> QED
    BY <2>1, <2>2
<1> QED
  BY <1>1 DEF BlankInv

\* No rule or member call is ever sent with a blank group id, and exactly the
\* dependents of a group that was not made are skipped: execute's ordering
\* and its failed_creates test together are enough.
THEOREM NoBlankId == Spec => []BlankIdNeverSent
<1>1. Init => BlankInv
  BY InitBlank
<1>2. BlankInv /\ TypeOK /\ [Next]_vars => BlankInv'
  BY BlankStep
<1>3. BlankInv => BlankIdNeverSent
  BY BlankImplied
<1> QED
  BY <1>1, <1>2, <1>3, TypeCorrect, PTL DEF Spec

(***************************************************************************)
(* Group names.  OneSgPerName is not inductive: a CreateSg that is still   *)
(* to come must find its name free, there is one CreateSg per name, and    *)
(* what it made several times is out of the reach of every DeleteSg.       *)
(***************************************************************************)
Twins(x, y, g) == x.name = g /\ y.name = g /\ x.id # y.id

NameInv ==
    Fresh =>
        /\ \A x, y \in sgs : Twins(x, y, x.name) => Twinned(x.name)
        /\ \A a \in todo : a.op = "CreateSg" =>
             ~Twinned(a.group) /\ \A sg \in sgs : sg.name # a.group
        /\ \A a \in repeated : a.op = "CreateSg" => \E x, y \in sgs :
             /\ Twins(x, y, a.group)
             /\ x.id \notin {sg.id : sg \in read.sgs}
             /\ y.id \notin {sg.id : sg \in read.sgs}

\* The one CreateSg a plan can have for a group, and when it has it.
LEMMA CreateSgPlanned ==
    ASSUME NEW c, NEW inv, NEW a \in Plan(c, inv), a.op = "CreateSg"
    PROVE  a = CreateSg(a.group, c.description[a.group]) /\ SgNamed(inv, a.group) = {}
<1>1. CASE a \in PlanAbsentGroups(c, inv)
  BY <1>1, AbsentCases DEF DeleteSg, DetachNic
<1>2. ASSUME NEW g \in c.groups, a \in PlanGroupRow(c, inv, g)
      PROVE  a = CreateSg(a.group, c.description[a.group]) /\ SgNamed(inv, a.group) = {}
  BY <1>2, GroupRowCases DEF CreateSg, UpdateSg
<1>3. ASSUME NEW g \in c.groups, a \in PlanMembers(c, inv, g) PROVE FALSE
  BY <1>3, MembersCases DEF AttachNic, DetachNic
<1>4. ASSUME NEW g \in c.groups, a \in PlanRules(c, inv, g) PROVE FALSE
  <2>1. PICK d \in Direction :
          /\ <<g, d>> \in c.managed
          /\ \/ \E w \in Wanted(c, g, d) : a = CreateRule(g, TargetId(inv, g), w)
             \/ \E r \in Stale(c, inv, g, d) : a = DeleteRule(g, r.id)
    BY <1>4, RulesCases
  <2> QED
    BY <2>1 DEF CreateRule, DeleteRule
<1> QED
  BY <1>1, <1>2, <1>3, <1>4, PlanCases

\* A DeleteSg names a group the reading has.
LEMMA DeleteSgPlanned ==
    ASSUME NEW c, NEW inv, NEW a \in Plan(c, inv), a.op = "DeleteSg"
    PROVE  \E x \in inv.sgs : x.id = a.sg_id /\ x.name \notin c.groups
<1>1. CASE a \in PlanAbsentGroups(c, inv)
  BY <1>1, AbsentCases DEF DeleteSg, DetachNic
<1>2. ASSUME NEW g \in c.groups, a \in PlanGroupRow(c, inv, g) PROVE FALSE
  BY <1>2, GroupRowCases DEF CreateSg, UpdateSg
<1>3. ASSUME NEW g \in c.groups, a \in PlanMembers(c, inv, g) PROVE FALSE
  BY <1>3, MembersCases DEF AttachNic, DetachNic
<1>4. ASSUME NEW g \in c.groups, a \in PlanRules(c, inv, g) PROVE FALSE
  <2>1. PICK d \in Direction :
          /\ <<g, d>> \in c.managed
          /\ \/ \E w \in Wanted(c, g, d) : a = CreateRule(g, TargetId(inv, g), w)
             \/ \E r \in Stale(c, inv, g, d) : a = DeleteRule(g, r.id)
    BY <1>4, RulesCases
  <2> QED
    BY <2>1 DEF CreateRule, DeleteRule
<1> QED
  BY <1>1, <1>2, <1>3, <1>4, PlanCases

\* A step leaves every group but the one its DeleteSg names, with its id and
\* its name.  It adds groups of the name its CreateSg is for, and a second one
\* is remembered, or it adds none.
LEMMA GroupsStep ==
    ASSUME NEW a \in todo, Perform(a)
    PROVE  /\ \A x \in sgs : \/ a.op = "DeleteSg" /\ x.id = a.sg_id
                            \/ \E y \in sgs' : y.id = x.id /\ y.name = x.name
           /\ \/ /\ \A x \in sgs' : \E y \in sgs : x.id = y.id /\ x.name = y.name
                 /\ \A b \in Action : b.op = "CreateSg" => (b \in repeated' <=> b \in repeated)
              \/ /\ a.op = "CreateSg" /\ sgs \subseteq sgs'
                 /\ \E ids \in SUBSET FreshSgIds :
                      /\ \A x \in sgs' : x \in sgs \/ (x.id \in ids /\ x.name = a.group)
                      /\ \A i \in ids : \E x \in sgs' : x.id = i /\ x.name = a.group
                      /\ repeated' = repeated \cup {x \in {a} : \E i, j \in ids : i # j}
<1>1. CASE CreateSgOk(a) \/ CreateSgHalf(a)
  <2>1. PICK ids \in SUBSET FreshSgIds, id \in FreshSgIds, d \in {Blank, a.description} :
          MakeGroups(a, ids, id, d)
    BY <1>1, GroupsMade
  <2> DEFINE new(i) == [id |-> i, name |-> a.group, description |-> IF i = id THEN d ELSE Blank]
  <2>2. sgs' = sgs \cup {new(i) : i \in ids} /\ Remember(a, ids)
    BY <2>1 DEF MakeGroups
  <2>3. \A i \in ids : new(i).id = i /\ new(i).name = a.group
    OBVIOUS
  <2>4. a.op = "CreateSg"
    BY <1>1, GroupsMade
  <2>5. repeated' = repeated \cup {x \in {a} : \E i, j \in ids : i # j}
    BY <2>2 DEF Remember
  <2> HIDE DEF new
  <2>6. /\ sgs \subseteq sgs'
        /\ \A x \in sgs' : x \in sgs \/ (x.id \in ids /\ x.name = a.group)
        /\ \A i \in ids : \E x \in sgs' : x.id = i /\ x.name = a.group
    BY <2>2, <2>3
  <2>7. \A x \in sgs : \E y \in sgs' : y.id = x.id /\ y.name = x.name
    BY <2>6
  <2> QED
    BY <2>4, <2>5, <2>6, <2>7
<1>2. CASE \/ Skip(a) \/ CreateSgFails(a) \/ CreateRuleFails(a) \/ CallFails(a)
  BY <1>2 DEF Skip, CreateSgFails, CreateRuleFails, CallFails
<1>3. ASSUME NEW status \in Status, DoUpdateSg(a, status)
      PROVE  /\ \A x \in sgs : \E y \in sgs' : x.id = y.id /\ x.name = y.name
             /\ \A x \in sgs' : \E y \in sgs : x.id = y.id /\ x.name = y.name
             /\ repeated' = repeated
  <2> DEFINE new(sg) == IF sg.id = a.sg_id
                        THEN [id |-> sg.id, name |-> sg.name, description |-> a.description]
                        ELSE sg
  <2>1. sgs' = {new(sg) : sg \in sgs} /\ repeated' = repeated
    BY <1>3 DEF DoUpdateSg
  <2>2. \A sg \in sgs : new(sg).id = sg.id /\ new(sg).name = sg.name
    OBVIOUS
  <2> HIDE DEF new
  <2> QED
    BY <2>1, <2>2
<1>4. ASSUME NEW status \in Status, DoCreateRule(a, status)
      PROVE  /\ sgs' = sgs
             /\ \A b \in Action : b.op = "CreateSg" => (b \in repeated' <=> b \in repeated)
  <2>1. a.op = "CreateRule" /\ sgs' = sgs
    BY <1>4 DEF DoCreateRule, Turn
  <2>2. \E ids : Remember(a, ids)
    BY <1>4, RulesMade
  <2> QED
    BY <2>1, <2>2 DEF Remember
<1>5. ASSUME NEW status \in Status,
             DoAttachNic(a, status) \/ DoDeleteRule(a, status) \/ DoDetachNic(a, status)
      PROVE  sgs' = sgs /\ repeated' = repeated
  BY <1>5 DEF DoAttachNic, DoDeleteRule, DoDetachNic
<1>6. ASSUME NEW status \in Status, DoDeleteSg(a, status)
      PROVE  /\ a.op = "DeleteSg" /\ repeated' = repeated
             /\ sgs' = {sg \in sgs : sg.id # a.sg_id}
  BY <1>6 DEF DoDeleteSg, Turn
<1> QED
  BY <1>1, <1>2, <1>3, <1>4, <1>5, <1>6 DEF Perform

LEMMA InitName == Init => NameInv
<1> SUFFICES ASSUME Init, Fresh PROVE NameInv
  BY DEF NameInv
<1>1. sgs = read.sgs /\ ~DuplicateNames(read) /\ repeated = {}
  BY DEF Init, Fresh, Plannable
<1>2. ASSUME NEW a \in todo, a.op = "CreateSg", NEW sg \in sgs PROVE sg.name # a.group
  <2>1. SgNamed(read, a.group) = {}
    BY <1>2, CreateSgPlanned DEF Init
  <2> QED
    BY <1>1, <2>1 DEF SgNamed
<1> QED
  BY <1>1, <1>2 DEF NameInv, DuplicateNames, Twins, Twinned

\* A CreateSg whose turn it is finds its name free; what it makes twice is
\* then known as made twice.
LEMMA NameGrows ==
    ASSUME OneResultPerAction, StartInv, NameInv, Fresh, NEW a \in todo, a.op = "CreateSg",
           todo' = todo \ {a}, UNCHANGED read, sgs \subseteq sgs',
           NEW ids \in SUBSET FreshSgIds,
           \A x \in sgs' : x \in sgs \/ (x.id \in ids /\ x.name = a.group),
           \A i \in ids : \E x \in sgs' : x.id = i /\ x.name = a.group,
           repeated' = repeated \cup {x \in {a} : \E i, j \in ids : i # j}
    PROVE  NameInv'
<1>1. /\ \A x, y \in sgs : Twins(x, y, x.name) => Twinned(x.name)
      /\ \A b \in todo : b.op = "CreateSg" =>
           ~Twinned(b.group) /\ \A sg \in sgs : sg.name # b.group
      /\ \A b \in repeated : b.op = "CreateSg" => \E x, y \in sgs :
           /\ Twins(x, y, b.group)
           /\ x.id \notin {sg.id : sg \in read.sgs}
           /\ y.id \notin {sg.id : sg \in read.sgs}
  BY DEF NameInv
<1>2. ASSUME NEW b \in todo', b.op = "CreateSg" PROVE b \in todo /\ b.group # a.group
  <2>1. a \in Plan(code, read) /\ b \in Plan(code, read) /\ a # b
    BY TodoPlanned
  <2>2. /\ a = CreateSg(a.group, code.description[a.group])
        /\ b = CreateSg(b.group, code.description[b.group])
    BY <1>2, <2>1, CreateSgPlanned
  <2> QED
    BY <2>1, <2>2
<1>3. ASSUME NEW b \in todo', b.op = "CreateSg"
      PROVE  ~Twinned(b.group)' /\ \A sg \in sgs' : sg.name # b.group
  BY <1>1, <1>2, <1>3 DEF Twinned
<1>4. \A g : Twinned(g) => Twinned(g)'
  BY DEF Twinned
<1>5. ASSUME NEW x \in sgs', NEW y \in sgs', Twins(x, y, x.name)
      PROVE  Twinned(x.name)'
  <2>1. CASE x \in sgs /\ y \in sgs
    BY <1>1, <1>4, <1>5, <2>1
  <2>2. CASE ~(x \in sgs /\ y \in sgs)
    <3>1. x.name = a.group /\ y.name = a.group
      BY <1>5, <2>2 DEF Twins
    <3>2. x.id \in ids /\ y.id \in ids
      BY <1>1, <3>1
    <3>3. a \in repeated'
      BY <1>5, <3>2 DEF Twins
    <3> QED
      BY <3>1, <3>3 DEF Twinned
  <2> QED
    BY <2>1, <2>2
<1>6. ASSUME NEW b \in repeated', b.op = "CreateSg"
      PROVE  \E x, y \in sgs' : /\ Twins(x, y, b.group)
                                /\ x.id \notin {sg.id : sg \in read.sgs}
                                /\ y.id \notin {sg.id : sg \in read.sgs}
  <2>1. CASE b \in repeated
    BY <1>1, <1>6, <2>1
  <2>2. CASE b \notin repeated
    <3>1. b = a
      BY <2>2
    <3>2. PICK i \in ids, j \in ids : i # j
      BY <2>2
    <3>3. PICK x \in sgs' : x.id = i /\ x.name = a.group
      OBVIOUS
    <3>4. PICK y \in sgs' : y.id = j /\ y.name = a.group
      OBVIOUS
    <3>5. \A k \in ids : k \notin {sg.id : sg \in read.sgs}
      BY DEF FreshSgIds, UsedSgIds
    <3> QED
      BY <3>1, <3>2, <3>3, <3>4, <3>5 DEF Twins
  <2> QED
    BY <2>1, <2>2
<1> QED
  BY <1>3, <1>5, <1>6 DEF NameInv

LEMMA NameStep ==
    ASSUME TypeOK, OneResultPerAction, StartInv, NameInv, [Next]_vars
    PROVE  NameInv'
<1>1. CASE UNCHANGED vars
  BY <1>1 DEF NameInv, Fresh, Twinned, vars
<1>2. ASSUME NEW a \in todo, Perform(a), Fresh PROVE NameInv'
  <2>1. todo' = todo \ {a} /\ read' = read
    BY <1>2, PerformRecords DEF Record
  <2>2. /\ \A x, y \in sgs : Twins(x, y, x.name) => Twinned(x.name)
        /\ \A b \in todo : b.op = "CreateSg" =>
             ~Twinned(b.group) /\ \A sg \in sgs : sg.name # b.group
        /\ \A b \in repeated : b.op = "CreateSg" => \E x, y \in sgs :
             /\ Twins(x, y, b.group)
             /\ x.id \notin {sg.id : sg \in read.sgs}
             /\ y.id \notin {sg.id : sg \in read.sgs}
    BY <1>2 DEF NameInv
  <2>3. ASSUME \A x \in sgs' : \E y \in sgs : x.id = y.id /\ x.name = y.name,
               \A b \in Action : b.op = "CreateSg" => (b \in repeated' <=> b \in repeated)
        PROVE  NameInv'
    <3>1. repeated \subseteq Action /\ repeated' \subseteq Action
      BY <1>2, TypeStep DEF TypeOK, Next
    <3>2. \A g : Twinned(g)' <=> Twinned(g)
      BY <2>3, <3>1 DEF Twinned
    <3>3. \A x, y \in sgs' : Twins(x, y, x.name) => Twinned(x.name)'
      BY <2>2, <2>3, <3>2 DEF Twins
    <3>4. \A b \in todo' : b.op = "CreateSg" =>
             ~Twinned(b.group)' /\ \A sg \in sgs' : sg.name # b.group
      BY <2>1, <2>2, <2>3, <3>2
    <3>5. ASSUME NEW x \in sgs, x.id \notin {sg.id : sg \in read.sgs}
          PROVE  \E y \in sgs' : y.id = x.id /\ y.name = x.name
      <4>1. a.op = "DeleteSg" => \E sg \in read.sgs : sg.id = a.sg_id
        BY TodoPlanned, DeleteSgPlanned
      <4> QED
        BY <1>2, <3>5, <4>1, GroupsStep
    <3>6. ASSUME NEW b \in repeated', b.op = "CreateSg"
          PROVE  \E x, y \in sgs' : /\ Twins(x, y, b.group)
                                    /\ x.id \notin {sg.id : sg \in read.sgs}
                                    /\ y.id \notin {sg.id : sg \in read.sgs}
      <4>1. PICK x \in sgs, y \in sgs : /\ Twins(x, y, b.group)
                                        /\ x.id \notin {sg.id : sg \in read.sgs}
                                        /\ y.id \notin {sg.id : sg \in read.sgs}
        BY <2>2, <2>3, <3>1, <3>6
      <4>2. PICK u \in sgs' : u.id = x.id /\ u.name = x.name
        BY <3>5, <4>1
      <4>3. PICK v \in sgs' : v.id = y.id /\ v.name = y.name
        BY <3>5, <4>1
      <4> QED
        BY <4>1, <4>2, <4>3 DEF Twins
    <3> QED
      BY <2>1, <3>3, <3>4, <3>6 DEF NameInv
  <2>4. ASSUME a.op = "CreateSg", sgs \subseteq sgs', NEW ids \in SUBSET FreshSgIds,
               \A x \in sgs' : x \in sgs \/ (x.id \in ids /\ x.name = a.group),
               \A i \in ids : \E x \in sgs' : x.id = i /\ x.name = a.group,
               repeated' = repeated \cup {x \in {a} : \E i, j \in ids : i # j}
        PROVE  NameInv'
    BY <1>2, <2>1, <2>4, NameGrows
  <2> QED
    BY <1>2, <2>3, <2>4, GroupsStep
<1>3. ASSUME NEW a \in todo, Perform(a), ~Fresh PROVE NameInv'
  BY <1>3, PerformRecords DEF NameInv, Fresh
<1> QED
  BY <1>1, <1>2, <1>3 DEF Next, Finished

\* A run planned from the cloud it meets leaves two groups of one name
\* exactly when a create of that group took effect several times (_run):
\* nothing else brings about the state in which the next plan is refused
\* (_name_to_sg), and nothing later in the run mends it.
THEOREM UniqueNames == Spec => []OneSgPerName
<1>1. Init => NameInv
  BY InitName
<1>2. NameInv /\ TypeOK /\ OneResultPerAction /\ StartInv /\ [Next]_vars => NameInv'
  BY NameStep
<1>3. NameInv => OneSgPerName
  <2> SUFFICES ASSUME NameInv, Fresh, NEW g \in Name
               PROVE  (\E x, y \in sgs : x.name = g /\ y.name = g /\ x.id # y.id) = Twinned(g)
    BY DEF OneSgPerName
  <2>1. (\E x, y \in sgs : Twins(x, y, g)) => Twinned(g)
    BY DEF NameInv, Twins
  <2>2. Twinned(g) => \E x, y \in sgs : Twins(x, y, g)
    BY DEF NameInv, Twinned
  <2>3. Twinned(g) \in BOOLEAN
    BY DEF Twinned
  <2> QED
    BY <2>1, <2>2, <2>3 DEF Twins
<1> QED
  BY <1>1, <1>2, <1>3, OneResult, StartCorrect, TypeCorrect, PTL DEF Spec

(***************************************************************************)
(* Removals.  A delete_rule payload is only an id; what it hits is the     *)
(* rule that was read under that id, because a rule made since has an id   *)
(* the reading does not mention.                                           *)
(***************************************************************************)
RuleInv == \A r \in rules, q \in read.rules : r.id = q.id => r = q

LEMMA InitRule == Init => RuleInv
BY DEF Init, RuleInv, CanFollow

\* New rules have ids the reading does not have.
LEMMA NewRuleIds ==
    ASSUME WellFormed(read), NEW a \in todo, Perform(a), NEW r \in rules', r \notin rules
    PROVE  \A q \in read.rules : q.id # r.id
<1>1. ASSUME NEW id \in FreshSgIds, r \in SelfRules(id), NEW q \in read.rules, q.id = r.id
      PROVE  FALSE
  <2>1. PICK d \in DefaultRule : r.id = <<id, d>>
    BY <1>1 DEF SelfRules
  <2>2. id \in SgId
    BY DEF FreshSgIds
  <2>3. q.id \notin RuleId
    BY <1>1, <2>1, <2>2, EstateAssumption
  <2>4. q.id[1] = q.sg_id
    BY <2>3 DEF WellFormed
  <2>5. q.sg_id = id
    BY <1>1, <2>1, <2>4
  <2>6. \E sg \in read.sgs : sg.id = id
    BY <2>5 DEF WellFormed
  <2> QED
    BY <2>6 DEF FreshSgIds, UsedSgIds
<1>2. CASE CreateSgOk(a) \/ CreateSgHalf(a)
  <2>1. \E ids \in SUBSET FreshSgIds : rules' = rules \cup UNION {SelfRules(i) : i \in ids}
    BY <1>2, GroupsMade DEF MakeGroups
  <2> QED
    BY <1>1, <2>1
<1>3. ASSUME NEW status \in Status, DoCreateRule(a, status)
      PROVE  \A q \in read.rules : q.id # r.id
  BY <1>3, RulesMade DEF FreshRuleIds, RuleMade
<1>4. CASE Skip(a) \/ CreateSgFails(a) \/ CreateRuleFails(a) \/ CallFails(a)
  BY <1>4 DEF Skip, CreateSgFails, CreateRuleFails, CallFails
<1>5. ASSUME NEW status \in Status,
             \/ DoUpdateSg(a, status) \/ DoAttachNic(a, status)
             \/ DoDeleteRule(a, status) \/ DoDetachNic(a, status) \/ DoDeleteSg(a, status)
      PROVE  FALSE
  BY <1>5 DEF DoUpdateSg, DoAttachNic, DoDeleteRule, DoDetachNic, DoDeleteSg
<1> QED
  BY <1>2, <1>3, <1>4, <1>5 DEF Perform

LEMMA RuleStep ==
    ASSUME StartInv, RuleInv, [Next]_vars
    PROVE  RuleInv'
<1>1. CASE UNCHANGED vars
  BY <1>1 DEF RuleInv, vars
<1>2. ASSUME NEW a \in todo, Perform(a) PROVE RuleInv'
  <2>1. WellFormed(read) /\ read' = read
    BY <1>2, PerformRecords, ExecutorAssumption DEF StartInv
  <2> QED
    BY <1>2, <2>1, NewRuleIds DEF RuleInv
<1> QED
  BY <1>1, <1>2 DEF Next, Finished

\* Where the three kinds of removal can come from.
LEMMA DetachPlanned ==
    ASSUME NEW c, Loaded(c), NEW inv, WellFormed(inv),
           NEW a \in Plan(c, inv), a.op = "DetachNic"
    PROVE  \E x \in inv.sgs :
             /\ x.id = a.sg_id
             /\ \A n \in inv.nics : n.port_id = a.port_id => <<x.name, n.ip>> \notin c.members
<1>1. CASE a \in PlanAbsentGroups(c, inv)
  <2>1. PICK sg \in inv.sgs : sg.name \notin c.groups /\ sg.id = a.sg_id
    BY <1>1, AbsentCases DEF DeleteSg, DetachNic
  <2>2. \A n \in inv.nics : <<sg.name, n.ip>> \notin c.members
    BY <2>1 DEF Loaded
  <2> QED
    BY <2>1, <2>2
<1>2. ASSUME NEW g \in c.groups, a \in PlanGroupRow(c, inv, g) PROVE FALSE
  BY <1>2, GroupRowCases DEF CreateSg, UpdateSg
<1>3. ASSUME NEW g \in c.groups, a \in PlanMembers(c, inv, g)
      PROVE  \E x \in inv.sgs :
               /\ x.id = a.sg_id
               /\ \A n \in inv.nics : n.port_id = a.port_id => <<x.name, n.ip>> \notin c.members
  <2>0. PICK sg \in SgNamed(inv, g) : \E m \in AttachedNics(inv, sg.id) :
          m.ip \notin DesiredIps(c, g) /\ a = DetachNic(g, sg.id, m.port_id)
    BY <1>3, MembersCases DEF AttachNic
  <2>1. PICK m \in AttachedNics(inv, sg.id) :
          m.ip \notin DesiredIps(c, g) /\ a = DetachNic(g, sg.id, m.port_id)
    BY <2>0
  <2>2. sg \in inv.sgs /\ sg.name = g /\ m \in inv.nics
    BY DEF SgNamed, AttachedNics
  <2>3. a.sg_id = sg.id /\ a.port_id = m.port_id
    BY <2>1 DEF DetachNic
  <2>4. ASSUME NEW n \in inv.nics, n.port_id = m.port_id PROVE <<g, n.ip>> \notin c.members
    <3>1. n = m
      BY <2>2, <2>4 DEF WellFormed
    <3>2. ASSUME <<g, m.ip>> \in c.members PROVE FALSE
      <4>1. <<g, m.ip>>[1] = g /\ <<g, m.ip>>[2] = m.ip
        OBVIOUS
      <4> QED
        BY <2>1, <3>2, <4>1 DEF DesiredIps
    <3> QED
      BY <3>1, <3>2
  <2> QED
    BY <2>2, <2>3, <2>4
<1>4. ASSUME NEW g \in c.groups, a \in PlanRules(c, inv, g) PROVE FALSE
  <2>1. PICK d \in Direction :
          /\ <<g, d>> \in c.managed
          /\ \/ \E w \in Wanted(c, g, d) : a = CreateRule(g, TargetId(inv, g), w)
             \/ \E r \in Stale(c, inv, g, d) : a = DeleteRule(g, r.id)
    BY <1>4, RulesCases
  <2> QED
    BY <2>1 DEF CreateRule, DeleteRule
<1> QED
  BY <1>1, <1>2, <1>3, <1>4, PlanCases

LEMMA DeleteRulePlanned ==
    ASSUME NEW c, NEW inv, NEW a \in Plan(c, inv), a.op = "DeleteRule"
    PROVE  \E x \in inv.sgs, q \in inv.rules :
             /\ q.id = a.rule_id /\ q.sg_id = x.id
             /\ q.remote_group_id # q.sg_id
             /\ <<x.name, q.direction>> \in c.managed
             /\ IdentityOf(inv, q) \notin Wanted(c, x.name, q.direction)
<1>1. CASE a \in PlanAbsentGroups(c, inv)
  BY <1>1, AbsentCases DEF DeleteSg, DetachNic
<1>2. ASSUME NEW g \in c.groups, a \in PlanGroupRow(c, inv, g) PROVE FALSE
  BY <1>2, GroupRowCases DEF CreateSg, UpdateSg
<1>3. ASSUME NEW g \in c.groups, a \in PlanMembers(c, inv, g) PROVE FALSE
  BY <1>3, MembersCases DEF AttachNic, DetachNic
<1>4. ASSUME NEW g \in c.groups, a \in PlanRules(c, inv, g)
      PROVE  \E x \in inv.sgs, q \in inv.rules :
               /\ q.id = a.rule_id /\ q.sg_id = x.id
               /\ q.remote_group_id # q.sg_id
               /\ <<x.name, q.direction>> \in c.managed
               /\ IdentityOf(inv, q) \notin Wanted(c, x.name, q.direction)
  <2>1. PICK d \in Direction :
          /\ <<g, d>> \in c.managed
          /\ \/ \E w \in Wanted(c, g, d) : a = CreateRule(g, TargetId(inv, g), w)
             \/ \E r \in Stale(c, inv, g, d) : a = DeleteRule(g, r.id)
    BY <1>4, RulesCases
  <2>2. PICK q \in Stale(c, inv, g, d) : a = DeleteRule(g, q.id)
    BY <2>1 DEF CreateRule
  <2>3. PICK x \in inv.sgs : x.name = g /\ x.id = q.sg_id
    BY DEF Stale, RulesOf, SgNamed
  <2>4. /\ q \in inv.rules /\ q.direction = d /\ q.remote_group_id # q.sg_id
        /\ IdentityOf(inv, q) \notin Wanted(c, g, d)
    BY DEF Stale, RulesOf
  <2>5. a.rule_id = q.id
    BY <2>2 DEF DeleteRule
  <2> QED
    BY <2>1, <2>3, <2>4, <2>5
<1> QED
  BY <1>1, <1>2, <1>3, <1>4, PlanCases

\* What a step can take away, and by which call.
LEMMA Removers ==
    ASSUME NEW a \in todo, Perform(a)
    PROVE  /\ \A sg \in sgs : (\A x \in sgs' : x.id # sg.id) => a.op = "DeleteSg" /\ sg.id = a.sg_id
           /\ \A p \in attached \ attached' : a.op = "DetachNic" /\ p = <<a.sg_id, a.port_id>>
           /\ \A r \in rules \ rules' :
                \/ a.op = "DeleteRule" /\ r.id = a.rule_id
                \/ r.sg_id \notin {sg.id : sg \in sgs'}
<1>1. CASE CreateSgOk(a) \/ CreateSgHalf(a)
  <2>1. sgs \subseteq sgs' /\ rules \subseteq rules'
    BY <1>1, GroupsMade DEF MakeGroups
  <2> QED
    BY <1>1, <2>1 DEF CreateSgOk, CreateSgHalf
<1>2. CASE Skip(a) \/ CreateSgFails(a) \/ CreateRuleFails(a) \/ CallFails(a)
  BY <1>2 DEF Skip, CreateSgFails, CreateRuleFails, CallFails
<1>3. ASSUME NEW status \in Status, DoUpdateSg(a, status)
      PROVE  /\ \A sg \in sgs : \E x \in sgs' : x.id = sg.id
             /\ UNCHANGED <<rules, attached>>
  <2>1. ASSUME NEW sg \in sgs PROVE \E x \in sgs' : x.id = sg.id
    <3> DEFINE new == [id |-> sg.id, name |-> sg.name, description |-> a.description]
    <3>1. new.id = sg.id
      OBVIOUS
    <3>2. (IF sg.id = a.sg_id THEN new ELSE sg) \in sgs'
      BY <1>3 DEF DoUpdateSg
    <3> QED
      BY <3>1, <3>2
  <2> QED
    BY <1>3, <2>1 DEF DoUpdateSg
<1>4. ASSUME NEW status \in Status, DoCreateRule(a, status) \/ DoAttachNic(a, status)
      PROVE  sgs' = sgs /\ rules \subseteq rules' /\ attached \subseteq attached'
  BY <1>4, RulesMade DEF DoCreateRule, DoAttachNic
<1>5. ASSUME NEW status \in Status, DoDeleteRule(a, status)
      PROVE  /\ sgs' = sgs /\ attached' = attached /\ a.op = "DeleteRule"
             /\ \A r \in rules \ rules' : r.id = a.rule_id
  BY <1>5 DEF DoDeleteRule, Turn
<1>6. ASSUME NEW status \in Status, DoDetachNic(a, status)
      PROVE  /\ sgs' = sgs /\ rules' = rules /\ a.op = "DetachNic"
             /\ \A p \in attached \ attached' : p = <<a.sg_id, a.port_id>>
  BY <1>6 DEF DoDetachNic, Turn
<1>7. ASSUME NEW status \in Status, DoDeleteSg(a, status)
      PROVE  /\ attached' = attached /\ a.op = "DeleteSg"
             /\ \A sg \in sgs \ sgs' : sg.id = a.sg_id
             /\ \A r \in rules \ rules' : r.sg_id \notin {sg.id : sg \in sgs'}
  BY <1>7 DEF DoDeleteSg, Turn
<1> QED
  BY <1>1, <1>2, <1>3, <1>4, <1>5, <1>6, <1>7 DEF Perform

LEMMA RemovalStep ==
    ASSUME OneResultPerAction, StartInv, RuleInv, TypeOK, [Next]_vars
    PROVE  RemovalJustified \/ UNCHANGED vars
<1>1. SUFFICES ASSUME NEW a \in todo, Perform(a) PROVE RemovalJustified
  BY DEF Next, Finished
<1>2. Loaded(code) /\ WellFormed(read) /\ a \in Plan(code, read)
  BY TodoPlanned
<1>3. ASSUME NEW sg \in sgs, \A x \in sgs' : x.id # sg.id
      PROVE  \E x \in read.sgs : x.id = sg.id /\ x.name \notin code.groups
  BY <1>1, <1>2, <1>3, Removers, DeleteSgPlanned
<1>4. ASSUME NEW p \in attached \ attached'
      PROVE  \E x \in read.sgs :
               /\ x.id = p[1]
               /\ \A n \in read.nics : n.port_id = p[2] => <<x.name, n.ip>> \notin code.members
  <2>1. a.op = "DetachNic" /\ p = <<a.sg_id, a.port_id>>
    BY <1>1, <1>4, Removers
  <2>2. p[1] = a.sg_id /\ p[2] = a.port_id
    BY <2>1
  <2> QED
    BY <1>2, <2>1, <2>2, DetachPlanned
<1>5. ASSUME NEW r \in rules \ rules', r.sg_id \in {sg.id : sg \in sgs'}
      PROVE  /\ r.remote_group_id # r.sg_id
             /\ \E x \in read.sgs : /\ x.id = r.sg_id
                                    /\ <<x.name, r.direction>> \in code.managed
                                    /\ IdentityOf(read, r) \notin Wanted(code, x.name, r.direction)
  <2>1. a.op = "DeleteRule" /\ r.id = a.rule_id
    BY <1>1, <1>5, Removers
  <2>2. PICK x \in read.sgs, q \in read.rules :
          /\ q.id = a.rule_id /\ q.sg_id = x.id
          /\ q.remote_group_id # q.sg_id
          /\ <<x.name, q.direction>> \in code.managed
          /\ IdentityOf(read, q) \notin Wanted(code, x.name, q.direction)
    BY <1>2, <2>1, DeleteRulePlanned
  <2>3. r = q
    BY <2>1, <2>2 DEF RuleInv
  <2> QED
    BY <2>2, <2>3
<1> QED
  BY <1>3, <1>4, <1>5 DEF RemovalJustified

\* Whatever reading the plan was made from, however old, no step of a run
\* removes a self rule, a rule of a direction code does not manage or still
\* lists, a member its group lists, or a group that has a directory, as far
\* as that reading can tell.
THEOREM RemovalsAreJustified == Spec => RemovalsJustified
<1>1. Init => RuleInv
  BY InitRule
<1>2. RuleInv /\ StartInv /\ [Next]_vars => RuleInv'
  BY RuleStep
<1>3. OneResultPerAction /\ StartInv /\ RuleInv /\ TypeOK /\ [Next]_vars => [RemovalJustified]_vars
  BY RemovalStep
<1> QED
  BY <1>1, <1>2, <1>3, OneResult, StartCorrect, TypeCorrect, PTL DEF Spec, RemovalsJustified

(***************************************************************************)
(* Additions.  A payload names its group twice, by name and by id; the two *)
(* agree, whether the id was read or came from this run's CreateSg.        *)
(***************************************************************************)
LEMMA GroupKnown ==
    ASSUME StartInv, OneResultPerAction,
           NEW a \in todo, a.op \in {"CreateRule", "AttachNic"}, SgIdOf(a) \in SgId
    PROVE  KnownAs(SgIdOf(a), a.group)
<1>1. Loaded(code) /\ WellFormed(read) /\ a \in Plan(code, read)
  BY TodoPlanned
<1>2. a.sg_id = TargetId(read, a.group)
  BY <1>1, BlankPlanned
<1>3. CASE a.sg_id # None
  <2>1. SgNamed(read, a.group) # {}
    BY <1>2, <1>3 DEF TargetId
  <2> QED
    BY <1>1, <1>2, <1>3, <2>1, TargetIdKnown DEF SgIdOf, KnownAs
<1>4. CASE a.sg_id = None
  BY <1>4 DEF SgIdOf, KnownAs
<1> QED
  BY <1>3, <1>4

LEMMA AttachPlanned ==
    ASSUME NEW c, NEW inv, ~Unresolved(c, inv), NEW a \in Plan(c, inv), a.op = "AttachNic"
    PROVE  \E m \in c.members : /\ m[1] = a.group
                                /\ \E n \in NicsByIp(inv, m[2]) : n.port_id = a.port_id
<1>1. CASE a \in PlanAbsentGroups(c, inv)
  BY <1>1, AbsentCases DEF DeleteSg, DetachNic
<1>2. ASSUME NEW g \in c.groups, a \in PlanGroupRow(c, inv, g) PROVE FALSE
  BY <1>2, GroupRowCases DEF CreateSg, UpdateSg
<1>3. ASSUME NEW g \in c.groups, a \in PlanMembers(c, inv, g)
      PROVE  \E m \in c.members : /\ m[1] = a.group
                                  /\ \E n \in NicsByIp(inv, m[2]) : n.port_id = a.port_id
  <2>1. PICK ip \in DesiredIps(c, g) :
          a = AttachNic(g, TargetId(inv, g), Nic(inv, ip).port_id, ip)
    BY <1>3, MembersCases DEF DetachNic
  <2>2. PICK m \in c.members : m[1] = g /\ m[2] = ip
    BY DEF DesiredIps
  <2>3. Resolves(inv, m[2])
    BY DEF Unresolved
  <2>4. Nic(inv, m[2]) \in NicsByIp(inv, m[2])
    BY <2>3, NicResolves
  <2>5. a.group = g /\ a.port_id = Nic(inv, m[2]).port_id
    BY <2>1, <2>2 DEF AttachNic
  <2> QED
    BY <2>2, <2>4, <2>5
<1>4. ASSUME NEW g \in c.groups, a \in PlanRules(c, inv, g) PROVE FALSE
  <2>1. PICK d \in Direction :
          /\ <<g, d>> \in c.managed
          /\ \/ \E w \in Wanted(c, g, d) : a = CreateRule(g, TargetId(inv, g), w)
             \/ \E r \in Stale(c, inv, g, d) : a = DeleteRule(g, r.id)
    BY <1>4, RulesCases
  <2> QED
    BY <2>1 DEF CreateRule, DeleteRule
<1> QED
  BY <1>1, <1>2, <1>3, <1>4, PlanCases

LEMMA CreateRulePlanned ==
    ASSUME NEW c, NEW inv, NEW a \in Plan(c, inv), a.op = "CreateRule"
    PROVE  \E d \in Direction : <<a.group, d>> \in c.managed /\ a.rule \in Wanted(c, a.group, d)
<1>1. CASE a \in PlanAbsentGroups(c, inv)
  BY <1>1, AbsentCases DEF DeleteSg, DetachNic
<1>2. ASSUME NEW g \in c.groups, a \in PlanGroupRow(c, inv, g) PROVE FALSE
  BY <1>2, GroupRowCases DEF CreateSg, UpdateSg
<1>3. ASSUME NEW g \in c.groups, a \in PlanMembers(c, inv, g) PROVE FALSE
  BY <1>3, MembersCases DEF AttachNic, DetachNic
<1>4. ASSUME NEW g \in c.groups, a \in PlanRules(c, inv, g)
      PROVE  \E d \in Direction : <<a.group, d>> \in c.managed /\ a.rule \in Wanted(c, a.group, d)
  <2>1. PICK d \in Direction :
          /\ <<g, d>> \in c.managed
          /\ \/ \E w \in Wanted(c, g, d) : a = CreateRule(g, TargetId(inv, g), w)
             \/ \E r \in Stale(c, inv, g, d) : a = DeleteRule(g, r.id)
    BY <1>4, RulesCases
  <2>2. PICK w \in Wanted(c, g, d) : a = CreateRule(g, TargetId(inv, g), w)
    BY <2>1 DEF DeleteRule
  <2>3. a.group = g /\ a.rule = w
    BY <2>2 DEF CreateRule
  <2> QED
    BY <2>1, <2>2, <2>3
<1> QED
  BY <1>1, <1>2, <1>3, <1>4, PlanCases

\* The ids create_rule looks up for remote groups: while a rule is still to
\* be made, what the cache holds for a name is a group of that name.
Remembers(cache, name) ==
    cache[name] # None =>
        \E x \in read.sgs \cup sgs : x.id = cache[name] /\ x.name = name

CacheInv ==
    (\E b \in todo : b.op = "CreateRule") => \A name \in Name : Remembers(cached, name)

LEMMA InitCache == Init => CacheInv
BY DEF Init, CacheInv, Remembers, Listings, Uncached

\* What a listing of some groups leaves in a cache that was right.
LEMMA ListingsRemember ==
    ASSUME \A name \in Name : Remembers(cached, name), NEW listed \in SUBSET sgs,
           NEW cache \in Listings(listed, cached), NEW name \in Name
    PROVE  Remembers(cache, name)
BY DEF Remembers, Listings

\* What a step leaves in the cache.
LEMMA CacheChange ==
    ASSUME \A name \in Name : Remembers(cached, name), TypeOK,
           NEW a \in todo, Perform(a), NEW name \in Name
    PROVE  \/ Remembers(cached', name)
           \/ \E x \in sgs' : x.id = cached'[name] /\ x.name = name
<1>1. CASE CreateSgOk(a) \/ CreateSgHalf(a)
  <2>1. PICK ids \in SUBSET FreshSgIds, id \in FreshSgIds, d \in {Blank, a.description} :
          /\ id \in ids /\ MakeGroups(a, ids, id, d)
          /\ cached' = cached \/ cached' = [cached EXCEPT ![a.group] = id]
    BY <1>1, GroupsMade
  <2> DEFINE new == [id |-> id, name |-> a.group, description |-> IF id = id THEN d ELSE Blank]
  <2>2. new \in sgs' /\ new.id = id /\ new.name = a.group
    BY <2>1 DEF MakeGroups
  <2> HIDE DEF new
  <2> QED
    BY <2>1, <2>2 DEF TypeOK, Remembers
<1>2. CASE Skip(a) \/ CreateSgFails(a) \/ CallFails(a)
  BY <1>2 DEF Skip, CreateSgFails, CallFails
<1>3. CASE CreateRuleFails(a)
  BY <1>3, ListingsRemember DEF CreateRuleFails
<1>4. ASSUME NEW status \in Status, DoCreateRule(a, status) PROVE Remembers(cached', name)
  BY <1>4, ListingsRemember DEF DoCreateRule, CachesFor
<1>5. ASSUME NEW status \in Status,
             \/ DoUpdateSg(a, status) \/ DoAttachNic(a, status)
             \/ DoDeleteRule(a, status) \/ DoDetachNic(a, status) \/ DoDeleteSg(a, status)
      PROVE  cached' = cached
  BY <1>5 DEF DoUpdateSg, DoAttachNic, DoDeleteRule, DoDetachNic, DoDeleteSg
<1> QED
  BY <1>1, <1>2, <1>3, <1>4, <1>5 DEF Perform

LEMMA CacheStep ==
    ASSUME TypeOK, CacheInv, [Next]_vars
    PROVE  CacheInv'
<1>1. CASE UNCHANGED vars
  BY <1>1 DEF CacheInv, Remembers, vars
<1>2. ASSUME NEW a \in todo, Perform(a), NEW b \in todo', b.op = "CreateRule", NEW name \in Name
      PROVE  Remembers(cached, name)'
  <2>1. b \in todo /\ read' = read
    BY <1>2, PerformRecords DEF Record
  <2>2. \A n \in Name : Remembers(cached, n)
    BY <1>2, <2>1 DEF CacheInv
  <2>3. ASSUME a.op = "DeleteSg" PROVE FALSE
    <3>1. Ready(a)
      BY <1>2, <2>3 DEF Perform, Skip, Skipped, CreateSgOk, CreateSgHalf, CreateSgFails,
           CreateRuleFails, CallFails, DoUpdateSg, DoCreateRule, DoAttachNic, DoDeleteRule,
           DoDetachNic, DoDeleteSg, Turn
    <3>2. Order[a.op] <= Order[b.op]
      BY <2>1, <3>1 DEF Ready
    <3>3. Order[a.op] = 6 /\ Order[b.op] = 2
      BY <1>2, <2>3 DEF Order
    <3> QED
      BY <3>2, <3>3
  <2>4. \A x \in sgs : \E y \in sgs' : y.id = x.id /\ y.name = x.name
    BY <1>2, <2>3, GroupsStep
  <2>5. CASE Remembers(cached', name)
    BY <2>1, <2>4, <2>5 DEF Remembers
  <2>6. CASE \E x \in sgs' : x.id = cached'[name] /\ x.name = name
    BY <2>6 DEF Remembers
  <2> QED
    BY <1>2, <2>2, <2>5, <2>6, CacheChange
<1> QED
  BY <1>1, <1>2 DEF CacheInv, Next, Finished

LEMMA CacheKept == Spec => []CacheInv
<1>1. CacheInv /\ TypeOK /\ [Next]_vars => CacheInv'
  BY CacheStep
<1> QED
  BY <1>1, InitCache, TypeCorrect, PTL DEF Spec

\* What a step can add, and by which call.
LEMMA Adders ==
    ASSUME TypeOK, NEW a \in todo, Perform(a)
    PROVE  /\ \A p \in attached' \ attached :
                a.op = "AttachNic" /\ SgIdOf(a) \in SgId /\ p = <<SgIdOf(a), a.port_id>>
           /\ \A r \in rules' \ rules :
                \/ r.remote_group_id = r.sg_id /\ ~Live(r.sg_id)
                \/ /\ a.op = "CreateRule" /\ SgIdOf(a) \in SgId /\ UNCHANGED sgs
                   /\ a.rule.remote \in Name => Live(RemoteIdOf(a))
                   /\ \E i : r = RuleMade(a, i)
<1>1. CASE CreateSgOk(a) \/ CreateSgHalf(a)
  <2>1. PICK ids \in SUBSET FreshSgIds : rules' = rules \cup UNION {SelfRules(i) : i \in ids}
    BY <1>1, GroupsMade DEF MakeGroups
  <2>2. \A i \in ids : ~Live(i)
    BY DEF Live, FreshSgIds, UsedSgIds
  <2>3. \A i \in ids : \A r \in SelfRules(i) : r.remote_group_id = i /\ r.sg_id = i
    BY DEF SelfRules
  <2>4. attached' = attached
    BY <1>1 DEF CreateSgOk, CreateSgHalf
  <2> QED
    BY <2>1, <2>2, <2>3, <2>4
<1>2. CASE Skip(a) \/ CreateSgFails(a) \/ CreateRuleFails(a) \/ CallFails(a)
  BY <1>2 DEF Skip, CreateSgFails, CreateRuleFails, CallFails
<1>3. ASSUME NEW status \in Status,
             \/ DoUpdateSg(a, status) \/ DoDeleteRule(a, status)
             \/ DoDetachNic(a, status) \/ DoDeleteSg(a, status)
      PROVE  attached' \subseteq attached /\ rules' \subseteq rules
  BY <1>3 DEF DoUpdateSg, DoDeleteRule, DoDetachNic, DoDeleteSg
<1>4. ASSUME NEW status \in Status, DoAttachNic(a, status)
      PROVE  /\ a.op = "AttachNic" /\ SgIdOf(a) \in SgId /\ rules' = rules
             /\ attached' = attached \cup {<<SgIdOf(a), a.port_id>>}
  BY <1>4 DEF DoAttachNic, Turn, Live, TypeOK, CloudSg
<1>5. ASSUME NEW status \in Status, DoCreateRule(a, status)
      PROVE  /\ a.op = "CreateRule" /\ SgIdOf(a) \in SgId /\ UNCHANGED <<sgs, attached>>
             /\ a.rule.remote \in Name => Live(RemoteIdOf(a))
             /\ \A r \in rules' \ rules : \E i : r = RuleMade(a, i)
  <2>1. a.op = "CreateRule" /\ SgIdOf(a) \in SgId /\ UNCHANGED <<sgs, attached>>
    BY <1>5 DEF DoCreateRule, Turn, Live, TypeOK, CloudSg
  <2> QED
    BY <1>5, <2>1, RulesMade
<1> QED
  BY <1>1, <1>2, <1>3, <1>4, <1>5 DEF Perform

LEMMA AdditionStep ==
    ASSUME OneResultPerAction, StartInv, TypeOK, CacheInv, [Next]_vars
    PROVE  AdditionWanted \/ UNCHANGED vars
<1>1. SUFFICES ASSUME NEW a \in todo, Perform(a) PROVE AdditionWanted
  BY DEF Next, Finished
<1>2. Loaded(code) /\ WellFormed(read) /\ ~Unresolved(code, read) /\ a \in Plan(code, read)
  BY TodoPlanned DEF StartInv, Plannable
<1>3. ASSUME NEW p \in attached' \ attached
      PROVE  \E m \in code.members : /\ KnownAs(p[1], m[1])
                                     /\ \E n \in NicsByIp(read, m[2]) : n.port_id = p[2]
  <2>1. a.op = "AttachNic" /\ SgIdOf(a) \in SgId /\ p = <<SgIdOf(a), a.port_id>>
    BY <1>1, <1>3, Adders
  <2>2. p[1] = SgIdOf(a) /\ p[2] = a.port_id
    BY <2>1
  <2>3. KnownAs(SgIdOf(a), a.group)
    BY <2>1, GroupKnown
  <2> QED
    BY <1>2, <2>1, <2>2, <2>3, AttachPlanned
<1>4. ASSUME NEW r \in rules' \ rules, ~(r.remote_group_id = r.sg_id /\ ~Live(r.sg_id))
      PROVE  \E m \in code.managed :
               /\ KnownAs(r.sg_id, m[1])
               /\ \E w \in Wanted(code, m[1], m[2]) : Meets(r, w)
  <2>1. /\ a.op = "CreateRule" /\ SgIdOf(a) \in SgId /\ UNCHANGED sgs
        /\ a.rule.remote \in Name => Live(RemoteIdOf(a))
        /\ \E i : r = RuleMade(a, i)
    BY <1>1, <1>4, Adders
  <2>2. /\ r.sg_id = SgIdOf(a) /\ r.direction = a.rule.direction
        /\ r.service = a.rule.service /\ r.remote_group_id = RemoteIdOf(a)
        /\ r.remote_ip_prefix = IF a.rule.remote \in Name THEN None ELSE a.rule.remote
    BY <2>1 DEF RuleMade
  <2>3. KnownAs(r.sg_id, a.group)
    BY <2>1, <2>2, GroupKnown
  <2>4. PICK d \in Direction : <<a.group, d>> \in code.managed /\ a.rule \in Wanted(code, a.group, d)
    BY <1>2, <2>1, CreateRulePlanned
  <2>5. <<a.group, d>>[1] = a.group /\ <<a.group, d>>[2] = d
    OBVIOUS
  <2>6. ASSUME a.rule.remote \in Name
        PROVE  \E x \in read.sgs \cup sgs : x.id = RemoteIdOf(a) /\ x.name = a.rule.remote
    <3>1. RemoteIdOf(a) = cached'[a.rule.remote] /\ RemoteIdOf(a) # None
      BY <2>1, <2>6, EstateAssumption DEF RemoteIdOf, Live, TypeOK, CloudSg
    <3>2. \A name \in Name : Remembers(cached, name)
      BY <2>1 DEF CacheInv
    <3>3. \/ Remembers(cached', a.rule.remote)
          \/ \E x \in sgs' : x.id = cached'[a.rule.remote] /\ x.name = a.rule.remote
      BY <1>1, <2>6, <3>2, CacheChange
    <3> QED
      BY <2>1, <3>1, <3>3 DEF Remembers
  <2>7. Meets(r, a.rule)
    BY <2>2, <2>6 DEF Meets, RemoteIdOf
  <2> QED
    BY <2>3, <2>4, <2>5, <2>7
<1> QED
  BY <1>3, <1>4 DEF AdditionWanted

\* Nothing is added to the cloud that code does not ask for in that very
\* group, from that very remote, even from an old reading and after any
\* failures: the ids that resolve_sg_id and _resolve_remote_id substitute are
\* those of groups with the names the payload gives.
THEOREM AdditionsAreWanted == Spec => AdditionsWanted
<1>1. OneResultPerAction /\ StartInv /\ TypeOK /\ CacheInv /\ [Next]_vars => [AdditionWanted]_vars
  BY AdditionStep
<1> QED
  BY <1>1, OneResult, StartCorrect, TypeCorrect, CacheKept, PTL DEF Spec, AdditionsWanted

-----------------------------------------------------------------------------
(***************************************************************************)
(* What a run that was planned from the cloud it meets achieves, for every *)
(* project and cloud: traffic code wants is never cut, a NIC code lists is *)
(* never bare, the announced strips are the ones that happen, and planning *)
(* again finds only what failed.  All four rest on the order of kinds      *)
(* (AdditionsFirst), on the group ids and names (IdsInv, CacheInv), and on *)
(* one invariant per kind of work: done, failed, or still to do.           *)
(***************************************************************************)

(***************************************************************************)
(* The three shapes a step has.                                            *)
(***************************************************************************)
\* A call without effect on the cloud.
Quiet(a) ==
    /\ UNCHANGED <<sgs, rules, attached, created>>
    /\ Record(a, "failed")

\* Groups that were made, whether or not the run learnt an id.
Made(a, ids, id, d) ==
    /\ a.op = "CreateSg"
    /\ id \in ids
    /\ MakeGroups(a, ids, id, d)
    /\ UNCHANGED attached
    /\ \/ /\ d = a.description
          /\ created' = [created EXCEPT ![a.group] = id]
          /\ Record(a, "ok")
       \/ UNCHANGED created /\ Record(a, "failed")

\* A call on something the cloud has.
Called(a, status) ==
    \/ DoUpdateSg(a, status) \/ DoCreateRule(a, status)
    \/ DoAttachNic(a, status) \/ DoDeleteRule(a, status)
    \/ DoDetachNic(a, status) \/ DoDeleteSg(a, status)

LEMMA Effects ==
    ASSUME NEW a \in todo, Perform(a)
    PROVE  /\ Ready(a)
           /\ UNCHANGED <<code, read, origin>>
           /\ \/ Quiet(a)
              \/ \E ids \in SUBSET FreshSgIds, id \in FreshSgIds, d \in {Blank, a.description} :
                    Made(a, ids, id, d)
              \/ \E status \in Status : Called(a, status)
<1>1. CASE CreateSgOk(a)
  <2>1. PICK ids \in SUBSET FreshSgIds, id \in FreshSgIds :
          /\ id \in ids
          /\ MakeGroups(a, ids, id, a.description)
          /\ created' = [created EXCEPT ![a.group] = id]
    BY <1>1 DEF CreateSgOk, Copies
  <2>2. Made(a, ids, id, a.description)
    BY <1>1, <2>1 DEF CreateSgOk, Turn, Made
  <2> QED
    BY <1>1, <2>2 DEF CreateSgOk, Turn
<1>2. CASE CreateSgHalf(a)
  <2>1. PICK ids \in SUBSET FreshSgIds, id \in FreshSgIds, d \in {Blank, a.description} :
          id \in ids /\ MakeGroups(a, ids, id, d)
    BY <1>2, GroupsMade
  <2>2. Made(a, ids, id, d)
    BY <1>2, <2>1 DEF CreateSgHalf, Turn, Made
  <2> QED
    BY <1>2, <2>2 DEF CreateSgHalf, Turn
<1>3. CASE Skip(a) \/ CreateSgFails(a) \/ CallFails(a)
  BY <1>3 DEF Skip, CreateSgFails, CallFails, Turn, Quiet
<1>4. CASE CreateRuleFails(a)
  BY <1>4 DEF CreateRuleFails, Turn, Quiet
<1>5. ASSUME NEW status \in Status, Called(a, status)
      PROVE  Ready(a) /\ UNCHANGED <<code, read, origin>>
  BY <1>5 DEF Called, DoUpdateSg, DoCreateRule, DoAttachNic, DoDeleteRule, DoDetachNic,
              DoDeleteSg, Turn
<1> QED
  BY <1>1, <1>2, <1>3, <1>4, <1>5 DEF Perform, Called

(***************************************************************************)
(* The order of kinds: while an addition waits, nothing of the cloud the   *)
(* run found has been taken away.                                          *)
(***************************************************************************)
Additions == {"CreateSg", "UpdateSg", "CreateRule", "AttachNic"}

AdditionsFirst ==
    (\E b \in todo : b.op \in Additions) =>
        /\ origin.rules \subseteq rules
        /\ origin.attached \subseteq attached
        /\ \A x \in results : x.action.op \in Additions

\* A removal's turn comes when no addition waits.
LEMMA TurnOfRemovals ==
    ASSUME NEW a, NEW b \in todo, Ready(a), b.op \in Additions,
           a.op \in {"DeleteRule", "DetachNic", "DeleteSg"}
    PROVE  FALSE
<1>1. Order[a.op] <= Order[b.op]
  BY DEF Ready
<1>2. Order[a.op] \in {4, 5, 6}
  BY DEF Order
<1>3. Order[b.op] \in {0, 1, 2, 3}
  BY DEF Order, Additions
<1> QED
  BY <1>1, <1>2, <1>3

LEMMA AdditionsGrow ==
    ASSUME NEW a \in todo, Perform(a), a.op \notin {"DeleteRule", "DetachNic", "DeleteSg"}
    PROVE  rules \subseteq rules' /\ attached \subseteq attached'
<1>1. CASE Quiet(a)
  BY <1>1 DEF Quiet
<1>2. ASSUME NEW ids, NEW id, NEW d, Made(a, ids, id, d)
      PROVE  rules \subseteq rules' /\ attached \subseteq attached'
  BY <1>2 DEF Made, MakeGroups
<1>3. ASSUME NEW status \in Status,
             DoUpdateSg(a, status) \/ DoCreateRule(a, status) \/ DoAttachNic(a, status)
      PROVE  rules \subseteq rules' /\ attached \subseteq attached'
  BY <1>3, RulesMade DEF DoUpdateSg, DoCreateRule, DoAttachNic
<1>4. ASSUME NEW status \in Status,
             DoDeleteRule(a, status) \/ DoDetachNic(a, status) \/ DoDeleteSg(a, status)
      PROVE  FALSE
  BY <1>4 DEF DoDeleteRule, DoDetachNic, DoDeleteSg, Turn
<1> QED
  BY <1>1, <1>2, <1>3, <1>4, Effects DEF Called

LEMMA InitOrder == Init => AdditionsFirst
BY DEF Init, AdditionsFirst

LEMMA OrderStep ==
    ASSUME TypeOK, AdditionsFirst, [Next]_vars
    PROVE  AdditionsFirst'
<1>1. CASE UNCHANGED vars
  BY <1>1 DEF AdditionsFirst, vars
<1>2. ASSUME NEW a \in todo, Perform(a) PROVE AdditionsFirst'
  <2>1. SUFFICES ASSUME NEW b \in todo', b.op \in Additions
                 PROVE  /\ origin'.rules \subseteq rules'
                        /\ origin'.attached \subseteq attached'
                        /\ \A x \in results' : x.action.op \in Additions
    BY DEF AdditionsFirst
  <2>2. PICK status \in Status : Record(a, status)
    BY <1>2, PerformRecords
  <2>3. b \in todo /\ origin' = origin /\ Ready(a)
    BY <1>2, <2>1, <2>2, Effects DEF Record
  <2>4. a.op \notin {"DeleteRule", "DetachNic", "DeleteSg"}
    BY <2>1, <2>3, TurnOfRemovals
  <2>5. a.op \in Additions
    BY <2>4 DEF TypeOK, Action, Additions
  <2>6. \A x \in results' : x \in results \/ x.action = a
    BY <2>2 DEF Record
  <2> QED
    BY <1>2, <2>1, <2>3, <2>4, <2>5, <2>6, AdditionsGrow DEF AdditionsFirst
<1> QED
  BY <1>1, <1>2 DEF Next, Finished

LEMMA OrderKept == Spec => []AdditionsFirst
<1>1. AdditionsFirst /\ TypeOK /\ [Next]_vars => AdditionsFirst'
  BY OrderStep
<1> QED
  BY <1>1, InitOrder, TypeCorrect, PTL DEF Spec

(***************************************************************************)
(* Ids and names of groups, in a run planned from the cloud it meets.      *)
(***************************************************************************)
LiveNamed(id, g) == \E sg \in sgs : sg.id = id /\ sg.name = g
InRead(id) == \E y \in read.sgs : y.id = id

OneGroupPerId == \A x, y \in sgs : x.id = y.id => x = y
NamesStay == \A x \in sgs, y \in read.sgs : x.id = y.id => x.name = y.name
DeclaredStay == \A y \in read.sgs : y.name \in code.groups => LiveNamed(y.id, y.name)
CreatedLive ==
    \A g \in GroupName : created[g] # None => LiveNamed(created[g], g) /\ ~InRead(created[g])
NewGroups ==
    \A sg \in sgs : ~InRead(sg.id) =>
        sg.name \in code.groups /\ \A p \in read.attached : p[1] # sg.id

IdsInv ==
    Fresh => /\ OneGroupPerId
             /\ NamesStay
             /\ DeclaredStay
             /\ CreatedLive
             /\ NewGroups

LEMMA InitIds == Init => IdsInv
<1> SUFFICES ASSUME Init, Fresh
             PROVE  OneGroupPerId /\ NamesStay /\ DeclaredStay /\ CreatedLive /\ NewGroups
  BY DEF IdsInv
<1>1. sgs = read.sgs /\ WellFormed(read)
  BY ExecutorAssumption DEF Init, Fresh
<1>2. OneGroupPerId /\ NamesStay /\ NewGroups
  BY <1>1 DEF WellFormed, OneGroupPerId, NamesStay, NewGroups, InRead
<1>3. DeclaredStay
  BY <1>1 DEF DeclaredStay, LiveNamed
<1>4. CreatedLive
  BY DEF Init, CreatedLive
<1> QED
  BY <1>2, <1>3, <1>4

\* A group a project declares, or that this run made, stays under its id and
\* name.
LEMMA LiveStays ==
    ASSUME OneResultPerAction, StartInv, NamesStay, NEW a \in todo, Perform(a),
           NEW id, NEW g, LiveNamed(id, g), g \in code.groups \/ ~InRead(id)
    PROVE  LiveNamed(id, g)'
<1>1. PICK sg \in sgs : sg.id = id /\ sg.name = g
  BY DEF LiveNamed
<1>2. CASE Quiet(a)
  BY <1>1, <1>2 DEF Quiet, LiveNamed
<1>3. ASSUME NEW ids, NEW new, NEW d, Made(a, ids, new, d) PROVE LiveNamed(id, g)'
  BY <1>1, <1>3 DEF Made, MakeGroups, LiveNamed
<1>4. ASSUME NEW status \in Status, DoUpdateSg(a, status) PROVE LiveNamed(id, g)'
  <2> DEFINE new == [id |-> sg.id, name |-> sg.name, description |-> a.description]
  <2>1. new.id = id /\ new.name = g
    BY <1>1
  <2>2. (IF sg.id = a.sg_id THEN new ELSE sg) \in sgs'
    BY <1>4 DEF DoUpdateSg
  <2> QED
    BY <1>1, <2>1, <2>2 DEF LiveNamed
<1>5. ASSUME NEW status \in Status,
             \/ DoCreateRule(a, status) \/ DoAttachNic(a, status)
             \/ DoDeleteRule(a, status) \/ DoDetachNic(a, status)
      PROVE  LiveNamed(id, g)'
  BY <1>1, <1>5 DEF DoCreateRule, DoAttachNic, DoDeleteRule, DoDetachNic, LiveNamed
<1>6. ASSUME NEW status \in Status, DoDeleteSg(a, status) PROVE LiveNamed(id, g)'
  <2>1. a.op = "DeleteSg" /\ sgs' = {x \in sgs : x.id # a.sg_id}
    BY <1>6 DEF DoDeleteSg, Turn
  <2>2. PICK x \in read.sgs : x.id = a.sg_id /\ x.name \notin code.groups
    BY <2>1, TodoPlanned, DeleteSgPlanned
  <2>3. sg.id # a.sg_id
    BY <1>1, <2>2 DEF NamesStay, InRead
  <2> QED
    BY <1>1, <2>1, <2>3 DEF LiveNamed
<1> QED
  BY <1>2, <1>3, <1>4, <1>5, <1>6, Effects DEF Called

\* A live group was live before, under the same id and name, or has just
\* been made.
LEMMA LiveBefore ==
    ASSUME NEW a \in todo, Perform(a), NEW sg \in sgs'
    PROVE  \/ LiveNamed(sg.id, sg.name)
           \/ /\ a.op = "CreateSg" /\ sg.name = a.group
              /\ sg.id \in FreshSgIds
<1>1. CASE Quiet(a)
  BY <1>1 DEF Quiet, LiveNamed
<1>2. ASSUME NEW ids \in SUBSET FreshSgIds, NEW new, NEW d, Made(a, ids, new, d)
      PROVE  LiveNamed(sg.id, sg.name)
             \/ (a.op = "CreateSg" /\ sg.name = a.group /\ sg.id \in FreshSgIds)
  BY <1>2 DEF Made, MakeGroups, LiveNamed
<1>3. ASSUME NEW status \in Status, Called(a, status) PROVE LiveNamed(sg.id, sg.name)
  BY <1>3 DEF Called, DoUpdateSg, DoCreateRule, DoAttachNic, DoDeleteRule, DoDetachNic, DoDeleteSg,
              LiveNamed
<1> QED
  BY <1>1, <1>2, <1>3, Effects

LEMMA MadeLives ==
    ASSUME NEW a, NEW ids, NEW id, NEW d, Made(a, ids, id, d)
    PROVE  LiveNamed(id, a.group)'
<1> DEFINE new(i) == [id |-> i, name |-> a.group, description |-> IF i = id THEN d ELSE Blank]
<1>1. new(id).id = id /\ new(id).name = a.group
  OBVIOUS
<1>2. new(id) \in sgs'
  BY DEF Made, MakeGroups
<1> QED
  BY <1>1, <1>2 DEF LiveNamed

\* Ids of new groups are of no group, rule or member that was there.
LEMMA FreshIds ==
    ASSUME NEW id \in FreshSgIds
    PROVE  /\ id \in SgId
           /\ \A sg \in sgs : sg.id # id
           /\ ~InRead(id)
           /\ \A r \in rules : r.remote_group_id # id
           /\ \A p \in attached : p[1] # id
BY DEF FreshSgIds, UsedSgIds, InRead

\* The group of a CreateSg is one code declares.
LEMMA CreateSgDeclared ==
    ASSUME NEW c, NEW inv, NEW a \in Plan(c, inv), a.op = "CreateSg"
    PROVE  a.group \in c.groups
<1>1. CASE a \in PlanAbsentGroups(c, inv)
  BY <1>1, AbsentCases DEF DeleteSg, DetachNic
<1>2. ASSUME NEW g \in c.groups, a \in PlanGroupRow(c, inv, g) PROVE a.group \in c.groups
  BY <1>2, GroupRowCases DEF CreateSg, UpdateSg
<1>3. ASSUME NEW g \in c.groups, a \in PlanMembers(c, inv, g) PROVE FALSE
  BY <1>3, MembersCases DEF AttachNic, DetachNic
<1>4. ASSUME NEW g \in c.groups, a \in PlanRules(c, inv, g) PROVE FALSE
  <2>1. PICK d \in Direction :
          /\ <<g, d>> \in c.managed
          /\ \/ \E w \in Wanted(c, g, d) : a = CreateRule(g, TargetId(inv, g), w)
             \/ \E r \in Stale(c, inv, g, d) : a = DeleteRule(g, r.id)
    BY <1>4, RulesCases
  <2> QED
    BY <2>1 DEF CreateRule, DeleteRule
<1> QED
  BY <1>1, <1>2, <1>3, <1>4, PlanCases

LEMMA OneGroupPerIdStep ==
    ASSUME OneGroupPerId, NEW a \in todo, Perform(a)
    PROVE  OneGroupPerId'
<1>1. CASE Quiet(a)
  BY <1>1 DEF Quiet, OneGroupPerId
<1>2. ASSUME NEW ids \in SUBSET FreshSgIds, NEW id, NEW d, Made(a, ids, id, d)
      PROVE  OneGroupPerId'
  <2> DEFINE new(i) == [id |-> i, name |-> a.group, description |-> IF i = id THEN d ELSE Blank]
  <2>1. sgs' = sgs \cup {new(i) : i \in ids} /\ \A i : new(i).id = i
    BY <1>2 DEF Made, MakeGroups
  <2> HIDE DEF new
  <2> QED
    BY <2>1, FreshIds DEF OneGroupPerId
<1>3. ASSUME NEW status \in Status, DoUpdateSg(a, status) PROVE OneGroupPerId'
  BY <1>3 DEF DoUpdateSg, OneGroupPerId
<1>4. ASSUME NEW status \in Status,
             \/ DoCreateRule(a, status) \/ DoAttachNic(a, status)
             \/ DoDeleteRule(a, status) \/ DoDetachNic(a, status) \/ DoDeleteSg(a, status)
      PROVE  OneGroupPerId'
  BY <1>4 DEF DoCreateRule, DoAttachNic, DoDeleteRule, DoDetachNic, DoDeleteSg, OneGroupPerId
<1> QED
  BY <1>1, <1>2, <1>3, <1>4, Effects DEF Called

LEMMA CreatedLiveStep ==
    ASSUME TypeOK, OneResultPerAction, StartInv, NamesStay, CreatedLive,
           NEW a \in todo, Perform(a)
    PROVE  CreatedLive'
<1>0. read' = read
  BY Effects
<1>1. SUFFICES ASSUME NEW g \in GroupName, created'[g] # None
               PROVE  LiveNamed(created[g], g)' /\ ~InRead(created[g])'
  BY DEF CreatedLive
<1>2. CASE created'[g] = created[g]
  <2>1. PICK id : id = created[g]
    OBVIOUS
  <2>2. LiveNamed(id, g) /\ ~InRead(id)
    BY <1>1, <1>2, <2>1 DEF CreatedLive
  <2>3. LiveNamed(id, g)' /\ ~InRead(id)'
    BY <1>0, <2>2, LiveStays DEF InRead
  <2> QED
    BY <1>2, <2>1, <2>3 DEF LiveNamed, InRead
<1>3. CASE created'[g] # created[g]
  <2>1. PICK ids \in SUBSET FreshSgIds, id \in FreshSgIds, d \in {Blank, a.description} :
          Made(a, ids, id, d)
    BY <1>3, Effects DEF Quiet, Called, DoUpdateSg, DoCreateRule, DoAttachNic, DoDeleteRule,
                         DoDetachNic, DoDeleteSg
  <2>2. created' = [created EXCEPT ![a.group] = id]
    BY <1>3, <2>1 DEF Made
  <2>3. g = a.group /\ created'[g] = id
    BY <1>1, <1>3, <2>2 DEF TypeOK
  <2>4. LiveNamed(id, g)'
    BY <2>1, <2>3, MadeLives
  <2>5. ~InRead(id)'
    BY <1>0, FreshIds DEF InRead
  <2> QED
    BY <2>3, <2>4, <2>5 DEF LiveNamed, InRead
<1> QED
  BY <1>2, <1>3

LEMMA IdsStep ==
    ASSUME TypeOK, OneResultPerAction, StartInv, AdditionsFirst, IdsInv, [Next]_vars
    PROVE  IdsInv'
<1>1. CASE UNCHANGED vars
  BY <1>1 DEF IdsInv, Fresh, vars, OneGroupPerId, NamesStay, DeclaredStay, CreatedLive,
              NewGroups, LiveNamed, InRead
<1>2. ASSUME NEW a \in todo, Perform(a), Fresh PROVE IdsInv'
  <2>0. UNCHANGED <<code, read, origin>>
    BY <1>2, Effects
  <2>1. OneGroupPerId /\ NamesStay /\ DeclaredStay /\ CreatedLive /\ NewGroups
    BY <1>2 DEF IdsInv
  <2>2. OneGroupPerId'
    BY <1>2, <2>1, OneGroupPerIdStep
  <2>3. NamesStay'
    <3>1. ASSUME NEW x \in sgs', NEW y \in read.sgs, x.id = y.id PROVE x.name = y.name
      <4>1. LiveNamed(x.id, x.name) \/ x.id \in FreshSgIds
        BY <1>2, LiveBefore
      <4> QED
        BY <2>1, <3>1, <4>1, FreshIds DEF NamesStay, LiveNamed, InRead
    <3> QED
      BY <2>0, <3>1 DEF NamesStay
  <2>4. DeclaredStay'
    <3>1. ASSUME NEW y \in read.sgs, y.name \in code.groups PROVE LiveNamed(y.id, y.name)'
      <4>1. LiveNamed(y.id, y.name)
        BY <2>1, <3>1 DEF DeclaredStay
      <4> QED
        BY <1>2, <2>1, <3>1, <4>1, LiveStays
    <3> QED
      BY <2>0, <3>1 DEF DeclaredStay, LiveNamed
  <2>5. CreatedLive'
    BY <1>2, <2>1, CreatedLiveStep
  <2>6. NewGroups'
    <3>1. ASSUME NEW sg \in sgs', ~InRead(sg.id)
          PROVE  sg.name \in code.groups /\ \A p \in read.attached : p[1] # sg.id
      <4>1. CASE LiveNamed(sg.id, sg.name)
        BY <2>1, <3>1, <4>1 DEF NewGroups, LiveNamed
      <4>2. CASE a.op = "CreateSg" /\ sg.name = a.group /\ sg.id \in FreshSgIds
        <5>1. sg.name \in code.groups
          BY <4>2, TodoPlanned, CreateSgDeclared
        <5>2. origin.attached \subseteq attached
          BY <4>2 DEF AdditionsFirst, Additions
        <5> QED
          BY <1>2, <4>2, <5>1, <5>2, FreshIds DEF Fresh
      <4> QED
        BY <1>2, <4>1, <4>2, LiveBefore
    <3> QED
      BY <2>0, <3>1 DEF NewGroups, InRead
  <2> QED
    BY <2>2, <2>3, <2>4, <2>5, <2>6 DEF IdsInv
<1>3. ASSUME NEW a \in todo, Perform(a), ~Fresh PROVE IdsInv'
  BY <1>3, PerformRecords DEF IdsInv, Fresh
<1> QED
  BY <1>1, <1>2, <1>3 DEF Next, Finished

LEMMA IdsKept == Spec => []IdsInv
<1>1. IdsInv /\ TypeOK /\ OneResultPerAction /\ StartInv /\ AdditionsFirst /\ [Next]_vars => IdsInv'
  BY IdsStep
<1> QED
  BY <1>1, InitIds, TypeCorrect, OneResult, StartCorrect, OrderKept, PTL DEF Spec

(***************************************************************************)
(* What is owed: the actions that failed and those still to do.            *)
(***************************************************************************)
Owed == Failures \cup todo

\* An action stops being owed by being performed with success.
LEMMA StillOwed ==
    ASSUME NEW a \in todo, Perform(a), NEW b \in Owed
    PROVE  b \in Owed' \/ (b = a /\ Record(a, "ok"))
<1>1. PICK status \in Status : Record(a, status)
  BY PerformRecords
<1>2. results \subseteq results' /\ todo' = todo \ {a}
  BY <1>1 DEF Record
<1>3. CASE b \in Failures \/ b # a
  BY <1>2, <1>3 DEF Owed, Failures
<1>4. CASE b = a /\ status = "failed"
  <2>1. [action |-> a, status |-> "failed"] \in results'
    BY <1>1, <1>4 DEF Record
  <2> QED
    BY <1>4, <2>1 DEF Owed, Failures
<1> QED
  BY <1>1, <1>3, <1>4 DEF Status

\* Every planned action is owed or has succeeded.
LEMMA OwedOrOk ==
    ASSUME TypeOK, OneResultPerAction, NEW a \in Plan(code, read)
    PROVE  a \in Owed \/ [action |-> a, status |-> "ok"] \in results
<1>1. a \in todo \/ \E r \in results : r.action = a
  BY DEF OneResultPerAction
<1>2. ASSUME NEW r \in results, r.action = a
      PROVE  a \in Owed \/ [action |-> a, status |-> "ok"] \in results
  <2>1. r \in [action : Action, status : Status]
    BY DEF TypeOK
  <2>2. r = [action |-> a, status |-> r.status] /\ r.status \in Status
    BY <1>2, <2>1
  <2>3. CASE r.status = "failed"
    BY <1>2, <2>3 DEF Owed, Failures
  <2> QED
    BY <2>2, <2>3 DEF Status
<1> QED
  BY <1>1, <1>2 DEF Owed

\* One performed action has one status.
LEMMA RecordOnce ==
    ASSUME OneResultPerAction, NEW a \in todo, Record(a, "ok")
    PROVE  ~Record(a, "failed")
<1>1. SUFFICES ASSUME Record(a, "failed") PROVE FALSE
  OBVIOUS
<1>2. [action |-> a, status |-> "ok"] \in results \cup {[action |-> a, status |-> "failed"]}
  BY <1>1 DEF Record
<1>3. [action |-> a, status |-> "ok"] # [action |-> a, status |-> "failed"]
  OBVIOUS
<1>4. [action |-> a, status |-> "ok"].action = a
  OBVIOUS
<1> QED
  BY <1>2, <1>3, <1>4 DEF OneResultPerAction

\* What success means for each kind: the call took effect.
LEMMA OkCalls ==
    ASSUME OneResultPerAction, NEW a \in todo, Perform(a), Record(a, "ok")
    PROVE  \/ \E ids \in SUBSET FreshSgIds, id \in FreshSgIds : Made(a, ids, id, a.description)
           \/ \E status \in Status : Called(a, status)
BY RecordOnce, Effects DEF Quiet, Made

\* The group a payload's id stands for is the group it names.
LEMMA PayloadGroup ==
    ASSUME TypeOK, StartInv, OneResultPerAction, OneGroupPerId, NamesStay, CreatedLive,
           NEW a \in todo, a.op \in {"CreateRule", "AttachNic"}, Live(SgIdOf(a))
    PROVE  LiveNamed(SgIdOf(a), a.group)
<1>1. PICK sg \in sgs : sg.id = SgIdOf(a)
  BY DEF Live
<1>2. SgIdOf(a) \in SgId /\ SgIdOf(a) # None
  BY <1>1, EstateAssumption DEF TypeOK, CloudSg
<1>3. KnownAs(SgIdOf(a), a.group)
  BY <1>2, GroupKnown
<1>4. a.group \in GroupName
  BY ActionFields DEF TypeOK
<1>5. CASE created[a.group] = SgIdOf(a)
  BY <1>2, <1>4, <1>5 DEF CreatedLive
<1>6. ASSUME NEW x \in read.sgs, x.id = SgIdOf(a), x.name = a.group
      PROVE  LiveNamed(SgIdOf(a), a.group)
  BY <1>1, <1>6 DEF NamesStay, LiveNamed
<1> QED
  BY <1>3, <1>5, <1>6 DEF KnownAs

(***************************************************************************)
(* Members.                                                                *)
(***************************************************************************)
\* A listed NIC is in its group, or its attach is owed.
BareInv ==
    Fresh => \A m \in code.members : \A n \in NicsByIp(read, m[2]) : n.ip = m[2] =>
        \/ \E id : LiveNamed(id, m[1]) /\ <<id, n.port_id>> \in attached
        \/ \E a \in Owed : a.op = "AttachNic" /\ a.group = m[1] /\ a.port_id = n.port_id

\* The one NIC of an address.
LEMMA OneNic ==
    ASSUME NEW c, NEW inv, WellFormed(inv), ~Unresolved(c, inv), NEW m \in c.members,
           NEW n \in NicsByIp(inv, m[2])
    PROVE  /\ m[2] \in V4
           /\ Nic(inv, m[2]) = n
           /\ \A x \in inv.nics : x.ip = m[2] => x = n
<1>1. Resolves(inv, m[2])
  BY DEF Unresolved
<1>2. \A x, y \in NicsByIp(inv, m[2]) : x = y
  BY <1>1 DEF Resolves
<1>3. m[2] \in V4
  BY DEF NicsByIp
<1>4. ASSUME NEW x \in inv.nics, x.ip = m[2] PROVE x \in NicsByIp(inv, m[2])
  <2>1. x.ip # None
    BY <1>3, <1>4, EstateAssumption
  <2> QED
    BY <1>3, <1>4, <2>1 DEF WellFormed, NicsByIp
<1> QED
  BY <1>1, <1>2, <1>3, <1>4, NicResolves

LEMMA InitBare == Init => BareInv
<1> SUFFICES ASSUME Init, Fresh, NEW m \in code.members, NEW n \in NicsByIp(read, m[2]),
                    n.ip = m[2]
             PROVE  \/ \E id : LiveNamed(id, m[1]) /\ <<id, n.port_id>> \in attached
                    \/ \E a \in Owed : /\ a.op = "AttachNic" /\ a.group = m[1]
                                       /\ a.port_id = n.port_id
  BY DEF BareInv
<1>1. /\ Loaded(code) /\ WellFormed(read) /\ ~Unresolved(code, read)
      /\ sgs = read.sgs /\ attached = read.attached /\ todo = Plan(code, read)
  BY ExecutorAssumption DEF Init, Fresh, Plannable
<1>2. m[1] \in code.groups /\ m[2] \in DesiredIps(code, m[1])
  BY <1>1 DEF Loaded, DesiredIps
<1>3. /\ Nic(read, m[2]) = n
      /\ \A x \in read.nics : x.ip = m[2] => x = n
  BY <1>1, OneNic
<1>4. CASE m[2] \in AttachedIps(read, m[1])
  <2>1. PICK sg \in SgNamed(read, m[1]) : \E x \in AttachedNics(read, sg.id) : x.ip = m[2]
    BY <1>4 DEF AttachedIps
  <2>2. PICK x \in AttachedNics(read, sg.id) : x.ip = m[2]
    BY <2>1
  <2>3. x = n /\ <<sg.id, n.port_id>> \in attached
    BY <1>1, <1>3, <2>2 DEF AttachedNics
  <2> QED
    BY <1>1, <2>1, <2>3 DEF SgNamed, LiveNamed
<1>5. CASE m[2] \notin AttachedIps(read, m[1])
  <2> DEFINE a == AttachNic(m[1], TargetId(read, m[1]), n.port_id, m[2])
  <2>1. a \in PlanMembers(code, read, m[1])
    BY <1>2, <1>3, <1>5 DEF PlanMembers
  <2>2. a \in todo
    BY <1>1, <1>2, <2>1 DEF Plan
  <2> QED
    BY <2>2 DEF AttachNic, Owed
<1> QED
  BY <1>4, <1>5

LEMMA BareStep ==
    ASSUME TypeOK, StartInv, OneResultPerAction, IdsInv, BareInv, [Next]_vars
    PROVE  BareInv'
<1>1. CASE UNCHANGED vars
  <2>1. Owed' = Owed
    BY <1>1 DEF vars, Owed, Failures
  <2>2. code' = code /\ read' = read /\ origin' = origin /\ sgs' = sgs /\ attached' = attached
    BY <1>1 DEF vars
  <2>3. Fresh' = Fresh
    BY <2>2 DEF Fresh
  <2> SUFFICES ASSUME Fresh, NEW m \in code.members, NEW n \in NicsByIp(read, m[2]),
                      n.ip = m[2]
               PROVE  \/ \E id : LiveNamed(id, m[1])' /\ <<id, n.port_id>> \in attached'
                      \/ \E b \in Owed' : /\ b.op = "AttachNic" /\ b.group = m[1]
                                          /\ b.port_id = n.port_id
    BY <2>2, <2>3 DEF BareInv, NicsByIp
  <2>4. CASE \E id : LiveNamed(id, m[1]) /\ <<id, n.port_id>> \in attached
    BY <2>2, <2>4 DEF LiveNamed
  <2>5. CASE \E b \in Owed : b.op = "AttachNic" /\ b.group = m[1] /\ b.port_id = n.port_id
    BY <2>1, <2>5
  <2> QED
    BY <2>4, <2>5 DEF BareInv
<1>2. ASSUME NEW a \in todo, Perform(a), Fresh,
             NEW m \in code.members, NEW n \in NicsByIp(read, m[2]), n.ip = m[2]
      PROVE  \/ \E id : LiveNamed(id, m[1])' /\ <<id, n.port_id>> \in attached'
             \/ \E b \in Owed' : /\ b.op = "AttachNic" /\ b.group = m[1]
                                 /\ b.port_id = n.port_id
  <2>0. OneGroupPerId /\ NamesStay /\ CreatedLive
    BY <1>2 DEF IdsInv
  <2>1. /\ Loaded(code) /\ WellFormed(read) /\ a \in Plan(code, read)
        /\ m = <<m[1], m[2]>> /\ m[1] \in code.groups /\ n \in read.nics
    BY TodoPlanned, LoadedType DEF Loaded, NicsByIp
  <2>2. ASSUME NEW id, LiveNamed(id, m[1]), <<id, n.port_id>> \in attached
        PROVE  LiveNamed(id, m[1])' /\ <<id, n.port_id>> \in attached'
    <3>1. LiveNamed(id, m[1])'
      BY <1>2, <2>0, <2>1, <2>2, LiveStays
    <3>2. SUFFICES ASSUME <<id, n.port_id>> \notin attached' PROVE FALSE
      BY <3>1
    <3>3. a.op = "DetachNic" /\ id = a.sg_id /\ n.port_id = a.port_id
      BY <1>2, <2>2, <3>2, Removers
    <3>4. PICK x \in read.sgs : x.id = id /\ <<x.name, n.ip>> \notin code.members
      BY <2>1, <3>3, DetachPlanned
    <3>5. x.name = m[1]
      BY <2>0, <2>2, <3>4 DEF NamesStay, LiveNamed
    <3> QED
      BY <1>2, <2>1, <3>4, <3>5
  <2>3. ASSUME a.op = "AttachNic", a.group = m[1], a.port_id = n.port_id, Record(a, "ok")
        PROVE  \E id : LiveNamed(id, m[1])' /\ <<id, n.port_id>> \in attached'
    <3>1. PICK status \in Status : DoAttachNic(a, status)
      BY <1>2, <2>3, OkCalls DEF Made, Called, DoUpdateSg, DoCreateRule, DoDeleteRule,
                                 DoDetachNic, DoDeleteSg, Turn
    <3>2. Live(SgIdOf(a)) /\ sgs' = sgs /\ <<SgIdOf(a), n.port_id>> \in attached'
      BY <2>3, <3>1 DEF DoAttachNic
    <3>3. LiveNamed(SgIdOf(a), m[1])
      BY <2>0, <2>3, <3>2, PayloadGroup
    <3> QED
      BY <3>2, <3>3 DEF LiveNamed
  <2> QED
    BY <1>2, <2>2, <2>3, StillOwed DEF BareInv
<1>3. ASSUME NEW a \in todo, Perform(a) PROVE BareInv'
  <2>1. UNCHANGED <<code, read, origin>>
    BY <1>3, PerformRecords
  <2> QED
    BY <1>2, <1>3, <2>1 DEF BareInv, Fresh, NicsByIp
<1> QED
  BY <1>1, <1>3 DEF Next, Finished

LEMMA BareKept == Spec => []BareInv
<1>1. BareInv /\ TypeOK /\ StartInv /\ OneResultPerAction /\ IdsInv /\ [Next]_vars => BareInv'
  BY BareStep
<1> QED
  BY <1>1, InitBare, TypeCorrect, StartCorrect, OneResult, IdsKept, PTL DEF Spec

LEMMA BareImplied ==
    ASSUME StartInv, AdditionsFirst, BareInv
    PROVE  NeverBare
<1> SUFFICES ASSUME Fresh, NEW n \in origin.nics,
                    NEW m \in code.members, m[2] = n.ip,
                    NEW p \in origin.attached, p[2] = n.port_id
             PROVE  \/ \E q \in attached : q[2] = n.port_id
                    \/ \E a \in Failures : a.op = "AttachNic" /\ a.port_id = n.port_id
  BY DEF NeverBare
<1>1. Loaded(code) /\ WellFormed(read) /\ n \in read.nics
  BY ExecutorAssumption DEF StartInv, Fresh
<1>2. m[2] \in V4
  BY <1>1, LoadedType
<1>3. n \in NicsByIp(read, m[2])
  BY <1>1, <1>2, EstateAssumption DEF WellFormed, NicsByIp
<1>4. ASSUME NEW id, <<id, n.port_id>> \in attached PROVE \E q \in attached : q[2] = n.port_id
  BY <1>4
<1>5. ASSUME NEW a \in todo, a.op = "AttachNic" PROVE p \in attached
  BY <1>5 DEF AdditionsFirst, Additions
<1> QED
  BY <1>3, <1>4, <1>5 DEF BareInv, Owed

\* A NIC that code lists and that was in some group is in a group at every
\* moment of a run, whatever order the actions of one kind take and whichever
\* fail, unless its own attach is among the failures.
THEOREM NeverLeftBare == Spec => []NeverBare
<1>1. StartInv /\ AdditionsFirst /\ BareInv => NeverBare
  BY BareImplied
<1> QED
  BY <1>1, StartCorrect, OrderKept, BareKept, PTL

(***************************************************************************)
(* Rules.                                                                  *)
(***************************************************************************)
\* No planned removal is of this rule.
Spared(r) == \A a \in Plan(code, read) : a.op = "DeleteRule" => a.rule_id # r.id

\* A live rule of the managed direction m that stands for w, told without
\* the inventory: groups by LiveNamed, everything else by the rule itself.
StandsFor(r, m, w) ==
    /\ r \in rules
    /\ LiveNamed(r.sg_id, m[1])
    /\ r.direction = m[2] /\ r.service = w.service
    /\ w.remote \in Name => LiveNamed(r.remote_group_id, w.remote)
    /\ w.remote \notin Name => r.remote_group_id = None /\ RemoteOf(read, r) = w.remote

\* Everything wanted has a rule that will stay, or its creation is owed.
CutInv ==
    Fresh => \A m \in code.managed : \A w \in Wanted(code, m[1], m[2]) :
        \/ \E r : StandsFor(r, m, w) /\ Spared(r)
        \/ \E a \in Owed : a.op = "CreateRule" /\ a.group = m[1] /\ a.rule = w

\* Which remotes an identity can name, seen from the rule.
LEMMA RemoteCases ==
    ASSUME NEW inv, NEW r \in CloudRule
    PROVE  /\ r.remote_group_id # None =>
                \/ \E sg \in inv.sgs : sg.id = r.remote_group_id /\ RemoteOf(inv, r) = sg.name
                \/ /\ \A sg \in inv.sgs : sg.id # r.remote_group_id
                   /\ RemoteOf(inv, r) = r.remote_group_id
           /\ r.remote_group_id = None => RemoteOf(inv, r) \in Prefix
<1>1. CASE r.remote_group_id # None /\ \E sg \in inv.sgs : sg.id = r.remote_group_id
  <2> DEFINE first == CHOOSE sg \in inv.sgs : sg.id = r.remote_group_id
  <2>1. first \in inv.sgs /\ first.id = r.remote_group_id
    BY <1>1
  <2>2. RemoteOf(inv, r) = first.name
    BY <1>1 DEF RemoteOf
  <2> QED
    BY <1>1, <2>1, <2>2
<1>2. CASE r.remote_group_id # None /\ ~\E sg \in inv.sgs : sg.id = r.remote_group_id
  BY <1>2 DEF RemoteOf
<1>3. CASE r.remote_group_id = None
  <2>1. \A p \in DOMAIN Canonical : Canonical[p] \in Prefix
    BY EstateAssumption DEF Cidr
  <2>2. Anywhere \in Prefix
    BY EstateAssumption DEF Cidr
  <2> QED
    BY <1>3, <2>1, <2>2 DEF RemoteOf, CloudRule
<1> QED
  BY <1>1, <1>2, <1>3

\* Both ways of saying that a live rule stands for a wanted identity agree.
LEMMA StandsForIdentity ==
    ASSUME TypeOK, OneGroupPerId, NEW m, NEW w \in RuleIdentity, w.direction = m[2], NEW r
    PROVE  StandsFor(r, m, w) <=> (r \in RulesOf(Now, m[1], m[2]) /\ IdentityOf(Now, r) = w)
<1>0. /\ rules \subseteq CloudRule /\ sgs \subseteq CloudSg
      /\ Now.sgs = sgs /\ Now.rules = rules
      /\ Name \cap SgId = {} /\ Name \cap Prefix = {} /\ SgId \cap Prefix = {} /\ None \notin SgId
      /\ GroupName \subseteq Name /\ Cidr \subseteq Prefix
  BY EstateAssumption DEF TypeOK, Now, Cidr
<1>1. w = Identity(w.direction, w.service, w.remote) /\ w.remote \in GroupName \cup Cidr
  BY DEF RuleIdentity, Identity
<1>2. \A r2 : r2.remote_group_id = None => RemoteOf(Now, r2) = RemoteOf(read, r2)
  BY DEF RemoteOf
<1>3. LiveNamed(r.sg_id, m[1]) <=> \E sg \in SgNamed(Now, m[1]) : sg.id = r.sg_id
  BY <1>0 DEF LiveNamed, SgNamed
<1>4. ASSUME StandsFor(r, m, w) PROVE RemoteOf(Now, r) = w.remote
  <2>1. r \in CloudRule
    BY <1>0, <1>4 DEF StandsFor
  <2>2. CASE w.remote \in Name
    <3>1. PICK sg \in sgs : sg.id = r.remote_group_id /\ sg.name = w.remote
      BY <1>4, <2>2 DEF StandsFor, LiveNamed
    <3>2. r.remote_group_id # None
      BY <1>0, <3>1 DEF CloudSg
    <3>3. PICK x \in sgs : x.id = r.remote_group_id /\ RemoteOf(Now, r) = x.name
      BY <1>0, <2>1, <3>1, <3>2, RemoteCases
    <3> QED
      BY <3>1, <3>3 DEF OneGroupPerId
  <2>3. CASE w.remote \notin Name
    BY <1>2, <1>4, <2>3 DEF StandsFor
  <2> QED
    BY <2>2, <2>3
<1>5. ASSUME StandsFor(r, m, w) PROVE r \in RulesOf(Now, m[1], m[2]) /\ IdentityOf(Now, r) = w
  <2>1. r \in rules /\ r.direction = m[2] /\ r.service = w.service
    BY <1>5 DEF StandsFor
  <2>2. \E sg \in SgNamed(Now, m[1]) : sg.id = r.sg_id
    BY <1>3, <1>5 DEF StandsFor
  <2> QED
    BY <1>0, <1>1, <1>4, <1>5, <2>1, <2>2 DEF RulesOf, IdentityOf
<1>6. ASSUME r \in RulesOf(Now, m[1], m[2]), IdentityOf(Now, r) = w PROVE StandsFor(r, m, w)
  <2>1. r \in rules /\ r \in CloudRule /\ r.direction = m[2] /\ LiveNamed(r.sg_id, m[1])
    BY <1>0, <1>3, <1>6 DEF RulesOf
  <2>2. r.service = w.service /\ RemoteOf(Now, r) = w.remote
    BY <1>6 DEF IdentityOf, Identity
  <2>3. CASE r.remote_group_id = None
    <3>1. w.remote \notin Name
      BY <1>0, <2>1, <2>2, <2>3, RemoteCases
    <3> QED
      BY <1>2, <2>1, <2>2, <2>3, <3>1 DEF StandsFor
  <2>4. CASE r.remote_group_id # None
    <3>1. r.remote_group_id \in SgId
      BY <2>1, <2>4 DEF CloudRule
    <3>2. w.remote # r.remote_group_id
      BY <1>0, <1>1, <3>1
    <3>3. PICK x \in sgs : x.id = r.remote_group_id /\ w.remote = x.name
      BY <1>0, <2>1, <2>2, <2>4, <3>2, RemoteCases
    <3>4. w.remote \in Name
      BY <1>0, <3>3 DEF CloudSg
    <3> QED
      BY <2>1, <2>2, <3>3, <3>4 DEF StandsFor, LiveNamed
  <2> QED
    BY <2>3, <2>4
<1> QED
  BY <1>5, <1>6

\* A wanted remote group is one code declares.
LEMMA WantedRemote ==
    ASSUME NEW c, Loaded(c), NEW g, NEW d, NEW w \in Wanted(c, g, d), w.remote \in Name
    PROVE  w.remote \in c.groups
<1>1. PICK x \in c.rules : w \in SubRules(x)
  BY DEF Wanted
<1>2. w.remote = x.remote /\ x \in CodeRule
  BY <1>1, LoadedType DEF SubRules, Identity
<1>3. w.remote \in GroupName
  BY <1>2, EstateAssumption DEF CodeRule, Cidr
<1> QED
  BY <1>1, <1>2, <1>3 DEF Loaded

\* A rule read in a managed direction that still lists it has no removal.
LEMMA ListedSpared ==
    ASSUME WellFormed(read), NEW m, NEW r \in RulesOf(read, m[1], m[2]),
           IdentityOf(read, r) \in Wanted(code, m[1], m[2])
    PROVE  Spared(r)
<1> SUFFICES ASSUME NEW a \in Plan(code, read), a.op = "DeleteRule", a.rule_id = r.id
             PROVE  FALSE
  BY DEF Spared
<1>1. PICK x \in read.sgs, q \in read.rules :
        /\ q.id = a.rule_id /\ q.sg_id = x.id
        /\ IdentityOf(read, q) \notin Wanted(code, x.name, q.direction)
  BY DeleteRulePlanned
<1>2. PICK sg \in read.sgs : sg.name = m[1] /\ sg.id = r.sg_id
  BY DEF RulesOf, SgNamed
<1>3. r \in read.rules /\ r.direction = m[2]
  BY DEF RulesOf
<1>4. q = r
  BY <1>1, <1>3 DEF WellFormed
<1>5. x = sg
  BY <1>1, <1>2, <1>4 DEF WellFormed
<1> QED
  BY <1>1, <1>2, <1>3, <1>4, <1>5

LEMMA FreshSpared ==
    ASSUME NEW r, \A q \in read.rules : q.id # r.id
    PROVE  Spared(r)
<1> SUFFICES ASSUME NEW a \in Plan(code, read), a.op = "DeleteRule", a.rule_id = r.id
             PROVE  FALSE
  BY DEF Spared
<1>1. PICK x \in read.sgs, q \in read.rules :
        /\ q.id = a.rule_id /\ q.sg_id = x.id
        /\ IdentityOf(read, q) \notin Wanted(code, x.name, q.direction)
  BY DeleteRulePlanned
<1> QED
  BY <1>1

LEMMA InitCut == Init => CutInv
<1> SUFFICES ASSUME Init, Fresh, NEW m \in code.managed, NEW w \in Wanted(code, m[1], m[2])
             PROVE  \/ \E r : StandsFor(r, m, w) /\ Spared(r)
                    \/ \E a \in Owed : a.op = "CreateRule" /\ a.group = m[1] /\ a.rule = w
  BY DEF CutInv
<1>1. Loaded(code) /\ WellFormed(read) /\ todo = Plan(code, read)
  BY ExecutorAssumption DEF Init
<1>2. Now = read
  BY <1>1 DEF WellFormed, Inventory, Init, Fresh, Now
<1>3. TypeOK /\ OneGroupPerId
  BY InitType, InitIds DEF IdsInv
<1>4. w \in RuleIdentity /\ w.direction = m[2]
  BY <1>1, WantedType, WantedDirection
<1>5. m[1] \in code.groups /\ m[2] \in Direction /\ m = <<m[1], m[2]>>
  BY <1>1, LoadedType DEF Loaded
<1>6. ASSUME NEW r \in RulesOf(read, m[1], m[2]), IdentityOf(read, r) = w
      PROVE  StandsFor(r, m, w) /\ Spared(r)
  BY <1>1, <1>2, <1>3, <1>4, <1>6, StandsForIdentity, ListedSpared
<1>7. ASSUME \A r \in RulesOf(read, m[1], m[2]) : IdentityOf(read, r) # w
      PROVE  \E a \in Owed : a.op = "CreateRule" /\ a.group = m[1] /\ a.rule = w
  <2> DEFINE a == CreateRule(m[1], TargetId(read, m[1]), w)
  <2>1. a \in PlanManagedDirection(code, read, m[1], m[2])
    BY <1>7 DEF PlanManagedDirection
  <2>2. a \in PlanRules(code, read, m[1])
    BY <1>5, <2>1 DEF PlanRules
  <2>3. a \in todo
    BY <1>1, <1>5, <2>2 DEF Plan
  <2> QED
    BY <2>3 DEF CreateRule, Owed
<1> QED
  BY <1>6, <1>7

\* The rules one create_rule made stand for the payload's identity, in the
\* group it names.
LEMMA MadeStandsFor ==
    ASSUME TypeOK, TypeOK', StartInv, OneResultPerAction,
           OneGroupPerId, NamesStay, CreatedLive, CacheInv,
           NEW a \in todo, Perform(a), NEW status \in Status, DoCreateRule(a, status),
           NEW m, m[1] = a.group, m[2] = a.rule.direction
    PROVE  \E new : /\ new # {} /\ rules' = rules \cup new
                   /\ \A r \in new : StandsFor(r, m, a.rule)' /\ Spared(r)
<1>0. /\ read' = read /\ sgs' = sgs /\ code' = code
      /\ WellFormed(read) /\ a \in Plan(code, read) /\ a \in Action /\ a.op = "CreateRule"
  BY Effects, TodoPlanned DEF DoCreateRule, Turn
<1>1. PICK ids \in SUBSET FreshRuleIds :
        ids # {} /\ rules' = rules \cup {RuleMade(a, i) : i \in ids}
  BY RulesMade
<1>2. a.rule \in RuleIdentity
  BY <1>0, ActionFields
<1>4. ASSUME a.rule.remote \in Name
      PROVE  \E sg \in sgs : sg.id = RemoteIdOf(a) /\ sg.name = a.rule.remote
  <2>1. PICK sg \in sgs : sg.id = RemoteIdOf(a)
    BY <1>4, RulesMade DEF Live
  <2>2. RemoteIdOf(a) = cached'[a.rule.remote] /\ cached'[a.rule.remote] # None
    BY <1>4, <2>1, EstateAssumption DEF TypeOK, CloudSg, RemoteIdOf
  <2>3. \A name \in Name : Remembers(cached, name)
    BY <1>0 DEF CacheInv
  <2>4. \/ Remembers(cached', a.rule.remote)
        \/ \E x \in sgs' : x.id = cached'[a.rule.remote] /\ x.name = a.rule.remote
    BY <1>4, <2>3, CacheChange
  <2>5. PICK x \in read.sgs \cup sgs : x.id = RemoteIdOf(a) /\ x.name = a.rule.remote
    BY <1>0, <2>2, <2>4 DEF Remembers
  <2> QED
    BY <2>1, <2>5 DEF OneGroupPerId, NamesStay
<1>5. ASSUME NEW i \in ids, NEW r, r = RuleMade(a, i)
      PROVE  StandsFor(r, m, a.rule)' /\ Spared(r)
  <2>1. /\ r.id = i /\ r.sg_id = SgIdOf(a) /\ r.direction = a.rule.direction
        /\ r.service = a.rule.service /\ r.remote_group_id = RemoteIdOf(a)
        /\ r.remote_ip_prefix = IF a.rule.remote \in Name THEN None ELSE a.rule.remote
    BY <1>5 DEF RuleMade
  <2>2. r \in rules'
    BY <1>1, <1>5
  <2>3. LiveNamed(r.sg_id, m[1])'
    <3>1. LiveNamed(SgIdOf(a), a.group)
      BY <1>0, PayloadGroup DEF DoCreateRule
    <3> QED
      BY <1>0, <2>1, <3>1 DEF LiveNamed
  <2>4. a.rule.remote \in Name => LiveNamed(r.remote_group_id, a.rule.remote)'
    BY <1>0, <1>4, <2>1 DEF LiveNamed
  <2>5. ASSUME a.rule.remote \notin Name
        PROVE  r.remote_group_id = None /\ RemoteOf(read, r) = a.rule.remote
    <3>1. a.rule.remote \in Cidr
      BY <1>2, <2>5, EstateAssumption DEF RuleIdentity
    <3>2. /\ a.rule.remote \in DOMAIN Canonical
          /\ Canonical[a.rule.remote] = a.rule.remote
          /\ a.rule.remote # None
      BY <3>1, EstateAssumption
    <3> QED
      BY <2>1, <2>5, <3>2 DEF RemoteOf, RemoteIdOf
  <2>6. Spared(r)
    BY <2>1, FreshSpared DEF FreshRuleIds
  <2>7. RemoteOf(read, r)' = RemoteOf(read, r)
    BY <1>0 DEF RemoteOf
  <2>8. StandsFor(r, m, a.rule)'
    BY <1>0, <2>1, <2>2, <2>3, <2>4, <2>5, <2>7 DEF StandsFor
  <2> QED
    BY <2>6, <2>8
<1>6. PICK new : new = {RuleMade(a, i) : i \in ids}
  OBVIOUS
<1>7. new # {} /\ rules' = rules \cup new
  BY <1>1, <1>6
<1>8. \A r \in new : StandsFor(r, m, a.rule)' /\ Spared(r)
  BY <1>5, <1>6
<1> QED
  BY <1>7, <1>8

\* A rule that stays keeps standing for what it stood for.
LEMMA StandsStays ==
    ASSUME StartInv, OneResultPerAction, NamesStay, NEW a \in todo, Perform(a),
           NEW m \in code.managed, NEW w \in Wanted(code, m[1], m[2]),
           NEW r, StandsFor(r, m, w), r \in rules' \/ Spared(r)
    PROVE  StandsFor(r, m, w)'
<1>1. Loaded(code) /\ a \in Plan(code, read) /\ m[1] \in code.groups /\ read' = read
  BY TodoPlanned, Effects DEF Loaded
<1>2. LiveNamed(r.sg_id, m[1])'
  BY <1>1, LiveStays DEF StandsFor
<1>3. w.remote \in Name => LiveNamed(r.remote_group_id, w.remote)'
  BY <1>1, LiveStays, WantedRemote DEF StandsFor
<1>4. r \in rules'
  BY <1>1, <1>2, Removers DEF StandsFor, Spared, LiveNamed
<1> QED
  BY <1>1, <1>2, <1>3, <1>4 DEF StandsFor, RemoteOf

LEMMA CutStep ==
    ASSUME TypeOK, TypeOK', StartInv, OneResultPerAction, IdsInv, CacheInv, CutInv,
           [Next]_vars
    PROVE  CutInv'
<1>1. CASE UNCHANGED vars
  <2>1. Owed' = Owed
    BY <1>1 DEF vars, Owed, Failures
  <2>2. \A r, m, w : StandsFor(r, m, w)' <=> StandsFor(r, m, w)
    BY <1>1 DEF vars, StandsFor, LiveNamed, RemoteOf
  <2>3. \A r : Spared(r)' <=> Spared(r)
    BY <1>1 DEF vars, Spared
  <2> QED
    BY <1>1, <2>1, <2>2, <2>3 DEF CutInv, Fresh, vars
<1>2. ASSUME NEW a \in todo, Perform(a), Fresh,
             NEW m \in code.managed, NEW w \in Wanted(code, m[1], m[2])
      PROVE  \/ \E r : StandsFor(r, m, w)' /\ Spared(r)
             \/ \E b \in Owed' : b.op = "CreateRule" /\ b.group = m[1] /\ b.rule = w
  <2>0. OneGroupPerId /\ NamesStay /\ CreatedLive
    BY <1>2 DEF IdsInv
  <2>1. /\ Loaded(code) /\ WellFormed(read) /\ a \in Plan(code, read)
        /\ m[1] \in code.groups /\ read' = read
        /\ w.direction = m[2]
    BY <1>2, TodoPlanned, Effects, WantedDirection DEF Loaded
  <2>2. ASSUME NEW r, StandsFor(r, m, w), Spared(r) PROVE StandsFor(r, m, w)'
    BY <1>2, <2>0, <2>2, StandsStays
  <2>3. ASSUME a.op = "CreateRule", a.group = m[1], a.rule = w, Record(a, "ok")
        PROVE  \E r : StandsFor(r, m, w)' /\ Spared(r)
    <3>1. PICK status \in Status : DoCreateRule(a, status)
      BY <1>2, <2>3, OkCalls DEF Made, Called, DoUpdateSg, DoAttachNic, DoDeleteRule,
                                 DoDetachNic, DoDeleteSg, Turn
    <3> QED
      BY <1>2, <2>0, <2>1, <2>3, <3>1, MadeStandsFor
  <2> QED
    BY <1>2, <2>2, <2>3, StillOwed DEF CutInv
<1>3. ASSUME NEW a \in todo, Perform(a) PROVE CutInv'
  <2>1. UNCHANGED <<code, read, origin>>
    BY <1>3, PerformRecords
  <2>2. \A r : Spared(r)' <=> Spared(r)
    BY <2>1 DEF Spared
  <2> QED
    BY <1>2, <1>3, <2>1, <2>2 DEF CutInv, Fresh
<1> QED
  BY <1>1, <1>3 DEF Next, Finished

LEMMA CutKept == Spec => []CutInv
<1>1. /\ CutInv /\ TypeOK /\ TypeOK' /\ StartInv /\ OneResultPerAction /\ IdsInv /\ CacheInv
      /\ [Next]_vars
      => CutInv'
  BY CutStep
<1> QED
  BY <1>1, InitCut, TypeCorrect, StartCorrect, OneResult, IdsKept, CacheKept, PTL DEF Spec

LEMMA CutImplied ==
    ASSUME TypeOK, StartInv, AdditionsFirst, IdsInv, CutInv
    PROVE  CutOver
<1> SUFFICES ASSUME Fresh, NEW m \in code.managed, ~(RulesOf(origin, m[1], m[2]) \subseteq rules),
                    NEW w \in Wanted(code, m[1], m[2])
             PROVE  \/ \E r \in RulesOf(Now, m[1], m[2]) : IdentityOf(Now, r) = w
                    \/ \E a \in Failures : a.op = "CreateRule" /\ a.group = m[1] /\ a.rule = w
  BY DEF CutOver
<1>1. w \in RuleIdentity /\ w.direction = m[2]
  BY ExecutorAssumption, WantedType, WantedDirection DEF StartInv
<1>2. ASSUME NEW a \in todo, a.op = "CreateRule" PROVE FALSE
  <2>1. origin.rules \subseteq rules
    BY <1>2 DEF AdditionsFirst, Additions
  <2> QED
    BY <2>1 DEF RulesOf
<1>3. ASSUME NEW r, StandsFor(r, m, w)
      PROVE  r \in RulesOf(Now, m[1], m[2]) /\ IdentityOf(Now, r) = w
  BY <1>1, <1>3, StandsForIdentity DEF IdsInv
<1> QED
  BY <1>2, <1>3 DEF CutInv, Owed

\* "Allow-rules and members, then removals": at every moment of a run, a
\* managed direction that has lost a rule has a live rule, by the planner's
\* own identity, for everything code wants there, unless that very rule's
\* creation failed.
THEOREM CutOverHolds == Spec => []CutOver
<1>1. TypeOK /\ StartInv /\ AdditionsFirst /\ IdsInv /\ CutInv => CutOver
  BY CutImplied
<1> QED
  BY <1>1, TypeCorrect, StartCorrect, OrderKept, IdsKept, CutKept, PTL

(***************************************************************************)
(* What success leaves behind.                                             *)
(***************************************************************************)
OkInv ==
    \A x \in results : x.status = "ok" =>
        /\ x.action.op = "DeleteRule" => \A r \in rules : r.id # x.action.rule_id
        /\ x.action.op = "DetachNic" => <<x.action.sg_id, x.action.port_id>> \notin attached
        /\ x.action.op = "DeleteSg" => \A sg \in sgs : sg.id # x.action.sg_id

LEMMA OkStep ==
    ASSUME TypeOK, StartInv, OneResultPerAction, AdditionsFirst, OkInv, [Next]_vars
    PROVE  OkInv'
<1>1. CASE UNCHANGED vars
  BY <1>1 DEF OkInv, vars
<1>2. ASSUME NEW a \in todo, Perform(a), NEW x \in results', x.status = "ok"
      PROVE  /\ x.action.op = "DeleteRule" => \A r \in rules' : r.id # x.action.rule_id
             /\ x.action.op = "DetachNic" => <<x.action.sg_id, x.action.port_id>> \notin attached'
             /\ x.action.op = "DeleteSg" => \A sg \in sgs' : sg.id # x.action.sg_id
  <2>1. CASE x \in results
    <3>1. /\ Loaded(code) /\ WellFormed(read)
          /\ x.action \in Plan(code, read)
      BY <2>1, TodoPlanned DEF OneResultPerAction
    <3>2. ASSUME x.action.op = "DeleteRule", NEW r \in rules' PROVE r.id # x.action.rule_id
      <4>1. PICK y \in read.sgs, q \in read.rules :
              /\ q.id = x.action.rule_id /\ q.sg_id = y.id
              /\ IdentityOf(read, q) \notin Wanted(code, y.name, q.direction)
        BY <3>1, <3>2, DeleteRulePlanned
      <4> QED
        BY <1>2, <2>1, <3>1, <3>2, <4>1, NewRuleIds DEF OkInv
    <3>3. ASSUME x.action.op = "DetachNic"
          PROVE  <<x.action.sg_id, x.action.port_id>> \notin attached'
      <4>1. SUFFICES ASSUME <<x.action.sg_id, x.action.port_id>> \in attached' \ attached
                     PROVE  FALSE
        BY <1>2, <2>1, <3>3 DEF OkInv
      <4>2. a.op = "AttachNic"
        BY <1>2, <4>1, Adders
      <4> QED
        BY <2>1, <3>3, <4>2 DEF AdditionsFirst, Additions
    <3>4. ASSUME x.action.op = "DeleteSg", NEW sg \in sgs' PROVE sg.id # x.action.sg_id
      <4>1. InRead(x.action.sg_id)
        BY <3>1, <3>4, DeleteSgPlanned DEF InRead
      <4>2. LiveNamed(sg.id, sg.name) \/ sg.id \in FreshSgIds
        BY <1>2, LiveBefore
      <4> QED
        BY <1>2, <2>1, <3>4, <4>1, <4>2, FreshIds DEF OkInv, LiveNamed
    <3> QED
      BY <3>2, <3>3, <3>4
  <2>2. CASE x \notin results
    <3>1. PICK status \in Status : Record(a, status)
      BY <1>2, PerformRecords
    <3>2. x = [action |-> a, status |-> status]
      BY <2>2, <3>1 DEF Record
    <3>3. x.action = a /\ Record(a, "ok")
      BY <1>2, <3>1, <3>2
    <3>4. \/ a.op = "CreateSg"
          \/ \E s \in Status : Called(a, s)
      BY <1>2, <3>3, OkCalls DEF Made
    <3>5. ASSUME NEW s \in Status, Called(a, s)
          PROVE  /\ a.op = "DeleteRule" => \A r \in rules' : r.id # a.rule_id
                 /\ a.op = "DetachNic" => <<a.sg_id, a.port_id>> \notin attached'
                 /\ a.op = "DeleteSg" => \A sg \in sgs' : sg.id # a.sg_id
      BY <3>5 DEF Called, DoUpdateSg, DoCreateRule, DoAttachNic, DoDeleteRule, DoDetachNic,
                  DoDeleteSg, Turn
    <3> QED
      BY <3>3, <3>4, <3>5
  <2> QED
    BY <2>1, <2>2
<1> QED
  BY <1>1, <1>2 DEF Next, Finished, OkInv

LEMMA OkKept == Spec => []OkInv
<1>1. Init => OkInv
  BY DEF Init, OkInv
<1>2. OkInv /\ TypeOK /\ StartInv /\ OneResultPerAction /\ AdditionsFirst /\ [Next]_vars => OkInv'
  BY OkStep
<1> QED
  BY <1>1, <1>2, TypeCorrect, StartCorrect, OneResult, OrderKept, PTL DEF Spec

(***************************************************************************)
(* Strips.  A rule the run found and took away was stale, or its group had *)
(* no directory.                                                           *)
(***************************************************************************)
LostInv ==
    Fresh => \A r \in origin.rules : r \notin rules =>
        \E x \in read.sgs : /\ x.id = r.sg_id
                            /\ \/ x.name \notin code.groups
                               \/ r \in Stale(code, read, x.name, r.direction)

LEMMA LostStep ==
    ASSUME TypeOK, StartInv, OneResultPerAction, IdsInv, IdsInv', LostInv, [Next]_vars
    PROVE  LostInv'
<1>1. CASE UNCHANGED vars
  BY <1>1 DEF LostInv, Fresh, vars, Stale, RulesOf, SgNamed
<1>2. ASSUME NEW a \in todo, Perform(a), Fresh, NEW r \in origin.rules, r \notin rules'
      PROVE  \E x \in read.sgs : /\ x.id = r.sg_id
                                 /\ \/ x.name \notin code.groups
                                    \/ r \in Stale(code, read, x.name, r.direction)
  <2>1. /\ WellFormed(read) /\ a \in Plan(code, read) /\ r \in read.rules
        /\ UNCHANGED <<code, read, origin>>
    BY <1>2, TodoPlanned, Effects DEF Fresh
  <2>2. CASE r \notin rules
    BY <1>2, <2>2 DEF LostInv
  <2>3. CASE a.op = "DeleteRule" /\ r.id = a.rule_id
    <3>1. PICK x \in read.sgs, q \in read.rules :
            /\ q.id = a.rule_id /\ q.sg_id = x.id
            /\ q.remote_group_id # q.sg_id
            /\ <<x.name, q.direction>> \in code.managed
            /\ IdentityOf(read, q) \notin Wanted(code, x.name, q.direction)
      BY <2>1, <2>3, DeleteRulePlanned
    <3>2. q = r
      BY <2>1, <2>3, <3>1 DEF WellFormed
    <3>3. r \in Stale(code, read, x.name, r.direction)
      BY <3>1, <3>2 DEF Stale, RulesOf, SgNamed
    <3> QED
      BY <3>1, <3>2, <3>3
  <2>4. CASE r.sg_id \notin {sg.id : sg \in sgs'}
    <3>1. PICK x \in read.sgs : x.id = r.sg_id
      BY <2>1 DEF WellFormed
    <3>2. x.name \notin code.groups
      <4>1. Fresh' /\ DeclaredStay'
        BY <1>2, <2>1 DEF IdsInv, Fresh
      <4> QED
        BY <2>1, <2>4, <3>1, <4>1 DEF DeclaredStay, LiveNamed
    <3> QED
      BY <3>1, <3>2
  <2> QED
    BY <1>2, <2>2, <2>3, <2>4, Removers
<1>3. ASSUME NEW a \in todo, Perform(a) PROVE LostInv'
  <2>1. UNCHANGED <<code, read, origin>>
    BY <1>3, PerformRecords
  <2> QED
    BY <1>2, <1>3, <2>1 DEF LostInv, Fresh, Stale, RulesOf, SgNamed
<1> QED
  BY <1>1, <1>3 DEF Next, Finished

LEMMA LostKept == Spec => []LostInv
<1>1. Init => LostInv
  BY DEF Init, LostInv
<1>2. LostInv /\ TypeOK /\ StartInv /\ OneResultPerAction /\ IdsInv /\ IdsInv' /\ [Next]_vars => LostInv'
  BY LostStep
<1> QED
  BY <1>1, <1>2, TypeCorrect, StartCorrect, OneResult, IdsKept, PTL DEF Spec

\* After a run without failures every planned action has succeeded.
LEMMA AllOk ==
    ASSUME TypeOK, OneResultPerAction, Done, Failures = {}, NEW a \in Plan(code, read)
    PROVE  [action |-> a, status |-> "ok"] \in results
BY OwedOrOk DEF Owed, Done

\* A direction has nothing wanted exactly when no code rule is for it.
LEMMA WantedEmpty ==
    ASSUME NEW c, Loaded(c), NEW m \in c.managed
    PROVE  Wanted(c, m[1], m[2]) = {} <=> \A r \in c.rules : <<r.group, r.direction>> # m
<1>1. m = <<m[1], m[2]>>
  BY LoadedType
<1>2. ASSUME NEW r \in c.rules, <<r.group, r.direction>> = m PROVE Wanted(c, m[1], m[2]) # {}
  <2>0. r.services # {}
    BY LoadedType DEF CodeRule
  <2>1. r.services # {} /\ r.group = m[1] /\ r.direction = m[2]
    BY <1>2, <2>0
  <2>2. SubRules(r) # {}
    BY <2>1 DEF SubRules
  <2> QED
    BY <2>1, <2>2 DEF Wanted
<1>3. ASSUME Wanted(c, m[1], m[2]) # {} PROVE \E r \in c.rules : <<r.group, r.direction>> = m
  BY <1>1, <1>3 DEF Wanted
<1> QED
  BY <1>2, <1>3

LEMMA ClearsImplied ==
    ASSUME TypeOK, StartInv, OneResultPerAction, OkInv, LostInv
    PROVE  ClearsHonest
<1> SUFFICES ASSUME Done, Fresh, Failures = {}, NEW m \in code.managed
             PROVE  m \in Clears(code, read) <=>
                      /\ Wanted(code, m[1], m[2]) = {}
                      /\ ~(RulesOf(origin, m[1], m[2]) \subseteq rules)
  BY DEF ClearsHonest, Clears
<1>1. /\ Loaded(code) /\ WellFormed(read) /\ read = origin
      /\ m = <<m[1], m[2]>> /\ m[1] \in code.groups /\ m[2] \in Direction
  BY TodoPlanned, LoadedType DEF Fresh, Loaded
<1>2. ASSUME NEW r \in Stale(code, read, m[1], m[2])
      PROVE  r \in RulesOf(origin, m[1], m[2]) /\ r \notin rules
  <2> DEFINE a == DeleteRule(m[1], r.id)
  <2>1. a \in PlanManagedDirection(code, read, m[1], m[2])
    BY DEF PlanManagedDirection
  <2>2. a \in PlanRules(code, read, m[1])
    BY <1>1, <2>1 DEF PlanRules
  <2>3. a \in Plan(code, read)
    BY <1>1, <2>2 DEF Plan
  <2>4. [action |-> a, status |-> "ok"] \in results
    BY <2>3, AllOk
  <2>5. a.op = "DeleteRule" /\ a.rule_id = r.id
    BY DEF DeleteRule
  <2> HIDE DEF a
  <2>6. \A q \in rules : q.id # r.id
    BY <2>4, <2>5 DEF OkInv
  <2> QED
    BY <1>1, <2>6 DEF Stale
<1>3. ASSUME NEW r \in RulesOf(origin, m[1], m[2]), r \notin rules
      PROVE  r \in Stale(code, read, m[1], m[2])
  <2>1. r \in origin.rules /\ r.direction = m[2]
    BY DEF RulesOf
  <2>2. PICK sg \in read.sgs : sg.name = m[1] /\ sg.id = r.sg_id
    BY <1>1 DEF RulesOf, SgNamed
  <2>3. PICK x \in read.sgs : /\ x.id = r.sg_id
                              /\ \/ x.name \notin code.groups
                                 \/ r \in Stale(code, read, x.name, r.direction)
    BY <1>3, <2>1 DEF LostInv
  <2>4. x = sg
    BY <1>1, <2>2, <2>3 DEF WellFormed
  <2> QED
    BY <1>1, <2>1, <2>2, <2>3, <2>4
<1>4. (\A r \in code.rules : <<r.group, r.direction>> # m) <=> Wanted(code, m[1], m[2]) = {}
  BY <1>1, WantedEmpty
<1> QED
  BY <1>2, <1>3, <1>4 DEF Clears

\* The preview's warning is exact: a run without failures takes rules away
\* from precisely the announced directions, among those code leaves empty.
THEOREM ClearsAreHonest == Spec => []ClearsHonest
<1>1. TypeOK /\ StartInv /\ OneResultPerAction /\ OkInv /\ LostInv => ClearsHonest
  BY ClearsImplied
<1> QED
  BY <1>1, TypeCorrect, StartCorrect, OneResult, OkKept, LostKept, PTL

(***************************************************************************)
(* Groups: every declared one exists with its description, or that is      *)
(* owed, or several of its name were made.                                 *)
(***************************************************************************)
GroupsInv ==
    Fresh =>
        /\ \A g \in code.groups :
              \/ \E id : LiveNamed(id, g)
              \/ \E a \in Owed : a.op = "CreateSg" /\ a.group = g
        /\ \A sg \in sgs : sg.name \in code.groups =>
              \/ sg.description = code.description[sg.name]
              \/ \E a \in Owed : a.op \in {"CreateSg", "UpdateSg"} /\ a.group = sg.name
              \/ Twinned(sg.name)

LEMMA UpdateSgPlanned ==
    ASSUME NEW c, NEW inv, NEW a \in Plan(c, inv), a.op = "UpdateSg"
    PROVE  /\ a.group \in c.groups
           /\ a.description = c.description[a.group]
           /\ \E x \in inv.sgs : x.id = a.sg_id /\ x.name = a.group
<1>1. CASE a \in PlanAbsentGroups(c, inv)
  BY <1>1, AbsentCases DEF DeleteSg, DetachNic
<1>2. ASSUME NEW g \in c.groups, a \in PlanGroupRow(c, inv, g)
      PROVE  /\ a.group \in c.groups
             /\ a.description = c.description[a.group]
             /\ \E x \in inv.sgs : x.id = a.sg_id /\ x.name = a.group
  <2>1. PICK x \in SgNamed(inv, g) : a = UpdateSg(g, x.id, c.description[g])
    BY <1>2, GroupRowCases DEF CreateSg
  <2>2. a.group = g /\ a.sg_id = x.id /\ a.description = c.description[g]
    BY <2>1 DEF UpdateSg
  <2> QED
    BY <2>2 DEF SgNamed
<1>3. ASSUME NEW g \in c.groups, a \in PlanMembers(c, inv, g) PROVE FALSE
  BY <1>3, MembersCases DEF AttachNic, DetachNic
<1>4. ASSUME NEW g \in c.groups, a \in PlanRules(c, inv, g) PROVE FALSE
  <2>1. PICK d \in Direction :
          /\ <<g, d>> \in c.managed
          /\ \/ \E w \in Wanted(c, g, d) : a = CreateRule(g, TargetId(inv, g), w)
             \/ \E r \in Stale(c, inv, g, d) : a = DeleteRule(g, r.id)
    BY <1>4, RulesCases
  <2> QED
    BY <2>1 DEF CreateRule, DeleteRule
<1> QED
  BY <1>1, <1>2, <1>3, <1>4, PlanCases

LEMMA InitGroups == Init => GroupsInv
<1> SUFFICES ASSUME Init, Fresh PROVE GroupsInv
  BY DEF GroupsInv
<1>1. sgs = read.sgs /\ todo = Plan(code, read)
  BY DEF Init, Fresh
<1>2. ASSUME NEW g \in code.groups, NEW a \in PlanGroupRow(code, read, g) PROVE a \in Owed
  BY <1>1, <1>2 DEF Plan, Owed
<1>3. ASSUME NEW g \in code.groups
      PROVE  \/ \E id : LiveNamed(id, g)
             \/ \E a \in Owed : a.op = "CreateSg" /\ a.group = g
  <2>1. CASE SgNamed(read, g) = {}
    <3>1. CreateSg(g, code.description[g]) \in PlanGroupRow(code, read, g)
      BY <2>1 DEF PlanGroupRow
    <3>2. CreateSg(g, code.description[g]) \in Owed
      BY <1>2, <3>1
    <3> QED
      BY <3>2 DEF CreateSg
  <2>2. CASE SgNamed(read, g) # {}
    BY <1>1, <2>2 DEF SgNamed, LiveNamed
  <2> QED
    BY <2>1, <2>2
<1>4. ASSUME NEW sg \in sgs, sg.name \in code.groups, sg.description # code.description[sg.name]
      PROVE  \E a \in Owed : a.op \in {"CreateSg", "UpdateSg"} /\ a.group = sg.name
  <2>1. UpdateSg(sg.name, sg.id, code.description[sg.name]) \in PlanGroupRow(code, read, sg.name)
    BY <1>1, <1>4 DEF PlanGroupRow, SgNamed
  <2>2. UpdateSg(sg.name, sg.id, code.description[sg.name]) \in Owed
    BY <1>2, <1>4, <2>1
  <2> QED
    BY <2>2 DEF UpdateSg
<1> QED
  BY <1>3, <1>4 DEF GroupsInv

\* What a step makes of the descriptions: a group keeps its own, gets the one
\* of its UpdateSg, or is new.
LEMMA DescriptionStep ==
    ASSUME NEW a \in todo, Perform(a), NEW sg \in sgs'
    PROVE  \/ sg \in sgs /\ ~(a.op = "UpdateSg" /\ sg.id = a.sg_id /\ Record(a, "ok")
                                /\ ~Record(a, "failed"))
           \/ \E y \in sgs, status \in Status :
                /\ DoUpdateSg(a, status)
                /\ y.id = a.sg_id /\ sg.id = a.sg_id
                /\ sg.name = y.name /\ sg.description = a.description
           \/ /\ a.op = "CreateSg" /\ sg.name = a.group
              /\ \/ Record(a, "failed")
                 \/ sg.description = a.description
                 \/ Twinned(a.group)'
<1>1. CASE Quiet(a)
  BY <1>1 DEF Quiet
<1>2. ASSUME NEW ids \in SUBSET FreshSgIds, NEW id \in FreshSgIds,
             NEW d \in {Blank, a.description}, Made(a, ids, id, d), sg \notin sgs
      PROVE  /\ sg.name = a.group
             /\ \/ Record(a, "failed")
                \/ sg.description = a.description
                \/ Twinned(a.group)'
  <2>1. PICK i \in ids : sg = [id |-> i, name |-> a.group,
                              description |-> IF i = id THEN d ELSE Blank]
    BY <1>2 DEF Made, MakeGroups
  <2>2. CASE i = id
    BY <1>2, <2>1, <2>2 DEF Made
  <2>3. CASE i # id
    <3>1. a \in repeated' /\ a.op = "CreateSg"
      BY <1>2, <2>3 DEF Made, MakeGroups, Remember
    <3> QED
      BY <2>1, <3>1 DEF Twinned
  <2> QED
    BY <2>2, <2>3
<1>3. ASSUME NEW status \in Status, DoUpdateSg(a, status)
      PROVE  \/ sg \in sgs /\ sg.id # a.sg_id
             \/ \E y \in sgs : /\ y.id = a.sg_id /\ sg.id = a.sg_id
                               /\ sg.name = y.name /\ sg.description = a.description
  BY <1>3 DEF DoUpdateSg
<1>4. ASSUME NEW status \in Status,
             \/ DoCreateRule(a, status) \/ DoAttachNic(a, status)
             \/ DoDeleteRule(a, status) \/ DoDetachNic(a, status) \/ DoDeleteSg(a, status)
      PROVE  sg \in sgs /\ a.op # "UpdateSg"
  BY <1>4 DEF DoCreateRule, DoAttachNic, DoDeleteRule, DoDetachNic, DoDeleteSg, Turn
<1>5. ASSUME NEW ids, NEW id, NEW d, Made(a, ids, id, d) PROVE a.op = "CreateSg"
  BY <1>5 DEF Made
<1> QED
  BY <1>1, <1>2, <1>3, <1>4, <1>5, Effects DEF Called

\* A group made several times stays known as one.
LEMMA TwinnedStays ==
    ASSUME TypeOK, NEW a \in todo, Perform(a), NEW g, Twinned(g)
    PROVE  Twinned(g)'
<1>1. PICK b \in repeated : b.op = "CreateSg" /\ b.group = g
  BY DEF Twinned
<1>2. b \in repeated'
  BY <1>1, GroupsStep DEF TypeOK
<1> QED
  BY <1>1, <1>2 DEF Twinned

LEMMA GroupsDoneStep ==
    ASSUME TypeOK, StartInv, OneResultPerAction, IdsInv, NameInv, GroupsInv, Fresh,
           NEW a \in todo, Perform(a)
    PROVE  GroupsInv'
<1>0. /\ OneGroupPerId /\ NamesStay /\ CreatedLive
      /\ UNCHANGED <<code, read, origin>>
      /\ Loaded(code) /\ WellFormed(read) /\ a \in Plan(code, read)
  BY TodoPlanned, Effects DEF IdsInv
<1>1. ASSUME NEW g \in code.groups
      PROVE  \/ \E id : LiveNamed(id, g)'
             \/ \E b \in Owed' : b.op = "CreateSg" /\ b.group = g
  <2>1. ASSUME NEW id, LiveNamed(id, g) PROVE LiveNamed(id, g)'
    BY <1>0, <2>1, LiveStays
  <2>2. ASSUME a.op = "CreateSg", a.group = g, Record(a, "ok") PROVE \E id : LiveNamed(id, g)'
    <3>1. PICK ids, id : Made(a, ids, id, a.description)
      BY <2>2, OkCalls DEF Called, DoUpdateSg, DoCreateRule, DoAttachNic, DoDeleteRule,
                           DoDetachNic, DoDeleteSg, Turn
    <3> QED
      BY <2>2, <3>1, MadeLives
  <2> QED
    BY <2>1, <2>2, StillOwed DEF GroupsInv
<1>2. ASSUME NEW sg \in sgs', sg.name \in code.groups
      PROVE  \/ sg.description = code.description[sg.name]
             \/ \E b \in Owed' : b.op \in {"CreateSg", "UpdateSg"} /\ b.group = sg.name
             \/ Twinned(sg.name)'
  <2>1. ASSUME sg \in sgs, ~(a.op = "UpdateSg" /\ sg.id = a.sg_id /\ Record(a, "ok")
                               /\ ~Record(a, "failed"))
        PROVE  \/ sg.description = code.description[sg.name]
               \/ \E b \in Owed' : b.op \in {"CreateSg", "UpdateSg"} /\ b.group = sg.name
               \/ Twinned(sg.name)'
    <3>0. \/ sg.description = code.description[sg.name]
          \/ \E b \in Owed : b.op \in {"CreateSg", "UpdateSg"} /\ b.group = sg.name
          \/ Twinned(sg.name)'
      BY <1>2, <2>1, TwinnedStays DEF GroupsInv
    <3>1. SUFFICES ASSUME a.op \in {"CreateSg", "UpdateSg"}, a.group = sg.name, Record(a, "ok"),
                          ~Twinned(sg.name)
                   PROVE  FALSE
      BY <3>0, StillOwed, TwinnedStays
    <3>2. a.op # "CreateSg"
      BY <2>1, <3>1 DEF NameInv
    <3>3. PICK x \in read.sgs : x.id = a.sg_id /\ x.name = a.group
      BY <1>0, <3>1, <3>2, UpdateSgPlanned
    <3>4. PICK y \in sgs : y.id = a.sg_id
      BY <3>1, <3>2, OkCalls DEF Made, Called, DoUpdateSg, DoCreateRule, DoAttachNic,
                                 DoDeleteRule, DoDetachNic, DoDeleteSg, Turn, Live
    <3>5. y.name = sg.name
      BY <1>0, <3>1, <3>3, <3>4 DEF NamesStay
    <3>6. sg.id = a.sg_id
      BY <2>1, <3>1, <3>4, <3>5 DEF NameInv, Twins
    <3>7. ~Record(a, "failed")
      BY <3>1, RecordOnce
    <3> QED
      BY <2>1, <3>1, <3>2, <3>6, <3>7
  <2>2. ASSUME NEW y \in sgs, NEW status \in Status, DoUpdateSg(a, status), y.id = a.sg_id,
               sg.name = y.name, sg.description = a.description
        PROVE  sg.description = code.description[sg.name]
    <3>1. a.op = "UpdateSg"
      BY <2>2 DEF DoUpdateSg, Turn
    <3>2. PICK x \in read.sgs : x.id = a.sg_id /\ x.name = a.group
      BY <1>0, <3>1, UpdateSgPlanned
    <3>3. y.name = a.group
      BY <1>0, <2>2, <3>2 DEF NamesStay
    <3> QED
      BY <1>0, <2>2, <3>1, <3>3, UpdateSgPlanned
  <2>3. ASSUME a.op = "CreateSg", sg.name = a.group,
               \/ Record(a, "failed")
               \/ sg.description = a.description
               \/ Twinned(a.group)'
        PROVE  \/ sg.description = code.description[sg.name]
               \/ \E b \in Owed' : b.op \in {"CreateSg", "UpdateSg"} /\ b.group = sg.name
               \/ Twinned(sg.name)'
    <3>1. a = CreateSg(a.group, code.description[a.group])
      BY <1>0, <2>3, CreateSgPlanned
    <3>2. a.description = code.description[a.group]
      BY <3>1 DEF CreateSg
    <3>3. CASE Record(a, "failed")
      <4>1. [action |-> a, status |-> "failed"] \in results'
        BY <3>3 DEF Record
      <4>2. a \in Owed'
        BY <4>1 DEF Owed, Failures
      <4> QED
        BY <2>3, <4>2
    <3>4. Twinned(a.group)' => Twinned(sg.name)'
      BY <2>3
    <3> QED
      BY <2>3, <3>2, <3>3, <3>4
  <2> QED
    BY <2>1, <2>2, <2>3, DescriptionStep
<1> QED
  BY <1>0, <1>1, <1>2 DEF GroupsInv, Fresh

LEMMA GroupsKeptStep ==
    ASSUME TypeOK, StartInv, OneResultPerAction, IdsInv, NameInv, GroupsInv, [Next]_vars
    PROVE  GroupsInv'
<1>1. CASE UNCHANGED vars
  <2>1. Owed' = Owed
    BY <1>1 DEF vars, Owed, Failures
  <2> QED
    BY <1>1, <2>1 DEF GroupsInv, Fresh, Twinned, vars, LiveNamed
<1>2. ASSUME NEW a \in todo, Perform(a) PROVE GroupsInv'
  <2>1. CASE Fresh
    BY <1>2, <2>1, GroupsDoneStep
  <2>2. CASE ~Fresh
    BY <1>2, <2>2, PerformRecords DEF GroupsInv, Fresh
  <2> QED
    BY <2>1, <2>2
<1> QED
  BY <1>1, <1>2 DEF Next, Finished

LEMMA NameKept == Spec => []NameInv
<1>1. NameInv /\ TypeOK /\ OneResultPerAction /\ StartInv /\ [Next]_vars => NameInv'
  BY NameStep
<1> QED
  BY <1>1, InitName, TypeCorrect, OneResult, StartCorrect, PTL DEF Spec

LEMMA GroupsKept == Spec => []GroupsInv
<1>1. /\ GroupsInv /\ TypeOK /\ StartInv /\ OneResultPerAction /\ IdsInv /\ NameInv
      /\ [Next]_vars
      => GroupsInv'
  BY GroupsKeptStep
<1> QED
  BY <1>1, InitGroups, TypeCorrect, StartCorrect, OneResult, IdsKept, NameKept, PTL DEF Spec

(***************************************************************************)
(* What the run added itself is what code lists.                           *)
(***************************************************************************)
AddedInv ==
    Fresh =>
        /\ \A p \in attached \ origin.attached : \E m \in code.members :
              /\ LiveNamed(p[1], m[1])
              /\ \E n \in NicsByIp(read, m[2]) : n.port_id = p[2]
        /\ \A r \in rules \ origin.rules :
              \/ r.remote_group_id = r.sg_id
              \/ \E m \in code.managed : \E w \in Wanted(code, m[1], m[2]) : StandsFor(r, m, w)

LEMMA AddedDoneStep ==
    ASSUME TypeOK, TypeOK', StartInv, OneResultPerAction, IdsInv, CacheInv, AddedInv, Fresh,
           NEW a \in todo, Perform(a)
    PROVE  AddedInv'
<1>0. /\ OneGroupPerId /\ NamesStay /\ CreatedLive
      /\ UNCHANGED <<code, read, origin>>
      /\ Loaded(code) /\ WellFormed(read) /\ a \in Plan(code, read) /\ ~Unresolved(code, read)
  BY TodoPlanned, Effects DEF IdsInv, StartInv, Plannable
<1>1. ASSUME NEW p \in attached' \ origin.attached
      PROVE  \E m \in code.members :
                /\ LiveNamed(p[1], m[1])'
                /\ \E n \in NicsByIp(read, m[2]) : n.port_id = p[2]
  <2>1. CASE p \in attached
    <3>1. PICK m \in code.members : /\ LiveNamed(p[1], m[1])
                                    /\ \E n \in NicsByIp(read, m[2]) : n.port_id = p[2]
      BY <1>1, <2>1 DEF AddedInv
    <3>2. LiveNamed(p[1], m[1])'
      BY <1>0, <3>1, LiveStays DEF Loaded
    <3> QED
      BY <3>1, <3>2
  <2>2. CASE p \notin attached
    <3>1. a.op = "AttachNic" /\ p = <<SgIdOf(a), a.port_id>>
      BY <1>1, <2>2, Adders
    <3>2. PICK status \in Status : DoAttachNic(a, status)
      BY <1>1, <2>2, <3>1, Effects DEF Quiet, Made, Called, DoUpdateSg, DoCreateRule, DoDeleteRule,
                                 DoDetachNic, DoDeleteSg, Turn
    <3>3. LiveNamed(SgIdOf(a), a.group) /\ sgs' = sgs
      BY <1>0, <3>1, <3>2, PayloadGroup DEF DoAttachNic
    <3>4. PICK m \in code.members : /\ m[1] = a.group
                                    /\ \E n \in NicsByIp(read, m[2]) : n.port_id = a.port_id
      BY <1>0, <3>1, AttachPlanned
    <3>5. LiveNamed(p[1], m[1])'
      BY <3>1, <3>3, <3>4 DEF LiveNamed
    <3> QED
      BY <3>1, <3>4, <3>5
  <2> QED
    BY <2>1, <2>2
<1>2. ASSUME NEW r \in rules' \ origin.rules, r.remote_group_id # r.sg_id
      PROVE  \E m \in code.managed : \E w \in Wanted(code, m[1], m[2]) : StandsFor(r, m, w)'
  <2>1. CASE r \in rules
    <3>1. PICK m \in code.managed : \E w \in Wanted(code, m[1], m[2]) : StandsFor(r, m, w)
      BY <1>2, <2>1 DEF AddedInv
    <3>2. PICK w \in Wanted(code, m[1], m[2]) : StandsFor(r, m, w)
      BY <3>1
    <3>3. StandsFor(r, m, w)'
      BY <1>0, <1>2, <3>2, StandsStays
    <3> QED
      BY <3>3
  <2>2. CASE r \notin rules
    <3>1. a.op = "CreateRule"
      BY <1>2, <2>2, Adders
    <3>2. PICK status \in Status : DoCreateRule(a, status)
      BY <1>2, <2>2, <3>1, Effects DEF Quiet, Made, Called, DoUpdateSg, DoAttachNic, DoDeleteRule,
                                 DoDetachNic, DoDeleteSg, Turn
    <3>3. PICK d \in Direction : <<a.group, d>> \in code.managed /\ a.rule \in Wanted(code, a.group, d)
      BY <1>0, <3>1, CreateRulePlanned
    <3> DEFINE m == <<a.group, d>>
    <3>4. m[1] = a.group /\ m[2] = d /\ a.rule.direction = d
      BY <3>3, WantedDirection
    <3>5. PICK new : rules' = rules \cup new /\ \A q \in new : StandsFor(q, m, a.rule)'
      BY <1>0, <3>2, <3>4, MadeStandsFor
    <3>6. r \in new
      BY <1>2, <2>2, <3>5
    <3> QED
      BY <3>3, <3>4, <3>5, <3>6
  <2> QED
    BY <2>1, <2>2
<1> QED
  BY <1>0, <1>1, <1>2 DEF AddedInv, Fresh, NicsByIp

LEMMA AddedStep ==
    ASSUME TypeOK, TypeOK', StartInv, OneResultPerAction, IdsInv, CacheInv, AddedInv,
           [Next]_vars
    PROVE  AddedInv'
<1>1. CASE UNCHANGED vars
  <2>1. \A r, m, w : StandsFor(r, m, w)' <=> StandsFor(r, m, w)
    BY <1>1 DEF vars, StandsFor, LiveNamed, RemoteOf
  <2> QED
    BY <1>1, <2>1 DEF AddedInv, Fresh, vars, LiveNamed, NicsByIp
<1>2. ASSUME NEW a \in todo, Perform(a) PROVE AddedInv'
  <2>1. CASE Fresh
    BY <1>2, <2>1, AddedDoneStep
  <2>2. CASE ~Fresh
    BY <1>2, <2>2, PerformRecords DEF AddedInv, Fresh
  <2> QED
    BY <2>1, <2>2
<1> QED
  BY <1>1, <1>2 DEF Next, Finished

LEMMA AddedKept == Spec => []AddedInv
<1>1. Init => AddedInv
  BY DEF Init, AddedInv
<1>2. /\ AddedInv /\ TypeOK /\ TypeOK' /\ StartInv /\ OneResultPerAction /\ IdsInv
      /\ CacheInv /\ [Next]_vars
      => AddedInv'
  BY AddedStep
<1> QED
  BY <1>1, <1>2, TypeCorrect, StartCorrect, OneResult, IdsKept, CacheKept, PTL DEF Spec

(***************************************************************************)
(* Planning again.                                                         *)
(***************************************************************************)
AllInv ==
    /\ TypeOK /\ StartInv /\ OneResultPerAction
    /\ IdsInv /\ GroupsInv /\ BareInv /\ CutInv /\ AddedInv /\ OkInv

\* What a finished run that planned from what it found can rely on.
LEMMA Finish ==
    ASSUME AllInv, Done, Fresh
    PROVE  /\ Owed = Failures
           /\ Loaded(code) /\ WellFormed(read) /\ ~Unresolved(code, read)
           /\ read = origin
           /\ Now.sgs = sgs /\ Now.rules = rules /\ Now.attached = attached /\ Now.nics = read.nics
           /\ OneGroupPerId /\ NamesStay /\ DeclaredStay /\ NewGroups
           /\ \A a \in Plan(code, read) : a \in Failures \/ [action |-> a, status |-> "ok"] \in results
<1>1. Owed = Failures
  BY DEF Owed, Done
<1>2. Loaded(code) /\ WellFormed(read) /\ ~Unresolved(code, read)
  BY TodoPlanned DEF AllInv, StartInv, Plannable
<1>3. \A a \in Plan(code, read) : a \in Failures \/ [action |-> a, status |-> "ok"] \in results
  BY <1>1, OwedOrOk DEF AllInv
<1> QED
  BY <1>1, <1>2, <1>3 DEF AllInv, IdsInv, Fresh, Now

\* A removal planned before and now has failed: had it succeeded, what it
\* removes would be gone.
LEMMA RemovalAgain ==
    ASSUME AllInv, Done, Fresh, NEW b \in Plan(code, read),
           \/ b.op = "DeleteRule" /\ \E r \in rules : r.id = b.rule_id
           \/ b.op = "DetachNic" /\ <<b.sg_id, b.port_id>> \in attached
           \/ b.op = "DeleteSg" /\ \E sg \in sgs : sg.id = b.sg_id
    PROVE  \E a \in Failures : SameWork(a, b)
<1>1. [action |-> b, status |-> "ok"] \notin results
  <2>1. SUFFICES ASSUME NEW x \in results, x.action = b, x.status = "ok" PROVE FALSE
    OBVIOUS
  <2> QED
    BY <2>1 DEF AllInv, OkInv
<1>2. b \in Failures
  BY <1>1, Finish
<1>3. SameWork(b, b)
  BY DEF SameWork
<1> QED
  BY <1>2, <1>3

\* A member found in the cloud after the run was there before, in a group
\* that was read, or is one code lists for that group.
LEMMA MemberNow ==
    ASSUME AllInv, Done, Fresh, NEW sg \in sgs, NEW n \in AttachedNics(Now, sg.id)
    PROVE  /\ n \in read.nics /\ <<sg.id, n.port_id>> \in attached
           /\ \/ \E x \in read.sgs : /\ x.id = sg.id /\ x.name = sg.name
                                     /\ n \in AttachedNics(read, x.id)
              \/ /\ sg.name \in code.groups
                 /\ \E m \in code.members : m[1] = sg.name /\ n \in NicsByIp(read, m[2])
<1>1. n \in read.nics /\ <<sg.id, n.port_id>> \in attached
  BY Finish DEF AttachedNics
<1>2. CASE <<sg.id, n.port_id>> \in origin.attached
  <2>1. <<sg.id, n.port_id>> \in read.attached /\ <<sg.id, n.port_id>>[1] = sg.id
    BY <1>2, Finish
  <2>2. InRead(sg.id)
    BY <2>1, Finish DEF NewGroups
  <2>3. PICK x \in read.sgs : x.id = sg.id
    BY <2>2 DEF InRead
  <2>4. x.name = sg.name
    BY <2>3, Finish DEF NamesStay
  <2> QED
    BY <1>1, <2>1, <2>3, <2>4 DEF AttachedNics
<1>3. CASE <<sg.id, n.port_id>> \notin origin.attached
  <2> DEFINE p == <<sg.id, n.port_id>>
  <2>1. p \in attached \ origin.attached /\ p[1] = sg.id /\ p[2] = n.port_id
    BY <1>1, <1>3
  <2>2. PICK m \in code.members : /\ LiveNamed(p[1], m[1])
                                  /\ \E x \in NicsByIp(read, m[2]) : x.port_id = p[2]
    BY <2>1 DEF AllInv, AddedInv
  <2>3. m[1] = sg.name
    BY <2>1, <2>2, Finish DEF LiveNamed, OneGroupPerId
  <2>4. PICK x \in NicsByIp(read, m[2]) : x.port_id = n.port_id
    BY <2>1, <2>2
  <2>5. x = n
    BY <1>1, <2>4, Finish DEF NicsByIp, WellFormed
  <2>6. m[1] \in code.groups
    BY Finish DEF Loaded
  <2> QED
    BY <1>1, <2>3, <2>4, <2>5, <2>6
<1> QED
  BY <1>2, <1>3

LEMMA ReplanAbsent ==
    ASSUME AllInv, Done, Fresh, NEW b \in PlanAbsentGroups(code, Now)
    PROVE  \E a \in Failures : SameWork(a, b)
<1>1. PICK sg \in sgs :
        /\ sg.name \notin code.groups
        /\ \/ b = DeleteSg(sg.name, sg.id)
           \/ \E n \in AttachedNics(Now, sg.id) : b = DetachNic(sg.name, sg.id, n.port_id)
  BY AbsentCases, Finish
<1>2. PICK x \in read.sgs : x.id = sg.id /\ x.name = sg.name
  <2>1. InRead(sg.id)
    BY <1>1, Finish DEF NewGroups
  <2> QED
    BY <2>1, Finish DEF InRead, NamesStay
<1>3. CASE b = DeleteSg(sg.name, sg.id)
  <2>1. b \in PlanAbsentGroups(code, read)
    BY <1>1, <1>2, <1>3 DEF PlanAbsentGroups
  <2>2. b \in Plan(code, read) /\ b.op = "DeleteSg" /\ b.sg_id = sg.id
    BY <1>3, <2>1 DEF Plan, DeleteSg
  <2> QED
    BY <2>2, RemovalAgain
<1>4. ASSUME NEW n \in AttachedNics(Now, sg.id), b = DetachNic(sg.name, sg.id, n.port_id)
      PROVE  \E a \in Failures : SameWork(a, b)
  <2>1. <<sg.id, n.port_id>> \in attached /\ n \in AttachedNics(read, x.id)
    BY <1>1, <1>2, MemberNow DEF AttachedNics
  <2>2. b \in PlanAbsentGroups(code, read)
    BY <1>1, <1>2, <1>4, <2>1 DEF PlanAbsentGroups
  <2>3. b \in Plan(code, read) /\ b.op = "DetachNic" /\ b.sg_id = sg.id /\ b.port_id = n.port_id
    BY <1>4, <2>2 DEF Plan, DetachNic
  <2> QED
    BY <2>1, <2>3, RemovalAgain
<1> QED
  BY <1>1, <1>3, <1>4

LEMMA ReplanGroupRow ==
    ASSUME AllInv, Done, Fresh, \A n \in GroupName : ~Twinned(n),
           NEW g \in code.groups, NEW b \in PlanGroupRow(code, Now, g)
    PROVE  \E a \in Failures : SameWork(a, b)
<1>1. CASE SgNamed(Now, g) = {} /\ b = CreateSg(g, code.description[g])
  <2>1. ~\E id : LiveNamed(id, g)
    BY <1>1, Finish DEF SgNamed, LiveNamed
  <2>2. PICK a \in Failures : a.op = "CreateSg" /\ a.group = g
    BY <2>1, Finish DEF AllInv, GroupsInv
  <2>3. SameWork(a, b)
    BY <1>1, <2>2 DEF SameWork, Payload, CreateSg
  <2> QED
    BY <2>3
<1>2. ASSUME NEW sg \in SgNamed(Now, g), sg.description # code.description[g],
             b = UpdateSg(g, sg.id, code.description[g])
      PROVE  \E a \in Failures : SameWork(a, b)
  <2>1. sg \in sgs /\ sg.name = g
    BY Finish DEF SgNamed
  <2>2. g \in GroupName
    BY Finish, LoadedType
  <2>3. PICK a \in Failures : a.op \in {"CreateSg", "UpdateSg"} /\ a.group = g
    BY <1>2, <2>1, <2>2, Finish DEF AllInv, GroupsInv
  <2>4. SameWork(a, b)
    BY <1>2, <2>3 DEF SameWork, Payload, UpdateSg
  <2> QED
    BY <2>4
<1> QED
  BY <1>1, <1>2 DEF PlanGroupRow

LEMMA ReplanMembers ==
    ASSUME AllInv, Done, Fresh, PrimaryMembers, NEW g \in code.groups,
           NEW b \in PlanMembers(code, Now, g)
    PROVE  \E a \in Failures : SameWork(a, b)
<1>1. ASSUME NEW ip \in DesiredIps(code, g), ip \notin AttachedIps(Now, g),
             b = AttachNic(g, TargetId(Now, g), Nic(Now, ip).port_id, ip)
      PROVE  \E a \in Failures : SameWork(a, b)
  <2>1. PICK m \in code.members : m[1] = g /\ m[2] = ip
    BY DEF DesiredIps
  <2>2. Resolves(read, m[2])
    BY Finish DEF Unresolved
  <2>3. NicsByIp(Now, ip) = NicsByIp(read, ip)
    BY Finish DEF NicsByIp
  <2> DEFINE n == Nic(read, ip)
  <2>4. n \in NicsByIp(read, m[2]) /\ n \in read.nics /\ n = Nic(Now, ip)
    BY <2>1, <2>2, <2>3, NicResolves DEF Nic
  <2>5. n.ip = m[2]
    BY <2>4 DEF PrimaryMembers
  <2> HIDE DEF n
  <2>6. ASSUME NEW id, LiveNamed(id, m[1]), <<id, n.port_id>> \in attached PROVE FALSE
    <3>1. PICK sg \in sgs : sg.id = id /\ sg.name = g
      BY <2>1, <2>6 DEF LiveNamed
    <3>2. sg \in SgNamed(Now, g) /\ n \in AttachedNics(Now, sg.id)
      BY <2>4, <2>6, <3>1, Finish DEF SgNamed, AttachedNics
    <3> QED
      BY <1>1, <2>1, <2>5, <3>2 DEF AttachedIps
  <2>7. PICK a \in Failures : a.op = "AttachNic" /\ a.group = m[1] /\ a.port_id = n.port_id
    BY <2>4, <2>5, <2>6, Finish DEF AllInv, BareInv
  <2>8. b.op = "AttachNic" /\ b.group = g /\ b.port_id = n.port_id
    BY <1>1, <2>4 DEF AttachNic
  <2>9. SameWork(a, b)
    BY <2>1, <2>7, <2>8 DEF SameWork, Payload
  <2> QED
    BY <2>9
<1>2. ASSUME NEW sg \in SgNamed(Now, g), NEW n \in AttachedNics(Now, sg.id),
             n.ip \notin DesiredIps(code, g), b = DetachNic(g, sg.id, n.port_id)
      PROVE  \E a \in Failures : SameWork(a, b)
  <2>1. sg \in sgs /\ sg.name = g
    BY Finish DEF SgNamed
  <2>2. <<sg.id, n.port_id>> \in attached
    BY <2>1, MemberNow
  <2>3. ASSUME NEW m \in code.members, m[1] = sg.name, n \in NicsByIp(read, m[2]) PROVE FALSE
    BY <1>2, <2>1, <2>3 DEF PrimaryMembers, DesiredIps
  <2>4. PICK x \in read.sgs : /\ x.id = sg.id /\ x.name = sg.name
                              /\ n \in AttachedNics(read, x.id)
    BY <2>1, <2>3, MemberNow
  <2>5. b \in PlanMembers(code, read, g)
    BY <1>2, <2>1, <2>4 DEF PlanMembers, SgNamed
  <2>6. b \in Plan(code, read) /\ b.op = "DetachNic" /\ b.sg_id = sg.id /\ b.port_id = n.port_id
    BY <1>2, <2>5 DEF Plan, DetachNic
  <2> QED
    BY <2>2, <2>6, RemovalAgain
<1> QED
  BY <1>1, <1>2 DEF PlanMembers

\* A rule that was read as listed is still read as listed: the group it
\* names has kept its id and name.
LEMMA StillListed ==
    ASSUME AllInv, Done, Fresh, NEW m \in code.managed, NEW r \in RulesOf(Now, m[1], m[2]),
           r \in read.rules, IdentityOf(read, r) \in Wanted(code, m[1], m[2])
    PROVE  IdentityOf(Now, r) \in Wanted(code, m[1], m[2])
<1> DEFINE w == IdentityOf(read, r)
<1>0. /\ w \in RuleIdentity /\ w.direction = m[2]
      /\ w.service = r.service /\ w.remote = RemoteOf(read, r)
  BY WantedType, WantedDirection, Finish DEF IdentityOf, Identity
<1>1. /\ r \in CloudRule /\ r \in rules /\ r.direction = m[2] /\ LiveNamed(r.sg_id, m[1])
  BY InventoryType, Finish DEF RulesOf, SgNamed, LiveNamed
<1>2. /\ Name \cap SgId = {} /\ Name \cap Prefix = {} /\ SgId \cap Prefix = {}
      /\ w.remote \in Name \cup Prefix
  BY <1>0, EstateAssumption DEF RuleIdentity, Cidr
<1>3. CASE r.remote_group_id = None
  <2>1. w.remote \notin Name
    BY <1>0, <1>1, <1>2, <1>3, RemoteCases
  <2> QED
    BY <1>3 DEF IdentityOf, RemoteOf
<1>4. CASE r.remote_group_id # None
  <2>1. r.remote_group_id \in SgId
    BY <1>1, <1>4 DEF CloudRule
  <2>2. PICK y \in read.sgs : y.id = r.remote_group_id /\ w.remote = y.name
    BY <1>0, <1>1, <1>2, <1>4, <2>1, RemoteCases
  <2>3. w.remote \in Name
    BY <2>2, InventoryType, Finish DEF CloudSg
  <2>4. w.remote \in code.groups
    BY <2>3, WantedRemote, Finish
  <2>5. LiveNamed(r.remote_group_id, w.remote)
    BY <2>2, <2>4, Finish DEF DeclaredStay
  <2>6. StandsFor(r, m, w)
    BY <1>0, <1>1, <2>3, <2>5 DEF StandsFor
  <2>7. IdentityOf(Now, r) = w
    BY <1>0, <2>6, StandsForIdentity, Finish DEF AllInv
  <2> QED
    BY <2>7
<1> QED
  BY <1>3, <1>4

LEMMA ReplanRules ==
    ASSUME AllInv, Done, Fresh, NEW g \in code.groups, NEW b \in PlanRules(code, Now, g)
    PROVE  \E a \in Failures : SameWork(a, b)
<1>0. PICK d \in Direction : <<g, d>> \in code.managed /\ b \in PlanManagedDirection(code, Now, g, d)
  BY DEF PlanRules
<1> DEFINE m == <<g, d>>
<1>1. m \in code.managed /\ m[1] = g /\ m[2] = d
  BY <1>0
<1> HIDE DEF m
<1>2. ASSUME NEW w \in Wanted(code, g, d),
             w \notin {IdentityOf(Now, r) : r \in RulesOf(Now, g, d)},
             b = CreateRule(g, TargetId(Now, g), w)
      PROVE  \E a \in Failures : SameWork(a, b)
  <2>1. w \in RuleIdentity /\ w.direction = m[2]
    BY <1>1, WantedType, WantedDirection, Finish
  <2>2. ~\E r : StandsFor(r, m, w)
    BY <1>1, <1>2, <2>1, StandsForIdentity, Finish DEF AllInv
  <2>3. PICK a \in Failures : a.op = "CreateRule" /\ a.group = g /\ a.rule = w
    BY <1>1, <2>2, Finish DEF AllInv, CutInv
  <2>4. SameWork(a, b)
    BY <1>2, <2>3 DEF SameWork, Payload, CreateRule
  <2> QED
    BY <2>4
<1>3. ASSUME NEW r \in Stale(code, Now, g, d), b = DeleteRule(g, r.id)
      PROVE  \E a \in Failures : SameWork(a, b)
  <2>1. /\ r \in RulesOf(Now, g, d) /\ r \in rules /\ r.direction = d
        /\ IdentityOf(Now, r) \notin Wanted(code, g, d) /\ r.remote_group_id # r.sg_id
    BY Finish DEF Stale, RulesOf
  <2>2. LiveNamed(r.sg_id, g)
    BY <2>1, Finish DEF RulesOf, SgNamed, LiveNamed
  <2>3. r \in origin.rules
    <3>1. SUFFICES ASSUME r \notin origin.rules PROVE FALSE
      OBVIOUS
    <3>2. PICK k \in code.managed : \E w \in Wanted(code, k[1], k[2]) : StandsFor(r, k, w)
      BY <2>1, <3>1 DEF AllInv, AddedInv
    <3>3. PICK w \in Wanted(code, k[1], k[2]) : StandsFor(r, k, w)
      BY <3>2
    <3>4. k[1] = g /\ k[2] = d
      BY <2>1, <2>2, <3>3, Finish DEF StandsFor, LiveNamed, OneGroupPerId
    <3>5. w \in RuleIdentity /\ w.direction = k[2]
      BY <3>3, WantedType, WantedDirection, Finish
    <3>6. IdentityOf(Now, r) = w
      BY <3>3, <3>5, StandsForIdentity, Finish DEF AllInv
    <3> QED
      BY <2>1, <3>3, <3>4, <3>6
  <2>4. r \in read.rules
    BY <2>3, Finish
  <2>5. PICK x \in read.sgs : x.id = r.sg_id
    BY <2>4, Finish DEF WellFormed
  <2>6. x.name = g
    BY <2>2, <2>5, Finish DEF LiveNamed, NamesStay
  <2>7. IdentityOf(read, r) \notin Wanted(code, g, d)
    BY <1>1, <2>1, <2>4, StillListed
  <2>8. r \in Stale(code, read, g, d)
    BY <2>1, <2>4, <2>5, <2>6, <2>7 DEF Stale, RulesOf, SgNamed
  <2>9. b \in PlanManagedDirection(code, read, g, d)
    BY <1>3, <2>8 DEF PlanManagedDirection
  <2>10. b \in PlanRules(code, read, g)
    BY <1>0, <2>9 DEF PlanRules
  <2>11. b \in Plan(code, read) /\ b.op = "DeleteRule" /\ b.rule_id = r.id
    BY <1>3, <2>10 DEF Plan, DeleteRule
  <2> QED
    BY <2>1, <2>11, RemovalAgain
<1> QED
  BY <1>0, <1>2, <1>3 DEF PlanManagedDirection

LEMMA ReplanImplied ==
    ASSUME AllInv
    PROVE  ReplanIsWhatFailed
<1> SUFFICES ASSUME Done, Fresh, PrimaryMembers, \A n \in GroupName : ~Twinned(n),
                    NEW b \in Plan(code, Now)
             PROVE  \E a \in Failures : SameWork(a, b)
  BY DEF ReplanIsWhatFailed
<1> QED
  BY PlanCases, ReplanAbsent, ReplanGroupRow, ReplanMembers, ReplanRules

\* The plan and its execution agree, for every project and every cloud: when
\* a run is over, planning again from what the cloud then holds finds only
\* work of actions the run reported as failed, and so nothing at all after a
\* run without failures.  Calls may fail with or without effect, and creates
\* may take effect several times: rules made twice do no harm, and a group
\* made twice is set apart, since it ends the planning (UniqueNames).
THEOREM ReplanFindsFailures == Spec => []ReplanIsWhatFailed
<1>1. /\ TypeOK /\ StartInv /\ OneResultPerAction
      /\ IdsInv /\ GroupsInv /\ BareInv /\ CutInv /\ AddedInv /\ OkInv
      => ReplanIsWhatFailed
  BY ReplanImplied DEF AllInv
<1> QED
  BY <1>1, TypeCorrect, StartCorrect, OneResult, IdsKept, GroupsKept, BareKept, CutKept,
     AddedKept, OkKept, PTL

(***************************************************************************)
(* A run among other things: what module Session needs of it.              *)
(***************************************************************************)
RunInv == AllInv /\ AdditionsFirst /\ CacheInv /\ NameInv

\* A run starts so.
LEMMA RunStarts == Init => RunInv
<1>1. Init => StartInv /\ OneResultPerAction /\ AddedInv /\ OkInv
  BY DEF Init, StartInv, OneResultPerAction, AddedInv, OkInv
<1> QED
  BY <1>1, InitType, InitOrder, InitIds, InitBare, InitCache, InitCut, InitGroups, InitName
  DEF RunInv, AllInv

\* A run goes on so.
LEMMA RunGoesOn ==
    ASSUME RunInv, [Next]_vars
    PROVE  RunInv'
<1>1. /\ TypeOK /\ StartInv /\ OneResultPerAction /\ IdsInv /\ GroupsInv /\ BareInv
      /\ CutInv /\ AddedInv /\ OkInv /\ AdditionsFirst /\ CacheInv /\ NameInv
  BY DEF RunInv, AllInv
<1>2. TypeOK'
  BY <1>1, TypeStep
<1>3. StartInv' /\ OneResultPerAction'
  BY <1>1, StartStep, ResultsStep
<1>4. AdditionsFirst' /\ CacheInv' /\ NameInv'
  BY <1>1, OrderStep, CacheStep, NameStep
<1>5. IdsInv' /\ BareInv' /\ OkInv'
  BY <1>1, IdsStep, BareStep, OkStep
<1>6. CutInv' /\ AddedInv' /\ GroupsInv'
  BY <1>1, <1>2, CutStep, AddedStep, GroupsKeptStep
<1> QED
  BY <1>2, <1>3, <1>4, <1>5, <1>6 DEF RunInv, AllInv

\* And ends so.
LEMMA RunReplans == RunInv => ReplanIsWhatFailed
  BY ReplanImplied DEF RunInv
=============================================================================
