--------------------------- MODULE SessionProofs ----------------------------
(***************************************************************************)
(* Proofs about module Session.  What is proved of a single run, in        *)
(* ExecutorProofs, is used here of the runs of a day, each of which may    *)
(* meet any well-formed cloud.                                             *)
(***************************************************************************)
EXTENDS Session, PlannerProofs

Clouds == {inv \in Inventory : WellFormed(inv)}

Any == INSTANCE ExecutorProofs WITH Estates <- Clouds

(***************************************************************************)
(* The assumptions of that instance hold here.                             *)
(***************************************************************************)
LEMMA SameWellFormed == \A inv : WellFormed(inv) = Any!WellFormed(inv)
  BY DEF WellFormed, Any!WellFormed, Inventory, Any!Inventory, CloudSg, Any!CloudSg, CloudNic,
     Any!CloudNic, CloudRule, Any!CloudRule, Direction, Any!Direction, AnyRuleId, Any!AnyRuleId

LEMMA ProjectsLoaded == \A c \in Projects : Any!Loaded(c)
  BY SessionAssumption DEF Loaded, Any!Loaded, DesiredState, Any!DesiredState, Direction,
     Any!Direction, CodeRule, Any!CodeRule, Cidr, Any!Cidr

LEMMA CloudsWellFormed == \A e \in Clouds : Any!WellFormed(e)
  BY SameWellFormed DEF Clouds

LEMMA EstateHolds ==
    /\ GroupName \subseteq Name
    /\ Blank \in Description
    /\ V4 \subseteq Addr
    /\ CodeService \subseteq Service
    /\ DOMAIN Canonical \subseteq Prefix
    /\ \A c \in Any!Cidr : c \in DOMAIN Canonical /\ Canonical[c] = c
    /\ Anywhere \in Any!Cidr
    /\ DefaultRule \subseteq [direction : Any!Direction, service : Service]
    /\ None \notin SgId \cup Prefix \cup Addr
    /\ Name \cap SgId = {} /\ Name \cap Prefix = {} /\ SgId \cap Prefix = {}
    /\ RuleId \cap (SgId \X DefaultRule) = {}
  BY EstateAssumption DEF Cidr, Any!Cidr, Direction, Any!Direction

LEMMA TriesHold == MaxTries \in Nat \ {0} /\ MaxRepeated \in Nat
  BY SessionAssumption

\* Every instance has the Cardinality of its own FiniteSets.
LEMMA SameCardinality ==
    \A S : Any!Cardinality(S) = Run!Cardinality(S) /\ Promise!Cardinality(S) = Run!Cardinality(S)
  BY DEF Run!Cardinality, Any!Cardinality, Promise!Cardinality

\* A step of a run here is a step of that module.
LEMMA SamePerform ==
    ASSUME NEW a, Run!Perform(a)
    PROVE  Any!Perform(a)
<1> USE DEF Run!Turn, Any!Turn, Run!Skipped, Any!Skipped, Run!SgIdOf, Any!SgIdOf, Run!Ready, Any!Ready,
        Run!Order, Any!Order, Run!Record, Any!Record, Run!Live, Any!Live, Run!HasPort, Any!HasPort
<1>1. Run!Skip(a) => Any!Skip(a)
  BY DEF Run!Skip, Any!Skip
<1>2. \A ids, id, d : Run!MakeGroups(a, ids, id, d) => Any!MakeGroups(a, ids, id, d)
  BY SameCardinality DEF Run!MakeGroups, Any!MakeGroups, Run!SelfRules, Any!SelfRules, Run!Remember, Any!Remember
<1>3. /\ Run!Copies(Run!FreshSgIds) = Any!Copies(Any!FreshSgIds)
      /\ Run!Copies(Run!FreshRuleIds) = Any!Copies(Any!FreshRuleIds)
  BY SameCardinality DEF Run!Copies, Any!Copies, Run!FreshSgIds, Any!FreshSgIds, Run!UsedSgIds, Any!UsedSgIds,
     Run!FreshRuleIds, Any!FreshRuleIds
<1>4. Run!CreateSgOk(a) => Any!CreateSgOk(a)
  <2> SUFFICES ASSUME Run!CreateSgOk(a) PROVE Any!CreateSgOk(a)
    OBVIOUS
  <2>1. PICK ids \in Run!Copies(Run!FreshSgIds) : \E id \in ids :
          /\ Run!MakeGroups(a, ids, id, a.description)
          /\ created' = [created EXCEPT ![a.group] = id]
          /\ cached' = [cached EXCEPT ![a.group] = id]
    BY DEF Run!CreateSgOk
  <2>2. /\ ids \in Any!Copies(Any!FreshSgIds)
        /\ \A id : Run!MakeGroups(a, ids, id, a.description) => Any!MakeGroups(a, ids, id, a.description)
    BY <1>2, <1>3, <2>1
  <2> QED
    BY <2>1, <2>2 DEF Run!CreateSgOk, Any!CreateSgOk
<1>5. Run!CreateSgHalf(a) => Any!CreateSgHalf(a)
  BY <1>2, <1>3 DEF Run!CreateSgHalf, Any!CreateSgHalf
<1>6. Run!CreateSgFails(a) \/ Run!CallFails(a) => Any!CreateSgFails(a) \/ Any!CallFails(a)
  BY DEF Run!CreateSgFails, Any!CreateSgFails, Run!CallFails, Any!CallFails
<1>7. \A groups, cache : Run!Listings(groups, cache) = Any!Listings(groups, cache)
  BY DEF Run!Listings, Any!Listings
<1>8. Run!CreateRuleFails(a) => Any!CreateRuleFails(a)
  BY <1>7 DEF Run!CreateRuleFails, Any!CreateRuleFails, Run!Unknown, Any!Unknown
<1>9. \A remote : Run!CachesFor(remote) = Any!CachesFor(remote)
  BY <1>7 DEF Run!CachesFor, Any!CachesFor, Run!Unknown, Any!Unknown
<1>10. \A ids : Run!Remember(a, ids) <=> Any!Remember(a, ids)
  BY SameCardinality DEF Run!Remember, Any!Remember
<1>11. \A status : Run!DoCreateRule(a, status) => Any!DoCreateRule(a, status)
  BY <1>3, <1>9, <1>10 DEF Run!DoCreateRule, Any!DoCreateRule
<1>12. \A status : /\ Run!DoUpdateSg(a, status) => Any!DoUpdateSg(a, status)
                   /\ Run!DoAttachNic(a, status) => Any!DoAttachNic(a, status)
                   /\ Run!DoDeleteRule(a, status) => Any!DoDeleteRule(a, status)
                   /\ Run!DoDetachNic(a, status) => Any!DoDetachNic(a, status)
                   /\ Run!DoDeleteSg(a, status) => Any!DoDeleteSg(a, status)
  BY DEF Run!DoUpdateSg, Any!DoUpdateSg, Run!DoAttachNic, Any!DoAttachNic, Run!DoDeleteRule,
     Any!DoDeleteRule, Run!DoDetachNic, Any!DoDetachNic, Run!DoDeleteSg, Any!DoDeleteSg
<1>13. Run!Status = Any!Status
  BY DEF Run!Status, Any!Status
<1> QED
  BY <1>1, <1>4, <1>5, <1>6, <1>8, <1>11, <1>12, <1>13 DEF Run!Perform, Any!Perform

\* What create_rule makes, once for each try that took effect.
RemoteIdOf(a) == IF a.rule.remote \in Name THEN cached'[a.rule.remote] ELSE None

RuleMade(a, i) ==
    [id |-> i, sg_id |-> Run!SgIdOf(a), direction |-> a.rule.direction,
     service |-> a.rule.service, remote_group_id |-> RemoteIdOf(a),
     remote_ip_prefix |-> IF a.rule.remote \in Name THEN None ELSE a.rule.remote]

LEMMA RulesMade ==
    ASSUME NEW a, NEW status, Run!DoCreateRule(a, status)
    PROVE  /\ a.rule.remote \in Name => Run!Live(RemoteIdOf(a))
           /\ \E ids \in Run!Copies(Run!FreshRuleIds) :
                rules' = rules \cup {RuleMade(a, i) : i \in ids}
  BY DEF Run!DoCreateRule, RemoteIdOf, RuleMade

(***************************************************************************)
(* Types.  Every reading and every file that can be read is a well-formed  *)
(* inventory, and so is the cloud at all times; a process that is gone     *)
(* leaves nothing behind.                                                  *)
(***************************************************************************)
\* WellFormed(Now), in parts.
CloudOK ==
    /\ sgs \subseteq CloudSg /\ rules \subseteq CloudRule
    /\ attached \subseteq SgId \X PortId
    /\ origin.nics \subseteq CloudNic
    /\ \A x, y \in sgs : x.id = y.id => x = y
    /\ \A x, y \in rules : x.id = y.id => x = y
    /\ \A x, y \in origin.nics : x.port_id = y.port_id => x = y
    /\ \A r \in rules : \E sg \in sgs : sg.id = r.sg_id
    /\ \A r \in rules : r.id \notin RuleId => r.id[1] = r.sg_id
    /\ \A p \in attached : \E n \in origin.nics : n.port_id = p[2]
    /\ \A n \in origin.nics : n.ip \in n.ips \/ (n.ip = None /\ n.ips = {})

LEMMA CloudParts == WellFormed(Now) <=> CloudOK
  BY DEF WellFormed, CloudOK, Inventory, Now, Run!Now

MemoryOK ==
    /\ {running, yes, quiet, twice, rash} \subseteq BOOLEAN
    /\ yes = running
    /\ ~running => /\ from = "live" /\ met = {}
                   /\ todo = {} /\ results = {} /\ failed_creates = {} /\ repeated = {}
                   /\ created = [g \in GroupName |-> None]
                   /\ cached = Run!Uncached
                   /\ quiet

FilesOK ==
    /\ file \in [File -> Clouds \cup {NoFile, Cut}]
    /\ stale \subseteq Kept
    /\ from \in Kept \cup {"live"}

SessionInv ==
    /\ Any!TypeOK
    /\ CloudOK
    /\ MemoryOK
    /\ FilesOK
    /\ runs \in 0..MaxRuns /\ changes \in 0..MaxChanges

LEMMA TypeImplied == SessionInv => TypeOK
<1> SUFFICES ASSUME SessionInv PROVE TypeOK
  OBVIOUS
<1>1. code \in Projects /\ read \in Clouds
  BY DEF SessionInv, Any!TypeOK
<1>2. todo \subseteq Action
  BY DEF SessionInv, Any!TypeOK, Action, Any!Action, RuleIdentity, Any!RuleIdentity, Direction, Any!Direction,
     AnyRuleId, Any!AnyRuleId, Cidr, Any!Cidr
<1>3. WellFormed(Now)
  BY CloudParts DEF SessionInv
<1>4. \A f \in Kept : WellFormed(file[f])
  BY DEF SessionInv, FilesOK, Kept, Clouds
<1> QED
  BY <1>1, <1>2, <1>3, <1>4 DEF SessionInv, MemoryOK, FilesOK, TypeOK, Clouds, Kept

\* Nothing read is an inventory too.
LEMMA NothingReadOK ==
    ASSUME NEW nics, nics \subseteq CloudNic,
           \A x, y \in nics : x.port_id = y.port_id => x = y,
           \A n \in nics : n.ip \in n.ips \/ (n.ip = None /\ n.ips = {})
    PROVE  [sgs |-> {}, rules |-> {}, attached |-> {}, nics |-> nics] \in Clouds
  BY DEF Clouds, WellFormed, Inventory

LEMMA InitSession == Init => SessionInv
<1> SUFFICES ASSUME Init PROVE SessionInv
  OBVIOUS
<1>1. PICK e \in Estates :
        /\ sgs = e.sgs /\ rules = e.rules /\ attached = e.attached
        /\ origin = [sgs |-> {}, rules |-> {}, attached |-> {}, nics |-> e.nics]
  BY DEF Init
<1>2. WellFormed(e)
  BY SessionAssumption
<1>3. CloudOK
  BY <1>1, <1>2 DEF WellFormed, Inventory, CloudOK
<1>4. read \in Clouds /\ origin \in Clouds
  BY <1>1, <1>2, NothingReadOK DEF Init, WellFormed, Inventory
<1>5. Any!TypeOK
  BY <1>3, <1>4 DEF CloudOK, Init, Any!TypeOK, CloudSg, Any!CloudSg, CloudRule, Any!CloudRule, AnyRuleId,
     Any!AnyRuleId, Direction, Any!Direction, Run!Uncached
<1>6. MemoryOK
  BY DEF Init, MemoryOK
<1>7. FilesOK
  BY DEF Init, FilesOK
<1>8. runs \in 0..MaxRuns /\ changes \in 0..MaxChanges
  BY SessionAssumption DEF Init
<1> QED
  BY <1>3, <1>5, <1>6, <1>7, <1>8 DEF SessionInv

\* The types of a run's state are those of that module.
LEMMA PerformTypes ==
    ASSUME SessionInv, NEW a \in todo, Run!Perform(a)
    PROVE  /\ Any!TypeOK'
           /\ sgs' \subseteq CloudSg /\ rules' \subseteq CloudRule
           /\ attached' \subseteq SgId \X PortId
           /\ origin' = origin /\ code' = code /\ read' = read
<1>1. [Any!Next]_Any!vars
  BY SamePerform DEF Any!Next
<1>2. Any!TypeOK'
  BY <1>1, ProjectsLoaded, CloudsWellFormed, EstateHolds, TriesHold, Any!TypeStep DEF SessionInv
<1>3. origin' = origin /\ code' = code /\ read' = read
  BY SamePerform, ProjectsLoaded, CloudsWellFormed, EstateHolds, TriesHold, Any!PerformRecords
<1> QED
  BY <1>2, <1>3 DEF Any!TypeOK, CloudSg, Any!CloudSg, CloudRule, Any!CloudRule, AnyRuleId,
     Any!AnyRuleId, Direction, Any!Direction

\* Ids stay unique and rules stay with their groups when groups are made.
LEMMA MakeGroupsCloud ==
    ASSUME SessionInv, NEW a, NEW ids \in SUBSET Run!FreshSgIds, NEW id, NEW d,
           Run!MakeGroups(a, ids, id, d), attached' = attached, origin' = origin,
           sgs' \subseteq CloudSg, rules' \subseteq CloudRule
    PROVE  CloudOK'
<1> USE DEF CloudOK, SessionInv
<1> DEFINE new(i) == [id |-> i, name |-> a.group, description |-> IF i = id THEN d ELSE Blank]
<1>g. /\ sgs' = sgs \cup {new(i) : i \in ids}
      /\ rules' = rules \cup UNION {Run!SelfRules(i) : i \in ids}
  BY DEF Run!MakeGroups
<1>n. \A i : new(i).id = i
  OBVIOUS
<1> HIDE DEF new
<1>1. \A i \in ids : i \in SgId /\ \A sg \in sgs : sg.id # i
  BY DEF Run!FreshSgIds, Run!UsedSgIds
<1>2. \A x, y \in sgs' : x.id = y.id => x = y
  BY <1>1, <1>g, <1>n
<1>3. \A i \in ids : \A r \in Run!SelfRules(i) :
        r.id \notin RuleId /\ r.id[1] = i /\ r.sg_id = i
  BY <1>1, EstateAssumption DEF Run!SelfRules
<1>4. \A i, j : \A x \in Run!SelfRules(i), y \in Run!SelfRules(j) : x.id = y.id => x = y
  BY DEF Run!SelfRules
<1>5. \A i \in ids : \A x \in rules : \A y \in Run!SelfRules(i) : x.id # y.id
  BY <1>1, <1>3
<1>6. \A x, y \in rules' : x.id = y.id => x = y
  BY <1>4, <1>5, <1>g
<1>7. \A r \in rules' : \E sg \in sgs' : sg.id = r.sg_id
  BY <1>3, <1>g, <1>n
<1>8. \A r \in rules' : r.id \notin RuleId => r.id[1] = r.sg_id
  BY <1>3, <1>g
<1> QED
  BY <1>2, <1>6, <1>7, <1>8

\* Whatever a run does to the cloud, a reading of it stays well formed.
LEMMA PerformCloud ==
    ASSUME SessionInv, NEW a \in todo, Run!Perform(a)
    PROVE  CloudOK'
<1> USE PerformTypes DEF CloudOK, SessionInv
<1>1. CASE Run!CreateSgOk(a) \/ Run!CreateSgHalf(a)
  <2>1. /\ attached' = attached
        /\ \E ids \in SUBSET Run!FreshSgIds : \E id, d : Run!MakeGroups(a, ids, id, d)
    BY <1>1 DEF Run!CreateSgOk, Run!CreateSgHalf, Run!Copies
  <2> QED
    BY <2>1, MakeGroupsCloud
<1>3. CASE Run!Skip(a) \/ Run!CreateSgFails(a) \/ Run!CreateRuleFails(a) \/ Run!CallFails(a)
  BY <1>3 DEF Run!Skip, Run!CreateSgFails, Run!CreateRuleFails, Run!CallFails
<1>4. ASSUME NEW status, Run!DoUpdateSg(a, status) PROVE CloudOK'
  <2>1. rules' = rules /\ attached' = attached
    BY <1>4 DEF Run!DoUpdateSg
  <2> DEFINE new(sg) == IF sg.id = a.sg_id
                        THEN [id |-> sg.id, name |-> sg.name, description |-> a.description]
                        ELSE sg
  <2>2. sgs' = {new(sg) : sg \in sgs}
    BY <1>4 DEF Run!DoUpdateSg
  <2>3. \A sg : new(sg).id = sg.id
    OBVIOUS
  <2> HIDE DEF new
  <2>4. \A x, y \in sgs' : x.id = y.id => x = y
    BY <2>2, <2>3
  <2>5. \A r \in rules' : \E sg \in sgs' : sg.id = r.sg_id
    BY <2>1, <2>2, <2>3
  <2> QED
    BY <2>1, <2>4, <2>5
<1>5. ASSUME NEW status, Run!DoCreateRule(a, status) PROVE CloudOK'
  <2>1. PICK ids \in Run!Copies(Run!FreshRuleIds) : rules' = rules \cup {RuleMade(a, i) : i \in ids}
    BY <1>5, RulesMade
  <2>2. /\ sgs' = sgs /\ attached' = attached /\ Run!Live(Run!SgIdOf(a))
    BY <1>5 DEF Run!DoCreateRule
  <2>3. \A i \in ids : i \in RuleId /\ \A x \in rules : x.id # i
    BY <2>1 DEF Run!Copies, Run!FreshRuleIds
  <2>4. \A r, i : r = RuleMade(a, i) => r.id = i /\ r.sg_id = Run!SgIdOf(a)
    BY DEF RuleMade
  <2> QED
    BY <2>1, <2>2, <2>3, <2>4 DEF Run!Live
<1>6. ASSUME NEW status, Run!DoAttachNic(a, status) PROVE CloudOK'
  BY <1>6 DEF Run!DoAttachNic, Run!HasPort
<1>7. ASSUME NEW status, Run!DoDeleteRule(a, status) \/ Run!DoDetachNic(a, status) PROVE CloudOK'
  BY <1>7 DEF Run!DoDeleteRule, Run!DoDetachNic
<1>8. ASSUME NEW status, Run!DoDeleteSg(a, status) PROVE CloudOK'
  BY <1>8 DEF Run!DoDeleteSg
<1> QED
  BY <1>1, <1>3, <1>4, <1>5, <1>6, <1>7, <1>8 DEF Run!Perform

\* The types of a run's state, from those of the cloud.
LEMMA TypeNext ==
    ASSUME SessionInv, CloudOK', code' \in Projects, read' \in Clouds, origin' \in Clouds,
           todo' \subseteq Any!Action,
           UNCHANGED memory
    PROVE  Any!TypeOK'
  BY DEF SessionInv, CloudOK, Any!TypeOK, CloudSg, Any!CloudSg, CloudRule, Any!CloudRule, AnyRuleId,
     Any!AnyRuleId, Direction, Any!Direction, memory

\* The owner's steps between runs.
LEMMA OwnerSession ==
    ASSUME SessionInv,
           \/ TakeSnapshot \/ PutAside
           \/ \E f \in File : VerifySnapshot(f)
           \/ \E c \in Projects : EditProject(c)
    PROVE  SessionInv'
<1>1. /\ UNCHANGED <<process, cloud, day>> /\ code' \in Projects
  BY DEF TakeSnapshot, PutAside, VerifySnapshot, EditProject, SessionInv, Any!TypeOK
<1>2. CloudOK' /\ MemoryOK'
  BY <1>1 DEF SessionInv, CloudOK, MemoryOK, process, memory, cloud, day
<1>3. Any!TypeOK'
  BY <1>1, <1>2, TypeNext DEF SessionInv, Any!TypeOK, process
<1>4. Now \in Clouds
  BY CloudParts DEF SessionInv, Clouds, WellFormed
<1>o. from = "live" /\ from' = "live"
  BY <1>1 DEF TakeSnapshot, PutAside, VerifySnapshot, EditProject, Between, process, SessionInv, MemoryOK
<1>5. FilesOK'
  <2> USE <1>o DEF SessionInv, FilesOK, Kept, File
  <2>1. CASE TakeSnapshot
    <3>1. PICK inv \in {Now, Cut} : file' = [file EXCEPT !["default"] = inv]
      BY <2>1 DEF TakeSnapshot
    <3>2. stale' = stale \ {"default"}
      BY <2>1 DEF TakeSnapshot
    <3> QED
      BY <1>4, <3>1, <3>2
  <2>2. CASE PutAside
    <3>1. /\ file["default"] # NoFile
          /\ file' = [file EXCEPT !["default"] = NoFile, !["other"] = file["default"]]
          /\ stale' = {"other" : f \in stale \cap {"default"}}
      BY <2>2 DEF PutAside
    <3>2. file'["other"] = file["default"]
      BY <3>1
    <3>3. "default" \in stale => "other" \in Kept'
      BY <3>1, <3>2
    <3>4. stale' \subseteq Kept'
      BY <3>1, <3>3
    <3>5. file' \in [File -> Clouds \cup {NoFile, Cut}]
      BY <3>1
    <3> QED
      BY <3>4, <3>5
  <2>3. CASE (\E f \in File : VerifySnapshot(f)) \/ (\E c \in Projects : EditProject(c))
    BY <2>3 DEF VerifySnapshot, EditProject
  <2> QED
    BY <2>1, <2>2, <2>3
<1> QED
  BY <1>1, <1>2, <1>3, <1>5 DEF SessionInv, day

LEMMA BeginSession ==
    ASSUME SessionInv, NEW source \in File \cup {"live"}, NEW confirmed \in BOOLEAN,
           BeginRun(source, confirmed)
    PROVE  SessionInv' /\ read' \in Clouds /\ todo' \subseteq Action
<1>1. Now \in Clouds
  BY CloudParts DEF SessionInv, Clouds, WellFormed
<1>2. read' = Reading(source) /\ Reading(source) \in Clouds
  BY <1>1 DEF BeginRun, Readable, Reading, Kept, SessionInv, FilesOK
<1>3. /\ origin' = Now /\ UNCHANGED <<code, cloud, file, stale, results, created, failed_creates, repeated>>
  BY DEF BeginRun
<1>4. CloudOK'
  BY <1>3 DEF Now, Run!Now, SessionInv, CloudOK, cloud
<1>5. Loaded(code) /\ WellFormed(read') /\ ~Unresolved(code, read')
  BY <1>2, SessionAssumption DEF BeginRun, WritesNow, Plannable, SessionInv, Any!TypeOK, Clouds
<1>6. Plan(code, read') \subseteq Action
  BY <1>5, PlanType
<1>7. todo' \subseteq Action /\ todo' \subseteq Any!Action
  BY <1>6 DEF BeginRun, Action, Any!Action, RuleIdentity, Any!RuleIdentity, Direction,
     Any!Direction, AnyRuleId, Any!AnyRuleId, Cidr, Any!Cidr
<1>8. cached' \in [Name -> SgId \cup {None}]
  BY DEF BeginRun, Run!Listings, Run!Uncached
<1>9. Any!TypeOK'
  BY <1>1, <1>2, <1>3, <1>4, <1>7, <1>8 DEF SessionInv, CloudOK, Any!TypeOK, CloudSg, Any!CloudSg,
     CloudRule, Any!CloudRule, AnyRuleId, Any!AnyRuleId, Direction, Any!Direction
<1>10. MemoryOK'
  BY DEF BeginRun, WritesNow, MemoryOK, SessionInv
<1>11. FilesOK' /\ changes' = changes
  BY <1>3 DEF BeginRun, Readable, FilesOK, Kept, SessionInv
<1>12. runs' \in 0..MaxRuns
  BY SessionAssumption DEF BeginRun, Between, SessionInv
<1> QED
  BY <1>2, <1>4, <1>7, <1>9, <1>10, <1>11, <1>12 DEF SessionInv

LEMMA PerformSession ==
    ASSUME SessionInv, PerformNext
    PROVE  SessionInv'
<1>1. PICK a \in todo : Run!Perform(a)
  BY DEF PerformNext
<1>2. Any!TypeOK' /\ CloudOK'
  BY <1>1, PerformTypes, PerformCloud
<1> QED
  BY <1>2 DEF PerformNext, SessionInv, MemoryOK, FilesOK, Kept, day

LEMMA ExitSession ==
    ASSUME SessionInv, Finish \/ Kill
    PROVE  SessionInv'
<1>1. Exit
  BY DEF Finish, Kill
<1>2. stale' \subseteq Kept
  BY DEF Finish, Kill, StaleNoteSource, SessionInv, FilesOK, File, Kept
<1>3. /\ sgs' = sgs /\ rules' = rules /\ attached' = attached /\ code' = code /\ file' = file
      /\ origin' = NothingRead /\ read' = NothingRead
      /\ UNCHANGED <<twice, rash, runs, changes>>
  BY <1>1 DEF Exit, cloud, day
<1>4. NothingRead \in Clouds /\ NothingRead.nics = origin.nics
  BY NothingReadOK DEF SessionInv, CloudOK, NothingRead
<1>5. CloudOK'
  BY <1>3, <1>4 DEF SessionInv, CloudOK
<1>6. Any!TypeOK'
  BY <1>1, <1>3, <1>4, <1>5 DEF SessionInv, CloudOK, Any!TypeOK, CloudSg, Any!CloudSg,
     CloudRule, Any!CloudRule, AnyRuleId, Any!AnyRuleId, Direction, Any!Direction, Exit, Run!Uncached
<1>7. MemoryOK'
  BY <1>1, <1>3 DEF Exit, SessionInv, MemoryOK, Run!Uncached
<1>8. FilesOK'
  BY <1>1, <1>2, <1>3 DEF Exit, SessionInv, FilesOK, Kept
<1> QED
  BY <1>3, <1>5, <1>6, <1>7, <1>8 DEF SessionInv

LEMMA OthersSession ==
    ASSUME SessionInv, OthersChange
    PROVE  SessionInv'
<1> USE DEF SessionInv, CloudOK
<1>1. origin' = origin /\ code' = code /\ read' = read
  BY DEF OthersChange
<1>2. CloudOK'
  <2>1. CASE rules' = rules /\ attached' = attached
             /\ \E sg \in sgs, n \in Name \ {x.name : x \in sgs} :
                    sgs' = (sgs \ {sg}) \cup {[sg EXCEPT !.name = n]}
    <3>1. PICK sg \in sgs, n \in Name : sgs' = (sgs \ {sg}) \cup {[sg EXCEPT !.name = n]}
      BY <2>1
    <3>2. [sg EXCEPT !.name = n] = [id |-> sg.id, name |-> n, description |-> sg.description]
      BY DEF CloudSg
    <3> DEFINE new == [id |-> sg.id, name |-> n, description |-> sg.description]
    <3>3. new \in CloudSg /\ new.id = sg.id /\ sgs' = (sgs \ {sg}) \cup {new}
      BY <3>1, <3>2 DEF CloudSg
    <3> HIDE DEF new
    <3> QED
      BY <1>1, <2>1, <3>3
  <2>2. CASE sgs' = sgs /\ rules' \subseteq rules /\ attached' \subseteq attached
    BY <1>1, <2>2
  <2> QED
    BY <2>1, <2>2 DEF OthersChange
<1>3. Any!TypeOK'
  BY <1>1, <1>2, TypeNext DEF OthersChange, Any!TypeOK
<1>4. MemoryOK'
  BY DEF OthersChange, MemoryOK, memory
<1>5. FilesOK'
  BY DEF OthersChange, FilesOK, Kept
<1>6. runs' \in 0..MaxRuns /\ changes' \in 0..MaxChanges
  BY SessionAssumption DEF OthersChange
<1> QED
  BY <1>2, <1>3, <1>4, <1>5, <1>6

LEMMA SessionStep ==
    ASSUME SessionInv, [Next]_vars
    PROVE  SessionInv'
<1>1. CASE UNCHANGED vars
  BY <1>1 DEF vars, process, memory, cloud, day, SessionInv, CloudOK, Any!TypeOK, MemoryOK, FilesOK, Kept
<1>2. CASE Next
  BY <1>1, <1>2, OwnerSession, BeginSession, PerformSession, ExitSession, OthersSession
  DEF Next, RunStep, Preview, Evening
<1> QED
  BY <1>1, <1>2

THEOREM SessionSound == Spec => []SessionInv
  BY InitSession, SessionStep, PTL DEF Spec

\* However runs fail, are killed or meet others, every reading a run is made
\* from, every file a later run can use and the cloud itself stay well
\* formed, and a process that is gone leaves nothing agreed.
THEOREM TypeCorrect == Spec => []TypeOK
  BY SessionSound, TypeImplied, PTL

(***************************************************************************)
(* What a run can know of the groups: the gateway gives a name only ids    *)
(* that a group of that name has had since the run began.                  *)
(***************************************************************************)
Knows(cache, groups) == \A n \in Name : cache[n] # None => <<n, cache[n]>> \in groups

MetInv == running => Named(sgs) \subseteq met /\ Knows(cached, met)

\* A listing, even one cut short, teaches it nothing else.
LEMMA ListingsKnow ==
    ASSUME NEW groups, groups \subseteq sgs, Named(sgs) \subseteq met,
           NEW cache, Knows(cache, met), NEW c \in Run!Listings(groups, cache)
    PROVE  Knows(c, met)
<1>1. \A sg \in groups : <<sg.name, sg.id>> \in met
  BY DEF Named
<1> QED
  BY <1>1 DEF Knows, Run!Listings

LEMMA MetPerform ==
    ASSUME SessionInv, MetInv, running, NEW a \in todo, Run!Perform(a), met' = met \cup Named(sgs')
    PROVE  /\ Knows(cached', met')
           /\ a.op # "CreateSg" => Knows(cached', met)
<1>0. Named(sgs) \subseteq met /\ Knows(cached, met) /\ cached \in [Name -> SgId \cup {None}]
  BY DEF MetInv, SessionInv, Any!TypeOK
<1>1. CASE Run!CreateSgOk(a) \/ Run!CreateSgHalf(a)
  <2>1. PICK ids \in Run!Copies(Run!FreshSgIds) : \E id \in ids : \E d :
          Run!MakeGroups(a, ids, id, d) /\ cached' \in {cached, [cached EXCEPT ![a.group] = id]}
    BY <1>1 DEF Run!CreateSgOk, Run!CreateSgHalf
  <2>2. PICK id \in ids :
          /\ \E d : Run!MakeGroups(a, ids, id, d)
          /\ cached' \in {cached, [cached EXCEPT ![a.group] = id]}
    BY <2>1
  <2>3. \E sg \in sgs' : sg.name = a.group /\ sg.id = id
    <3> DEFINE new(i, d) == [id |-> i, name |-> a.group, description |-> IF i = id THEN d ELSE Blank]
    <3>1. PICK d : sgs' = sgs \cup {new(i, d) : i \in ids}
      BY <2>2 DEF Run!MakeGroups
    <3>2. new(id, d) \in sgs' /\ new(id, d).name = a.group /\ new(id, d).id = id
      BY <3>1
    <3> QED
      BY <3>2
  <2>4. <<a.group, id>> \in met'
    BY <2>3 DEF Named
  <2>5. a.op = "CreateSg"
    BY <1>1 DEF Run!CreateSgOk, Run!CreateSgHalf, Run!Turn
  <2> QED
    BY <1>0, <2>2, <2>4, <2>5 DEF Knows
<1>2. CASE Run!CreateRuleFails(a)
  BY <1>0, <1>2, ListingsKnow DEF Run!CreateRuleFails, Knows
<1>3. ASSUME NEW status, Run!DoCreateRule(a, status) PROVE Knows(cached', met)
  BY <1>0, <1>3, ListingsKnow DEF Run!DoCreateRule, Run!CachesFor
<1>4. CASE Run!Skip(a) \/ Run!CreateSgFails(a) \/ Run!CallFails(a)
  BY <1>0, <1>4 DEF Run!Skip, Run!CreateSgFails, Run!CallFails, Knows
<1>5. ASSUME NEW status,
             \/ Run!DoUpdateSg(a, status) \/ Run!DoAttachNic(a, status)
             \/ Run!DoDeleteRule(a, status) \/ Run!DoDetachNic(a, status)
             \/ Run!DoDeleteSg(a, status)
      PROVE  cached' = cached
  BY <1>5 DEF Run!DoUpdateSg, Run!DoAttachNic, Run!DoDeleteRule, Run!DoDetachNic, Run!DoDeleteSg
<1>6. Knows(cached', met) => Knows(cached', met')
  BY DEF Knows
<1> QED
  BY <1>0, <1>1, <1>2, <1>3, <1>4, <1>5, <1>6 DEF Run!Perform, Knows

LEMMA MetStep ==
    ASSUME SessionInv, MetInv, [Next]_vars
    PROVE  MetInv'
<1>1. CASE UNCHANGED vars
  BY <1>1 DEF vars, process, memory, cloud, MetInv, Knows, Named
<1>2. ASSUME NEW source \in File \cup {"live"}, NEW confirmed \in BOOLEAN,
             BeginRun(source, confirmed)
      PROVE  MetInv'
  <2>1. met' = Named(sgs) /\ sgs' = sgs
    BY <1>2 DEF BeginRun, cloud
  <2>2. \A sg \in sgs : <<sg.name, sg.id>> \in met'
    BY <2>1 DEF Named
  <2>3. Knows(cached', met')
    BY <1>2, <2>2 DEF BeginRun, Run!Listings, Run!Uncached, Knows
  <2> QED
    BY <2>1, <2>3 DEF MetInv, Named
<1>3. CASE PerformNext
  <2>1. PICK a \in todo : Run!Perform(a)
    BY <1>3 DEF PerformNext
  <2>2. running /\ met' = met \cup Named(sgs')
    BY <1>3 DEF PerformNext
  <2> QED
    BY <2>1, <2>2, MetPerform DEF MetInv, Named
<1>4. CASE OthersChange
  <2>1. /\ running' = running /\ cached' = cached
        /\ met' = IF running THEN met \cup Named(sgs') ELSE met
    BY <1>4 DEF OthersChange, memory
  <2> QED
    BY <2>1 DEF MetInv, Knows, Named
<1>5. CASE Finish \/ Kill
  BY <1>5 DEF Finish, Kill, Exit, MetInv
<1>6. CASE \/ TakeSnapshot \/ PutAside
           \/ \E f \in File : VerifySnapshot(f)
           \/ \E c \in Projects : EditProject(c)
  BY <1>6 DEF TakeSnapshot, PutAside, VerifySnapshot, EditProject, Between, process, MetInv
<1> QED
  BY <1>1, <1>2, <1>3, <1>4, <1>5, <1>6 DEF Next, RunStep, Preview, Evening

LEMMA MetKept == Spec => []MetInv
<1>1. Init => MetInv
  BY DEF Init, MetInv
<1> QED
  BY <1>1, MetStep, SessionSound, PTL DEF Spec

(***************************************************************************)
(* The promise: every step of the day is a step of Consent, or a stutter.  *)
(***************************************************************************)
Own == {created[g] : g \in GroupName} \ {None}

LEMMA InitPromise == Init => Promise!Init
<1> SUFFICES ASSUME Init PROVE Promise!Init
  OBVIOUS
<1>1. SessionInv
  BY InitSession
<1> QED
  BY <1>1 DEF Init, SessionInv, CloudOK, Promise!Init, CloudSg, Promise!CloudSg, CloudRule,
     Promise!CloudRule, AnyRuleId, Promise!AnyRuleId, Direction, Promise!Direction

\* The owner's steps, and those that print something, are stutters.
LEMMA OwnerPromise ==
    ASSUME \/ TakeSnapshot \/ PutAside
           \/ \E f \in File : VerifySnapshot(f)
           \/ \E c \in Projects : EditProject(c)
           \/ UNCHANGED vars
    PROVE  UNCHANGED Promise!vars
<1>1. UNCHANGED <<process, cloud, day>>
  BY DEF TakeSnapshot, PutAside, VerifySnapshot, EditProject, vars, process, cloud, day
<1> QED
  BY <1>1 DEF process, memory, cloud, day, Promise!vars

\* A run begins with --yes, and the plan is what is agreed.
LEMMA BeginPromise ==
    ASSUME SessionInv, NEW source \in File \cup {"live"}, NEW confirmed \in BOOLEAN,
           BeginRun(source, confirmed)
    PROVE  Promise!Agree
<1>1. todo' \subseteq Action
  BY BeginSession
<1>2. todo' \in SUBSET Promise!Action
  BY <1>1 DEF Action, Promise!Action, RuleIdentity, Promise!RuleIdentity, Direction,
     Promise!Direction, AnyRuleId, Promise!AnyRuleId, Cidr, Promise!Cidr
<1>3. yes' = TRUE /\ UNCHANGED <<cloud, changes, created>> /\ met' = Promise!Named(sgs)
  BY DEF BeginRun, WritesNow, Named, Promise!Named
<1>4. created = [g \in GroupName |-> None]
  BY DEF BeginRun, Between, SessionInv, MemoryOK
<1> QED
  BY <1>2, <1>3, <1>4 DEF Promise!Agree, Promise!cloud, cloud

LEMMA ExitPromise ==
    ASSUME Exit
    PROVE  Promise!Look
  BY DEF Exit, Promise!Look, Promise!cloud, cloud, day

LEMMA OthersPromise ==
    ASSUME SessionInv, OthersChange
    PROVE  Promise!OthersChange
  BY DEF OthersChange, Promise!OthersChange, SessionInv, MemoryOK, memory, Named, Promise!Named

\* The id a payload ends up with is its own, or that of a group made for it.
LEMMA AboutOwn ==
    ASSUME SessionInv, NEW a \in todo, a.op \in {"CreateRule", "AttachNic"},
           Run!Live(Run!SgIdOf(a))
    PROVE  Promise!About(a, Run!SgIdOf(a))
<1>1. Run!SgIdOf(a) # None
  BY EstateAssumption DEF SessionInv, CloudOK, Run!Live, CloudSg
<1>2. a.group \in GroupName
  BY DEF SessionInv, Any!TypeOK, Any!Action
<1> QED
  BY <1>1, <1>2 DEF Promise!About, Run!SgIdOf

\* Groups are made with nothing but a name, a description and self rules.
LEMMA MakesPromise ==
    ASSUME SessionInv, NEW a, a.op = "CreateSg",
           NEW ids \in Run!Copies(Run!FreshSgIds), NEW id \in ids,
           NEW d \in {Blank, a.description}, Run!MakeGroups(a, ids, id, d), attached' = attached,
           created' = created \/ created' = [created EXCEPT ![a.group] = id]
    PROVE  Promise!MakesGroup(a)
<1> DEFINE made(i) == [id |-> i, name |-> a.group, description |-> IF i = id THEN d ELSE Blank]
<1>1. sgs' = sgs \cup {made(i) : i \in ids}
  BY DEF Run!MakeGroups
<1>2. \A i : /\ made(i).id = i /\ made(i).name = a.group
             /\ made(i).description \in {Blank, a.description}
  OBVIOUS
<1> HIDE DEF made
<1>3. \A i \in ids : \A sg \in sgs : sg.id # i
  BY DEF Run!Copies, Run!FreshSgIds, Run!UsedSgIds
<1>4. {sg.id : sg \in sgs' \ sgs} = ids
  BY <1>1, <1>2, <1>3
<1>5. Promise!Cardinality(ids) <= MaxTries
  BY SameCardinality DEF Run!Copies
<1>6. \A r \in rules' \ rules : r.sg_id \in ids /\ r.remote_group_id = r.sg_id
  BY DEF Run!MakeGroups, Run!SelfRules
<1>7. sgs \subseteq sgs' /\ rules \subseteq rules'
  BY DEF Run!MakeGroups
<1>8. \A sg \in sgs' \ sgs : sg.name = a.group /\ sg.description \in {Blank, a.description}
  BY <1>1, <1>2
<1>9. created \in [GroupName -> SgId \cup {None}]
  BY DEF SessionInv, Any!TypeOK
<1>10. Own' \subseteq Own \cup {id}
  BY <1>9 DEF Own
<1>11. PICK new : new = {sg.id : sg \in sgs' \ sgs}
  OBVIOUS
<1>12. /\ Promise!Cardinality(new) <= MaxTries
       /\ \E i \in new : Own' \subseteq Own \cup {i}
       /\ \A r \in rules' \ rules : r.sg_id \in new /\ r.remote_group_id = r.sg_id
  BY <1>4, <1>5, <1>6, <1>10, <1>11
<1> QED
  BY <1>7, <1>8, <1>11, <1>12 DEF Promise!MakesGroup, Own

\* A rule is made as its payload says; the remote group is one the run met.
LEMMA MakesRulePromise ==
    ASSUME SessionInv, MetInv, running, NEW a \in todo, NEW status, Run!DoCreateRule(a, status),
           Knows(cached', met)
    PROVE  Promise!MakesRule(a)
<1>1. a.op = "CreateRule" /\ sgs' = sgs /\ attached' = attached /\ created' = created
  BY DEF Run!DoCreateRule, Run!Turn
<1>2. Promise!About(a, Run!SgIdOf(a))
  BY <1>1, AboutOwn DEF Run!DoCreateRule
<1>3. PICK ids \in Run!Copies(Run!FreshRuleIds) : rules' = rules \cup {RuleMade(a, i) : i \in ids}
  BY RulesMade
<1>4. a.rule.remote \in Name =>
        RemoteIdOf(a) = cached'[a.rule.remote] /\ <<a.rule.remote, cached'[a.rule.remote]>> \in met
  <2>1. a.rule.remote \in Name => RemoteIdOf(a) # None
    BY RulesMade, EstateAssumption DEF SessionInv, CloudOK, Run!Live, CloudSg
  <2> QED
    BY <2>1 DEF RemoteIdOf, Knows
<1>5. ASSUME NEW i, NEW r, r = RuleMade(a, i)
      PROVE  r.id = i /\ r.sg_id = Run!SgIdOf(a) /\ Promise!Says(a.rule, r)
  <2>1. /\ r.id = i /\ r.sg_id = Run!SgIdOf(a) /\ r.direction = a.rule.direction
        /\ r.service = a.rule.service /\ r.remote_group_id = RemoteIdOf(a)
        /\ r.remote_ip_prefix = IF a.rule.remote \in Name THEN None ELSE a.rule.remote
    BY <1>5 DEF RuleMade
  <2>2. a.rule.remote \notin Name => RemoteIdOf(a) = None
    BY DEF RemoteIdOf
  <2> QED
    BY <1>4, <2>1, <2>2 DEF Promise!Says
<1>6. \A i \in ids : \A r \in rules : r.id # i
  BY <1>3 DEF Run!Copies, Run!FreshRuleIds
<1>7. PICK new : new = {RuleMade(a, i) : i \in ids}
  OBVIOUS
<1>8. rules' = rules \cup new /\ \A r \in new : \E i \in ids : r = RuleMade(a, i)
  BY <1>3, <1>7
<1>9. {r.id : r \in rules' \ rules} = ids
  <2>1. \A i \in ids : \E r \in new : r.id = i
    BY <1>5, <1>7
  <2> QED
    BY <1>5, <1>6, <1>8, <2>1
<1>10. Promise!Cardinality(ids) <= MaxTries
  BY SameCardinality DEF Run!Copies
<1>11. /\ rules \subseteq rules'
       /\ \A r \in rules' \ rules : Promise!About(a, r.sg_id) /\ Promise!Says(a.rule, r)
  BY <1>2, <1>5, <1>8
<1>12. Promise!Cardinality({r.id : r \in rules' \ rules}) <= MaxTries
  BY <1>9, <1>10
<1> QED
  BY <1>1, <1>11, <1>12 DEF Promise!MakesRule

LEMMA PerformPromise ==
    ASSUME SessionInv, MetInv, running, NEW a \in todo, Run!Perform(a), met' = met \cup Named(sgs')
    PROVE  \/ UNCHANGED <<sgs, rules, attached, created>>
           \/ Promise!MakesGroup(a) \/ Promise!DescribesGroup(a) \/ Promise!MakesRule(a)
           \/ Promise!Attaches(a) \/ Promise!RemovesRule(a) \/ Promise!Detaches(a)
           \/ Promise!RemovesGroup(a)
<1>1. CASE Run!CreateSgOk(a)
  <2>1. PICK ids \in Run!Copies(Run!FreshSgIds) : \E id \in ids :
          /\ Run!MakeGroups(a, ids, id, a.description)
          /\ created' = [created EXCEPT ![a.group] = id]
    BY <1>1 DEF Run!CreateSgOk
  <2> QED
    BY <1>1, <2>1, MakesPromise DEF Run!CreateSgOk, Run!Turn
<1>2. CASE Run!CreateSgHalf(a)
  <2>1. PICK ids \in Run!Copies(Run!FreshSgIds) : \E id \in ids, d \in {Blank, a.description} :
          Run!MakeGroups(a, ids, id, d)
    BY <1>2 DEF Run!CreateSgHalf
  <2> QED
    BY <1>2, <2>1, MakesPromise DEF Run!CreateSgHalf, Run!Turn
<1>3. CASE Run!Skip(a) \/ Run!CreateSgFails(a) \/ Run!CreateRuleFails(a) \/ Run!CallFails(a)
  BY <1>3 DEF Run!Skip, Run!CreateSgFails, Run!CreateRuleFails, Run!CallFails
<1>4. ASSUME NEW status, Run!DoUpdateSg(a, status) PROVE Promise!DescribesGroup(a)
  <2>1. a.op = "UpdateSg" /\ rules' = rules /\ attached' = attached /\ created' = created
    BY <1>4 DEF Run!DoUpdateSg, Run!Turn
  <2> DEFINE new(sg) == IF sg.id = a.sg_id
                        THEN [id |-> sg.id, name |-> sg.name, description |-> a.description]
                        ELSE sg
  <2>2. sgs' = {new(sg) : sg \in sgs}
    BY <1>4 DEF Run!DoUpdateSg
  <2>3. \A sg : new(sg).id = sg.id /\ new(sg).name = sg.name /\ (sg.id # a.sg_id => new(sg) = sg)
    OBVIOUS
  <2> HIDE DEF new
  <2>4. \A sg \in (sgs \ sgs') \cup (sgs' \ sgs) : sg.id = a.sg_id
    BY <2>2, <2>3
  <2>5. {[id |-> sg.id, name |-> sg.name] : sg \in sgs'}
          = {[id |-> sg.id, name |-> sg.name] : sg \in sgs}
    BY <2>2, <2>3
  <2> QED
    BY <2>1, <2>4, <2>5 DEF Promise!DescribesGroup
<1>5. ASSUME NEW status, Run!DoCreateRule(a, status) PROVE Promise!MakesRule(a)
  <2>1. a.op # "CreateSg"
    BY <1>5 DEF Run!DoCreateRule, Run!Turn
  <2> QED
    BY <1>5, <2>1, MetPerform, MakesRulePromise
<1>6. ASSUME NEW status, Run!DoAttachNic(a, status) PROVE Promise!Attaches(a)
  <2>1. a.op = "AttachNic" /\ Run!Live(Run!SgIdOf(a))
    BY <1>6 DEF Run!DoAttachNic, Run!Turn
  <2>2. Promise!About(a, Run!SgIdOf(a))
    BY <2>1, AboutOwn
  <2> QED
    BY <1>6, <2>1, <2>2 DEF Run!DoAttachNic, Promise!Attaches
<1>7. ASSUME NEW status, Run!DoDeleteRule(a, status) PROVE Promise!RemovesRule(a)
  BY <1>7 DEF Run!DoDeleteRule, Run!Turn, Promise!RemovesRule
<1>8. ASSUME NEW status, Run!DoDetachNic(a, status) PROVE Promise!Detaches(a)
  BY <1>8 DEF Run!DoDetachNic, Run!Turn, Promise!Detaches
<1>9. ASSUME NEW status, Run!DoDeleteSg(a, status) PROVE Promise!RemovesGroup(a)
  BY <1>9 DEF Run!DoDeleteSg, Run!Turn, Promise!RemovesGroup
<1> QED
  BY <1>1, <1>2, <1>3, <1>4, <1>5, <1>6, <1>7, <1>8, <1>9 DEF Run!Perform

LEMMA ActPromise ==
    ASSUME SessionInv, MetInv, PerformNext
    PROVE  \E a \in todo : Promise!Act(a)
<1>1. PICK a \in todo : Run!Perform(a)
  BY DEF PerformNext
<1>2. /\ running /\ yes /\ yes' = yes /\ changes' = changes
      /\ met' = met \cup Named(sgs') /\ Named(sgs') = Promise!Named(sgs')
  BY DEF PerformNext, SessionInv, MemoryOK, Named, Promise!Named
<1>3. todo' = todo \ {a}
  BY <1>1, SamePerform, ProjectsLoaded, CloudsWellFormed, EstateHolds, TriesHold, Any!PerformRecords DEF Any!Record
<1> QED
  BY <1>1, <1>2, <1>3, PerformPromise DEF Promise!Act, Promise!cloud

LEMMA PromiseStep ==
    ASSUME SessionInv, MetInv, [Next]_vars
    PROVE  [Promise!Next]_(Promise!vars)
<1>1. CASE UNCHANGED vars
  BY <1>1, OwnerPromise
<1>2. CASE Next
  BY <1>2, OwnerPromise, BeginPromise, ExitPromise, OthersPromise, ActPromise
  DEF Next, RunStep, Preview, Evening, Finish, Kill, Promise!Next
<1> QED
  BY <1>1, <1>2

\* "--yes is the ONLY path to real writes": whatever the projects and the
\* clouds, every change the tool makes is one agreed action of the preview,
\* made at most once and within what it says; a command without --yes, and a
\* process that was killed, may change nothing.
THEOREM PromiseKept == Spec => KeepsPromise
<1>1. SessionInv /\ MetInv /\ [Next]_vars => [Promise!Next]_(Promise!vars)
  BY PromiseStep
<1> QED
  BY <1>1, InitPromise, SessionSound, MetKept, PTL DEF Spec, KeepsPromise, Promise!Spec

\* The plan is a function of its arguments alone, here as in that module.
LEMMA SamePlan == \A c, inv : Plan(c, inv) = Any!Plan(c, inv)
  BY DEF Plan, Any!Plan, PlanAbsentGroups, Any!PlanAbsentGroups, PlanGroupRow, Any!PlanGroupRow,
     PlanMembers, Any!PlanMembers, PlanRules, Any!PlanRules, PlanManagedDirection,
     Any!PlanManagedDirection, Stale, Any!Stale, RulesOf, Any!RulesOf, Wanted, Any!Wanted, SubRules,
     Any!SubRules, Identity, Any!Identity, IdentityOf, Any!IdentityOf, RemoteOf, Any!RemoteOf, SgNamed,
     Any!SgNamed, TargetId, Any!TargetId, Nic, Any!Nic, NicsByIp, Any!NicsByIp, AttachedNics,
     Any!AttachedNics, AttachedIps, Any!AttachedIps, DesiredIps, Any!DesiredIps, Direction, Any!Direction,
     CreateSg, Any!CreateSg, UpdateSg, Any!UpdateSg, CreateRule, Any!CreateRule, AttachNic, Any!AttachNic,
     DeleteRule, Any!DeleteRule, DetachNic, Any!DetachNic, DeleteSg, Any!DeleteSg

LEMMA SamePlanOfRun == \A c, inv : Run!Plan(c, inv) = Any!Plan(c, inv)
  BY DEF Run!Plan, Any!Plan, Run!PlanAbsentGroups, Any!PlanAbsentGroups, Run!PlanGroupRow, Any!PlanGroupRow,
     Run!PlanMembers, Any!PlanMembers, Run!PlanRules, Any!PlanRules, Run!PlanManagedDirection,
     Any!PlanManagedDirection, Run!Stale, Any!Stale, Run!RulesOf, Any!RulesOf, Run!Wanted, Any!Wanted, Run!SubRules,
     Any!SubRules, Run!Identity, Any!Identity, Run!IdentityOf, Any!IdentityOf, Run!RemoteOf, Any!RemoteOf, Run!SgNamed,
     Any!SgNamed, Run!TargetId, Any!TargetId, Run!Nic, Any!Nic, Run!NicsByIp, Any!NicsByIp, Run!AttachedNics,
     Any!AttachedNics, Run!AttachedIps, Any!AttachedIps, Run!DesiredIps, Any!DesiredIps, Run!Direction, Any!Direction,
     Run!CreateSg, Any!CreateSg, Run!UpdateSg, Any!UpdateSg, Run!CreateRule, Any!CreateRule, Run!AttachNic, Any!AttachNic,
     Run!DeleteRule, Any!DeleteRule, Run!DetachNic, Any!DetachNic, Run!DeleteSg, Any!DeleteSg

LEMMA SamePlannable == \A c, inv : Plannable(c, inv) = Any!Plannable(c, inv)
  BY DEF Plannable, Any!Plannable, Unresolved, Any!Unresolved, Resolves, Any!Resolves, NicsByIp,
     Any!NicsByIp, DuplicateNames, Any!DuplicateNames, WholeEstate, Any!WholeEstate

(***************************************************************************)
(* Runs among others.  A run planned from the cloud it meets starts as a   *)
(* run of module Executor does, whatever runs before it left half done,    *)
(* and goes on so until others change the cloud.                           *)
(***************************************************************************)
RerunInv == running /\ quiet /\ read = origin => Any!RunInv

LEMMA RunStarts == Any!Init => Any!RunInv
  BY ProjectsLoaded, CloudsWellFormed, EstateHolds, TriesHold, Any!RunStarts

LEMMA RunReplans == Any!RunInv => Any!ReplanIsWhatFailed
  BY ProjectsLoaded, CloudsWellFormed, EstateHolds, TriesHold, Any!RunReplans

\* The two modules say the same of the same state.
LEMMA SameReplan == Any!ReplanIsWhatFailed => Run!ReplanIsWhatFailed
<1>1. Any!Now = Run!Now /\ Any!Failures = Run!Failures /\ Any!Done = Run!Done /\ Any!Fresh = Run!Fresh
  BY DEF Any!Now, Run!Now, Any!Failures, Run!Failures, Any!Done, Run!Done, Any!Fresh, Run!Fresh
<1>2. Any!PrimaryMembers = Run!PrimaryMembers
  BY DEF Any!PrimaryMembers, Run!PrimaryMembers, Any!NicsByIp, Run!NicsByIp
<1>3. \A a : Any!Payload(a) = Run!Payload(a)
  BY Zenon DEF Any!Payload, Run!Payload
<1>4. \A a, b : Any!SameWork(a, b) = Run!SameWork(a, b)
  BY <1>3 DEF Any!SameWork, Run!SameWork
<1>5. \A g : Any!Twinned(g) = Run!Twinned(g)
  BY DEF Any!Twinned, Run!Twinned
<1> QED
  BY <1>1, <1>2, <1>4, <1>5, SamePlanOfRun DEF Any!ReplanIsWhatFailed, Run!ReplanIsWhatFailed

LEMMA BeginRerun ==
    ASSUME SessionInv, NEW source \in File \cup {"live"}, NEW confirmed \in BOOLEAN,
           BeginRun(source, confirmed), read' = origin'
    PROVE  Any!Init'
<1>1. SessionInv' /\ read' \in Clouds
  BY BeginSession
<1>2. Any!TypeOK'
  BY <1>1 DEF SessionInv
<1>3. origin' = Now /\ UNCHANGED <<code, cloud, results, created, failed_creates, repeated>>
  BY DEF BeginRun
<1>4. results' = {} /\ failed_creates' = {} /\ repeated' = {} /\ created' = [g \in GroupName |-> None]
  BY <1>3 DEF BeginRun, Between, SessionInv, MemoryOK
<1>5. sgs' = origin'.sgs /\ rules' = origin'.rules /\ attached' = origin'.attached
  BY <1>3 DEF Now, Run!Now, cloud
<1>6. todo' = Plan(code, read') /\ code' = code /\ Plannable(code, read')
  BY <1>3 DEF BeginRun, WritesNow
<1>7. Any!CanFollow(read', origin')
  BY <1>1 DEF Any!CanFollow, Clouds, WellFormed
<1>8. cached' \in Any!Listings(read'.sgs, Any!Uncached) \cup {Any!Uncached}
  <2>1. sgs = read'.sgs
    BY <1>3, <1>5 DEF cloud
  <2>2. \A groups, cache : Any!Listings(groups, cache) = Run!Listings(groups, cache)
    BY DEF Any!Listings, Run!Listings
  <2>3. Any!Uncached = Run!Uncached
    BY DEF Any!Uncached, Run!Uncached
  <2>4. cached' \in IF source = "live" THEN Run!Listings(sgs, Run!Uncached) ELSE {Run!Uncached}
    BY DEF BeginRun
  <2> QED
    BY <2>1, <2>2, <2>3, <2>4
<1>9. Plan(code, read') = Any!Plan(code, read')
  BY SamePlan
<1>10. Any!Plannable(code, read')
  BY <1>6, SamePlannable
<1> QED
  BY <1>1, <1>2, <1>4, <1>5, <1>6, <1>7, <1>8, <1>9, <1>10 DEF Any!Init, Any!TypeOK

LEMMA RerunStep ==
    ASSUME SessionInv, RerunInv, [Next]_vars, Any!Init' => Any!RunInv'
    PROVE  RerunInv'
<1> SUFFICES ASSUME running', quiet', read' = origin' PROVE Any!RunInv'
  BY DEF RerunInv
<1>1. CASE UNCHANGED vars
  <2>1. UNCHANGED Any!vars /\ UNCHANGED <<running, quiet>>
    BY <1>1 DEF vars, process, memory, cloud, Any!vars
  <2>2. Any!RunInv
    BY <2>1 DEF RerunInv, Any!vars
  <2> QED
    BY <2>1, <2>2, ProjectsLoaded, CloudsWellFormed, EstateHolds, TriesHold, Any!RunGoesOn
<1>2. ASSUME NEW source \in File \cup {"live"}, NEW confirmed \in BOOLEAN,
             BeginRun(source, confirmed)
      PROVE  Any!RunInv'
  BY <1>2, BeginRerun
<1>3. CASE PerformNext
  <2>1. PICK a \in todo : Run!Perform(a)
    BY <1>3 DEF PerformNext
  <2>2. running /\ quiet /\ read = origin
    BY <1>3, <2>1, PerformTypes DEF PerformNext
  <2>3. Any!RunInv
    BY <2>2 DEF RerunInv
  <2>4. [Any!Next]_Any!vars
    BY <2>1, SamePerform DEF Any!Next
  <2> QED
    BY <2>3, <2>4, ProjectsLoaded, CloudsWellFormed, EstateHolds, TriesHold, Any!RunGoesOn
<1>4. ~(TakeSnapshot \/ PutAside \/ Finish \/ Kill \/ OthersChange)
  <2>1. ~running => quiet
    BY DEF SessionInv, MemoryOK
  <2> QED
    BY DEF TakeSnapshot, PutAside, Finish, Kill, Exit, OthersChange, Between, process
<1>5. ~(\E f \in File : VerifySnapshot(f)) /\ ~(\E c \in Projects : EditProject(c))
  BY DEF VerifySnapshot, EditProject, Between, process
<1> QED
  BY <1>1, <1>2, <1>3, <1>4, <1>5 DEF Next, RunStep, Preview, Evening

\* Whatever killed runs, failed runs and runs from stale files left half
\* done, a run planned from the cloud it meets completes it.
THEOREM RerunsComplete == Spec => []RerunCompletes
<1>1. Init => RerunInv
  BY DEF Init, RerunInv
<1>2. SessionInv /\ RerunInv /\ [Next]_vars /\ (Any!Init' => Any!RunInv') => RerunInv'
  BY RerunStep
<1>3. RerunInv => RerunCompletes
  BY RunReplans, SameReplan DEF RerunInv, RerunCompletes, Any!ReplanIsWhatFailed, Any!Fresh,
     Run!ReplanIsWhatFailed, Run!Fresh
<1> QED
  BY <1>1, <1>2, <1>3, RunStarts, SessionSound, PTL DEF Spec

(***************************************************************************)
(* Names.  A group is made only if what the run was planned from has none  *)
(* of its name; a file that is not stale has every name the cloud has, so  *)
(* a run from it makes no second group of a name.                          *)
(***************************************************************************)
NamesIn(groups) == {sg.name : sg \in groups}

\* No two groups of a name, in the cloud or with those still to be made.
NamesApart ==
    /\ \A x, y \in sgs : x.name = y.name => x = y
    /\ running =>
         /\ \A a \in todo : a.op = "CreateSg" => a.group \notin NamesIn(sgs)
         /\ \A a, b \in todo : a.op = "CreateSg" /\ b.op = "CreateSg" /\ a.group = b.group => a = b

\* The files a run may be made from without warning.
FilesCover == ~running => \A f \in Kept \ stale : NamesIn(sgs) \subseteq NamesIn(file[f].sgs)

NamesInv == FilesCover /\ (~rash /\ ~twice => NamesApart)

LEMMA PlannedNames ==
    ASSUME NEW c, NEW inv, NEW a \in Plan(c, inv), a.op = "CreateSg"
    PROVE  a.group \notin NamesIn(inv.sgs) /\ a = CreateSg(a.group, c.description[a.group])
<1>1. a \notin PlanAbsentGroups(c, inv)
  BY AbsentCases DEF DeleteSg, DetachNic
<1>2. ASSUME NEW g \in c.groups, a \in PlanMembers(c, inv, g) PROVE FALSE
  BY <1>2, MembersCases DEF AttachNic, DetachNic
<1>3. ASSUME NEW g \in c.groups, a \in PlanRules(c, inv, g) PROVE FALSE
  <2>1. PICK d \in Direction :
          /\ <<g, d>> \in c.managed
          /\ \/ \E w \in Wanted(c, g, d) : a = CreateRule(g, TargetId(inv, g), w)
             \/ \E r \in Stale(c, inv, g, d) : a = DeleteRule(g, r.id)
    BY <1>3, RulesCases
  <2> QED
    BY <2>1 DEF CreateRule, DeleteRule
<1>4. PICK g \in c.groups : a \in PlanGroupRow(c, inv, g)
  BY <1>1, <1>2, <1>3, PlanCases
<1>5. SgNamed(inv, g) = {} /\ a = CreateSg(g, c.description[g])
  BY <1>4, GroupRowCases DEF UpdateSg
<1> QED
  BY <1>5 DEF CreateSg, SgNamed, NamesIn

\* A plan never makes two groups of a name.
LEMMA PlannedNamesApart ==
    ASSUME NEW c, NEW inv, NEW a \in Plan(c, inv), NEW b \in Plan(c, inv),
           a.op = "CreateSg", b.op = "CreateSg", a.group = b.group
    PROVE  a = b
  BY PlannedNames

\* "no drift": the file has the names the cloud has.
LEMMA VerifiedNames ==
    ASSUME SessionInv, NEW f \in Kept, Drift(f)!NoDrift
    PROVE  NamesIn(sgs) \subseteq NamesIn(file[f].sgs)
<1> SUFFICES ASSUME NEW sg \in sgs PROVE \E x \in file[f].sgs : x.name = sg.name
  BY DEF NamesIn
<1>1. f \in File /\ Now.sgs = sgs
  BY DEF Kept, Now, Run!Now
<1>2. Drift(f)!Diff(file[f], Now) = {}
  BY <1>1 DEF Drift!NoDrift, Now
<1>3. Drift(f)!Gone(file[f], Now) = {} /\ Drift(f)!New(file[f], Now) = {}
  BY <1>1, <1>2 DEF Drift!Diff
<1>4. Drift(f)!Ids(file[f]) = Drift(f)!Ids(Now)
  BY <1>1, <1>3 DEF Drift!Gone, Drift!New
<1>5. sg.id \in Drift(f)!Ids(Now)
  BY <1>1 DEF Drift!Ids
<1>6. Drift(f)!DiffGroup(file[f], Now, sg.id) = {}
  BY <1>1, <1>2, <1>4, <1>5 DEF Drift!Diff
<1>7. ~Drift(f)!GroupDiffers(Drift(f)!Group(file[f], sg.id), Drift(f)!Group(Now, sg.id))
  BY <1>1, <1>6 DEF Drift!DiffGroup
<1>8. Drift(f)!Group(file[f], sg.id).name = Drift(f)!Group(Now, sg.id).name
  BY <1>1, <1>7 DEF Drift!GroupDiffers
<1>9. \E x \in file[f].sgs : x.id = sg.id
  BY <1>1, <1>4, <1>5 DEF Drift!Ids
<1>10. Drift(f)!Group(file[f], sg.id) \in file[f].sgs
  BY <1>1, <1>9 DEF Drift!Group
<1>11. Drift(f)!Group(Now, sg.id) = sg
  <2>1. Drift(f)!Group(Now, sg.id) \in sgs /\ Drift(f)!Group(Now, sg.id).id = sg.id
    BY <1>1 DEF Drift!Group
  <2> QED
    BY <2>1 DEF SessionInv, CloudOK
<1> QED
  BY <1>8, <1>10, <1>11

\* What a step of a run does to the names.
LEMMA PerformNames ==
    ASSUME SessionInv, running, NamesApart, NEW a \in todo, Run!Perform(a), running' = running,
           \A g \in GroupName : ~Run!Twinned(g)'
    PROVE  NamesApart'
<1>1. todo' = todo \ {a}
  BY SamePerform, ProjectsLoaded, CloudsWellFormed, EstateHolds, TriesHold, Any!PerformRecords DEF Any!Record
<1>2. ASSUME NEW ids, NEW id, NEW d, Run!MakeGroups(a, ids, id, d), a.op = "CreateSg"
      PROVE  NamesApart'
  <2> DEFINE new(i) == [id |-> i, name |-> a.group, description |-> IF i = id THEN d ELSE Blank]
  <2>1. sgs' = sgs \cup {new(i) : i \in ids}
    BY <1>2 DEF Run!MakeGroups
  <2>2. \A i : new(i).name = a.group
    OBVIOUS
  <2> HIDE DEF new
  <2>3. a.group \notin NamesIn(sgs)
    BY <1>2 DEF NamesApart
  <2>4. \A i, j \in ids : i = j
    <3>1. a.group \in GroupName
      BY <1>2 DEF SessionInv, Any!TypeOK, Any!Action
    <3>2. ~\E b \in repeated' : b.op = "CreateSg" /\ b.group = a.group
      BY <3>1 DEF Run!Twinned
    <3>3. a \notin repeated'
      BY <1>2, <3>2
    <3> QED
      BY <1>2, <3>3 DEF Run!MakeGroups, Run!Remember
  <2>5. \A x, y \in sgs' : x.name = y.name => x = y
    BY <2>1, <2>2, <2>3, <2>4 DEF NamesApart, NamesIn
  <2> QED
    BY <1>1, <1>2, <2>1, <2>2, <2>5 DEF NamesApart, NamesIn
<1>3. CASE Run!CreateSgOk(a) \/ Run!CreateSgHalf(a)
  BY <1>2, <1>3 DEF Run!CreateSgOk, Run!CreateSgHalf, Run!Turn
<1>4. CASE sgs' \subseteq sgs
  BY <1>1, <1>4 DEF NamesApart, NamesIn
<1>5. ASSUME NEW status, Run!DoUpdateSg(a, status) PROVE NamesApart'
  <2> DEFINE new(sg) == IF sg.id = a.sg_id
                        THEN [id |-> sg.id, name |-> sg.name, description |-> a.description]
                        ELSE sg
  <2>1. sgs' = {new(sg) : sg \in sgs}
    BY <1>5 DEF Run!DoUpdateSg
  <2>2. \A sg : new(sg).name = sg.name
    OBVIOUS
  <2> HIDE DEF new
  <2>3. NamesIn(sgs)' = NamesIn(sgs)
    BY <2>1, <2>2 DEF NamesIn
  <2>4. \A x, y \in sgs' : x.name = y.name => x = y
    BY <2>1, <2>2 DEF NamesApart
  <2> QED
    BY <1>1, <2>3, <2>4 DEF NamesApart
<1>6. CASE Run!Skip(a) \/ Run!CreateSgFails(a) \/ Run!CreateRuleFails(a) \/ Run!CallFails(a)
  BY <1>4, <1>6 DEF Run!Skip, Run!CreateSgFails, Run!CreateRuleFails, Run!CallFails
<1>7. ASSUME NEW status,
             \/ Run!DoCreateRule(a, status) \/ Run!DoAttachNic(a, status)
             \/ Run!DoDeleteRule(a, status) \/ Run!DoDetachNic(a, status)
             \/ Run!DoDeleteSg(a, status)
      PROVE  NamesApart'
  BY <1>4, <1>7 DEF Run!DoCreateRule, Run!DoAttachNic, Run!DoDeleteRule, Run!DoDetachNic, Run!DoDeleteSg
<1> QED
  BY <1>3, <1>5, <1>6, <1>7 DEF Run!Perform

LEMMA BeginNames ==
    ASSUME SessionInv, NamesInv, NEW source \in File \cup {"live"}, NEW confirmed \in BOOLEAN,
           BeginRun(source, confirmed), ~rash', ~twice'
    PROVE  NamesApart'
<1>1. ~running /\ ~rash /\ ~twice /\ source \notin stale /\ sgs' = sgs /\ todo' = Plan(code, Reading(source))
  BY DEF BeginRun, Between, cloud
<1>2. \A x, y \in sgs : x.name = y.name => x = y
  BY <1>1 DEF NamesInv, NamesApart
<1>3. NamesIn(sgs) \subseteq NamesIn(Reading(source).sgs)
  <2>1. CASE source = "live"
    BY <2>1 DEF Reading, Now, Run!Now
  <2>2. CASE source # "live"
    BY <1>1, <2>2 DEF Reading, BeginRun, Readable, NamesInv, FilesCover
  <2> QED
    BY <2>1, <2>2
<1>4. \A a \in todo' : a.op = "CreateSg" => a.group \notin NamesIn(sgs)
  BY <1>1, <1>3, PlannedNames
<1>5. \A a, b \in todo' : a.op = "CreateSg" /\ b.op = "CreateSg" /\ a.group = b.group => a = b
  BY <1>1, PlannedNamesApart
<1> QED
  BY <1>1, <1>2, <1>4, <1>5 DEF NamesApart, NamesIn

LEMMA OwnerNames ==
    ASSUME SessionInv, NamesInv,
           \/ TakeSnapshot \/ PutAside
           \/ \E f \in File : VerifySnapshot(f)
           \/ \E c \in Projects : EditProject(c)
    PROVE  NamesInv'
<1>1. UNCHANGED <<process, cloud, day>> /\ ~running
  BY DEF TakeSnapshot, PutAside, VerifySnapshot, EditProject, Between
<1>2. (~rash /\ ~twice => NamesApart)'
  BY <1>1 DEF NamesInv, NamesApart, NamesIn, process, cloud, day
<1>3. \A f \in Kept \ stale : NamesIn(sgs) \subseteq NamesIn(file[f].sgs)
  BY <1>1 DEF NamesInv, FilesCover
<1>4. file \in [File -> Clouds \cup {NoFile, Cut}]
  BY DEF SessionInv, FilesOK
<1>5. NamesIn(sgs)' = NamesIn(sgs)
  BY <1>1 DEF NamesIn, cloud
<1>6. \A f \in Kept' \ stale' : NamesIn(sgs) \subseteq NamesIn(file'[f].sgs)
  <2>1. CASE TakeSnapshot
    <3>1. PICK inv \in {Now, Cut} : file' = [file EXCEPT !["default"] = inv]
      BY <2>1 DEF TakeSnapshot
    <3>2. stale' = stale \ {"default"} /\ Now.sgs = sgs
      BY <2>1 DEF TakeSnapshot, Now, Run!Now
    <3>3. ASSUME NEW f \in Kept' \ stale', f # "default"
          PROVE  NamesIn(sgs) \subseteq NamesIn(file'[f].sgs)
      BY <1>3, <1>4, <3>1, <3>2, <3>3 DEF Kept
    <3>4. ASSUME "default" \in Kept' PROVE file'["default"] = Now
      BY <1>4, <3>1, <3>4 DEF Kept, File
    <3> QED
      BY <3>2, <3>3, <3>4
  <2>2. CASE PutAside
    <3>1. /\ file["default"] # NoFile
          /\ file' = [file EXCEPT !["default"] = NoFile, !["other"] = file["default"]]
          /\ stale' = {"other" : f \in stale \cap {"default"}}
      BY <2>2 DEF PutAside
    <3>2. file'["other"] = file["default"] /\ file'["default"] = NoFile
      BY <1>4, <3>1 DEF File
    <3>3. ASSUME NEW f \in Kept' \ stale' PROVE f = "other" /\ "default" \in Kept \ stale
      BY <3>1, <3>2, <3>3 DEF Kept, File
    <3> QED
      BY <1>3, <3>2, <3>3
  <2>3. ASSUME NEW g \in File, VerifySnapshot(g)
        PROVE  \A f \in Kept' \ stale' : NamesIn(sgs) \subseteq NamesIn(file'[f].sgs)
    <3>1. g \in Kept /\ Drift(g)!NoDrift /\ stale' = stale \ {g} /\ file' = file
      BY <2>3 DEF VerifySnapshot
    <3>2. NamesIn(sgs) \subseteq NamesIn(file[g].sgs)
      BY <3>1, VerifiedNames
    <3> QED
      BY <1>3, <3>1, <3>2 DEF Kept
  <2>4. CASE \E c \in Projects : EditProject(c)
    BY <1>3, <2>4 DEF EditProject, Kept
  <2> QED
    BY <2>1, <2>2, <2>3, <2>4
<1> QED
  BY <1>2, <1>5, <1>6 DEF NamesInv, FilesCover

LEMMA NamesStep ==
    ASSUME SessionInv, NamesInv, [Next]_vars
    PROVE  NamesInv'
<1>1. CASE UNCHANGED vars
  BY <1>1 DEF NamesInv, NamesApart, FilesCover, NamesIn, Kept, vars, process, cloud, day
<1>2. ASSUME NEW source \in File \cup {"live"}, NEW confirmed \in BOOLEAN,
             BeginRun(source, confirmed)
      PROVE  NamesInv'
  BY <1>2, BeginNames DEF BeginRun, NamesInv, FilesCover
<1>3. CASE PerformNext
  <2>1. /\ running /\ running' /\ rash' = rash
        /\ twice' = (twice \/ \E g \in GroupName : Run!Twinned(g)')
    BY <1>3 DEF PerformNext, SessionInv, MemoryOK
  <2>2. twice \in BOOLEAN
    BY DEF SessionInv, MemoryOK
  <2>3. PICK a \in todo : Run!Perform(a)
    BY <1>3 DEF PerformNext
  <2>4. ASSUME ~rash', ~twice' PROVE NamesApart'
    <3>1. ~rash /\ ~twice /\ \A g \in GroupName : ~Run!Twinned(g)'
      BY <2>1, <2>2, <2>4
    <3> QED
      BY <2>1, <2>3, <3>1, PerformNames DEF NamesInv
  <2> QED
    BY <2>1, <2>4 DEF NamesInv, FilesCover
<1>4. CASE Finish \/ Kill
  <2>1. Kept \subseteq stale' /\ Kept' = Kept /\ rash' = rash /\ twice' = twice
        /\ sgs' = sgs /\ ~running'
    BY <1>4 DEF Finish, Kill, Exit, StaleNoteSource, SessionInv, FilesOK, Kept, day, cloud
  <2> QED
    BY <2>1 DEF NamesInv, NamesApart, FilesCover, NamesIn
<1>5. CASE OthersChange
  <2>1. stale' = Kept /\ Kept' = Kept
    BY <1>5 DEF OthersChange, Kept
  <2>2. rash' \/ (rash' = rash /\ twice' = twice /\ sgs' = sgs /\ todo' = todo /\ running' = running)
    BY <1>5 DEF OthersChange
  <2> QED
    BY <2>1, <2>2 DEF NamesInv, NamesApart, FilesCover, NamesIn
<1> QED
  BY <1>1, <1>2, <1>3, <1>4, <1>5, OwnerNames DEF Next, RunStep, Preview, Evening

LEMMA InitNames ==
    ASSUME Init, ~DuplicateNames(Now)
    PROVE  NamesInv
<1>1. CloudOK
  BY InitSession DEF SessionInv
<1>2. \A x, y \in sgs : x.name = y.name => x = y
  BY <1>1 DEF DuplicateNames, Now, Run!Now, CloudOK
<1> QED
  BY <1>2 DEF Init, NamesInv, NamesApart, FilesCover, Kept

\* On a cloud that begins the day without two groups of a name, they come
\* only from a create sent again after it had taken effect (_run), from a
\* renaming by others, or from a run on a file that was stale: by what the
\* owner was told, or by what happened where the tool does not tell.
THEOREM DuplicatesAreForewarned ==
    Spec /\ ~DuplicateNames(Now) => []DuplicatesForewarned
<1>1. Init /\ ~DuplicateNames(Now) => NamesInv
  BY InitNames
<1>2. SessionInv /\ NamesInv /\ [Next]_vars => NamesInv'
  BY NamesStep
<1>3. NamesInv => DuplicatesForewarned
  BY DEF NamesInv, NamesApart, DuplicatesForewarned, DuplicateNames, Now, Run!Now
<1> QED
  BY <1>1, <1>2, <1>3, SessionSound, PTL DEF Spec
=============================================================================
