# hcs-sg: a TLA+ verification project

hcs-sg keeps the security groups of a Huawei Cloud Stack project as code. A
directory of YAML files says what is wanted; the tool reads the cloud, plans
the difference, and applies it. This directory holds TLA+ models of that
program, the TLC configurations that check them on small instances, and
theorems proved with TLAPS for every value of the constants: every safety property
that a run checks and finds to hold, and that a day of commands implements
what the tool promises.

Paths below are relative to `src/hcs_sg_iac/`.

## 1. The system

### Parts, their state and their operations

| Part | Source | State | Operations |
|---|---|---|---|
| Entities | `entities.py` | none (values) | parse group, rule, ports, remote; `Rule.identity` |
| Observation | `snapshot.py` | `snapshot.json` | `CloudRule.identity`, to and from JSON |
| Loader and dumper | `adapters/yaml_config.py` | `security-groups/<group>/{group,ingress,egress}.yaml` | `load_project`, `dump_*`, `import_snapshot` |
| Plan engine | `engine.py` | none (pure) | `resolve_memberships`, `plan` |
| Executor | `engine.py` | results, created ids, failed creates | `execute` |
| Drift | `engine.py` | none (pure) | `diff_inventory` |
| Gateway | `adapters/huawei_gateway.py`, `contracts.py` | name to id cache, call trail | `inventory`, seven writes |
| Command line | `cli/main.py` | the files of the project | `plan`, `apply [--yes]`, `snapshot`, `drift`, `import [--force]` |
| Rendering | `cli/render.py` | none | tables, JSON |

### How they interact

`plan` and `apply` load the project, take an inventory (from `snapshot.json`
if there is one, else by one live reading), resolve the member addresses to
NICs, and plan. `apply --yes` hands the plan to `execute`, which calls the
gateway action by action. `snapshot` writes a live reading to `snapshot.json`;
`drift` compares that file with a new reading; `import` turns it into a
project directory, which the next `plan` loads. So two files outlive a
command, `snapshot.json` and the project, and both can be older than the cloud
they are used against; the cloud itself is also changed by others.

### What is hard

- **Executor.** Every call can fail before or after its effect, and the run
  goes on. A create is two calls, and its id is known to the run only when both
  succeed; what depends on that id must be skipped, not sent blank or dropped.
  The order of the kinds is all that keeps access from being cut meanwhile.
- **Plan.** Rules of the two sides meet through an identity that goes through
  group names, canonical CIDRs, unset remotes and one sub-rule per port range.
  A wrong match deletes live access, or creates the same rule on every run. The
  plan may be made from a stale file.
- **Import.** Reads the same cloud rules as the plan with other code, writes
  file after file, and may stop at any of them.
- **Drift.** Must say "no drift" exactly when the snapshot is still good to
  plan from.
- **Ports.** The canonical form must be unique and must survive the way to the
  cloud and back, or the plan never becomes empty.
- **Gateway.** Retries of calls that may have taken effect; a read and a write
  that are not one step; listings that take several calls.
- **Loader.** A directory or file that is overlooked is not an omission but an
  order: a group without directory is deleted, a file that is not there leaves its
  direction alone, one that holds `[]` empties it.
- **A day's work.** The snapshot file is used without being asked for and is never
  updated; runs are killed half-way; others change the cloud meanwhile.

What would go wrong in each, line by line, is the list `hazards` in
`PROJECT.json`, with the properties that watch it.

## 2. The modules

| Module | Models | Extends |
|---|---|---|
| `Estate` | what code wants, what a reading has, rule identity | |
| `Planner` | refusals and `plan` as a set of actions | `Estate` |
| `Executor` | one run of `apply --yes` | `Planner` |
| `Gateway` | the requests below each gateway call | `Estate` |
| `Session` | commands in sequence, files, kills, others at work | `Planner`; instantiates `Executor`, `Drift`, `Consent` |
| `Consent` | what the tool promises: the abstract specification of `Session` | `Planner` |
| `Loader` | `load_project`, document by document | `Estate` |
| `Import` | `import`, the files on disk, the plan that follows | `Planner` |
| `Drift` | `snapshot`, `drift`, changes by others | `Planner` |
| `Ports` | `parse_ports`, `_merge`, sub-rules on the wire and back | |
| `PlannerProofs` | theorems, and the lemmas about plans the others use | `Planner` |
| `ExecutorProofs`, `DriftProofs`, `ImportProofs` | theorems | the module they are about and `PlannerProofs` |
| `SessionProofs` | theorems | `Session` and `PlannerProofs`; instantiates `ExecutorProofs` |
| `GatewayProofs`, `LoaderProofs`, `PortsProofs` | theorems | the module they are about |
| `MCClouds` | small clouds and projects the checks share | `Estate` |
| `MCExecutor`, `MCGateway`, `MCSession`, `MCLoader`, `MCImport`, `MCDrift`, `MCPorts` | instances for TLC | |

**Estate.** The nouns. A desired state is a record of groups, descriptions,
members, managed directions and rules; an inventory is a record of groups,
rules, memberships and NICs. Names, ids, addresses and CIDRs are opaque. A
*service* is a protocol with at most one port range: what one cloud rule
carries. `Loaded` is what `load_project` lets through, `WellFormed` what one
reading guarantees. `RemoteOf` and `IdentityOf` translate `CloudRule.identity`:
a remote group by its name, or by its bare id if the reading does not list it; a
v4 prefix by its canonical form; no remote as 0.0.0.0/0; another prefix as
itself.

**Planner.** One operator per function of the plan engine: `PlanGroupRow`,
`PlanMembers`, `PlanManagedDirection`, `PlanRules`, `PlanAbsentGroups`, `Plan`,
and the refusals `Unresolved`, `DuplicateNames`, `WholeEstate`. The action list
is a set. The code's list has no repetitions, and `execute` sorts it by kind;
within a kind the models try every order, which includes the code's.

**Executor.** `code` is the project, `read` the inventory the plan is made from,
`origin` the cloud as the run finds it (`read` itself, or a later cloud when the
plan comes from a file). `sgs`, `rules`, `attached` are the live cloud. `todo`
and `results` are the loop, `created` and `failed_creates` its two local
collections, `cached` the gateway's name to id cache, `repeated` a history of the
creates that took effect several times. One action per payload
kind and outcome: `CreateSgOk`, `CreateSgHalf` (the group exists, the run does
not know its id), `CreateSgFails`, `Do...(a, status)` for a call that takes
effect and returns or raises all the same, `CreateRuleFails` and `CallFails` for
calls without effect, `Skip` for the dependents of a failed create. A create whose
tries are answered by an APIGW error after their effect is sent again (`_run`), so a
create makes as many groups or rules (`Copies`, `MakeGroups`) as tries took effect,
whether it ends well or not; of several groups the run knows one. `Listings` is what a
listing can leave in the cache, a listing that failed half-way included. The cloud
refuses what it would refuse: a call on a group that is not there, the delete
of a group that still has ports. It adds its self rules to every new group.

**Gateway.** `call` is the operation under way, `request` the SDK request it waits
for, `tries` what is left of the throttle policy, `out` the reading collected so
far, `cached` the name to id cache, `history` every cloud there was. `Answered`
continues the code with a reply (`GroupsPage`, `PortsPage`, `NamesPage`, `PortGot`,
`GroupMade`, or the end of the call); `Throttled` and `ThrottledLate` are an APIGW
error before and after the effect, both of which `_run` retries; `Refused` and
`AnswerLost` are any other error. `OthersChange` may come between any two requests.
`Executor` has the same operations as one step each, with the outcomes *ok*,
*failed without effect*, *failed with effect*, and for creates the number of tries
that took effect; what is below that is this module's subject.

**Session.** The variables of `Executor`, which is instantiated for the run being
made (`PerformNext` is a step of it), and around them the files (`file`: the
default snapshot.json, and one `--snapshot` names), the command's `--yes`, and
history variables for the properties: `stale`, `quiet`, `rash`, `twice` (a run's create
made a group several times) and `met` (the names and ids groups have had since the run
began). `VerifySnapshot` is the
drift command (`Drift`'s `NoDrift`) between a file and the cloud. `Preview` is a plan,
a dry run or a refusal; `BeginRun` the plan of `apply --yes`; `Finish` the end of the
run with its note; `Kill` a process that dies between two actions. A process leaves
nothing of its memory (`Exit`).

**Consent.** `agreed` is what the owner said yes to and is not done yet, `own` the
groups made on the way. `Act(a)` performs one agreed action within what its preview
line says, or fails, with or without effect, and uses it up: a create makes groups of
its name, or rules of its direction, service and remote, one for each try that took
effect; a remote group of a rule is one that has had the name since the owner agreed
(`met`). `Session` maps `todo` to `agreed` and the created ids to `own`.

**Loader.** `tree` is what is in security-groups/, `left` the entries not looked at,
`loaded` the desired state so far, `errors` the report. `SkipEntry`, `RefuseEntry`
and `LoadEntry` are the ways one turn of the loop can end, `Conclude` the check across
files and the verdict. Documents are what `yaml.safe_load` returns: absent,
unreadable, null, of the wrong type, or with fields that may each be bad.

**Import.** `disk` maps each of a group's three files to what it says, `dirs` is
the set of group directories, `before` is the disk as the import found it, and
`pending` the files still to be written. `WriteFile` writes the one whose `Turn` it
is, the first in path order; `Stop` ends the command before
the directory, after it, or with the file cut short (unreadable, or readable with
a part of its content). `TakeSnapshot` and `Discard` are what the user does
between imports. `Loadable` and `Code` are `load_project` on that disk.

**Drift.** `taken` is the snapshot file, `live` the cloud. `Snapshot` copies one
to the other; eight actions of others change the cloud. `Diff` is
`diff_inventory`, entry by entry.

**Ports.** `MergeNext` is one turn of the loop of `_merge` after its sort,
`Settle` what `parse_ports` makes of the merged list (the 1-65535 case, the cap),
`PlanRules`, `CreateRule` and `ReadRaises` the way of its sub-rules to the cloud and
back (`_sub_rules`, `create_rule`, `_to_cloud_rule`), `OthersCreate` a rule made by
someone else, of either IP version.

The map from each definition to its lines is `map` in `PROJECT.json`. The
operators marked `A slip:` are plausible mistakes in the code, one for each
property; the property fails when the slip takes the place of the definition
below it.

### Abstractions

- Names, ids, addresses, CIDRs and descriptions are opaque values; a spelling
  matters only through `Canonical`. An all-protocol rule carries no ports.
- When two groups have one name, the cache may get the id of either (`Listings`); the
  code takes the last listed, and the order of a listing is the cloud's.
- In `Import` a file cut short is either unreadable or has whole items missing; in
  `Session` a snapshot cut short is never readable, since JSON is not.
- In `Executor` and `Session` a gateway call is one step, with an effect or without;
  in `Session` a live reading is one step too. `Gateway` takes both apart.
- A server gives pages as long as asked for (`_SG_PAGE`, `_PORT_PAGE`): one that caps
  them lower would end the code's listings early.
- NICs do not change during a run or a day.
- The clouds `Drift` begins with list the group of every membership (`Listed`), as
  a cloud does at one moment. A reading torn between the two listings can break it
  (`Gateway`, *ReadingIsOfItsTime*).
- In `Loader` the ports of a rule are parsed already (`Ports`), and addresses are
  compared in their canonical spelling.

## 3. The checks

| Run | Question | States | Outcome |
|---|---|---|---|
| `executor` | four projects on five clouds, fresh and stale readings, every failure | 433 000 | pass |
| `executor_secondary` | does a run without failures attach what is listed? | | violated |
| `executor_self_rule` | is a coded self-reference matched? | | violated |
| `gateway` | two calls, request by request, with every error and a change by others | 239 000 | pass |
| `session` | days of two runs, killed or not, and of everything in between | 618 000 | pass |
| `loader` | every fault in one directory, beside right and faulty ones | 5 600 | pass |
| `import` | imports of seven snapshots over empty and hand-written projects, stopped and repeated | 429 000 | pass |
| `import_skipped` | is a skipped group left alone? | | violated |
| `drift` | three changes, snapshots between them | 115 000 | pass |
| `drift_addresses` | does "no drift" mean the same plan? | | violated |
| `ports` | lists of up to three ranges, merged, sent and read back | 164 000 | pass |
| `ports_version` | is a coded rule matched by IPv4 rules only? | | violated |

### What the passing runs show

- *ReplanIsWhatFailed*: after a run planned from the cloud it met, planning again
  finds only the work of actions reported as failed, and nothing if none failed.
  This is where plan, identity, sub-rules and execution have to agree. Set apart are
  members listed by an address that is not their NIC's first (difference 1 below) and
  groups a create made several times (there is no next plan then).
- *CutOver*, *NeverBare*: during the run, a managed direction loses no rule
  before everything wanted there is live or reported as failed, and no listed NIC
  that had a group is without one.
- *BlankIdNeverSent*, *OneResultPerAction*: failed creates leave no call with a
  blank id and no action without a result.
- *OneSgPerName*: a run planned from the cloud it meets makes two groups of one name
  exactly when an APIGW error came after the effect of the create, which `_run` then
  sent again. However a create fails otherwise, nothing of the run doubles a name; and
  when it happened, the run does not mend it.
- *RemovalsJustified*, *AdditionsWanted*: step by step and also with a stale
  reading, what is removed was read as unwanted, and what is added is asked for by
  that very group: a rule with its direction, service and remote, the remote group
  being one of that name.
- *ClearsHonest*: the warning before a direction is stripped is given exactly
  when it will be.
- *ReadingWellFormed*, *ReadingIsOfItsTime*: a reading put together from pages of
  two listings, while the cloud changes, still has what `WellFormed` says; what it
  lists was so at some moment of the call, and what was there all the time is listed.
- *OkMeansDone*: a call that returns has had its effect, whatever was retried, unless
  others undid it. *GroupsMadeByRetries*: a create makes more than one group only
  after an APIGW error that came late, and then one more for each.
- *OthersMembershipsKept*: attach and detach change no other membership, except to
  undo what others did to that port since the call began (a lost update the code
  cannot avoid, as it writes the whole list back).
- *CallsEnd*: every call ends.
- *KeepsPromise*: a day implements `Consent`. The cloud changes by the tool only in a
  run begun with `--yes`, by an action of its plan, once (a create: once for each try
  that took effect), and within what it says, down to the remote group of a rule;
  after a kill, nothing more.
- *RerunCompletes*: whatever earlier runs left half done, a run planned from the cloud
  it meets completes it, but for what it reports as failed.
- *DuplicatesForewarned*: two groups of one name come only from a create sent again
  after it took effect, from others, or from a run on a file the tool called stale, or
  that is stale without the tool telling (left behind by a killed run, by a run from
  elsewhere, by others; see the end of this section); and a file that `drift` says matches
  the cloud is as good as a new one.
- *AcceptedIsTheTree*, *AcceptedIsLoaded*, *FaultsTold*: a tree is accepted exactly
  when nothing in it is wrong, in whatever order it is read; then no directory, file,
  rule or member is overlooked, and the planner's assumptions hold; else every
  directory that is no group and every faulty rule of the others is reported.
- *ImportLoads*, *NothingToAdd*, *OnlyNotedRulesGo*, *OnlyV6MembersGo*,
  *FoundFilesKept*: imported projects load, their members resolve (unless two NICs
  have one address), they add nothing, lose only rules a note was
  made for and members without an IPv4 first address, also when import was stopped; no
  file is overwritten without `--force`. A group that a stopped import did not reach,
  and what a file cut short lost, the next plan removes; the code keeps no record of
  it, and no property says otherwise.
- *NoDriftSamePlan*, *OneEntryPerChange*: with the NICs' addresses unchanged, no
  drift means the same plan whichever way the cloud is read, for every project;
  one change is one entry, undone it is none.
- *MergeKeepsUnion*, *CanonicalIsUnique*, *Converges*: the merge loses and gains
  no port at any step, two spellings of the same ports come to the same list, and
  what is sent is what is read back, so that planning again comes to an end. Only a rule
  of others that claims ports and has none may stop the reading; bounds that are an ICMP
  type and code, one bound or none may not.

### Bounds, and why they are enough

- *MCClouds*: three group names (one that no directory can have), three existing
  ids and two for new groups, four rules and three fresh ids, three NICs (one
  whose first address is IPv6). That is enough for a group to be created while
  another is updated and a third deleted, for a NIC to move between groups, for a
  rule to be matched under another spelling, through a group name, or not at all,
  and for a run to meet a cloud where a name has another id. No project needs more
  than two new groups or three new rules, so fresh ids never run out.
- `MaxTries = 2`, `MaxRepeated = 1`: a create takes effect once or twice, and one
  create of a run does so twice; which one, and at what moment, is left open. Two such
  creates double two names independently.
- Ids no cloud or project mentions are interchangeable (`Symmetry`, in `executor` and
  `session`, which check no liveness; the counterexamples go without).
- `MaxChanges = 3`: enough to change, change back and change again; a snapshot may
  be taken after any of them.
- `MaxPort = 6`, `MaxEntries = 2` stand for 65535 and 20: three ranges over six
  ports can touch, nest, overlap, leave a gap, fill everything, or exceed the cap.
- Import repeats without bound: there are finitely many disks.
- `Gateway`: pages of two over a cloud of two groups and two ports, to which calls and
  others add, so that a listing ends in a short page, or in a full one and an empty one; two tries stand for six;
  two calls, so that the second meets the cache of the first; one change by others.
- `Session`: two runs, since each property is about what one run leaves to the next;
  one change by others; a project that keeps a group (describes it, replaces its
  rule) and one that puts another in its place. The owner stops with the last run
  (`Evening`).
- `Loader`: lists of up to three rules, two directories that can be right and two
  that cannot; faults of different directories do not meet except through remotes.

Deadlock is checked in every run: a run that is over stutters (`Finished`), and
users and others can always do something.

### Fairness

- `Gateway`: `WF_vars(Step)`. A request ends in an answer or an error (the SDK has
  timeouts), and the code goes on from it. Which of them it is, is left open.
- `Ports`: `WF_vars(Command)`. The merge is a loop, and the plan is applied again
  until it is empty, with calls that return. What others do is not fair.
- `Executor`, `Session`, `Import`, `Drift`, `Loader`: none, and no liveness property.

### Where the code and its documents differ

Each of these has a run that ends in a counterexample, and an entry in
`findings`:

1. A member listed by a NIC's second address is planned as an attach and as a
   detach of the same NIC, and the detach runs last (`executor_secondary`).
2. The self rule of a group the run creates is not matched by a coded
   self-reference (`executor_self_rule`).
3. The plan after an import deletes the groups the import skipped
   (`import_skipped`).
4. Drift does not look at NIC addresses, on which plans depend
   (`drift_addresses`).
5. The gateway does not read a rule's IP version, so an IPv6 rule without a remote
   takes the place of the coded IPv4 rule from anywhere (`ports_version`).

Seen while modelling, without a run:

- The note on a duplicate rule in an import announces a deletion the plan does not
  make (`adapters/yaml_config.py:340`).
- Import leaves out a member whose first address is not IPv4 and makes no note
  (`adapters/yaml_config.py:284`; the section promises notes).
- Drift compares by id but names groups in member entries (`engine.py:650`), so the
  entries of two groups of one name read alike.
- "Collects EVERY violation (never fail-fast)" (`entities.py:24`): a rule tells its
  first fault only, and the rule files of a directory with a faulty group.yaml are
  not looked at. *FaultsTold* says what is collected.
- The staleness note names the file a run was planned from, and no other
  (`cli/main.py:226`): a run with `--snapshot` leaves snapshot.json, which plan and apply
  use without being asked to, behind the cloud without a word.
- A rule in the cloud with two bounds that are no ports (port zero, or an ICMP type and
  code under the protocol's number) ends every command that reads the cloud with
  `PortError`, which is no `CloudError` (`adapters/huawei_gateway.py:385`).
- `apply --yes` twice from one snapshot.json makes each new group twice. The staleness
  note tells of that file; a killed run prints none.
- A create that took effect before an APIGW error is retried and makes a second group
  (`adapters/huawei_gateway.py:157`), after which no plan is possible.

## 4. The proofs

TLAPS checks the eight proof modules from the named assumptions of the modules
they are about, and from nothing else. TLC evaluates each assumption on every
run of its module.

| Assumption | Says |
|---|---|
| `EstateAssumption` | group names are names; ids of the kinds are apart; canonical CIDRs are canonical |
| `ExecutorAssumption`, `DriftAssumption`, `SessionAssumption`, `ImportAssumption` | projects are `Loaded` and first clouds `WellFormed`; directories have an order; no file that is missing or cut short is an inventory; a request is tried at least once |
| `TextAssumption` (Import) | what import writes is not mistaken for a missing or an unreadable file |
| `LoaderAssumption` | documents are what `yaml.safe_load` returns, and the marks for its faults are no values of a document |
| `GatewayAssumption` | calls are the operations of the gateway; the cloud lists its finitely many ids in one order (`Position`); pages and tries are positive |
| `PortsAssumption` | bounds are positive, port lists finite, the protocols are among those of the wire |

That projects are `Loaded` and readings `WellFormed` is not left at that:
`AcceptedProjectIsLoaded` proves the one of the loader, `ReadingsAreWellFormed` the other
of the gateway.

| Module | Theorem | Says, for all constants |
|---|---|---|
| `PlannerProofs` | `PlanType` | a plan of a loaded project against a well-formed reading that resolves is well typed |
| `ExecutorProofs` | `TypeCorrect` | `Spec => []TypeOK` |
| | `OneResult` | `Spec => []OneResultPerAction` |
| | `NoBlankId` | `Spec => []BlankIdNeverSent` |
| | `UniqueNames` | `Spec => []OneSgPerName` |
| | `RemovalsAreJustified` | `Spec => RemovalsJustified` |
| | `AdditionsAreWanted` | `Spec => AdditionsWanted` |
| | `NeverLeftBare` | `Spec => []NeverBare` |
| | `CutOverHolds` | `Spec => []CutOver` |
| | `ClearsAreHonest` | `Spec => []ClearsHonest` |
| | `ReplanFindsFailures` | `Spec => []ReplanIsWhatFailed` |
| `SessionProofs` | `TypeCorrect` | `Spec => []TypeOK` |
| | `PromiseKept` | `Spec => KeepsPromise`: `Session` implements `Consent` |
| | `RerunsComplete` | `Spec => []RerunCompletes` |
| | `DuplicatesAreForewarned` | `Spec /\ ~DuplicateNames(Now) => []DuplicatesForewarned` |
| `GatewayProofs` | `TypeCorrect` | `Spec => []TypeOK` |
| | `ReadingsAreWellFormed` | `Spec => []ReadingWellFormed` |
| | `ReadingsAreOfTheirTime` | `Spec => []ReadingIsOfItsTime` |
| | `OkIsDone` | `Spec => []OkMeansDone` |
| | `RetriesMakeNoTwin` | `Spec => []GroupsMadeByRetries` |
| | `OthersMembershipsAreKept` | `Spec => OthersMembershipsKept` |
| `LoaderProofs` | `TypeCorrect` | `Spec => []TypeOK` |
| | `AcceptedProjectIsLoaded` | `Spec => []AcceptedIsLoaded` |
| | `AcceptedProjectIsTheTree` | `Spec => []AcceptedIsTheTree` |
| | `EveryFaultIsTold` | `Spec => []FaultsTold` |
| `ImportProofs` | `TypeCorrect` | `Spec => []TypeOK` |
| | `FilesFoundAreKept` | `Spec => []FoundFilesKept` |
| | `ImportedProjectLoads` | `Spec => []ImportLoads` |
| | `NothingIsAdded` | `Spec => []NothingToAdd` |
| | `OnlyUnnameableMembersGo` | `Spec => []OnlyV6MembersGo` |
| | `NoRuleGoesUnnoted` | `Spec => []OnlyNotedRulesGo` |
| `DriftProofs` | `TypeCorrect` | `Spec => []TypeOK` |
| | `NoDriftPlansTheSame` | `Spec => []NoDriftSamePlan` |
| | `OneEntryForOneChange` | `Spec => OneEntryPerChange` |
| `PortsProofs` | `TypeCorrect` | `Spec => []TypeOK` |
| | `UnionKept` | `Spec => []MergeKeepsUnion` |
| | `OneCanonicalForm` | `Spec => []CanonicalIsUnique` |

**Executor, one step.** The argument goes in layers, each invariant resting on the
ones before:

1. `StartInv`: project, reading and origin are what the run began with, and `todo`
   is part of `Plan(code, read)`. So each action in hand has the shape, and the
   justification, the plan gave it.
2. `TypeOK` with `OneResultPerAction`: `Record` moves an action from `todo` to
   `results`, once.
3. `BlankInv`: for each rule or member action still to do, its group has a known
   id, or its create failed, or its `CreateSg` is still to do. The order of the
   kinds rules out the last when the action's turn comes; `BlankIdNeverSent` is not
   inductive without it.
4. `NameInv`: in a run planned from the cloud it met, a name is there twice only if
   its create was repeated; each `CreateSg` still to do finds its name free and has not
   been repeated; and the twins a repeated create made are new, so no `DeleteSg` of the
   plan, whose ids are those read, takes them away. The last part is what makes
   *OneSgPerName* an equality.
5. `RuleInv`: a live rule with an id the reading knew is the rule that was read,
   since fresh ids avoid the reading's. Without it a stale plan's `DeleteRule`
   could be about another rule.
6. `CacheInv`: while a rule is still to be made, every id in the cache is one that a
   group of that name has, in the reading or in the cloud. It is kept because a
   listing, cut short or not, and a create write only such ids (`CacheChange`), and
   because groups go only after the last rule was made. *AdditionsWanted* needs it for
   the remote.

**Executor, where a run ends.** These are about a run planned from the cloud it
meets (`Fresh`). An action is *owed* while it is to do or was reported as failed.

1. `AdditionsFirst`: while an addition waits, all the run found is still there. This
   is the order of the kinds, said of states.
2. `IdsInv`: ids stand for one group each; groups keep their names; a declared group
   of the reading is there; `created` tells the truth.
3. `BareInv`, `CutInv`: each listed member is attached, each wanted rule has one that
   stands for it and that the plan spares, or the action for it is owed. With
   `AdditionsFirst` they give *NeverBare* and *CutOver*: when something goes, nothing
   is owed but what failed.
4. `OkInv`: what an action with result "ok" removed is gone, to the end. `LostInv`: a
   rule of the reading that is gone was stale, or of a group without directory.
   *ClearsHonest* compares these two.
5. `GroupsInv`: each declared group exists with its description, or that is owed, or
   its create was repeated (`Twinned`).
   `AddedInv`: what is live and was not read is a self rule or stands for something
   wanted. Then *ReplanIsWhatFailed*: each kind of action of a second plan needs a
   lack or a surplus that these invariants rule out unless an action of the first
   plan is owed, and at the end only failures are owed.

The difficulty is that the two plans see different inventories, so a rule's identity
is not the same in both (a group name may only now resolve). `StandsFor` speaks of
live ids instead, and is shown to mean the same to each plan.

**Session.** `SessionInv` is types: the cloud, every reading and every file a
command can read are well formed (`CloudOK`, `MemoryOK`, `FilesOK`), `todo` is part of
a plan while a run lasts, and nothing is left of a process that is gone. Under it,
each step of `Session` is mapped to a step of `Consent` or to a stutter
(`PromiseStep`): `Perform` to `Act`, action by action; the commands to what they let
the owner agree to. That a rule's remote group is one the owner could mean needs
`MetInv`: during a run every name in the cache has an id that `met` knows for it, and
so has every live group.

For *RerunCompletes* the invariants of a run are used again. `Any` instantiates
`ExecutorProofs` with all well-formed clouds in the place of its `Estates`, since a
run may meet whatever earlier runs left; `RerunInv` says that a run undisturbed and
planned from the cloud it met satisfies `RunInv`, the conjunction of the above.

*DuplicatesForewarned* needs `NamesInv`: a file that is not stale has every name the
cloud has (`FilesCover`), and no name is there twice, or there and still to be made
(`NamesApart`), unless something rash was done or a create was repeated. The hypothesis
`~DuplicateNames(Now)` is about the first state: a cloud that begins the day with
duplicates has them without warning. The run's clouds have none.

**Gateway.** `HistoryOK` says what a cloud never does: an id that named one rule or NIC
never names another. `Fits` says what the request under way may be, given the call:
the stack of the code, since only the request is a variable. `CacheTrue` says that a cached id
once had that name. For listings, `Whole` says that what was there all the
time and lies up to the marker is collected; a page is all between its marker and its
last entry, and if it is short it is the rest (`PageIs`), so the induction is over
pages. `OfItsTime` is *ReadingIsOfItsTime* of an unfinished reading. `MadeOK` counts
groups made against late errors, with one in hand while the first request is under
way. *OkMeansDone* is inductive with these. `OthersMembershipsKept` rests on `FitsPort`:
the list an update carries was computed from the port as it was at some moment of the
call.

**Loader.** `LoaderInv` says that the state is a function of the entries read so far:
`loaded` is what those without error say, `errors` what all of them have been told.
The order of the loop drops out, and when nothing is left it is about the whole tree.
What remains are lemmas about one document: it is found at fault exactly when it has a
fault (`GroupErrorsAreFaults`, `RuleFaultIsAFault`, `RuleErrorsAreFaults`), first faults and
duplicates within a list included.

**Import.** `ReachedOK`: up to where the import has come, every file says what it is to
say; `FoundOK`: without `--force` no file that was there is touched, nor pending;
`InDirectories`: files are in directories. With them, the disk after an import into
an empty project is `ImportText`, file by file, and the rest is the agreement of two
readings of the same cloud: which groups, members and rules `import_snapshot` keeps, and
what `plan` finds of them. A rule the plan deletes was read under an identity no
coded rule has; the import made a note of each such rule, or was stopped in that
very file.

**Drift.** `WFInv` says that both readings are well formed; each of the eight
changes keeps it. If the diff of two well-formed readings is empty they list the
same ids, and group by group the same fields, rules and members. `SameReading` is
what the plan engine looks at, so with equal addresses the refusals and the plan
are equal (`SamePlans`, one lemma per function of the planner). For single changes
the converse is needed, no drift means nothing differs: `ListedInv` adds that every
membership is in a listed group, since `diff_inventory` looks at no other. Then
each change adds exactly the one entry of its own group and kind.

**Ports.** `LoopInv` is `MergeKeepsUnion` with what the parse established first. Its
last conjunct, that what is still to come starts at or after every merged range, is
what makes a range either join the last one or leave a gap behind it.
`SettledInv` carries the gap and the union over to the parsed list. A gapped list
is the set of longest runs of its ports (`GappedIsRuns`), each of them once
(`GappedCount`, by a bijection), so its length is their number and the cap and the
1-65535 case are decided on the runs alone.

**Only model-checked.** *CallsEnd* and *Converges* are liveness under
fairness, which is beyond the prover and stays with TLC. No operator is recursive:
loops of the code are steps of a state machine, and what they compute is proved by
an invariant, so no theorem needs induction over data. The properties of the five
violation runs are false and have no theorem.

## 5. Not modelled

- Rendering (`cli/render.py`): formatting of results.
- Configuration, credentials, logging, SDK construction, exit codes.
- The NOT MANAGED and overlap lists of a plan: display only.
- The text of errors, notes and of snapshot.json (its fields are those of `Inventory`;
  reading it back is the identity on them).
- A second instance of the tool on the same project directory; one on the same cloud
  is among the others of `Session`.

## 6. Plan

Done: every module with its runs, and the theorems of section 4. What is left is to
join the modules by proof where now they are joined by reading:

1. `Gateway` carries out the contract of `Executor`: each call of `Gateway`, with no
   others about, ends in one of the outcomes `Executor` gives the call of its kind, with
   the groups and rules that late APIGW errors add.
2. `Loadable` and `Code` of `Import` are what `Loader` makes of the same disk.
3. The set of sub-rules `Planner` takes from a coded rule is the list `Ports` sends.
4. `SkippedUnmanaged` and the other counterexamples, as theorems that say exactly
   when the documents are right (which groups are skipped, which members have a
   second address).
