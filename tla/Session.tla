------------------------------ MODULE Session ------------------------------
(***************************************************************************)
(* A working day with hcs-sg (cli/main.py): plan and apply, with and       *)
(* without --yes, from a snapshot file or a live reading; snapshot; drift; *)
(* projects edited and files put aside in between; runs killed;            *)
(* others at work on the same cloud at any time, during a run too.         *)
(*                                                                         *)
(* A run is that of module Executor, from its plan to its last action.     *)
(***************************************************************************)
EXTENDS Naturals, Planner

CONSTANTS
    Projects,   \* project directories load_project accepts
    Estates,    \* the cloud when the day begins
    NoFile,     \* there is no such file
    Cut,        \* a file the write of which was cut short
    MaxTries,   \* throttle_tries
    MaxRepeated,\* bound: creates of a run that take effect several times
    MaxRuns,    \* bound: runs begun; the last one ends the day
    MaxChanges  \* bound: changes others make

ASSUME SessionAssumption ==
    /\ MaxTries \in Nat \ {0} /\ MaxRepeated \in Nat
    /\ MaxRuns \in Nat /\ MaxChanges \in Nat
    /\ NoFile \notin Inventory /\ Cut \notin Inventory
    /\ \A c \in Projects : Loaded(c)
    /\ \A e \in Estates : WellFormed(e)

VARIABLES
    \* those of Executor: the project, and the run being made
    code, read, origin, sgs, rules, attached, todo, results, created,
    failed_creates, cached, repeated,
    running,  \* a run is being made
    yes,      \* the command being run has --yes
    from,     \* where its reading came from
    file,     \* what the snapshot files hold
    stale,    \* files the owner was told are stale; or knows to be, where the
              \* tool does not tell: after a killed run, a run from elsewhere,
              \* a change others made
    quiet,    \* others have changed nothing since the run began
    met,      \* names and ids of the groups there have been during the run
    twice,    \* a run's create of a group took effect several times (history)
    rash,     \* a run began from a stale file, or others renamed a group
    runs,     \* runs begun
    changes   \* changes others made

memory == <<results, created, failed_creates, cached, repeated>>
process == <<read, origin, todo, memory, running, yes, from, quiet, met>>
cloud == <<sgs, rules, attached>>
day == <<twice, rash, runs, changes>>
vars == <<code, process, cloud, file, stale, day>>

Run == INSTANCE Executor

\* The drift command, between a file and the cloud.
Drift(f) ==
    INSTANCE Drift WITH
        taken <- file[f], live <- Run!Now, FirstClouds <- Estates,
        Groups <- {}, Rules <- {}, Addresses <- {}

\* "default" is snapshot.json of the project, "other" one named by --snapshot.
File == {"default", "other"}
Now == Run!Now
Kept == {f \in File : file[f] \notin {NoFile, Cut}}

TypeOK ==
    /\ code \in Projects
    /\ WellFormed(Now) /\ WellFormed(read)
    /\ todo \subseteq Action
    /\ from \in File \cup {"live"}
    /\ \A f \in Kept : WellFormed(file[f])
    /\ stale \subseteq Kept
    /\ {running, yes, quiet, twice, rash} \subseteq BOOLEAN
    /\ runs \in 0..MaxRuns /\ changes \in 0..MaxChanges
    /\ yes = running
    /\ ~running => todo = {}

\* What a process leaves of its memory: nothing.  The NICs, which no one
\* changes, are kept in `origin` all the same.
NothingRead == [sgs |-> {}, rules |-> {}, attached |-> {}, nics |-> origin.nics]

Init ==
    /\ code \in Projects
    /\ \E e \in Estates :
          /\ sgs = e.sgs /\ rules = e.rules /\ attached = e.attached
          /\ origin = [sgs |-> {}, rules |-> {}, attached |-> {}, nics |-> e.nics]
    /\ read = origin
    /\ todo = {} /\ results = {} /\ failed_creates = {} /\ repeated = {}
    /\ created = [g \in GroupName |-> None]
    /\ cached = Run!Uncached
    /\ running = FALSE /\ yes = FALSE /\ from = "live" /\ quiet = TRUE /\ met = {}
    /\ file = [f \in File |-> NoFile]
    /\ stale = {} /\ twice = FALSE /\ rash = FALSE
    /\ runs = 0 /\ changes = 0

(***************************************************************************)
(* The owner, between runs.                                                *)
(***************************************************************************)
Between == ~running /\ runs < MaxRuns

\* Written in one go, or cut short; the old content is gone either way.
TakeSnapshot ==
    /\ Between
    /\ \E inv \in {Now, Cut} : file' = [file EXCEPT !["default"] = inv]
    /\ stale' = stale \ {"default"}
    /\ UNCHANGED <<code, process, cloud, day>>

\* snapshot.json is put aside, under a name only --snapshot finds.
PutAside ==
    /\ Between
    /\ file["default"] # NoFile
    /\ file' = [file EXCEPT !["default"] = NoFile, !["other"] = file["default"]]
    /\ stale' = {"other" : f \in stale \cap {"default"}}
    /\ UNCHANGED <<code, process, cloud, day>>

\* "Refresh with snapshot or verify with drift": the file is as the cloud.
VerifySnapshot(f) ==
    /\ Between
    /\ f \in Kept
    /\ Drift(f)!NoDrift
    /\ stale' = stale \ {f}
    /\ UNCHANGED <<code, process, cloud, file, day>>

EditProject(c) ==
    /\ Between
    /\ c # code
    /\ code' = c
    /\ UNCHANGED <<process, cloud, file, stale, day>>

(***************************************************************************)
(* plan and apply.                                                         *)
(***************************************************************************)
\* --snapshot names a file; else snapshot.json when it is there; else the
\* cloud is read.  A file that was cut short raises before anything is done.
Readable(source) ==
    IF source = "live" THEN file["default"] = NoFile ELSE source \in Kept

Reading(source) == IF source = "live" THEN Now ELSE file[source]

\* A slip: the write gate is left open.
WritesAnyway(source, confirmed) == Plannable(code, Reading(source))

\* A plan that is not refused is executed only with --yes.
WritesNow(source, confirmed) == confirmed /\ Plannable(code, Reading(source))

\* Refused, or a dry run: the plan or the errors are printed.
Preview(source, confirmed) ==
    /\ ~running
    /\ Readable(source)
    /\ ~WritesNow(source, confirmed)
    /\ UNCHANGED vars

Named(groups) == {<<sg.name, sg.id>> : sg \in groups}

BeginRun(source, confirmed) ==
    /\ Between
    /\ Readable(source)
    /\ WritesNow(source, confirmed)
    /\ running' = TRUE /\ yes' = confirmed /\ from' = source
    /\ read' = Reading(source)
    /\ origin' = Now
    /\ todo' = Plan(code, read')
    /\ cached' \in IF source = "live" THEN Run!Listings(sgs, Run!Uncached) ELSE {Run!Uncached}
    /\ met' = Named(sgs)
    /\ rash' = (rash \/ source \in stale)
    /\ runs' = runs + 1
    /\ UNCHANGED <<code, cloud, file, stale, results, created, failed_creates, repeated>>
    /\ UNCHANGED <<quiet, twice, changes>>

IdsOf(inv) == {sg.id : sg \in inv.sgs} \cup {r.id : r \in inv.rules}

\* Ids never come back, not even those only a file or the process still knows.
Remembered ==
    UNION {IdsOf(file[f]) : f \in Kept}
    \cup {created[g] : g \in GroupName} \cup {cached[n] : n \in Name}

PerformNext ==
    /\ running
    /\ \E a \in todo : Run!Perform(a)
    /\ IdsOf(Now)' \cap Remembered \subseteq IdsOf(Now)
    /\ met' = met \cup Named(sgs')
    /\ twice' = (twice \/ \E g \in GroupName : Run!Twinned(g)')
    /\ UNCHANGED <<running, yes, from, quiet, file, stale, rash, runs, changes>>

\* The process is gone, and all it knew.
Exit ==
    /\ running' = FALSE /\ yes' = FALSE /\ from' = "live" /\ quiet' = TRUE /\ met' = {}
    /\ read' = NothingRead /\ origin' = NothingRead
    /\ todo' = {} /\ results' = {} /\ failed_creates' = {} /\ repeated' = {}
    /\ created' = [g \in GroupName |-> None]
    /\ cached' = Run!Uncached
    /\ UNCHANGED <<code, cloud, file, day>>

\* A slip: snapshot.json, used without being named, is not noted.
NamedSource == {from} \cap {"other"}

\* The file the run was planned from (stale_note_source).
StaleNoteSource == {from} \cap File

\* The results are printed, and the note.
Finish ==
    /\ running
    /\ todo = {}
    /\ stale' = stale \cup StaleNoteSource \cup (Kept \ {from})
    /\ Exit

\* No note, and no result for what was not done yet.
Kill ==
    /\ running
    /\ stale' = Kept
    /\ Exit

(***************************************************************************)
(* Others: a group renamed, a rule or a membership removed.                *)
(***************************************************************************)
OthersChange ==
    /\ changes < MaxChanges
    /\ \/ /\ \E sg \in sgs, n \in Name \ {x.name : x \in sgs} :
                sgs' = (sgs \ {sg}) \cup {[sg EXCEPT !.name = n]}
          /\ rash' = TRUE
          /\ UNCHANGED <<rules, attached>>
       \/ /\ \E r \in rules : rules' = rules \ {r}
          /\ UNCHANGED <<sgs, attached, rash>>
       \/ /\ \E p \in attached : attached' = attached \ {p}
          /\ UNCHANGED <<sgs, rules, rash>>
    /\ changes' = changes + 1
    /\ quiet' = ~running
    /\ met' = IF running THEN met \cup Named(sgs') ELSE met
    /\ stale' = Kept
    /\ UNCHANGED <<code, read, origin, todo, memory, running, yes, from, file, twice, runs>>

\* The bound on runs is reached.
Evening == ~running /\ runs = MaxRuns /\ UNCHANGED vars

RunStep == PerformNext \/ Finish

Next ==
    \/ TakeSnapshot \/ PutAside
    \/ \E f \in File : VerifySnapshot(f)
    \/ \E c \in Projects : EditProject(c)
    \/ \E source \in File \cup {"live"}, confirmed \in BOOLEAN :
          Preview(source, confirmed) \/ BeginRun(source, confirmed)
    \/ RunStep \/ Kill \/ OthersChange
    \/ Evening

Spec == Init /\ [][Next]_vars

-----------------------------------------------------------------------------
(***************************************************************************)
(* Properties.                                                             *)
(***************************************************************************)
\* "--yes is the ONLY path to real writes — it confirms the preview" (main):
\* the session implements Consent.  The tool changes the cloud only during a
\* run begun with --yes, by the actions of that run's plan, each at most once
\* (or once for each try of a create that took effect) and within what it
\* says, the remote group of a rule included, however runs fail, are killed or
\* meet others.
Promise ==
    INSTANCE Consent WITH
        agreed <- todo,
        own <- {created[g] : g \in GroupName} \ {None}

KeepsPromise == Promise!Spec

\* A run planned from the cloud it meets completes what killed runs, failed
\* runs and runs from stale files left half done before it (plan, execute):
\* if others leave the cloud alone meanwhile, planning once more finds only
\* what this run reported as failed.
RerunCompletes == running /\ quiet => Run!ReplanIsWhatFailed

\* Two groups of one name, after which nothing can be planned (_name_to_sg),
\* come from a create that was sent again after it had taken effect (_run);
\* from others; or from a run on a file not taken or verified by drift since
\* the owner was told it is stale, or since it was left stale where the tool
\* does not tell: by a killed run, a run from elsewhere, others
\* (_snapshot_stale_note: "refresh ... or verify with 'hcs-sg drift'"; it is
\* about the file the run was planned from, so a file left stale by a run from
\* elsewhere is one it says nothing of).
DuplicatesForewarned == DuplicateNames(Now) => twice \/ rash
=============================================================================
