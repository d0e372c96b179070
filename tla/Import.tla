------------------------------- MODULE Import -------------------------------
(***************************************************************************)
(* hcs-sg import, the way back from the cloud: a snapshot file becomes a   *)
(* project directory (import_snapshot, _cmd_import), which load_project    *)
(* then reads for the next plan.  Files are written one at a time and the  *)
(* command can stop at any of them; it may be run again, on another        *)
(* snapshot, with or without --force, over what is there already.          *)
(*                                                                         *)
(* The security-groups/ directory itself is taken to exist.                *)
(***************************************************************************)
EXTENDS Naturals, Planner

CONSTANTS
    Absent,      \* no such file
    Unreadable,  \* an empty file, or one the loader reports
    DirOrder,    \* group name -> its place among the directory names
    Snapshots,   \* what a snapshot file can hold
    HandWritten  \* projects that were there before

ASSUME ImportAssumption ==
    /\ \A inv \in Snapshots : WellFormed(inv)
    /\ \A c \in HandWritten : Loaded(c)
    /\ DirOrder \in [GroupName -> Nat]
    /\ \A g, h \in GroupName : DirOrder[g] = DirOrder[h] => g = h

VARIABLES
    snapshot,  \* the inventory snapshot.json holds
    dirs,      \* groups that have a directory
    disk,      \* file -> what it says
    before,    \* disk as the import found it; disk itself when none was run
    force,     \* whether it was run with --force
    pending,   \* files it has still to write
    outcome    \* how it stands

vars == <<snapshot, dirs, disk, before, force, pending, outcome>>

File == GroupName \X ({"group"} \cup Direction)

GroupText == [description : Description, members : SUBSET V4]
Text(f) == {Absent, Unreadable} \cup (IF f[2] = "group" THEN GroupText ELSE SUBSET CodeRule)

TypeOK ==
    /\ snapshot \in Snapshots
    /\ dirs \subseteq GroupName
    /\ \A f \in File : disk[f] \in Text(f) /\ before[f] \in Text(f)
    /\ DOMAIN disk = File /\ DOMAIN before = File
    /\ force \in BOOLEAN
    /\ pending \subseteq File
    /\ outcome \in {"none", "refused", "writing", "imported", "stopped"}

(***************************************************************************)
(* import_snapshot.                                                        *)
(***************************************************************************)
\* The groups that can become a directory: of those that share a name, one.
Representable(inv) ==
    {sg \in inv.sgs : sg.name \in GroupName /\ sg = (CHOOSE x \in SgNamed(inv, sg.name) : TRUE)}

Imported(inv) == {sg.name : sg \in Representable(inv)}

\* A slip: every address of a NIC becomes a member.
EveryAddressOf(inv, sg) == UNION {n.ips : n \in AttachedNics(inv, sg.id)} \cap V4

\* A slip: IPv6 addresses become members too.
MembersOfAnyVersion(inv, sg) == {n.ip : n \in AttachedNics(inv, sg.id)} \ {None}

\* A slip: a NIC becomes a member only where it is in no other group.
MembersOfOneGroup(inv, sg) ==
    {n.ip : n \in {x \in AttachedNics(inv, sg.id) :
        \A y \in inv.sgs \ {sg} : x \notin AttachedNics(inv, y.id)}} \cap V4

MembersOf(inv, sg) == {n.ip : n \in AttachedNics(inv, sg.id)} \cap V4

\* A slip: a remote group that has a name will do.
CodableAnyGroup(inv, r) ==
    /\ r.service \in CodeService
    /\ r.remote_group_id = None => r.remote_ip_prefix \in {None} \cup DOMAIN Canonical

\* Whether a rule file can say it.
Codable(inv, r) ==
    /\ r.service \in CodeService
    /\ IF r.remote_group_id # None
       THEN r.remote_group_id \in {sg.id : sg \in Representable(inv)}
       ELSE r.remote_ip_prefix \in {None} \cup DOMAIN Canonical

\* Self rules are left to the platform.
Candidates(inv, sg) == {r \in inv.rules : r.sg_id = sg.id /\ r.remote_group_id # sg.id}

\* A slip: a rule without a remote is passed over.
WrittenRemotesOnly(inv, sg) ==
    {r \in Candidates(inv, sg) : Codable(inv, r) /\ {r.remote_group_id, r.remote_ip_prefix} # {None}}

Written(inv, sg) == {r \in Candidates(inv, sg) : Codable(inv, r)}

CodedRules(inv, sg, d) ==
    {[group |-> sg.name, direction |-> d, services |-> {r.service}, remote |-> RemoteOf(inv, r)] :
        r \in {x \in Written(inv, sg) : x.direction = d}}

\* Rules whose note ends "apply will plan this rule as a delete": those no
\* file can say and those another imported rule says already.
Noted(inv) ==
    UNION {{r \in Candidates(inv, sg) :
              \/ ~Codable(inv, r)
              \/ r # CHOOSE x \in Candidates(inv, sg) :
                        Codable(inv, x) /\ IdentityOf(inv, x) = IdentityOf(inv, r)} :
           sg \in Representable(inv)}

(***************************************************************************)
(* The files.  Both direction files of a group are always written.         *)
(***************************************************************************)
Writes(inv) == Imported(inv) \X ({"group"} \cup Direction)

ImportText(inv, f) ==
    LET sg == CHOOSE x \in Representable(inv) : x.name = f[1]
    IN  IF f[2] = "group"
        THEN [description |-> sg.description, members |-> MembersOf(inv, sg)]
        ELSE CodedRules(inv, sg, f[2])

ASSUME TextAssumption ==
    \A inv \in Snapshots : \A f \in Writes(inv) : ImportText(inv, f) \notin {Absent, Unreadable}

\* What a file says when the write stopped inside it: nothing the loader
\* takes, or a proper part.
CutTexts(inv, f) ==
    LET whole == ImportText(inv, f)
    IN  {Unreadable} \cup
        IF f[2] = "group"
        THEN {[description |-> Blank, members |-> {}]}
             \cup {[description |-> whole.description, members |-> m] : m \in SUBSET whole.members}
        ELSE (SUBSET whole) \ {{}, whole}

\* In path order, a group's files come as egress, group, ingress.
FileOrder(f) == 3 * DirOrder[f[1]] + [egress |-> 0, group |-> 1, ingress |-> 2][f[2]]

ProjectText(c, f) ==
    IF f[1] \notin c.groups THEN Absent
    ELSE IF f[2] = "group"
         THEN [description |-> c.description[f[1]], members |-> DesiredIps(c, f[1])]
         ELSE IF f \in c.managed THEN {r \in c.rules : r.group = f[1] /\ r.direction = f[2]}
              ELSE Absent

(***************************************************************************)
(* load_project.                                                           *)
(***************************************************************************)
Managed == {m \in GroupName \X Direction : disk[m] # Absent}

Loadable ==
    /\ \A g \in dirs : disk[<<g, "group">>] \notin {Absent, Unreadable}
    /\ \A m \in Managed :
          /\ disk[m] # Unreadable
          /\ \A r \in disk[m] : r.remote \in Name => r.remote \in dirs

Code ==
    [groups |-> dirs,
     description |-> [g \in GroupName |->
        IF g \in dirs THEN disk[<<g, "group">>].description ELSE Blank],
     members |-> UNION {{g} \X disk[<<g, "group">>].members : g \in dirs},
     managed |-> Managed,
     rules |-> UNION {disk[m] : m \in Managed}]

(***************************************************************************)
(* The command, and what happens around it.                                *)
(***************************************************************************)
Idle == pending = {}

\* The file that is written next.
Turn(f) == f \in pending /\ \A x \in pending : FileOrder(f) <= FileOrder(x)

Init ==
    /\ snapshot \in Snapshots
    /\ \E c \in HandWritten :
          /\ dirs = c.groups
          /\ disk = [f \in File |-> ProjectText(c, f)]
    /\ before = disk
    /\ force = FALSE
    /\ pending = {}
    /\ outcome = "none"

\* hcs-sg snapshot overwrites the file.
TakeSnapshot ==
    /\ Idle
    /\ snapshot' \in Snapshots
    /\ before' = disk
    /\ force' = FALSE
    /\ outcome' = "none"
    /\ UNCHANGED <<dirs, disk, pending>>

\* The user removes a group's directory.
Discard(g) ==
    /\ Idle
    /\ g \in dirs
    /\ dirs' = dirs \ {g}
    /\ disk' = [f \in File |-> IF f[1] = g THEN Absent ELSE disk[f]]
    /\ before' = disk'
    /\ force' = FALSE
    /\ outcome' = "none"
    /\ UNCHANGED <<snapshot, pending>>

\* A slip: only group files count as existing.
GroupFileClashes == {f \in Writes(snapshot) : f[2] = "group" /\ disk[f] # Absent}

Clashes == {f \in Writes(snapshot) : disk[f] # Absent}

Start(forced) ==
    /\ Idle
    /\ force' = forced
    /\ before' = disk
    /\ IF Clashes # {} /\ ~forced
       THEN outcome' = "refused" /\ UNCHANGED pending
       ELSE /\ pending' = Writes(snapshot)
            /\ outcome' = IF Writes(snapshot) = {} THEN "imported" ELSE "writing"
    /\ UNCHANGED <<snapshot, dirs, disk>>

WriteFile ==
    /\ \E f \in pending :
          /\ Turn(f)
          /\ dirs' = dirs \cup {f[1]}
          /\ disk' = [disk EXCEPT ![f] = ImportText(snapshot, f)]
          /\ pending' = pending \ {f}
    /\ outcome' = IF pending' = {} THEN "imported" ELSE "writing"
    /\ UNCHANGED <<snapshot, before, force>>

\* Killed, or out of disk space: before the directory is made, after that,
\* or with the file cut.
Stop ==
    /\ \E f \in pending :
          /\ Turn(f)
          /\ \/ UNCHANGED <<dirs, disk>>
             \/ /\ dirs' = dirs \cup {f[1]}
                /\ \/ UNCHANGED disk
                   \/ \E part \in CutTexts(snapshot, f) : disk' = [disk EXCEPT ![f] = part]
    /\ pending' = {}
    /\ outcome' = "stopped"
    /\ UNCHANGED <<snapshot, before, force>>

Next ==
    \/ TakeSnapshot
    \/ \E g \in GroupName : Discard(g)
    \/ \E forced \in BOOLEAN : Start(forced)
    \/ WriteFile
    \/ Stop

Spec == Init /\ [][Next]_vars

-----------------------------------------------------------------------------
(***************************************************************************)
(* Properties.                                                             *)
(***************************************************************************)
\* The import had an empty project to itself.
IntoEmpty == \A f \in File : before[f] = Absent
AllImported == outcome = "imported" /\ dirs = Imported(snapshot)

\* The plan of the project as it stands, made offline from the snapshot.
PlanNow == IF Loadable /\ Plannable(Code, snapshot) THEN Plan(Code, snapshot) ELSE {}
Removed(r) == \E g \in GroupName : DeleteRule(g, r.id) \in PlanNow

\* What import writes, load_project accepts (dump_group "the parse_group
\* inverse"): a project made only of imported groups loads, remotes included;
\* and resolve_memberships refuses no member of it, unless two NICs of the
\* snapshot share the address.
ImportLoads ==
    AllImported =>
        /\ Loadable /\ Loaded(Code)
        /\ \A m \in Code.members :
              Resolves(snapshot, m[2]) \/ \E x, y \in NicsByIp(snapshot, m[2]) : x # y

\* import_snapshot and engine.plan read the cloud alike ("import must agree
\* or the rule would show up as a phantom stale delete"): planned against the
\* snapshot it came from, an imported project creates, updates, adds and
\* attaches nothing.
NothingToAdd ==
    AllImported => \A a \in PlanNow : a.op \in {"DeleteRule", "DetachNic", "DeleteSg"}

\* Rules are never "silently approximated" (yaml_config, reverse import):
\* of a project an import filled, wholly or up to the point it stopped at,
\* the plan deletes only rules a note was made for, save in the direction
\* whose file was being written.  (A group the import did not reach has no
\* directory, and the plan deletes it whole.)
OnlyNotedRulesGo ==
    outcome \in {"imported", "stopped"} /\ IntoEmpty =>
        \A sg \in Representable(snapshot), r \in snapshot.rules :
            r.sg_id = sg.id /\ Removed(r) =>
                \/ r \in Noted(snapshot)
                \/ disk[<<sg.name, r.direction>>] # ImportText(snapshot, <<sg.name, r.direction>>)

\* "Every unrepresentable thing is skipped WITH a note" (README, import); a
\* member whose first address is not IPv4 is the one thing skipped without.
\* No other member of an imported group is lost, wherever the import stopped:
\* of a group whose group.yaml is as import writes it, the next plan detaches
\* only NICs no member entry could name.
OnlyV6MembersGo ==
    \A a \in PlanNow, n \in snapshot.nics, sg \in Representable(snapshot) :
        /\ a.op = "DetachNic" /\ a.port_id = n.port_id /\ a.sg_id = sg.id
        /\ disk[<<sg.name, "group">>] = ImportText(snapshot, <<sg.name, "group">>)
        => n.ip \notin V4

\* "Existing files are never clobbered without --force" (_cmd_import):
\* however it ends, an import without --force has left every file it found.
FoundFilesKept ==
    outcome # "none" /\ ~force => \A f \in File : before[f] # Absent => disk[f] = before[f]

\* "A skipped GROUP stays unmanaged" (yaml_config, reverse import): the next
\* plan leaves the groups alone that could not be imported.
SkippedUnmanaged ==
    outcome = "imported" /\ IntoEmpty =>
        \A a \in PlanNow : a.op \in {"DeleteSg", "DetachNic"} =>
            a.sg_id \in {sg.id : sg \in Representable(snapshot)}
=============================================================================
