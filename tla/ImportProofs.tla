---------------------------- MODULE ImportProofs ----------------------------
(***************************************************************************)
(* Theorems about hcs-sg import, for every snapshot and every project that *)
(* was there before.  Over the types, one invariant follows the files: up  *)
(* to the point the import has reached, each says what the snapshot says.  *)
(* The rest is about pure functions: what an imported group's files say is *)
(* what the plan reads in the snapshot.                                    *)
(***************************************************************************)
EXTENDS Import, PlannerProofs

(***************************************************************************)
(* What a file says.                                                       *)
(***************************************************************************)
LEMMA RepresentableType ==
    ASSUME NEW inv, WellFormed(inv), NEW sg \in Representable(inv)
    PROVE  /\ sg \in inv.sgs /\ sg \in CloudSg /\ sg.name \in GroupName
           /\ sg.id \in SgId /\ sg.description \in Description
           /\ \A x \in Representable(inv) : x.name = sg.name => x = sg
<1>1. sg \in inv.sgs /\ sg.name \in GroupName
  BY DEF Representable
<1>2. sg \in CloudSg
  BY <1>1, InventoryType
<1> QED
  BY <1>1, <1>2 DEF Representable, CloudSg

\* The remote of a rule a file can say: an imported group, or a CIDR.
LEMMA CodableRemote ==
    ASSUME NEW inv, WellFormed(inv), NEW r \in inv.rules, Codable(inv, r)
    PROVE  RemoteOf(inv, r) \in Imported(inv) \cup Cidr
<1>1. CASE r.remote_group_id # None
  <2>1. PICK sg \in Representable(inv) : sg.id = r.remote_group_id
    BY <1>1 DEF Codable
  <2>2. sg \in inv.sgs
    BY <2>1, RepresentableType
  <2>3. (CHOOSE x \in inv.sgs : x.id = r.remote_group_id) = sg
    BY <2>1, <2>2 DEF WellFormed
  <2>4. RemoteOf(inv, r) = sg.name
    BY <1>1, <2>1, <2>2, <2>3 DEF RemoteOf
  <2> QED
    BY <2>1, <2>4 DEF Imported
<1>2. CASE r.remote_group_id = None /\ r.remote_ip_prefix # None
  <2>1. r.remote_ip_prefix \in DOMAIN Canonical
    BY <1>2 DEF Codable
  <2>2. RemoteOf(inv, r) = Canonical[r.remote_ip_prefix]
    BY <1>2, <2>1 DEF RemoteOf
  <2> QED
    BY <2>1, <2>2 DEF Cidr
<1>3. CASE r.remote_group_id = None /\ r.remote_ip_prefix = None
  <2>1. RemoteOf(inv, r) = Anywhere
    BY <1>3 DEF RemoteOf
  <2> QED
    BY <2>1, EstateAssumption
<1> QED
  BY <1>1, <1>2, <1>3

LEMMA CodedRulesType ==
    ASSUME NEW inv, WellFormed(inv), NEW sg \in Representable(inv), NEW d \in Direction
    PROVE  \A x \in CodedRules(inv, sg, d) :
              x \in CodeRule /\ x.group = sg.name /\ x.direction = d
              /\ x.remote \in Imported(inv) \cup Cidr
<1> SUFFICES ASSUME NEW x \in CodedRules(inv, sg, d)
             PROVE  x \in CodeRule /\ x.group = sg.name /\ x.direction = d
                    /\ x.remote \in Imported(inv) \cup Cidr
  OBVIOUS
<1>1. PICK r \in Written(inv, sg) :
        /\ r.direction = d
        /\ x = [group |-> sg.name, direction |-> d, services |-> {r.service},
                remote |-> RemoteOf(inv, r)]
  BY DEF CodedRules
<1>2. r \in inv.rules /\ Codable(inv, r)
  BY DEF Written, Candidates
<1>3. RemoteOf(inv, r) \in Imported(inv) \cup Cidr
  BY <1>2, CodableRemote
<1>4. sg.name \in GroupName /\ Imported(inv) \subseteq GroupName
  BY RepresentableType DEF Imported
<1>5. {r.service} \in (SUBSET CodeService) \ {{}}
  BY <1>2 DEF Codable
<1> QED
  BY <1>1, <1>3, <1>4, <1>5 DEF CodeRule

LEMMA ImportTextOf ==
    ASSUME NEW inv, WellFormed(inv), NEW sg \in Representable(inv)
    PROVE  /\ ImportText(inv, <<sg.name, "group">>)
                = [description |-> sg.description, members |-> MembersOf(inv, sg)]
           /\ \A d \in Direction : ImportText(inv, <<sg.name, d>>) = CodedRules(inv, sg, d)
<1>1. (CHOOSE x \in Representable(inv) : x.name = sg.name) = sg
  BY RepresentableType
<1> QED
  BY <1>1 DEF ImportText, Direction

LEMMA MembersType ==
    ASSUME NEW inv, NEW sg
    PROVE  MembersOf(inv, sg) \subseteq V4
  BY DEF MembersOf

LEMMA WritesAre ==
    ASSUME NEW inv, WellFormed(inv), NEW f \in Writes(inv)
    PROVE  /\ f \in File
           /\ \E sg \in Representable(inv) : f[1] = sg.name
           /\ \/ f[2] = "group" /\ f = <<f[1], "group">>
              \/ f[2] # "group" /\ f[2] \in Direction /\ f = <<f[1], f[2]>>
  BY RepresentableType DEF Writes, Imported, File, Direction

\* What an import writes are texts, and so are the parts of them.
LEMMA ImportTextType ==
    ASSUME NEW inv, WellFormed(inv), NEW f \in Writes(inv)
    PROVE  ImportText(inv, f) \in Text(f) /\ CutTexts(inv, f) \subseteq Text(f)
<1>1. PICK sg \in Representable(inv) : f[1] = sg.name
  BY WritesAre
<1>2. CASE f[2] = "group"
  <2>1. ImportText(inv, f) = [description |-> sg.description, members |-> MembersOf(inv, sg)]
    BY <1>1, <1>2, ImportTextOf, WritesAre
  <2>2. ImportText(inv, f) \in GroupText
    BY <2>1, MembersType, RepresentableType DEF GroupText
  <2>3. CutTexts(inv, f) \subseteq {Unreadable} \cup GroupText
    BY <1>2, <2>1, <2>2, EstateAssumption DEF CutTexts, GroupText
  <2> QED
    BY <1>2, <2>2, <2>3 DEF Text
<1>3. CASE f[2] # "group"
  <2>1. f[2] \in Direction /\ ImportText(inv, f) = CodedRules(inv, sg, f[2])
    BY <1>1, <1>3, ImportTextOf, WritesAre
  <2>2. ImportText(inv, f) \subseteq CodeRule
    BY <2>1, CodedRulesType
  <2>3. CutTexts(inv, f) \subseteq {Unreadable} \cup SUBSET CodeRule
    BY <1>3, <2>2 DEF CutTexts
  <2> QED
    BY <1>3, <2>2, <2>3 DEF Text
<1> QED
  BY <1>2, <1>3

(***************************************************************************)
(* The files, as the command has left them.                                *)
(***************************************************************************)
\* Up to the point the import has reached, every file is as it wants it.
ReachedOK ==
    /\ pending \subseteq Writes(snapshot)
    /\ outcome = "writing" <=> pending # {}
    /\ outcome \in {"writing", "imported"} =>
         \A f \in Writes(snapshot) \ pending : disk[f] = ImportText(snapshot, f)

\* A file is in a directory.
InDirectories == \A f \in File : disk[f] # Absent => f[1] \in dirs

\* Without --force nothing that was there is touched, nor will be.
FoundOK ==
    outcome # "none" /\ ~force =>
        \A f \in File : before[f] # Absent => disk[f] = before[f] /\ f \notin pending

ImportInv == TypeOK /\ ReachedOK /\ InDirectories /\ FoundOK

LEMMA ProjectTextType ==
    ASSUME NEW c, Loaded(c), NEW f \in File
    PROVE  /\ ProjectText(c, f) \in Text(f)
           /\ ProjectText(c, f) # Absent => f[1] \in c.groups
<1>1. f[1] \in GroupName /\ f[2] \in {"group"} \cup Direction
  BY DEF File
<1>2. DesiredIps(c, f[1]) \subseteq V4 /\ c.description[f[1]] \in Description
  BY <1>1, LoadedType DEF DesiredIps
<1>3. {r \in c.rules : r.group = f[1] /\ r.direction = f[2]} \in SUBSET CodeRule
  BY LoadedType
<1> QED
  BY <1>1, <1>2, <1>3 DEF ProjectText, Text, GroupText

LEMMA InitImport ==
    ASSUME Init
    PROVE  ImportInv
<1>1. PICK c \in HandWritten : dirs = c.groups /\ disk = [f \in File |-> ProjectText(c, f)]
  BY DEF Init
<1>2. Loaded(c) /\ dirs \subseteq GroupName
  BY <1>1, LoadedType, ImportAssumption
<1>3. \A f \in File : disk[f] \in Text(f) /\ (disk[f] # Absent => f[1] \in dirs)
  BY <1>1, <1>2, ProjectTextType
<1>4. DOMAIN disk = File /\ before = disk
  BY <1>1 DEF Init
<1> QED
  BY <1>2, <1>3, <1>4 DEF Init, ImportInv, TypeOK, ReachedOK, InDirectories, FoundOK

LEMMA ImportStep ==
    ASSUME ImportInv, [Next]_vars
    PROVE  ImportInv'
<1> USE DEF ImportInv, TypeOK, ReachedOK, InDirectories, FoundOK
<1>0. WellFormed(snapshot)
  BY ImportAssumption
<1>1. CASE UNCHANGED vars
  BY <1>1 DEF vars
<1>2. CASE TakeSnapshot
  BY <1>2 DEF TakeSnapshot, Idle
<1>3. ASSUME NEW g \in GroupName, Discard(g) PROVE ImportInv'
  <2>1. /\ disk' = [f \in File |-> IF f[1] = g THEN Absent ELSE disk[f]]
        /\ dirs' = dirs \ {g} /\ before' = disk' /\ outcome' = "none"
        /\ pending = {} /\ UNCHANGED <<snapshot, pending>> /\ force' = FALSE
    BY <1>3 DEF Discard, Idle
  <2>2. \A f \in File : disk'[f] = Absent \/ (disk'[f] = disk[f] /\ f[1] # g)
    BY <2>1
  <2>3. \A f \in File : disk'[f] \in Text(f)
    BY <2>2 DEF Text
  <2>4. DOMAIN disk' = File
    BY <2>1
  <2> QED
    BY <2>1, <2>2, <2>3, <2>4
<1>4. ASSUME NEW forced \in BOOLEAN, Start(forced) PROVE ImportInv'
  <2>1. /\ UNCHANGED <<snapshot, dirs, disk>> /\ before' = disk /\ force' = forced
        /\ pending = {}
    BY <1>4 DEF Start, Idle
  <2>2. CASE Clashes # {} /\ ~forced
    BY <1>4, <2>1, <2>2 DEF Start
  <2>3. CASE ~(Clashes # {} /\ ~forced)
    <3>1. /\ pending' = Writes(snapshot)
          /\ outcome' = IF Writes(snapshot) = {} THEN "imported" ELSE "writing"
      BY <1>4, <2>3 DEF Start
    <3>2. Writes(snapshot) \subseteq File
      BY <1>0, WritesAre
    <3>3. ~forced => \A f \in Writes(snapshot) : disk[f] = Absent
      BY <2>3 DEF Clashes
    <3> QED
      BY <2>1, <3>1, <3>2, <3>3
  <2> QED
    BY <2>2, <2>3
<1>5. CASE WriteFile
  <2>1. PICK f \in pending :
          /\ dirs' = dirs \cup {f[1]}
          /\ disk' = [disk EXCEPT ![f] = ImportText(snapshot, f)]
          /\ pending' = pending \ {f}
    BY <1>5 DEF WriteFile
  <2>2. /\ outcome' = IF pending' = {} THEN "imported" ELSE "writing"
        /\ UNCHANGED <<snapshot, before, force>>
    BY <1>5 DEF WriteFile
  <2>3. f \in File /\ f \in Writes(snapshot) /\ f[1] \in GroupName
    BY <2>1 DEF File
  <2>4. ImportText(snapshot, f) \in Text(f)
    BY <1>0, <2>3, ImportTextType
  <2>5. outcome = "writing"
    BY <2>1
  <2>6. /\ DOMAIN disk' = File /\ disk'[f] = ImportText(snapshot, f)
        /\ \A x \in File : x # f => disk'[x] = disk[x]
    BY <2>1, <2>3
  <2> QED
    BY <2>1, <2>2, <2>3, <2>4, <2>5, <2>6
<1>6. CASE Stop
  <2>1. PICK f \in pending :
          \/ UNCHANGED <<dirs, disk>>
          \/ /\ dirs' = dirs \cup {f[1]}
             /\ \/ UNCHANGED disk
                \/ \E part \in CutTexts(snapshot, f) : disk' = [disk EXCEPT ![f] = part]
    BY <1>6 DEF Stop
  <2>2. pending' = {} /\ outcome' = "stopped" /\ UNCHANGED <<snapshot, before, force>>
    BY <1>6 DEF Stop
  <2>3. f \in File /\ f \in Writes(snapshot) /\ f[1] \in GroupName
    BY <2>1 DEF File
  <2>4. CutTexts(snapshot, f) \subseteq Text(f)
    BY <1>0, <2>3, ImportTextType
  <2>5. outcome = "writing"
    BY <2>1
  <2>6. CASE UNCHANGED disk
    BY <2>1, <2>2, <2>3, <2>5, <2>6
  <2>7. ASSUME NEW part \in CutTexts(snapshot, f), disk' = [disk EXCEPT ![f] = part],
               dirs' = dirs \cup {f[1]}
        PROVE  ImportInv'
    <3>1. /\ DOMAIN disk' = File /\ disk'[f] = part
          /\ \A x \in File : x # f => disk'[x] = disk[x]
      BY <2>3, <2>7
    <3> QED
      BY <2>2, <2>3, <2>4, <2>5, <2>7, <3>1
  <2> QED
    BY <2>1, <2>6, <2>7
<1> QED
  BY <1>1, <1>2, <1>3, <1>4, <1>5, <1>6 DEF Next

THEOREM ImportSound == Spec => []ImportInv
  BY InitImport, ImportStep, PTL DEF Spec

\* Whatever snapshots are imported over whatever projects, and wherever an
\* import stops, every file is one the loader reads or reports.
THEOREM TypeCorrect == Spec => []TypeOK
<1>1. ImportInv => TypeOK
  BY DEF ImportInv
<1> QED
  BY <1>1, ImportSound, PTL

\* "Existing files are never clobbered without --force": however it ends.
THEOREM FilesFoundAreKept == Spec => []FoundFilesKept
<1>1. ImportInv => FoundFilesKept
  BY DEF ImportInv, FoundOK, FoundFilesKept
<1> QED
  BY <1>1, ImportSound, PTL

(***************************************************************************)
(* What an imported project says, next to what the plan reads in the       *)
(* snapshot.                                                               *)
(***************************************************************************)
\* The files of an imported group.
LEMMA ImportedFiles ==
    ASSUME ImportInv, AllImported
    PROVE  /\ WellFormed(snapshot)
           /\ \A sg \in Representable(snapshot) :
                /\ sg.name \in dirs
                /\ disk[<<sg.name, "group">>]
                     = [description |-> sg.description, members |-> MembersOf(snapshot, sg)]
                /\ \A d \in Direction : disk[<<sg.name, d>>] = CodedRules(snapshot, sg, d)
           /\ \A g \in dirs : \E sg \in Representable(snapshot) : sg.name = g
           /\ \A m \in Managed : \E sg \in Representable(snapshot) : sg.name = m[1]
           /\ \A f \in Writes(snapshot) : disk[f] \notin {Absent, Unreadable}
<1>1. WellFormed(snapshot) /\ snapshot \in Snapshots
  BY ImportAssumption DEF ImportInv, TypeOK
<1>2. pending = {} /\ dirs = Imported(snapshot)
  BY DEF ImportInv, ReachedOK, AllImported
<1>3. \A f \in Writes(snapshot) : disk[f] = ImportText(snapshot, f)
  BY <1>2 DEF ImportInv, ReachedOK, AllImported
<1>4. \A sg \in Representable(snapshot) :
        /\ sg.name \in dirs
        /\ <<sg.name, "group">> \in Writes(snapshot)
        /\ \A d \in Direction : <<sg.name, d>> \in Writes(snapshot)
  BY <1>2 DEF Imported, Writes
<1>5. \A g \in dirs : \E sg \in Representable(snapshot) : sg.name = g
  BY <1>2 DEF Imported
<1>6. \A m \in Managed : m \in File /\ disk[m] # Absent
  BY DEF Managed, File
<1>7. \A m \in Managed : m[1] \in dirs
  BY <1>6 DEF ImportInv, InDirectories
<1> QED
  BY <1>1, <1>3, <1>4, <1>5, <1>7, ImportTextOf, TextAssumption

LEMMA ImportedDirection ==
    ASSUME ImportInv, AllImported, NEW m \in Managed
    PROVE  /\ m[1] \in dirs /\ m[2] \in Direction /\ m = <<m[1], m[2]>>
           /\ \E sg \in Representable(snapshot) :
                sg.name = m[1] /\ disk[m] = CodedRules(snapshot, sg, m[2])
<1>1. PICK sg \in Representable(snapshot) : sg.name = m[1]
  BY ImportedFiles
<1>2. m[2] \in Direction /\ m = <<m[1], m[2]>>
  BY DEF Managed
<1>3. \A d \in Direction : disk[<<sg.name, d>>] = CodedRules(snapshot, sg, d)
  BY ImportedFiles
<1>4. disk[<<sg.name, m[2]>>] = CodedRules(snapshot, sg, m[2])
  BY <1>2, <1>3
<1>5. sg.name \in dirs
  BY ImportedFiles
<1> QED
  BY <1>1, <1>2, <1>4, <1>5

\* Its members are the listed addresses of its group.
LEMMA MembersByFile ==
    ASSUME ImportInv, NEW sg \in Representable(snapshot),
           disk[<<sg.name, "group">>] = ImportText(snapshot, <<sg.name, "group">>)
    PROVE  /\ sg.name \in dirs
           /\ DesiredIps(Code, sg.name) = MembersOf(snapshot, sg)
<1>1. Code.members = UNION {{g} \X disk[<<g, "group">>].members : g \in dirs}
  BY DEF Code
<1>2. sg.name \in dirs /\ disk[<<sg.name, "group">>].members = MembersOf(snapshot, sg)
  <2>1. WellFormed(snapshot) /\ snapshot \in Snapshots
    BY ImportAssumption DEF ImportInv, TypeOK
  <2>2. disk[<<sg.name, "group">>]
          = [description |-> sg.description, members |-> MembersOf(snapshot, sg)]
    BY <2>1, ImportTextOf
  <2>3. <<sg.name, "group">> \in Writes(snapshot) /\ <<sg.name, "group">> \in File
    BY <2>1, RepresentableType DEF Writes, Imported, File
  <2>4. sg.name \in dirs
    BY <2>1, <2>3, TextAssumption DEF ImportInv, InDirectories
  <2> QED
    BY <2>2, <2>4
<1>3. ASSUME NEW ip \in MembersOf(snapshot, sg) PROVE ip \in DesiredIps(Code, sg.name)
  <2>1. <<sg.name, ip>> \in Code.members
    BY <1>1, <1>2, <1>3
  <2> QED
    BY <2>1 DEF DesiredIps
<1>4. ASSUME NEW ip \in DesiredIps(Code, sg.name) PROVE ip \in MembersOf(snapshot, sg)
  <2>1. PICK m \in Code.members : m[1] = sg.name /\ m[2] = ip
    BY <1>4 DEF DesiredIps
  <2>2. PICK g \in dirs : m \in {g} \X disk[<<g, "group">>].members
    BY <1>1, <2>1
  <2> QED
    BY <1>2, <2>1, <2>2
<1> QED
  BY <1>2, <1>3, <1>4

LEMMA ImportedMembers ==
    ASSUME ImportInv, AllImported, NEW sg \in Representable(snapshot)
    PROVE  DesiredIps(Code, sg.name) = MembersOf(snapshot, sg)
<1>1. disk[<<sg.name, "group">>] = ImportText(snapshot, <<sg.name, "group">>)
  BY ImportedFiles, ImportTextOf
<1> QED
  BY <1>1, MembersByFile

\* Each direction wants what its file says.
LEMMA WantedByFile ==
    ASSUME ImportInv, NEW sg \in Representable(snapshot), NEW d \in Direction,
           disk[<<sg.name, d>>] = CodedRules(snapshot, sg, d),
           disk[<<sg.name, d>>] # Absent,
           NEW r \in Written(snapshot, sg), r.direction = d
    PROVE  IdentityOf(snapshot, r) \in Wanted(Code, sg.name, d)
<1>1. WellFormed(snapshot)
  BY ImportAssumption DEF ImportInv, TypeOK
<1> DEFINE x == [group |-> sg.name, direction |-> d, services |-> {r.service},
                 remote |-> RemoteOf(snapshot, r)]
<1>2. x \in CodedRules(snapshot, sg, d)
  BY DEF CodedRules
<1>3. <<sg.name, d>> \in Managed
  BY <1>1, RepresentableType DEF Managed
<1>4. Code.rules = UNION {disk[m] : m \in Managed}
  BY DEF Code
<1>5. x \in Code.rules /\ x.group = sg.name /\ x.direction = d
  BY <1>2, <1>3, <1>4
<1>6. IdentityOf(snapshot, r) \in SubRules(x)
  BY DEF SubRules, IdentityOf, Identity
<1> HIDE DEF x
<1> QED
  BY <1>5, <1>6 DEF Wanted

LEMMA ImportedWants ==
    ASSUME ImportInv, AllImported, NEW sg \in Representable(snapshot), NEW d \in Direction,
           NEW w \in Wanted(Code, sg.name, d)
    PROVE  \E r \in Written(snapshot, sg) : r.direction = d /\ w = IdentityOf(snapshot, r)
<1>1. PICK x \in Code.rules : x.group = sg.name /\ x.direction = d /\ w \in SubRules(x)
  BY DEF Wanted
<1>2. PICK m \in Managed : x \in disk[m]
  BY <1>1 DEF Code
<1>3. m[2] \in Direction
  BY ImportedDirection
<1>4. PICK o \in Representable(snapshot) : disk[m] = CodedRules(snapshot, o, m[2])
  BY ImportedDirection
<1>5. x \in CodedRules(snapshot, o, m[2])
  BY <1>2, <1>4
<1>6. o = sg /\ m[2] = d
  BY <1>1, <1>3, <1>5, CodedRulesType, RepresentableType, ImportedFiles
<1>7. PICK r \in Written(snapshot, sg) :
        /\ r.direction = d
        /\ x = [group |-> sg.name, direction |-> d, services |-> {r.service},
                remote |-> RemoteOf(snapshot, r)]
  BY <1>5, <1>6 DEF CodedRules
<1> QED
  BY <1>1, <1>7 DEF SubRules, IdentityOf, Identity

(***************************************************************************)
(* Import and load agree.                                                  *)
(***************************************************************************)
LEMMA LoadsImplied ==
    ASSUME ImportInv, AllImported
    PROVE  Loadable /\ Loaded(Code)
<1>1. /\ WellFormed(snapshot)
      /\ \A g \in dirs : \E sg \in Representable(snapshot) : sg.name = g
      /\ \A m \in Managed : \E sg \in Representable(snapshot) : sg.name = m[1]
  BY ImportedFiles
<1>2. \A g \in dirs : g \in GroupName /\ <<g, "group">> \in Writes(snapshot)
  BY <1>1, RepresentableType DEF Writes, Imported
<1>3. \A g \in dirs : /\ disk[<<g, "group">>] \notin {Absent, Unreadable}
                      /\ disk[<<g, "group">>] \in GroupText
  <2> SUFFICES ASSUME NEW g \in dirs
               PROVE  /\ disk[<<g, "group">>] \notin {Absent, Unreadable}
                      /\ disk[<<g, "group">>] \in GroupText
    OBVIOUS
  <2>1. <<g, "group">> \in File
    BY <1>2 DEF File
  <2> QED
    BY <1>2, <2>1, ImportedFiles DEF ImportInv, TypeOK, Text
<1>4. \A m \in Managed :
        /\ disk[m] # Unreadable
        /\ m[1] \in dirs
        /\ \A r \in disk[m] : /\ r \in CodeRule /\ r.group = m[1] /\ r.direction = m[2]
                              /\ r.remote \in Imported(snapshot) \cup Cidr
  <2> SUFFICES ASSUME NEW m \in Managed
               PROVE  /\ disk[m] # Unreadable
                      /\ m[1] \in dirs
                      /\ \A r \in disk[m] :
                            /\ r \in CodeRule /\ r.group = m[1] /\ r.direction = m[2]
                            /\ r.remote \in Imported(snapshot) \cup Cidr
    OBVIOUS
  <2>1. m[1] \in dirs /\ m[2] \in Direction /\ m = <<m[1], m[2]>>
    BY ImportedDirection
  <2>2. PICK sg \in Representable(snapshot) : sg.name = m[1] /\ disk[m] = CodedRules(snapshot, sg, m[2])
    BY ImportedDirection
  <2>3. disk[m] = CodedRules(snapshot, sg, m[2]) /\ m[1] \in dirs
    BY <2>1, <2>2
  <2>4. m \in Writes(snapshot)
    BY <2>1, <2>2 DEF Writes, Imported
  <2> QED
    BY <1>1, <2>1, <2>2, <2>3, <2>4, CodedRulesType, ImportedFiles
<1>5. dirs = Imported(snapshot)
  BY DEF AllImported
<1>6. \A c \in Cidr : c \notin Name
  BY EstateAssumption DEF Cidr
<1>7. Loadable
  BY <1>3, <1>4, <1>5, <1>6 DEF Loadable
<1>8. Code.description \in [GroupName -> Description]
  BY <1>3, EstateAssumption DEF Code, GroupText
<1>9. \A m \in Code.members : m[1] \in dirs /\ m \in GroupName \X V4
  <2> SUFFICES ASSUME NEW m \in Code.members PROVE m[1] \in dirs /\ m \in GroupName \X V4
    OBVIOUS
  <2>1. PICK g \in dirs : m \in {g} \X disk[<<g, "group">>].members
    BY DEF Code
  <2>2. disk[<<g, "group">>].members \subseteq V4
    BY <1>3 DEF GroupText
  <2> QED
    BY <1>2, <2>1, <2>2
<1>10. \A m \in Code.managed : m \in GroupName \X Direction /\ m[1] \in dirs
  BY <1>4 DEF Code, Managed
<1>11. \A r \in Code.rules :
         /\ r \in CodeRule
         /\ <<r.group, r.direction>> \in Code.managed
         /\ r.remote \in GroupName => r.remote \in dirs
  <2> SUFFICES ASSUME NEW r \in Code.rules
               PROVE  /\ r \in CodeRule
                      /\ <<r.group, r.direction>> \in Code.managed
                      /\ r.remote \in GroupName => r.remote \in dirs
    OBVIOUS
  <2>1. PICK m \in Managed : r \in disk[m]
    BY DEF Code
  <2>2. r \in CodeRule /\ <<r.group, r.direction>> = m
    BY <1>4, <2>1 DEF Managed
  <2> QED
    BY <1>4, <1>5, <1>6, <2>1, <2>2, EstateAssumption DEF Code
<1>12. Code.groups = dirs /\ dirs \subseteq GroupName
  BY <1>2 DEF Code
<1>13. Code \in DesiredState
  BY <1>8, <1>9, <1>10, <1>11, <1>12 DEF Code, DesiredState
<1> QED
  BY <1>7, <1>9, <1>10, <1>11, <1>12, <1>13 DEF Loaded

\* A member address is one of an attached NIC.
LEMMA MembersThere ==
    ASSUME ImportInv, AllImported, NEW m \in Code.members
    PROVE  Resolves(snapshot, m[2]) \/ \E x, y \in NicsByIp(snapshot, m[2]) : x # y
<1>1. WellFormed(snapshot)
  BY ImportedFiles
<1>2. PICK g \in dirs : m \in {g} \X disk[<<g, "group">>].members
  BY DEF Code
<1>3. PICK sg \in Representable(snapshot) : sg.name = g
  BY ImportedFiles
<1>4. disk[<<sg.name, "group">>]
        = [description |-> sg.description, members |-> MembersOf(snapshot, sg)]
  BY ImportedFiles
<1>5. m[2] \in MembersOf(snapshot, sg)
  BY <1>2, <1>3, <1>4
<1>6. PICK n \in AttachedNics(snapshot, sg.id) : n.ip = m[2] /\ n.ip \in V4
  BY <1>5 DEF MembersOf
<1>7. n \in snapshot.nics /\ n.ip # None
  BY <1>6, EstateAssumption DEF AttachedNics
<1>8. n \in NicsByIp(snapshot, m[2])
  BY <1>1, <1>6, <1>7 DEF WellFormed, NicsByIp
<1> QED
  BY <1>7, <1>8 DEF Resolves

\* What import writes, load_project accepts, for every snapshot; its members
\* resolve, but for addresses that two NICs of the snapshot share.
THEOREM ImportedProjectLoads == Spec => []ImportLoads
<1>1. ImportInv => ImportLoads
  BY LoadsImplied, MembersThere DEF ImportLoads
<1> QED
  BY <1>1, ImportSound, PTL

(***************************************************************************)
(* Import and plan agree.                                                  *)
(***************************************************************************)
LEMMA PlanNowIs ==
    ASSUME NEW a \in PlanNow
    PROVE  a \in Plan(Code, snapshot) /\ ~DuplicateNames(snapshot)
  BY DEF PlanNow, Plannable

\* The one group of a name is the one that was imported.
LEMMA NamedOnce ==
    ASSUME ImportInv, AllImported, ~DuplicateNames(snapshot), NEW g \in Code.groups
    PROVE  \E sg \in Representable(snapshot) : sg.name = g /\ SgNamed(snapshot, g) = {sg}
<1>1. PICK sg \in Representable(snapshot) : sg.name = g
  BY ImportedFiles DEF Code
<1>2. sg \in snapshot.sgs /\ WellFormed(snapshot)
  BY ImportedFiles, RepresentableType
<1>3. \A x \in snapshot.sgs : x.name = g => x = sg
  BY <1>1, <1>2 DEF DuplicateNames, WellFormed
<1> QED
  BY <1>1, <1>2, <1>3 DEF SgNamed

LEMMA NoRowToAdd ==
    ASSUME ImportInv, AllImported, ~DuplicateNames(snapshot), NEW g \in Code.groups
    PROVE  PlanGroupRow(Code, snapshot, g) = {}
<1>1. PICK sg \in Representable(snapshot) : sg.name = g /\ SgNamed(snapshot, g) = {sg}
  BY NamedOnce
<1>2. disk[<<sg.name, "group">>]
        = [description |-> sg.description, members |-> MembersOf(snapshot, sg)]
  BY ImportedFiles
<1>3. g \in dirs /\ g \in GroupName
  BY <1>1, RepresentableType, ImportedFiles DEF Code
<1>4. Code.description[g] = sg.description
  BY <1>1, <1>2, <1>3 DEF Code
<1> QED
  BY <1>1, <1>4 DEF PlanGroupRow

LEMMA NoMemberToAdd ==
    ASSUME ImportInv, AllImported, ~DuplicateNames(snapshot), NEW g \in Code.groups,
           NEW a \in PlanMembers(Code, snapshot, g)
    PROVE  a.op = "DetachNic"
<1>1. PICK sg \in Representable(snapshot) : sg.name = g /\ SgNamed(snapshot, g) = {sg}
  BY NamedOnce
<1>2. DesiredIps(Code, g) = MembersOf(snapshot, sg)
  BY <1>1, ImportedMembers
<1>3. DesiredIps(Code, g) \subseteq AttachedIps(snapshot, g)
  BY <1>1, <1>2 DEF MembersOf, AttachedIps
<1>4. PICK x \in SgNamed(snapshot, g) :
        \E n \in AttachedNics(snapshot, x.id) : a = DetachNic(g, x.id, n.port_id)
  <2>1. DesiredIps(Code, g) \ AttachedIps(snapshot, g) = {}
    BY <1>3
  <2> QED
    BY <2>1 DEF PlanMembers
<1> QED
  BY <1>4 DEF DetachNic

LEMMA NoRuleToAdd ==
    ASSUME ImportInv, AllImported, ~DuplicateNames(snapshot), NEW g \in Code.groups,
           NEW a \in PlanRules(Code, snapshot, g)
    PROVE  a.op = "DeleteRule"
<1>1. PICK sg \in Representable(snapshot) : sg.name = g /\ SgNamed(snapshot, g) = {sg}
  BY NamedOnce
<1>2. PICK d \in Direction : a \in PlanManagedDirection(Code, snapshot, g, d)
  BY DEF PlanRules
<1>3. Wanted(Code, g, d) \subseteq {IdentityOf(snapshot, r) : r \in RulesOf(snapshot, g, d)}
  <2> SUFFICES ASSUME NEW w \in Wanted(Code, g, d)
               PROVE  \E r \in RulesOf(snapshot, g, d) : w = IdentityOf(snapshot, r)
    OBVIOUS
  <2>1. PICK r \in Written(snapshot, sg) : r.direction = d /\ w = IdentityOf(snapshot, r)
    BY <1>1, ImportedWants
  <2>2. r \in snapshot.rules /\ r.sg_id = sg.id
    BY DEF Written, Candidates
  <2>3. r \in RulesOf(snapshot, g, d)
    BY <1>1, <2>1, <2>2 DEF RulesOf
  <2> QED
    BY <2>1, <2>3
<1>4. PICK r \in Stale(Code, snapshot, g, d) : a = DeleteRule(g, r.id)
  <2>1. Wanted(Code, g, d) \ {IdentityOf(snapshot, r) : r \in RulesOf(snapshot, g, d)} = {}
    BY <1>3
  <2> QED
    BY <1>2, <2>1 DEF PlanManagedDirection
<1> QED
  BY <1>4 DEF DeleteRule

LEMMA AddsNothing ==
    ASSUME ImportInv, AllImported, NEW a \in PlanNow
    PROVE  a.op \in {"DeleteRule", "DetachNic", "DeleteSg"}
<1>1. a \in Plan(Code, snapshot) /\ ~DuplicateNames(snapshot)
  BY PlanNowIs
<1>2. CASE a \in PlanAbsentGroups(Code, snapshot)
  BY <1>2, AbsentCases DEF DeleteSg, DetachNic
<1>3. \A g \in Code.groups : a \notin PlanGroupRow(Code, snapshot, g)
  BY <1>1, NoRowToAdd
<1>4. ASSUME NEW g \in Code.groups, a \in PlanMembers(Code, snapshot, g)
      PROVE  a.op = "DetachNic"
  BY <1>1, <1>4, NoMemberToAdd
<1>5. ASSUME NEW g \in Code.groups, a \in PlanRules(Code, snapshot, g)
      PROVE  a.op = "DeleteRule"
  BY <1>1, <1>5, NoRuleToAdd
<1> QED
  BY <1>1, <1>2, <1>3, <1>4, <1>5, PlanCases

\* Planned against the snapshot it came from, an imported project creates,
\* updates, adds and attaches nothing: the two read the cloud alike.
THEOREM NothingIsAdded == Spec => []NothingToAdd
<1>1. ImportInv => NothingToAdd
  BY AddsNothing DEF NothingToAdd
<1> QED
  BY <1>1, ImportSound, PTL

LEMMA DetachesOnlyV6 ==
    ASSUME ImportInv, NEW a \in PlanNow, NEW n \in snapshot.nics,
           NEW sg \in Representable(snapshot),
           a.op = "DetachNic", a.port_id = n.port_id, a.sg_id = sg.id,
           disk[<<sg.name, "group">>] = ImportText(snapshot, <<sg.name, "group">>)
    PROVE  n.ip \notin V4
<1>1. a \in Plan(Code, snapshot) /\ ~DuplicateNames(snapshot)
  BY PlanNowIs
<1>2. /\ WellFormed(snapshot) /\ sg \in snapshot.sgs /\ sg.name \in dirs
      /\ \A x \in snapshot.sgs : x.id = sg.id => x = sg
      /\ \A x \in snapshot.nics : x.port_id = n.port_id => x = n
  BY ImportAssumption, MembersByFile, RepresentableType DEF ImportInv, TypeOK, WellFormed
<1>3. Code.groups = dirs
  BY DEF Code
<1>4. a \notin PlanAbsentGroups(Code, snapshot)
  <2> SUFFICES ASSUME a \in PlanAbsentGroups(Code, snapshot) PROVE FALSE
    OBVIOUS
  <2>1. PICK x \in snapshot.sgs :
          /\ x.name \notin Code.groups
          /\ \/ a = DeleteSg(x.name, x.id)
             \/ \E k \in AttachedNics(snapshot, x.id) : a = DetachNic(x.name, x.id, k.port_id)
    BY AbsentCases
  <2>2. x.id = sg.id
    BY <2>1 DEF DeleteSg, DetachNic
  <2> QED
    BY <1>2, <1>3, <2>1, <2>2
<1>5. PICK g \in Code.groups : a \in PlanMembers(Code, snapshot, g)
  <2>1. \A g \in Code.groups : a \notin PlanGroupRow(Code, snapshot, g)
    BY GroupRowCases DEF CreateSg, UpdateSg
  <2>2. ASSUME NEW g \in Code.groups, a \in PlanRules(Code, snapshot, g) PROVE FALSE
    <3>1. PICK d \in Direction :
            /\ <<g, d>> \in Code.managed
            /\ \/ \E w \in Wanted(Code, g, d) : a = CreateRule(g, TargetId(snapshot, g), w)
               \/ \E q \in Stale(Code, snapshot, g, d) : a = DeleteRule(g, q.id)
      BY <2>2, RulesCases
    <3> QED
      BY <3>1 DEF CreateRule, DeleteRule
  <2> QED
    BY <1>1, <1>4, <2>1, <2>2, PlanCases
<1>6. PICK x \in SgNamed(snapshot, g) : \E k \in AttachedNics(snapshot, x.id) :
        k.ip \notin DesiredIps(Code, g) /\ a = DetachNic(g, x.id, k.port_id)
  <2>1. \A i \in DesiredIps(Code, g) : a # AttachNic(g, TargetId(snapshot, g), Nic(snapshot, i).port_id, i)
    BY DEF AttachNic
  <2> QED
    BY <1>5, <2>1, MembersCases
<1>7. PICK k \in AttachedNics(snapshot, x.id) :
        k.ip \notin DesiredIps(Code, g) /\ a = DetachNic(g, x.id, k.port_id)
  BY <1>6
<1>8. x = sg /\ g = sg.name /\ k = n
  BY <1>2, <1>7 DEF DetachNic, SgNamed, AttachedNics
<1>9. n.ip \notin MembersOf(snapshot, sg) /\ n \in AttachedNics(snapshot, sg.id)
  BY <1>7, <1>8, MembersByFile
<1> QED
  BY <1>9 DEF MembersOf

\* Of a group whose group.yaml was imported, the next plan detaches only NICs
\* no member entry could name, whatever else was written or not.
THEOREM OnlyUnnameableMembersGo == Spec => []OnlyV6MembersGo
<1>1. ImportInv => OnlyV6MembersGo
  BY DetachesOnlyV6 DEF OnlyV6MembersGo
<1> QED
  BY <1>1, ImportSound, PTL

LEMMA DeletesOnlyNoted ==
    ASSUME ImportInv, NEW sg \in Representable(snapshot), NEW r \in snapshot.rules,
           r.sg_id = sg.id, Removed(r),
           disk[<<sg.name, r.direction>>] = ImportText(snapshot, <<sg.name, r.direction>>)
    PROVE  r \in Noted(snapshot)
<1>1. /\ WellFormed(snapshot) /\ snapshot \in Snapshots /\ sg \in snapshot.sgs
      /\ \A x \in snapshot.sgs : x.id = sg.id => x = sg
      /\ \A x \in snapshot.rules : x.id = r.id => x = r
  BY ImportAssumption, RepresentableType DEF ImportInv, TypeOK, WellFormed
<1>2. PICK h : DeleteRule(h, r.id) \in PlanNow
  BY DEF Removed
<1> DEFINE a == DeleteRule(h, r.id)
<1>3. a.op = "DeleteRule" /\ a.rule_id = r.id /\ a \in Plan(Code, snapshot)
  BY <1>2, PlanNowIs DEF DeleteRule
<1> HIDE DEF a
<1>4. a \notin PlanAbsentGroups(Code, snapshot)
  BY <1>3, AbsentCases DEF DeleteSg, DetachNic
<1>5. \A g \in Code.groups : a \notin PlanGroupRow(Code, snapshot, g)
  BY <1>3, GroupRowCases DEF CreateSg, UpdateSg
<1>6. ASSUME NEW g \in Code.groups, a \in PlanMembers(Code, snapshot, g) PROVE FALSE
  BY <1>3, <1>6, MembersCases DEF AttachNic, DetachNic
<1>7. PICK g \in Code.groups : a \in PlanRules(Code, snapshot, g)
  BY <1>3, <1>4, <1>5, <1>6, PlanCases
<1>8. PICK d \in Direction :
        /\ <<g, d>> \in Code.managed
        /\ \/ \E w \in Wanted(Code, g, d) : a = CreateRule(g, TargetId(snapshot, g), w)
           \/ \E q \in Stale(Code, snapshot, g, d) : a = DeleteRule(g, q.id)
  BY <1>7, RulesCases
<1>9. PICK q \in Stale(Code, snapshot, g, d) : a = DeleteRule(g, q.id)
  BY <1>3, <1>8 DEF CreateRule
<1>10. /\ q \in snapshot.rules /\ q.direction = d
       /\ \E x \in snapshot.sgs : x.name = g /\ x.id = q.sg_id
       /\ IdentityOf(snapshot, q) \notin Wanted(Code, g, d) /\ q.remote_group_id # q.sg_id
  BY DEF Stale, RulesOf, SgNamed
<1>11. q = r
  BY <1>1, <1>3, <1>9, <1>10 DEF DeleteRule
<1>12. g = sg.name /\ d = r.direction
  BY <1>1, <1>10, <1>11
<1>13. r \in Candidates(snapshot, sg)
  BY <1>1, <1>10, <1>11 DEF Candidates
<1>14. /\ disk[<<sg.name, d>>] = CodedRules(snapshot, sg, d)
       /\ disk[<<sg.name, d>>] # Absent
  <2>1. <<sg.name, d>> \in Writes(snapshot)
    BY DEF Writes, Imported
  <2> QED
    BY <1>1, <1>12, <2>1, ImportTextOf, TextAssumption
<1>15. r \notin Written(snapshot, sg)
  BY <1>10, <1>11, <1>12, <1>14, WantedByFile
<1>16. ~Codable(snapshot, r)
  BY <1>13, <1>15 DEF Written
<1> QED
  BY <1>13, <1>16 DEF Noted

\* Of a project an import filled, wholly or in part, the plan deletes no rule
\* in silence: those it deletes have a note, or their file was being written.
THEOREM NoRuleGoesUnnoted == Spec => []OnlyNotedRulesGo
<1>1. ImportInv => OnlyNotedRulesGo
  BY DeletesOnlyNoted DEF OnlyNotedRulesGo
<1> QED
  BY <1>1, ImportSound, PTL
=============================================================================
