---------------------------- MODULE LoaderProofs ----------------------------
(***************************************************************************)
(* Proofs about module Loader, for every set of trees and every order in   *)
(* which the entries of a tree are read.                                   *)
(*                                                                         *)
(* The state says nothing of the order: what is loaded and what is told    *)
(* are functions of the entries read so far (LoaderInv).  What is left is  *)
(* about documents only: each one is found at fault exactly when it has a  *)
(* fault (GroupErrorsAreFaults, RuleFaultIsAFault, RuleErrorsAreFaults).   *)
(***************************************************************************)
EXTENDS Loader, TLAPS

(***************************************************************************)
(* The inductive invariant.                                                *)
(***************************************************************************)
Read == Directories \ left
Taken == {e \in Read : EntryErrors(e) = {}}

ErrorsOf(e) ==
    IF EntryErrors(e) # {} THEN EntryErrors(e)
    ELSE UNION {DirectionErrors(e, d, tree[e].file[d]) : d \in Direction}

Told == UNION {ErrorsOf(e) : e \in Read}

MembersIn(e) == {<<e, tree[e].group.members[i]>> : i \in DOMAIN tree[e].group.members}
ManagedIn(e) == {<<e, d>> : d \in {x \in Direction : tree[e].file[x] # Absent}}

RulesOf(e) ==
    UNION {RulesIn(e, d, tree[e].file[d]) :
        d \in {x \in Direction : tree[e].file[x] # Absent /\ IsList(tree[e].file[x])}}

Unknown == {Error(r.group, "directory", 0, "unknown group") : r \in Dangling}

LoadedIsRead ==
    /\ loaded.groups = Taken
    /\ loaded.members = UNION {MembersIn(e) : e \in Taken}
    /\ loaded.managed = UNION {ManagedIn(e) : e \in Taken}
    /\ loaded.rules = UNION {RulesOf(e) : e \in Taken}
    /\ loaded = [groups |-> loaded.groups, description |-> loaded.description,
                 members |-> loaded.members, managed |-> loaded.managed,
                 rules |-> loaded.rules]
    /\ loaded.description \in [GroupName -> Description]

LoaderInv ==
    /\ tree \in Trees
    /\ left \subseteq IF tree = NoDirectory THEN {} ELSE DOMAIN tree
    /\ outcome \in {"reading", "accepted", "refused"}
    /\ LoadedIsRead
    /\ outcome = "reading" => errors = Told
    /\ outcome # "reading" =>
          /\ left = {}
          /\ errors = IF tree = NoDirectory
                      THEN {Error("security-groups", "directory", 0, "no directory")}
                      ELSE Told \cup Unknown
          /\ (outcome = "accepted") <=> (errors = {})

(***************************************************************************)
(* Documents.                                                              *)
(***************************************************************************)
\* A directory is what the parser can make of one.
LEMMA DirectoryShape ==
    ASSUME tree \in Trees, NEW e \in Directories
    PROVE  /\ e \in DOMAIN tree /\ e \notin Hidden /\ tree[e] # Stray
           /\ tree[e] \in Directory
           /\ tree # NoDirectory
  BY LoaderAssumption DEF Directories

\* EntryErrors (load_project, parse_group): a directory is refused exactly
\* when it does not hold a group.
LEMMA GroupErrorsAreFaults ==
    ASSUME tree \in Trees, NEW e \in Directories
    PROVE  EntryErrors(e) = {} <=> GoodGroup(e)
  <1> DEFINE doc == tree[e].group
  <1>1. doc \in NoDocument \cup GroupDocument
    BY DirectoryShape DEF Directory
  <1>2. CASE e \notin GroupName
    BY <1>2 DEF EntryErrors, GoodGroup
  <1>3. CASE e \in GroupName /\ doc \in NoDocument
    <2>1. GroupErrors(e, doc) # {}
      BY <1>3 DEF GroupErrors, NoDocument
    <2> QED
      BY <2>1, <1>3 DEF EntryErrors, GoodGroup
  <1>4. CASE e \in GroupName /\ doc \notin NoDocument
    <2>1. doc \in GroupDocument
      BY <1>1, <1>4
    <2>2. EntryErrors(e) =
             IF FieldErrors(e, doc) # {} THEN FieldErrors(e, doc)
             ELSE IF DuplicateIps(e, doc) # {} THEN DuplicateIps(e, doc)
             ELSE {Error(e, "group", 0, "not the directory's name") : x \in {doc.name} \ {e}}
      BY <1>4 DEF EntryErrors, GroupErrors, NoDocument
    <2>3. FieldErrors(e, doc) = {} <=>
             /\ doc.name \in GroupName /\ doc.description \in Description
             /\ doc.members # Bad
             /\ \A i \in DOMAIN doc.members : doc.members[i] \in V4
      <3>1. CASE doc.members = Bad
        BY <3>1 DEF FieldErrors
      <3>2. CASE doc.members # Bad
        <4>1. {Error(e, "group", i, "ip") : i \in BadMembers(doc)} = {} <=>
                 \A i \in DOMAIN doc.members : doc.members[i] \in V4
          BY DEF BadMembers
        <4> QED
          BY <4>1, <3>2 DEF FieldErrors
      <3> QED
        BY <3>1, <3>2
    <2>4. ASSUME doc.members # Bad
          PROVE  DuplicateIps(e, doc) = {} <=>
                   \A i, j \in DOMAIN doc.members : doc.members[i] = doc.members[j] => i = j
      <3>1. doc.members \in Seq(Addr \cup {Bad})
        BY <2>1, <2>4 DEF GroupDocument
      <3>2. PICK n \in Nat : DOMAIN doc.members = 1..n
        BY <3>1
      <3>3. DuplicateIps(e, doc) = {} <=>
               \A k \in DOMAIN doc.members : ~\E j \in 1..k-1 : doc.members[j] = doc.members[k]
        BY DEF DuplicateIps
      <3>4. (\A k \in 1..n : ~\E j \in 1..k-1 : doc.members[j] = doc.members[k])
               <=> \A i, j \in 1..n : doc.members[i] = doc.members[j] => i = j
        <4>1. \A i, j \in 1..n : i < j => i \in 1..j-1
          OBVIOUS
        <4>2. \A k \in 1..n : \A j \in 1..k-1 : j \in 1..n /\ j # k
          OBVIOUS
        <4>3. \A i, j \in 1..n : i = j \/ i < j \/ j < i
          OBVIOUS
        <4> HIDE DEF doc
        <4> QED
          BY <4>1, <4>2, <4>3
      <3> QED
        BY <3>2, <3>3, <3>4
    <2> HIDE DEF doc
    <2>5. GoodGroup(e) <=>
             /\ doc.name = e /\ doc.description \in Description /\ doc.members # Bad
             /\ \A i \in DOMAIN doc.members : doc.members[i] \in V4
             /\ \A i, j \in DOMAIN doc.members : doc.members[i] = doc.members[j] => i = j
      BY <1>4 DEF GoodGroup, doc
    <2> QED
      BY <2>2, <2>3, <2>4, <2>5, <1>4
  <1> QED
    BY <1>2, <1>3, <1>4

\* A rule document is one the loader knows the parts of.
LEMMA RuleShape ==
    ASSUME tree \in Trees, NEW e \in Directories, NEW d \in Direction,
           IsList(tree[e].file[d])
    PROVE  /\ tree[e].file[d] \in Seq({Bad} \cup RuleDocument)
           /\ DOMAIN tree[e].file[d] = 1..Len(tree[e].file[d])
           /\ Len(tree[e].file[d]) \in Nat
           /\ \A i \in DOMAIN tree[e].file[d] :
                 tree[e].file[d][i] # Bad => tree[e].file[d][i] \in RuleDocument
  <1> DEFINE list == tree[e].file[d]
  <1>1. list \in NoDocument \cup Seq({Bad} \cup RuleDocument)
    BY DirectoryShape DEF Directory
  <1>2. list \in Seq({Bad} \cup RuleDocument)
    BY <1>1 DEF IsList
  <1> HIDE DEF list
  <1>3. DOMAIN list = 1..Len(list) /\ Len(list) \in Nat
    BY <1>2
  <1>4. \A i \in DOMAIN list : list[i] \in {Bad} \cup RuleDocument
    BY <1>2, <1>3
  <1> QED
    BY <1>2, <1>3, <1>4 DEF list

\* RuleFault (parse_rule): the first fault looked for is found when there is
\* one, and none when there is none.
LEMMA RuleFaultIsAFault ==
    ASSUME NEW doc, doc # Bad => doc \in RuleDocument
    PROVE  RuleFault(doc) = "none" <=> GoodRule(doc)
  <1>1. None \notin Name \cup DOMAIN Canonical
    BY LoaderAssumption, EstateAssumption
  <1> QED
    BY <1>1 DEF RuleFault, GoodRule

\* RuleErrors (parse_rule_list): a list with nothing to tell is one in which
\* every rule is right and no two say the same.
LEMMA RuleErrorsAreFaults ==
    ASSUME tree \in Trees, NEW e \in Directories, NEW d \in Direction,
           IsList(tree[e].file[d])
    PROVE  RuleErrors(e, d, tree[e].file[d]) = {} <=>
              \A i \in DOMAIN tree[e].file[d] :
                 /\ GoodRule(tree[e].file[d][i])
                 /\ \A j \in DOMAIN tree[e].file[d] :
                       GoodRule(tree[e].file[d][j])
                         /\ SameRule(tree[e].file[d][i], tree[e].file[d][j]) => i = j
  <1> DEFINE list == tree[e].file[d]
             n == Len(list)
             Faulty == {k \in 1..n : RuleFault(list[k]) # "none"}
             Double == {k \in 1..n : RuleFault(list[k]) = "none" /\ Seen(e, d, list, k)}
             Same(i, j) == SameRule(list[i], list[j])
             Good(i) == GoodRule(list[i])
  <1>1. DOMAIN list = 1..n /\ n \in Nat
    BY RuleShape
  <1>2. \A i \in 1..n : RuleFault(list[i]) = "none" <=> Good(i)
    BY <1>1, RuleShape, RuleFaultIsAFault
  <1>3. RuleErrors(e, d, list) = {} <=> Faulty = {} /\ Double = {}
    BY <1>1 DEF RuleErrors
  <1>4. \A i, j : RuleOf(e, d, list[i]) = RuleOf(e, d, list[j]) <=> Same(i, j)
    BY DEF RuleOf, SameRule
  <1>5. \A i : Seen(e, d, list, i) <=>
           \E j \in 1..i-1 : RuleFault(list[j]) = "none" /\ Same(j, i)
    BY <1>4 DEF Seen
  <1>6. \A i, j : Same(i, j) <=> Same(j, i)
    BY DEF SameRule
  <1>7. Faulty = {} <=> \A i \in 1..n : Good(i)
    BY <1>2
  <1>8. ASSUME \A i \in 1..n : Good(i)
        PROVE  Double = {} <=> \A i, j \in 1..n : Same(i, j) => i = j
    <2>1. Double = {} <=> \A k \in 1..n : ~\E j \in 1..k-1 : Same(j, k)
      <3>1. \A k \in 1..n : \A j \in 1..k-1 : j \in 1..n
        BY <1>1
      <3>2. \A k \in 1..n : Seen(e, d, list, k) <=> \E j \in 1..k-1 : Same(j, k)
        BY <3>1, <1>2, <1>5, <1>8
      <3> QED
        BY <3>2, <1>2, <1>8
    <2>2. /\ \A i, j \in 1..n : i < j => i \in 1..j-1
          /\ \A k \in 1..n : \A j \in 1..k-1 : j \in 1..n /\ j # k
          /\ \A i, j \in 1..n : i = j \/ i < j \/ j < i
      <3> HIDE DEF n
      <3> QED
        BY <1>1
    <2> HIDE DEF Same, n, Double
    <2> QED
      BY <2>1, <2>2, <1>6
  <1> HIDE DEF Same, n, Faulty, Double, Good
  <1>9. RuleErrors(e, d, list) = {} <=>
           \A i \in 1..n : Good(i) /\ \A j \in 1..n : Good(j) /\ Same(i, j) => i = j
    BY <1>3, <1>7, <1>8
  <1> QED
    BY <1>9, <1>1 DEF Same, Good

\* DirectionErrors and the check across files (load_project): a file of a
\* group's directory passes when nothing in it is at fault and every group
\* it names has a directory.
LEMMA DirectionErrorsAreFaults ==
    ASSUME tree \in Trees, NEW e \in Directories, NEW d \in Direction
    PROVE  GoodDirection(tree[e].file[d]) <=>
              /\ DirectionErrors(e, d, tree[e].file[d]) = {}
              /\ IsList(tree[e].file[d]) =>
                   \A i \in DOMAIN tree[e].file[d] :
                      tree[e].file[d][i].remote \in Name
                         => tree[e].file[d][i].remote \in Directories
  <1> DEFINE doc == tree[e].file[d]
  <1>1. CASE doc = Absent
    <2>1. DirectionErrors(e, d, doc) = {}
      BY <1>1, LoaderAssumption DEF DirectionErrors
    <2> QED
      BY <1>1, <2>1 DEF GoodDirection, IsList, NoDocument
  <1>2. CASE doc # Absent /\ ~IsList(doc)
    <2>1. DirectionErrors(e, d, doc) # {}
      BY <1>2 DEF DirectionErrors, IsList, NoDocument
    <2> QED
      BY <1>2, <2>1 DEF GoodDirection
  <1>3. CASE IsList(doc)
    <2>1. doc # Absent /\ DirectionErrors(e, d, doc) = RuleErrors(e, d, doc)
      BY <1>3 DEF DirectionErrors, IsList, NoDocument
    <2> QED
      BY <1>3, <2>1, RuleErrorsAreFaults DEF GoodDirection
  <1> QED
    BY <1>1, <1>2, <1>3

\* In a file that passes every rule is taken (parse_rule_list).
LEMMA RulesOfGoodFile ==
    ASSUME tree \in Trees, NEW e \in Directories, NEW d \in Direction,
           IsList(tree[e].file[d]),
           DirectionErrors(e, d, tree[e].file[d]) = {}
    PROVE  RulesIn(e, d, tree[e].file[d]) =
              {RuleOf(e, d, tree[e].file[d][i]) : i \in DOMAIN tree[e].file[d]}
  <1> DEFINE doc == tree[e].file[d]
  <1>1. RuleErrors(e, d, doc) = {}
    BY DEF DirectionErrors, IsList, NoDocument
  <1>2. \A i \in DOMAIN doc : RuleFault(doc[i]) = "none" /\ ~Seen(e, d, doc, i)
    BY <1>1 DEF RuleErrors
  <1> QED
    BY <1>2 DEF RulesIn

\* A rule that is taken is a rule of its file, and its remote a group name
\* only where the document names a group (parse_rule).
LEMMA TakenRule ==
    ASSUME tree \in Trees, NEW e \in Directories, NEW d \in Direction,
           IsList(tree[e].file[d]), NEW r \in RulesIn(e, d, tree[e].file[d])
    PROVE  /\ r.group = e /\ r.direction = d
           /\ r \in [group : {e}, direction : Direction,
                     services : (SUBSET CodeService) \ {{}}, remote : Name \cup Cidr]
           /\ \E i \in DOMAIN tree[e].file[d] :
                 r = RuleOf(e, d, tree[e].file[d][i])
  <1> DEFINE doc == tree[e].file[d]
  <1>1. PICK i \in DOMAIN doc : RuleFault(doc[i]) = "none" /\ r = RuleOf(e, d, doc[i])
    BY DEF RulesIn
  <1>2. doc[i] # Bad => doc[i] \in RuleDocument
    BY RuleShape
  <1>3. GoodRule(doc[i])
    BY <1>1, <1>2, RuleFaultIsAFault
  <1>4. /\ doc[i].remote \in Name \cup DOMAIN Canonical
        /\ doc[i].services \in (SUBSET CodeService) \ {{}}
    BY <1>2, <1>3 DEF GoodRule, RuleDocument
  <1>5. RemoteIn(doc[i]) \in Name \cup Cidr
    BY <1>4 DEF RemoteIn, Cidr
  <1> HIDE DEF doc
  <1> QED
    BY <1>1, <1>4, <1>5 DEF RuleOf, doc

\* A CIDR is no name (parse_rule).
LEMMA RemoteIsNamed ==
    ASSUME NEW doc, doc.remote \in Name \cup DOMAIN Canonical
    PROVE  /\ RemoteIn(doc) \in Name <=> doc.remote \in Name
           /\ doc.remote \in Name => RemoteIn(doc) = doc.remote
  BY EstateAssumption DEF RemoteIn, Cidr

(***************************************************************************)
(* LoaderInv is inductive.                                                 *)
(***************************************************************************)
\* What a document says does not change while it is read.
LEMMA SameTree ==
    ASSUME tree' = tree
    PROVE  /\ Directories' = Directories
           /\ \A e : EntryErrors(e)' = EntryErrors(e)
           /\ \A e : ErrorsOf(e)' = ErrorsOf(e)
           /\ \A e : MembersIn(e)' = MembersIn(e)
           /\ \A e : ManagedIn(e)' = ManagedIn(e)
           /\ \A e : RulesOf(e)' = RulesOf(e)
  <1>1. Directories' = Directories
    BY DEF Directories
  <1>2. \A e : EntryErrors(e)' = EntryErrors(e)
    BY DEF EntryErrors
  <1>3. \A e : ErrorsOf(e)' = ErrorsOf(e)
    BY <1>2 DEF ErrorsOf
  <1>4. /\ \A e : MembersIn(e)' = MembersIn(e)
        /\ \A e : ManagedIn(e)' = ManagedIn(e)
        /\ \A e : RulesOf(e)' = RulesOf(e)
    BY DEF MembersIn, ManagedIn, RulesOf
  <1> QED
    BY <1>1, <1>2, <1>3, <1>4

\* One entry more has been read.
LEMMA ReadMore ==
    ASSUME LoaderInv, NEW e \in left, left' = left \ {e}, tree' = tree
    PROVE  /\ e \in Directories => Read' = Read \cup {e}
           /\ e \notin Directories => Read' = Read
           /\ e \notin Read
  <1>1. Directories' = Directories
    BY SameTree
  <1> QED
    BY <1>1 DEF Read

\* The reading says what it said.
LEMMA SameLoaded ==
    ASSUME LoadedIsRead, UNCHANGED <<tree, loaded>>, Taken' = Taken
    PROVE  LoadedIsRead'
  <1>1. /\ {MembersIn(e)' : e \in Taken'} = {MembersIn(e) : e \in Taken}
        /\ {ManagedIn(e)' : e \in Taken'} = {ManagedIn(e) : e \in Taken}
        /\ {RulesOf(e)' : e \in Taken'} = {RulesOf(e) : e \in Taken}
    BY SameTree
  <1> QED
    BY <1>1 DEF LoadedIsRead

LEMMA SkipKeepsInv ==
    ASSUME LoaderInv, NEW e \in left, SkipEntry(e)
    PROVE  LoaderInv'
  <1>1. tree' = tree /\ left' = left \ {e} /\ UNCHANGED <<loaded, errors, outcome>>
    BY DEF SkipEntry
  <1>2. e \notin Directories
    BY DEF SkipEntry, Directories
  <1>3. Read' = Read
    BY <1>1, <1>2, ReadMore
  <1>4. Taken' = Taken /\ Told' = Told
    BY <1>1, <1>3, SameTree DEF Taken, Told
  <1>5. LoadedIsRead'
    BY <1>1, <1>4, SameLoaded DEF LoaderInv
  <1>6. outcome = "reading"
    BY DEF LoaderInv
  <1> QED
    BY <1>1, <1>4, <1>5, <1>6 DEF LoaderInv

LEMMA RefuseKeepsInv ==
    ASSUME LoaderInv, NEW e \in left, RefuseEntry(e)
    PROVE  LoaderInv'
  <1>1. /\ tree' = tree /\ left' = left \ {e} /\ UNCHANGED <<loaded, outcome>>
        /\ EntryErrors(e) # {} /\ errors' = errors \cup EntryErrors(e)
    BY DEF RefuseEntry
  <1>2. outcome = "reading" /\ errors = Told /\ left # {}
    BY DEF LoaderInv
  <1>3. e \in Directories
    BY DEF RefuseEntry, Directories, LoaderInv
  <1>4. Read' = Read \cup {e}
    BY <1>1, <1>3, ReadMore
  <1>5. Taken' = Taken
    BY <1>1, <1>4, SameTree DEF Taken
  <1>6. Told' = Told \cup ErrorsOf(e)
    BY <1>1, <1>4, SameTree DEF Told
  <1>7. ErrorsOf(e) = EntryErrors(e)
    BY <1>1 DEF ErrorsOf
  <1>8. LoadedIsRead'
    BY <1>1, <1>5, SameLoaded DEF LoaderInv
  <1> QED
    BY <1>1, <1>2, <1>6, <1>7, <1>8 DEF LoaderInv

LEMMA LoadKeepsInv ==
    ASSUME LoaderInv, NEW e \in left, LoadEntry(e)
    PROVE  LoaderInv'
  <1> DEFINE file == tree[e].file
             present == {d \in Direction : file[d] # Absent}
  <1>1. /\ tree' = tree /\ left' = left \ {e} /\ outcome' = outcome
        /\ EntryErrors(e) = {}
        /\ errors' = errors \cup UNION {DirectionErrors(e, d, file[d]) : d \in Direction}
    BY DEF LoadEntry
  <1>2. outcome = "reading" /\ errors = Told /\ left # {}
    BY DEF LoaderInv
  <1>3. e \in Directories
    BY DEF LoadEntry, Directories, LoaderInv
  <1>4. Read' = Read \cup {e}
    BY <1>1, <1>3, ReadMore
  <1>5. Taken' = Taken \cup {e}
    BY <1>1, <1>4, SameTree DEF Taken
  <1>6. Told' = Told \cup ErrorsOf(e)
    BY <1>1, <1>4, SameTree DEF Told
  <1>7. ErrorsOf(e) = UNION {DirectionErrors(e, d, file[d]) : d \in Direction}
    BY <1>1 DEF ErrorsOf
  <1>8. /\ loaded'.groups = loaded.groups \cup {e}
        /\ loaded'.description = [loaded.description EXCEPT ![e] = tree[e].group.description]
        /\ loaded'.members = loaded.members \cup MembersIn(e)
        /\ loaded'.managed = loaded.managed \cup {<<e, d>> : d \in present}
        /\ loaded'.rules = loaded.rules \cup RulesOf(e)
        /\ loaded' = [groups |-> loaded'.groups, description |-> loaded'.description,
                      members |-> loaded'.members, managed |-> loaded'.managed,
                      rules |-> loaded'.rules]
    <2>1. UNION {RulesIn(e, d, file[d]) : d \in {x \in present : IsList(file[x])}} = RulesOf(e)
      BY DEF RulesOf
    <2>2. {<<e, tree[e].group.members[i]>> : i \in DOMAIN tree[e].group.members} = MembersIn(e)
      BY DEF MembersIn
    <2> HIDE DEF present, file
    <2> QED
      BY <2>1, <2>2 DEF LoadEntry, present, file
  <1>9. {<<e, d>> : d \in present} = ManagedIn(e)
    BY DEF ManagedIn
  <1>10. loaded'.description \in [GroupName -> Description]
    <2>1. GoodGroup(e)
      BY <1>1, <1>3, GroupErrorsAreFaults DEF LoaderInv
    <2> QED
      BY <2>1, <1>8 DEF GoodGroup, LoaderInv, LoadedIsRead
  <1>11. LoadedIsRead'
    <2>1. loaded'.groups = Taken'
      BY <1>8, <1>5 DEF LoaderInv, LoadedIsRead
    <2> HIDE DEF file, present
    <2>2. loaded'.members = UNION {MembersIn(x)' : x \in Taken'}
      <3>1. {MembersIn(x)' : x \in Taken'} = {MembersIn(x) : x \in Taken} \cup {MembersIn(e)}
        BY <1>5, <1>1, SameTree
      <3> QED
        BY <3>1, <1>8 DEF LoaderInv, LoadedIsRead
    <2>3. loaded'.managed = UNION {ManagedIn(x)' : x \in Taken'}
      <3>1. {ManagedIn(x)' : x \in Taken'} = {ManagedIn(x) : x \in Taken} \cup {ManagedIn(e)}
        BY <1>5, <1>1, SameTree
      <3> QED
        BY <3>1, <1>8, <1>9 DEF LoaderInv, LoadedIsRead
    <2>4. loaded'.rules = UNION {RulesOf(x)' : x \in Taken'}
      <3>1. {RulesOf(x)' : x \in Taken'} = {RulesOf(x) : x \in Taken} \cup {RulesOf(e)}
        BY <1>5, <1>1, SameTree
      <3> QED
        BY <3>1, <1>8 DEF LoaderInv, LoadedIsRead
    <2> QED
      BY <2>1, <2>2, <2>3, <2>4, <1>8, <1>10 DEF LoadedIsRead
  <1> QED
    BY <1>1, <1>2, <1>6, <1>7, <1>11 DEF LoaderInv

LEMMA ConcludeKeepsInv ==
    ASSUME LoaderInv, Conclude
    PROVE  LoaderInv'
  <1>1. /\ UNCHANGED <<tree, left, loaded>> /\ left = {} /\ outcome = "reading"
        /\ errors' = IF tree = NoDirectory
                     THEN {Error("security-groups", "directory", 0, "no directory")}
                     ELSE errors \cup Unknown
        /\ outcome' = IF errors' = {} THEN "accepted" ELSE "refused"
    BY DEF Conclude, Unknown
  <1>2. errors = Told
    BY <1>1 DEF LoaderInv
  <1>3. Read' = Read
    BY <1>1, SameTree DEF Read
  <1>4. Taken' = Taken /\ Told' = Told
    BY <1>1, <1>3, SameTree DEF Taken, Told
  <1>5. Unknown' = Unknown
    BY <1>1 DEF Unknown, Dangling
  <1>6. LoadedIsRead'
    BY <1>1, <1>4, SameLoaded DEF LoaderInv
  <1> QED
    BY <1>1, <1>2, <1>4, <1>5, <1>6 DEF LoaderInv

\* Through every run of the loader, what is loaded and told is what the
\* entries read so far say (load_project).
THEOREM LoaderInvariant == Spec => []LoaderInv
  <1>1. Init => LoaderInv
    <2> SUFFICES ASSUME Init PROVE LoaderInv
      OBVIOUS
    <2>1. Read = {} /\ Taken = {} /\ Told = {}
      BY DEF Init, Read, Taken, Told, Directories
    <2>2. LoadedIsRead
      BY <2>1, EstateAssumption DEF Init, Empty, LoadedIsRead
    <2> QED
      BY <2>1, <2>2 DEF Init, LoaderInv
  <1>2. LoaderInv /\ [Next]_vars => LoaderInv'
    <2> SUFFICES ASSUME LoaderInv, [Next]_vars PROVE LoaderInv'
      OBVIOUS
    <2>1. ASSUME NEW e \in left, SkipEntry(e) \/ RefuseEntry(e) \/ LoadEntry(e)
          PROVE  LoaderInv'
      BY <2>1, SkipKeepsInv, RefuseKeepsInv, LoadKeepsInv
    <2>2. CASE Conclude
      BY <2>2, ConcludeKeepsInv
    <2>3. CASE Returned \/ UNCHANGED vars
      <3>1. UNCHANGED <<tree, left, loaded, errors, outcome>>
        BY <2>3 DEF Returned, vars
      <3>2. Read' = Read
        BY <3>1, SameTree DEF Read
      <3>3. Taken' = Taken /\ Told' = Told
        BY <3>1, <3>2, SameTree DEF Taken, Told
      <3>4. LoadedIsRead' /\ Unknown' = Unknown
        BY <3>1, <3>3, SameLoaded DEF LoaderInv, Unknown, Dangling
      <3> QED
        BY <3>1, <3>3, <3>4 DEF LoaderInv
    <2> QED
      BY <2>1, <2>2, <2>3 DEF Next
  <1> QED
    BY <1>1, <1>2, PTL DEF Spec

(***************************************************************************)
(* What the invariant says of the end.                                     *)
(***************************************************************************)
\* Where an error about a group points (parse_group).
LEMMA GroupErrorPoints ==
    ASSUME tree \in Trees, NEW e \in Directories, NEW x \in EntryErrors(e)
    PROVE  /\ x.entry = e /\ x.file \in {"directory", "group"} /\ x.item \in Nat
           /\ x.what # "unknown group"
  <1> DEFINE doc == tree[e].group
  <1>1. CASE e \notin GroupName
    <2>1. x = Error(e, "directory", 0, "directory name")
      BY <1>1 DEF EntryErrors
    <2> QED
      BY <2>1 DEF Error
  <1>2. CASE e \in GroupName /\ doc \in NoDocument
    <2>1. PICK f \in {"directory", "group"},
               w \in {"missing group.yaml", "unreadable", "empty", "not a mapping"} :
             x = Error(e, f, 0, w)
      BY <1>2, LoaderAssumption DEF EntryErrors, GroupErrors, NoDocument
    <2> QED
      BY <2>1 DEF Error
  <1>3. CASE e \in GroupName /\ doc \notin NoDocument
    <2>1. doc \in GroupDocument
      BY <1>3, DirectoryShape DEF Directory
    <2>2. x \in FieldErrors(e, doc) \cup DuplicateIps(e, doc)
                  \cup {Error(e, "group", 0, "not the directory's name")}
      BY <1>3 DEF EntryErrors, GroupErrors, NoDocument
    <2>3. ASSUME doc.members # Bad PROVE DOMAIN doc.members \subseteq Nat
      <3>1. doc.members \in Seq(Addr \cup {Bad})
        BY <2>1, <2>3 DEF GroupDocument
      <3> QED
        BY <3>1
    <2> HIDE DEF doc
    <2>4. CASE x \in FieldErrors(e, doc)
      <3>1. PICK k \in Nat, w \in {"name", "description", "members", "ip"} : x = Error(e, "group", k, w)
        BY <2>3, <2>4 DEF FieldErrors, BadMembers
      <3> QED
        BY <3>1 DEF Error
    <2>5. CASE x \in DuplicateIps(e, doc) \cup {Error(e, "group", 0, "not the directory's name")}
      <3>1. PICK w \in {"duplicate ip", "not the directory's name"} : x = Error(e, "group", 0, w)
        BY <2>5 DEF DuplicateIps
      <3> QED
        BY <3>1 DEF Error
    <2> QED
      BY <2>2, <2>4, <2>5
  <1> QED
    BY <1>1, <1>2, <1>3

\* Where an error about a direction file points (parse_rule_list).
LEMMA DirectionErrorPoints ==
    ASSUME tree \in Trees, NEW e \in Directories, NEW d \in Direction,
           NEW x \in DirectionErrors(e, d, tree[e].file[d])
    PROVE  x.entry = e /\ x.file = d /\ x.item \in Nat
  <1> DEFINE doc == tree[e].file[d]
  <1>1. CASE doc \in NoDocument
    <2>1. PICK w : x = Error(e, d, 0, w)
      BY <1>1, LoaderAssumption DEF DirectionErrors, NoDocument
    <2> QED
      BY <2>1 DEF Error
  <1>2. CASE IsList(doc)
    <2>1. DOMAIN doc \subseteq Nat
      BY <1>2, RuleShape
    <2>2. x \in RuleErrors(e, d, doc)
      BY <1>2 DEF DirectionErrors, IsList, NoDocument
    <2> HIDE DEF doc
    <2>3. PICK k \in DOMAIN doc : \E w : x = Error(e, d, k, w)
      BY <2>2 DEF RuleErrors
    <2> QED
      BY <2>1, <2>3 DEF Error
  <1> QED
    BY <1>1, <1>2 DEF IsList

\* Where each error points: into a group's own files, or across them.
LEMMA ErrorPoints ==
    ASSUME LoaderInv, tree # NoDirectory, NEW x \in errors
    PROVE  \/ /\ outcome # "reading" /\ x \in Unknown
           \/ \E e \in Read : x \in EntryErrors(e)
           \/ \E e \in Taken : \E d \in Direction : x \in DirectionErrors(e, d, tree[e].file[d])
  BY DEF LoaderInv, Told, ErrorsOf, Taken

\* What has been loaded, part by part.
LEMMA LoadedParts ==
    ASSUME LoaderInv
    PROVE  /\ tree \in Trees
           /\ loaded.groups = Taken
           /\ loaded.members = UNION {MembersIn(e) : e \in Taken}
           /\ loaded.managed = UNION {ManagedIn(e) : e \in Taken}
           /\ loaded.rules = UNION {RulesOf(e) : e \in Taken}
           /\ \A e \in Taken : e \in Directories /\ GoodGroup(e) /\ e \in GroupName
  <1>1. LoadedIsRead /\ tree \in Trees
    BY DEF LoaderInv
  <1>2. \A e \in Taken : e \in Directories /\ GoodGroup(e)
    BY <1>1, GroupErrorsAreFaults DEF Taken, Read
  <1> QED
    BY <1>1, <1>2 DEF LoadedIsRead, GoodGroup

\* The rules and members loaded are typed, and of loaded groups.
LEMMA LoadedType ==
    ASSUME LoaderInv
    PROVE  /\ loaded.groups \subseteq GroupName /\ loaded.groups \subseteq Directories
           /\ \A m \in loaded.members : m \in loaded.groups \X V4
           /\ \A m \in loaded.managed : m \in loaded.groups \X Direction
           /\ \A r \in loaded.rules :
                 /\ r \in [group : GroupName, direction : Direction,
                           services : (SUBSET CodeService) \ {{}}, remote : Name \cup Cidr]
                 /\ r.group \in loaded.groups
                 /\ <<r.group, r.direction>> \in loaded.managed
  <1>1. \A e \in Taken : e \in Directories /\ GoodGroup(e) /\ e \in GroupName
    BY LoadedParts
  <1>2. ASSUME NEW m \in loaded.members PROVE m \in loaded.groups \X V4
    <2>1. PICK e \in Taken : m \in MembersIn(e)
      BY LoadedParts
    <2> QED
      BY <2>1, <1>1, LoadedParts DEF MembersIn, GoodGroup
  <1>3. ASSUME NEW m \in loaded.managed PROVE m \in loaded.groups \X Direction
    <2>1. PICK e \in Taken : m \in ManagedIn(e)
      BY LoadedParts
    <2> QED
      BY <2>1, LoadedParts DEF ManagedIn
  <1>4. ASSUME NEW r \in loaded.rules
        PROVE  /\ r \in [group : GroupName, direction : Direction,
                         services : (SUBSET CodeService) \ {{}}, remote : Name \cup Cidr]
               /\ r.group \in loaded.groups
               /\ <<r.group, r.direction>> \in loaded.managed
    <2>1. PICK e \in Taken : r \in RulesOf(e)
      BY LoadedParts
    <2>2. PICK d \in Direction : /\ tree[e].file[d] # Absent /\ IsList(tree[e].file[d])
                                 /\ r \in RulesIn(e, d, tree[e].file[d])
      BY <2>1 DEF RulesOf
    <2>3. /\ r.group = e /\ r.direction = d
          /\ r \in [group : {e}, direction : Direction,
                     services : (SUBSET CodeService) \ {{}}, remote : Name \cup Cidr]
      BY <1>1, <2>2, TakenRule, LoadedParts
    <2>4. <<e, d>> \in ManagedIn(e)
      BY <2>2 DEF ManagedIn
    <2> QED
      BY <2>1, <2>3, <2>4, <1>1, LoadedParts
  <1> QED
    BY <1>1, <1>2, <1>3, <1>4, LoadedParts

\* TypeOK: the loader's state stays well typed, and every error points to a
\* file and a place in it (load_project).
THEOREM TypeCorrect == Spec => []TypeOK
  <1>1. LoaderInv => TypeOK
    <2> SUFFICES ASSUME LoaderInv PROVE TypeOK
      OBVIOUS
    <2>1. loaded \in [groups : SUBSET GroupName, description : [GroupName -> Description],
                      members : SUBSET (GroupName \X V4),
                      managed : SUBSET (GroupName \X Direction),
                      rules : SUBSET [group : GroupName, direction : Direction,
                                      services : (SUBSET CodeService) \ {{}},
                                      remote : Name \cup Cidr]]
      <3>1. /\ loaded.groups \in SUBSET GroupName
            /\ loaded.members \in SUBSET (GroupName \X V4)
            /\ loaded.managed \in SUBSET (GroupName \X Direction)
            /\ loaded.rules \in SUBSET [group : GroupName, direction : Direction,
                                        services : (SUBSET CodeService) \ {{}},
                                        remote : Name \cup Cidr]
        BY LoadedType
      <3>2. /\ loaded.description \in [GroupName -> Description]
            /\ loaded = [groups |-> loaded.groups, description |-> loaded.description,
                         members |-> loaded.members, managed |-> loaded.managed,
                         rules |-> loaded.rules]
        BY DEF LoaderInv, LoadedIsRead
      <3> QED
        BY <3>1, <3>2
    <2>2. ASSUME NEW x \in errors PROVE x.file \in File /\ x.item \in Nat
      <3>1. CASE tree = NoDirectory
        <4>1. Told = {}
          BY <3>1 DEF Told, Read, Directories
        <4>2. outcome = "reading" => errors = {}
          BY <4>1 DEF LoaderInv
        <4>3. outcome # "reading" =>
                errors = {Error("security-groups", "directory", 0, "no directory")}
          BY <3>1 DEF LoaderInv
        <4>4. x = Error("security-groups", "directory", 0, "no directory")
          BY <4>2, <4>3
        <4> QED
          BY <4>4 DEF Error, File
      <3>2. CASE tree # NoDirectory /\ x \in Unknown
        <4>1. PICK r \in Dangling : x = Error(r.group, "directory", 0, "unknown group")
          BY <3>2 DEF Unknown
        <4> QED
          BY <4>1 DEF Error, File
      <3>3. CASE \E e \in Read : x \in EntryErrors(e)
        BY <3>3, GroupErrorPoints DEF LoaderInv, Read, File
      <3>4. CASE \E e \in Taken : \E d \in Direction : x \in DirectionErrors(e, d, tree[e].file[d])
        <4>1. PICK e \in Taken, d \in Direction : x \in DirectionErrors(e, d, tree[e].file[d])
          BY <3>4
        <4>2. e \in Directories /\ tree \in Trees
          BY DEF LoaderInv, Read, Taken
        <4>3. x.file = d /\ x.item \in Nat
          BY <4>1, <4>2, DirectionErrorPoints
        <4> QED
          BY <4>3 DEF File
      <3> QED
        BY <3>1, <3>2, <3>3, <3>4, ErrorPoints
    <2> QED
      BY <2>1, <2>2 DEF LoaderInv, TypeOK
  <1> QED
    BY <1>1, LoaderInvariant, PTL

\* An accepted tree has no fault, and an accepted state no dangling remote.
LEMMA AcceptedIsFaultless ==
    ASSUME LoaderInv, outcome = "accepted"
    PROVE  /\ tree # NoDirectory /\ Read = Directories /\ Taken = Directories
           /\ Dangling = {}
           /\ \A e \in Directories : ErrorsOf(e) = {}
  <1>1. /\ errors = {} /\ left = {}
        /\ errors = IF tree = NoDirectory
                    THEN {Error("security-groups", "directory", 0, "no directory")}
                    ELSE Told \cup Unknown
    BY DEF LoaderInv
  <1>2. tree # NoDirectory /\ Told = {} /\ Unknown = {}
    BY <1>1
  <1>3. Read = Directories
    BY <1>1 DEF Read
  <1>4. \A e \in Directories : ErrorsOf(e) = {}
    BY <1>2, <1>3 DEF Told
  <1>5. Taken = Directories
    BY <1>3, <1>4 DEF Taken, ErrorsOf
  <1> QED
    BY <1>2, <1>3, <1>4, <1>5 DEF Unknown

\* AcceptedIsLoaded: what plan and execute assume of a project (Loaded) is
\* what load_project has made sure of.
THEOREM AcceptedProjectIsLoaded == Spec => []AcceptedIsLoaded
  <1>1. LoaderInv => AcceptedIsLoaded
    <2> SUFFICES ASSUME LoaderInv, outcome = "accepted" PROVE Loaded(loaded)
      BY DEF AcceptedIsLoaded
    <2>1. Dangling = {}
      BY AcceptedIsFaultless
    <2>2. ASSUME NEW r \in loaded.rules
          PROVE  /\ r \in CodeRule
                 /\ r.remote \in GroupName => r.remote \in loaded.groups
      <3>1. r.remote \in Name => r.remote \in loaded.groups
        BY <2>1 DEF Dangling
      <3>2. /\ r \in [group : GroupName, direction : Direction,
                      services : (SUBSET CodeService) \ {{}}, remote : Name \cup Cidr]
            /\ loaded.groups \subseteq GroupName /\ GroupName \subseteq Name
        BY LoadedType, EstateAssumption
      <3>3. r.remote \in GroupName \cup Cidr
        BY <3>1, <3>2
      <3> QED
        BY <3>1, <3>2, <3>3 DEF CodeRule
    <2>3. loaded \in DesiredState
      <3>1. /\ loaded.groups \in SUBSET GroupName
            /\ loaded.members \in SUBSET (GroupName \X V4)
            /\ loaded.managed \in SUBSET (GroupName \X Direction)
            /\ loaded.rules \in SUBSET CodeRule
        BY LoadedType, <2>2
      <3>2. /\ loaded.description \in [GroupName -> Description]
            /\ loaded = [groups |-> loaded.groups, description |-> loaded.description,
                         members |-> loaded.members, managed |-> loaded.managed,
                         rules |-> loaded.rules]
        BY DEF LoaderInv, LoadedIsRead
      <3> QED
        BY <3>1, <3>2 DEF DesiredState
    <2> QED
      BY <2>2, <2>3, LoadedType DEF Loaded
  <1> QED
    BY <1>1, LoaderInvariant, PTL

\* A tree without a fault is accepted, and one that is accepted has none.
LEMMA AcceptedIfFaultless ==
    ASSUME LoaderInv, outcome # "reading"
    PROVE  outcome = "accepted" <=>
              /\ tree # NoDirectory
              /\ \A e \in Directories :
                    GoodGroup(e) /\ \A d \in Direction : GoodDirection(tree[e].file[d])
  <1>1. tree \in Trees /\ left = {} /\ Read = Directories
    BY DEF LoaderInv, Read
  <1>2. ASSUME outcome = "accepted", NEW e \in Directories
        PROVE  GoodGroup(e) /\ \A d \in Direction : GoodDirection(tree[e].file[d])
    <2>1. EntryErrors(e) = {} /\ \A d \in Direction : DirectionErrors(e, d, tree[e].file[d]) = {}
      BY <1>2, AcceptedIsFaultless DEF ErrorsOf
    <2>2. GoodGroup(e)
      BY <1>1, <2>1, GroupErrorsAreFaults
    <2>3. ASSUME NEW d \in Direction, IsList(tree[e].file[d]), NEW i \in DOMAIN tree[e].file[d],
                 tree[e].file[d][i].remote \in Name
          PROVE  tree[e].file[d][i].remote \in Directories
      <3> DEFINE r == RuleOf(e, d, tree[e].file[d][i])
      <3>1. r \in RulesIn(e, d, tree[e].file[d])
        BY <1>1, <2>1, <2>3, RulesOfGoodFile
      <3>2. tree[e].file[d] # Absent
        BY <2>3 DEF IsList, NoDocument
      <3>3. r \in loaded.rules
        BY <1>2, <3>1, <3>2, <2>3, AcceptedIsFaultless, LoadedParts DEF RulesOf
      <3>4. r.remote = tree[e].file[d][i].remote
        BY <2>3, RemoteIsNamed DEF RuleOf
      <3>5. r.remote \in loaded.groups
        BY <1>2, <2>3, <3>3, <3>4, AcceptedIsFaultless DEF Dangling
      <3> QED
        BY <1>2, <3>4, <3>5, LoadedParts, AcceptedIsFaultless
    <2> QED
      BY <1>1, <2>1, <2>2, <2>3, DirectionErrorsAreFaults
  <1>3. ASSUME tree # NoDirectory,
               \A e \in Directories :
                  GoodGroup(e) /\ \A d \in Direction : GoodDirection(tree[e].file[d])
        PROVE  outcome = "accepted"
    <2>1. \A e \in Directories : EntryErrors(e) = {}
      BY <1>1, <1>3, GroupErrorsAreFaults
    <2>2. \A e \in Directories : \A d \in Direction : DirectionErrors(e, d, tree[e].file[d]) = {}
      BY <1>1, <1>3, DirectionErrorsAreFaults
    <2>3. Taken = Directories /\ Told = {}
      BY <1>1, <2>1, <2>2 DEF Taken, Told, ErrorsOf
    <2>4. ASSUME NEW r \in loaded.rules, r.remote \in Name PROVE r.remote \in loaded.groups
      <3>1. PICK e \in Directories : r \in RulesOf(e)
        BY <2>3, LoadedParts
      <3>2. PICK d \in Direction : /\ IsList(tree[e].file[d])
                                   /\ r \in RulesIn(e, d, tree[e].file[d])
        BY <3>1 DEF RulesOf
      <3>3. PICK i \in DOMAIN tree[e].file[d] : r = RuleOf(e, d, tree[e].file[d][i])
        BY <1>1, <3>2, TakenRule
      <3>4. /\ GoodRule(tree[e].file[d][i])
            /\ tree[e].file[d][i].remote \in Name => tree[e].file[d][i].remote \in Directories
        BY <1>3, <3>2 DEF GoodDirection, IsList, NoDocument
      <3>5. r.remote = RemoteIn(tree[e].file[d][i])
        BY <3>3 DEF RuleOf
      <3> QED
        BY <2>3, <2>4, <3>4, <3>5, RemoteIsNamed, LoadedParts DEF GoodRule
    <2>5. Unknown = {}
      BY <2>4 DEF Unknown, Dangling
    <2>6. errors = {}
      BY <1>3, <2>3, <2>5 DEF LoaderInv
    <2> QED
      BY <2>6 DEF LoaderInv
  <1> QED
    BY <1>2, <1>3, AcceptedIsFaultless

\* Nothing in an accepted tree is overlooked.
LEMMA NothingOverlooked ==
    ASSUME LoaderInv, outcome = "accepted", NEW e \in Directories
    PROVE  /\ \A d \in Direction :
                LET doc == tree[e].file[d]
                IN  /\ (<<e, d>> \in loaded.managed) = (doc # Absent)
                    /\ {r \in loaded.rules : r.group = e /\ r.direction = d} =
                          IF doc = Absent THEN {} ELSE {RuleOf(e, d, doc[i]) : i \in DOMAIN doc}
           /\ {m[2] : m \in {x \in loaded.members : x[1] = e}} =
                {tree[e].group.members[i] : i \in DOMAIN tree[e].group.members}
  <1>1. tree \in Trees /\ Taken = Directories
    BY AcceptedIsFaultless, LoadedParts
  <1>2. ASSUME NEW d \in Direction
        PROVE  (<<e, d>> \in loaded.managed) = (tree[e].file[d] # Absent)
    <2>1. <<e, d>> \in loaded.managed <=> \E x \in Directories : <<e, d>> \in ManagedIn(x)
      BY <1>1, LoadedParts
    <2> QED
      BY <2>1 DEF ManagedIn
  <1>3. ASSUME NEW d \in Direction
        PROVE  {r \in loaded.rules : r.group = e /\ r.direction = d} =
                  IF tree[e].file[d] = Absent THEN {}
                  ELSE {RuleOf(e, d, tree[e].file[d][i]) : i \in DOMAIN tree[e].file[d]}
    <2> DEFINE doc == tree[e].file[d]
    <2>1. \A x \in Directories : EntryErrors(x) = {} /\
             \A y \in Direction : DirectionErrors(x, y, tree[x].file[y]) = {}
      BY AcceptedIsFaultless DEF ErrorsOf
    <2>2. ASSUME NEW r \in loaded.rules, r.group = e, r.direction = d
          PROVE  IsList(doc) /\ r \in RulesIn(e, d, doc)
      <3>1. PICK x \in Directories : r \in RulesOf(x)
        BY <1>1, LoadedParts
      <3>2. PICK y \in Direction : IsList(tree[x].file[y]) /\ r \in RulesIn(x, y, tree[x].file[y])
        BY <3>1 DEF RulesOf
      <3>3. x = e /\ y = d
        BY <1>1, <2>2, <3>2, TakenRule
      <3> QED
        BY <3>2, <3>3
    <2>3. ASSUME IsList(doc), NEW r \in RulesIn(e, d, doc)
          PROVE  r \in loaded.rules /\ r.group = e /\ r.direction = d
      <3>1. r.group = e /\ r.direction = d
        BY <1>1, <2>3, TakenRule
      <3>2. doc # Absent
        BY <2>3 DEF IsList, NoDocument
      <3>3. r \in RulesOf(e)
        BY <2>3, <3>2 DEF RulesOf
      <3> QED
        BY <1>1, <3>1, <3>3, LoadedParts
    <2>4. IsList(doc) => RulesIn(e, d, doc) = {RuleOf(e, d, doc[i]) : i \in DOMAIN doc}
      BY <1>1, <2>1, RulesOfGoodFile
    <2>5. IsList(doc) \/ doc = Absent
      BY <2>1 DEF DirectionErrors, IsList, NoDocument
    <2>6. doc = Absent => ~IsList(doc)
      BY DEF IsList, NoDocument
    <2> DEFINE these == {r \in loaded.rules : r.group = e /\ r.direction = d}
    <2>7. IsList(doc) => these = RulesIn(e, d, doc)
      BY <2>2, <2>3
    <2>8. ~IsList(doc) => these = {}
      BY <2>2
    <2> QED
      BY <2>4, <2>5, <2>6, <2>7, <2>8
  <1>4. {m[2] : m \in {x \in loaded.members : x[1] = e}} =
           {tree[e].group.members[i] : i \in DOMAIN tree[e].group.members}
    <2>1. \A m \in loaded.members : m[1] = e <=> m \in MembersIn(e)
      <3>1. ASSUME NEW m \in loaded.members, m[1] = e PROVE m \in MembersIn(e)
        <4>1. PICK x \in Directories : m \in MembersIn(x)
          BY <1>1, LoadedParts
        <4> QED
          BY <3>1, <4>1 DEF MembersIn
      <3> QED
        BY <3>1 DEF MembersIn
    <2>2. MembersIn(e) \subseteq loaded.members
      BY <1>1, LoadedParts
    <2>3. {x \in loaded.members : x[1] = e} = MembersIn(e)
      BY <2>1, <2>2
    <2>4. {m[2] : m \in MembersIn(e)} =
             {tree[e].group.members[i] : i \in DOMAIN tree[e].group.members}
      <3> DEFINE ips == tree[e].group.members
      <3>1. \A m \in MembersIn(e) : \E i \in DOMAIN ips : m = <<e, ips[i]>>
        BY DEF MembersIn
      <3>2. \A i \in DOMAIN ips : <<e, ips[i]>> \in MembersIn(e)
        BY DEF MembersIn
      <3> HIDE DEF ips
      <3>3. \A m \in MembersIn(e) : m[2] \in {ips[i] : i \in DOMAIN ips}
        BY <3>1
      <3>4. \A i \in DOMAIN ips : \E m \in MembersIn(e) : m[2] = ips[i]
        BY <3>2
      <3> QED
        BY <3>3, <3>4 DEF ips
    <2> QED
      BY <2>3, <2>4
  <1> QED
    BY <1>2, <1>3, <1>4

\* AcceptedIsTheTree: whatever the order of the entries, load_project accepts
\* a tree exactly when no document in it has a fault, and overlooks nothing.
THEOREM AcceptedProjectIsTheTree == Spec => []AcceptedIsTheTree
  <1>1. LoaderInv => AcceptedIsTheTree
    <2> SUFFICES ASSUME LoaderInv, outcome # "reading" PROVE AcceptedIsTheTree
      BY DEF AcceptedIsTheTree
    <2>1. outcome = "accepted" <=>
              /\ tree # NoDirectory
              /\ \A e \in Directories :
                    GoodGroup(e) /\ \A d \in Direction : GoodDirection(tree[e].file[d])
      BY AcceptedIfFaultless
    <2>2. outcome = "accepted" => loaded.groups = Directories
      BY AcceptedIsFaultless, LoadedParts
    <2> QED
      BY <2>1, <2>2, NothingOverlooked DEF AcceptedIsTheTree
  <1> QED
    BY <1>1, LoaderInvariant, PTL

\* FaultsTold: every directory that is no group and every faulty document
\* and rule of the others is named, and nothing that is right (parse_group,
\* parse_rule_list: "every violation is collected").
THEOREM EveryFaultIsTold == Spec => []FaultsTold
  <1>1. LoaderInv => FaultsTold
    <2> SUFFICES ASSUME LoaderInv, outcome # "reading", NEW e \in Directories
                 PROVE
        /\ ~GoodGroup(e) = \E x \in errors : x.entry = e /\ x.file \in {"directory", "group"}
                                            /\ x.what # "unknown group"
        /\ GoodGroup(e) => \A d \in Direction :
              LET doc == tree[e].file[d]
              IN  /\ (\E x \in errors : x.entry = e /\ x.file = d) =>
                        ~GoodDirection(doc)
                  /\ IsList(doc) => \A i \in DOMAIN doc :
                        ~GoodRule(doc[i]) =>
                            \E x \in errors : x.entry = e /\ x.file = d /\ x.item = i
                  /\ doc \in {Unreadable, Null, Bad} =>
                        \E x \in errors : x.entry = e /\ x.file = d
      BY DEF FaultsTold
    <2>1. /\ tree \in Trees /\ tree # NoDirectory /\ Read = Directories
          /\ errors = Told \cup Unknown
      BY DirectoryShape DEF LoaderInv, Read
    <2>2. ASSUME NEW x \in Unknown PROVE x.file = "directory" /\ x.what = "unknown group"
      <3>1. PICK g : x = Error(g, "directory", 0, "unknown group")
        BY DEF Unknown
      <3> QED
        BY <3>1 DEF Error
    <2>3. ASSUME NEW x \in errors, x.entry = e, x.file \in {"directory", "group"},
                 x.what # "unknown group"
          PROVE  ~GoodGroup(e)
      <3>1. x \notin Unknown
        BY <2>2, <2>3
      <3>2. CASE \E y \in Read : x \in EntryErrors(y)
        <4>1. PICK y \in Directories : x \in EntryErrors(y)
          BY <3>2, <2>1
        <4>2. y = e
          BY <4>1, <2>1, <2>3, GroupErrorPoints
        <4> QED
          BY <4>1, <4>2, <2>1, GroupErrorsAreFaults
      <3>3. CASE \E y \in Taken : \E d \in Direction : x \in DirectionErrors(y, d, tree[y].file[d])
        <4>1. PICK y \in Taken, d \in Direction : x \in DirectionErrors(y, d, tree[y].file[d])
          BY <3>3
        <4>2. y \in Directories
          BY <2>1 DEF Taken
        <4>3. x.file = d
          BY <4>1, <4>2, <2>1, DirectionErrorPoints
        <4> QED
          BY <4>3, <2>3 DEF Direction
      <3> QED
        BY <3>1, <3>2, <3>3, <2>1, ErrorPoints
    <2>4. ASSUME ~GoodGroup(e)
          PROVE  \E x \in errors : x.entry = e /\ x.file \in {"directory", "group"}
                                  /\ x.what # "unknown group"
      <3>1. EntryErrors(e) # {}
        BY <2>1, <2>4, GroupErrorsAreFaults
      <3>2. EntryErrors(e) \subseteq errors
        BY <2>1, <3>1 DEF Told, ErrorsOf
      <3>3. PICK x \in EntryErrors(e) : TRUE
        BY <3>1
      <3> QED
        BY <2>1, <3>2, <3>3, GroupErrorPoints
    <2>5. ASSUME GoodGroup(e), NEW d \in Direction
          PROVE  /\ EntryErrors(e) = {}
                 /\ DirectionErrors(e, d, tree[e].file[d]) \subseteq errors
      <3>1. EntryErrors(e) = {}
        BY <2>1, <2>5, GroupErrorsAreFaults
      <3> QED
        BY <2>1, <3>1 DEF Told, ErrorsOf
    <2>6. ASSUME NEW d \in Direction, NEW x \in errors, x.entry = e, x.file = d
          PROVE  ~GoodDirection(tree[e].file[d])
      <3>1. d # "directory" /\ d # "group"
        BY DEF Direction
      <3>2. x \notin Unknown
        BY <2>2, <2>6, <3>1
      <3>3. ASSUME NEW y \in Directories PROVE x \notin EntryErrors(y)
        BY <2>1, <2>6, <3>1, GroupErrorPoints
      <3>4. PICK y \in Taken, c \in Direction : x \in DirectionErrors(y, c, tree[y].file[c])
        BY <3>2, <3>3, <2>1, ErrorPoints
      <3>5. y \in Directories
        BY <2>1 DEF Taken
      <3>6. y = e /\ c = d
        BY <2>1, <2>6, <3>4, <3>5, DirectionErrorPoints
      <3> QED
        BY <2>1, <3>4, <3>6, DirectionErrorsAreFaults
    <2>7. ASSUME GoodGroup(e), NEW d \in Direction, IsList(tree[e].file[d]),
                 NEW i \in DOMAIN tree[e].file[d], ~GoodRule(tree[e].file[d][i])
          PROVE  \E x \in errors : x.entry = e /\ x.file = d /\ x.item = i
      <3> DEFINE doc == tree[e].file[d]
                 x == Error(e, d, i, RuleFault(doc[i]))
      <3>1. RuleFault(doc[i]) # "none"
        BY <2>1, <2>7, RuleShape, RuleFaultIsAFault
      <3>2. x \in RuleErrors(e, d, doc)
        BY <3>1, <2>7 DEF RuleErrors
      <3>3. x \in DirectionErrors(e, d, doc)
        BY <3>2, <2>7 DEF DirectionErrors, IsList, NoDocument
      <3>4. x.entry = e /\ x.file = d /\ x.item = i
        BY DEF Error
      <3> QED
        BY <3>3, <3>4, <2>5, <2>7
    <2>8. ASSUME GoodGroup(e), NEW d \in Direction, tree[e].file[d] \in {Unreadable, Null, Bad}
          PROVE  \E x \in errors : x.entry = e /\ x.file = d
      <3> DEFINE told == DirectionErrors(e, d, tree[e].file[d])
      <3>0. \/ Error(e, d, 0, "unreadable") \in told
            \/ Error(e, d, 0, "empty") \in told
            \/ Error(e, d, 0, "not a list") \in told
        <4> DEFINE doc == tree[e].file[d]
        <4>1. /\ doc # Absent /\ (doc = Unreadable \/ doc = Null \/ doc = Bad)
              /\ Unreadable # Null /\ Unreadable # Bad /\ Null # Bad
          BY <2>8, LoaderAssumption
        <4>2. doc = Unreadable => told = {Error(e, d, 0, "unreadable")}
          BY <4>1 DEF DirectionErrors
        <4>3. doc # Unreadable /\ doc = Null => told = {Error(e, d, 0, "empty")}
          BY <4>1 DEF DirectionErrors
        <4>4. doc # Unreadable /\ doc # Null => told = {Error(e, d, 0, "not a list")}
          BY <4>1 DEF DirectionErrors
        <4> HIDE DEF doc, told
        <4> QED
          BY <4>1, <4>2, <4>3, <4>4
      <3> HIDE DEF told
      <3>1. PICK w : Error(e, d, 0, w) \in told
        BY <3>0
      <3>2. Error(e, d, 0, w).entry = e /\ Error(e, d, 0, w).file = d
        BY DEF Error
      <3> QED
        BY <3>1, <3>2, <2>5, <2>8 DEF told
    <2> QED
      BY <2>3, <2>4, <2>6, <2>7, <2>8
  <1> QED
    BY <1>1, LoaderInvariant, PTL
=============================================================================
