---------------------------- MODULE GatewayProofs ---------------------------
(***************************************************************************)
(* Proofs about module Gateway, for every cloud, page size, number of      *)
(* tries and choice of calls, and any number of changes by others.         *)
(***************************************************************************)
EXTENDS Gateway, FiniteSetTheorems, WellFoundedInduction, TLAPS

(***************************************************************************)
(* Places in a listing.                                                    *)
(***************************************************************************)
\* Every set of naturals has a least element.
LEMMA LeastNat ==
    ASSUME NEW S \in SUBSET Nat, S # {}
    PROVE  \E m \in S : \A k \in S : m <= k
  <1>1. PICK m \in S : \A k \in S : <<k, m>> \notin OpToRel(<, Nat)
    BY WFMin, NatLessThanWellFounded, Zenon
  <1>2. \A k \in S : ~(k < m)
    BY <1>1, Zenon DEF OpToRel
  <1>3. \A k \in S : k \in Nat /\ m \in Nat
    OBVIOUS
  <1> QED
    BY <1>2, <1>3

Listed == SgId \cup PortId
Before(S, i) == {j \in S : Position[j] < Position[i]}

LEMMA Places ==
    /\ \A i \in Listed : Position[i] \in Nat
    /\ \A i, j \in Listed : Position[i] = Position[j] => i = j
    /\ IsFiniteSet(Listed)
    /\ PageSize \in Nat /\ PageSize > 0
  BY GatewayAssumption DEF Listed

\* What comes before an entry of a listing is finite, and less than what
\* comes before a later entry.
LEMMA Ranks ==
    ASSUME NEW S \in SUBSET Listed
    PROVE  /\ IsFiniteSet(S) /\ Cardinality(S) \in Nat
           /\ \A i : IsFiniteSet(Before(S, i)) /\ Cardinality(Before(S, i)) \in Nat
           /\ \A i : Cardinality(Before(S, i)) <= Cardinality(S)
           /\ \A i, j \in S : Position[i] < Position[j] =>
                 Cardinality(Before(S, i)) < Cardinality(Before(S, j))
  <1>1. IsFiniteSet(S) /\ Cardinality(S) \in Nat
    BY Places, FS_Subset, FS_CardinalityType
  <1>2. \A i : Before(S, i) \in SUBSET S
    BY DEF Before
  <1>3. \A i : /\ IsFiniteSet(Before(S, i)) /\ Cardinality(Before(S, i)) \in Nat
               /\ Cardinality(Before(S, i)) <= Cardinality(S)
    BY <1>1, <1>2, FS_Subset, FS_CardinalityType
  <1>4. ASSUME NEW i \in S, NEW j \in S, Position[i] < Position[j]
        PROVE  Cardinality(Before(S, i)) < Cardinality(Before(S, j))
    <2>1. Position[i] \in Nat /\ Position[j] \in Nat /\ \A k \in S : Position[k] \in Nat
      BY Places
    <2>2. Before(S, i) \in SUBSET Before(S, j) /\ i \in Before(S, j) /\ i \notin Before(S, i)
      BY <1>4, <2>1 DEF Before
    <2>3. /\ Cardinality(Before(S, i)) <= Cardinality(Before(S, j))
          /\ Cardinality(Before(S, j)) = Cardinality(Before(S, i)) => Before(S, j) = Before(S, i)
      BY <1>3, <2>2, FS_Subset
    <2> QED
      BY <1>3, <2>2, <2>3
  <1> QED
    BY <1>1, <1>3, <1>4

\* A listing has a first entry and a last one.
LEMMA FirstOf ==
    ASSUME NEW S \in SUBSET Listed, S # {}
    PROVE  \E i \in S : \A j \in S : Position[i] <= Position[j]
  <1>1. {Position[i] : i \in S} \in SUBSET Nat /\ {Position[i] : i \in S} # {}
    BY Places
  <1>2. PICK m \in {Position[i] : i \in S} : \A k \in {Position[i] : i \in S} : m <= k
    BY <1>1, LeastNat
  <1> QED
    BY <1>2

LEMMA LastOfIs ==
    ASSUME NEW S \in SUBSET Listed, S # {}
    PROVE  /\ LastOf(S) \in S
           /\ \A j \in S : Position[j] <= Position[LastOf(S)]
  <1> DEFINE Above(i) == Cardinality(S) - Cardinality(Before(S, i))
             Heights == {Above(i) : i \in S}
  <1>1. \A i \in S : Above(i) \in Nat
    BY Ranks
  <1>2. Heights \in SUBSET Nat /\ Heights # {}
    BY <1>1
  <1>3. PICK m \in Heights : \A k \in Heights : m <= k
    BY <1>2, LeastNat
  <1>4. PICK i \in S : m = Above(i)
    BY <1>3
  <1>5. ASSUME NEW j \in S PROVE Position[j] <= Position[i]
    <2>1. Above(i) <= Above(j)
      BY <1>3, <1>4
    <2>2. ~(Position[i] < Position[j])
      <3>1. /\ Cardinality(Before(S, i)) \in Nat /\ Cardinality(Before(S, j)) \in Nat
            /\ Cardinality(S) \in Nat
            /\ Position[i] < Position[j] =>
                  Cardinality(Before(S, i)) < Cardinality(Before(S, j))
        BY Ranks
      <3> QED
        BY <2>1, <3>1
    <2> QED
      BY <2>2, Places
  <1>6. \E x \in S : \A j \in S : Position[j] <= Position[x]
    BY <1>5
  <1> QED
    BY <1>6 DEF LastOf

\* One page (list_security_groups, list_ports: limit and marker): a full
\* page leaves out only what comes after its last entry, and a short one
\* nothing, so that the listing may stop there.
LEMMA PageIs ==
    ASSUME NEW S \in SUBSET Listed, NEW marker
    PROVE  /\ After(S, marker) \subseteq S
           /\ Page(S, marker) \subseteq After(S, marker)
           /\ Full(Page(S, marker)) =>
                /\ Page(S, marker) # {}
                /\ LastOf(Page(S, marker)) \in Page(S, marker)
                /\ \A i \in After(S, marker) :
                      i \in Page(S, marker) <=> Position[i] <= Position[LastOf(Page(S, marker))]
           /\ ~Full(Page(S, marker)) => Page(S, marker) = After(S, marker)
  <1> DEFINE A == After(S, marker)
             P == Page(S, marker)
             Rank(i) == Cardinality(Before(A, i))
  <1>1. A \in SUBSET Listed /\ A \subseteq S
    BY DEF After
  <1>2. P = {i \in A : Rank(i) < PageSize}
    BY DEF Page, Before
  <1>3. P \in SUBSET Listed /\ P \in SUBSET A
    BY <1>1, <1>2
  <1> HIDE DEF A, P
  <1>4. /\ \A i : Rank(i) \in Nat
        /\ \A i, j \in A : Position[i] < Position[j] => Rank(i) < Rank(j)
        /\ IsFiniteSet(A) /\ IsFiniteSet(P) /\ Cardinality(P) \in Nat
    BY <1>1, <1>3, Ranks
  <1> HIDE DEF Rank
  <1>5. /\ \A i \in A : Position[i] \in Nat
        /\ \A i, j \in A : Position[i] = Position[j] => i = j
        /\ PageSize \in Nat /\ PageSize > 0
    BY <1>1, Places
  <1>6. ASSUME NEW i \in A, NEW j \in P, Position[i] <= Position[j]
        PROVE  i \in P
    <2>1. Position[i] < Position[j] \/ i = j
      BY <1>3, <1>5, <1>6
    <2>2. Rank(i) < Rank(j) \/ i = j
      BY <2>1, <1>3, <1>4
    <2> QED
      BY <2>2, <1>2, <1>4, <1>5
  <1>7. ASSUME Full(P)
        PROVE  /\ P # {} /\ LastOf(P) \in P
               /\ \A i \in A : i \in P <=> Position[i] <= Position[LastOf(P)]
    <2>1. P # {}
      BY <1>7, <1>4, <1>5, FS_EmptySet DEF Full
    <2>2. LastOf(P) \in P /\ \A j \in P : Position[j] <= Position[LastOf(P)]
      BY <2>1, <1>3, LastOfIs
    <2> QED
      BY <2>1, <2>2, <1>6
  <1>8. ASSUME P # A PROVE Full(P)
    <2>1. PICK m \in A \ P : \A j \in A \ P : Position[m] <= Position[j]
      <3>1. A \ P \in SUBSET Listed /\ A \ P # {}
        BY <1>1, <1>3, <1>8
      <3> QED
        BY <3>1, FirstOf
    <2>2. Before(A, m) = P
      <3>1. ASSUME NEW i \in A, Position[i] < Position[m] PROVE i \in P
        BY <2>1, <3>1, <1>5
      <3>2. ASSUME NEW i \in P PROVE Position[i] < Position[m]
        BY <2>1, <3>2, <1>3, <1>5, <1>6
      <3> QED
        BY <3>1, <3>2, <1>3 DEF Before
    <2>3. Rank(m) = Cardinality(P)
      BY <2>2 DEF Rank
    <2>4. Cardinality(P) >= PageSize
      BY <2>1, <2>3, <1>2, <1>4, <1>5
    <2>5. P # {}
      BY <2>4, <1>5, FS_EmptySet
    <2>6. LastOf(P) \in P /\ \A j \in P : Position[j] <= Position[LastOf(P)]
      BY <2>5, <1>3, LastOfIs
    <2>7. Before(A, LastOf(P)) = P \ {LastOf(P)}
      <3>1. \A i \in A : Position[i] < Position[LastOf(P)] => i \in P /\ i # LastOf(P)
        BY <2>6, <1>3, <1>5, <1>6
      <3>2. \A i \in P : i # LastOf(P) => Position[i] < Position[LastOf(P)]
        BY <2>6, <1>3, <1>5
      <3> QED
        BY <3>1, <3>2, <1>3 DEF Before
    <2>8. Rank(LastOf(P)) = Cardinality(P) - 1
      BY <2>6, <2>7, <1>4, FS_RemoveElement DEF Rank
    <2>9. Rank(LastOf(P)) < PageSize
      BY <2>6, <1>2
    <2> QED
      BY <2>4, <2>8, <2>9, <1>4, <1>5 DEF Full
  <1> QED
    BY <1>1, <1>3, <1>7, <1>8 DEF A, P

(***************************************************************************)
(* The cloud through time.                                                 *)
(***************************************************************************)
\* What never comes back: an id names one rule, a port id one NIC, for ever.
OneForEver(a, b) ==
    /\ \A x \in a.rules, y \in b.rules : x.id = y.id => x = y
    /\ \A x \in a.nics, y \in b.nics : x.port_id = y.port_id => x = y

HistoryOK ==
    /\ history \in Seq(Inventory) /\ history # <<>>
    /\ \A inv \in Ever : WellFormed(inv)
    /\ \A a, b \in Ever : OneForEver(a, b)
    /\ began \in DOMAIN history

\* A cloud that may come next.
Follows(inv) ==
    /\ WellFormed(inv)
    /\ inv.nics \subseteq Live.nics
    /\ \A x \in inv.rules : x \in Live.rules \/ \A a \in Ever : \A y \in a.rules : x.id # y.id

LEMMA LiveIs ==
    ASSUME HistoryOK
    PROVE  /\ Live \in Ever /\ Live \in During /\ During \subseteq Ever
           /\ WellFormed(Live) /\ Live \in Inventory
           /\ Len(history) \in Nat \ {0} /\ DOMAIN history = 1..Len(history)
           /\ began \in Nat
  BY DEF HistoryOK, Live, Ever, During, WellFormed

\* The parts of a well-formed cloud.
LEMMA CloudParts ==
    ASSUME NEW inv, WellFormed(inv)
    PROVE  /\ inv.sgs \subseteq CloudSg /\ inv.rules \subseteq CloudRule
           /\ inv.attached \subseteq SgId \X PortId /\ inv.nics \subseteq CloudNic
           /\ inv = [sgs |-> inv.sgs, rules |-> inv.rules,
                     attached |-> inv.attached, nics |-> inv.nics]
  BY DEF WellFormed, Inventory

\* One cloud follows another.
LEMMA GoesOn ==
    ASSUME HistoryOK, NEW inv, Becomes(inv), Follows(inv), began' = began
    PROVE  /\ Live' = inv
           /\ Ever' = Ever \cup {inv}
           /\ During' = During \cup {inv}
           /\ HistoryOK'
  <1>1. inv \in Inventory
    BY DEF Follows, WellFormed
  <1>2. CASE inv = Live
    <2>1. history' = history
      BY <1>2 DEF Becomes
    <2>2. Live' = Live /\ Ever' = Ever /\ During' = During
      BY <2>1 DEF Live, Ever, During
    <2>3. HistoryOK'
      BY <2>1, <2>2 DEF HistoryOK
    <2> QED
      BY <1>2, <2>2, <2>3, LiveIs
  <1>3. CASE inv # Live
    <2>1. history' = Append(history, inv)
      BY <1>3 DEF Becomes
    <2> DEFINE n == Len(history)
    <2>2. /\ n \in Nat \ {0} /\ DOMAIN history = 1..n /\ began \in 1..n
      BY LiveIs DEF HistoryOK
    <2>3. /\ history' \in Seq(Inventory) /\ Len(history') = n + 1
          /\ DOMAIN history' = 1..(n + 1)
          /\ \A i \in 1..n : history'[i] = history[i]
          /\ history'[n + 1] = inv
      BY <1>1, <2>1 DEF HistoryOK
    <2> HIDE DEF n
    <2>4. Live' = inv
      BY <2>3 DEF Live
    <2>5. Ever' = Ever \cup {inv}
      BY <2>2, <2>3 DEF Ever
    <2>6. During' = During \cup {inv}
      <3>1. During = {history[i] : i \in began..n}
        BY DEF During, n
      <3>2. During' = {history'[i] : i \in began..(n + 1)}
        BY <2>3 DEF During
      <3>3. began..(n + 1) = (began..n) \cup {n + 1}
        BY <2>2
      <3>4. \A i \in began..n : i \in 1..n
        BY <2>2
      <3> QED
        BY <3>1, <3>2, <3>3, <3>4, <2>3
    <2>7. \A a \in Ever : OneForEver(a, inv) /\ OneForEver(inv, a) /\ OneForEver(inv, inv)
      <3>1. Live \in Ever /\ \A a, b \in Ever : OneForEver(a, b)
        BY LiveIs DEF HistoryOK
      <3>2. OneForEver(inv, inv)
        BY DEF Follows, WellFormed, OneForEver
      <3>3. ASSUME NEW a \in Ever
            PROVE  /\ \A x \in a.rules, y \in inv.rules : x.id = y.id => x = y
                   /\ \A x \in a.nics, y \in inv.nics : x.port_id = y.port_id => x = y
        BY <3>1 DEF Follows, OneForEver
      <3> QED
        BY <3>2, <3>3 DEF OneForEver
    <2>8. \A a, b \in Ever' : OneForEver(a, b)
      <3>1. Live \in Ever /\ \A a, b \in Ever : OneForEver(a, b)
        BY LiveIs DEF HistoryOK
      <3> QED
        BY <2>5, <2>7, <3>1
    <2>9. \A a \in Ever' : WellFormed(a)
      BY <2>5 DEF HistoryOK, Follows
    <2> QED
      BY <2>2, <2>3, <2>4, <2>5, <2>6, <2>8, <2>9 DEF HistoryOK
  <1> QED
    BY <1>2, <1>3

(***************************************************************************)
(* What each change makes of the cloud.                                    *)
(***************************************************************************)
LEMMA GroupComes ==
    ASSUME HistoryOK, NEW id \in FreshSgIds, NEW n \in Name
    PROVE  /\ Follows(WithGroup(Live, [id |-> id, name |-> n, description |-> Blank]))
           /\ id \in SgId /\ id \notin Ids(Live)
           /\ Ids(WithGroup(Live, [id |-> id, name |-> n, description |-> Blank])) = Ids(Live) \cup {id}
           /\ WithGroup(Live, [id |-> id, name |-> n, description |-> Blank]).attached = Live.attached
  <1> DEFINE sg == [id |-> id, name |-> n, description |-> Blank]
             Self(d) == [id |-> <<id, d>>, sg_id |-> id, direction |-> d.direction,
                         service |-> d.service, remote_group_id |-> id,
                         remote_ip_prefix |-> None]
             new == WithGroup(Live, sg)
  <1>1. /\ new.sgs = Live.sgs \cup {sg} /\ new.attached = Live.attached /\ new.nics = Live.nics
        /\ new.rules = Live.rules \cup {Self(d) : d \in DefaultRule}
    BY LiveIs DEF WithGroup, Inventory
  <1>2. new = [sgs |-> new.sgs, rules |-> new.rules, attached |-> new.attached, nics |-> new.nics]
    <2>1. Live = [sgs |-> Live.sgs, rules |-> Live.rules, attached |-> Live.attached,
                  nics |-> Live.nics]
      BY LiveIs, CloudParts
    <2>2. new = [Live EXCEPT !.sgs = Live.sgs \cup {sg},
                             !.rules = Live.rules \cup {Self(d) : d \in DefaultRule}]
      BY DEF WithGroup
    <2> HIDE DEF new, Self, sg
    <2> QED
      BY <2>1, <2>2
  <1>3. /\ id \in SgId /\ \A a \in Ever : id \notin Ids(a)
        /\ Live \in Ever /\ WellFormed(Live)
    BY LiveIs DEF FreshSgIds
  <1>4. sg \in CloudSg /\ sg.id = id
    BY <1>3, EstateAssumption DEF CloudSg
  <1>5. \A d \in DefaultRule :
           /\ Self(d) \in CloudRule /\ Self(d).id = <<id, d>> /\ Self(d).sg_id = id
           /\ Self(d).id \notin RuleId
    <2> TAKE d \in DefaultRule
    <2>1. d.direction \in Direction /\ d.service \in Service
      BY EstateAssumption
    <2>2. <<id, d>> \in SgId \X DefaultRule /\ <<id, d>> \notin RuleId
      BY <1>3, EstateAssumption
    <2> QED
      BY <1>3, <2>1, <2>2 DEF CloudRule, AnyRuleId
  <1>6. \A a \in Ever : \A y \in a.rules : \A d \in DefaultRule : y.id # Self(d).id
    <2> SUFFICES ASSUME NEW a \in Ever, NEW y \in a.rules, NEW d \in DefaultRule,
                        y.id = <<id, d>>
                 PROVE  FALSE
      BY <1>5
    <2>1. WellFormed(a)
      BY DEF HistoryOK
    <2>2. y.id \notin RuleId
      BY <1>5
    <2>3. y.sg_id = id /\ \E x \in a.sgs : x.id = y.sg_id
      BY <2>1, <2>2 DEF WellFormed
    <2> QED
      BY <2>3, <1>3 DEF Ids
  <1>7. Ids(new) = Ids(Live) \cup {id}
    BY <1>1, <1>4 DEF Ids
  <1> HIDE DEF sg, Self, new
  <1>8. WellFormed(new)
    <2>1. new \in Inventory
      BY <1>1, <1>2, <1>3, <1>4, <1>5, CloudParts DEF Inventory
    <2>2. \A x, y \in new.sgs : x.id = y.id => x = y
      BY <1>1, <1>3, <1>4 DEF Ids, WellFormed
    <2>3. \A x, y \in new.rules : x.id = y.id => x = y
      <3>1. \A c, d \in DefaultRule : Self(c).id = Self(d).id => Self(c) = Self(d)
        BY <1>5
      <3>2. \A x, y \in Live.rules : x.id = y.id => x = y
        BY <1>3 DEF WellFormed
      <3> QED
        BY <3>1, <3>2, <1>1, <1>3, <1>6
    <2>4. \A r \in new.rules : \E x \in new.sgs : x.id = r.sg_id
      BY <1>1, <1>3, <1>4, <1>5 DEF WellFormed
    <2>5. \A r \in new.rules : r.id \notin RuleId => r.id[1] = r.sg_id
      BY <1>1, <1>3, <1>5 DEF WellFormed
    <2>6. /\ \A x, y \in new.nics : x.port_id = y.port_id => x = y
          /\ \A p \in new.attached : \E x \in new.nics : x.port_id = p[2]
          /\ \A x \in new.nics : x.ip \in x.ips \/ (x.ip = None /\ x.ips = {})
      BY <1>1, <1>3 DEF WellFormed
    <2> QED
      BY <2>1, <2>2, <2>3, <2>4, <2>5, <2>6 DEF WellFormed
  <1>9. Follows(new)
    BY <1>1, <1>6, <1>8 DEF Follows
  <1> QED
    BY <1>1, <1>3, <1>7, <1>9 DEF sg, new

\* A cloud of the same rules and ports, or fewer, follows.
LEMMA Fewer ==
    ASSUME HistoryOK, NEW inv \in Inventory,
           inv.rules \subseteq Live.rules, inv.nics \subseteq Live.nics,
           \A x, y \in inv.sgs : x.id = y.id => x = y,
           \A r \in inv.rules : r.sg_id \in Ids(inv),
           \A p \in inv.attached : HasPort(inv, p[2])
    PROVE  Follows(inv)
  <1>1. WellFormed(Live)
    BY LiveIs
  <1>2. WellFormed(inv)
    <2>1. \A x, y \in inv.rules : x.id = y.id => x = y
      BY <1>1 DEF WellFormed
    <2>2. \A x, y \in inv.nics : x.port_id = y.port_id => x = y
      BY <1>1 DEF WellFormed
    <2>3. \A r \in inv.rules : \E sg \in inv.sgs : sg.id = r.sg_id
      BY DEF Ids
    <2>4. \A r \in inv.rules : r.id \notin RuleId => r.id[1] = r.sg_id
      BY <1>1 DEF WellFormed
    <2>5. \A p \in inv.attached : \E n \in inv.nics : n.port_id = p[2]
      BY DEF HasPort
    <2>6. \A n \in inv.nics : n.ip \in n.ips \/ (n.ip = None /\ n.ips = {})
      BY <1>1 DEF WellFormed
    <2> QED
      BY <2>1, <2>2, <2>3, <2>4, <2>5, <2>6 DEF WellFormed
  <1> QED
    BY <1>2 DEF Follows

LEMMA LiveParts ==
    ASSUME HistoryOK
    PROVE  /\ Live = [sgs |-> Live.sgs, rules |-> Live.rules,
                      attached |-> Live.attached, nics |-> Live.nics]
           /\ Live.sgs \subseteq CloudSg /\ Live.rules \subseteq CloudRule
           /\ Live.attached \subseteq SgId \X PortId /\ Live.nics \subseteq CloudNic
           /\ \A x, y \in Live.sgs : x.id = y.id => x = y
           /\ \A r \in Live.rules : r.sg_id \in Ids(Live)
           /\ \A p \in Live.attached : HasPort(Live, p[2])
           /\ Ids(Live) \subseteq SgId
           /\ \A n \in Live.nics : n.port_id \in PortId
  <1>1. WellFormed(Live)
    BY LiveIs
  <1>2. /\ Live.sgs \subseteq CloudSg /\ Live.nics \subseteq CloudNic
    BY <1>1, CloudParts
  <1>3. /\ \A r \in Live.rules : r.sg_id \in Ids(Live)
        /\ \A p \in Live.attached : HasPort(Live, p[2])
    BY <1>1 DEF WellFormed, Ids, HasPort
  <1>4. Ids(Live) \subseteq SgId /\ \A n \in Live.nics : n.port_id \in PortId
    BY <1>2 DEF Ids, CloudSg, CloudNic
  <1>5. \A x, y \in Live.sgs : x.id = y.id => x = y
    BY <1>1 DEF WellFormed
  <1> QED
    BY <1>1, <1>2, <1>3, <1>4, <1>5, CloudParts

LEMMA GroupGoes ==
    ASSUME HistoryOK, NEW id
    PROVE  /\ Follows(WithoutGroup(Live, id))
           /\ id \notin Ids(WithoutGroup(Live, id))
           /\ WithoutGroup(Live, id).attached = Live.attached
  <1> DEFINE new == WithoutGroup(Live, id)
             kept == {sg \in Live.sgs : sg.id # id}
             ruled == {r \in Live.rules : r.sg_id # id}
  <1>1. new = [sgs |-> kept, rules |-> ruled, attached |-> Live.attached, nics |-> Live.nics]
    <2>1. new = [Live EXCEPT !.sgs = kept, !.rules = ruled]
      BY DEF WithoutGroup
    <2> HIDE DEF new, kept, ruled
    <2> QED
      BY <2>1, LiveParts
  <1> HIDE DEF new
  <1>2. /\ new.sgs = kept /\ new.rules = ruled /\ new.attached = Live.attached
        /\ new.nics = Live.nics
    BY <1>1
  <1>3. Ids(new) = Ids(Live) \ {id}
    BY <1>2 DEF Ids
  <1>4. new \in Inventory
    BY <1>1, LiveParts DEF Inventory
  <1>5. \A p \in new.attached : HasPort(new, p[2])
    BY <1>2, LiveParts DEF HasPort
  <1>6. Follows(new)
    BY <1>2, <1>3, <1>4, <1>5, LiveParts, Fewer
  <1> QED
    BY <1>2, <1>3, <1>6 DEF new

LEMMA GroupChanges ==
    ASSUME HistoryOK, NEW new, NEW groups \in SUBSET CloudSg,
           new = [Live EXCEPT !.sgs = groups],
           \A x, y \in groups : x.id = y.id => x = y,
           {sg.id : sg \in groups} = Ids(Live)
    PROVE  Follows(new) /\ new.sgs = groups /\ new.attached = Live.attached
  <1>1. new = [sgs |-> groups, rules |-> Live.rules, attached |-> Live.attached, nics |-> Live.nics]
    BY LiveParts
  <1>2. /\ new.sgs = groups /\ new.rules = Live.rules /\ new.attached = Live.attached
        /\ new.nics = Live.nics
    BY <1>1
  <1>3. Ids(new) = Ids(Live)
    BY <1>2 DEF Ids
  <1>4. new \in Inventory
    BY <1>1, LiveParts DEF Inventory
  <1>5. \A p \in new.attached : HasPort(new, p[2])
    BY <1>2, LiveParts DEF HasPort
  <1>6. Follows(new)
    BY <1>2, <1>3, <1>4, <1>5, LiveParts, Fewer
  <1> QED
    BY <1>2, <1>6

LEMMA GroupDescribed ==
    ASSUME HistoryOK, NEW id, NEW d \in Description
    PROVE  /\ Follows(Described(Live, id, d))
           /\ Ids(Described(Live, id, d)) = Ids(Live)
           /\ \A sg \in Described(Live, id, d).sgs : sg.id = id => sg.description = d
           /\ Described(Live, id, d).attached = Live.attached
  <1> DEFINE New(sg) == IF sg.id = id THEN [sg EXCEPT !.description = d] ELSE sg
             groups == {New(sg) : sg \in Live.sgs}
             new == Described(Live, id, d)
  <1>1. new = [Live EXCEPT !.sgs = groups]
    BY DEF Described
  <1>2. \A sg \in CloudSg : /\ New(sg) \in CloudSg /\ New(sg).id = sg.id
                            /\ sg.id = id => New(sg).description = d
    BY DEF CloudSg
  <1> HIDE DEF New, new
  <1>3. \A sg \in Live.sgs : /\ New(sg) \in CloudSg /\ New(sg).id = sg.id
                             /\ sg.id = id => New(sg).description = d
    BY <1>2, LiveParts
  <1>4. \A x, y \in groups : x.id = y.id => x = y
    <2>1. \A x, y \in Live.sgs : New(x).id = New(y).id => New(x) = New(y)
      BY <1>3, LiveParts
    <2> QED
      BY <2>1
  <1>5. {sg.id : sg \in groups} = Ids(Live)
    <2>1. \A i : i \in {sg.id : sg \in groups} <=> \E sg \in Live.sgs : New(sg).id = i
      OBVIOUS
    <2>2. \A i : i \in Ids(Live) <=> \E sg \in Live.sgs : sg.id = i
      BY DEF Ids
    <2> QED
      BY <2>1, <2>2, <1>3
  <1>6. Follows(new) /\ new.sgs = groups /\ new.attached = Live.attached
    <2>1. groups \in SUBSET CloudSg
      BY <1>3
    <2> HIDE DEF groups
    <2> QED
      BY <2>1, <1>1, <1>4, <1>5, GroupChanges
  <1>7. Ids(new) = Ids(Live)
    BY <1>5, <1>6 DEF Ids
  <1>8. \A sg \in groups : sg.id = id => sg.description = d
    BY <1>3
  <1> QED
    BY <1>6, <1>7, <1>8 DEF new

LEMMA GroupRenamed ==
    ASSUME HistoryOK, NEW sg \in Live.sgs, NEW n \in Name
    PROVE  Follows([Live EXCEPT !.sgs = (@ \ {sg}) \cup {[sg EXCEPT !.name = n]}])
  <1> DEFINE it == [sg EXCEPT !.name = n]
             groups == (Live.sgs \ {sg}) \cup {it}
             new == [Live EXCEPT !.sgs = groups]
  <1>1. sg \in CloudSg /\ it \in CloudSg /\ it.id = sg.id
    BY LiveParts DEF CloudSg
  <1> HIDE DEF it
  <1>2. groups \in SUBSET CloudSg
    BY <1>1, LiveParts
  <1>3. \A x, y \in groups : x.id = y.id => x = y
    BY <1>1, LiveParts
  <1>4. {x.id : x \in groups} = Ids(Live)
    BY <1>1 DEF Ids
  <1>5. Follows(new)
    <2> HIDE DEF groups
    <2> QED
      BY <1>2, <1>3, <1>4, GroupChanges
  <1> QED
    BY <1>5, LiveParts DEF it

LEMMA RulesGo ==
    ASSUME HistoryOK, NEW kept \in SUBSET Live.rules
    PROVE  /\ Follows([Live EXCEPT !.rules = kept])
           /\ [Live EXCEPT !.rules = kept].rules = kept
           /\ [Live EXCEPT !.rules = kept].attached = Live.attached
  <1> DEFINE new == [Live EXCEPT !.rules = kept]
  <1>1. new = [sgs |-> Live.sgs, rules |-> kept, attached |-> Live.attached, nics |-> Live.nics]
    BY LiveParts
  <1> HIDE DEF new
  <1>2. /\ new.sgs = Live.sgs /\ new.rules = kept /\ new.attached = Live.attached
        /\ new.nics = Live.nics
    BY <1>1
  <1>3. new \in Inventory
    BY <1>1, LiveParts DEF Inventory
  <1>4. /\ \A p \in new.attached : HasPort(new, p[2])
        /\ \A r \in new.rules : r.sg_id \in Ids(new)
        /\ \A x, y \in new.sgs : x.id = y.id => x = y
    BY <1>2, LiveParts DEF HasPort, Ids
  <1>5. Follows(new)
    BY <1>2, <1>3, <1>4, Fewer
  <1> QED
    BY <1>2, <1>5 DEF new

LEMMA MembersChange ==
    ASSUME HistoryOK, NEW new, NEW nics \in SUBSET Live.nics,
           NEW attached \in SUBSET (SgId \X PortId),
           new = [sgs |-> Live.sgs, rules |-> Live.rules, attached |-> attached, nics |-> nics],
           \A p \in attached : \E n \in nics : n.port_id = p[2]
    PROVE  Follows(new) /\ new.attached = attached
  <1>1. /\ new.sgs = Live.sgs /\ new.rules = Live.rules /\ new.attached = attached
        /\ new.nics = nics
    OBVIOUS
  <1>2. new \in Inventory
    BY LiveParts DEF Inventory
  <1>3. /\ \A p \in new.attached : HasPort(new, p[2])
        /\ \A r \in new.rules : r.sg_id \in Ids(new)
        /\ \A x, y \in new.sgs : x.id = y.id => x = y
    BY <1>1, LiveParts DEF HasPort, Ids
  <1>4. Follows(new)
    BY <1>1, <1>2, <1>3, Fewer
  <1> QED
    BY <1>1, <1>4

LEMMA PortGroups ==
    ASSUME HistoryOK, NEW port_id \in PortId, HasPort(Live, port_id), NEW ids \in SUBSET SgId
    PROVE  /\ Follows(WithPortGroups(Live, port_id, ids))
           /\ WithPortGroups(Live, port_id, ids).attached
                 = {p \in Live.attached : p[2] # port_id} \cup (ids \X {port_id})
  <1> DEFINE members == {p \in Live.attached : p[2] # port_id} \cup (ids \X {port_id})
             new == WithPortGroups(Live, port_id, ids)
  <1>1. new = [sgs |-> Live.sgs, rules |-> Live.rules, attached |-> members, nics |-> Live.nics]
    <2>1. new = [Live EXCEPT !.attached = members]
      BY DEF WithPortGroups
    <2> HIDE DEF new, members
    <2> QED
      BY <2>1, LiveParts
  <1>2. members \in SUBSET (SgId \X PortId)
    BY LiveParts
  <1>3. \A p \in members : \E n \in Live.nics : n.port_id = p[2]
    BY LiveParts DEF HasPort
  <1> HIDE DEF members, new
  <1>4. Follows(new) /\ new.attached = members
    BY <1>1, <1>2, <1>3, MembersChange
  <1> QED
    BY <1>4 DEF members, new

LEMMA RuleComes ==
    ASSUME HistoryOK, NEW id \in FreshRuleIds, NEW r \in CloudRule, r.id = id,
           r.sg_id \in Ids(Live)
    PROVE  /\ Follows([Live EXCEPT !.rules = @ \cup {r}])
           /\ [Live EXCEPT !.rules = @ \cup {r}].rules = Live.rules \cup {r}
           /\ [Live EXCEPT !.rules = @ \cup {r}].attached = Live.attached
  <1> DEFINE new == [Live EXCEPT !.rules = @ \cup {r}]
  <1>1. new = [sgs |-> Live.sgs, rules |-> Live.rules \cup {r},
               attached |-> Live.attached, nics |-> Live.nics]
    BY LiveParts
  <1> HIDE DEF new
  <1>2. /\ new.sgs = Live.sgs /\ new.rules = Live.rules \cup {r}
        /\ new.attached = Live.attached /\ new.nics = Live.nics
    BY <1>1
  <1>3. new \in Inventory
    BY <1>1, LiveParts DEF Inventory
  <1>4. /\ id \in RuleId /\ Live \in Ever /\ WellFormed(Live)
        /\ \A a \in Ever : \A x \in a.rules : x.id # id
    BY LiveIs DEF FreshRuleIds
  <1>5. WellFormed(new)
    <2>1. \A x, y \in new.rules : x.id = y.id => x = y
      BY <1>2, <1>4 DEF WellFormed
    <2>2. \A x \in new.rules : \E sg \in new.sgs : sg.id = x.sg_id
      BY <1>2, <1>4 DEF WellFormed, Ids
    <2>3. \A x \in new.rules : x.id \notin RuleId => x.id[1] = x.sg_id
      BY <1>2, <1>4 DEF WellFormed
    <2>4. /\ \A x, y \in new.sgs : x.id = y.id => x = y
          /\ \A x, y \in new.nics : x.port_id = y.port_id => x = y
          /\ \A p \in new.attached : \E n \in new.nics : n.port_id = p[2]
          /\ \A n \in new.nics : n.ip \in n.ips \/ (n.ip = None /\ n.ips = {})
      BY <1>2, <1>4 DEF WellFormed
    <2> QED
      BY <1>3, <2>1, <2>2, <2>3, <2>4 DEF WellFormed
  <1>6. Follows(new)
    BY <1>2, <1>4, <1>5 DEF Follows
  <1> QED
    BY <1>2, <1>6 DEF new

\* What others do.
LEMMA OthersFollow ==
    ASSUME HistoryOK, GroupsChanged \/ PortsChanged
    PROVE  \E inv : Becomes(inv) /\ Follows(inv)
  <1>1. ASSUME NEW id \in FreshSgIds, NEW n \in Name,
               Becomes(WithGroup(Live, [id |-> id, name |-> n, description |-> Blank]))
        PROVE  \E inv : Becomes(inv) /\ Follows(inv)
    BY <1>1, GroupComes
  <1>2. ASSUME NEW id \in Ids(Live), Becomes(WithoutGroup(Live, id))
        PROVE  \E inv : Becomes(inv) /\ Follows(inv)
    BY <1>2, GroupGoes
  <1>3. ASSUME NEW sg \in Live.sgs, NEW n \in Name,
               Becomes([Live EXCEPT !.sgs = (@ \ {sg}) \cup {[sg EXCEPT !.name = n]}])
        PROVE  \E inv : Becomes(inv) /\ Follows(inv)
    BY <1>3, GroupRenamed
  <1>4. ASSUME NEW r \in Live.rules, Becomes([Live EXCEPT !.rules = @ \ {r}])
        PROVE  \E inv : Becomes(inv) /\ Follows(inv)
    <2>1. Live.rules \ {r} \in SUBSET Live.rules
      OBVIOUS
    <2>2. Follows([Live EXCEPT !.rules = Live.rules \ {r}])
      BY <2>1, RulesGo
    <2> QED
      BY <1>4, <2>2
  <1>5. ASSUME NEW n \in Live.nics, NEW id \in Ids(Live),
               Becomes(WithPortGroups(Live, n.port_id, GroupsOf(Live, n.port_id) \cup {id}))
        PROVE  \E inv : Becomes(inv) /\ Follows(inv)
    <2>1. GroupsOf(Live, n.port_id) \cup {id} \in SUBSET SgId
      BY LiveParts DEF GroupsOf
    <2>2. n.port_id \in PortId /\ HasPort(Live, n.port_id)
      BY LiveParts DEF HasPort
    <2> QED
      BY <1>5, <2>1, <2>2, PortGroups
  <1>6. ASSUME NEW p \in Live.attached, Becomes([Live EXCEPT !.attached = @ \ {p}])
        PROVE  \E inv : Becomes(inv) /\ Follows(inv)
    <2> DEFINE new == [Live EXCEPT !.attached = @ \ {p}]
               members == Live.attached \ {p}
    <2>1. new = [sgs |-> Live.sgs, rules |-> Live.rules, attached |-> members,
                 nics |-> Live.nics]
      <3>1. new = [Live EXCEPT !.attached = members]
        OBVIOUS
      <3> HIDE DEF new, members
      <3> QED
        BY <3>1, LiveParts
    <2>2. members \in SUBSET (SgId \X PortId)
      BY LiveParts
    <2>3. \A x \in members : \E n \in Live.nics : n.port_id = x[2]
      BY LiveParts DEF HasPort
    <2> HIDE DEF new, members
    <2>4. Follows(new)
      BY <2>1, <2>2, <2>3, MembersChange
    <2> QED
      BY <1>6, <2>4 DEF new
  <1>7. ASSUME NEW n \in Live.nics,
               Becomes([Live EXCEPT !.nics = @ \ {n},
                                    !.attached = {p \in @ : p[2] # n.port_id}])
        PROVE  \E inv : Becomes(inv) /\ Follows(inv)
    <2> DEFINE new == [Live EXCEPT !.nics = @ \ {n}, !.attached = {p \in @ : p[2] # n.port_id}]
               members == {p \in Live.attached : p[2] # n.port_id}
    <2>1. new = [sgs |-> Live.sgs, rules |-> Live.rules, attached |-> members,
                 nics |-> Live.nics \ {n}]
      <3>1. new = [Live EXCEPT !.nics = @ \ {n}, !.attached = members]
        OBVIOUS
      <3> HIDE DEF new, members
      <3> QED
        BY <3>1, LiveParts
    <2>2. members \in SUBSET (SgId \X PortId) /\ Live.nics \ {n} \in SUBSET Live.nics
      BY LiveParts
    <2>3. \A x \in members : \E y \in Live.nics \ {n} : y.port_id = x[2]
      BY LiveParts DEF HasPort
    <2> HIDE DEF members, new
    <2>4. Follows(new)
      BY <2>1, <2>2, <2>3, MembersChange
    <2> QED
      BY <1>7, <2>4 DEF new
  <1>8. GroupsChanged => \E inv : Becomes(inv) /\ Follows(inv)
    BY <1>1, <1>2, <1>3, <1>4, Zenon DEF GroupsChanged
  <1>9. PortsChanged => \E inv : Becomes(inv) /\ Follows(inv)
    BY <1>5, <1>6, <1>7, Zenon DEF PortsChanged
  <1> QED
    BY <1>8, <1>9
(***************************************************************************)
(* The inductive invariant.  The history is one a cloud can have; what the *)
(* code holds fits the call it makes; the cache and the arguments of       *)
(* requests name groups that were once so named; what is read so far is of *)
(* its time, and whole up to the marker.                                   *)
(***************************************************************************)
HoldsOK ==
    /\ cached \in [Name -> SgId \cup {None}]
    /\ call \in Calls \cup {NoCall}
    /\ request \in Request
    /\ tries \in 1..MaxTries
    /\ status \in {"none", "ok", "failed"}
    /\ made \subseteq SgId /\ IsFiniteSet(made)
    /\ late \in Nat
    /\ calls \in 0..MaxCalls /\ changes \in 0..MaxChanges

\* What a cache entry says was so once.
CacheTrue == \A n \in Name : cached[n] # None => Named(n, cached[n])

\* A request is one its call makes, with an argument fit for it.
FitsListing ==
    /\ request.m \in {"neutron_list_security_groups", "list_ports"} => call.op = "inventory"
    /\ request.m = "neutron_list_security_groups" => request.arg \in SgId \cup {None}
    /\ request.m = "list_ports" => request.arg \in PortId \cup {None}
    /\ request.m = "list_security_groups" =>
          call.op = "create_rule" /\ call.rule.remote \in Name

FitsGroup ==
    /\ request.m = "create_security_group" => call.op = "create_security_group"
    /\ request.m = "neutron_update_security_group" =>
          \/ call.op = "update_security_group_description"
          \/ /\ call.op = "create_security_group"
             /\ request.arg \in made /\ request.arg = cached[call.name]
             /\ Named(call.name, request.arg)
    /\ request.m = "delete_security_group" => call.op = "delete_security_group"

FitsRule ==
    /\ request.m = "neutron_create_security_group_rule" =>
          /\ call.op = "create_rule"
          /\ IF call.rule.remote \in Name
             THEN request.arg \in SgId /\ Named(call.rule.remote, request.arg)
             ELSE request.arg = None
    /\ request.m = "neutron_delete_security_group_rule" => call.op = "delete_rule"

FitsPort ==
    /\ request.m \in {"get_port", "update_port"} => call.op \in {"attach_nic", "detach_nic"}
    /\ request.m = "update_port" =>
          \E x \in During : request.arg = NewGroups(GroupsOf(x, call.port_id))

Fits ==
    /\ request.m # "none" => call \in Calls
    /\ request.m = "none" => request = NoRequest
    /\ status # "none" => request = NoRequest
    /\ FitsListing /\ FitsGroup /\ FitsRule /\ FitsPort

\* One group at most but for the requests an APIGW error answered, and none
\* while the first is still asked for.
MadeOK ==
    Cardinality(made) <= late + IF request.m = "create_security_group" THEN 0 ELSE 1

\* What a listing has passed once it is at a marker.
UpTo(marker) ==
    IF marker = None THEN {} ELSE {i \in Listed : Position[i] <= Position[marker]}

Ports(inv) == {n.port_id : n \in inv.nics}
StayingIds == {id \in SgId : \A inv \in During : id \in Ids(inv)}
StayingPorts == {p \in PortId : \A inv \in During : p \in Ports(inv)}

OfItsTime ==
    /\ \A sg \in out.sgs : \E inv \in During :
          sg \in inv.sgs /\ RulesIn(inv, sg.id) = RulesIn(out, sg.id)
    /\ \A n \in out.nics : \E inv \in During :
          n \in inv.nics /\ GroupsOf(inv, n.port_id) = GroupsOf(out, n.port_id)

\* The groups come first, then the ports.
Whole ==
    /\ request.m = "neutron_list_security_groups" =>
          /\ out.nics = {}
          /\ Ids(out) \subseteq UpTo(request.arg)
          /\ StayingIds \cap UpTo(request.arg) \subseteq Ids(out)
    /\ request.m = "list_ports" =>
          /\ StayingIds \subseteq Ids(out)
          /\ Ports(out) \subseteq UpTo(request.arg)
          /\ StayingPorts \cap UpTo(request.arg) \subseteq Ports(out)
    /\ Ok("inventory") => StayingIds \subseteq Ids(out) /\ StayingPorts \subseteq Ports(out)

ReadOK == WellFormed(out) /\ OfItsTime /\ Whole

GatewayInv ==
    /\ HistoryOK /\ HoldsOK /\ CacheTrue /\ Fits /\ MadeOK /\ ReadOK /\ OkMeansDone

\* The calls there are.
LEMMA CallIs ==
    ASSUME NEW c \in Calls
    PROVE  /\ c.op \in {"inventory", "create_security_group",
                           "update_security_group_description", "delete_security_group",
                           "create_rule", "delete_rule", "attach_nic", "detach_nic"}
           /\ c.op = "create_security_group" =>
                 c.name \in Name /\ c.description \in Description
           /\ c.op = "update_security_group_description" =>
                 c.sg_id \in SgId /\ c.description \in Description
           /\ c.op = "create_rule" =>
                 /\ c.sg_id \in SgId /\ c.rule.direction \in Direction
                 /\ c.rule.service \in Service
                 /\ c.rule.remote \notin Name => c.rule.remote \in Prefix
           /\ c.op \in {"attach_nic", "detach_nic"} =>
                 c.sg_id \in SgId /\ c.port_id \in PortId
  <1>1. c \in Writes \cup Inventories
    BY GatewayAssumption
  <1>2. GroupName \subseteq Name /\ CodeService \subseteq Service
    BY EstateAssumption
  <1>3. Cidr \subseteq Prefix
    BY EstateAssumption
  <1>4. CASE c \in Inventories
    BY <1>4 DEF Inventories
  <1>5. CASE c \in [op : {"create_security_group"}, name : GroupName,
                       description : Description]
    BY <1>5, <1>2
  <1>6. CASE c \in [op : {"update_security_group_description"}, sg_id : SgId,
                       description : Description]
    BY <1>6
  <1>7. CASE c \in [op : {"delete_security_group"}, sg_id : SgId]
    BY <1>7
  <1>8. CASE c \in [op : {"create_rule"}, sg_id : SgId,
                       rule : [direction : Direction, service : CodeService,
                               remote : GroupName \cup Cidr]]
    BY <1>8, <1>2, <1>3
  <1>9. CASE c \in [op : {"delete_rule"}, rule_id : AnyRuleId]
    BY <1>9
  <1>10. CASE c \in [op : {"attach_nic", "detach_nic"}, sg_id : SgId, port_id : PortId]
    BY <1>10
  <1> QED
    BY <1>1, <1>4, <1>5, <1>6, <1>7, <1>8, <1>9, <1>10 DEF Writes

\* The groups of a port are those it is a member of.
LEMMA GroupsOfIs ==
    ASSUME NEW inv \in Inventory, NEW p
    PROVE  /\ GroupsOf(inv, p) \subseteq SgId
           /\ \A id : id \in GroupsOf(inv, p) <=> <<id, p>> \in inv.attached
  <1>1. inv.attached \subseteq SgId \X PortId
    BY DEF Inventory
  <1>2. \A x \in inv.attached : x = <<x[1], x[2]>> /\ x[1] \in SgId
    BY <1>1
  <1>3. \A id : id \in GroupsOf(inv, p) <=> \E x \in inv.attached : x[2] = p /\ x[1] = id
    BY DEF GroupsOf
  <1> QED
    BY <1>2, <1>3

\* What a group was once named, it was named once for ever.
LEMMA NamedStays ==
    ASSUME Ever \subseteq Ever', NEW n, NEW id, Named(n, id)
    PROVE  Named(n, id)'
  <1>1. PICK inv \in Ever : \E sg \in inv.sgs : sg.name = n /\ sg.id = id
    BY DEF Named
  <1>2. inv \in Ever'
    BY <1>1
  <1>3. \E sg \in inv.sgs : sg.name = n /\ sg.id = id
    BY <1>1
  <1>4. \E x \in Ever' : \E sg \in x.sgs : sg.name = n /\ sg.id = id
    BY <1>2, <1>3
  <1> QED
    BY <1>4 DEF Named

LEMMA NamedNow ==
    ASSUME HistoryOK, NEW sg \in Live.sgs
    PROVE  Named(sg.name, sg.id)
  BY LiveIs DEF Named

(***************************************************************************)
(* What a request does to the cloud.                                       *)
(***************************************************************************)
LEMMA Creates ==
    ASSUME GatewayInv, MakeGroup, began' = began
    PROVE  \E id \in SgId :
              /\ made' = made \cup {id}
              /\ \E inv : /\ Becomes(inv) /\ Follows(inv) /\ inv.attached = Live.attached
                          /\ [id |-> id, name |-> call.name, description |-> Blank] \in inv.sgs
  <1>1. call.name \in Name /\ HistoryOK /\ call.op = "create_security_group"
    BY CallIs DEF GatewayInv, Fits, FitsGroup, MakeGroup
  <1>2. PICK id \in FreshSgIds :
           /\ Becomes(WithGroup(Live, [id |-> id, name |-> call.name, description |-> Blank]))
           /\ made' = made \cup {id}
    BY DEF MakeGroup
  <1> DEFINE sg == [id |-> id, name |-> call.name, description |-> Blank]
  <1>3. Follows(WithGroup(Live, sg)) /\ id \in SgId /\ WithGroup(Live, sg).attached = Live.attached
    BY <1>1, GroupComes
  <1>4. sg \in WithGroup(Live, sg).sgs
    BY LiveIs, <1>1 DEF WithGroup, Inventory
  <1> HIDE DEF sg
  <1>5. Becomes(WithGroup(Live, sg))
    BY <1>2 DEF sg
  <1> QED
    BY <1>2, <1>3, <1>4, <1>5 DEF sg

LEMMA Describes ==
    ASSUME GatewayInv, DescribeGroup
    PROVE  \E inv :
              /\ Becomes(inv) /\ Follows(inv) /\ inv.attached = Live.attached
              /\ \E sg \in inv.sgs : sg.id = DescribedId /\ sg.description = call.description
  <1>1. /\ HistoryOK /\ call.description \in Description
    BY CallIs DEF GatewayInv, Fits, FitsGroup, DescribeGroup
  <1> DEFINE inv == Described(Live, DescribedId, call.description)
  <1>2. /\ Follows(inv) /\ Ids(inv) = Ids(Live) /\ inv.attached = Live.attached
        /\ \A sg \in inv.sgs : sg.id = DescribedId => sg.description = call.description
    BY <1>1, GroupDescribed
  <1>3. Becomes(inv) /\ DescribedId \in Ids(inv)
    BY <1>2 DEF DescribeGroup
  <1> HIDE DEF inv
  <1>4. \E sg \in inv.sgs : sg.id = DescribedId
    BY <1>3 DEF Ids
  <1> QED
    BY <1>2, <1>3, <1>4

LEMMA Removes ==
    ASSUME GatewayInv, RemoveGroup
    PROVE  \E inv :
              /\ Becomes(inv) /\ Follows(inv) /\ inv.attached = Live.attached
              /\ call.sg_id \notin Ids(inv)
  BY GroupGoes DEF GatewayInv, RemoveGroup

LEMMA Posts ==
    ASSUME GatewayInv, PostRule
    PROVE  \E inv :
              /\ Becomes(inv) /\ Follows(inv) /\ inv.attached = Live.attached
              /\ \E r \in inv.rules :
                    /\ r.sg_id = call.sg_id
                    /\ r.direction = call.rule.direction /\ r.service = call.rule.service
                    /\ r.remote_group_id = request.arg
                    /\ request.arg = None => r.remote_ip_prefix = call.rule.remote
  <1>1. PICK id \in FreshRuleIds :
           Becomes([Live EXCEPT !.rules = @ \cup
            {[id |-> id, sg_id |-> call.sg_id, direction |-> call.rule.direction,
              service |-> call.rule.service, remote_group_id |-> request.arg,
              remote_ip_prefix |-> IF request.arg = None THEN call.rule.remote ELSE None]}])
    BY DEF PostRule
  <1> DEFINE r == [id |-> id, sg_id |-> call.sg_id, direction |-> call.rule.direction,
                   service |-> call.rule.service, remote_group_id |-> request.arg,
                   remote_ip_prefix |-> IF request.arg = None THEN call.rule.remote ELSE None]
             inv == [Live EXCEPT !.rules = @ \cup {r}]
  <1>2. Becomes(inv)
    BY <1>1
  <1>3. /\ HistoryOK /\ call \in Calls /\ call.op = "create_rule"
        /\ call.sg_id \in Ids(Live)
        /\ IF call.rule.remote \in Name THEN request.arg \in SgId ELSE request.arg = None
    BY DEF GatewayInv, Fits, FitsRule, PostRule
  <1>4. /\ call.sg_id \in SgId /\ call.rule.direction \in Direction
        /\ call.rule.service \in Service
        /\ call.rule.remote \notin Name => call.rule.remote \in Prefix
    BY <1>3, CallIs
  <1>5. None \notin SgId
    BY EstateAssumption
  <1>6. r \in CloudRule
    <2>1. id \in AnyRuleId
      BY DEF FreshRuleIds, AnyRuleId
    <2> QED
      BY <2>1, <1>3, <1>4, <1>5 DEF CloudRule
  <1>7. /\ r.id = id /\ r.sg_id = call.sg_id /\ r.direction = call.rule.direction
        /\ r.service = call.rule.service /\ r.remote_group_id = request.arg
        /\ request.arg = None => r.remote_ip_prefix = call.rule.remote
    OBVIOUS
  <1> HIDE DEF r
  <1>8. Follows(inv) /\ inv.rules = Live.rules \cup {r} /\ inv.attached = Live.attached
    BY <1>3, <1>6, <1>7, RuleComes
  <1> HIDE DEF inv
  <1> QED
    BY <1>2, <1>7, <1>8

LEMMA Withdraws ==
    ASSUME GatewayInv, RemoveRule
    PROVE  \E inv :
              /\ Becomes(inv) /\ Follows(inv) /\ inv.attached = Live.attached
              /\ \A r \in inv.rules : r.id # call.rule_id
  <1> DEFINE kept == {r \in Live.rules : r.id # call.rule_id}
             inv == [Live EXCEPT !.rules = kept]
  <1>1. Becomes(inv)
    BY DEF RemoveRule
  <1>2. \A r \in kept : r.id # call.rule_id
    OBVIOUS
  <1>3. kept \in SUBSET Live.rules /\ HistoryOK
    BY DEF GatewayInv
  <1> HIDE DEF kept
  <1>4. Follows(inv) /\ inv.rules = kept /\ inv.attached = Live.attached
    BY <1>3, RulesGo
  <1> HIDE DEF inv
  <1> QED
    BY <1>1, <1>2, <1>4

LEMMA Puts ==
    ASSUME GatewayInv, PutPort
    PROVE  \E inv :
              /\ Becomes(inv) /\ Follows(inv)
              /\ \A id, p : <<id, p>> \in inv.attached <=>
                    IF p = call.port_id THEN id \in request.arg ELSE <<id, p>> \in Live.attached
  <1> DEFINE port_id == call.port_id
             inv == WithPortGroups(Live, port_id, request.arg)
  <1>1. HistoryOK /\ port_id \in PortId /\ HasPort(Live, port_id) /\ Becomes(inv)
    BY CallIs DEF GatewayInv, Fits, FitsPort, PutPort
  <1>2. request.arg \in SUBSET SgId
    BY <1>1, LiveParts DEF PutPort
  <1> HIDE DEF port_id
  <1>3. /\ Follows(inv)
        /\ inv.attached = {x \in Live.attached : x[2] # port_id} \cup (request.arg \X {port_id})
    BY <1>1, <1>2, PortGroups
  <1> HIDE DEF inv
  <1>4. \A id, p : <<id, p>> \in inv.attached <=>
           IF p = port_id THEN id \in request.arg ELSE <<id, p>> \in Live.attached
    BY <1>3
  <1> QED
    BY <1>1, <1>3, <1>4 DEF port_id

\* Whatever a request does, time goes on, and at most one group is made.
LEMMA EffectGoesOn ==
    ASSUME GatewayInv, Effect, began' = began
    PROVE  /\ HistoryOK' /\ Ever \subseteq Ever' /\ During \subseteq During'
           /\ made \subseteq made' /\ made' \subseteq SgId /\ IsFiniteSet(made')
           /\ Cardinality(made' \ made) \in Nat
           /\ Cardinality(made') = Cardinality(made) + Cardinality(made' \ made)
           /\ Cardinality(made' \ made) <= 1
           /\ request.m # "create_security_group" => Cardinality(made' \ made) = 0
  <1>1. HistoryOK /\ made \subseteq SgId /\ IsFiniteSet(made)
    BY DEF GatewayInv, HoldsOK
  <1>2. \E inv : Becomes(inv) /\ Follows(inv)
    BY Creates, Describes, Removes, Posts, Withdraws, Puts DEF Effect
  <1>3. HistoryOK' /\ Ever \subseteq Ever' /\ During \subseteq During'
    BY <1>1, <1>2, GoesOn
  <1>4. CASE made' = made
    <2>1. made' \ made = {}
      BY <1>4
    <2>2. Cardinality(made' \ made) = 0
      BY <2>1, FS_EmptySet
    <2>3. Cardinality(made) \in Nat
      BY <1>1, FS_CardinalityType
    <2> QED
      BY <1>1, <1>3, <1>4, <2>2, <2>3
  <1>5. CASE made' # made
    <2>1. MakeGroup
      BY <1>5 DEF Effect, DescribeGroup, RemoveGroup, PostRule, RemoveRule, PutPort
    <2>2. PICK id \in SgId : made' = made \cup {id}
      BY <2>1, Creates
    <2>3. id \notin made /\ made' \ made = {id}
      BY <1>5, <2>2
    <2>4. /\ IsFiniteSet(made') /\ Cardinality(made') = Cardinality(made) + 1
          /\ Cardinality(made) \in Nat
      BY <1>1, <2>2, <2>3, FS_AddElement, FS_CardinalityType
    <2>5. Cardinality(made' \ made) = 1
      BY <2>3, FS_Singleton
    <2> QED
      BY <1>1, <1>3, <2>1, <2>2, <2>4, <2>5 DEF MakeGroup
  <1> QED
    BY <1>4, <1>5

\* A step that leaves the call where it is, or ends it.
LEMMA SameCall ==
    ASSUME GatewayInv, Ever \subseteq Ever', During \subseteq During',
           UNCHANGED <<cached, call, out>>, made \subseteq made',
           \/ request' = request /\ status' = status
           \/ request' = NoRequest /\ status' = "failed"
           \/ request' = NoRequest /\ status' = "ok" /\ call.op # "inventory"
    PROVE  CacheTrue' /\ Fits' /\ ReadOK'
  <1>1. CacheTrue'
    <2>1. \A n \in Name : cached[n] # None => Named(n, cached[n])'
      BY NamedStays DEF GatewayInv, CacheTrue
    <2> QED
      BY <2>1 DEF CacheTrue, Named, Ever
  <1>2. /\ request' = request \/ request' = NoRequest
        /\ status' # "none" => request' = NoRequest
        /\ Ok("inventory")' => Ok("inventory")
    BY DEF GatewayInv, Fits, Ok
  <1>3. FitsListing'
    BY <1>2 DEF GatewayInv, Fits, FitsListing, NoRequest
  <1>4. FitsGroup'
    <2>1. CASE request' = NoRequest
      BY <2>1 DEF FitsGroup, NoRequest
    <2>2. CASE request' = request
      <3>1. Named(call.name, request.arg) => Named(call.name, request.arg)'
        BY <2>2, NamedStays
      <3> QED
        BY <2>2, <3>1 DEF GatewayInv, Fits, FitsGroup
    <2> QED
      BY <1>2, <2>1, <2>2
  <1>5. FitsRule'
    <2>1. CASE request' = NoRequest
      BY <2>1 DEF FitsRule, NoRequest
    <2>2. CASE request' = request
      <3>1. Named(call.rule.remote, request.arg) => Named(call.rule.remote, request.arg)'
        BY <2>2, NamedStays
      <3> QED
        BY <2>2, <3>1 DEF GatewayInv, Fits, FitsRule
    <2> QED
      BY <1>2, <2>1, <2>2
  <1>6. FitsPort'
    <2>1. CASE request' = NoRequest
      BY <2>1 DEF FitsPort, NoRequest
    <2>2. CASE request' = request
      BY <2>2 DEF GatewayInv, Fits, FitsPort, NewGroups, GroupsOf
    <2> QED
      BY <1>2, <2>1, <2>2
  <1>7. Fits'
    <2>1. (request.m # "none")' => call' \in Calls
      BY <1>2 DEF GatewayInv, Fits, NoRequest
    <2>2. (request.m = "none")' => request' = NoRequest
      BY <1>2 DEF GatewayInv, Fits
    <2> QED
      BY <1>2, <1>3, <1>4, <1>5, <1>6, <2>1, <2>2 DEF Fits, NoRequest
  <1>8. WellFormed(out)'
    BY DEF GatewayInv, ReadOK, WellFormed, Inventory
  <1>9. OfItsTime'
    BY DEF GatewayInv, ReadOK, OfItsTime, RulesIn, GroupsOf
  <1>10. Whole'
    <2>1. StayingIds' \subseteq StayingIds /\ StayingPorts' \subseteq StayingPorts
      BY DEF StayingIds, StayingPorts, Ids, Ports
    <2>2. Ids(out)' = Ids(out) /\ Ports(out)' = Ports(out)
      BY DEF Ids, Ports
    <2>3. CASE request' = request
      <3>1. UpTo(request.arg)' = UpTo(request.arg)
        BY <2>3 DEF UpTo
      <3> QED
        BY <2>1, <2>2, <2>3, <3>1, <1>2 DEF GatewayInv, ReadOK, Whole
    <2>4. CASE request' = NoRequest
      BY <2>1, <2>2, <2>4, <1>2 DEF GatewayInv, ReadOK, Whole, NoRequest
    <2> QED
      BY <1>2, <2>3, <2>4
  <1> QED
    BY <1>1, <1>7, <1>8, <1>9, <1>10 DEF ReadOK

(***************************************************************************)
(* The invariant holds at first, and no step breaks it.                    *)
(***************************************************************************)
LEMMA GatewayInit == Init => GatewayInv
  <1> SUFFICES ASSUME Init PROVE GatewayInv
    OBVIOUS
  <1>1. PICK inv \in FirstClouds : history = <<inv>>
    BY DEF Init
  <1>2. WellFormed(inv) /\ inv \in Inventory
    BY GatewayAssumption DEF WellFormed
  <1>3. /\ history \in Seq(Inventory) /\ Len(history) = 1 /\ history[1] = inv
        /\ DOMAIN history = 1..1
    BY <1>1, <1>2
  <1>4. Ever = {inv}
    BY <1>3 DEF Ever
  <1>5. HistoryOK
    <2>1. OneForEver(inv, inv)
      BY <1>2 DEF WellFormed, OneForEver
    <2>2. began \in DOMAIN history /\ history # <<>>
      BY <1>1, <1>3 DEF Init
    <2> QED
      BY <1>2, <1>3, <1>4, <2>1, <2>2 DEF HistoryOK
  <1>6. HoldsOK
    BY GatewayAssumption, FS_EmptySet DEF Init, HoldsOK, NoRequest, Request
  <1>7. CacheTrue
    BY DEF Init, CacheTrue
  <1>8. Fits
    BY DEF Init, Fits, NoRequest, FitsListing, FitsGroup, FitsRule, FitsPort
  <1>9. MadeOK
    BY FS_EmptySet DEF Init, MadeOK, NoRequest
  <1>10. ReadOK
    BY DEF Init, ReadOK, OfItsTime, Whole, NothingRead, NoRequest, WellFormed, Inventory, Ok
  <1>11. OkMeansDone
    BY DEF Init, OkMeansDone
  <1> QED
    BY <1>5, <1>6, <1>7, <1>8, <1>9, <1>10, <1>11 DEF GatewayInv

LEMMA FirstFits ==
    ASSUME GatewayInv, NEW c \in Calls, call' = c, request' = FirstRequest(c),
           cached' = cached, Ever' = Ever
    PROVE  /\ request' \in Request /\ request'.m # "none"
           /\ FitsListing' /\ FitsGroup' /\ FitsRule' /\ FitsPort'
           /\ request'.m = "neutron_list_security_groups" => request'.arg = None
           /\ request'.m # "list_ports"
  <1>1. \A m \in Listings \cup Changing : \A arg \in SgId \cup {None} :
           Ask(m, arg) \in Request /\ Ask(m, arg).m = m /\ Ask(m, arg).arg = arg
    BY DEF Ask, Request
  <1>2. \A n \in Name : cached[n] # None => cached[n] \in SgId /\ Named(n, cached[n])
    BY DEF GatewayInv, HoldsOK, CacheTrue
  <1>3. CASE c.op = "inventory"
    <2>1. request' = Ask("neutron_list_security_groups", None)
      BY <1>3 DEF FirstRequest
    <2> QED
      BY <1>1, <1>3, <2>1 DEF Listings, Changing, FitsListing, FitsGroup, FitsRule, FitsPort
  <1>4. CASE c.op = "create_security_group"
    <2>1. request' = Ask("create_security_group", None)
      BY <1>4 DEF FirstRequest
    <2> QED
      BY <1>1, <1>4, <2>1 DEF Listings, Changing, FitsListing, FitsGroup, FitsRule, FitsPort
  <1>5. CASE c.op = "update_security_group_description"
    <2>1. request' = Ask("neutron_update_security_group", None)
      BY <1>5 DEF FirstRequest
    <2> QED
      BY <1>1, <1>5, <2>1 DEF Listings, Changing, FitsListing, FitsGroup, FitsRule, FitsPort
  <1>6. CASE c.op = "delete_security_group"
    <2>1. request' = Ask("delete_security_group", None)
      BY <1>6 DEF FirstRequest
    <2> QED
      BY <1>1, <1>6, <2>1 DEF Listings, Changing, FitsListing, FitsGroup, FitsRule, FitsPort
  <1>7. CASE c.op = "delete_rule"
    <2>1. request' = Ask("neutron_delete_security_group_rule", None)
      BY <1>7 DEF FirstRequest
    <2> QED
      BY <1>1, <1>7, <2>1 DEF Listings, Changing, FitsListing, FitsGroup, FitsRule, FitsPort
  <1>8. CASE c.op \in {"attach_nic", "detach_nic"}
    <2>1. request' = Ask("get_port", None)
      BY <1>8 DEF FirstRequest
    <2> QED
      BY <1>1, <1>8, <2>1 DEF Listings, Changing, FitsListing, FitsGroup, FitsRule, FitsPort
  <1>9. CASE c.op = "create_rule"
    <2> DEFINE n == c.rule.remote
    <2>1. CASE n \notin Name
      <3>1. request' = Ask("neutron_create_security_group_rule", None)
        BY <1>9, <2>1 DEF FirstRequest
      <3> QED
        BY <1>1, <1>9, <2>1, <3>1
        DEF Listings, Changing, FitsListing, FitsGroup, FitsRule, FitsPort
    <2>2. CASE n \in Name /\ cached[n] = None
      <3>1. request' = Ask("list_security_groups", None)
        BY <1>9, <2>2 DEF FirstRequest
      <3> QED
        BY <1>1, <1>9, <2>2, <3>1
        DEF Listings, Changing, FitsListing, FitsGroup, FitsRule, FitsPort
    <2>3. CASE n \in Name /\ cached[n] # None
      <3>1. request' = Ask("neutron_create_security_group_rule", cached[n])
        BY <1>9, <2>3 DEF FirstRequest
      <3>2. /\ request' \in Request /\ request'.m = "neutron_create_security_group_rule"
            /\ request'.arg = cached[n]
        BY <1>1, <1>2, <2>3, <3>1 DEF Changing
      <3>3. Named(n, cached[n])'
        BY <1>2, <2>3, NamedStays
      <3>4. Named(call.rule.remote, request.arg)'
        BY <3>2, <3>3 DEF Named
      <3> QED
        BY <1>2, <1>9, <2>3, <3>2, <3>4
        DEF FitsListing, FitsGroup, FitsRule, FitsPort
    <2> QED
      BY <2>1, <2>2, <2>3
  <1> QED
    BY <1>3, <1>4, <1>5, <1>6, <1>7, <1>8, <1>9, CallIs

LEMMA BeginStep ==
    ASSUME GatewayInv, NEW c \in Calls, Begin(c)
    PROVE  GatewayInv'
  <1>1. /\ history' = history /\ began' = Len(history) /\ Ever' = Ever
        /\ call' = c /\ request' = FirstRequest(c) /\ cached' = cached
        /\ out' = NothingRead /\ status' = "none" /\ made' = {} /\ late' = 0
        /\ tries' = tries /\ changes' = changes /\ calls' = calls + 1 /\ calls < MaxCalls
    BY DEF Begin, Ever
  <1>2. /\ request' \in Request /\ (request.m # "none")'
        /\ FitsListing' /\ FitsGroup' /\ FitsRule' /\ FitsPort'
        /\ request'.m = "neutron_list_security_groups" => request'.arg = None
        /\ request'.m # "list_ports"
    BY <1>1, FirstFits
  <1>3. HistoryOK'
    BY <1>1, LiveIs DEF GatewayInv, HistoryOK
  <1>4. HoldsOK'
    <2>1. calls' \in 0..MaxCalls
      BY <1>1, GatewayAssumption DEF GatewayInv, HoldsOK
    <2> QED
      BY <1>1, <1>2, <2>1, FS_EmptySet DEF GatewayInv, HoldsOK
  <1>5. CacheTrue'
    BY <1>1 DEF GatewayInv, CacheTrue, Named
  <1>6. Fits'
    BY <1>1, <1>2 DEF Fits
  <1>7. MadeOK'
    BY <1>1, FS_EmptySet DEF MadeOK
  <1>8. ReadOK'
    <2>1. WellFormed(NothingRead)
      BY DEF WellFormed, NothingRead, Inventory
    <2>2. /\ NothingRead.sgs = {} /\ NothingRead.nics = {} /\ Ids(NothingRead) = {}
      BY DEF NothingRead, Ids
    <2>3. OfItsTime'
      BY <1>1, <2>2 DEF OfItsTime
    <2>4. Whole'
      BY <1>1, <1>2, <2>2 DEF Whole, UpTo, Ok
    <2> QED
      BY <1>1, <2>1, <2>3, <2>4 DEF ReadOK
  <1>9. OkMeansDone'
    BY <1>1 DEF OkMeansDone
  <1> QED
    BY <1>3, <1>4, <1>5, <1>6, <1>7, <1>8, <1>9 DEF GatewayInv

LEMMA TryAgainIs ==
    ASSUME GatewayInv, TryAgain \/ Return("failed"), request.m # "none"
    PROVE  /\ tries' \in 1..MaxTries /\ request' \in Request
           /\ status' \in {"none", "failed"}
           /\ \/ request' = request /\ status' = status
              \/ request' = NoRequest /\ status' = "failed"
  <1>1. /\ tries \in 1..MaxTries /\ request \in Request /\ MaxTries \in Nat \ {0}
        /\ status \in {"none", "ok", "failed"}
    BY GatewayAssumption DEF GatewayInv, HoldsOK
  <1>2. status = "none"
    BY <1>1 DEF GatewayInv, Fits, NoRequest
  <1>3. NoRequest \in Request
    BY DEF NoRequest, Request
  <1> QED
    BY <1>1, <1>2, <1>3 DEF TryAgain, Return

\* A request that is not answered: it may have taken effect.
LEMMA NoAnswer ==
    ASSUME GatewayInv, TryAgain \/ Return("failed"), request.m # "none",
           UNCHANGED <<cached, call, out, began, calls, changes>>,
           \/ /\ Effect
              /\ \/ late' = late + Cardinality(made' \ made)
                 \/ (request' = NoRequest /\ late' = late)
           \/ UNCHANGED <<history, made, late>>
    PROVE  GatewayInv'
  <1>1. /\ tries' \in 1..MaxTries /\ request' \in Request
        /\ status' \in {"none", "failed"}
        /\ \/ request' = request /\ status' = status
           \/ request' = NoRequest /\ status' = "failed"
    BY TryAgainIs
  <1>2. /\ HoldsOK /\ MadeOK /\ Cardinality(made) \in Nat /\ late \in Nat
    BY FS_CardinalityType DEF GatewayInv, HoldsOK
  <1>3. /\ HistoryOK' /\ Ever \subseteq Ever' /\ During \subseteq During'
        /\ made \subseteq made' /\ made' \subseteq SgId /\ IsFiniteSet(made')
        /\ late' \in Nat /\ MadeOK'
    <2>1. CASE Effect
      <3>1. /\ HistoryOK' /\ Ever \subseteq Ever' /\ During \subseteq During'
            /\ made \subseteq made' /\ made' \subseteq SgId /\ IsFiniteSet(made')
            /\ Cardinality(made' \ made) \in Nat
            /\ Cardinality(made') = Cardinality(made) + Cardinality(made' \ made)
            /\ Cardinality(made' \ made) <= 1
            /\ request.m # "create_security_group" => Cardinality(made' \ made) = 0
        BY <2>1, EffectGoesOn
      <3>2. late \in Nat
        BY <1>2
      <3>3. late' = late + Cardinality(made' \ made) \/ (request' = NoRequest /\ late' = late)
        <4>1. UNCHANGED <<history, made, late>> => Cardinality(made' \ made) = 0
          <5> HAVE UNCHANGED <<history, made, late>>
          <5>1. made' \ made = {}
            OBVIOUS
          <5> QED
            BY <5>1, FS_EmptySet
        <4> QED
          BY <4>1, <3>2
      <3>4. CASE late' = late + Cardinality(made' \ made)
        BY <1>1, <1>2, <3>1, <3>4 DEF MadeOK, NoRequest
      <3>5. CASE request' = NoRequest /\ late' = late
        BY <1>1, <1>2, <3>1, <3>5 DEF MadeOK, NoRequest
      <3> QED
        BY <1>2, <3>1, <3>3, <3>4, <3>5
    <2>2. CASE UNCHANGED <<history, made, late>>
      <3>1. HistoryOK' /\ Ever' = Ever /\ During' = During
        BY <2>2 DEF GatewayInv, HistoryOK, Ever, During
      <3>2. MadeOK'
        BY <1>1, <1>2, <2>2 DEF MadeOK, NoRequest
      <3> QED
        BY <1>2, <2>2, <3>1, <3>2 DEF HoldsOK
    <2> QED
      BY <2>1, <2>2
  <1>4. CacheTrue' /\ Fits' /\ ReadOK'
    BY <1>1, <1>3, SameCall
  <1>5. HoldsOK'
    BY <1>1, <1>2, <1>3 DEF HoldsOK
  <1>6. OkMeansDone'
    BY <1>1 DEF OkMeansDone
  <1> QED
    BY <1>3, <1>4, <1>5, <1>6 DEF GatewayInv

LEMMA UnansweredStep ==
    ASSUME GatewayInv, Throttled \/ ThrottledLate \/ Refused \/ AnswerLost
    PROVE  GatewayInv'
  <1>1. Busy => request.m # "none"
    BY DEF GatewayInv, Fits, Busy
  <1>2. Effect => request.m # "none"
    BY DEF Effect, MakeGroup, DescribeGroup, RemoveGroup, PostRule, RemoveRule, PutPort
  <1>3. CASE Throttled
    BY <1>1, <1>3, NoAnswer DEF Throttled
  <1>4. CASE ThrottledLate
    BY <1>2, <1>4, NoAnswer DEF ThrottledLate
  <1>5. CASE Refused
    BY <1>1, <1>5, NoAnswer DEF Refused
  <1>6. CASE AnswerLost
    <2>1. request' = NoRequest
      BY <1>6 DEF AnswerLost, Return
    <2> QED
      BY <1>2, <1>6, <2>1, NoAnswer DEF AnswerLost
  <1> QED
    BY <1>3, <1>4, <1>5, <1>6

\* What a call has done it has done, whatever others do next.
LEMMA ReachedStays ==
    ASSUME UNCHANGED <<call, made, cached>>, Ever \subseteq Ever', NEW inv, Reached(inv)
    PROVE  Reached(inv)'
  <1>1. \A n, id : Named(n, id) => Named(n, id)'
    BY NamedStays
  <1>2. ASSUME NEW n PROVE Ids(inv)' = Ids(inv) /\ RulesIn(inv, n)' = RulesIn(inv, n)
    BY DEF Ids, RulesIn
  <1> QED
    BY <1>1, <1>2 DEF Reached, Ids, RulesIn

LEMMA OthersStep ==
    ASSUME GatewayInv, OthersChange
    PROVE  GatewayInv'
  <1>1. /\ UNCHANGED <<cached, call, request, tries, out, status, began, made, late, calls>>
        /\ changes' = changes + 1 /\ changes < MaxChanges
        /\ HistoryOK /\ HoldsOK
    BY DEF OthersChange, GatewayInv
  <1>2. HistoryOK' /\ Ever \subseteq Ever' /\ During \subseteq During'
    <2>1. \E inv : Becomes(inv) /\ Follows(inv)
      BY <1>1, OthersFollow DEF OthersChange
    <2> QED
      BY <1>1, <2>1, GoesOn
  <1>3. CacheTrue' /\ Fits' /\ ReadOK'
    BY <1>1, <1>2, SameCall
  <1>4. HoldsOK'
    <2>1. changes' \in 0..MaxChanges
      BY <1>1, GatewayAssumption DEF HoldsOK
    <2> QED
      BY <1>1, <2>1 DEF HoldsOK
  <1>5. MadeOK'
    BY <1>1 DEF GatewayInv, MadeOK
  <1>6. OkMeansDone'
    <2> SUFFICES ASSUME status = "ok" PROVE \E inv \in During' : Reached(inv)'
      BY <1>1 DEF OkMeansDone
    <2>1. PICK inv \in During : Reached(inv)
      BY DEF GatewayInv, OkMeansDone
    <2>2. Reached(inv)'
      BY <1>1, <1>2, <2>1, ReachedStays
    <2> QED
      BY <1>2, <2>1, <2>2
  <1> QED
    BY <1>2, <1>3, <1>4, <1>5, <1>6 DEF GatewayInv

LEMMA StillStep ==
    ASSUME GatewayInv, UNCHANGED vars
    PROVE  GatewayInv'
  <1>1. /\ UNCHANGED <<history, cached, call, request, tries, out, status, began, made, late,
                       calls, changes>>
        /\ HistoryOK /\ HoldsOK
    BY DEF vars, GatewayInv
  <1>2. HistoryOK' /\ Ever' = Ever /\ During' = During
    BY <1>1 DEF HistoryOK, Ever, During
  <1>3. CacheTrue' /\ Fits' /\ ReadOK'
    BY <1>1, <1>2, SameCall
  <1>4. HoldsOK' /\ MadeOK'
    BY <1>1 DEF GatewayInv, HoldsOK, MadeOK
  <1>5. OkMeansDone'
    <2> SUFFICES ASSUME status = "ok" PROVE \E inv \in During' : Reached(inv)'
      BY <1>1 DEF OkMeansDone
    <2>1. PICK inv \in During : Reached(inv)
      BY DEF GatewayInv, OkMeansDone
    <2>2. Reached(inv)'
      BY <1>1, <1>2, <2>1, ReachedStays
    <2> QED
      BY <1>2, <2>1, <2>2
  <1> QED
    BY <1>2, <1>3, <1>4, <1>5 DEF GatewayInv

\* What an answered request has done is what its call is for.
LEMMA AnswerIsDone ==
    ASSUME GatewayInv, UNCHANGED <<call, cached, made, began>>,
           DescribeGroup \/ RemoveGroup \/ PostRule \/ RemoveRule \/ PutPort
    PROVE  \E inv \in During' : Reached(inv)'
  <1>1. HistoryOK
    BY DEF GatewayInv
  <1>2. ASSUME NEW inv, Becomes(inv), Follows(inv)
        PROVE  inv \in During' /\ Ever \subseteq Ever'
    BY <1>1, <1>2, GoesOn
  <1>3. CASE DescribeGroup
    <2>1. PICK inv : /\ Becomes(inv) /\ Follows(inv)
                     /\ \E sg \in inv.sgs : sg.id = DescribedId /\ sg.description = call.description
      BY <1>3, Describes
    <2>2. PICK sg \in inv.sgs : sg.id = DescribedId /\ sg.description = call.description
      BY <2>1
    <2>3. CASE call.op = "update_security_group_description"
      <3>1. Reached(inv)'
        BY <2>2, <2>3 DEF Reached, DescribedId
      <3> QED
        BY <1>2, <2>1, <3>1
    <2>4. CASE /\ call.op = "create_security_group"
               /\ request.arg \in made /\ request.arg = cached[call.name]
               /\ Named(call.name, request.arg)
      <3>1. sg.id = request.arg
        BY <2>2, <2>4 DEF DescribedId
      <3>2. Named(call.name, sg.id)'
        BY <1>2, <2>1, <2>4, <3>1, NamedStays
      <3>3. Reached(inv)'
        BY <2>2, <2>4, <3>1, <3>2 DEF Reached
      <3> QED
        BY <1>2, <2>1, <3>3
    <2> QED
      BY <1>3, <2>3, <2>4 DEF GatewayInv, Fits, FitsGroup, DescribeGroup
  <1>4. CASE RemoveGroup
    <2>1. PICK inv : Becomes(inv) /\ Follows(inv) /\ call.sg_id \notin Ids(inv)
      BY <1>4, Removes
    <2>2. call.op = "delete_security_group"
      BY <1>4 DEF GatewayInv, Fits, FitsGroup, RemoveGroup
    <2>3. Reached(inv)'
      BY <2>1, <2>2 DEF Reached, Ids
    <2> QED
      BY <1>2, <2>1, <2>3
  <1>5. CASE PostRule
    <2>1. PICK inv : /\ Becomes(inv) /\ Follows(inv)
                     /\ \E r \in inv.rules :
                          /\ r.sg_id = call.sg_id
                          /\ r.direction = call.rule.direction /\ r.service = call.rule.service
                          /\ r.remote_group_id = request.arg
                          /\ request.arg = None => r.remote_ip_prefix = call.rule.remote
      BY <1>5, Posts
    <2>2. PICK r \in inv.rules :
                          /\ r.sg_id = call.sg_id
                          /\ r.direction = call.rule.direction /\ r.service = call.rule.service
                          /\ r.remote_group_id = request.arg
                          /\ request.arg = None => r.remote_ip_prefix = call.rule.remote
      BY <2>1
    <2>3. /\ call.op = "create_rule"
          /\ IF call.rule.remote \in Name THEN Named(call.rule.remote, request.arg)
             ELSE request.arg = None
      BY <1>5 DEF GatewayInv, Fits, FitsRule, PostRule
    <2>4. Named(call.rule.remote, request.arg) => Named(call.rule.remote, r.remote_group_id)'
      BY <1>2, <2>1, <2>2, NamedStays
    <2>5. r \in RulesIn(inv, call.sg_id)
      BY <2>2 DEF RulesIn
    <2>6. IF call.rule.remote \in Name
          THEN Named(call.rule.remote, r.remote_group_id)'
          ELSE r.remote_group_id = None /\ r.remote_ip_prefix = call.rule.remote
      BY <2>2, <2>3, <2>4
    <2>7. Reached(inv)'
      BY <2>2, <2>3, <2>5, <2>6 DEF Reached, RulesIn
    <2> QED
      BY <1>2, <2>1, <2>7
  <1>6. CASE RemoveRule
    <2>1. PICK inv : /\ Becomes(inv) /\ Follows(inv)
                     /\ \A r \in inv.rules : r.id # call.rule_id
      BY <1>6, Withdraws
    <2>2. call.op = "delete_rule"
      BY <1>6 DEF GatewayInv, Fits, FitsRule, RemoveRule
    <2>3. Reached(inv)'
      BY <2>1, <2>2 DEF Reached
    <2> QED
      BY <1>2, <2>1, <2>3
  <1>7. CASE PutPort
    <2>1. PICK inv : /\ Becomes(inv) /\ Follows(inv)
                     /\ \A id, p : <<id, p>> \in inv.attached <=>
                           IF p = call.port_id THEN id \in request.arg
                           ELSE <<id, p>> \in Live.attached
      BY <1>7, Puts
    <2>2. /\ call.op \in {"attach_nic", "detach_nic"}
          /\ \E x \in During : request.arg = NewGroups(GroupsOf(x, call.port_id))
      BY <1>7 DEF GatewayInv, Fits, FitsPort, PutPort
    <2>3. call.sg_id \in request.arg <=> call.op = "attach_nic"
      BY <2>2 DEF NewGroups
    <2>4. <<call.sg_id, call.port_id>> \in inv.attached <=> call.op = "attach_nic"
      BY <2>1, <2>3
    <2>5. Reached(inv)'
      BY <2>2, <2>4 DEF Reached
    <2> QED
      BY <1>2, <2>1, <2>5
  <1> QED
    BY <1>3, <1>4, <1>5, <1>6, <1>7

LEMMA AnsweredStep ==
    ASSUME GatewayInv, Answered
    PROVE  GatewayInv'
  <1>1. /\ DescribeGroup \/ RemoveGroup \/ PostRule \/ RemoveRule \/ PutPort
        /\ request' = NoRequest /\ tries' = MaxTries /\ status' = "ok"
        /\ UNCHANGED <<cached, call, out, began, late, calls, changes>>
        /\ HoldsOK
    BY DEF Answered, Return, GatewayInv
  <1>2. Effect /\ made' = made
    BY <1>1 DEF Effect, DescribeGroup, RemoveGroup, PostRule, RemoveRule, PutPort
  <1>3. HistoryOK' /\ Ever \subseteq Ever' /\ During \subseteq During'
    BY <1>1, <1>2, EffectGoesOn
  <1>4. call.op # "inventory"
    BY <1>1 DEF GatewayInv, Fits, FitsGroup, FitsRule, FitsPort,
                DescribeGroup, RemoveGroup, PostRule, RemoveRule, PutPort
  <1>5. CacheTrue' /\ Fits' /\ ReadOK'
    BY <1>1, <1>2, <1>3, <1>4, SameCall
  <1>6. HoldsOK'
    BY <1>1, <1>2, GatewayAssumption DEF HoldsOK, NoRequest, Request
  <1>7. MadeOK'
    <2>1. Cardinality(made) \in Nat /\ late \in Nat
      BY <1>1, FS_CardinalityType DEF HoldsOK
    <2> QED
      BY <1>1, <1>2, <2>1 DEF GatewayInv, MadeOK, NoRequest
  <1>8. OkMeansDone'
    BY <1>1, <1>2, AnswerIsDone DEF OkMeansDone
  <1> QED
    BY <1>3, <1>5, <1>6, <1>7, <1>8 DEF GatewayInv

LEMMA CacheStays ==
    ASSUME GatewayInv, Ever \subseteq Ever', cached' = cached
    PROVE  CacheTrue'
  <1>1. \A n \in Name : cached[n] # None => Named(n, cached[n])'
    BY NamedStays DEF GatewayInv, CacheTrue
  <1> QED
    BY <1>1 DEF CacheTrue, Named, Ever

\* A step of a call that reads no inventory.
LEMMA ReadStays ==
    ASSUME GatewayInv, out' = out, During \subseteq During', ~Ok("inventory")',
           request'.m \notin {"neutron_list_security_groups", "list_ports"}
    PROVE  ReadOK'
  <1>1. WellFormed(out)'
    BY DEF GatewayInv, ReadOK, WellFormed, Inventory
  <1>2. OfItsTime'
    BY DEF GatewayInv, ReadOK, OfItsTime, RulesIn, GroupsOf
  <1>3. Whole'
    BY DEF Whole
  <1> QED
    BY <1>1, <1>2, <1>3 DEF ReadOK

LEMMA PortGotStep ==
    ASSUME GatewayInv, PortGot
    PROVE  GatewayInv'
  <1> DEFINE ids == GroupsOf(Live, call.port_id)
  <1>1. /\ request.m = "get_port" /\ status = "none"
        /\ call.op \in {"attach_nic", "detach_nic"} /\ call \in Calls
        /\ UNCHANGED <<history, cached, call, out, began, made, late, calls, changes>>
        /\ HistoryOK /\ HoldsOK
    BY DEF GatewayInv, PortGot, Fits, FitsPort, NoRequest, HoldsOK
  <1>2. /\ HistoryOK' /\ Ever' = Ever /\ During' = During
        /\ Live \in During /\ Live \in Inventory
    BY <1>1, LiveIs DEF HistoryOK, Ever, During
  <1>3. ids \subseteq SgId /\ NewGroups(ids) \subseteq SgId
        /\ \A id : id \in ids <=> <<id, call.port_id>> \in Live.attached
    BY <1>1, <1>2, CallIs, GroupsOfIs DEF NewGroups
  <1>4. \/ /\ request' = NoRequest /\ tries' = MaxTries /\ status' = "failed"
        \/ /\ request' = NoRequest /\ tries' = MaxTries /\ status' = "ok"
           /\ NewGroups(ids) = ids
        \/ /\ request' = [m |-> "update_port", arg |-> NewGroups(ids)]
           /\ tries' = MaxTries /\ status' = status
    BY DEF PortGot, Return, Continue, Ask
  <1> HIDE DEF ids
  <1>5. /\ tries' \in 1..MaxTries /\ request' \in Request
        /\ request'.m \in {"none", "update_port"}
    BY <1>3, <1>4, GatewayAssumption DEF NoRequest, Request, Changing
  <1>6. HoldsOK'
    BY <1>1, <1>4, <1>5 DEF HoldsOK
  <1>7. MadeOK'
    <2>1. Cardinality(made) \in Nat /\ late \in Nat
      BY <1>1, FS_CardinalityType DEF HoldsOK
    <2> QED
      BY <1>1, <1>5, <2>1 DEF GatewayInv, MadeOK
  <1>8. CacheTrue' /\ ReadOK'
    BY <1>1, <1>2, <1>5, CacheStays, ReadStays DEF Ok
  <1>9. Fits'
    <2>1. FitsListing' /\ FitsGroup' /\ FitsRule'
      BY <1>5 DEF FitsListing, FitsGroup, FitsRule
    <2>2. FitsPort'
      <3>1. (request.m = "update_port")' => request'.arg = NewGroups(ids)
        BY <1>4 DEF NoRequest
      <3>2. NewGroups(ids)' = NewGroups(GroupsOf(Live, call.port_id))
        BY <1>1, <1>2 DEF NewGroups, ids, Live
      <3>3. \A x : NewGroups(GroupsOf(x, call.port_id))' = NewGroups(GroupsOf(x, call.port_id))
        BY <1>1 DEF NewGroups, GroupsOf
      <3> QED
        BY <1>1, <1>2, <1>5, <3>1, <3>3 DEF FitsPort, ids
    <2> QED
      BY <1>1, <1>4, <2>1, <2>2 DEF Fits, NoRequest
  <1>10. OkMeansDone'
    <2> SUFFICES ASSUME status' = "ok" PROVE \E inv \in During' : Reached(inv)'
      BY DEF OkMeansDone
    <2>0. PICK inv \in During : inv = Live
      BY <1>2
    <2>1. NewGroups(ids) = ids
      BY <1>1, <1>4
    <2>2. call.sg_id \in ids <=> call.op = "attach_nic"
      BY <1>1, <2>1 DEF NewGroups
    <2>3. <<call.sg_id, call.port_id>> \in inv.attached <=> call.op = "attach_nic"
      BY <1>3, <2>0, <2>2
    <2>4. Reached(inv)'
      BY <1>1, <2>3 DEF Reached
    <2> QED
      BY <1>2, <2>4
  <1> QED
    BY <1>2, <1>6, <1>7, <1>8, <1>9, <1>10 DEF GatewayInv

LEMMA GroupMadeStep ==
    ASSUME GatewayInv, GroupMade
    PROVE  GatewayInv'
  <1>1. /\ MakeGroup /\ UNCHANGED <<call, out, began, late, calls, changes>>
        /\ request.m = "create_security_group" /\ call.op = "create_security_group"
        /\ call \in Calls /\ status = "none" /\ HistoryOK /\ HoldsOK
        /\ call.name \in Name
    BY CallIs DEF GroupMade, MakeGroup, GatewayInv, Fits, FitsGroup, HoldsOK, NoRequest
  <1>2. PICK id \in made' \ made :
           cached' = [cached EXCEPT ![call.name] = id] /\ DescribeNew(id)
    BY DEF GroupMade
  <1>3. PICK i \in SgId :
              /\ made' = made \cup {i}
              /\ \E inv : /\ Becomes(inv) /\ Follows(inv) /\ inv.attached = Live.attached
                          /\ [id |-> i, name |-> call.name, description |-> Blank] \in inv.sgs
    BY <1>1, Creates
  <1>4. id = i /\ id \in SgId /\ id \in made'
    BY <1>2, <1>3
  <1>5. PICK inv : /\ Becomes(inv) /\ Follows(inv)
                   /\ [id |-> id, name |-> call.name, description |-> Blank] \in inv.sgs
    BY <1>3, <1>4
  <1>6. /\ HistoryOK' /\ Ever \subseteq Ever' /\ During \subseteq During'
        /\ inv \in During' /\ inv \in Ever'
    BY <1>1, <1>5, GoesOn
  <1>7. /\ made' \subseteq SgId /\ IsFiniteSet(made')
        /\ Cardinality(made') <= Cardinality(made) + 1 /\ Cardinality(made') \in Nat
        /\ Cardinality(made) \in Nat
    BY <1>1, EffectGoesOn, FS_CardinalityType DEF Effect, HoldsOK
  <1>8. \/ /\ request' = [m |-> "neutron_update_security_group", arg |-> id]
           /\ tries' = MaxTries /\ status' = status
        \/ /\ request' = NoRequest /\ tries' = MaxTries /\ status' = "ok"
           /\ call.description = Blank
    BY <1>2 DEF DescribeNew, Continue, Return, Ask
  <1>9. /\ tries' \in 1..MaxTries /\ request' \in Request
        /\ request'.m \in {"none", "neutron_update_security_group"}
    BY <1>4, <1>8, GatewayAssumption DEF NoRequest, Request, Changing
  <1>10. /\ cached' \in [Name -> SgId \cup {None}] /\ cached'[call.name] = id
         /\ \A n \in Name : n # call.name => cached'[n] = cached[n]
    BY <1>1, <1>2, <1>4 DEF HoldsOK
  <1>11. HoldsOK'
    BY <1>1, <1>7, <1>8, <1>9, <1>10 DEF HoldsOK
  <1>12. MadeOK'
    BY <1>1, <1>7, <1>9 DEF GatewayInv, MadeOK, HoldsOK
  <1>13. Named(call.name, id)'
    <2>1. \E x \in inv.sgs : x.name = call.name /\ x.id = id
      BY <1>5
    <2>2. \E y \in Ever' : \E x \in y.sgs : x.name = call.name /\ x.id = id
      BY <1>6, <2>1
    <2> QED
      BY <1>1, <2>2 DEF Named
  <1>14. CacheTrue'
    <2> SUFFICES ASSUME NEW n \in Name, (cached[n] # None)' PROVE Named(n, cached[n])'
      BY DEF CacheTrue
    <2>1. CASE n = call.name
      <3>1. \E y \in Ever' : \E x \in y.sgs : x.name = n /\ x.id = cached'[n]
        BY <1>1, <1>10, <1>13, <2>1 DEF Named
      <3> QED
        BY <3>1 DEF Named
    <2>2. CASE n # call.name
      <3>1. Named(n, cached[n])
        BY <1>10, <2>2 DEF GatewayInv, CacheTrue
      <3>2. PICK y \in Ever : \E x \in y.sgs : x.name = n /\ x.id = cached[n]
        BY <3>1 DEF Named
      <3>3. \E x \in y.sgs : x.name = n /\ x.id = cached'[n]
        BY <1>10, <2>2, <3>2
      <3> QED
        BY <1>6, <3>3 DEF Named
    <2> QED
      BY <2>1, <2>2
  <1>15. ReadOK'
    BY <1>1, <1>6, <1>9, ReadStays DEF Ok
  <1>16. Fits'
    <2>1. FitsListing' /\ FitsRule' /\ FitsPort'
      BY <1>9 DEF FitsListing, FitsRule, FitsPort
    <2>2. FitsGroup'
      <3>1. (request.m = "neutron_update_security_group")' => request'.arg = id
        BY <1>8 DEF NoRequest
      <3>2. request'.arg = id => Named(call.name, request.arg)'
        BY <1>1, <1>13 DEF Named
      <3> QED
        BY <1>1, <1>4, <1>9, <1>10, <3>1, <3>2 DEF FitsGroup
    <2> QED
      BY <1>1, <1>8, <2>1, <2>2 DEF Fits, NoRequest
  <1>17. OkMeansDone'
    <2> SUFFICES ASSUME status' = "ok" PROVE Reached(inv)'
      BY <1>6 DEF OkMeansDone
    <2>1. PICK sg \in inv.sgs : sg.id = id /\ sg.description = Blank
      BY <1>5
    <2>2. sg.description = call.description
      BY <1>1, <1>8, <2>1
    <2>3. Named(call.name, sg.id)'
      BY <1>13, <2>1
    <2> QED
      BY <1>1, <1>4, <1>10, <2>1, <2>2, <2>3 DEF Reached
  <1> QED
    BY <1>6, <1>11, <1>12, <1>14, <1>15, <1>16, <1>17 DEF GatewayInv

LEMMA CacheWithTrue ==
    ASSUME GatewayInv, NEW ids
    PROVE  /\ CacheWith(ids) \in [Name -> SgId \cup {None}]
           /\ \A n \in Name : CacheWith(ids)[n] # None => Named(n, CacheWith(ids)[n])
  <1> DEFINE named(n) == {sg.id : sg \in {x \in Live.sgs : x.id \in ids /\ x.name = n}}
  <1>1. HistoryOK /\ cached \in [Name -> SgId \cup {None}]
        /\ \A n \in Name : cached[n] # None => Named(n, cached[n])
    BY DEF GatewayInv, HoldsOK, CacheTrue
  <1>2. \A n : named(n) \in SUBSET Listed /\ named(n) \subseteq SgId
               /\ \A id \in named(n) : Named(n, id)
    BY <1>1, NamedNow, LiveParts DEF CloudSg, Listed
  <1>3. CacheWith(ids) = [n \in Name |-> IF named(n) = {} THEN cached[n] ELSE LastOf(named(n))]
    BY Zenon DEF CacheWith
  <1> HIDE DEF named
  <1>4. \A n : named(n) # {} => LastOf(named(n)) \in named(n)
    BY <1>2, LastOfIs
  <1>5. \A n \in Name : CacheWith(ids)[n] = IF named(n) = {} THEN cached[n] ELSE LastOf(named(n))
    BY <1>3
  <1>6. \A n \in Name : /\ CacheWith(ids)[n] \in SgId \cup {None}
                        /\ CacheWith(ids)[n] # None => Named(n, CacheWith(ids)[n])
    BY <1>1, <1>2, <1>4, <1>5
  <1> QED
    BY <1>3, <1>6

\* How far a listing is once a page is read.
LEMMA Passed ==
    ASSUME NEW S \in SUBSET Listed, NEW marker \in Listed \cup {None}
    PROVE  /\ Page(S, marker) \subseteq S /\ Page(S, marker) \cap UpTo(marker) = {}
           /\ Full(Page(S, marker)) =>
                /\ LastOf(Page(S, marker)) \in Page(S, marker)
                /\ Page(S, marker) \subseteq UpTo(LastOf(Page(S, marker)))
                /\ UpTo(marker) \subseteq UpTo(LastOf(Page(S, marker)))
                /\ S \cap UpTo(LastOf(Page(S, marker))) \subseteq Page(S, marker) \cup UpTo(marker)
           /\ ~Full(Page(S, marker)) => S \subseteq Page(S, marker) \cup UpTo(marker)
  <1> DEFINE page == Page(S, marker)
  <1>1. None \notin Listed /\ \A i \in Listed : Position[i] \in Nat
    BY Places, EstateAssumption, GatewayAssumption DEF Listed
  <1>2. /\ After(S, marker) \subseteq S /\ page \subseteq After(S, marker)
        /\ Full(page) => /\ LastOf(page) \in page
                         /\ \A i \in After(S, marker) :
                               i \in page <=> Position[i] <= Position[LastOf(page)]
        /\ ~Full(page) => page = After(S, marker)
    BY PageIs
  <1> HIDE DEF page
  <1>3. After(S, marker) \cap UpTo(marker) = {} /\ S \subseteq After(S, marker) \cup UpTo(marker)
    BY <1>1 DEF After, UpTo
  <1>4. ASSUME Full(page)
        PROVE  /\ page \subseteq UpTo(LastOf(page))
               /\ UpTo(marker) \subseteq UpTo(LastOf(page))
               /\ S \cap UpTo(LastOf(page)) \subseteq page \cup UpTo(marker)
    <2> DEFINE last == LastOf(page)
    <2>1. /\ last \in page /\ last \in Listed /\ last # None /\ last \in After(S, marker)
          /\ \A i \in After(S, marker) : i \in page <=> Position[i] <= Position[last]
      BY <1>1, <1>2, <1>4
    <2> HIDE DEF last
    <2>2. UpTo(last) = {i \in Listed : Position[i] <= Position[last]}
      BY <2>1 DEF UpTo
    <2>3. page \subseteq UpTo(last)
      BY <1>2, <2>1, <2>2
    <2>4. UpTo(marker) \subseteq UpTo(last)
      BY <1>1, <2>1, <2>2 DEF UpTo, After
    <2>5. S \cap UpTo(last) \subseteq page \cup UpTo(marker)
      BY <1>3, <2>1, <2>2
    <2> QED
      BY <2>3, <2>4, <2>5 DEF last
  <1> QED
    BY <1>2, <1>3, <1>4 DEF page

\* A page of groups is read, each with its rules.
LEMMA GroupsRead ==
    ASSUME GatewayInv, NEW page \in SUBSET Ids(Live), page \cap Ids(out) = {}
    PROVE  /\ WellFormed(ReadGroups(page))
           /\ Ids(ReadGroups(page)) = Ids(out) \cup page
           /\ ReadGroups(page).nics = out.nics /\ ReadGroups(page).attached = out.attached
           /\ \A sg \in ReadGroups(page).sgs : \E inv \in During :
                 sg \in inv.sgs /\ RulesIn(inv, sg.id) = RulesIn(ReadGroups(page), sg.id)
  <1> DEFINE new == ReadGroups(page)
             groups == {sg \in Live.sgs : sg.id \in page}
             ruled == {r \in Live.rules : r.sg_id \in page}
  <1>1. /\ HistoryOK /\ WellFormed(out) /\ OfItsTime
        /\ WellFormed(Live) /\ Live \in During /\ During \subseteq Ever
        /\ \A a, b \in Ever : OneForEver(a, b)
    BY LiveIs DEF GatewayInv, ReadOK, HistoryOK
  <1>2. new = [sgs |-> out.sgs \cup groups, rules |-> out.rules \cup ruled,
               attached |-> out.attached, nics |-> out.nics]
    <2>1. new = [out EXCEPT !.sgs = @ \cup groups, !.rules = @ \cup ruled]
      BY DEF ReadGroups
    <2>2. out = [sgs |-> out.sgs, rules |-> out.rules, attached |-> out.attached,
                 nics |-> out.nics]
      BY <1>1, CloudParts
    <2> HIDE DEF new, groups, ruled
    <2> QED
      BY <2>1, <2>2
  <1>3. /\ groups \subseteq Live.sgs /\ ruled \subseteq Live.rules
        /\ \A sg \in groups : sg.id \in page
        /\ \A r \in ruled : r.sg_id \in page
        /\ \A sg \in Live.sgs : sg.id \in page => sg \in groups
        /\ \A r \in Live.rules : r.sg_id \in page => r \in ruled
    OBVIOUS
  <1> HIDE DEF new, groups, ruled
  <1>4. /\ new.sgs = out.sgs \cup groups /\ new.rules = out.rules \cup ruled
        /\ new.attached = out.attached /\ new.nics = out.nics
    BY <1>2
  <1>5. Ids(new) = Ids(out) \cup page
    <2>1. \A i : i \in page => \E sg \in Live.sgs : sg.id = i
      BY DEF Ids
    <2>2. \A i : i \in Ids(new) <=> \E sg \in new.sgs : sg.id = i
      BY DEF Ids
    <2>3. \A i : i \in Ids(out) <=> \E sg \in out.sgs : sg.id = i
      BY DEF Ids
    <2> QED
      BY <1>3, <1>4, <2>1, <2>2, <2>3
  <1>6. \A sg \in out.sgs : sg.id \in Ids(out) /\ sg.id \notin page
    BY DEF Ids
  <1>7. \A r \in out.rules : r.sg_id \in Ids(out) /\ r.sg_id \notin page
    <2>1. \A r \in out.rules : \E sg \in out.sgs : sg.id = r.sg_id
      BY <1>1 DEF WellFormed
    <2> QED
      BY <2>1, <1>6
  <1>8. \A r \in out.rules : \E inv \in During : r \in inv.rules
    <2> TAKE r \in out.rules
    <2>1. PICK sg \in out.sgs : sg.id = r.sg_id
      BY <1>1 DEF WellFormed
    <2>2. PICK inv \in During : RulesIn(inv, sg.id) = RulesIn(out, sg.id)
      BY <1>1 DEF OfItsTime
    <2>3. r \in RulesIn(out, sg.id)
      BY <2>1 DEF RulesIn
    <2> QED
      BY <2>2, <2>3 DEF RulesIn
  <1>9. WellFormed(new)
    <2>1. new \in Inventory
      BY <1>1, <1>2, <1>3, CloudParts DEF Inventory
    <2>2. \A x, y \in new.sgs : x.id = y.id => x = y
      BY <1>1, <1>3, <1>4, <1>6 DEF WellFormed
    <2>3. \A x, y \in new.rules : x.id = y.id => x = y
      <3>1. \A x \in new.rules : \E inv \in Ever : x \in inv.rules
        BY <1>1, <1>3, <1>4, <1>8
      <3> QED
        BY <1>1, <3>1 DEF OneForEver
    <2>4. \A r \in new.rules : \E sg \in new.sgs : sg.id = r.sg_id
      BY <1>1, <1>3, <1>4 DEF WellFormed
    <2>5. \A r \in new.rules : r.id \notin RuleId => r.id[1] = r.sg_id
      BY <1>1, <1>3, <1>4 DEF WellFormed
    <2>6. /\ \A x, y \in new.nics : x.port_id = y.port_id => x = y
          /\ \A p \in new.attached : \E x \in new.nics : x.port_id = p[2]
          /\ \A x \in new.nics : x.ip \in x.ips \/ (x.ip = None /\ x.ips = {})
      BY <1>1, <1>4 DEF WellFormed
    <2> QED
      BY <2>1, <2>2, <2>3, <2>4, <2>5, <2>6 DEF WellFormed
  <1>10. \A sg \in new.sgs : \E inv \in During :
            sg \in inv.sgs /\ RulesIn(inv, sg.id) = RulesIn(new, sg.id)
    <2> TAKE sg \in new.sgs
    <2>1. CASE sg \in out.sgs
      <3>1. PICK inv \in During : sg \in inv.sgs /\ RulesIn(inv, sg.id) = RulesIn(out, sg.id)
        BY <1>1, <2>1 DEF OfItsTime
      <3>2. RulesIn(new, sg.id) = RulesIn(out, sg.id)
        BY <1>3, <1>4, <1>6, <2>1 DEF RulesIn
      <3> QED
        BY <3>1, <3>2
    <2>2. CASE sg \in groups
      <3>1. RulesIn(new, sg.id) = RulesIn(Live, sg.id)
        BY <1>3, <1>4, <1>7, <2>2 DEF RulesIn
      <3> QED
        BY <1>1, <1>3, <2>2, <3>1
    <2> QED
      BY <1>4, <2>1, <2>2
  <1> QED
    BY <1>4, <1>5, <1>9, <1>10 DEF new

\* A page of ports is read, each with its groups.
LEMMA PortsRead ==
    ASSUME GatewayInv, NEW page \in SUBSET Ports(Live), page \cap Ports(out) = {}
    PROVE  /\ WellFormed(ReadPorts(page))
           /\ Ports(ReadPorts(page)) = Ports(out) \cup page
           /\ ReadPorts(page).sgs = out.sgs /\ ReadPorts(page).rules = out.rules
           /\ \A n \in ReadPorts(page).nics : \E inv \in During :
                 /\ n \in inv.nics
                 /\ GroupsOf(inv, n.port_id) = GroupsOf(ReadPorts(page), n.port_id)
  <1> DEFINE new == ReadPorts(page)
             found == {n \in Live.nics : n.port_id \in page}
             members == {p \in Live.attached : p[2] \in page}
  <1>1. /\ HistoryOK /\ WellFormed(out) /\ OfItsTime
        /\ WellFormed(Live) /\ Live \in During
    BY LiveIs DEF GatewayInv, ReadOK
  <1>2. new = [sgs |-> out.sgs, rules |-> out.rules,
               attached |-> out.attached \cup members, nics |-> out.nics \cup found]
    <2>1. new = [out EXCEPT !.nics = @ \cup found, !.attached = @ \cup members]
      BY DEF ReadPorts
    <2>2. out = [sgs |-> out.sgs, rules |-> out.rules, attached |-> out.attached,
                 nics |-> out.nics]
      BY <1>1, CloudParts
    <2> HIDE DEF new, found, members
    <2> QED
      BY <2>1, <2>2
  <1>3. /\ found \subseteq Live.nics /\ members \subseteq Live.attached
        /\ \A n \in found : n.port_id \in page
        /\ \A p \in members : p[2] \in page
        /\ \A n \in Live.nics : n.port_id \in page => n \in found
        /\ \A p \in Live.attached : p[2] \in page => p \in members
    OBVIOUS
  <1> HIDE DEF new, found, members
  <1>4. /\ new.sgs = out.sgs /\ new.rules = out.rules
        /\ new.attached = out.attached \cup members /\ new.nics = out.nics \cup found
    BY <1>2
  <1>5. Ports(new) = Ports(out) \cup page
    <2>1. \A i : i \in page => \E n \in Live.nics : n.port_id = i
      BY DEF Ports
    <2>2. \A i : i \in Ports(new) <=> \E n \in new.nics : n.port_id = i
      BY DEF Ports
    <2>3. \A i : i \in Ports(out) <=> \E n \in out.nics : n.port_id = i
      BY DEF Ports
    <2> QED
      BY <1>3, <1>4, <2>1, <2>2, <2>3
  <1>6. \A n \in out.nics : n.port_id \in Ports(out) /\ n.port_id \notin page
    BY DEF Ports
  <1>7. \A p \in out.attached : p[2] \notin page
    <2>1. \A p \in out.attached : \E n \in out.nics : n.port_id = p[2]
      BY <1>1 DEF WellFormed
    <2> QED
      BY <2>1, <1>6
  <1>8. WellFormed(new)
    <2>1. new \in Inventory
      BY <1>1, <1>2, <1>3, CloudParts DEF Inventory
    <2>2. \A x, y \in new.nics : x.port_id = y.port_id => x = y
      BY <1>1, <1>3, <1>4, <1>6 DEF WellFormed
    <2>3. \A p \in new.attached : \E n \in new.nics : n.port_id = p[2]
      BY <1>1, <1>3, <1>4 DEF WellFormed
    <2>4. \A n \in new.nics : n.ip \in n.ips \/ (n.ip = None /\ n.ips = {})
      BY <1>1, <1>3, <1>4 DEF WellFormed
    <2>5. /\ \A x, y \in new.sgs : x.id = y.id => x = y
          /\ \A x, y \in new.rules : x.id = y.id => x = y
          /\ \A r \in new.rules : \E sg \in new.sgs : sg.id = r.sg_id
          /\ \A r \in new.rules : r.id \notin RuleId => r.id[1] = r.sg_id
      BY <1>1, <1>4 DEF WellFormed
    <2> QED
      BY <2>1, <2>2, <2>3, <2>4, <2>5 DEF WellFormed
  <1>9. \A n \in new.nics : \E inv \in During :
           n \in inv.nics /\ GroupsOf(inv, n.port_id) = GroupsOf(new, n.port_id)
    <2> TAKE n \in new.nics
    <2> DEFINE On(s) == {x \in s : x[2] = n.port_id}
    <2>0. \A inv : GroupsOf(inv, n.port_id) = {p[1] : p \in On(inv.attached)}
      BY DEF GroupsOf
    <2>1. CASE n \in out.nics
      <3>1. PICK inv \in During :
               n \in inv.nics /\ GroupsOf(inv, n.port_id) = GroupsOf(out, n.port_id)
        BY <1>1, <2>1 DEF OfItsTime
      <3>2. On(new.attached) = On(out.attached)
        BY <1>3, <1>4, <1>6, <2>1
      <3> QED
        BY <2>0, <3>1, <3>2
    <2>2. CASE n \in found
      <3>1. On(new.attached) = On(Live.attached)
        BY <1>3, <1>4, <1>7, <2>2
      <3>2. GroupsOf(new, n.port_id) = GroupsOf(Live, n.port_id)
        BY <2>0, <3>1
      <3> QED
        BY <1>1, <1>3, <2>2, <3>2
    <2> QED
      BY <1>4, <2>1, <2>2
  <1> QED
    BY <1>4, <1>5, <1>8, <1>9 DEF new

\* The steps of a listing leave the cloud alone.
LEMMA Listing ==
    ASSUME GatewayInv, UNCHANGED <<history, call, began, made, late, calls, changes>>
    PROVE  /\ HistoryOK' /\ Ever' = Ever /\ During' = During /\ Live \in During
           /\ Ids(Live) \subseteq SgId /\ Ids(Live) \in SUBSET Listed
           /\ Ports(Live) \subseteq PortId /\ Ports(Live) \in SUBSET Listed
           /\ StayingIds' = StayingIds /\ StayingIds \subseteq Ids(Live)
           /\ StayingPorts' = StayingPorts /\ StayingPorts \subseteq Ports(Live)
           /\ request'.m # "create_security_group" => MadeOK'
           /\ \A inv : Ids(inv)' = Ids(inv) /\ Ports(inv)' = Ports(inv)
           /\ \A m : UpTo(m)' = UpTo(m)
  <1>1. HistoryOK /\ HoldsOK /\ MadeOK
    BY DEF GatewayInv
  <1>2. HistoryOK' /\ Ever' = Ever /\ During' = During /\ Live \in During
    BY <1>1, LiveIs DEF HistoryOK, Ever, During
  <1>3. /\ Ids(Live) \subseteq SgId /\ Ids(Live) \in SUBSET Listed
        /\ Ports(Live) \subseteq PortId /\ Ports(Live) \in SUBSET Listed
    BY <1>1, LiveParts DEF Listed, Ports
  <1>4. /\ StayingIds' = StayingIds /\ StayingIds \subseteq Ids(Live)
        /\ StayingPorts' = StayingPorts /\ StayingPorts \subseteq Ports(Live)
    BY <1>2 DEF StayingIds, StayingPorts, Ids, Ports
  <1>5. request'.m # "create_security_group" => MadeOK'
    <2>1. Cardinality(made) \in Nat /\ late \in Nat
      BY <1>1, FS_CardinalityType DEF HoldsOK
    <2> QED
      BY <1>1, <2>1 DEF MadeOK
  <1>6. \A inv : Ids(inv)' = Ids(inv) /\ Ports(inv)' = Ports(inv)
    BY DEF Ids, Ports
  <1>7. \A m : UpTo(m)' = UpTo(m)
    BY DEF UpTo
  <1> QED
    BY <1>2, <1>3, <1>4, <1>5, <1>6, <1>7

LEMMA NamesPageStep ==
    ASSUME GatewayInv, NamesPage
    PROVE  GatewayInv'
  <1> DEFINE page == Page(Ids(Live), request.arg)
             n == call.rule.remote
  <1>1. /\ request.m = "list_security_groups" /\ status = "none"
        /\ call.op = "create_rule" /\ n \in Name /\ call \in Calls
        /\ UNCHANGED <<history, call, out, began, made, late, calls, changes>>
        /\ cached' = CacheWith(page) /\ HoldsOK
    BY DEF GatewayInv, NamesPage, Fits, FitsListing, NoRequest
  <1>2. /\ HistoryOK' /\ Ever' = Ever /\ During' = During /\ Live \in During
        /\ Ids(Live) \subseteq SgId /\ Ids(Live) \in SUBSET Listed
        /\ request'.m # "create_security_group" => MadeOK'
    BY <1>1, Listing
  <1>3. Full(page) => LastOf(page) \in SgId
    BY <1>2, PageIs
  <1>4. /\ cached' \in [Name -> SgId \cup {None}]
        /\ \A x \in Name : cached'[x] # None => Named(x, cached'[x])
    BY <1>1, CacheWithTrue
  <1>5. \/ /\ request' = [m |-> "list_security_groups", arg |-> LastOf(page)]
           /\ Full(page) /\ tries' = MaxTries /\ status' = status
        \/ /\ request' = NoRequest /\ tries' = MaxTries /\ status' = "failed"
        \/ /\ request' = [m |-> "neutron_create_security_group_rule", arg |-> cached'[n]]
           /\ cached'[n] # None /\ tries' = MaxTries /\ status' = status
    BY <1>1 DEF NamesPage, Return, Continue, Ask
  <1> HIDE DEF page, n
  <1>6. /\ tries' \in 1..MaxTries /\ request' \in Request
        /\ request'.m \in {"none", "list_security_groups", "neutron_create_security_group_rule"}
        /\ status' \in {"none", "failed"}
    BY <1>1, <1>3, <1>4, <1>5, GatewayAssumption DEF NoRequest, Request, Listings, Changing
  <1>7. HoldsOK'
    BY <1>1, <1>4, <1>6 DEF HoldsOK
  <1>8. MadeOK'
    BY <1>2, <1>6
  <1>9. CacheTrue'
    BY <1>2, <1>4 DEF CacheTrue, Named
  <1>10. ReadOK'
    BY <1>1, <1>2, <1>6, ReadStays DEF Ok
  <1>11. Fits'
    <2>1. FitsListing' /\ FitsGroup' /\ FitsPort'
      BY <1>1, <1>6 DEF FitsListing, FitsGroup, FitsPort, n
    <2>2. FitsRule'
      <3>1. (request.m = "neutron_create_security_group_rule")' =>
               /\ request'.arg = cached'[n] /\ cached'[n] \in SgId /\ Named(n, cached'[n])
        BY <1>1, <1>4, <1>5 DEF NoRequest
      <3> QED
        BY <1>1, <1>2, <1>6, <3>1 DEF FitsRule, Named, n
    <2> QED
      BY <1>1, <1>5, <1>6, <2>1, <2>2 DEF Fits, NoRequest
  <1>12. OkMeansDone'
    BY <1>6 DEF OkMeansDone
  <1> QED
    BY <1>2, <1>7, <1>8, <1>9, <1>10, <1>11, <1>12 DEF GatewayInv

LEMMA GroupsPageStep ==
    ASSUME GatewayInv, GroupsPage
    PROVE  GatewayInv'
  <1> DEFINE page == Page(Ids(Live), request.arg)
  <1>1. /\ request.m = "neutron_list_security_groups" /\ status = "none"
        /\ call.op = "inventory" /\ call \in Calls
        /\ UNCHANGED <<history, call, began, made, late, calls, changes>>
        /\ out' = ReadGroups(page) /\ cached' = CacheWith(page) /\ HoldsOK
        /\ request.arg \in Listed \cup {None}
        /\ out.nics = {} /\ Ids(out) \subseteq UpTo(request.arg)
        /\ StayingIds \cap UpTo(request.arg) \subseteq Ids(out)
        /\ ReadOK
    BY DEF GatewayInv, GroupsPage, Fits, FitsListing, NoRequest, ReadOK, Whole, Listed
  <1>2. /\ HistoryOK' /\ Ever' = Ever /\ During' = During /\ Live \in During
        /\ Ids(Live) \subseteq SgId /\ Ids(Live) \in SUBSET Listed
        /\ StayingIds' = StayingIds /\ StayingIds \subseteq Ids(Live)
        /\ request'.m # "create_security_group" => MadeOK'
        /\ \A inv : Ids(inv)' = Ids(inv) /\ Ports(inv)' = Ports(inv)
        /\ \A m : UpTo(m)' = UpTo(m)
    BY <1>1, Listing
  <1>3. /\ page \subseteq Ids(Live) /\ page \cap UpTo(request.arg) = {}
        /\ Full(page) =>
             /\ LastOf(page) \in page /\ page \subseteq UpTo(LastOf(page))
             /\ UpTo(request.arg) \subseteq UpTo(LastOf(page))
             /\ Ids(Live) \cap UpTo(LastOf(page)) \subseteq page \cup UpTo(request.arg)
        /\ ~Full(page) => Ids(Live) \subseteq page \cup UpTo(request.arg)
    BY <1>1, <1>2, Passed
  <1>4. /\ cached' \in [Name -> SgId \cup {None}]
        /\ \A x \in Name : cached'[x] # None => Named(x, cached'[x])
    BY <1>1, CacheWithTrue
  <1>5. \/ /\ request' = [m |-> "neutron_list_security_groups", arg |-> LastOf(page)]
           /\ Full(page) /\ tries' = MaxTries /\ status' = status
        \/ /\ request' = [m |-> "list_ports", arg |-> None]
           /\ ~Full(page) /\ tries' = MaxTries /\ status' = status
    BY <1>1 DEF GroupsPage, Continue, Ask
  <1>6. page \in SUBSET Ids(Live) /\ page \cap Ids(out) = {}
    BY <1>1, <1>3
  <1>7. /\ WellFormed(out') /\ Ids(out') = Ids(out) \cup page /\ out'.nics = {}
        /\ \A sg \in out'.sgs : \E inv \in During :
              sg \in inv.sgs /\ RulesIn(inv, sg.id) = RulesIn(out', sg.id)
    BY <1>1, <1>6, GroupsRead
  <1> HIDE DEF page
  <1>8. /\ tries' \in 1..MaxTries /\ request' \in Request
        /\ request'.m \in {"neutron_list_security_groups", "list_ports"}
        /\ status' = "none"
    BY <1>1, <1>2, <1>3, <1>5, GatewayAssumption DEF Request, Listings
  <1>9. HoldsOK'
    BY <1>1, <1>4, <1>8 DEF HoldsOK
  <1>10. MadeOK'
    BY <1>2, <1>8
  <1>11. CacheTrue'
    BY <1>2, <1>4 DEF CacheTrue, Named
  <1>12. Fits'
    <2>1. FitsListing'
      BY <1>1, <1>2, <1>3, <1>5 DEF FitsListing
    <2>2. FitsGroup' /\ FitsRule' /\ FitsPort'
      BY <1>8 DEF FitsGroup, FitsRule, FitsPort
    <2> QED
      BY <1>1, <1>8, <2>1, <2>2 DEF Fits
  <1>13. OfItsTime'
    BY <1>2, <1>7 DEF OfItsTime, RulesIn
  <1>14. Whole'
    <2>1. /\ Ids(out)' = Ids(out) \cup page /\ Ports(out)' = {} /\ ~Ok("inventory")'
      BY <1>7, <1>8 DEF Ids, Ports, Ok
    <2>2. CASE /\ request' = [m |-> "neutron_list_security_groups", arg |-> LastOf(page)]
               /\ Full(page)
      <3>1. Ids(out)' \subseteq UpTo(LastOf(page))
        BY <1>1, <1>3, <2>1, <2>2
      <3>2. StayingIds \cap UpTo(LastOf(page)) \subseteq Ids(out)'
        BY <1>1, <1>2, <1>3, <2>1, <2>2
      <3>3. UpTo(request.arg)' = UpTo(LastOf(page))
        BY <2>2 DEF UpTo
      <3> QED
        BY <1>2, <1>7, <2>1, <2>2, <3>1, <3>2, <3>3 DEF Whole
    <2>3. CASE request' = [m |-> "list_ports", arg |-> None] /\ ~Full(page)
      <3>1. StayingIds \subseteq Ids(out)'
        BY <1>1, <1>2, <1>3, <2>1, <2>3
      <3>2. UpTo(request.arg)' = {}
        BY <2>3 DEF UpTo
      <3> QED
        BY <1>2, <2>1, <2>3, <3>1, <3>2 DEF Whole
    <2> QED
      BY <1>5, <2>2, <2>3
  <1>15. OkMeansDone'
    BY <1>8 DEF OkMeansDone
  <1> QED
    BY <1>2, <1>7, <1>9, <1>10, <1>11, <1>12, <1>13, <1>14, <1>15 DEF GatewayInv, ReadOK

LEMMA PortsPageStep ==
    ASSUME GatewayInv, PortsPage
    PROVE  GatewayInv'
  <1> DEFINE page == Page(Ports(Live), request.arg)
  <1>1. /\ request.m = "list_ports" /\ status = "none"
        /\ call.op = "inventory" /\ call \in Calls
        /\ UNCHANGED <<history, cached, call, began, made, late, calls, changes>>
        /\ out' = ReadPorts(page) /\ HoldsOK
        /\ request.arg \in Listed \cup {None}
        /\ StayingIds \subseteq Ids(out)
        /\ Ports(out) \subseteq UpTo(request.arg)
        /\ StayingPorts \cap UpTo(request.arg) \subseteq Ports(out)
        /\ ReadOK
    BY DEF GatewayInv, PortsPage, Fits, FitsListing, NoRequest, ReadOK, Whole, Listed, Ports
  <1>2. /\ HistoryOK' /\ Ever' = Ever /\ During' = During /\ Live \in During
        /\ Ports(Live) \subseteq PortId /\ Ports(Live) \in SUBSET Listed
        /\ StayingIds' = StayingIds
        /\ StayingPorts' = StayingPorts /\ StayingPorts \subseteq Ports(Live)
        /\ request'.m # "create_security_group" => MadeOK'
        /\ \A m : UpTo(m)' = UpTo(m)
    BY <1>1, Listing
  <1>3. /\ page \subseteq Ports(Live) /\ page \cap UpTo(request.arg) = {}
        /\ Full(page) =>
             /\ LastOf(page) \in page /\ page \subseteq UpTo(LastOf(page))
             /\ UpTo(request.arg) \subseteq UpTo(LastOf(page))
             /\ Ports(Live) \cap UpTo(LastOf(page)) \subseteq page \cup UpTo(request.arg)
        /\ ~Full(page) => Ports(Live) \subseteq page \cup UpTo(request.arg)
    BY <1>1, <1>2, Passed
  <1>4. \/ /\ request' = [m |-> "list_ports", arg |-> LastOf(page)]
           /\ Full(page) /\ tries' = MaxTries /\ status' = status
        \/ /\ request' = NoRequest
           /\ ~Full(page) /\ tries' = MaxTries /\ status' = "ok"
    BY <1>1 DEF PortsPage, Continue, Return, Ask, Ports
  <1>5. page \in SUBSET Ports(Live) /\ page \cap Ports(out) = {}
    BY <1>1, <1>3
  <1>6. /\ WellFormed(out') /\ Ports(out') = Ports(out) \cup page
        /\ out'.sgs = out.sgs /\ out'.rules = out.rules
        /\ \A n \in out'.nics : \E inv \in During :
              n \in inv.nics /\ GroupsOf(inv, n.port_id) = GroupsOf(out', n.port_id)
    BY <1>1, <1>5, PortsRead
  <1> HIDE DEF page
  <1>7. /\ tries' \in 1..MaxTries /\ request' \in Request
        /\ request'.m \in {"none", "list_ports"}
        /\ status' \in {"none", "ok"} /\ (status' = "ok" => request' = NoRequest)
        /\ (request'.m = "none" => request' = NoRequest)
    BY <1>1, <1>2, <1>3, <1>4, GatewayAssumption DEF Request, Listings, NoRequest
  <1>8. HoldsOK'
    BY <1>1, <1>7 DEF HoldsOK
  <1>9. MadeOK'
    BY <1>2, <1>7
  <1>10. CacheTrue'
    BY <1>1, <1>2, CacheStays
  <1>11. Fits'
    <2>1. FitsListing'
      BY <1>1, <1>2, <1>3, <1>4 DEF FitsListing, NoRequest
    <2>2. FitsGroup' /\ FitsRule' /\ FitsPort'
      BY <1>7 DEF FitsGroup, FitsRule, FitsPort
    <2> QED
      BY <1>1, <1>7, <2>1, <2>2 DEF Fits, NoRequest
  <1>12. OfItsTime'
    <2>1. \A sg \in out'.sgs : \E inv \in During :
             sg \in inv.sgs /\ RulesIn(inv, sg.id) = RulesIn(out', sg.id)
      BY <1>1, <1>6 DEF ReadOK, OfItsTime, RulesIn
    <2> QED
      BY <1>2, <1>6, <2>1 DEF OfItsTime, RulesIn, GroupsOf
  <1>13. Whole'
    <2>1. /\ Ids(out)' = Ids(out) /\ Ports(out)' = Ports(out) \cup page
      BY <1>6 DEF Ids, Ports
    <2>2. CASE /\ request' = [m |-> "list_ports", arg |-> LastOf(page)]
               /\ Full(page) /\ status' = status
      <3>1. Ports(out)' \subseteq UpTo(LastOf(page))
        BY <1>1, <1>3, <2>1, <2>2
      <3>2. StayingPorts \cap UpTo(LastOf(page)) \subseteq Ports(out)'
        BY <1>1, <1>2, <1>3, <2>1, <2>2
      <3>3. UpTo(request.arg)' = UpTo(LastOf(page)) /\ ~Ok("inventory")'
        BY <1>1, <2>2 DEF UpTo, Ok
      <3> QED
        BY <1>1, <1>2, <2>1, <2>2, <3>1, <3>2, <3>3 DEF Whole
    <2>3. CASE request' = NoRequest /\ ~Full(page)
      <3>1. StayingPorts \subseteq Ports(out)'
        BY <1>1, <1>2, <1>3, <2>1, <2>3
      <3> QED
        BY <1>1, <1>2, <2>1, <2>3, <3>1 DEF Whole, NoRequest
    <2> QED
      BY <1>4, <2>2, <2>3
  <1>14. OkMeansDone'
    <2>1. PICK inv \in During : inv = Live
      BY <1>2
    <2>2. Reached(inv)'
      BY <1>1 DEF Reached
    <2> QED
      BY <1>2, <2>2 DEF OkMeansDone
  <1> QED
    BY <1>2, <1>6, <1>8, <1>9, <1>10, <1>11, <1>12, <1>13, <1>14 DEF GatewayInv, ReadOK

\* No step breaks the invariant: one case per action.
LEMMA GatewayStep == GatewayInv /\ [Next]_vars => GatewayInv'
  <1> SUFFICES ASSUME GatewayInv, [Next]_vars PROVE GatewayInv'
    OBVIOUS
  <1>1. ASSUME NEW c \in Calls, Begin(c) PROVE GatewayInv'
    BY <1>1, BeginStep
  <1>2. CASE GroupsPage
    BY <1>2, GroupsPageStep
  <1>3. CASE PortsPage
    BY <1>3, PortsPageStep
  <1>4. CASE NamesPage
    BY <1>4, NamesPageStep
  <1>5. CASE PortGot
    BY <1>5, PortGotStep
  <1>6. CASE GroupMade
    BY <1>6, GroupMadeStep
  <1>7. CASE Answered
    BY <1>7, AnsweredStep
  <1>8. CASE Throttled \/ ThrottledLate \/ Refused \/ AnswerLost
    BY <1>8, UnansweredStep
  <1>9. CASE OthersChange
    BY <1>9, OthersStep
  <1>10. CASE Finished \/ UNCHANGED vars
    BY <1>10, StillStep DEF Finished
  <1> QED
    BY <1>1, <1>2, <1>3, <1>4, <1>5, <1>6, <1>7, <1>8, <1>9, <1>10 DEF Next, Step

\* The gateway, its cache and its readings are as the invariant says after
\* any calls, throttles, errors and changes by others.
THEOREM GatewayInvariant == Spec => []GatewayInv
  BY GatewayInit, GatewayStep, PTL DEF Spec

(***************************************************************************)
(* What follows from it.                                                   *)
(***************************************************************************)
\* The variables keep their types: the history holds well-formed clouds, a
\* cached name or a marker is one id, an argument one the SDK request takes.
THEOREM TypeCorrect == Spec => []TypeOK
  <1>1. GatewayInv => TypeOK
    <2> SUFFICES ASSUME GatewayInv PROVE TypeOK
      OBVIOUS
    <2>1. HistoryOK /\ HoldsOK /\ WellFormed(out)
      BY DEF GatewayInv, ReadOK
    <2>2. \A i \in DOMAIN history : history[i] \in Ever
      BY DEF Ever
    <2>3. \A i \in DOMAIN history : WellFormed(history[i])
      BY <2>1, <2>2 DEF HistoryOK
    <2> QED
      BY <2>1, <2>3 DEF HistoryOK, HoldsOK, TypeOK, WellFormed
  <1> QED
    BY GatewayInvariant, <1>1, PTL

\* However the cloud changes between the pages of a reading (inventory),
\* what plan, drift and import are given is well formed: no id twice, every
\* rule under a group and every membership under a port that was read.
THEOREM ReadingsAreWellFormed == Spec => []ReadingWellFormed
  <1>1. GatewayInv => ReadingWellFormed
    BY DEF GatewayInv, ReadOK, ReadingWellFormed
  <1> QED
    BY GatewayInvariant, <1>1, PTL

\* Each group is read with the rules, each port with the groups it had
\* together at a moment of the reading, and no page boundary hides what was
\* there throughout (list_security_groups, list_ports: limit and marker).
THEOREM ReadingsAreOfTheirTime == Spec => []ReadingIsOfItsTime
  <1>1. GatewayInv => ReadingIsOfItsTime
    <2> SUFFICES ASSUME GatewayInv, Ok("inventory") PROVE ReadingIsOfItsTime
      BY DEF ReadingIsOfItsTime
    <2>1. OfItsTime /\ StayingIds \subseteq Ids(out) /\ StayingPorts \subseteq Ports(out)
      BY DEF GatewayInv, ReadOK, Whole
    <2>2. \A inv, p : HasPort(inv, p) <=> p \in Ports(inv)
      BY DEF HasPort, Ports
    <2>3. \A p \in PortId : (\A inv \in During : HasPort(inv, p)) => HasPort(out, p)
      BY <2>1, <2>2 DEF StayingPorts
    <2>4. \A id \in SgId : (\A inv \in During : id \in Ids(inv)) => id \in Ids(out)
      BY <2>1 DEF StayingIds
    <2> QED
      BY <2>1, <2>3, <2>4 DEF ReadingIsOfItsTime, OfItsTime
  <1> QED
    BY GatewayInvariant, <1>1, PTL

\* A call that returns has done its work at some moment since it began,
\* though earlier tries of it may have taken effect behind an APIGW error
\* (_run), and though others changed the cloud between its requests.
THEOREM OkIsDone == Spec => []OkMeansDone
  <1>1. GatewayInv => OkMeansDone
    BY DEF GatewayInv
  <1> QED
    BY GatewayInvariant, <1>1, PTL

\* The retries of _run make no second group, but for requests that an APIGW
\* error answered although they were carried out.
THEOREM RetriesMakeNoTwin == Spec => []GroupsMadeByRetries
  <1>1. GatewayInv => GroupsMadeByRetries
    <2> SUFFICES ASSUME GatewayInv PROVE GroupsMadeByRetries
      OBVIOUS
    <2>1. MadeOK /\ Cardinality(made) \in Nat /\ late \in Nat
      BY FS_CardinalityType DEF GatewayInv, HoldsOK
    <2> QED
      BY <2>1 DEF MadeOK, GroupsMadeByRetries
  <1> QED
    BY GatewayInvariant, <1>1, PTL

\* attach_nic and detach_nic, which read a port's groups and write the whole
\* list back, change the membership asked for; any other only to what it was
\* at a moment since the call began.
THEOREM OthersMembershipsAreKept == Spec => OthersMembershipsKept
  <1> DEFINE Kept ==
        \A id \in SgId, p \in PortId :
          (<<id, p>> \in Live.attached) # (<<id, p>> \in Live'.attached) =>
              /\ call.op \in {"attach_nic", "detach_nic"} /\ p = call.port_id
              /\ \/ id = call.sg_id
                 \/ \E x, y \in During : <<id, p>> \in x.attached /\ <<id, p>> \notin y.attached
  <1>1. ASSUME GatewayInv, Step PROVE Kept
    <2>1. HistoryOK
      BY <1>1 DEF GatewayInv
    <2>2. CASE UNCHANGED history
      <3>1. Live' = Live
        BY <2>2 DEF Live
      <3> QED
        BY <3>1
    <2>3. CASE Effect /\ began' = began
      <3>1. CASE PutPort
        <4>1. PICK inv :
              /\ Becomes(inv) /\ Follows(inv)
              /\ \A id, p : <<id, p>> \in inv.attached <=>
                    IF p = call.port_id THEN id \in request.arg ELSE <<id, p>> \in Live.attached
          BY <1>1, <3>1, Puts
        <4>2. Live' = inv /\ Live \in During
          BY <2>1, <2>3, <4>1, GoesOn, LiveIs
        <4>3. PICK x \in During : request.arg = NewGroups(GroupsOf(x, call.port_id))
          BY <1>1, <3>1 DEF GatewayInv, Fits, FitsPort, PutPort
        <4>4. call.op \in {"attach_nic", "detach_nic"}
          BY <1>1, <3>1 DEF GatewayInv, Fits, FitsPort, PutPort
        <4>5. x \in Inventory
          BY <2>1, LiveIs DEF HistoryOK, WellFormed
        <4>6. \A id : id \in GroupsOf(x, call.port_id) <=> <<id, call.port_id>> \in x.attached
          BY <4>5, GroupsOfIs
        <4>7. \A id : id # call.sg_id => (id \in request.arg <=> <<id, call.port_id>> \in x.attached)
          BY <4>3, <4>6 DEF NewGroups
        <4> QED
          BY <4>1, <4>2, <4>4, <4>7
      <3>2. CASE ~PutPort
        <4>1. \E inv : Becomes(inv) /\ Follows(inv) /\ inv.attached = Live.attached
          BY <1>1, <2>3, <3>2, Creates, Describes, Removes, Posts, Withdraws DEF Effect
        <4>2. Live'.attached = Live.attached
          BY <2>1, <2>3, <4>1, GoesOn
        <4> QED
          BY <4>2
      <3> QED
        BY <3>1, <3>2
    <2> QED
      BY <1>1, <2>2, <2>3 DEF Step, GroupsPage, PortsPage, NamesPage, PortGot, GroupMade,
             Answered, Throttled, ThrottledLate, Refused, AnswerLost, Effect
  <1>2. GatewayInv /\ [Next]_vars => [Step => Kept]_vars
    BY <1>1
  <1>3. Spec => [][Step => Kept]_vars
    BY GatewayInvariant, <1>2, PTL DEF Spec
  <1> QED
    BY <1>3 DEF OthersMembershipsKept
=============================================================================
