----------------------------- MODULE PortsProofs -----------------------------
(***************************************************************************)
(* parse_ports gives the longest runs of the ports it was given: the loop  *)
(* of _merge loses and gains none, and a list with a gap between any two   *)
(* ranges is the one list of its ports.                                    *)
(***************************************************************************)
EXTENDS Ports, FiniteSetTheorems, TLAPS

LEMMA Bounds == MaxPort \in Nat \ {0} /\ MaxEntries \in Nat \ {0}
BY PortsAssumption

LEMMA RangeFacts ==
    ASSUME NEW r \in PortRange
    PROVE  /\ r = <<r[1], r[2]>>
           /\ r[1] \in Nat /\ r[2] \in Nat
           /\ 1 <= r[1] /\ r[1] <= r[2] /\ r[2] <= MaxPort
BY Bounds DEF PortRange

(***************************************************************************)
(* Type correctness.                                                       *)
(***************************************************************************)
LEMMA LastType ==
    ASSUME merged \in Seq(PortRange), merged # <<>>
    PROVE  Len(merged) \in DOMAIN merged /\ Last \in PortRange
BY DEF Last

LEMMA JoinedType ==
    ASSUME merged \in Seq(PortRange), merged # <<>>, NEW r \in PortRange, r[1] >= Last[1]
    PROVE  Joined(r) \in PortRange
<1>1. Last \in PortRange
  BY LastType
<1>2. /\ Last[1] \in 1..MaxPort /\ Last[2] \in 1..MaxPort /\ Last[1] <= Last[2]
      /\ r[1] \in 1..MaxPort /\ r[2] \in 1..MaxPort /\ r[1] <= r[2]
  BY <1>1, RangeFacts, Bounds
<1> QED
  BY <1>2 DEF Joined, PortRange

LEMMA EntriesType == ASSUME merged \in Seq(PortRange) PROVE Entries \subseteq Entry
BY DEF Entries, Entry

LEMMA ToWireType ==
    ASSUME NEW p \in Protocols, NEW e \in Entry
    PROVE  ToWire(p, e) \in WireRule
<1>1. (IF p = "all" THEN "" ELSE p) \in WireProtocol
  BY PortsAssumption DEF Protocols
<1>2. e # NoPorts => e[1] \in Int /\ e[2] \in Int
  BY RangeFacts DEF Entry
<1> QED
  BY <1>1, <1>2 DEF ToWire, WireRule

LEMMA InitType == Init => TypeOK
<1> SUFFICES ASSUME Init PROVE TypeOK
  OBVIOUS
<1>1. value \in {NoPorts, NotPorts} \/ value \subseteq Int \X Int
  BY PortsAssumption DEF Init
<1>2. rest \subseteq PortRange
  BY DEF Init, ValidEntry
<1>3. merged \in Seq(PortRange)
  BY DEF Init
<1> QED
  BY <1>1, <1>2, <1>3 DEF Init, TypeOK

(***************************************************************************)
(* The loop.  The ranges still to come start at or after the last one      *)
(* merged; that is why a range either joins it or leaves a gap behind it.  *)
(***************************************************************************)
\* What a merge in hand has of `value`, and its order.
LoopInv ==
    outcome = "merging" =>
        /\ value \notin {NoPorts, NotPorts, {}} /\ protocol \notin Portless
        /\ MergeKeepsUnion

LEMMA SeqPoint ==
    ASSUME NEW S, NEW s \in Seq(S), s # <<>>, NEW v \in S, NEW t, t = [s EXCEPT ![Len(s)] = v]
    PROVE  /\ t \in Seq(S) /\ Len(t) = Len(s) /\ t[Len(s)] = v
           /\ Len(s) \in 1..Len(s)
           /\ \A i \in 1..Len(s) : i # Len(s) => t[i] = s[i]
OBVIOUS

LEMMA SeqAppend ==
    ASSUME NEW S, NEW s \in Seq(S), NEW v \in S, NEW t, t = Append(s, v)
    PROVE  /\ t \in Seq(S) /\ Len(t) = Len(s) + 1 /\ t[Len(s) + 1] = v
           /\ \A i \in 1..Len(s) : t[i] = s[i]
OBVIOUS

LEMMA CoveredAdd ==
    ASSUME NEW S, NEW r
    PROVE  Covered(S \cup {r}) = Covered(S) \cup (r[1]..r[2])
BY DEF Covered

LEMMA CoveredTake ==
    ASSUME NEW S, NEW r \in S
    PROVE  Covered(S) = Covered(S \ {r}) \cup (r[1]..r[2])
<1>1. S = (S \ {r}) \cup {r}
  OBVIOUS
<1> QED
  BY <1>1, CoveredAdd

\* The ports of a list of ranges.
PortsIn(s) == Covered({s[i] : i \in DOMAIN s})

LEMMA InPorts ==
    ASSUME NEW s, NEW p
    PROVE  p \in PortsIn(s) <=> \E i \in DOMAIN s : p \in s[i][1]..s[i][2]
BY DEF PortsIn, Covered

\* Sorted, with a port missing between any two.
Gapped(s) == \A i, j \in DOMAIN s : i < j => s[i][2] + 1 < s[j][1]

LEMMA AppendKeeps ==
    ASSUME NEW s \in Seq(PortRange), NEW r \in PortRange, Gapped(s),
           s # <<>> => s[Len(s)][2] + 1 < r[1]
    PROVE  /\ PortsIn(Append(s, r)) = PortsIn(s) \cup (r[1]..r[2])
           /\ Gapped(Append(s, r))
<1> DEFINE t == Append(s, r)
<1>1. /\ t \in Seq(PortRange) /\ Len(t) = Len(s) + 1 /\ t[Len(s) + 1] = r
      /\ \A i \in 1..Len(s) : t[i] = s[i]
  BY SeqAppend
<1>2. DOMAIN s = 1..Len(s) /\ DOMAIN t = 1..(Len(s) + 1) /\ Len(s) \in Nat
  BY <1>1
<1> HIDE DEF t
<1>3. ASSUME NEW p PROVE p \in PortsIn(t) <=> p \in PortsIn(s) \/ p \in r[1]..r[2]
  <2>1. DOMAIN t = DOMAIN s \cup {Len(s) + 1}
    BY <1>2
  <2> QED
    BY <1>1, <1>2, <2>1, InPorts
<1>4. ASSUME NEW i \in DOMAIN t, NEW j \in DOMAIN t, i < j PROVE t[i][2] + 1 < t[j][1]
  <2>1. i \in DOMAIN s
    BY <1>2, <1>4
  <2>2. CASE j \in DOMAIN s
    BY <1>1, <1>2, <1>4, <2>1, <2>2 DEF Gapped
  <2>3. CASE j = Len(s) + 1
    <3>1. s # <<>> /\ Len(s) \in DOMAIN s
      BY <1>2, <2>1
    <3>2. s[i] \in PortRange /\ s[Len(s)] \in PortRange
      BY <2>1, <3>1
    <3>3. i = Len(s) \/ s[i][2] + 1 < s[Len(s)][1]
      BY <1>2, <2>1, <3>1 DEF Gapped
    <3>4. /\ s[i][2] \in Nat /\ s[Len(s)][1] \in Nat /\ s[Len(s)][2] \in Nat /\ r[1] \in Nat
          /\ s[Len(s)][1] <= s[Len(s)][2]
      BY <3>2, RangeFacts
    <3>5. s[i][2] + 1 < r[1]
      BY <3>1, <3>3, <3>4
    <3> QED
      BY <1>1, <1>2, <2>1, <2>3, <3>5
  <2> QED
    BY <1>2, <2>2, <2>3
<1> QED
  BY <1>3, <1>4 DEF Gapped, t

LEMMA JoinKeeps ==
    ASSUME NEW s \in Seq(PortRange), s # <<>>, NEW r \in PortRange, Gapped(s),
           NEW v \in PortRange, v[1] = s[Len(s)][1],
           v[2] = IF r[2] > s[Len(s)][2] THEN r[2] ELSE s[Len(s)][2],
           s[Len(s)][1] <= r[1], r[1] <= s[Len(s)][2] + 1
    PROVE  /\ PortsIn([s EXCEPT ![Len(s)] = v]) = PortsIn(s) \cup (r[1]..r[2])
           /\ Gapped([s EXCEPT ![Len(s)] = v])
<1> DEFINE last == s[Len(s)]
           t == [s EXCEPT ![Len(s)] = v]
<1>0. /\ v[1] = last[1] /\ v[2] = IF r[2] > last[2] THEN r[2] ELSE last[2]
      /\ last[1] <= r[1] /\ r[1] <= last[2] + 1
  OBVIOUS
<1>1. /\ t \in Seq(PortRange) /\ Len(t) = Len(s) /\ t[Len(s)] = v
      /\ Len(s) \in 1..Len(s)
      /\ \A i \in 1..Len(s) : i # Len(s) => t[i] = s[i]
  BY SeqPoint
<1> HIDE DEF t
<1>2. DOMAIN s = 1..Len(s) /\ DOMAIN t = 1..Len(s) /\ Len(s) \in Nat
  <2>1. \A x \in Seq(PortRange) : DOMAIN x = 1..Len(x) /\ Len(x) \in Nat
    OBVIOUS
  <2> QED
    BY <1>1, <2>1
<1>3. last \in PortRange
  <2>1. \A x \in Seq(PortRange) : \A i \in 1..Len(x) : x[i] \in PortRange
    OBVIOUS
  <2> QED
    BY <1>1, <2>1
<1> HIDE DEF last
<1>4. /\ last[1] \in Nat /\ last[2] \in Nat /\ last[1] <= last[2]
      /\ r[1] \in Nat /\ r[2] \in Nat /\ r[1] <= r[2]
  BY <1>3, RangeFacts
<1>5. ASSUME NEW p PROVE p \in v[1]..v[2] <=> p \in last[1]..last[2] \/ p \in r[1]..r[2]
  <2>1. v[1] \in Nat /\ v[2] \in Nat
    BY <1>0, <1>4
  <2>2. CASE p \in Int
    BY <1>0, <1>4, <2>1, <2>2
  <2>3. CASE p \notin Int
    BY <2>3
  <2> QED
    BY <2>2, <2>3
<1>6. ASSUME NEW p PROVE p \in PortsIn(t) <=> p \in PortsIn(s) \/ p \in r[1]..r[2]
  <2>1. \A i \in DOMAIN s : i # Len(s) => t[i] = s[i]
    BY <1>1, <1>2
  <2>2. p \in PortsIn(t) <=> \/ \E i \in DOMAIN s : i # Len(s) /\ p \in s[i][1]..s[i][2]
                             \/ p \in v[1]..v[2]
    <3>1. p \in PortsIn(t) <=> \E i \in DOMAIN t : p \in t[i][1]..t[i][2]
      BY InPorts
    <3>2. DOMAIN t = DOMAIN s /\ Len(s) \in DOMAIN t /\ t[Len(s)] = v
      BY <1>1, <1>2
    <3> QED
      BY <2>1, <3>1, <3>2
  <2>3. p \in PortsIn(s) <=> \/ \E i \in DOMAIN s : i # Len(s) /\ p \in s[i][1]..s[i][2]
                             \/ p \in last[1]..last[2]
    BY <1>1, <1>2, InPorts DEF last
  <2> QED
    BY <1>5, <2>2, <2>3
<1>7. ASSUME NEW i \in DOMAIN t, NEW j \in DOMAIN t, i < j PROVE t[i][2] + 1 < t[j][1]
  <2>1. i # Len(s) /\ t[i] = s[i]
    <3>1. i \in 1..Len(s) /\ j \in 1..Len(s)
      BY <1>2
    <3>2. i # Len(s)
      BY <1>2, <1>7, <3>1
    <3> QED
      BY <1>1, <3>1, <3>2
  <2>2. s[i][2] + 1 < s[j][1]
    BY <1>2, <1>7 DEF Gapped
  <2>3. t[j][1] = s[j][1]
    BY <1>0, <1>1, <1>2 DEF last
  <2> QED
    BY <2>1, <2>2, <2>3
<1> QED
  BY <1>6, <1>7 DEF Gapped, t

LEMMA MergeStep ==
    ASSUME TypeOK, LoopInv, MergeNext
    PROVE  merged' \in Seq(PortRange) /\ rest' \subseteq PortRange /\ LoopInv'
<1>1. PICK r \in rest :
         /\ First(r) /\ rest' = rest \ {r}
         /\ merged' = IF Joins(r) THEN [merged EXCEPT ![Len(merged)] = Joined(r)]
                      ELSE Append(merged, r)
  BY DEF MergeNext
<1>2. /\ outcome = "merging" /\ outcome' = "merging"
      /\ value' = value /\ protocol' = protocol
  BY DEF MergeNext
<1>3. /\ rest \subseteq PortRange /\ merged \in Seq(PortRange)
      /\ r \in PortRange /\ rest' \subseteq PortRange
  BY <1>1 DEF TypeOK
<1>4. /\ value \notin {NoPorts, NotPorts, {}} /\ protocol \notin Portless
      /\ PortsIn(merged) \cup Covered(rest) = Covered(value)
      /\ Gapped(merged)
      /\ \A i \in DOMAIN merged, x \in rest : merged[i][1] <= x[1]
  BY <1>2 DEF LoopInv, MergeKeepsUnion, PortsIn, MergedRanges, Gapped
<1>5. \A x \in rest' : r[1] <= x[1]
  <2>1. \A x \in rest : r[1] \in Nat /\ x[1] \in Nat
    BY <1>3, RangeFacts
  <2> QED
    BY <1>1, <2>1 DEF First
<1>6. \A s \in Seq(PortRange) : DOMAIN s = 1..Len(s) /\ Len(s) \in Nat
  OBVIOUS
<1>7. /\ merged' \in Seq(PortRange)
      /\ PortsIn(merged') = PortsIn(merged) \cup (r[1]..r[2])
      /\ Gapped(merged')
      /\ \A i \in DOMAIN merged', x \in rest' : merged'[i][1] <= x[1]
  <2>1. CASE Joins(r)
    <3> DEFINE v == Joined(r)
               last == Last
    <3>1. merged # <<>> /\ r[1] <= last[2] + 1 /\ last = merged[Len(merged)]
      BY <2>1 DEF Joins, Last
    <3>2. Len(merged) \in DOMAIN merged /\ last \in PortRange
      BY <1>3, <3>1, LastType
    <3>3. last[1] <= r[1]
      BY <1>1, <1>4, <3>1, <3>2
    <3>4. v \in PortRange
      <4>1. last[1] \in Nat /\ r[1] \in Nat
        BY <1>3, <3>2, RangeFacts
      <4>2. r[1] >= Last[1]
        BY <3>3, <4>1
      <4> QED
        BY <1>3, <3>1, <4>2, JoinedType
    <3>5. v[1] = last[1] /\ v[2] = IF r[2] > last[2] THEN r[2] ELSE last[2]
      BY DEF Joined
    <3> HIDE DEF v, last
    <3>6. merged' = [merged EXCEPT ![Len(merged)] = v]
      BY <1>1, <2>1 DEF v
    <3>7. /\ merged' \in Seq(PortRange) /\ Len(merged') = Len(merged)
          /\ merged'[Len(merged)] = v
          /\ \A i \in 1..Len(merged) : i # Len(merged) => merged'[i] = merged[i]
      BY <1>3, <3>1, <3>4, <3>6, SeqPoint
    <3>8. PortsIn(merged') = PortsIn(merged) \cup (r[1]..r[2]) /\ Gapped(merged')
      <4>1. /\ v[1] = merged[Len(merged)][1]
            /\ v[2] = IF r[2] > merged[Len(merged)][2] THEN r[2] ELSE merged[Len(merged)][2]
            /\ merged[Len(merged)][1] <= r[1] /\ r[1] <= merged[Len(merged)][2] + 1
        BY <3>1, <3>3, <3>5
      <4>2. /\ PortsIn([merged EXCEPT ![Len(merged)] = v]) = PortsIn(merged) \cup (r[1]..r[2])
            /\ Gapped([merged EXCEPT ![Len(merged)] = v])
        BY <1>3, <1>4, <3>1, <3>4, <4>1, JoinKeeps
      <4> QED
        BY <3>6, <4>2
    <3>9. ASSUME NEW i \in DOMAIN merged', NEW x \in rest' PROVE merged'[i][1] <= x[1]
      <4>1. i \in 1..Len(merged) /\ i \in DOMAIN merged
        BY <1>3, <1>6, <3>7
      <4>2. merged'[i][1] = merged[i][1]
        BY <3>1, <3>5, <3>7, <4>1
      <4> QED
        BY <1>1, <1>4, <4>1, <4>2
    <3> QED
      BY <3>7, <3>8, <3>9
  <2>2. CASE ~Joins(r)
    <3>1. merged' = Append(merged, r)
      BY <1>1, <2>2
    <3>2. /\ merged' \in Seq(PortRange) /\ Len(merged') = Len(merged) + 1
          /\ merged'[Len(merged) + 1] = r
          /\ \A i \in 1..Len(merged) : merged'[i] = merged[i]
      BY <1>3, <3>1, SeqAppend
    <3>3. merged # <<>> => merged[Len(merged)][2] + 1 < r[1]
      <4>1. SUFFICES ASSUME merged # <<>> PROVE Last[2] + 1 < r[1]
        BY DEF Last
      <4>2. Last[2] \in Nat /\ r[1] \in Nat
        BY <1>3, <4>1, LastType, RangeFacts
      <4> QED
        BY <2>2, <4>1, <4>2 DEF Joins
    <3>4. PortsIn(merged') = PortsIn(merged) \cup (r[1]..r[2]) /\ Gapped(merged')
      BY <1>3, <1>4, <3>1, <3>3, AppendKeeps
    <3>5. ASSUME NEW i \in DOMAIN merged', NEW x \in rest' PROVE merged'[i][1] <= x[1]
      <4>1. i \in 1..(Len(merged) + 1) /\ Len(merged) \in Nat
        BY <1>3, <1>6, <3>2
      <4>2. CASE i \in DOMAIN merged
        BY <1>1, <1>3, <1>4, <1>6, <3>2, <4>2
      <4>3. CASE i = Len(merged) + 1
        BY <1>5, <3>2, <4>3
      <4> QED
        BY <1>3, <1>6, <4>1, <4>2, <4>3
    <3> QED
      BY <3>2, <3>4, <3>5
  <2> QED
    BY <2>1, <2>2
<1>8. PortsIn(merged') \cup Covered(rest') = Covered(value)
  <2>1. Covered(rest) = Covered(rest \ {r}) \cup (r[1]..r[2])
    BY CoveredTake
  <2> QED
    BY <1>1, <1>4, <1>7, <2>1
<1>9. MergeKeepsUnion'
  BY <1>2, <1>7, <1>8 DEF MergeKeepsUnion, PortsIn, MergedRanges, Gapped
<1> QED
  BY <1>2, <1>3, <1>4, <1>7, <1>9 DEF LoopInv

(***************************************************************************)
(* The whole of the state.  A settled list keeps what the loop gave it.    *)
(***************************************************************************)
SettledInv ==
    Merged =>
        /\ Gapped(merged) /\ PortsIn(merged) = Covered(value)
        /\ outcome = IF merged = <<FullRange>> THEN "all" ELSE IF OverCap THEN "error" ELSE "some"

PortsInv == TypeOK /\ LoopInv /\ SettledInv

LEMMA InitPorts == Init => PortsInv
<1> SUFFICES ASSUME Init PROVE PortsInv
  OBVIOUS
<1>1. TypeOK
  BY InitType
<1>2. LoopInv
  <2> SUFFICES ASSUME outcome = "merging"
               PROVE  /\ value \notin {NoPorts, NotPorts, {}} /\ protocol \notin Portless
                      /\ MergeKeepsUnion
    BY DEF LoopInv
  <2>1. /\ value \notin {NoPorts, NotPorts, {}} /\ protocol \notin Portless
        /\ merged = <<>> /\ rest = value
    BY DEF Init
  <2>2. DOMAIN merged = {} /\ MergedRanges = {} /\ Covered({}) = {}
    BY <2>1 DEF MergedRanges, Covered
  <2> QED
    BY <2>1, <2>2 DEF MergeKeepsUnion
<1>3. SettledInv
  BY DEF SettledInv, Merged, Init, ValidEntry
<1> QED
  BY <1>1, <1>2, <1>3 DEF PortsInv

LEMMA PortsStep == PortsInv /\ [Next]_vars => PortsInv'
<1> SUFFICES ASSUME PortsInv, [Next]_vars PROVE PortsInv'
  OBVIOUS
<1> USE DEF PortsInv
<1>0. ASSUME UNCHANGED <<protocol, value, rest, merged>>,
             outcome' = outcome \/ (outcome # "merging" /\ outcome' = "unreadable")
      PROVE  LoopInv' /\ SettledInv'
  BY <1>0 DEF LoopInv, MergeKeepsUnion, MergedRanges, SettledInv, Merged, Gapped, PortsIn,
     OverCap, Covered, FullRange
<1>1. CASE UNCHANGED vars
  <2>1. TypeOK'
    BY <1>1 DEF vars, TypeOK
  <2> QED
    BY <1>0, <1>1, <2>1 DEF vars
<1>2. CASE MergeNext
  <2>1. merged' \in Seq(PortRange) /\ rest' \subseteq PortRange /\ LoopInv'
    BY <1>2, MergeStep
  <2>2. TypeOK'
    BY <1>2, <2>1 DEF MergeNext, TypeOK
  <2>3. SettledInv'
    BY <1>2 DEF MergeNext, SettledInv, Merged
  <2> QED
    BY <2>1, <2>2, <2>3
<1>3. CASE Settle
  <2>1. TypeOK' /\ LoopInv'
    BY <1>3 DEF Settle, TypeOK, LoopInv
  <2>2. Gapped(merged) /\ PortsIn(merged) = Covered(value)
    <3>1. Covered({}) = {}
      BY DEF Covered
    <3> QED
      BY <1>3, <3>1 DEF Settle, LoopInv, MergeKeepsUnion, MergedRanges, Gapped, PortsIn
  <2>3. SettledInv'
    BY <1>3, <2>2 DEF Settle, SettledInv, OverCap
  <2> QED
    BY <2>1, <2>3
<1>5. CASE PlanRules
  <2>1. unsent' \subseteq Entry
    BY <1>5, EntriesType DEF PlanRules, TypeOK
  <2> QED
    BY <1>0, <1>5, <2>1 DEF PlanRules, TypeOK
<1>6. CASE ReadRaises
  BY <1>0, <1>6 DEF ReadRaises, TypeOK
<1>7. CASE CreateRule
  <2>1. PICK e \in unsent : /\ unsent' = unsent \ {e}
                            /\ cloud' = cloud \cup {ToWire(protocol, e)}
    BY <1>7 DEF CreateRule
  <2>2. ToWire(protocol, e) \in WireRule
    BY ToWireType DEF TypeOK
  <2> QED
    BY <1>0, <1>7, <2>1, <2>2 DEF CreateRule, TypeOK
<1>8. CASE OthersCreate
  <2>1. cloud' \subseteq WireRule
    BY <1>8, PortsAssumption DEF OthersCreate, TypeOK
  <2> QED
    BY <1>0, <1>8, <2>1 DEF OthersCreate, TypeOK
<1>9. CASE Finished
  BY <1>1, <1>9 DEF Finished
<1> QED
  BY <1>1, <1>2, <1>3, <1>5, <1>6, <1>7, <1>8, <1>9 DEF Next, Command

THEOREM PortsCorrect == Spec => []PortsInv
BY InitPorts, PortsStep, PTL DEF Spec

\* Ranges stay ranges, on the way to the cloud too.
THEOREM TypeCorrect == Spec => []TypeOK
<1>1. PortsInv => TypeOK
  BY DEF PortsInv
<1> QED
  BY <1>1, PortsCorrect, PTL

\* "Sort and merge adjacent/overlapping ranges (the union)" (_merge): for any
\* list of ranges, after any number of turns of the loop.
THEOREM UnionKept == Spec => []MergeKeepsUnion
<1>1. PortsInv => MergeKeepsUnion
  BY DEF PortsInv, LoopInv, MergeKeepsUnion
<1> QED
  BY <1>1, PortsCorrect, PTL

(***************************************************************************)
(* A gapped list is the list of the longest runs of its ports.             *)
(***************************************************************************)
LEMMA GappedIsRuns ==
    ASSUME NEW s \in Seq(PortRange), Gapped(s)
    PROVE  {s[i] : i \in DOMAIN s} = Runs(PortsIn(s))
<1>1. \A i \in DOMAIN s : /\ s[i] \in PortRange /\ s[i] = <<s[i][1], s[i][2]>>
                          /\ s[i][1] \in Nat /\ s[i][2] \in Nat /\ s[i][1] <= s[i][2]
  BY RangeFacts
<1>2. DOMAIN s \subseteq Nat
  OBVIOUS
<1>3. ASSUME NEW i \in DOMAIN s
      PROVE  /\ s[i][1]..s[i][2] \subseteq PortsIn(s)
             /\ s[i][1] - 1 \notin PortsIn(s) /\ s[i][2] + 1 \notin PortsIn(s)
  <2>1. \A j \in DOMAIN s : j = i \/ s[j][2] + 1 < s[i][1] \/ s[i][2] + 1 < s[j][1]
    BY <1>2 DEF Gapped
  <2>2. ASSUME NEW j \in DOMAIN s
        PROVE  s[i][1] - 1 \notin s[j][1]..s[j][2] /\ s[i][2] + 1 \notin s[j][1]..s[j][2]
    <3>1. /\ s[i][1] \in Nat /\ s[i][2] \in Nat /\ s[i][1] <= s[i][2]
          /\ s[j][1] \in Nat /\ s[j][2] \in Nat /\ s[j][1] <= s[j][2]
      BY <1>1
    <3>2. j = i \/ s[j][2] + 1 < s[i][1] \/ s[i][2] + 1 < s[j][1]
      BY <2>1
    <3> QED
      BY <3>1, <3>2
  <2> QED
    BY <2>2, InPorts
<1>4. ASSUME NEW r \in Runs(PortsIn(s)) PROVE \E i \in DOMAIN s : s[i] = r
  <2>1. /\ r \in PortRange /\ r[1]..r[2] \subseteq PortsIn(s)
        /\ r[1] - 1 \notin PortsIn(s) /\ r[2] + 1 \notin PortsIn(s)
    BY DEF Runs
  <2>2. r = <<r[1], r[2]>> /\ r[1] \in Nat /\ r[2] \in Nat /\ r[1] <= r[2]
    BY <2>1, RangeFacts
  <2>3. PICK i \in DOMAIN s : r[1] \in s[i][1]..s[i][2]
    <3>1. r[1] \in PortsIn(s)
      BY <2>1, <2>2
    <3> QED
      BY <3>1, InPorts
  <2>4. s[i][1]..s[i][2] \subseteq PortsIn(s)
    BY <1>3
  <2>5. s[i][1] = r[1]
    <3>1. s[i][1] < r[1] => r[1] - 1 \in s[i][1]..s[i][2]
      BY <1>1, <2>2, <2>3
    <3> QED
      BY <1>1, <2>1, <2>2, <2>3, <2>4, <3>1
  <2>6. s[i][2] = r[2]
    <3>1. s[i][2] < r[2] => s[i][2] + 1 \in r[1]..r[2]
      BY <1>1, <2>2, <2>3
    <3>2. s[i][2] > r[2] => r[2] + 1 \in s[i][1]..s[i][2]
      BY <1>1, <2>2, <2>3
    <3> QED
      BY <1>1, <1>3, <2>1, <2>2, <2>4, <3>1, <3>2
  <2> QED
    BY <1>1, <2>2, <2>5, <2>6
<1>5. ASSUME NEW i \in DOMAIN s PROVE s[i] \in Runs(PortsIn(s))
  BY <1>1, <1>3 DEF Runs
<1> QED
  BY <1>4, <1>5

\* No range is in it twice.
LEMMA GappedCount ==
    ASSUME NEW s \in Seq(PortRange), Gapped(s)
    PROVE  Cardinality({s[i] : i \in DOMAIN s}) = Len(s)
<1> DEFINE S == {s[i] : i \in DOMAIN s}
<1>1. DOMAIN s = 1..Len(s) /\ Len(s) \in Nat
  OBVIOUS
<1>2. \A i, j \in DOMAIN s : i < j => s[i] # s[j]
  <2>1. \A i \in DOMAIN s : s[i][1] \in Nat /\ s[i][2] \in Nat /\ s[i][1] <= s[i][2]
    BY RangeFacts
  <2> QED
    BY <2>1 DEF Gapped
<1>3. \A i, j \in 1..Len(s) : s[i] = s[j] => i = j
  BY <1>1, <1>2
<1>4. s \in [1..Len(s) -> S]
  BY <1>1
<1>5. s \in Bijection(1..Len(s), S)
  BY <1>1, <1>3, <1>4 DEF Bijection, Injection, Surjection, IsInjective
<1>6. ExistsBijection(1..Len(s), S)
  BY <1>5 DEF ExistsBijection
<1> QED
  BY <1>1, <1>6, FS_CountingElements

\* The full range alone is all ports, and only it.
LEMMA FullAlone ==
    ASSUME NEW s \in Seq(PortRange), Gapped(s)
    PROVE  {s[i] : i \in DOMAIN s} = {FullRange} <=> s = <<FullRange>>
<1>1. s = <<FullRange>> => {s[i] : i \in DOMAIN s} = {FullRange}
  <2>1. ASSUME s = <<FullRange>> PROVE DOMAIN s = {1} /\ s[1] = FullRange
    BY <2>1
  <2> QED
    BY <2>1
<1>2. ASSUME {s[i] : i \in DOMAIN s} = {FullRange} PROVE s = <<FullRange>>
  <2>1. Len(s) = 1
    BY <1>2, GappedCount, FS_Singleton
  <2>2. s[1] = FullRange
    <3>1. 1 \in DOMAIN s
      BY <2>1
    <3> QED
      BY <1>2, <3>1
  <2> QED
    BY <2>1, <2>2
<1> QED
  BY <1>1, <1>2

\* Whatever list a file has, of whatever length, its PortSet is the longest
\* runs of its ports: it is refused when they are too many, and all ports
\* when the run is one and full (parse_ports).
THEOREM OneCanonicalForm == Spec => []CanonicalIsUnique
<1>1. ASSUME PortsInv PROVE CanonicalIsUnique
  <2> SUFFICES ASSUME Merged
               PROVE  LET runs == Runs(Covered(value))
                      IN  Entries = IF runs = {FullRange} THEN {NoPorts}
                                    ELSE IF Cardinality(runs) > MaxEntries THEN {} ELSE runs
    BY DEF CanonicalIsUnique
  <2> DEFINE runs == Runs(Covered(value))
  <2>1. /\ merged \in Seq(PortRange) /\ Gapped(merged) /\ PortsIn(merged) = Covered(value)
        /\ outcome = IF merged = <<FullRange>> THEN "all" ELSE IF OverCap THEN "error" ELSE "some"
    BY <1>1 DEF PortsInv, TypeOK, SettledInv
  <2>2. runs = {merged[i] : i \in DOMAIN merged}
    BY <2>1, GappedIsRuns
  <2>3. Cardinality(runs) = Len(merged)
    BY <2>1, <2>2, GappedCount
  <2>4. runs = {FullRange} <=> merged = <<FullRange>>
    BY <2>1, <2>2, FullAlone
  <2>5. OverCap <=> Cardinality(runs) > MaxEntries
    BY <2>3 DEF OverCap
  <2> HIDE DEF runs
  <2>6. Entries = IF runs = {FullRange} THEN {NoPorts}
                  ELSE IF Cardinality(runs) > MaxEntries THEN {} ELSE runs
    BY <2>1, <2>2, <2>4, <2>5 DEF Entries
  <2> QED
    BY <2>6 DEF runs
<1> QED
  BY <1>1, PortsCorrect, PTL
=============================================================================
