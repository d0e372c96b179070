-------------------------------- MODULE Ports --------------------------------
(***************************************************************************)
(* The ports of a rule: the grammar of entities.py ("22,443", 80,          *)
(* "8000-9000") reduced to its canonical form, sent to the cloud one range *)
(* at a time, and read back.                                               *)
(*                                                                         *)
(* A range is <<lo, hi>>.  The entries of a list are a set: the sort that  *)
(* comes first takes away their order, and the merge their repetition.     *)
(***************************************************************************)
EXTENDS Integers, Sequences, FiniteSets

CONSTANTS
    MaxPort,      \* 65535
    MaxEntries,   \* 20, the cap of Huawei multiport
    Values,       \* what `ports:` can hold in a file
    WireProtocol, \* protocols a cloud rule can carry, "" among them
    Foreign,      \* rules others can have made in the cloud
    NoPorts,      \* None: all ports
    NotPorts,     \* a value of another type
    Raises        \* PortError

Protocols == {"tcp", "udp", "icmp", "all"}
Portless == {"icmp", "all"}

\* Only rules without a remote: from, or to, anywhere in their IP version.
WireRule ==
    [version : {"IPv4", "IPv6"}, protocol : WireProtocol, min : Int \cup {NoPorts},
     max : Int \cup {NoPorts}]

ASSUME PortsAssumption ==
    /\ MaxPort \in Nat \ {0}
    /\ MaxEntries \in Nat \ {0}
    /\ \A v \in Values \ {NoPorts, NotPorts} : v \subseteq Int \X Int /\ IsFiniteSet(v)
    /\ NoPorts \notin Int \X Int
    /\ (Protocols \ {"all"}) \cup {""} \subseteq WireProtocol
    /\ Foreign \subseteq WireRule

VARIABLES
    protocol,  \* of the rule
    value,     \* its `ports:`
    rest,      \* ranges not merged yet
    merged,    \* the list of merged ranges
    outcome,   \* merging; PortError, all ports, a PortSet; or a failed reading
    unsent,    \* services the plan has still to create
    cloud      \* rules of the group in the cloud

vars == <<protocol, value, rest, merged, outcome, unsent, cloud>>

PortRange == {r \in (1..MaxPort) \X (1..MaxPort) : r[1] <= r[2]}
Entry == PortRange \cup {NoPorts}

TypeOK ==
    /\ protocol \in Protocols
    /\ value \in {NoPorts, NotPorts} \/ value \subseteq Int \X Int
    /\ rest \subseteq PortRange
    /\ merged \in Seq(PortRange)
    /\ outcome \in {"merging", "error", "all", "some", "unreadable"}
    /\ unsent \subseteq Entry
    /\ cloud \subseteq WireRule

(***************************************************************************)
(* parse_ports.                                                            *)
(***************************************************************************)
\* A slip: port zero will do.
ValidEntryFromZero(r) == r \in (0..MaxPort) \X (0..MaxPort) /\ r[1] <= r[2]

\* An entry is digits, or digits-digits, within 1-65535 and not reversed.
ValidEntry(r) == r \in PortRange

FullRange == <<1, MaxPort>>

Init ==
    /\ protocol \in Protocols
    /\ value \in Values
    /\ merged = <<>>
    /\ unsent = {}
    /\ cloud = {}
    /\ \/ /\ value \in {NoPorts, {}}
          /\ outcome = "all" /\ rest = {}
       \/ /\ \/ value = NotPorts
             \/ value \notin {NoPorts, {}} /\ protocol \in Portless
             \/ value \notin {NoPorts, NotPorts, {}} /\ \E r \in value : ~ValidEntry(r)
          /\ outcome = "error" /\ rest = {}
       \/ /\ value \notin {NoPorts, NotPorts, {}}
          /\ protocol \notin Portless
          /\ \A r \in value : ValidEntry(r)
          /\ outcome = "merging" /\ rest = value

\* The first in the order of the sort.
First(r) == \A x \in rest : r[1] < x[1] \/ (r[1] = x[1] /\ r[2] <= x[2])

Last == merged[Len(merged)]

Joins(r) == merged # <<>> /\ r[1] <= Last[2] + 1

\* A slip: the later range's end wins.
JoinedToItsEnd(r) == <<Last[1], r[2]>>

Joined(r) == <<Last[1], IF r[2] > Last[2] THEN r[2] ELSE Last[2]>>

MergeNext ==
    /\ outcome = "merging"
    /\ \E r \in rest :
          /\ First(r)
          /\ rest' = rest \ {r}
          /\ merged' = IF Joins(r) THEN [merged EXCEPT ![Len(merged)] = Joined(r)]
                       ELSE Append(merged, r)
    /\ UNCHANGED <<protocol, value, outcome, unsent, cloud>>

\* A slip: twenty entries are one too many.
OverCapByOne == Len(merged) >= MaxEntries

OverCap == Len(merged) > MaxEntries

Settle ==
    /\ outcome = "merging"
    /\ rest = {}
    /\ outcome' = IF merged = <<FullRange>> THEN "all" ELSE IF OverCap THEN "error" ELSE "some"
    /\ UNCHANGED <<protocol, value, rest, merged, unsent, cloud>>

\* What the rule's ports come to: one entry per sub-rule of the plan.
Entries ==
    CASE outcome = "all" -> {NoPorts}
      [] outcome = "some" -> {merged[i] : i \in DOMAIN merged}
      [] OTHER -> {}

(***************************************************************************)
(* The wire.                                                               *)
(***************************************************************************)
\* "all" and all ports are nulls.
ToWire(p, e) ==
    [version |-> "IPv4",
     protocol |-> IF p = "all" THEN "" ELSE p,
     min |-> IF e = NoPorts THEN NoPorts ELSE e[1],
     max |-> IF e = NoPorts THEN NoPorts ELSE e[2]]

\* parse_ports on one range, as text.
ReadRange(lo, hi) ==
    IF ~ValidEntry(<<lo, hi>>) THEN Raises
    ELSE IF <<lo, hi>> = FullRange THEN NoPorts ELSE <<lo, hi>>

\* A slip: an ICMP type and code are read as a range of ports.
PortsOfIcmp(w) ==
    IF w.min # NoPorts /\ w.max # NoPorts THEN ReadRange(w.min, w.max)
    ELSE IF w.min # NoPorts THEN <<w.min, w.min>> ELSE NoPorts

\* An ICMP rule has its type and code in the bounds, which are no ports.
PortsOf(w) ==
    CASE w.protocol \in {"icmp", "icmpv6"} -> NoPorts
      [] w.protocol \notin {"icmp", "icmpv6"} /\ w.min # NoPorts /\ w.max # NoPorts ->
            ReadRange(w.min, w.max)
      [] w.protocol \notin {"icmp", "icmpv6"} /\ w.min # NoPorts /\ w.max = NoPorts ->
            <<w.min, w.min>>
      [] OTHER -> NoPorts

\* The service of a rule that was read, whatever its IP version.
Service(w) == <<IF w.protocol = "" THEN "all" ELSE w.protocol, PortsOf(w)>>
Services == {Service(w) : w \in cloud}

\* The inventory is read, and the plan asks for the entries the group has no
\* rule for.
PlanRules ==
    /\ outcome \in {"all", "some"}
    /\ unsent = {}
    /\ \A w \in cloud : PortsOf(w) # Raises
    /\ unsent' = {e \in Entries : <<protocol, e>> \notin Services}
    /\ UNCHANGED <<protocol, value, rest, merged, outcome, cloud>>

\* The reading raises, and the command with it.
ReadRaises ==
    /\ outcome \in {"all", "some"}
    /\ unsent = {}
    /\ \E w \in cloud : PortsOf(w) = Raises
    /\ outcome' = "unreadable"
    /\ UNCHANGED <<protocol, value, rest, merged, unsent, cloud>>

\* Someone else makes a rule, once.
OthersCreate ==
    /\ cloud \cap Foreign = {}
    /\ \E w \in Foreign : cloud' = cloud \cup {w}
    /\ UNCHANGED <<protocol, value, rest, merged, outcome, unsent>>

CreateRule ==
    /\ \E e \in unsent :
          /\ unsent' = unsent \ {e}
          /\ cloud' = cloud \cup {ToWire(protocol, e)}
    /\ UNCHANGED <<protocol, value, rest, merged, outcome>>

\* The command has ended.
Finished == outcome \in {"error", "unreadable"} /\ UNCHANGED vars

Command == MergeNext \/ Settle \/ PlanRules \/ ReadRaises \/ CreateRule

Next == Command \/ OthersCreate \/ Finished

Spec == Init /\ [][Next]_vars /\ WF_vars(Command)

-----------------------------------------------------------------------------
(***************************************************************************)
(* Properties.                                                             *)
(***************************************************************************)
Covered(ranges) == UNION {r[1]..r[2] : r \in ranges}
MergedRanges == {merged[i] : i \in DOMAIN merged}

\* The longest runs of a set of ports.
Runs(ports) ==
    {r \in PortRange : /\ r[1]..r[2] \subseteq ports
                       /\ r[1] - 1 \notin ports /\ r[2] + 1 \notin ports}

\* "Sort and merge adjacent/overlapping ranges (the union)" (_merge): at
\* every step no port is lost or gained, and the list so far is sorted, with
\* a port missing between any two of its ranges.
MergeKeepsUnion ==
    outcome = "merging" =>
        /\ Covered(MergedRanges) \cup Covered(rest) = Covered(value)
        /\ \A i, j \in DOMAIN merged : i < j => merged[i][2] + 1 < merged[j][1]
        /\ \A i \in DOMAIN merged, r \in rest : merged[i][1] <= r[1]

\* A list of valid ranges was parsed.
Merged ==
    /\ value \notin {NoPorts, NotPorts, {}}
    /\ value \subseteq PortRange
    /\ protocol \notin Portless
    /\ outcome \in {"error", "all", "some"}

\* The canonical form is one: two ways to write the same ports give the same
\* PortSet (the longest runs), refused exactly when there are too many, and
\* all ports when they are all there.  Rule identities, hence the match with
\* the cloud and the duplicate check, rest on it.
CanonicalIsUnique ==
    Merged =>
        LET runs == Runs(Covered(value))
        IN  Entries = IF runs = {FullRange} THEN {NoPorts}
                      ELSE IF Cardinality(runs) > MaxEntries THEN {} ELSE runs

\* Two bounds, not an ICMP type and code, that are no range of ports.
ClaimsWrongPorts(w) ==
    /\ w.protocol \notin {"icmp", "icmpv6"}
    /\ NoPorts \notin {w.min, w.max}
    /\ <<w.min, w.max>> \notin PortRange

\* "Planning against the expanded sub-rules is what makes multi-port rules
\* converge against the real API" (_sub_rules): a rule that is not refused is
\* at last read back, entry by entry, as it was coded, and nothing is left to
\* plan.  Only a rule of others that claims ports and has none (port zero, a
\* reversed range) may stop it; the bounds of an ICMP rule may not, nor one
\* bound or none.
Converges ==
    <>[](\/ outcome = "error"
         \/ outcome = "unreadable" /\ \E w \in cloud \cap Foreign : ClaimsWrongPorts(w)
         \/ /\ outcome \in {"all", "some"} /\ unsent = {}
            /\ \A e \in Entries : <<protocol, e>> \in Services)

\* "A remote our v4-only model cannot express (e.g. IPv6) becomes an identity
\* no code rule can ever match" (CloudRule.identity): the plan passes over an
\* entry only where the group has an IPv4 rule for it.
OnlyV4Matches ==
    [][PlanRules => \A e \in Entries \ unsent' : \E w \in cloud :
          w.version = "IPv4" /\ Service(w) = <<protocol, e>>]_vars
=============================================================================
