------------------------------ MODULE MCImport ------------------------------
(***************************************************************************)
(* Snapshots and earlier projects for module Import.                       *)
(***************************************************************************)
EXTENDS Import, MCClouds

MCDirOrder == [g \in MCGroupName |-> IF g = db THEN 0 ELSE 1]

\* The same rule twice, in two spellings.
Spelled ==
    Cloud({Sg(s1, web, text), Sg(s2, db, empty)},
          {Rule(r1, s1, "ingress", ssh, None, ten), Rule(r3, s1, "ingress", ssh, None, tenHost),
           Rule(r4, s2, "egress", all, s1, None)},
          {<<s2, p2>>})

\* One address, two NICs: its member entry is one resolve_memberships refuses.
Shared ==
    [sgs |-> {Sg(s1, web, empty)}, rules |-> {}, attached |-> {<<s1, p1>>, <<s1, p2>>},
     nics |-> {Nic1(p1, a1), Nic1(p2, a1)}]

NothingCoded == Project({}, empty, {}, {}, {})

MCSnapshots == {BareCloud, OneGroup, TwoGroups, LegacyCloud, HomedTwice, Spelled, Shared}
MCHandWritten == {NothingCoded, DbOnly}

\* One snapshot for the last property.
OneSnapshot == {LegacyCloud}
NoProject == {NothingCoded}
=============================================================================
