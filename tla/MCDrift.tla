------------------------------ MODULE MCDrift -------------------------------
(***************************************************************************)
(* Clouds and changes for module Drift.                                    *)
(***************************************************************************)
EXTENDS Drift, MCClouds

MCProjects == {WebOnly, WebAndDb, DbOnly, Secondary}
MCFirstClouds == {BareCloud, TwoGroups, Renamed}
MCGroups == {Sg(n1, web, text), Sg(n2, db, empty)}
MCRules ==
    {Rule(f1, s1, "ingress", all, n1, None), Rule(f2, s3, "egress", ssh, None, None)}
MCAddresses == {{}, {a1}, {a3}, {a6, a3}}
=============================================================================
