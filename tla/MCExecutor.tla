----------------------------- MODULE MCExecutor -----------------------------
(***************************************************************************)
(* Small projects and clouds for module Executor, chosen so that groups    *)
(* are created, updated and deleted, members move between groups, rules    *)
(* are added, kept, matched through another spelling and removed, and a    *)
(* run meets a cloud other than the one it was planned from.               *)
(***************************************************************************)
EXTENDS Executor, MCClouds, TLC

\* Ids no cloud or project of MCClouds mentions are interchangeable.
Symmetry == Permutations({n1, n2}) \cup Permutations({f1, f2, f3})

WebSplit ==
    Project({web}, text, {<<web, a2>>}, {<<web, "ingress">>},
            {Coded(web, "ingress", {all, ssh}, ten)})

MCProjects == {WebSplit, WebAndDb, DbOnly, SelfReference}
MCEstates == {BareCloud, OneGroup, TwoGroups, LegacyCloud, Renamed}

SecondaryProjects == {Secondary}
SecondaryEstates == {HomedTwice, BareCloud, OneGroup}

SelfProjects == {SelfReference}
=============================================================================
