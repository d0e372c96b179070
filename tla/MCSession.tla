----------------------------- MODULE MCSession -----------------------------
(***************************************************************************)
(* Two projects and two clouds for module Session, small enough for a few  *)
(* runs: a group with a rule that names it and a member; and another group *)
(* in its place.                                                           *)
(***************************************************************************)
EXTENDS Session, MCClouds, TLC

\* Ids no cloud or project mentions are interchangeable.
Symmetry == Permutations({n1, n2}) \cup Permutations({f1, f2})

FewSgIds == {s1, n1, n2}
FewRuleIds == {r1, f1, f2}
OnePortId == {p1}
TwoNames == {web, db}

OneNic(groups, itsRules, members) ==
    [sgs |-> groups, rules |-> itsRules, attached |-> members, nics |-> {Nic1(p1, a1)}]

MCEstates ==
    {OneNic({Sg(s1, web, empty)}, {Rule(r1, s1, "ingress", ssh, None, ten)}, {<<s1, p1>>})}

MCProjects ==
    {Project({web}, text, {<<web, a1>>}, {<<web, "ingress">>},
             {Coded(web, "ingress", {ssh}, web)}),
     Project({db}, empty, {}, {}, {})}
=============================================================================
