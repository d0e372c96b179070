----------------------------- MODULE MCGateway -----------------------------
(***************************************************************************)
(* A cloud of two groups and two ports for module Gateway, and calls on    *)
(* it.  With pages of two, each listing is a full page and an empty one,   *)
(* or a short one when others have added to it.  A new group comes before  *)
(* (n1) or after (n2) those there were.                                    *)
(***************************************************************************)
EXTENDS Gateway, MCClouds

FourSgIds == {s1, s2, n1, n2}
FewRuleIds == {r1, r2, f1, f2}
TwoPortIds == {p1, p2}

MCPosition ==
    [i \in FourSgIds \cup TwoPortIds |->
        CASE i = n1 -> 1 [] i = s1 -> 2 [] i = s2 -> 3 [] i = n2 -> 4
          [] i = p1 -> 5 [] i = p2 -> 6]

SmallCloud ==
    [sgs |-> {Sg(s1, web, text), Sg(s2, legacy, empty)},
     rules |-> {SelfRule(s2), Rule(r1, s1, "ingress", ssh, s2, None)},
     attached |-> {<<s1, p1>>, <<s1, p2>>, <<s2, p2>>}, nics |-> {Nic1(p1, a1), Nic1(p2, a2)}]

MCFirstClouds == {SmallCloud}

MCCalls ==
    {[op |-> "inventory"],
     [op |-> "create_security_group", name |-> db, description |-> text],
     [op |-> "update_security_group_description", sg_id |-> s2, description |-> text],
     [op |-> "delete_security_group", sg_id |-> s2],
     [op |-> "create_rule", sg_id |-> s1, rule |-> Identity("ingress", ssh, db)],
     [op |-> "create_rule", sg_id |-> s1, rule |-> Identity("ingress", ssh, ten)],
     [op |-> "delete_rule", rule_id |-> r1],
     [op |-> "attach_nic", sg_id |-> s2, port_id |-> p1],
     [op |-> "detach_nic", sg_id |-> s2, port_id |-> p2]}
=============================================================================
