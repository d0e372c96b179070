------------------------------ MODULE MCClouds ------------------------------
(***************************************************************************)
(* Small clouds and projects for the checks, with everything the modules   *)
(* distinguish: a group no directory can have, a group made again under    *)
(* another id, a rule in another spelling, one no file can say, one        *)
(* without a remote, self rules, a NIC whose first address is IPv6.        *)
(***************************************************************************)
EXTENDS Estate

CONSTANTS
    web, db, legacy,             \* names; legacy cannot be a directory
    empty, text,                 \* descriptions
    s1, s2, s3, n1, n2,          \* group ids; n1, n2 only for new groups
    r1, r2, r3, r4, f1, f2, f3,  \* rule ids; f1.. only for new rules
    p1, p2, p3,                  \* ports
    a1, a2, a3, a6,              \* addresses; a6 is IPv6
    all, ssh, sctp,              \* services; sctp cannot be coded
    any, ten, tenHost, v6        \* prefixes; tenHost is a spelling of ten

MCName == {web, db, legacy}
MCGroupName == {web, db}
MCDescription == {empty, text}
MCSgId == {s1, s2, s3, n1, n2}
MCRuleId == {r1, r2, r3, r4, f1, f2, f3}
MCPortId == {p1, p2, p3}
MCAddr == {a1, a2, a3, a6}
MCV4 == {a1, a2, a3}
MCService == {all, ssh, sctp}
MCCodeService == {all, ssh}
MCPrefix == {any, ten, tenHost, v6}
MCCanonical == [p \in {any, ten, tenHost} |-> IF p = tenHost THEN ten ELSE p]
MCDefaultRule == {[direction |-> "ingress", service |-> all]}

Sg(id, name, description) == [id |-> id, name |-> name, description |-> description]

Rule(id, sg, d, s, group, prefix) ==
    [id |-> id, sg_id |-> sg, direction |-> d, service |-> s,
     remote_group_id |-> group, remote_ip_prefix |-> prefix]

SelfRule(sg) ==
    Rule(<<sg, [direction |-> "ingress", service |-> all]>>, sg, "ingress", all, sg, None)

Nic1(port, ip) == [port_id |-> port, ip |-> ip, ips |-> {ip}]
Nics == {Nic1(p1, a1), Nic1(p2, a2), [port_id |-> p3, ip |-> a6, ips |-> {a6, a3}]}

Cloud(groups, itsRules, members) ==
    [sgs |-> groups, rules |-> itsRules, attached |-> members, nics |-> Nics]

BareCloud == Cloud({}, {}, {})
OneGroup ==
    Cloud({Sg(s1, web, empty)},
          {SelfRule(s1), Rule(r1, s1, "ingress", ssh, None, tenHost),
           Rule(r2, s1, "egress", all, None, None)},
          {<<s1, p1>>})
TwoGroups ==
    Cloud({Sg(s1, web, empty), Sg(s2, db, text)},
          {SelfRule(s1), SelfRule(s2), Rule(r1, s1, "ingress", ssh, None, ten),
           Rule(r3, s2, "ingress", ssh, s1, None), Rule(r4, s2, "egress", sctp, None, v6)},
          {<<s1, p1>>, <<s2, p2>>, <<s2, p1>>})
LegacyCloud ==
    Cloud({Sg(s1, web, text), Sg(s3, legacy, empty)},
          {SelfRule(s3), Rule(r1, s1, "ingress", ssh, s3, None),
           Rule(r2, s3, "ingress", ssh, None, any)},
          {<<s3, p2>>, <<s3, p3>>})
\* web was made again under another id, and db renamed to legacy.
Renamed ==
    Cloud({Sg(s3, web, text), Sg(s2, legacy, text)}, {SelfRule(s3)}, {<<s3, p1>>})
\* The IPv6-first NIC is a member.
HomedTwice ==
    Cloud({Sg(s1, web, empty)}, {}, {<<s1, p3>>})

Coded(g, d, services, remote) ==
    [group |-> g, direction |-> d, services |-> services, remote |-> remote]

Project(groups, description, members, managed, itsRules) ==
    [groups |-> groups, description |-> [g \in MCGroupName |-> description],
     members |-> members, managed |-> managed, rules |-> itsRules]

WebOnly ==
    Project({web}, text, {<<web, a2>>}, {<<web, "ingress">>},
            {Coded(web, "ingress", {ssh}, ten), Coded(web, "ingress", {all, ssh}, any)})
WebAndDb ==
    Project({web, db}, empty, {<<web, a1>>, <<db, a2>>},
            {<<db, "ingress">>, <<web, "egress">>},
            {Coded(db, "ingress", {ssh}, web)})
DbOnly ==
    Project({db}, text, {<<db, a1>>}, {<<db, "ingress">>, <<db, "egress">>},
            {Coded(db, "egress", {all}, any)})
SelfReference ==
    Project({web}, empty, {}, {<<web, "ingress">>}, {Coded(web, "ingress", {all}, web)})
Secondary == Project({web}, empty, {<<web, a3>>}, {}, {})
=============================================================================
