------------------------------ MODULE MCPorts -------------------------------
(***************************************************************************)
(* Six ports and a cap of two entries: lists of up to three ranges that    *)
(* touch, overlap, nest, repeat or leave a gap, and wrong ones.            *)
(***************************************************************************)
EXTENDS Ports

Pairs == {<<lo, hi>> \in (1..MaxPort) \X (1..MaxPort) : lo <= hi}
Wrong == {{<<0, 1>>}, {<<MaxPort, MaxPort + 1>>}, {<<2, 2>>, <<4, 3>>}}

MCValues == {{}} \cup {{a, b, c} : a, b, c \in Pairs} \cup Wrong \cup {NoPorts, NotPorts}

MCWireProtocol == {"tcp", "udp", "icmp", "1", ""}

Wire(v, p, lo, hi) == [version |-> v, protocol |-> p, min |-> lo, max |-> hi]

\* A rule the plan finds, an ICMP echo, one with both bounds null; an ICMP
\* echo under the protocol's number, and port zero.
MCForeign ==
    {Wire("IPv4", "tcp", 2, 3), Wire("IPv4", "icmp", 8, 0), Wire("IPv6", "", NoPorts, NoPorts),
     Wire("IPv4", "1", 8, 0), Wire("IPv6", "udp", 0, 3)}

\* A port open to IPv6 only.
V6Foreign == {Wire("IPv6", "tcp", 6, 6)}

FewValues ==
    {NoPorts, NotPorts, {<<2, 3>>}, {<<1, 1>>, <<2, 4>>, <<6, 6>>}, {<<1, 3>>, <<4, MaxPort>>},
     {<<1, 1>>, <<3, 3>>, <<5, 5>>}}
=============================================================================
