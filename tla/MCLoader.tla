------------------------------ MODULE MCLoader ------------------------------
(***************************************************************************)
(* Trees of up to three entries for module Loader: every kind of fault in  *)
(* one directory, beside a directory that is right, one that is not, and   *)
(* entries that are none.                                                  *)
(***************************************************************************)
EXTENDS Loader, MCClouds, TLC

CONSTANT hidden

Doc(name, description, members) ==
    [name |-> name, description |-> description, members |-> members]

GroupDocs ==
    {Absent, Unreadable, Null, Bad}
    \cup {Doc(n, d, m) : n \in {web, db, Bad}, d \in {text, Bad},
                         m \in {Bad, <<>>, <<a1, a2>>, <<a1, a6>>, <<Bad, a1>>, <<a1, a2, a1>>}}

RuleDoc(remote, protocol, ports, services) ==
    [remote |-> remote, protocol |-> protocol, ports |-> ports, services |-> services]

Ssh(remote) == RuleDoc(remote, "ranged", "given", {ssh})
All(remote) == RuleDoc(remote, "portless", "none", {all})

RuleDocs ==
    {Ssh(r) : r \in {web, db, legacy, ten, tenHost, v6, Bad, None}}
    \cup {All(db), Bad,
          RuleDoc(any, Bad, "none", {all}), RuleDoc(None, Bad, "none", {all}),
          RuleDoc(any, "portless", "given", {all}), RuleDoc(any, "portless", Bad, {all}),
          RuleDoc(any, "ranged", Bad, {ssh})}

DirectionDocs ==
    {Absent, Unreadable, Null, Bad, <<>>} \cup {<<r>> : r \in RuleDocs}
    \cup {<<r, Ssh(ten), x>> : r \in RuleDocs, x \in {Ssh(ten), Ssh(tenHost), Ssh(None)}}

Dir(group, ingress, egress) ==
    [group |-> group, file |-> [ingress |-> ingress, egress |-> egress]]

Right(name) == Doc(name, text, <<a1>>)

\* One directory with every fault, in group.yaml or in a direction file.
Entries ==
    {Dir(g, Absent, <<Ssh(db)>>) : g \in GroupDocs}
    \cup {Dir(Right(web), i, <<>>) : i \in DirectionDocs}
    \cup {Dir(Right(web), <<Ssh(web)>>, e) : e \in DirectionDocs}

\* What is beside it.
Beside ==
    {db :> o : o \in {Dir(Right(db), <<Ssh(web)>>, Absent), Dir(Null, <<>>, <<>>),
                      Dir(Right(db), Null, <<Ssh(legacy), Ssh(None)>>)}}
    \cup {legacy :> Stray @@ hidden :> Dir(Bad, Null, <<>>),
          legacy :> Dir(Right(legacy), <<>>, <<>>) @@ db :> Stray}

MCTrees ==
    {NoDirectory}
    \cup {(web :> e) @@ b : e \in Entries, b \in Beside}
=============================================================================
