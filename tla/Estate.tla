------------------------------- MODULE Estate -------------------------------
(***************************************************************************)
(* The nouns of hcs-sg: what a project directory WANTS (entities.py) and   *)
(* what one observation of the cloud HAS (snapshot.py), with the identity  *)
(* by which rules of the two sides are matched.                            *)
(*                                                                         *)
(* Names, ids, addresses and CIDRs are opaque values.  A "service" is a    *)
(* protocol with at most one port range (what one cloud rule carries); the *)
(* ports grammar that splits "22,443" is module Ports.                     *)
(***************************************************************************)
CONSTANTS
    Name,         \* names a security group can have in the cloud
    GroupName,    \* those a directory can have (GROUP_NAME_RE)
    Description,  \* descriptions, Blank among them
    Blank,        \* the empty description
    SgId,         \* ids the cloud gives to security groups
    RuleId,       \* ids the cloud gives to rules
    PortId,       \* ids of ports (a NIC is a port)
    Addr,         \* IP addresses, of either version
    V4,           \* the IPv4 ones
    Service,      \* <protocol, range> pairs a cloud rule can carry
    CodeService,  \* those a rule file can state (tcp, udp, icmp, all)
    Prefix,       \* spellings of a remote_ip_prefix, of either version
    Canonical,    \* v4 spelling -> canonical CIDR (ip_network(strict=False))
    Anywhere,     \* "0.0.0.0/0"
    DefaultRule,  \* self rules the platform adds to every new group
    None          \* Python's None and "", where an id or address is absent

Direction == {"ingress", "egress"}
Cidr == {Canonical[p] : p \in DOMAIN Canonical}

ASSUME EstateAssumption ==
    /\ GroupName \subseteq Name
    /\ Blank \in Description
    /\ V4 \subseteq Addr
    /\ CodeService \subseteq Service
    /\ DOMAIN Canonical \subseteq Prefix
    /\ \A c \in Cidr : c \in DOMAIN Canonical /\ Canonical[c] = c
    /\ Anywhere \in Cidr
    /\ DefaultRule \subseteq [direction : Direction, service : Service]
    /\ None \notin SgId \cup Prefix \cup Addr
    /\ Name \cap SgId = {} /\ Name \cap Prefix = {} /\ SgId \cap Prefix = {}
    /\ RuleId \cap (SgId \X DefaultRule) = {}

(***************************************************************************)
(* What the cloud has.  A rule the platform added itself is named by its   *)
(* group and its content, every other rule by a RuleId.                    *)
(***************************************************************************)
AnyRuleId == RuleId \cup (SgId \X DefaultRule)

CloudSg == [id : SgId, name : Name, description : Description]

CloudRule ==
    [id : AnyRuleId, sg_id : SgId, direction : Direction, service : Service,
     remote_group_id : SgId \cup {None}, remote_ip_prefix : Prefix \cup {None}]

\* `ip` is the NIC's first address; `ips` are all of them, the keys under
\* which the inventory indexes it.
CloudNic == [port_id : PortId, ip : Addr \cup {None}, ips : SUBSET Addr]

Inventory ==
    [sgs : SUBSET CloudSg, rules : SUBSET CloudRule,
     attached : SUBSET (SgId \X PortId), nics : SUBSET CloudNic]

\* What one reading guarantees: ids are unique, a rule comes embedded in its
\* group, a platform rule in the group it is named by, a port in its own
\* record; a NIC is indexed under its first address.
WellFormed(inv) ==
    /\ inv \in Inventory
    /\ \A x, y \in inv.sgs : x.id = y.id => x = y
    /\ \A x, y \in inv.rules : x.id = y.id => x = y
    /\ \A x, y \in inv.nics : x.port_id = y.port_id => x = y
    /\ \A r \in inv.rules : \E sg \in inv.sgs : sg.id = r.sg_id
    /\ \A r \in inv.rules : r.id \notin RuleId => r.id[1] = r.sg_id
    /\ \A p \in inv.attached : \E n \in inv.nics : n.port_id = p[2]
    /\ \A n \in inv.nics : n.ip \in n.ips \/ (n.ip = None /\ n.ips = {})

AttachedNics(inv, sg_id) == {n \in inv.nics : <<sg_id, n.port_id>> \in inv.attached}

\* The member-IP index: the v4 addresses of every port.
NicsByIp(inv, ip) == {n \in inv.nics : ip \in n.ips \cap V4}

(***************************************************************************)
(* The join key between code rules and cloud rules.                        *)
(***************************************************************************)
Identity(direction, service, remote) ==
    [direction |-> direction, service |-> service, remote |-> remote]

\* A slip: the remote group keeps its id instead of its name.
RemoteById(inv, r) ==
    CASE r.remote_group_id # None -> r.remote_group_id
      [] r.remote_group_id = None /\ r.remote_ip_prefix \in DOMAIN Canonical ->
            Canonical[r.remote_ip_prefix]
      [] OTHER -> Anywhere

\* A group remote is known by its name, by its bare id when no listed group
\* has that id; a v4 prefix by its canonical form; an unset remote is
\* Anywhere; a prefix the model cannot express stands for itself, which no
\* code rule can equal.
RemoteOf(inv, r) ==
    CASE r.remote_group_id # None ->
            IF \E sg \in inv.sgs : sg.id = r.remote_group_id
            THEN (CHOOSE sg \in inv.sgs : sg.id = r.remote_group_id).name
            ELSE r.remote_group_id
      [] r.remote_group_id = None /\ r.remote_ip_prefix # None ->
            IF r.remote_ip_prefix \in DOMAIN Canonical
            THEN Canonical[r.remote_ip_prefix]
            ELSE r.remote_ip_prefix
      [] OTHER -> Anywhere

IdentityOf(inv, r) == Identity(r.direction, r.service, RemoteOf(inv, r))

(***************************************************************************)
(* What the project directory wants.  A group's own directory puts it in   *)
(* `groups`; a direction file puts <<group, direction>> in `managed`, even *)
(* when the file holds [].                                                 *)
(***************************************************************************)
CodeRule ==
    [group : GroupName, direction : Direction,
     services : (SUBSET CodeService) \ {{}}, remote : GroupName \cup Cidr]

DesiredState ==
    [groups : SUBSET GroupName, description : [GroupName -> Description],
     members : SUBSET (GroupName \X V4),
     managed : SUBSET (GroupName \X Direction), rules : SUBSET CodeRule]

\* What load_project lets through: everything hangs under a group directory,
\* and a rule's remote group is one the project declares.
Loaded(code) ==
    /\ code \in DesiredState
    /\ \A m \in code.members : m[1] \in code.groups
    /\ \A m \in code.managed : m[1] \in code.groups
    /\ \A r \in code.rules :
          /\ <<r.group, r.direction>> \in code.managed
          /\ r.remote \in GroupName => r.remote \in code.groups

\* A slip: a multi-entry rule is sent as it is written.
SubRulesUnsplit(r) == {Identity(r.direction, r.services, r.remote)}

\* One code rule stands for one cloud rule per entry of its ports.
SubRules(r) == {Identity(r.direction, s, r.remote) : s \in r.services}

Wanted(code, group, direction) ==
    UNION {SubRules(r) : r \in {x \in code.rules :
              x.group = group /\ x.direction = direction}}
=============================================================================
