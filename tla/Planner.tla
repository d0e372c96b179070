------------------------------ MODULE Planner -------------------------------
(***************************************************************************)
(* engine.plan: the pure function from the desired state and one inventory *)
(* to the list of actions, with the refusals that come before it.          *)
(*                                                                         *)
(* The action list is a set: its members are distinct, and the only order  *)
(* the executor adds is by kind (module Executor).                         *)
(***************************************************************************)
EXTENDS Estate

(***************************************************************************)
(* The seven payloads.  None is the blank sg_id of a group that does not   *)
(* exist yet; an AttachNic keeps the member address it is for.             *)
(***************************************************************************)
CreateSg(g, d) == [op |-> "CreateSg", group |-> g, description |-> d]
UpdateSg(g, s, d) ==
    [op |-> "UpdateSg", group |-> g, sg_id |-> s, description |-> d]
CreateRule(g, s, r) == [op |-> "CreateRule", group |-> g, sg_id |-> s, rule |-> r]
AttachNic(g, s, p, ip) ==
    [op |-> "AttachNic", group |-> g, sg_id |-> s, port_id |-> p, ip |-> ip]
DeleteRule(g, r) == [op |-> "DeleteRule", group |-> g, rule_id |-> r]
DetachNic(g, s, p) == [op |-> "DetachNic", group |-> g, sg_id |-> s, port_id |-> p]
DeleteSg(g, s) == [op |-> "DeleteSg", group |-> g, sg_id |-> s]

RuleIdentity ==
    [direction : Direction, service : CodeService, remote : GroupName \cup Cidr]

Action ==
    [op : {"CreateSg"}, group : GroupName, description : Description]
    \cup [op : {"UpdateSg"}, group : Name, sg_id : SgId, description : Description]
    \cup [op : {"CreateRule"}, group : GroupName, sg_id : SgId \cup {None},
          rule : RuleIdentity]
    \cup [op : {"AttachNic"}, group : GroupName, sg_id : SgId \cup {None},
          port_id : PortId, ip : V4]
    \cup [op : {"DeleteRule"}, group : GroupName, rule_id : AnyRuleId]
    \cup [op : {"DetachNic"}, group : Name, sg_id : SgId, port_id : PortId]
    \cup [op : {"DeleteSg"}, group : Name, sg_id : SgId]

(***************************************************************************)
(* Refusals.                                                               *)
(***************************************************************************)
DuplicateNames(inv) ==
    \E x, y \in inv.sgs : x.name = y.name /\ x.id # y.id

\* An empty project against a cloud that holds groups.
WholeEstate(code, inv) == code.groups = {} /\ inv.sgs # {}

\* A member address resolves when exactly one NIC of the account has it.
Resolves(inv, ip) == \E n \in inv.nics : NicsByIp(inv, ip) = {n}
Unresolved(code, inv) == \E m \in code.members : ~Resolves(inv, m[2])

Plannable(code, inv) ==
    /\ ~Unresolved(code, inv)
    /\ ~DuplicateNames(inv)
    /\ ~WholeEstate(code, inv)

\* The NIC a resolvable address stands for.
Nic(inv, ip) == CHOOSE n \in NicsByIp(inv, ip) : TRUE

(***************************************************************************)
(* The plan, row by row.                                                   *)
(***************************************************************************)
SgNamed(inv, g) == {sg \in inv.sgs : sg.name = g}

\* The id the group's payloads carry: None when the cloud has no such group.
TargetId(inv, g) ==
    IF SgNamed(inv, g) = {} THEN None ELSE (CHOOSE sg \in SgNamed(inv, g) : TRUE).id

\* A slip: a group that does not match the code's description is made anew.
PlanGroupRowRemakes(code, inv, g) ==
    {CreateSg(g, code.description[g]) : x \in {y \in {g} :
        \A sg \in SgNamed(inv, y) : sg.description # code.description[g]}}

PlanGroupRow(code, inv, g) ==
    {CreateSg(g, code.description[g]) : x \in {y \in {g} : SgNamed(inv, y) = {}}}
    \cup {UpdateSg(g, sg.id, code.description[g]) :
            sg \in {x \in SgNamed(inv, g) : x.description # code.description[g]}}

DesiredIps(code, g) == {m[2] : m \in {x \in code.members : x[1] = g}}
AttachedIps(inv, g) ==
    {n.ip : n \in UNION {AttachedNics(inv, sg.id) : sg \in SgNamed(inv, g)}}

\* The IP list is the truth: a listed address no attached NIC has is
\* attached, an attached NIC whose first address is not listed is detached.
PlanMembers(code, inv, g) ==
    {AttachNic(g, TargetId(inv, g), Nic(inv, ip).port_id, ip) :
        ip \in DesiredIps(code, g) \ AttachedIps(inv, g)}
    \cup UNION {{DetachNic(g, sg.id, n.port_id) :
                    n \in {x \in AttachedNics(inv, sg.id) :
                              x.ip \notin DesiredIps(code, g)}} :
                sg \in SgNamed(inv, g)}

RulesOf(inv, g, d) ==
    {r \in inv.rules : r.direction = d /\ \E sg \in SgNamed(inv, g) : sg.id = r.sg_id}

\* A slip: the self rules are stale like any other.
StaleSelfToo(code, inv, g, d) ==
    {r \in RulesOf(inv, g, d) : IdentityOf(inv, r) \notin Wanted(code, g, d)}

\* What a managed direction has and code does not, the group's self rules
\* apart.
Stale(code, inv, g, d) ==
    {r \in RulesOf(inv, g, d) :
        IdentityOf(inv, r) \notin Wanted(code, g, d) /\ r.remote_group_id # r.sg_id}

PlanManagedDirection(code, inv, g, d) ==
    {CreateRule(g, TargetId(inv, g), w) :
        w \in Wanted(code, g, d) \ {IdentityOf(inv, r) : r \in RulesOf(inv, g, d)}}
    \cup {DeleteRule(g, r.id) : r \in Stale(code, inv, g, d)}

\* An unmanaged direction is left alone.
PlanRules(code, inv, g) ==
    UNION {PlanManagedDirection(code, inv, g, d) :
              d \in {x \in Direction : <<g, x>> \in code.managed}}

\* A group of the cloud with no directory: its members leave, then it goes.
PlanAbsentGroups(code, inv) ==
    UNION {{DeleteSg(sg.name, sg.id)}
             \cup {DetachNic(sg.name, sg.id, n.port_id) : n \in AttachedNics(inv, sg.id)} :
           sg \in {x \in inv.sgs : x.name \notin code.groups}}

Plan(code, inv) ==
    PlanAbsentGroups(code, inv)
    \cup UNION {PlanGroupRow(code, inv, g) \cup PlanMembers(code, inv, g)
                  \cup PlanRules(code, inv, g) : g \in code.groups}

\* A slip: every empty managed direction raises the warning.
ClearsEveryEmpty(code, inv) ==
    {m \in code.managed : \A r \in code.rules : <<r.group, r.direction>> # m}

\* The directions the plan announces it strips: managed, empty in code, with
\* something to delete.
Clears(code, inv) ==
    {m \in code.managed :
        /\ \A r \in code.rules : <<r.group, r.direction>> # m
        /\ Stale(code, inv, m[1], m[2]) # {}}
=============================================================================
