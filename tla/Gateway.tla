------------------------------ MODULE Gateway ------------------------------
(***************************************************************************)
(* HuaweiGateway, below the contract that Executor and Drift rely on: the  *)
(* SDK requests a call is made of, the retries of throttled ones, the      *)
(* pages of a listing, the name cache, and others who change the cloud     *)
(* between any two requests.                                               *)
(*                                                                         *)
(* A request is answered; or throttled, before or after its effect, which  *)
(* the gateway cannot tell apart and retries; or ends in another error,    *)
(* before or after its effect.                                             *)
(***************************************************************************)
EXTENDS Naturals, Sequences, FiniteSets, Estate

CONSTANTS
    Calls,       \* calls the executor may make
    FirstClouds, \* the cloud when the gateway is built
    Position,    \* id -> its place in a listing
    PageSize,    \* _SG_PAGE and _PORT_PAGE
    MaxTries,    \* throttle_tries
    MaxCalls,    \* bound: calls made in all
    MaxChanges   \* bound: changes others make in all

Writes ==
    [op : {"create_security_group"}, name : GroupName, description : Description]
    \cup [op : {"update_security_group_description"}, sg_id : SgId, description : Description]
    \cup [op : {"delete_security_group"}, sg_id : SgId]
    \cup [op : {"create_rule"}, sg_id : SgId,
          rule : [direction : Direction, service : CodeService, remote : GroupName \cup Cidr]]
    \cup [op : {"delete_rule"}, rule_id : AnyRuleId]
    \cup [op : {"attach_nic", "detach_nic"}, sg_id : SgId, port_id : PortId]

Inventories == [op : {"inventory"}]

ASSUME GatewayAssumption ==
    /\ Calls \subseteq Writes \cup Inventories
    /\ \A inv \in FirstClouds : WellFormed(inv)
    /\ IsFiniteSet(SgId \cup PortId) /\ None \notin PortId
    /\ Position \in [SgId \cup PortId -> Nat]
    /\ \A i, j \in SgId \cup PortId : Position[i] = Position[j] => i = j
    /\ PageSize \in Nat \ {0} /\ MaxTries \in Nat \ {0}
    /\ MaxCalls \in Nat /\ MaxChanges \in Nat

VARIABLES
    history,  \* every cloud there was, the live one last
    cached,   \* _sg_name_to_id
    call,     \* the call being made, or the last one made
    request,  \* the SDK request it waits for, with what the code holds for it
    tries,    \* tries left for that request
    out,      \* the reading collected so far
    status,   \* how the call ended
    began,    \* the place in history where the call began
    made,     \* ids of groups the call made
    late,     \* groups it made before an APIGW error
    calls,    \* calls made
    changes   \* changes others made

vars == <<history, cached, call, request, tries, out, status, began, made, late,
          calls, changes>>

Live == history[Len(history)]
During == {history[i] : i \in began..Len(history)}
Ever == {history[i] : i \in DOMAIN history}

NoCall == [op |-> "none"]
NoRequest == [m |-> "none", arg |-> None]
Busy == request # NoRequest
NothingRead == [sgs |-> {}, rules |-> {}, attached |-> {}, nics |-> {}]

Listings == {"neutron_list_security_groups", "list_security_groups", "list_ports", "get_port"}
Changing ==
    {"create_security_group", "neutron_update_security_group", "delete_security_group",
     "neutron_create_security_group_rule", "neutron_delete_security_group_rule",
     "update_port"}

\* `arg` is the marker of a listing, the id of the group to describe, the id
\* of a rule's remote group, or the groups a port is to have.
Request ==
    [m : Listings \cup Changing \cup {"none"},
     arg : SgId \cup PortId \cup {None} \cup SUBSET SgId]

TypeOK ==
    /\ history # <<>> /\ \A i \in DOMAIN history : WellFormed(history[i])
    /\ cached \in [Name -> SgId \cup {None}]
    /\ call \in Calls \cup {NoCall}
    /\ request \in Request
    /\ tries \in 1..MaxTries
    /\ out \in Inventory
    /\ status \in {"none", "ok", "failed"}
    /\ began \in DOMAIN history
    /\ made \subseteq SgId
    /\ late \in Nat
    /\ calls \in 0..MaxCalls /\ changes \in 0..MaxChanges

Init ==
    /\ \E inv \in FirstClouds : history = <<inv>>
    /\ cached = [n \in Name |-> None]
    /\ call = NoCall /\ request = NoRequest /\ tries = MaxTries
    /\ out = NothingRead /\ status = "none"
    /\ began = 1 /\ made = {} /\ late = 0
    /\ calls = 0 /\ changes = 0

(***************************************************************************)
(* The cloud: what the requests that change it do there.                   *)
(***************************************************************************)
Ids(inv) == {sg.id : sg \in inv.sgs}
GroupsOf(inv, port_id) == {p[1] : p \in {x \in inv.attached : x[2] = port_id}}
HasPort(inv, port_id) == \E n \in inv.nics : n.port_id = port_id

\* Ids never come back.
FreshSgIds == SgId \ UNION {Ids(inv) : inv \in Ever}
FreshRuleIds == RuleId \ UNION {{r.id : r \in inv.rules} : inv \in Ever}

\* The platform's self rules come with the group.
WithGroup(inv, sg) ==
    [inv EXCEPT
       !.sgs = @ \cup {sg},
       !.rules = @ \cup
          {[id |-> <<sg.id, d>>, sg_id |-> sg.id, direction |-> d.direction,
            service |-> d.service, remote_group_id |-> sg.id,
            remote_ip_prefix |-> None] : d \in DefaultRule}]

WithoutGroup(inv, id) ==
    [inv EXCEPT !.sgs = {sg \in @ : sg.id # id}, !.rules = {r \in @ : r.sg_id # id}]

Described(inv, id, description) ==
    [inv EXCEPT !.sgs = {IF sg.id = id THEN [sg EXCEPT !.description = description] ELSE sg :
                            sg \in @}]

WithPortGroups(inv, port_id, ids) ==
    [inv EXCEPT !.attached = {p \in @ : p[2] # port_id} \cup (ids \X {port_id})]

Becomes(inv) == history' = IF inv = Live THEN history ELSE Append(history, inv)

MakeGroup ==
    /\ request.m = "create_security_group"
    /\ \E id \in FreshSgIds :
          /\ Becomes(WithGroup(Live, [id |-> id, name |-> call.name, description |-> Blank]))
          /\ made' = made \cup {id}

\* The group to describe: the one asked for, or the one just made.
DescribedId == IF call.op = "create_security_group" THEN request.arg ELSE call.sg_id

DescribeGroup ==
    /\ request.m = "neutron_update_security_group"
    /\ DescribedId \in Ids(Live)
    /\ Becomes(Described(Live, DescribedId, call.description))
    /\ UNCHANGED made

\* Refused while ports are attached.
RemoveGroup ==
    /\ request.m = "delete_security_group"
    /\ call.sg_id \in Ids(Live)
    /\ \A p \in Live.attached : p[1] # call.sg_id
    /\ Becomes(WithoutGroup(Live, call.sg_id))
    /\ UNCHANGED made

PostRule ==
    /\ request.m = "neutron_create_security_group_rule"
    /\ {call.sg_id} \cup ({request.arg} \ {None}) \subseteq Ids(Live)
    /\ \E id \in FreshRuleIds :
          Becomes([Live EXCEPT !.rules = @ \cup
            {[id |-> id, sg_id |-> call.sg_id, direction |-> call.rule.direction,
              service |-> call.rule.service, remote_group_id |-> request.arg,
              remote_ip_prefix |-> IF request.arg = None THEN call.rule.remote ELSE None]}])
    /\ UNCHANGED made

RemoveRule ==
    /\ request.m = "neutron_delete_security_group_rule"
    /\ \E r \in Live.rules : r.id = call.rule_id
    /\ Becomes([Live EXCEPT !.rules = {r \in @ : r.id # call.rule_id}])
    /\ UNCHANGED made

PutPort ==
    /\ request.m = "update_port"
    /\ HasPort(Live, call.port_id)
    /\ request.arg \subseteq Ids(Live)
    /\ Becomes(WithPortGroups(Live, call.port_id, request.arg))
    /\ UNCHANGED made

\* The request takes effect.
Effect == MakeGroup \/ DescribeGroup \/ RemoveGroup \/ PostRule \/ RemoveRule \/ PutPort

(***************************************************************************)
(* _run: the outcomes of a request other than an answer.                   *)
(***************************************************************************)
\* The call is over.
Return(how) ==
    /\ request' = NoRequest
    /\ tries' = MaxTries
    /\ status' = how

\* A slip: the count of the tries starts over.
TryForever ==
    /\ tries' = IF tries > 1 THEN tries - 1 ELSE MaxTries
    /\ UNCHANGED <<request, status>>

\* Waited and tried again, until the tries are spent.
TryAgain ==
    IF tries > 1
    THEN tries' = tries - 1 /\ UNCHANGED <<request, status>>
    ELSE Return("failed")

Throttled ==
    /\ Busy
    /\ TryAgain
    /\ UNCHANGED <<history, cached, call, out, began, made, late, calls, changes>>

\* An APIGW error for a request that was carried out all the same.
ThrottledLate ==
    /\ Effect
    /\ late' = late + Cardinality(made' \ made)
    /\ TryAgain
    /\ UNCHANGED <<cached, call, out, began, calls, changes>>

\* Refused, or lost on the way there.
Refused ==
    /\ Busy
    /\ Return("failed")
    /\ UNCHANGED <<history, cached, call, out, began, made, late, calls, changes>>

\* A slip: an answer that is lost is a reason to try again.
RetriesLost ==
    /\ Effect
    /\ TryAgain
    /\ UNCHANGED <<cached, call, out, began, late, calls, changes>>

\* Carried out, and the answer lost.
AnswerLost ==
    /\ Effect
    /\ Return("failed")
    /\ UNCHANGED <<cached, call, out, began, late, calls, changes>>

(***************************************************************************)
(* Pages.                                                                  *)
(***************************************************************************)
After(ids, marker) ==
    IF marker = None THEN ids ELSE {i \in ids : Position[i] > Position[marker]}

Page(ids, marker) ==
    {i \in After(ids, marker) :
        Cardinality({j \in After(ids, marker) : Position[j] < Position[i]}) < PageSize}

LastOf(ids) == CHOOSE i \in ids : \A j \in ids : Position[j] <= Position[i]

\* A slip: a full page is taken for the last one.
FullAndMore(page) == Cardinality(page) > PageSize

\* A full page may be followed by another, possibly empty.
Full(page) == Cardinality(page) = PageSize

\* A slip: every group of the name is cached.
CacheAll(ids) ==
    [n \in Name |->
        LET named == {sg.id : sg \in {x \in Live.sgs : x.id \in ids /\ x.name = n}}
        IN  IF named = {} THEN cached[n] ELSE named]

\* The cache with the names of the listed groups; of one name, the last.
CacheWith(ids) ==
    [n \in Name |->
        LET named == {sg.id : sg \in {x \in Live.sgs : x.id \in ids /\ x.name = n}}
        IN  IF named = {} THEN cached[n] ELSE LastOf(named)]

\* A slip: the rules come from a listing of their own.
ReadGroupsApart(ids) ==
    [out EXCEPT !.sgs = @ \cup {sg \in Live.sgs : sg.id \in ids},
                !.rules = @ \cup Live.rules]

\* Each group comes with its rules.
ReadGroups(ids) ==
    [out EXCEPT !.sgs = @ \cup {sg \in Live.sgs : sg.id \in ids},
                !.rules = @ \cup {r \in Live.rules : r.sg_id \in ids}]

\* Each port comes with its groups and addresses.
ReadPorts(ids) ==
    [out EXCEPT !.nics = @ \cup {n \in Live.nics : n.port_id \in ids},
                !.attached = @ \cup {p \in Live.attached : p[2] \in ids}]

(***************************************************************************)
(* Calls: the first request, and what follows each answer.                 *)
(***************************************************************************)
Ask(m, arg) == [m |-> m, arg |-> arg]

FirstRequest(c) ==
    CASE c.op = "inventory" -> Ask("neutron_list_security_groups", None)
      [] c.op = "create_security_group" -> Ask("create_security_group", None)
      [] c.op = "update_security_group_description" ->
            Ask("neutron_update_security_group", None)
      [] c.op = "delete_security_group" -> Ask("delete_security_group", None)
      [] c.op = "create_rule" ->
            IF c.rule.remote \notin Name
            THEN Ask("neutron_create_security_group_rule", None)
            ELSE IF cached[c.rule.remote] = None THEN Ask("list_security_groups", None)
            ELSE Ask("neutron_create_security_group_rule", cached[c.rule.remote])
      [] c.op = "delete_rule" -> Ask("neutron_delete_security_group_rule", None)
      [] c.op \in {"attach_nic", "detach_nic"} -> Ask("get_port", None)

Begin(c) ==
    /\ ~Busy
    /\ calls < MaxCalls
    /\ calls' = calls + 1
    /\ call' = c
    /\ request' = FirstRequest(c)
    /\ began' = Len(history)
    /\ out' = NothingRead /\ status' = "none" /\ made' = {} /\ late' = 0
    /\ UNCHANGED <<history, cached, tries, changes>>

Continue(m, arg) ==
    /\ request' = Ask(m, arg)
    /\ tries' = MaxTries
    /\ UNCHANGED status

GroupsPage ==
    /\ request.m = "neutron_list_security_groups"
    /\ LET page == Page(Ids(Live), request.arg)
       IN  /\ out' = ReadGroups(page)
           /\ cached' = CacheWith(page)
           /\ IF Full(page) THEN Continue(request.m, LastOf(page))
              ELSE Continue("list_ports", None)
    /\ UNCHANGED <<history, call, began, made, late, calls, changes>>

PortsPage ==
    /\ request.m = "list_ports"
    /\ LET page == Page({n.port_id : n \in Live.nics}, request.arg)
       IN  /\ out' = ReadPorts(page)
           /\ IF Full(page) THEN Continue(request.m, LastOf(page)) ELSE Return("ok")
    /\ UNCHANGED <<history, cached, call, began, made, late, calls, changes>>

\* The cache is refreshed for a rule whose remote group it lacks.
NamesPage ==
    /\ request.m = "list_security_groups"
    /\ LET page == Page(Ids(Live), request.arg)
       IN  /\ cached' = CacheWith(page)
           /\ IF Full(page) THEN Continue(request.m, LastOf(page))
              ELSE IF cached'[call.rule.remote] = None THEN Return("failed")
              ELSE Continue("neutron_create_security_group_rule", cached'[call.rule.remote])
    /\ UNCHANGED <<history, call, out, began, made, late, calls, changes>>

\* A slip: the port is given the one group asked for.
NewGroupsAlone(ids) == IF call.op = "attach_nic" THEN {call.sg_id} ELSE ids \ {call.sg_id}

NewGroups(ids) == IF call.op = "attach_nic" THEN ids \cup {call.sg_id} ELSE ids \ {call.sg_id}

\* The groups of the port are read, to be written back with the change, or
\* left when there is none.
PortGot ==
    /\ request.m = "get_port"
    /\ LET ids == GroupsOf(Live, call.port_id)
       IN  IF ~HasPort(Live, call.port_id) THEN Return("failed")
           ELSE IF NewGroups(ids) = ids THEN Return("ok")
           ELSE Continue("update_port", NewGroups(ids))
    /\ UNCHANGED <<history, cached, call, out, began, made, late, calls, changes>>

\* A slip: the description of a new group is forgotten.
ForgetsDescription(id) == Return("ok")

\* A description needs a second request.
DescribeNew(id) ==
    IF call.description # Blank THEN Continue("neutron_update_security_group", id)
    ELSE Return("ok")

GroupMade ==
    /\ MakeGroup
    /\ \E id \in made' \ made :
          /\ cached' = [cached EXCEPT ![call.name] = id]
          /\ DescribeNew(id)
    /\ UNCHANGED <<call, out, began, late, calls, changes>>

\* The answers that end a call.
Answered ==
    /\ DescribeGroup \/ RemoveGroup \/ PostRule \/ RemoveRule \/ PutPort
    /\ Return("ok")
    /\ UNCHANGED <<cached, call, out, began, late, calls, changes>>

(***************************************************************************)
(* The changes of others.                                                  *)
(***************************************************************************)
GroupsChanged ==
    \/ \E id \in FreshSgIds, n \in Name :
          Becomes(WithGroup(Live, [id |-> id, name |-> n, description |-> Blank]))
    \/ \E id \in Ids(Live) : /\ \A p \in Live.attached : p[1] # id
                             /\ Becomes(WithoutGroup(Live, id))
    \/ \E sg \in Live.sgs, n \in Name :
          Becomes([Live EXCEPT !.sgs = (@ \ {sg}) \cup {[sg EXCEPT !.name = n]}])
    \/ \E r \in Live.rules : Becomes([Live EXCEPT !.rules = @ \ {r}])

PortsChanged ==
    \/ \E n \in Live.nics, id \in Ids(Live) :
          Becomes(WithPortGroups(Live, n.port_id, GroupsOf(Live, n.port_id) \cup {id}))
    \/ \E p \in Live.attached : Becomes([Live EXCEPT !.attached = @ \ {p}])
    \/ \E n \in Live.nics :
          Becomes([Live EXCEPT !.nics = @ \ {n}, !.attached = {p \in @ : p[2] # n.port_id}])

OthersChange ==
    /\ changes < MaxChanges
    /\ GroupsChanged \/ PortsChanged
    /\ history' # history
    /\ changes' = changes + 1
    /\ UNCHANGED <<cached, call, request, tries, out, status, began, made, late, calls>>

\* No call is made any more.
Finished == ~Busy /\ calls = MaxCalls /\ UNCHANGED vars

Step ==
    \/ GroupsPage \/ PortsPage \/ NamesPage \/ PortGot \/ GroupMade \/ Answered
    \/ Throttled \/ ThrottledLate \/ Refused \/ AnswerLost

Next == (\E c \in Calls : Begin(c)) \/ Step \/ OthersChange \/ Finished

Spec == Init /\ [][Next]_vars /\ WF_vars(Step)

-----------------------------------------------------------------------------
(***************************************************************************)
(* Properties.                                                             *)
(***************************************************************************)
Ok(op) == status = "ok" /\ call.op = op

RulesIn(inv, id) == {r \in inv.rules : r.sg_id = id}

\* What plan, drift and import take for granted of a reading (inventory):
\* it is well formed, however the cloud changes between its pages.
ReadingWellFormed == Ok("inventory") => WellFormed(out)

\* "The WHOLE account in two paged call families" (inventory): each group is
\* read with the rules, each port with the groups, that it had together at
\* some moment of the reading, and nothing is missed that was there
\* throughout, wherever the pages end.
ReadingIsOfItsTime ==
    Ok("inventory") =>
        /\ \A sg \in out.sgs : \E inv \in During :
              sg \in inv.sgs /\ RulesIn(inv, sg.id) = RulesIn(out, sg.id)
        /\ \A n \in out.nics : \E inv \in During :
              n \in inv.nics /\ GroupsOf(inv, n.port_id) = GroupsOf(out, n.port_id)
        /\ \A id \in SgId : (\A inv \in During : id \in Ids(inv)) => id \in Ids(out)
        /\ \A p \in PortId : (\A inv \in During : HasPort(inv, p)) => HasPort(out, p)

\* The group had the name at some moment.
Named(n, id) == \E inv \in Ever : \E sg \in inv.sgs : sg.name = n /\ sg.id = id

\* What the cloud is like once a call has done its work.
Reached(inv) ==
    CASE call.op = "create_security_group" ->
            \E sg \in inv.sgs : /\ sg.id \in made /\ sg.id = cached[call.name]
                                /\ Named(call.name, sg.id) /\ sg.description = call.description
      [] call.op = "update_security_group_description" ->
            \E sg \in inv.sgs : sg.id = call.sg_id /\ sg.description = call.description
      [] call.op = "delete_security_group" -> call.sg_id \notin Ids(inv)
      [] call.op = "create_rule" ->
            \E r \in RulesIn(inv, call.sg_id) :
                /\ r.direction = call.rule.direction /\ r.service = call.rule.service
                /\ IF call.rule.remote \in Name
                   THEN Named(call.rule.remote, r.remote_group_id)
                   ELSE r.remote_group_id = None /\ r.remote_ip_prefix = call.rule.remote
      [] call.op = "delete_rule" -> \A r \in inv.rules : r.id # call.rule_id
      [] call.op = "attach_nic" -> <<call.sg_id, call.port_id>> \in inv.attached
      [] call.op = "detach_nic" -> <<call.sg_id, call.port_id>> \notin inv.attached
      [] OTHER -> TRUE

\* A call that returns has done its work at some moment since it began, were
\* it by an earlier try that the gateway took for throttled (_run): what the
\* executor reports as ok was so.
OkMeansDone == status = "ok" => \E inv \in During : Reached(inv)

\* "Throttled calls wait and retry in place" (_run) must not make a group
\* twice: a create makes at most one group besides those made by requests
\* that an APIGW error answered all the same.
GroupsMadeByRetries == Cardinality(made) <= 1 + late

\* attach_nic and detach_nic write a port's whole list of groups back: they
\* change no membership but the one asked for, save to undo what others have
\* changed of that port since the call began.
OthersMembershipsKept ==
    [][Step => \A id \in SgId, p \in PortId :
          (<<id, p>> \in Live.attached) # (<<id, p>> \in Live'.attached) =>
              /\ call.op \in {"attach_nic", "detach_nic"} /\ p = call.port_id
              /\ \/ id = call.sg_id
                 \/ \E x, y \in During : <<id, p>> \in x.attached /\ <<id, p>> \notin y.attached
      ]_vars

\* "Stop at the first short page", stop_after_attempt(throttle_tries): every
\* call ends.
CallsEnd == Busy ~> ~Busy
=============================================================================
