------------------------------ MODULE Consent ------------------------------
(***************************************************************************)
(* What hcs-sg promises the owner of a cloud: "--yes is the ONLY path to   *)
(* real writes" and confirms the preview (cli/main.py).  The tool changes  *)
(* the cloud only by actions the owner has agreed to, each at most once,   *)
(* and by each only as the preview says.  A create is once a group or a    *)
(* rule for each try of its request that took effect.  Session implements  *)
(* this.                                                                   *)
(***************************************************************************)
EXTENDS Naturals, FiniteSets, Planner

CONSTANT MaxTries  \* tries of a request

VARIABLES
    yes,     \* the command being run has --yes
    agreed,  \* agreed actions the tool may still perform
    own,     \* ids of the groups it made for these
    met,     \* names and ids of the groups there have been since (history)
    sgs, rules, attached,  \* the cloud
    changes  \* changes others made

vars == <<yes, agreed, own, met, sgs, rules, attached, changes>>
cloud == <<sgs, rules, attached>>

Init ==
    /\ yes = FALSE /\ agreed = {} /\ own = {} /\ met = {} /\ changes = 0
    /\ sgs \subseteq CloudSg /\ rules \subseteq CloudRule /\ attached \subseteq SgId \X PortId

Named(groups) == {<<sg.name, sg.id>> : sg \in groups}

\* A command without --yes: whatever it did before, nothing is agreed now.
Look ==
    /\ yes' = FALSE
    /\ agreed' = {} /\ own' = {} /\ met' = {}
    /\ UNCHANGED <<cloud, changes>>

\* A command with --yes agrees to the actions of its preview.
Agree ==
    /\ yes' = TRUE
    /\ agreed' \in SUBSET Action
    /\ own' = {}
    /\ met' = Named(sgs)
    /\ UNCHANGED <<cloud, changes>>

\* The group an action of the preview is about.
About(a, id) == IF a.sg_id = None THEN id \in own ELSE id = a.sg_id

(***************************************************************************)
(* What an action may do.                                                  *)
(***************************************************************************)
MakesGroup(a) ==
    /\ a.op = "CreateSg"
    /\ LET new == {sg.id : sg \in sgs' \ sgs}
       IN  /\ Cardinality(new) <= MaxTries
           /\ \E id \in new : own' \subseteq own \cup {id}
           /\ \A r \in rules' \ rules : r.sg_id \in new /\ r.remote_group_id = r.sg_id
    /\ sgs \subseteq sgs' /\ rules \subseteq rules'
    /\ \A sg \in sgs' \ sgs : sg.name = a.group /\ sg.description \in {Blank, a.description}
    /\ UNCHANGED attached

DescribesGroup(a) ==
    /\ a.op = "UpdateSg"
    /\ \A sg \in (sgs \ sgs') \cup (sgs' \ sgs) : sg.id = a.sg_id
    /\ {[id |-> sg.id, name |-> sg.name] : sg \in sgs'}
          = {[id |-> sg.id, name |-> sg.name] : sg \in sgs}
    /\ UNCHANGED <<rules, attached, own>>

\* A remote group is one that has had the name since the owner agreed.
Says(rule, r) ==
    /\ r.direction = rule.direction /\ r.service = rule.service
    /\ \/ /\ rule.remote \in Name
          /\ <<rule.remote, r.remote_group_id>> \in met
          /\ r.remote_ip_prefix = None
       \/ /\ rule.remote \notin Name
          /\ r.remote_group_id = None /\ r.remote_ip_prefix = rule.remote

MakesRule(a) ==
    /\ a.op = "CreateRule"
    /\ rules \subseteq rules'
    /\ Cardinality({r.id : r \in rules' \ rules}) <= MaxTries
    /\ \A r \in rules' \ rules : About(a, r.sg_id) /\ Says(a.rule, r)
    /\ UNCHANGED <<sgs, attached, own>>

Attaches(a) ==
    /\ a.op = "AttachNic"
    /\ attached \subseteq attached'
    /\ \A p \in attached' \ attached : About(a, p[1]) /\ p[2] = a.port_id
    /\ UNCHANGED <<sgs, rules, own>>

RemovesRule(a) ==
    /\ a.op = "DeleteRule"
    /\ rules' \subseteq rules
    /\ \A r \in rules \ rules' : r.id = a.rule_id
    /\ UNCHANGED <<sgs, attached, own>>

Detaches(a) ==
    /\ a.op = "DetachNic"
    /\ attached' = attached \ {<<a.sg_id, a.port_id>>}
    /\ UNCHANGED <<sgs, rules, own>>

RemovesGroup(a) ==
    /\ a.op = "DeleteSg"
    /\ sgs' = {sg \in sgs : sg.id # a.sg_id}
    /\ rules' = {r \in rules : r.sg_id # a.sg_id}
    /\ UNCHANGED <<attached, own>>

\* One agreed action, which is then used up; a failed one may do nothing.
Act(a) ==
    /\ yes
    /\ agreed' = agreed \ {a}
    /\ \/ UNCHANGED <<cloud, own>>
       \/ MakesGroup(a) \/ DescribesGroup(a) \/ MakesRule(a) \/ Attaches(a)
       \/ RemovesRule(a) \/ Detaches(a) \/ RemovesGroup(a)
    /\ met' = met \cup Named(sgs')
    /\ UNCHANGED <<yes, changes>>

\* Others do what they like.
OthersChange ==
    /\ changes' = changes + 1
    /\ met' = IF yes THEN met \cup Named(sgs') ELSE met
    /\ UNCHANGED <<yes, agreed, own>>

Next == Look \/ Agree \/ (\E a \in agreed : Act(a)) \/ OthersChange

Spec == Init /\ [][Next]_vars
=============================================================================
