---------------------------- MODULE ManagerStore ----------------------------
(***************************************************************************)
(* The Cluster Manager's store (src/mycoagent/manager/store.py) under its  *)
(* HTTP API (manager/api.py): groups and their policy, the nodes that      *)
(* register in them, membership, heartbeats and the catalog.               *)
(*                                                                         *)
(* Grain of atomicity.  The endpoints are plain functions, so FastAPI runs *)
(* them on a pool of threads, and a store method takes the lock more than  *)
(* once: first in _expire_offline, then for its own statements, then in    *)
(* the get_node or get_group that builds its answer.  Each acquisition is  *)
(* one action of the request's thread.  (_expire_offline reads the clock   *)
(* just before it takes the lock: a thread that stalls there does what it  *)
(* would have done without stalling, as who was heard from since is idle   *)
(* or busy again either way.)                                              *)
(*                                                                         *)
(* A node's name stands for its id in allow_register.  Machine, system,    *)
(* models, skills and tools only filter the catalog's answer and are left  *)
(* out, as is allow_parent, which the store keeps and never reads.         *)
(***************************************************************************)
EXTENDS Naturals, FiniteSets

CONSTANTS Groups, Nodes,    \* names and ids that requests mention
          AllowLists,       \* the allow_register lists requests pass
          Timeout,          \* heartbeat_timeout, in ticks
          MaxClock,         \* bound on the clock
          Threads,          \* requests served at the same time
          NoRequest, Keep   \* nothing to do; a field a PATCH omits

ASSUME StoreAssumption ==
    /\ {} \in AllowLists
    /\ Timeout \in Nat /\ MaxClock \in Nat
    /\ Keep \notin AllowLists /\ Keep \notin {"auto", "manual"}

VARIABLES
    groups,     \* table groups: name -> policy
    nodes,      \* table nodes: id -> row
    clock,      \* _utcnow()
    req,        \* per thread: the request it serves
    pc,         \* per thread: the lock acquisition it comes to next
    policy,     \* per thread: the policy update_group read
    asOf,       \* history, per thread: when the _expire_offline of its query ran
    left        \* history: the nodes whose last heartbeat said that they are offline

vars == <<groups, nodes, clock, req, pc, policy, asOf, left>>

JoinModes   == {"auto", "manual"}
Memberships == {"approved", "pending", "denied"}
Policy  == [join : JoinModes, allow : AllowLists]
Statuses    == {"idle", "busy", "offline"}
NodeRow == [group : Groups, status : Statuses, seen : 0..MaxClock,
            membership : Memberships]

Requests ==
    [op : {"create"}, group : Groups, policy : Policy]
    \union [op : {"update"}, group : Groups,
            patch : [join : JoinModes \union {Keep}, allow : AllowLists \union {Keep}]]
    \union [op : {"delete", "query"}, group : Groups]
    \union [op : {"register"}, group : Groups, node : Nodes]
    \union [op : {"membership"}, group : Groups, node : Nodes,
            decision : {"approved", "denied"}]
    \union [op : {"heartbeat"}, node : Nodes, status : Statuses]

\* The first lock acquisition of each method.
FirstStage(op) == IF op \in {"create", "delete"} THEN "body" ELSE "expire"

Init == /\ groups = <<>> /\ nodes = <<>>
        /\ clock = 0
        /\ req = [t \in Threads |-> NoRequest]
        /\ pc = [t \in Threads |-> "idle"]
        /\ policy = [t \in Threads |-> NoRequest]
        /\ asOf = [t \in Threads |-> 0]
        /\ left = {}

-----------------------------------------------------------------------------
Put(table, key, row) == [k \in DOMAIN table \union {key} |->
                            IF k = key THEN row ELSE table[k]]
Drop(table, keys) == [k \in DOMAIN table \ keys |-> table[k]]

Go(t, stage) == pc' = [pc EXCEPT ![t] = stage]

\* The request is answered, by its result or by an HTTP error.
Finish(t) == /\ Go(t, "idle")
             /\ req' = [req EXCEPT ![t] = NoRequest]
             /\ policy' = [policy EXCEPT ![t] = NoRequest]
             /\ asOf' = [asOf EXCEPT ![t] = 0]

Arrive(t, r) ==
    /\ pc[t] = "idle"
    /\ req' = [req EXCEPT ![t] = r]
    /\ Go(t, FirstStage(r.op))
    /\ UNCHANGED <<groups, nodes, clock, policy, asOf, left>>

Silent(row) == row.seen + Timeout < clock

\* Mutant: a node goes offline a tick before its timeout has passed.
ExpiredEarly == [n \in DOMAIN nodes |->
                    IF nodes[n].seen + Timeout <= clock
                    THEN [nodes[n] EXCEPT !.status = "offline"] ELSE nodes[n]]

\* Mutant: a node stays listed a tick past its timeout.
ExpiredLate == [n \in DOMAIN nodes |->
                   IF nodes[n].seen + Timeout + 1 < clock
                   THEN [nodes[n] EXCEPT !.status = "offline"] ELSE nodes[n]]

\* What _expire_offline makes of the table of nodes.
Expired == [n \in DOMAIN nodes |->
               IF Silent(nodes[n]) THEN [nodes[n] EXCEPT !.status = "offline"] ELSE nodes[n]]

\* The leading _expire_offline.
Expire(t) ==
    /\ pc[t] = "expire"
    /\ nodes' = Expired
    /\ asOf' = IF req[t].op = "query" THEN [asOf EXCEPT ![t] = clock] ELSE asOf
    /\ Go(t, "body")
    /\ UNCHANGED <<groups, clock, req, policy, left>>

\* The get_node or get_group that ends a method: _expire_offline, and a read of
\* the row as it is by then.
Answer(t) ==
    /\ pc[t] = "answer"
    /\ nodes' = Expired
    /\ Finish(t)
    /\ UNCHANGED <<groups, clock, left>>

At(t, op) == pc[t] = "body" /\ req[t].op = op

CreateGroup(t) ==
    /\ At(t, "create")
    /\ IF req[t].group \in DOMAIN groups
       THEN Finish(t) /\ UNCHANGED groups
       ELSE /\ groups' = Put(groups, req[t].group, req[t].policy)
            /\ Go(t, "answer") /\ UNCHANGED <<req, policy, asOf>>
    /\ UNCHANGED <<nodes, clock, left>>

\* update_group first reads the group (get_group)...
ReadGroup(t) ==
    /\ At(t, "update")
    /\ IF req[t].group \in DOMAIN groups
       THEN /\ policy' = [policy EXCEPT ![t] = groups[req[t].group]]
            /\ Go(t, "write") /\ UNCHANGED <<req, asOf>>
       ELSE Finish(t)
    /\ UNCHANGED <<groups, nodes, clock, left>>

Patched(old, patch) ==
    [join  |-> IF patch.join = Keep THEN old.join ELSE patch.join,
     allow |-> IF patch.allow = Keep THEN old.allow ELSE patch.allow]

\* ... and in another acquisition writes back all of its policy.
WriteGroup(t) ==
    /\ pc[t] = "write"
    /\ groups' = IF req[t].group \in DOMAIN groups
                 THEN Put(groups, req[t].group, Patched(policy[t], req[t].patch))
                 ELSE groups
    /\ Go(t, "answer")
    /\ UNCHANGED <<nodes, clock, req, policy, asOf, left>>

\* Mutant: no ON DELETE CASCADE (SQLite ignores it unless foreign_keys=ON).
DeleteGroupOnly(t) ==
    /\ At(t, "delete")
    /\ groups' = Drop(groups, {req[t].group})
    /\ Finish(t)
    /\ UNCHANGED <<nodes, clock, left>>

\* ON DELETE CASCADE takes the nodes of the group along.
DeleteGroup(t) ==
    /\ At(t, "delete")
    /\ groups' = Drop(groups, {req[t].group})
    /\ nodes' = Drop(nodes, {n \in DOMAIN nodes : nodes[n].group = req[t].group})
    /\ left' = left \intersect DOMAIN nodes'
    /\ Finish(t)
    /\ UNCHANGED clock

Member(n, g) == n \in DOMAIN nodes /\ nodes[n].group = g

\* Mutant: registering again settles the membership anew.
AdmissionAfresh(n, g) == IF groups[g].join = "manual" THEN "pending" ELSE "approved"

\* Mutant: a node that registers again is taken for an approved one.
AdmissionOnReturn(n, g) ==
    IF ~Member(n, g) /\ groups[g].join = "manual" THEN "pending" ELSE "approved"

\* A node that registers again in its group keeps the decision about it.
Admission(n, g) == CASE Member(n, g) -> nodes[n].membership
                     [] ~Member(n, g) /\ groups[g].join = "manual" -> "pending"
                     [] OTHER -> "approved"

MayRegister(n, g) == groups[g].allow = {} \/ n \in groups[g].allow

RegisterNode(t) ==
    /\ At(t, "register")
    /\ LET n == req[t].node  g == req[t].group
       IN  IF g \in DOMAIN groups /\ MayRegister(n, g)
           THEN /\ nodes' = Put(nodes, n, [group |-> g, status |-> "idle", seen |-> clock,
                                           membership |-> Admission(n, g)])
                /\ left' = left \ {n}
                /\ Go(t, "answer") /\ UNCHANGED <<req, policy, asOf>>
           ELSE Finish(t) /\ UNCHANGED <<nodes, left>>
    /\ UNCHANGED <<groups, clock>>

SetMembership(t) ==
    /\ At(t, "membership")
    /\ LET n == req[t].node
       IN  IF Member(n, req[t].group)
           THEN /\ nodes' = [nodes EXCEPT ![n].membership = req[t].decision]
                /\ Go(t, "answer") /\ UNCHANGED <<req, policy, asOf>>
           ELSE Finish(t) /\ UNCHANGED nodes
    /\ UNCHANGED <<groups, clock, left>>

\* The agents say idle or busy; the API takes any NodeStatus, and the store
\* writes it as it is.
Heartbeat(t) ==
    /\ At(t, "heartbeat")
    /\ LET n == req[t].node
       IN  IF n \in DOMAIN nodes
           THEN /\ nodes' = [nodes EXCEPT ![n].status = req[t].status, ![n].seen = clock]
                /\ left' = IF req[t].status = "offline" THEN left \union {n} ELSE left \ {n}
                /\ Go(t, "answer") /\ UNCHANGED <<req, policy, asOf>>
           ELSE Finish(t) /\ UNCHANGED <<nodes, left>>
    /\ UNCHANGED <<groups, clock>>

\* The idle, approved nodes of the group (idle_only, no other filter).
Listed(g) == {n \in DOMAIN nodes : /\ nodes[n].group = g
                                   /\ nodes[n].membership = "approved"
                                   /\ nodes[n].status = "idle"}

QueryCatalog(t) ==
    /\ At(t, "query")
    /\ Finish(t)
    /\ UNCHANGED <<groups, nodes, clock, left>>

Tick == /\ clock < MaxClock
        /\ clock' = clock + 1
        /\ UNCHANGED <<groups, nodes, req, pc, policy, asOf, left>>

-----------------------------------------------------------------------------
Serve(t) == \/ Expire(t) \/ Answer(t)
            \/ CreateGroup(t) \/ ReadGroup(t) \/ WriteGroup(t) \/ DeleteGroup(t)
            \/ RegisterNode(t) \/ SetMembership(t) \/ Heartbeat(t) \/ QueryCatalog(t)

Next == \/ \E t \in Threads : Serve(t) \/ \E r \in Requests : Arrive(t, r)
        \/ Tick

Spec == Init /\ [][Next]_vars

-----------------------------------------------------------------------------
(* Properties.                                                             *)

TypeOK ==
    /\ DOMAIN groups \subseteq Groups /\ \A g \in DOMAIN groups : groups[g] \in Policy
    /\ DOMAIN nodes \subseteq Nodes   /\ \A n \in DOMAIN nodes : nodes[n] \in NodeRow
    /\ clock \in 0..MaxClock
    /\ req \in [Threads -> Requests \union {NoRequest}]
    /\ pc \in [Threads -> {"idle", "expire", "body", "write", "answer"}]
    /\ policy \in [Threads -> Policy \union {NoRequest}]
    /\ asOf \in [Threads -> 0..MaxClock]
    /\ left \subseteq Nodes

\* No node outlives its group: however registrations, moves and deletions of
\* groups interleave, every row of nodes belongs to a group that exists.
NoOrphans == \A n \in DOMAIN nodes : nodes[n].group \in DOMAIN groups

\* What a catalog query is about to list was heard from within the timeout
\* before the query began, whatever ran between its _expire_offline and its
\* SELECT (query_catalog).
CatalogIsFresh ==
    \A t \in Threads : At(t, "query") =>
        \A n \in Listed(req[t].group) : nodes[n].seen + Timeout >= asOf[t]

\* A node is shown offline only when it has been silent for longer than the
\* timeout, or said so itself in its last heartbeat: any other heartbeat, and a
\* registration, from any thread, revives it.
OfflineIsSilent ==
    \A n \in DOMAIN nodes : nodes[n].status = "offline" => Silent(nodes[n]) \/ n \in left

\* The administrator's word stands: while a node stays in its group, its
\* membership changes only by an approve or deny of that group, never by
\* registering again, heartbeats, expiry or a change of the group's policy.
DecisionStands ==
    [][\A n \in DOMAIN nodes \intersect DOMAIN nodes' :
          nodes'[n].group = nodes[n].group /\ nodes'[n].membership # nodes[n].membership
          => \E t \in Threads : /\ At(t, "membership")
                                /\ req[t].node = n /\ req[t].group = nodes[n].group
                                /\ req[t].decision = nodes'[n].membership]_vars

\* A request to approve this node in this group is about to be carried out.
Approving(n, g) == \E t \in Threads : /\ At(t, "membership")
                                       /\ req[t].node = n /\ req[t].group = g
                                       /\ req[t].decision = "approved"

\* Nobody gets into the catalog of a manual group by registering, for the first
\* time or again: who is newly listed there was a member of the group already, and
\* an approved one, or is being approved.
ManualMeansPending ==
    [][\A g \in DOMAIN groups : groups[g].join = "manual" =>
          \A n \in Listed(g)' \ Listed(g) :
             Member(n, g) /\ (nodes[n].membership = "approved" \/ Approving(n, g))]_vars
=============================================================================
