-------------------------- MODULE PostgresManagers --------------------------
(***************************************************************************)
(* Several stateless Cluster Managers on one Postgres database             *)
(* (src/mycoagent/manager/postgres_store.py; docs/guides/deploy.md, the    *)
(* section on several Managers, behind one proxy).  A request is served by *)
(* a thread of some Manager.  Each Manager process has a lock and one      *)
(* connection; its threads take the lock around each section of a method,  *)
(* as in ManagerStore.tla, but the lock excludes no other Manager.         *)
(*                                                                         *)
(* The database (external).  Transactions are READ COMMITTED, so a SELECT  *)
(* sees what is committed when it runs.  A writing statement is followed   *)
(* at once by its commit and writes in one piece here.  A statement that   *)
(* breaks a primary or a foreign key raises and aborts the transaction of  *)
(* its connection, and on an aborted transaction every statement raises    *)
(* until a rollback.  (Row locks are left out, and with them the deadlocks *)
(* of two statements that write several rows, which abort one of them.)    *)
(*                                                                         *)
(* Time and allow_register are left to ManagerStore.tla: an                *)
(* _expire_offline marks any nodes, and whoever registers may.             *)
(***************************************************************************)
EXTENDS Naturals, FiniteSets

CONSTANTS Groups, Nodes,    \* names and ids that requests mention
          Managers,         \* the Manager processes
          Threads,          \* requests served at the same time
          Nothing           \* no request, no row, nobody

ASSUME ManagersAssumption == Nothing \notin Threads

VARIABLES
    groups,     \* table groups: name -> join_mode
    nodes,      \* table nodes: id -> row
    aborted,    \* the Managers whose connection is in an aborted transaction
    lock,       \* per Manager: the thread inside a section of several statements
    req,        \* per thread: the request it serves
    home,       \* per thread: the Manager that serves it
    pc,         \* per thread: the statement it comes to next
    join,       \* per thread: the join_mode it has read
    row,        \* per thread: the row of nodes it has read
    overtaken   \* history: another Manager wrote in the middle of its section

vars == <<groups, nodes, aborted, lock, req, home, pc, join, row, overtaken>>
locals == <<join, row>>

JoinModes   == {"auto", "manual"}
Memberships == {"approved", "pending", "denied"}
Statuses    == {"idle", "busy", "offline"}
NodeRow == [group : Groups, status : Statuses, membership : Memberships]

Requests ==
    [op : {"create"}, group : Groups, join : JoinModes]
    \union [op : {"update"}, group : Groups, join : JoinModes \union {Nothing}]
    \union [op : {"delete", "read"}, group : Groups]
    \union [op : {"register"}, group : Groups, node : Nodes]
    \union [op : {"membership"}, group : Groups, node : Nodes,
            decision : {"approved", "denied"}]
    \union [op : {"heartbeat"}, node : Nodes, status : Statuses]

Init == /\ groups = <<>> /\ nodes = <<>>
        /\ aborted = {}
        /\ lock = [m \in Managers |-> Nothing]
        /\ req = [t \in Threads |-> Nothing]
        /\ home = [t \in Threads |-> Nothing]
        /\ pc = [t \in Threads |-> "idle"]
        /\ join = [t \in Threads |-> Nothing]
        /\ row = [t \in Threads |-> Nothing]
        /\ overtaken = [t \in Threads |-> FALSE]

-----------------------------------------------------------------------------
Put(table, key, value) == [k \in DOMAIN table \union {key} |->
                              IF k = key THEN value ELSE table[k]]
Drop(table, keys) == [k \in DOMAIN table \ keys |-> table[k]]

\* Thread t comes to a statement: nobody else of its Manager is in a section.
At(t, stage) == /\ pc[t] = stage
                /\ lock[home[t]] \in {t, Nothing}
                /\ home[t] \notin aborted

Go(t, stage) == pc' = [pc EXCEPT ![t] = stage]
Acquire(t) == lock' = [lock EXCEPT ![home[t]] = t]
Release(t) == lock' = [lock EXCEPT ![home[t]] = Nothing]

\* The request is answered, by its result or by an HTTP error.
Finish(t) == /\ Go(t, "idle")
             /\ Release(t)
             /\ req' = [req EXCEPT ![t] = Nothing]
             /\ home' = [home EXCEPT ![t] = Nothing]
             /\ join' = [join EXCEPT ![t] = Nothing]
             /\ row' = [row EXCEPT ![t] = Nothing]

\* A writing section is over; its method answers with get_node or get_group.
Committed(t) == Go(t, "answer") /\ Release(t) /\ UNCHANGED <<req, home, locals>>

Arrive(t, m, r) ==
    /\ pc[t] = "idle"
    /\ req' = [req EXCEPT ![t] = r]
    /\ home' = [home EXCEPT ![t] = m]
    /\ Go(t, IF r.op \in {"create", "delete"} THEN "write" ELSE "expire")
    /\ UNCHANGED <<groups, nodes, aborted, lock, locals>>

\* The connection is in an aborted transaction, which nobody rolls back: the
\* statement raises, and the request ends in a 500.
Raises(t) ==
    /\ pc[t] # "idle" /\ home[t] \in aborted
    /\ lock[home[t]] \in {t, Nothing}
    /\ Finish(t)
    /\ UNCHANGED <<groups, nodes, aborted>>

Marked(silent) == [n \in DOMAIN nodes |->
                      IF n \in silent THEN [nodes[n] EXCEPT !.status = "offline"] ELSE nodes[n]]

Expire(t, silent) ==
    /\ At(t, "expire")
    /\ nodes' = Marked(silent)
    /\ Go(t, IF req[t].op \in {"membership", "heartbeat"} THEN "node" ELSE "group")
    /\ UNCHANGED <<groups, aborted, lock, req, home, locals>>

Answer(t, silent) ==
    /\ At(t, "answer")
    /\ nodes' = Marked(silent)
    /\ Finish(t)
    /\ UNCHANGED <<groups, aborted>>

-----------------------------------------------------------------------------
(* What a section reads before it writes.                                  *)

\* SELECT ... FROM groups.  Only register_node stays in the section: for
\* update_group the read is a section of its own, and a GET ends with it.
SelectGroup(t) ==
    /\ At(t, "group")
    /\ IF req[t].group \notin DOMAIN groups \/ req[t].op = "read"
       THEN Finish(t)
       ELSE /\ join' = [join EXCEPT ![t] = groups[req[t].group]]
            /\ IF req[t].op = "register" THEN Acquire(t) /\ Go(t, "node")
                                         ELSE UNCHANGED lock /\ Go(t, "write")
            /\ UNCHANGED <<req, home, row>>
    /\ UNCHANGED <<groups, nodes, aborted>>

\* Mutant: the lock is not held from the SELECT to the write.
SelectNodeUnlocked(t) ==
    /\ At(t, "node")
    /\ LET found == IF req[t].node \in DOMAIN nodes THEN nodes[req[t].node] ELSE Nothing
       IN  IF \/ found = Nothing /\ req[t].op # "register"
              \/ req[t].op = "membership" /\ found.group # req[t].group
           THEN Finish(t)
           ELSE /\ row' = [row EXCEPT ![t] = found]
                /\ Release(t) /\ Go(t, "write")
                /\ UNCHANGED <<req, home, join>>
    /\ UNCHANGED <<groups, nodes, aborted>>

\* SELECT * FROM nodes: a node that is not there, or not in the group whose
\* administrator decides about it, is an error (but for register_node).
SelectNode(t) ==
    /\ At(t, "node")
    /\ LET found == IF req[t].node \in DOMAIN nodes THEN nodes[req[t].node] ELSE Nothing
       IN  IF \/ found = Nothing /\ req[t].op # "register"
              \/ req[t].op = "membership" /\ found.group # req[t].group
           THEN Finish(t)
           ELSE /\ row' = [row EXCEPT ![t] = found]
                /\ Acquire(t) /\ Go(t, "write")
                /\ UNCHANGED <<req, home, join>>
    /\ UNCHANGED <<groups, nodes, aborted>>

-----------------------------------------------------------------------------
(* The writing statements, each with its commit.                           *)

Writes(t, op) == At(t, "write") /\ req[t].op = op

\* The database refuses the statement, and the exception leaves the method.
Abort(t) == aborted' = aborted \union {home[t]} /\ Finish(t) /\ UNCHANGED nodes

\* The UniqueViolation of create_group is caught, and rolled back.
CreateGroup(t) ==
    /\ Writes(t, "create")
    /\ IF req[t].group \in DOMAIN groups
       THEN Finish(t) /\ UNCHANGED groups
       ELSE groups' = Put(groups, req[t].group, req[t].join) /\ Committed(t)
    /\ UNCHANGED <<nodes, aborted>>

\* Mutant: a PATCH that gives no join_mode clears it.
UpdateGroupBlank(t) ==
    /\ Writes(t, "update")
    /\ LET g == req[t].group
       IN  groups' = IF g \in DOMAIN groups THEN Put(groups, g, req[t].join) ELSE groups
    /\ Committed(t)
    /\ UNCHANGED <<nodes, aborted>>

\* All the policy read before is written back, but for what the PATCH gives.
UpdateGroup(t) ==
    /\ Writes(t, "update")
    /\ LET g == req[t].group
           mode == IF req[t].join = Nothing THEN join[t] ELSE req[t].join
       IN  groups' = IF g \in DOMAIN groups THEN Put(groups, g, mode) ELSE groups
    /\ Committed(t)
    /\ UNCHANGED <<nodes, aborted>>

\* Mutant: the FOREIGN KEY does not cascade, nor refuse.
DeleteGroupOnly(t) ==
    /\ Writes(t, "delete")
    /\ groups' = Drop(groups, {req[t].group})
    /\ Finish(t)
    /\ UNCHANGED <<nodes, aborted>>

\* ON DELETE CASCADE.
DeleteGroup(t) ==
    /\ Writes(t, "delete")
    /\ groups' = Drop(groups, {req[t].group})
    /\ nodes' = Drop(nodes, {n \in DOMAIN nodes : nodes[n].group = req[t].group})
    /\ Finish(t)
    /\ UNCHANGED aborted

\* A node that stays in its group keeps what was decided about it.
Admission(t) == IF row[t] # Nothing /\ row[t].group = req[t].group THEN row[t].membership
                ELSE IF join[t] = "manual" THEN "pending" ELSE "approved"

\* register_node: an INSERT if the SELECT found no row, else an UPDATE (of no
\* row, when it is gone by now).
StoreNode(t) ==
    /\ Writes(t, "register")
    /\ LET n == req[t].node  g == req[t].group
           present == n \in DOMAIN nodes
           inserts == row[t] = Nothing
           refused == \/ inserts /\ (present \/ g \notin DOMAIN groups)
                      \/ ~inserts /\ present /\ g \notin DOMAIN groups
           new == [group |-> g, status |-> "idle", membership |-> Admission(t)]
       IN  \/ refused /\ Abort(t)
           \/ /\ ~refused
              /\ nodes' = IF inserts \/ present THEN Put(nodes, n, new) ELSE nodes
              /\ Committed(t)
              /\ UNCHANGED aborted
    /\ UNCHANGED groups

\* UPDATE nodes ... WHERE id: of the row as it is by now, if it is there.
Amend(t, row2) ==
    /\ nodes' = IF req[t].node \in DOMAIN nodes THEN Put(nodes, req[t].node, row2) ELSE nodes
    /\ Committed(t)
    /\ UNCHANGED <<groups, aborted>>

SetMembership(t) ==
    /\ Writes(t, "membership")
    /\ Amend(t, [nodes[req[t].node] EXCEPT !.membership = req[t].decision])

Heartbeat(t) ==
    /\ Writes(t, "heartbeat")
    /\ Amend(t, [nodes[req[t].node] EXCEPT !.status = req[t].status])

-----------------------------------------------------------------------------
Serve(t) ==
    \/ \E silent \in SUBSET DOMAIN nodes : Expire(t, silent) \/ Answer(t, silent)
    \/ SelectGroup(t) \/ SelectNode(t)
    \/ CreateGroup(t) \/ UpdateGroup(t) \/ DeleteGroup(t)
    \/ StoreNode(t) \/ SetMembership(t) \/ Heartbeat(t)
    \/ Raises(t)

\* Thread t uses what it has read before in the same section of its method.
InSection(t) == \/ pc[t] = "node" /\ req[t].op = "register"
                \/ pc[t] = "write" /\ req[t].op \in {"register", "membership", "heartbeat"}

\* History: which sections a write of thread t runs into.
Overtake(t) ==
    LET writes == <<groups, nodes>>' # <<groups, nodes>>
    IN  overtaken' = [u \in Threads |-> /\ InSection(u)'
                                        /\ \/ overtaken[u]
                                           \/ InSection(u) /\ writes /\ home[u] # home[t]]

Next == \E t \in Threads :
            /\ Serve(t) \/ \E m \in Managers, r \in Requests : Arrive(t, m, r)
            /\ Overtake(t)

Spec == Init /\ [][Next]_vars

-----------------------------------------------------------------------------
(* Properties.                                                             *)

TypeOK ==
    /\ DOMAIN groups \subseteq Groups /\ \A g \in DOMAIN groups : groups[g] \in JoinModes
    /\ DOMAIN nodes \subseteq Nodes   /\ \A n \in DOMAIN nodes : nodes[n] \in NodeRow
    /\ aborted \subseteq Managers
    /\ lock \in [Managers -> Threads \union {Nothing}]
    /\ req \in [Threads -> Requests \union {Nothing}]
    /\ home \in [Threads -> Managers \union {Nothing}]
    /\ pc \in [Threads -> {"idle", "expire", "group", "node", "write", "answer"}]
    /\ join \in [Threads -> JoinModes \union {Nothing}]
    /\ row \in [Threads -> NodeRow \union {Nothing}]
    /\ overtaken \in [Threads -> BOOLEAN]

\* No node outlives its group, whichever Managers registered the one and
\* deleted the other (the foreign key of nodes, and the order of the statements).
NoOrphans == \A n \in DOMAIN nodes : nodes[n].group \in DOMAIN groups

\* What register_node, set_membership and heartbeat have read still holds when
\* they write, unless another Manager wrote in between: the lock of a Manager
\* protects its own sections from each other.
ReadsStayTrue ==
    \A t \in Threads : InSection(t) /\ ~overtaken[t] =>
        /\ req[t].op = "register" => /\ req[t].group \in DOMAIN groups
                                     /\ join[t] = groups[req[t].group]
        /\ pc[t] = "write" => IF req[t].node \in DOMAIN nodes THEN row[t] = nodes[req[t].node]
                                                               ELSE row[t] = Nothing

\* Every Manager can serve: none is left with a connection on which all
\* statements raise ("several stateless Managers + Postgres are usable",
\* docs/concepts/limitations.md:28).
ManagersServe == aborted = {}
=============================================================================
