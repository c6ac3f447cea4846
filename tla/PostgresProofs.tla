--------------------------- MODULE PostgresProofs ---------------------------
(***************************************************************************)
(* Proofs about PostgresManagers for any number of Managers and threads on *)
(* one database.                                                           *)
(***************************************************************************)
EXTENDS PostgresManagers, TLAPS

-----------------------------------------------------------------------------
(* The inductive invariant.                                                *)

\* A thread with a request is where that request leads, and update_group and
\* register_node have read a join_mode before they write.
Progress ==
    \A t \in Threads :
        /\ pc[t] # "idle" => req[t] \in Requests /\ home[t] \in Managers
        /\ pc[t] = "expire" => req[t].op \notin {"create", "delete"}
        /\ pc[t] = "group" => req[t].op \in {"update", "read", "register"}
        /\ pc[t] = "node" => req[t].op \in {"register", "membership", "heartbeat"}
        /\ pc[t] \in {"node", "write"} /\ req[t].op = "register" => join[t] \in JoinModes
        /\ pc[t] = "write" /\ req[t].op = "update" => join[t] \in JoinModes

Inv == TypeOK /\ Progress /\ NoOrphans

-----------------------------------------------------------------------------
(* What a request mentions.                                                *)

LEMMA RequestFields ==
    ASSUME NEW r \in Requests
    PROVE  /\ r.op \in {"create", "update", "delete", "read", "register", "membership", "heartbeat"}
           /\ r.op \notin {"membership", "heartbeat"} => r.group \in Groups
           /\ r.op \in {"register", "membership", "heartbeat"} => r.node \in Nodes
           /\ r.op = "create" => r.join \in JoinModes
           /\ r.op = "update" => r.join \in JoinModes \union {Nothing}
           /\ r.op = "membership" => r.decision \in {"approved", "denied"}
           /\ r.op = "heartbeat" => r.status \in Statuses
  BY DEF Requests

-----------------------------------------------------------------------------
(* What the steps have in common.                                          *)

\* A thread that is done leaves no trace in its own variables.
LEMMA FinishKeeps ==
    ASSUME Inv, NEW t \in Threads, Finish(t)
    PROVE  /\ lock' \in [Managers -> Threads \union {Nothing}]
           /\ req' \in [Threads -> Requests \union {Nothing}]
           /\ home' \in [Threads -> Managers \union {Nothing}]
           /\ pc' \in [Threads -> {"idle", "expire", "group", "node", "write", "answer"}]
           /\ join' \in [Threads -> JoinModes \union {Nothing}]
           /\ row' \in [Threads -> NodeRow \union {Nothing}]
           /\ Progress'
  <1> USE ManagersAssumption DEF Inv, TypeOK, Finish, Go, Release
  <1>1. /\ lock' \in [Managers -> Threads \union {Nothing}]
        /\ req' \in [Threads -> Requests \union {Nothing}]
        /\ home' \in [Threads -> Managers \union {Nothing}]
        /\ pc' \in [Threads -> {"idle", "expire", "group", "node", "write", "answer"}]
        /\ join' \in [Threads -> JoinModes \union {Nothing}]
        /\ row' \in [Threads -> NodeRow \union {Nothing}]
    OBVIOUS
  <1>2. ASSUME NEW u \in Threads, u # t
        PROVE  /\ pc'[u] = pc[u] /\ req'[u] = req[u] /\ home'[u] = home[u]
               /\ join'[u] = join[u]
    BY <1>2
  <1>3. pc'[t] = "idle"
    OBVIOUS
  <1>4. Progress'
    BY <1>2, <1>3 DEF Progress
  <1> QED BY <1>1, <1>4

\* So does one that has committed, up to its answer.
LEMMA CommittedKeeps ==
    ASSUME Inv, NEW t \in Threads, pc[t] = "write", Committed(t)
    PROVE  /\ lock' \in [Managers -> Threads \union {Nothing}]
           /\ req' \in [Threads -> Requests \union {Nothing}]
           /\ home' \in [Threads -> Managers \union {Nothing}]
           /\ pc' \in [Threads -> {"idle", "expire", "group", "node", "write", "answer"}]
           /\ join' \in [Threads -> JoinModes \union {Nothing}]
           /\ row' \in [Threads -> NodeRow \union {Nothing}]
           /\ Progress'
  <1> USE ManagersAssumption DEF Inv, TypeOK, Committed, Go, Release, locals
  <1>1. /\ lock' \in [Managers -> Threads \union {Nothing}]
        /\ pc' \in [Threads -> {"idle", "expire", "group", "node", "write", "answer"}]
        /\ UNCHANGED <<req, home, join, row>>
    OBVIOUS
  <1>2. \A u \in Threads : IF u = t THEN pc'[u] = "answer" ELSE pc'[u] = pc[u]
    OBVIOUS
  <1>3. Progress'
    BY <1>1, <1>2 DEF Progress
  <1> QED BY <1>1, <1>3

\* _expire_offline moves no node to another group.
LEMMA MarkedKeeps ==
    ASSUME Inv, NEW silent, nodes' = Marked(silent), UNCHANGED groups
    PROVE  /\ DOMAIN nodes' \subseteq Nodes /\ \A n \in DOMAIN nodes' : nodes'[n] \in NodeRow
           /\ NoOrphans'
  BY DEF Inv, TypeOK, NoOrphans, Marked, NodeRow, Statuses

LEMMA OvertakeTyped ==
    ASSUME NEW t \in Threads, Overtake(t)
    PROVE  overtaken' \in [Threads -> BOOLEAN]
  BY DEF Overtake

-----------------------------------------------------------------------------
LEMMA InitInv == ASSUME Init PROVE Inv
  <1> USE DEF Init
  <1>1. DOMAIN groups = {} /\ DOMAIN nodes = {}
    OBVIOUS
  <1>2. TypeOK
    BY <1>1, ManagersAssumption DEF TypeOK
  <1>3. Progress /\ NoOrphans
    BY <1>1 DEF Progress, NoOrphans
  <1> QED BY <1>2, <1>3 DEF Inv

LEMMA ArriveInv ==
    ASSUME Inv, NEW t \in Threads, Overtake(t),
           NEW m \in Managers, NEW r \in Requests, Arrive(t, m, r)
    PROVE  Inv'
  <1> USE DEF Inv, Arrive, Go, locals
  <1>1. TypeOK'
    BY OvertakeTyped DEF TypeOK
  <1>2. \A u \in Threads \ {t} :
            pc'[u] = pc[u] /\ req'[u] = req[u] /\ home'[u] = home[u]
    BY DEF TypeOK
  <1>3. /\ req'[t] = r /\ home'[t] = m
        /\ pc'[t] = IF r.op \in {"create", "delete"} THEN "write" ELSE "expire"
    BY DEF TypeOK
  <1>4. Progress'
    BY <1>2, <1>3 DEF Progress
  <1>5. NoOrphans'
    BY DEF NoOrphans
  <1> QED BY <1>1, <1>4, <1>5

LEMMA RaisesInv ==
    ASSUME Inv, NEW t \in Threads, Overtake(t), Raises(t)
    PROVE  Inv'
  <1>1. NoOrphans'
    BY DEF Inv, NoOrphans, Raises
  <1> QED BY <1>1, FinishKeeps, OvertakeTyped DEF Inv, TypeOK, Raises

LEMMA ExpireInv ==
    ASSUME Inv, NEW t \in Threads, Overtake(t), NEW silent, Expire(t, silent)
    PROVE  Inv'
  <1> USE DEF Inv, Expire, At, Go, locals
  <1>1. req[t] \in Requests /\ req[t].op \notin {"create", "delete"}
    BY DEF Progress
  <1>2. req[t].op \in {"update", "read", "register", "membership", "heartbeat"}
    BY <1>1, RequestFields
  <1>3. TypeOK'
    BY MarkedKeeps, OvertakeTyped DEF TypeOK
  <1>4. /\ \A u \in Threads \ {t} : pc'[u] = pc[u]
        /\ pc'[t] = IF req[t].op \in {"membership", "heartbeat"} THEN "node" ELSE "group"
    BY DEF TypeOK
  <1>5. Progress'
    BY <1>1, <1>2, <1>4 DEF Progress
  <1> QED BY <1>3, <1>5, MarkedKeeps

LEMMA AnswerInv ==
    ASSUME Inv, NEW t \in Threads, Overtake(t), NEW silent, Answer(t, silent)
    PROVE  Inv'
  BY FinishKeeps, OvertakeTyped, MarkedKeeps DEF Inv, TypeOK, Answer

-----------------------------------------------------------------------------
(* The reads.                                                              *)

LEMMA SelectGroupInv ==
    ASSUME Inv, NEW t \in Threads, Overtake(t), SelectGroup(t)
    PROVE  Inv'
  <1> USE ManagersAssumption DEF SelectGroup, At
  <1>1. NoOrphans'
    BY DEF Inv, NoOrphans
  <1>2. CASE Finish(t)
    BY <1>1, <1>2, FinishKeeps, OvertakeTyped DEF Inv, TypeOK
  <1>3. CASE ~Finish(t)
    <2> USE DEF Inv, Go, Acquire
    <2>1. /\ req[t].group \in DOMAIN groups /\ req[t].op # "read"
          /\ join' = [join EXCEPT ![t] = groups[req[t].group]]
          /\ UNCHANGED <<req, home, row>>
          /\ IF req[t].op = "register" THEN Acquire(t) /\ Go(t, "node")
                                       ELSE UNCHANGED lock /\ Go(t, "write")
      BY <1>3
    <2>2. groups[req[t].group] \in JoinModes
      BY <2>1 DEF TypeOK
    <2>3. TypeOK'
      BY <2>1, <2>2, OvertakeTyped DEF TypeOK
    <2>4. /\ join'[t] \in JoinModes
          /\ pc'[t] = IF req[t].op = "register" THEN "node" ELSE "write"
          /\ \A u \in Threads \ {t} : pc'[u] = pc[u] /\ join'[u] = join[u]
      BY <2>1, <2>2 DEF TypeOK
    <2>5. Progress'
      BY <2>1, <2>4 DEF Progress
    <2> QED BY <1>1, <2>3, <2>5
  <1> QED BY <1>2, <1>3

LEMMA SelectNodeInv ==
    ASSUME Inv, NEW t \in Threads, Overtake(t), SelectNode(t)
    PROVE  Inv'
  <1> USE ManagersAssumption DEF SelectNode, At
  <1> DEFINE found == IF req[t].node \in DOMAIN nodes THEN nodes[req[t].node] ELSE Nothing
  <1>1. NoOrphans'
    BY DEF Inv, NoOrphans
  <1>2. CASE Finish(t)
    BY <1>1, <1>2, FinishKeeps, OvertakeTyped DEF Inv, TypeOK
  <1>3. CASE ~Finish(t)
    <2> USE DEF Inv, Go, Acquire
    <2>1. /\ row' = [row EXCEPT ![t] = found]
          /\ lock' = [lock EXCEPT ![home[t]] = t]
          /\ pc' = [pc EXCEPT ![t] = "write"]
          /\ UNCHANGED <<req, home, join>>
      BY <1>3
    <2>2. found \in NodeRow \union {Nothing}
      BY DEF TypeOK
    <2>3. TypeOK'
      BY <2>1, <2>2, OvertakeTyped DEF TypeOK
    <2>4. pc'[t] = "write" /\ \A u \in Threads \ {t} : pc'[u] = pc[u]
      BY <2>1 DEF TypeOK
    <2>5. Progress'
      BY <2>1, <2>4 DEF Progress
    <2> QED BY <1>1, <2>3, <2>5
  <1> QED BY <1>2, <1>3

-----------------------------------------------------------------------------
(* The writes.                                                             *)

LEMMA CreateGroupInv ==
    ASSUME Inv, NEW t \in Threads, Overtake(t), CreateGroup(t)
    PROVE  Inv'
  <1> USE DEF CreateGroup, Writes, At
  <1> DEFINE g == req[t].group
  <1>1. g \in Groups /\ req[t].join \in JoinModes
    BY RequestFields DEF Inv, Progress
  <1>2. CASE g \in DOMAIN groups
    <2>1. Finish(t) /\ UNCHANGED <<groups, nodes, aborted>>
      BY <1>2
    <2> QED BY <2>1, FinishKeeps, OvertakeTyped DEF Inv, TypeOK, NoOrphans
  <1>3. CASE g \notin DOMAIN groups
    <2>1. groups' = Put(groups, g, req[t].join) /\ Committed(t) /\ UNCHANGED <<nodes, aborted>>
      BY <1>3
    <2>2. /\ DOMAIN groups' = DOMAIN groups \union {g}
          /\ \A k \in DOMAIN groups' : groups'[k] = IF k = g THEN req[t].join ELSE groups[k]
      BY <2>1 DEF Put
    <2>3. TypeOK'
      BY <1>1, <2>1, <2>2, CommittedKeeps, OvertakeTyped DEF Inv, TypeOK
    <2>4. NoOrphans'
      BY <2>1, <2>2 DEF Inv, NoOrphans
    <2> QED BY <2>1, <2>3, <2>4, CommittedKeeps, OvertakeTyped DEF Inv
  <1> QED BY <1>2, <1>3

LEMMA UpdateGroupInv ==
    ASSUME Inv, NEW t \in Threads, Overtake(t), UpdateGroup(t)
    PROVE  Inv'
  <1> USE DEF UpdateGroup, Writes, At
  <1> DEFINE g == req[t].group
             mode == IF req[t].join = Nothing THEN join[t] ELSE req[t].join
  <1>1. mode \in JoinModes
    BY RequestFields DEF Inv, Progress
  <1>2. /\ DOMAIN groups' = DOMAIN groups
        /\ \A k \in DOMAIN groups' : groups'[k] = IF k = g THEN mode ELSE groups[k]
    BY DEF Put
  <1>3. TypeOK'
    BY <1>1, <1>2, CommittedKeeps, OvertakeTyped DEF Inv, TypeOK
  <1>4. NoOrphans'
    BY <1>2 DEF Inv, NoOrphans
  <1> QED BY <1>3, <1>4, CommittedKeeps, OvertakeTyped DEF Inv

\* The cascade takes the nodes of the group away with it.
LEMMA DeleteGroupInv ==
    ASSUME Inv, NEW t \in Threads, Overtake(t), DeleteGroup(t)
    PROVE  Inv'
  <1> USE DEF DeleteGroup, Writes, At
  <1> DEFINE g == req[t].group
  <1>1. /\ DOMAIN groups' = DOMAIN groups \ {g}
        /\ \A k \in DOMAIN groups' : groups'[k] = groups[k]
    BY DEF Drop
  <1>2. /\ DOMAIN nodes' = {n \in DOMAIN nodes : nodes[n].group # g}
        /\ \A n \in DOMAIN nodes' : nodes'[n] = nodes[n]
    BY DEF Drop
  <1>3. TypeOK'
    BY <1>1, <1>2, FinishKeeps, OvertakeTyped DEF Inv, TypeOK
  <1>4. NoOrphans'
    BY <1>1, <1>2 DEF Inv, NoOrphans
  <1> QED BY <1>3, <1>4, FinishKeeps, OvertakeTyped DEF Inv

\* The foreign key lets a node in only if its group is there.
LEMMA StoreNodeInv ==
    ASSUME Inv, NEW t \in Threads, Overtake(t), StoreNode(t)
    PROVE  Inv'
  <1> USE DEF StoreNode, Writes, At
  <1> DEFINE n == req[t].node
             g == req[t].group
             new == [group |-> g, status |-> "idle", membership |-> Admission(t)]
  <1>1. n \in Nodes /\ g \in Groups /\ join[t] \in JoinModes
    BY RequestFields DEF Inv, Progress
  <1>2. Admission(t) \in Memberships
    BY <1>1 DEF Admission, Inv, TypeOK, NodeRow, Memberships
  <1>3. new \in NodeRow
    BY <1>1, <1>2 DEF NodeRow, Statuses
  <1>4. CASE Abort(t)
    <2>1. aborted' = aborted \union {home[t]} /\ Finish(t) /\ UNCHANGED <<groups, nodes>>
      BY <1>4 DEF Abort
    <2>2. home[t] \in Managers
      BY DEF Inv, Progress
    <2> QED BY <2>1, <2>2, FinishKeeps, OvertakeTyped DEF Inv, TypeOK, NoOrphans
  <1>5. CASE UNCHANGED <<groups, nodes, aborted>> /\ Committed(t)
    BY <1>5, CommittedKeeps, OvertakeTyped DEF Inv, TypeOK, NoOrphans
  <1>6. CASE /\ g \in DOMAIN groups /\ nodes' = Put(nodes, n, new)
             /\ Committed(t) /\ UNCHANGED <<groups, aborted>>
    <2>1. /\ DOMAIN nodes' = DOMAIN nodes \union {n}
          /\ \A k \in DOMAIN nodes' : nodes'[k] = IF k = n THEN new ELSE nodes[k]
      BY <1>6 DEF Put
    <2>2. TypeOK'
      BY <1>1, <1>3, <1>6, <2>1, CommittedKeeps, OvertakeTyped DEF Inv, TypeOK
    <2>3. NoOrphans'
      BY <1>6, <2>1 DEF Inv, NoOrphans
    <2> QED BY <1>6, <2>2, <2>3, CommittedKeeps, OvertakeTyped DEF Inv
  <1> QED BY <1>4, <1>5, <1>6

\* An UPDATE of a row that is there leaves it in its group.
LEMMA AmendInv ==
    ASSUME Inv, NEW t \in Threads, Overtake(t), pc[t] = "write",
           NEW row2, Amend(t, row2),
           req[t].node \in DOMAIN nodes =>
               row2 \in NodeRow /\ row2.group = nodes[req[t].node].group
    PROVE  Inv'
  <1> USE DEF Amend
  <1>1. /\ DOMAIN nodes' = DOMAIN nodes
        /\ \A k \in DOMAIN nodes' :
              /\ nodes[k] \in NodeRow => nodes'[k] \in NodeRow
              /\ nodes'[k].group = nodes[k].group
    BY DEF Put
  <1>2. TypeOK'
    BY <1>1, CommittedKeeps, OvertakeTyped DEF Inv, TypeOK
  <1>3. NoOrphans'
    BY <1>1 DEF Inv, NoOrphans
  <1> QED BY <1>2, <1>3, CommittedKeeps, OvertakeTyped DEF Inv

LEMMA SetMembershipInv ==
    ASSUME Inv, NEW t \in Threads, Overtake(t), SetMembership(t)
    PROVE  Inv'
  <1> USE DEF SetMembership, Writes, At
  <1> DEFINE new == [nodes[req[t].node] EXCEPT !.membership = req[t].decision]
  <1>1. req[t].decision \in Memberships
    BY RequestFields DEF Inv, Progress, Memberships
  <1>2. req[t].node \in DOMAIN nodes => new \in NodeRow /\ new.group = nodes[req[t].node].group
    BY <1>1 DEF Inv, TypeOK, NodeRow
  <1> QED BY <1>2, AmendInv

LEMMA HeartbeatInv ==
    ASSUME Inv, NEW t \in Threads, Overtake(t), Heartbeat(t)
    PROVE  Inv'
  <1> USE DEF Heartbeat, Writes, At
  <1> DEFINE new == [nodes[req[t].node] EXCEPT !.status = req[t].status]
  <1>1. req[t].status \in Statuses
    BY RequestFields DEF Inv, Progress
  <1>2. req[t].node \in DOMAIN nodes => new \in NodeRow /\ new.group = nodes[req[t].node].group
    BY <1>1 DEF Inv, TypeOK, NodeRow
  <1> QED BY <1>2, AmendInv

-----------------------------------------------------------------------------
LEMMA NextInv == Inv /\ [Next]_vars => Inv'
  <1> SUFFICES ASSUME Inv, [Next]_vars PROVE Inv'
    OBVIOUS
  <1>1. ASSUME NEW t \in Threads, Overtake(t), Serve(t)
        PROVE  Inv'
    BY <1>1, ExpireInv, AnswerInv, SelectGroupInv, SelectNodeInv, CreateGroupInv,
       UpdateGroupInv, DeleteGroupInv, StoreNodeInv, SetMembershipInv, HeartbeatInv,
       RaisesInv DEF Serve
  <1>2. ASSUME NEW t \in Threads, Overtake(t), NEW m \in Managers, NEW r \in Requests,
               Arrive(t, m, r)
        PROVE  Inv'
    BY <1>2, ArriveInv
  <1>3. CASE UNCHANGED vars
    BY <1>3 DEF vars, Inv, TypeOK, Progress, NoOrphans
  <1> QED BY <1>1, <1>2, <1>3 DEF Next

-----------------------------------------------------------------------------
(* The sections of one Manager exclude each other.                         *)

\* A thread in the middle of a section has the lock of its Manager, and what it
\* has read holds, unless another Manager overtook it.
Guarded == /\ \A t \in Threads : InSection(t) => lock[home[t]] = t
           /\ ReadsStayTrue

\* What a step of thread t does to the other threads, and to the locks.
LEMMA OthersKeep ==
    ASSUME Inv, NEW t \in Threads,
           Serve(t) \/ \E m \in Managers, r \in Requests : Arrive(t, m, r),
           NEW u \in Threads, u # t
    PROVE  /\ pc'[u] = pc[u] /\ req'[u] = req[u] /\ home'[u] = home[u]
           /\ join'[u] = join[u] /\ row'[u] = row[u]
           /\ \A m \in Managers : m # home[t] => lock'[m] = lock[m]
  <1> USE DEF Inv, TypeOK, Finish, Committed, Go, Acquire, Release, locals, Progress
  <1>1. CASE \E m \in Managers, r \in Requests : Arrive(t, m, r)
    BY <1>1 DEF Arrive
  <1>2. CASE \E silent \in SUBSET DOMAIN nodes : Expire(t, silent) \/ Answer(t, silent)
    BY <1>2 DEF Expire, Answer, At
  <1>3. CASE SelectGroup(t)
    BY <1>3 DEF SelectGroup, At
  <1>4. CASE SelectNode(t)
    BY <1>4 DEF SelectNode, At
  <1>5. CASE CreateGroup(t) \/ UpdateGroup(t) \/ DeleteGroup(t)
    BY <1>5 DEF CreateGroup, UpdateGroup, DeleteGroup
  <1>6. CASE StoreNode(t)
    BY <1>6 DEF StoreNode, Abort
  <1>7. CASE SetMembership(t) \/ Heartbeat(t)
    BY <1>7 DEF SetMembership, Heartbeat, Amend
  <1>8. CASE Raises(t)
    BY <1>8 DEF Raises
  <1> QED BY <1>1, <1>2, <1>3, <1>4, <1>5, <1>6, <1>7, <1>8 DEF Serve

\* No thread writes, or takes the lock, while another of its Manager holds it.
LEMMA OthersWait ==
    ASSUME Inv, NEW t \in Threads, Serve(t)
    PROVE  lock[home[t]] \in {t, Nothing}
  BY DEF Serve, Expire, Answer, SelectGroup, SelectNode, CreateGroup, UpdateGroup,
         DeleteGroup, StoreNode, SetMembership, Heartbeat, Writes, Raises, At

\* A thread comes into a section, or further in it, by a SELECT that it ends with
\* the lock and with what is in the tables.
LEMMA EntersGuarded ==
    ASSUME Inv, Guarded, NEW t \in Threads, Overtake(t),
           Serve(t) \/ \E m \in Managers, r \in Requests : Arrive(t, m, r),
           InSection(t)'
    PROVE  /\ lock'[home'[t]] = t
           /\ ~overtaken'[t] =>
                 /\ req'[t].op = "register" => /\ req'[t].group \in DOMAIN groups'
                                               /\ join'[t] = groups'[req'[t].group]
                 /\ pc'[t] = "write" => IF req'[t].node \in DOMAIN nodes'
                                        THEN row'[t] = nodes'[req'[t].node]
                                        ELSE row'[t] = Nothing
  <1> USE DEF Inv, TypeOK, InSection
  <1>1. home[t] \in Managers \/ pc[t] = "idle"
    BY DEF Progress
  <1>2. CASE \E m \in Managers, r \in Requests : Arrive(t, m, r)
    BY <1>2 DEF Arrive, Go
  <1>3. CASE \E silent \in SUBSET DOMAIN nodes : Expire(t, silent) \/ Answer(t, silent)
    BY <1>3 DEF Expire, Answer, Finish, Go
  <1>4. CASE SelectGroup(t)
    <2>1. ~Finish(t)
      BY DEF Finish, Go
    <2>2. /\ req[t].group \in DOMAIN groups
          /\ join' = [join EXCEPT ![t] = groups[req[t].group]]
          /\ UNCHANGED <<groups, req, home>>
          /\ IF req[t].op = "register" THEN Acquire(t) /\ Go(t, "node") ELSE Go(t, "write")
          /\ pc[t] = "group"
      BY <1>4, <2>1 DEF SelectGroup, At
    <2>3. req[t].op = "register" /\ pc'[t] = "node"
      BY <2>2 DEF Go, Progress
    <2>4. lock'[home'[t]] = t
      BY <1>1, <2>2, <2>3 DEF Acquire
    <2> QED BY <2>2, <2>3, <2>4
  <1>5. CASE SelectNode(t)
    <2>1. ~Finish(t)
      BY DEF Finish, Go
    <2>2. /\ row' = [row EXCEPT ![t] = IF req[t].node \in DOMAIN nodes THEN nodes[req[t].node]
                                                                       ELSE Nothing]
          /\ lock' = [lock EXCEPT ![home[t]] = t]
          /\ UNCHANGED <<groups, nodes, req, home, join>>
          /\ pc[t] = "node"
      BY <1>5, <2>1 DEF SelectNode, Acquire, At
    <2>3. lock'[home'[t]] = t
      BY <1>1, <2>2
    <2>4. overtaken'[t] = overtaken[t] \/ ~(InSection(t))
      BY <2>2 DEF Overtake
    <2> QED BY <2>2, <2>3, <2>4 DEF Guarded, ReadsStayTrue, Overtake
  <1>6. CASE CreateGroup(t) \/ UpdateGroup(t) \/ DeleteGroup(t)
    BY <1>6 DEF CreateGroup, UpdateGroup, DeleteGroup, Finish, Committed, Go
  <1>7. CASE StoreNode(t)
    BY <1>7 DEF StoreNode, Abort, Finish, Committed, Go
  <1>8. CASE SetMembership(t) \/ Heartbeat(t)
    BY <1>8 DEF SetMembership, Heartbeat, Amend, Committed, Go
  <1>9. CASE Raises(t)
    BY <1>9 DEF Raises, Finish, Go
  <1> QED BY <1>2, <1>3, <1>4, <1>5, <1>6, <1>7, <1>8, <1>9 DEF Serve

\* The other threads in a section keep the lock, and either belong to another
\* Manager, and are overtaken by a step that writes, or see no step.
LEMMA OthersGuarded ==
    ASSUME Inv, Guarded, NEW t \in Threads, Overtake(t),
           Serve(t) \/ \E m \in Managers, r \in Requests : Arrive(t, m, r),
           NEW u \in Threads, u # t, InSection(u)'
    PROVE  /\ lock'[home'[u]] = u
           /\ ~overtaken'[u] =>
                 /\ req'[u].op = "register" => /\ req'[u].group \in DOMAIN groups'
                                               /\ join'[u] = groups'[req'[u].group]
                 /\ pc'[u] = "write" => IF req'[u].node \in DOMAIN nodes'
                                        THEN row'[u] = nodes'[req'[u].node]
                                        ELSE row'[u] = Nothing
  <1>1. /\ pc'[u] = pc[u] /\ req'[u] = req[u] /\ home'[u] = home[u]
        /\ join'[u] = join[u] /\ row'[u] = row[u]
        /\ \A m \in Managers : m # home[t] => lock'[m] = lock[m]
    BY OthersKeep
  <1>2. InSection(u) /\ lock[home[u]] = u /\ home[u] \in Managers
    BY <1>1 DEF InSection, Guarded, Inv, Progress
  <1>3. CASE Serve(t)
    <2>1. home[u] # home[t]
      BY <1>2, <1>3, OthersWait, ManagersAssumption
    <2>2. lock'[home'[u]] = u
      BY <1>1, <1>2, <2>1
    <2>3. ~overtaken'[u] => ~overtaken[u] /\ UNCHANGED <<groups, nodes>>
      BY <1>2, <2>1 DEF Overtake
    <2> QED BY <1>1, <1>2, <2>2, <2>3 DEF Guarded, ReadsStayTrue
  <1>4. CASE \E m \in Managers, r \in Requests : Arrive(t, m, r)
    <2>1. UNCHANGED <<groups, nodes, lock>>
      BY <1>4 DEF Arrive
    <2>2. ~overtaken'[u] => ~overtaken[u]
      BY <1>2 DEF Overtake
    <2> QED BY <1>1, <1>2, <2>1, <2>2 DEF Guarded, ReadsStayTrue
  <1> QED BY <1>3, <1>4

LEMMA GuardedNext == Inv /\ Guarded /\ [Next]_vars => Guarded'
  <1> SUFFICES ASSUME Inv, Guarded, [Next]_vars PROVE Guarded'
    OBVIOUS
  <1>1. ASSUME NEW t \in Threads, Overtake(t),
               Serve(t) \/ \E m \in Managers, r \in Requests : Arrive(t, m, r)
        PROVE  Guarded'
    <2>1. ASSUME NEW u \in Threads, InSection(u)'
          PROVE  /\ lock'[home'[u]] = u
                 /\ ~overtaken'[u] =>
                       /\ req'[u].op = "register" => /\ req'[u].group \in DOMAIN groups'
                                                     /\ join'[u] = groups'[req'[u].group]
                       /\ pc'[u] = "write" => IF req'[u].node \in DOMAIN nodes'
                                              THEN row'[u] = nodes'[req'[u].node]
                                              ELSE row'[u] = Nothing
      <3>1. CASE u = t
        BY <1>1, <2>1, <3>1, EntersGuarded
      <3>2. CASE u # t
        BY <1>1, <2>1, <3>2, OthersGuarded
      <3> QED BY <3>1, <3>2
    <2> QED BY <2>1 DEF Guarded, ReadsStayTrue
  <1>2. CASE UNCHANGED vars
    BY <1>2 DEF vars, Guarded, ReadsStayTrue, InSection
  <1> QED BY <1>1, <1>2 DEF Next

-----------------------------------------------------------------------------
\* The inductive invariant holds in every run.
THEOREM Invariance == Spec => []Inv
  BY InitInv, NextInv, PTL DEF Spec

\* Type correctness of the tables and of every thread's variables.
THEOREM TypeCorrect == Spec => []TypeOK
  <1>1. Inv => TypeOK
    BY DEF Inv
  <1> QED BY <1>1, Invariance, PTL

\* However many Managers share the database, and though their locks exclude no
\* other, every node belongs to a group that exists.
THEOREM NoOrphansHolds == Spec => []NoOrphans
  <1>1. Inv => NoOrphans
    BY DEF Inv
  <1> QED BY <1>1, Invariance, PTL

\* What a method has read under its Manager's lock still holds when it writes,
\* however many threads a Manager runs, unless another Manager wrote in between.
THEOREM ReadsStayTrueHolds == Spec => []ReadsStayTrue
  <1>1. Init => Guarded
    BY DEF Init, Guarded, ReadsStayTrue, InSection
  <1>2. Guarded => ReadsStayTrue
    BY DEF Guarded
  <1> QED BY <1>1, <1>2, Invariance, GuardedNext, PTL DEF Spec
=============================================================================
