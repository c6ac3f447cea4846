------------------------- MODULE ManagerStoreProofs -------------------------
(***************************************************************************)
(* Proofs about ManagerStore for any number of groups, nodes, threads and  *)
(* any timeout.                                                            *)
(***************************************************************************)
EXTENDS ManagerStore, TLAPS

-----------------------------------------------------------------------------
(* The inductive invariant.                                                *)

\* A thread with a request is where that request leads, and update_group has
\* read a policy before it writes one.
Progress ==
    \A t \in Threads :
        /\ pc[t] # "idle" => req[t] \in Requests
        /\ pc[t] = "write" => req[t].op = "update" /\ policy[t] \in Policy

\* No thread's expiry lies in the future, and since the last of them every node
\* that is not offline has been heard from within its timeout.
FreshSince ==
    \A t \in Threads :
        /\ asOf[t] <= clock
        /\ \A n \in DOMAIN nodes : nodes[n].status # "offline" => nodes[n].seen + Timeout >= asOf[t]

Inv == TypeOK /\ Progress /\ NoOrphans /\ OfflineIsSilent /\ FreshSince

\* What Inv says of the tables, in one place for the steps that write them.
TablesOK ==
    /\ DOMAIN groups \subseteq Groups /\ \A g \in DOMAIN groups : groups[g] \in Policy
    /\ DOMAIN nodes \subseteq Nodes   /\ \A n \in DOMAIN nodes : nodes[n] \in NodeRow
    /\ left \subseteq Nodes
    /\ NoOrphans /\ OfflineIsSilent

\* What Inv says of the threads.
ThreadsOK ==
    /\ req \in [Threads -> Requests \union {NoRequest}]
    /\ pc \in [Threads -> {"idle", "expire", "body", "write", "answer"}]
    /\ policy \in [Threads -> Policy \union {NoRequest}]
    /\ asOf \in [Threads -> 0..MaxClock]
    /\ Progress

LEMMA InvParts ==
    ASSUME TablesOK', ThreadsOK', clock' \in 0..MaxClock, FreshSince'
    PROVE  Inv'
  BY DEF Inv, TypeOK, TablesOK, ThreadsOK

-----------------------------------------------------------------------------
(* What a request mentions.                                                *)

LEMMA RequestFields ==
    ASSUME NEW r \in Requests
    PROVE  /\ r.op \in {"create", "update", "delete", "query", "register", "membership", "heartbeat"}
           /\ r.op # "heartbeat" => r.group \in Groups
           /\ r.op \in {"register", "membership", "heartbeat"} => r.node \in Nodes
           /\ r.op = "create" => r.policy \in Policy
           /\ r.op = "update" => /\ r.patch.join \in JoinModes \union {Keep}
                                 /\ r.patch.allow \in AllowLists \union {Keep}
           /\ r.op = "membership" => r.decision \in {"approved", "denied"}
           /\ r.op = "heartbeat" => r.status \in Statuses
  BY DEF Requests

-----------------------------------------------------------------------------
(* What the steps do to the thread that takes them.                        *)

\* A thread that is done leaves no trace, and no other is disturbed.
LEMMA FinishKeeps ==
    ASSUME Inv, NEW t \in Threads, Finish(t)
    PROVE  ThreadsOK' /\ \A u \in Threads : asOf'[u] \in {0, asOf[u]}
<1> USE StoreAssumption DEF Inv, TypeOK, Finish, Go
<1>1. /\ req' \in [Threads -> Requests \union {NoRequest}]
      /\ pc' \in [Threads -> {"idle", "expire", "body", "write", "answer"}]
      /\ policy' \in [Threads -> Policy \union {NoRequest}]
      /\ asOf' \in [Threads -> 0..MaxClock]
  OBVIOUS
<1>2. Progress'
  BY DEF Progress
<1>3. \A u \in Threads : asOf'[u] \in {0, asOf[u]}
  OBVIOUS
<1>4. QED
  BY <1>1, <1>2, <1>3 DEF ThreadsOK

\* A thread that goes on keeps its request.
LEMMA GoKeeps ==
    ASSUME Inv, NEW t \in Threads, NEW stage \in {"body", "answer"}, pc[t] # "idle",
           Go(t, stage), UNCHANGED <<req, policy>>, asOf' \in [Threads -> 0..MaxClock]
    PROVE  ThreadsOK'
<1>1. pc' \in [Threads -> {"idle", "expire", "body", "write", "answer"}]
  BY DEF Inv, TypeOK, Go
<1>2. Progress'
  BY DEF Inv, TypeOK, Go, Progress
<1>3. QED
  BY <1>1, <1>2 DEF Inv, TypeOK, ThreadsOK

\* What keeps the nodes or hears from one of them now keeps FreshSince.
LEMMA FreshKeeps ==
    ASSUME Inv, clock' = clock, \A u \in Threads : asOf'[u] \in {0, asOf[u]},
           \A n \in DOMAIN nodes' : /\ nodes'[n].seen \in Nat
                                    /\ nodes'[n].status # "offline"
                => \/ nodes'[n].seen = clock
                   \/ n \in DOMAIN nodes /\ nodes'[n].seen = nodes[n].seen
                      /\ nodes[n].status # "offline",
           \A n \in DOMAIN nodes' : nodes'[n].seen \in Nat
    PROVE  FreshSince'
<1> SUFFICES ASSUME NEW t \in Threads
             PROVE  /\ asOf'[t] <= clock'
                    /\ \A n \in DOMAIN nodes' : nodes'[n].status # "offline"
                                                  => nodes'[n].seen + Timeout >= asOf'[t]
  BY DEF FreshSince
<1>1. asOf[t] \in Nat /\ clock \in Nat /\ Timeout \in Nat /\ asOf[t] <= clock
  BY StoreAssumption DEF Inv, TypeOK, FreshSince
<1>2. asOf'[t] <= clock'
  BY <1>1
<1>3. ASSUME NEW n \in DOMAIN nodes', nodes'[n].status # "offline"
      PROVE  nodes'[n].seen + Timeout >= asOf'[t]
  <2>1. CASE nodes'[n].seen = clock
    BY <1>1, <2>1
  <2>2. CASE n \in DOMAIN nodes /\ nodes'[n].seen = nodes[n].seen /\ nodes[n].status # "offline"
    <3>1. nodes[n].seen + Timeout >= asOf[t]
      BY <2>2 DEF Inv, FreshSince
    <3>2. nodes'[n].seen \in Nat
      OBVIOUS
    <3>3. QED
      BY <1>1, <2>2, <3>1, <3>2
  <2>3. QED
    BY <1>3, <2>1, <2>2
<1>4. QED
  BY <1>2, <1>3

-----------------------------------------------------------------------------
(* Expiry.                                                                 *)

\* What _expire_offline leaves: sound tables, and nobody listed who is silent.
LEMMA ExpiryKeeps ==
    ASSUME Inv, nodes' = Expired, groups' = groups, clock' = clock, left' = left
    PROVE  /\ TablesOK'
           /\ \A n \in DOMAIN nodes' :
                 /\ nodes'[n].seen \in Nat
                 /\ nodes'[n].status # "offline" =>
                       /\ n \in DOMAIN nodes /\ nodes'[n].seen = nodes[n].seen
                       /\ nodes[n].status # "offline"
                       /\ nodes'[n].seen + Timeout >= clock
<1>1. DOMAIN nodes' = DOMAIN nodes
  BY DEF Expired
<1>2. ASSUME NEW n \in DOMAIN nodes
      PROVE  /\ nodes'[n] \in NodeRow
             /\ nodes'[n].group = nodes[n].group /\ nodes'[n].seen = nodes[n].seen
             /\ nodes'[n].status = IF Silent(nodes[n]) THEN "offline" ELSE nodes[n].status
  <2>1. nodes[n] \in NodeRow
    BY DEF Inv, TypeOK
  <2>2. nodes'[n] = IF Silent(nodes[n]) THEN [nodes[n] EXCEPT !.status = "offline"] ELSE nodes[n]
    BY DEF Expired
  <2>3. QED
    BY <2>1, <2>2 DEF NodeRow, Statuses
<1>3. NoOrphans'
  BY <1>1, <1>2 DEF Inv, NoOrphans
<1>4. OfflineIsSilent'
  BY <1>1, <1>2 DEF Inv, OfflineIsSilent, Silent
<1>5. ASSUME NEW n \in DOMAIN nodes'
      PROVE  /\ nodes'[n].seen \in Nat
             /\ nodes'[n].status # "offline" =>
                   /\ n \in DOMAIN nodes /\ nodes'[n].seen = nodes[n].seen
                   /\ nodes[n].status # "offline"
                   /\ nodes'[n].seen + Timeout >= clock
  <2>1. nodes'[n].seen \in Nat /\ clock \in Nat /\ Timeout \in Nat
    BY <1>1, <1>2, StoreAssumption DEF Inv, TypeOK, NodeRow
  <2>2. QED
    BY <1>1, <1>2, <2>1 DEF Silent
<1>6. QED
  BY <1>1, <1>2, <1>3, <1>4, <1>5 DEF Inv, TypeOK, TablesOK

LEMMA ExpireKeeps == ASSUME Inv, NEW t \in Threads, Expire(t) PROVE Inv'
<1> USE DEF Expire
<1>1. asOf' \in [Threads -> 0..MaxClock]
  BY DEF Inv, TypeOK
<1>2. ThreadsOK'
  BY <1>1, GoKeeps
<1>3. FreshSince'
  <2> SUFFICES ASSUME NEW u \in Threads
               PROVE  /\ asOf'[u] <= clock'
                      /\ \A n \in DOMAIN nodes' : nodes'[n].status # "offline"
                                                    => nodes'[n].seen + Timeout >= asOf'[u]
    BY DEF FreshSince
  <2>1. asOf'[u] \in {clock, asOf[u]} /\ asOf[u] <= clock /\ clock \in Nat /\ asOf[u] \in Nat
        /\ Timeout \in Nat
    BY StoreAssumption DEF Inv, TypeOK, FreshSince
  <2>2. QED
    BY <2>1, ExpiryKeeps
<1>4. QED
  BY <1>2, <1>3, ExpiryKeeps, InvParts DEF Inv, TypeOK

LEMMA AnswerKeeps == ASSUME Inv, NEW t \in Threads, Answer(t) PROVE Inv'
<1> USE DEF Answer
<1>1. ThreadsOK' /\ \A u \in Threads : asOf'[u] \in {0, asOf[u]}
  BY FinishKeeps
<1>2. FreshSince'
  BY <1>1, ExpiryKeeps, FreshKeeps
<1>3. QED
  BY <1>1, <1>2, ExpiryKeeps, InvParts DEF Inv, TypeOK

-----------------------------------------------------------------------------
(* Requests about groups.                                                  *)

\* Steps that leave the nodes and the clock alone.
LEMMA NodesKept ==
    ASSUME Inv, UNCHANGED <<nodes, clock, left>>, \A u \in Threads : asOf'[u] \in {0, asOf[u]}
    PROVE  FreshSince' /\ OfflineIsSilent'
           /\ DOMAIN nodes' \subseteq Nodes /\ \A n \in DOMAIN nodes' : nodes'[n] \in NodeRow
           /\ left' \subseteq Nodes
<1>1. \A n \in DOMAIN nodes' : nodes'[n].seen \in Nat
  BY StoreAssumption DEF Inv, TypeOK, NodeRow
<1>2. FreshSince'
  BY <1>1, FreshKeeps
<1>3. QED
  BY <1>2 DEF Inv, TypeOK, OfflineIsSilent, Silent

LEMMA CreateKeeps == ASSUME Inv, NEW t \in Threads, CreateGroup(t) PROVE Inv'
<1>1. req[t] \in Requests /\ req[t].op = "create" /\ pc[t] # "idle"
  BY DEF CreateGroup, At, Inv, Progress
<1>2. CASE req[t].group \in DOMAIN groups
  <2>1. Finish(t) /\ UNCHANGED <<groups, nodes, clock, left>>
    BY <1>2 DEF CreateGroup
  <2>2. TablesOK'
    BY <2>1 DEF Inv, TypeOK, TablesOK, NoOrphans, OfflineIsSilent, Silent
  <2>3. QED
    BY <2>1, <2>2, FinishKeeps, NodesKept, InvParts DEF Inv, TypeOK
<1>3. CASE req[t].group \notin DOMAIN groups
  <2>1. /\ groups' = Put(groups, req[t].group, req[t].policy)
        /\ Go(t, "answer") /\ UNCHANGED <<req, policy, asOf, nodes, clock, left>>
    BY <1>3 DEF CreateGroup
  <2>2. ThreadsOK' /\ \A u \in Threads : asOf'[u] \in {0, asOf[u]}
    BY <1>1, <2>1, GoKeeps DEF Inv, TypeOK
  <2>3. req[t].group \in Groups /\ req[t].policy \in Policy
    BY <1>1, RequestFields
  <2>4. /\ DOMAIN groups' \subseteq Groups /\ \A g \in DOMAIN groups' : groups'[g] \in Policy
        /\ DOMAIN groups \subseteq DOMAIN groups'
    BY <2>1, <2>3 DEF Put, Inv, TypeOK
  <2>5. TablesOK'
    <3>1. /\ OfflineIsSilent' /\ left' \subseteq Nodes
          /\ DOMAIN nodes' \subseteq Nodes /\ \A n \in DOMAIN nodes' : nodes'[n] \in NodeRow
      BY <2>1 DEF Inv, TypeOK, OfflineIsSilent, Silent
    <3>2. NoOrphans'
      BY <2>1, <2>4 DEF Inv, NoOrphans
    <3>3. QED
      BY <2>4, <3>1, <3>2 DEF TablesOK
  <2>6. QED
    BY <2>1, <2>2, <2>5, NodesKept, InvParts DEF Inv, TypeOK
<1>4. QED
  BY <1>2, <1>3

LEMMA ReadKeeps == ASSUME Inv, NEW t \in Threads, ReadGroup(t) PROVE Inv'
<1>1. req[t] \in Requests /\ req[t].op = "update" /\ pc[t] # "idle"
  BY DEF ReadGroup, At, Inv, Progress
<1>2. TablesOK' /\ UNCHANGED <<groups, nodes, clock, left>>
  BY DEF ReadGroup, Inv, TypeOK, TablesOK, NoOrphans, OfflineIsSilent, Silent
<1>3. CASE req[t].group \notin DOMAIN groups
  BY <1>2, <1>3, FinishKeeps, NodesKept, InvParts DEF ReadGroup, Inv, TypeOK
<1>4. CASE req[t].group \in DOMAIN groups
  <2>1. /\ policy' = [policy EXCEPT ![t] = groups[req[t].group]]
        /\ pc' = [pc EXCEPT ![t] = "write"] /\ UNCHANGED <<req, asOf>>
    BY <1>4 DEF ReadGroup, Go
  <2>2. groups[req[t].group] \in Policy
    BY <1>4 DEF Inv, TypeOK
  <2>3. Progress'
    BY <1>1, <2>1, <2>2 DEF Inv, TypeOK, Progress
  <2>4. ThreadsOK' /\ \A u \in Threads : asOf'[u] \in {0, asOf[u]}
    BY <2>1, <2>2, <2>3 DEF ThreadsOK, Inv, TypeOK
  <2>5. QED
    BY <1>2, <2>4, NodesKept, InvParts DEF Inv, TypeOK
<1>5. QED
  BY <1>3, <1>4

LEMMA WriteKeeps == ASSUME Inv, NEW t \in Threads, WriteGroup(t) PROVE Inv'
<1>1. req[t] \in Requests /\ req[t].op = "update" /\ policy[t] \in Policy /\ pc[t] # "idle"
  BY DEF WriteGroup, Inv, Progress
<1>2. /\ ThreadsOK' /\ UNCHANGED <<nodes, clock, left>>
      /\ \A u \in Threads : asOf'[u] \in {0, asOf[u]}
  BY <1>1, GoKeeps DEF WriteGroup, Inv, TypeOK
<1>3. Patched(policy[t], req[t].patch) \in Policy
  BY <1>1, RequestFields DEF Patched, Policy
<1>4. /\ DOMAIN groups' = DOMAIN groups
      /\ \A g \in DOMAIN groups' : groups'[g] \in Policy
  BY <1>3 DEF WriteGroup, Put, Inv, TypeOK
<1>5. TablesOK'
  BY <1>2, <1>4, NodesKept DEF TablesOK, Inv, TypeOK, NoOrphans
<1>6. QED
  BY <1>2, <1>5, NodesKept, InvParts DEF Inv, TypeOK

\* The cascade: what is left of the nodes is in a group that is left.
LEMMA DeleteKeeps == ASSUME Inv, NEW t \in Threads, DeleteGroup(t) PROVE Inv'
<1> USE DEF DeleteGroup
<1>1. ThreadsOK' /\ \A u \in Threads : asOf'[u] \in {0, asOf[u]}
  BY FinishKeeps
<1>2. \A n \in DOMAIN nodes' : /\ n \in DOMAIN nodes /\ nodes'[n] = nodes[n]
                               /\ nodes[n].group # req[t].group
  BY DEF Drop
<1>3. \A g \in DOMAIN groups : g # req[t].group => g \in DOMAIN groups'
  BY DEF Drop
<1>4. \A g \in DOMAIN groups' : g \in DOMAIN groups /\ groups'[g] = groups[g]
  BY DEF Drop
<1>5. TablesOK'
  BY <1>2, <1>3, <1>4 DEF Inv, TypeOK, TablesOK, NoOrphans, OfflineIsSilent, Silent
<1>6. \A n \in DOMAIN nodes' : nodes'[n].seen \in Nat
  BY <1>2, StoreAssumption DEF Inv, TypeOK, NodeRow
<1>7. FreshSince'
  BY <1>1, <1>2, <1>6, FreshKeeps
<1>8. QED
  BY <1>1, <1>5, <1>7, InvParts DEF Inv, TypeOK

-----------------------------------------------------------------------------
(* Requests about nodes.                                                   *)

LEMMA RegisterKeeps == ASSUME Inv, NEW t \in Threads, RegisterNode(t) PROVE Inv'
<1> DEFINE n == req[t].node  g == req[t].group
<1>1. req[t] \in Requests /\ req[t].op = "register" /\ pc[t] # "idle"
  BY DEF RegisterNode, At, Inv, Progress
<1>2. g \in Groups /\ n \in Nodes
  BY <1>1, RequestFields
<1>3. CASE ~(g \in DOMAIN groups /\ MayRegister(n, g))
  <2>1. Finish(t) /\ UNCHANGED <<groups, nodes, clock, left>>
    BY <1>3 DEF RegisterNode
  <2>2. TablesOK'
    BY <2>1 DEF Inv, TypeOK, TablesOK, NoOrphans, OfflineIsSilent, Silent
  <2>3. QED
    BY <2>1, <2>2, FinishKeeps, NodesKept, InvParts DEF Inv, TypeOK
<1>4. CASE g \in DOMAIN groups /\ MayRegister(n, g)
  <2> DEFINE row == [group |-> g, status |-> "idle", seen |-> clock,
                     membership |-> Admission(n, g)]
  <2>1. nodes' = Put(nodes, n, row) /\ left' = left \ {n} /\ Go(t, "answer")
        /\ UNCHANGED <<groups, req, policy, asOf, clock>>
    BY <1>4 DEF RegisterNode
  <2>2. Admission(n, g) \in Memberships
    <3>1. Member(n, g) => nodes[n].membership \in Memberships
      BY DEF Member, Inv, TypeOK, NodeRow
    <3>2. QED
      BY <3>1 DEF Admission, Memberships
  <2>3. row \in NodeRow
    BY <1>2, <2>2 DEF NodeRow, Statuses, Inv, TypeOK
  <2>4. /\ row.seen = clock /\ row.status = "idle" /\ row.group = g
    OBVIOUS
  <2> HIDE DEF row
  <2>5. \A m \in DOMAIN nodes' : \/ m = n /\ nodes'[m] = row
                                 \/ m \in DOMAIN nodes /\ nodes'[m] = nodes[m]
    BY <2>1 DEF Put
  <2>6. DOMAIN nodes' \subseteq Nodes /\ \A m \in DOMAIN nodes' : nodes'[m] \in NodeRow
    BY <1>2, <2>3, <2>5 DEF Inv, TypeOK
  <2>7. NoOrphans' /\ OfflineIsSilent'
    <3>1. NoOrphans'
      BY <1>4, <2>1, <2>4, <2>5 DEF Inv, NoOrphans
    <3>2. ASSUME NEW m \in DOMAIN nodes', nodes'[m].status = "offline"
          PROVE  nodes'[m].seen + Timeout < clock \/ m \in left'
      <4>1. m # n /\ m \in DOMAIN nodes /\ nodes'[m] = nodes[m]
        BY <2>4, <2>5, <2>1, <3>2 DEF Put
      <4>2. QED
        BY <2>1, <3>2, <4>1 DEF Inv, OfflineIsSilent, Silent
    <3>3. QED
      BY <2>1, <3>1, <3>2 DEF OfflineIsSilent, Silent
  <2>8. TablesOK'
    BY <2>1, <2>6, <2>7 DEF TablesOK, Inv, TypeOK
  <2>9. ThreadsOK' /\ \A u \in Threads : asOf'[u] \in {0, asOf[u]}
    BY <1>1, <2>1, GoKeeps DEF Inv, TypeOK
  <2>10. \A m \in DOMAIN nodes' : nodes'[m].seen \in Nat
    BY <2>6, StoreAssumption DEF NodeRow
  <2>11. FreshSince'
    BY <2>1, <2>4, <2>5, <2>9, <2>10, FreshKeeps
  <2>12. QED
    BY <2>1, <2>8, <2>9, <2>11, InvParts DEF Inv, TypeOK
<1>5. QED
  BY <1>3, <1>4

LEMMA MembershipKeeps == ASSUME Inv, NEW t \in Threads, SetMembership(t) PROVE Inv'
<1> DEFINE n == req[t].node
<1>1. req[t] \in Requests /\ req[t].op = "membership" /\ pc[t] # "idle"
  BY DEF SetMembership, At, Inv, Progress
<1>2. CASE ~Member(n, req[t].group)
  <2>1. Finish(t) /\ UNCHANGED <<groups, nodes, clock, left>>
    BY <1>2 DEF SetMembership
  <2>2. TablesOK'
    BY <2>1 DEF Inv, TypeOK, TablesOK, NoOrphans, OfflineIsSilent, Silent
  <2>3. QED
    BY <2>1, <2>2, FinishKeeps, NodesKept, InvParts DEF Inv, TypeOK
<1>3. CASE Member(n, req[t].group)
  <2>1. nodes' = [nodes EXCEPT ![n].membership = req[t].decision] /\ Go(t, "answer")
        /\ UNCHANGED <<groups, req, policy, asOf, clock, left>>
    BY <1>3 DEF SetMembership
  <2>2. req[t].decision \in Memberships
    BY <1>1, RequestFields DEF Memberships
  <2>3. DOMAIN nodes' = DOMAIN nodes
    BY <2>1
  <2>4. ASSUME NEW m \in DOMAIN nodes
        PROVE  /\ nodes'[m] \in NodeRow /\ nodes'[m].group = nodes[m].group
               /\ nodes'[m].seen = nodes[m].seen /\ nodes'[m].status = nodes[m].status
    <3>1. nodes[m] \in NodeRow
      BY DEF Inv, TypeOK
    <3>2. nodes'[m] \in {nodes[m], [nodes[m] EXCEPT !.membership = req[t].decision]}
      BY <2>1
    <3>3. QED
      BY <2>2, <3>1, <3>2 DEF NodeRow
  <2>5. TablesOK'
    BY <2>1, <2>3, <2>4 DEF Inv, TypeOK, TablesOK, NoOrphans, OfflineIsSilent, Silent
  <2>6. ThreadsOK' /\ \A u \in Threads : asOf'[u] \in {0, asOf[u]}
    BY <1>1, <2>1, GoKeeps DEF Inv, TypeOK
  <2>7. \A m \in DOMAIN nodes' : nodes'[m].seen \in Nat
    BY <2>3, <2>4, StoreAssumption DEF NodeRow
  <2>8. FreshSince'
    BY <2>1, <2>3, <2>4, <2>6, <2>7, FreshKeeps
  <2>9. QED
    BY <2>1, <2>5, <2>6, <2>8, InvParts DEF Inv, TypeOK
<1>4. QED
  BY <1>2, <1>3

LEMMA HeartbeatKeeps == ASSUME Inv, NEW t \in Threads, Heartbeat(t) PROVE Inv'
<1> DEFINE n == req[t].node
<1>1. req[t] \in Requests /\ req[t].op = "heartbeat" /\ pc[t] # "idle"
  BY DEF Heartbeat, At, Inv, Progress
<1>2. CASE n \notin DOMAIN nodes
  <2>1. Finish(t) /\ UNCHANGED <<groups, nodes, clock, left>>
    BY <1>2 DEF Heartbeat
  <2>2. TablesOK'
    BY <2>1 DEF Inv, TypeOK, TablesOK, NoOrphans, OfflineIsSilent, Silent
  <2>3. QED
    BY <2>1, <2>2, FinishKeeps, NodesKept, InvParts DEF Inv, TypeOK
<1>3. CASE n \in DOMAIN nodes
  <2>1. /\ nodes' = [nodes EXCEPT ![n].status = req[t].status, ![n].seen = clock]
        /\ left' = IF req[t].status = "offline" THEN left \union {n} ELSE left \ {n}
        /\ Go(t, "answer") /\ UNCHANGED <<groups, req, policy, asOf, clock>>
    BY <1>3 DEF Heartbeat
  <2>2. req[t].status \in Statuses /\ clock \in 0..MaxClock
    BY <1>1, RequestFields DEF Inv, TypeOK
  <2>3. DOMAIN nodes' = DOMAIN nodes
    BY <2>1
  <2>4. ASSUME NEW m \in DOMAIN nodes
        PROVE  /\ nodes'[m] \in NodeRow /\ nodes'[m].group = nodes[m].group
               /\ \/ m # n /\ nodes'[m] = nodes[m]
                  \/ m = n /\ nodes'[m].seen = clock /\ nodes'[m].status = req[t].status
    <3>1. nodes[m] \in NodeRow
      BY DEF Inv, TypeOK
    <3>2. \/ m # n /\ nodes'[m] = nodes[m]
          \/ m = n /\ nodes'[m] = [nodes[m] EXCEPT !.status = req[t].status, !.seen = clock]
      BY <2>1
    <3>3. QED
      BY <2>2, <3>1, <3>2 DEF NodeRow
  <2>5. TablesOK'
    <3>1. OfflineIsSilent'
      <4> SUFFICES ASSUME NEW m \in DOMAIN nodes', nodes'[m].status = "offline"
                   PROVE  nodes'[m].seen + Timeout < clock \/ m \in left'
        BY <2>1 DEF OfflineIsSilent, Silent
      <4>1. CASE m = n
        BY <2>1, <2>3, <2>4, <4>1
      <4>2. CASE m # n
        <5>1. m \in DOMAIN nodes /\ nodes'[m] = nodes[m] /\ (m \in left => m \in left')
          BY <2>1, <2>3, <2>4, <4>2
        <5>2. QED
          BY <5>1 DEF Inv, OfflineIsSilent, Silent
      <4>3. QED
        BY <4>1, <4>2
    <3>2. NoOrphans'
      BY <2>1, <2>3, <2>4 DEF Inv, NoOrphans
    <3>3. DOMAIN nodes' \subseteq Nodes /\ \A m \in DOMAIN nodes' : nodes'[m] \in NodeRow
      BY <2>3, <2>4 DEF Inv, TypeOK
    <3>4. left' \subseteq Nodes
      BY <1>1, <2>1, RequestFields DEF Inv, TypeOK
    <3>5. QED
      BY <2>1, <3>1, <3>2, <3>3, <3>4 DEF Inv, TypeOK, TablesOK
  <2>6. ThreadsOK' /\ \A u \in Threads : asOf'[u] \in {0, asOf[u]}
    BY <1>1, <2>1, GoKeeps DEF Inv, TypeOK
  <2>7. \A m \in DOMAIN nodes' : nodes'[m].seen \in Nat
    BY <2>3, <2>4, StoreAssumption DEF NodeRow
  <2>8. FreshSince'
    BY <2>1, <2>3, <2>4, <2>6, <2>7, FreshKeeps
  <2>9. QED
    BY <2>1, <2>5, <2>6, <2>8, InvParts DEF Inv, TypeOK
<1>4. QED
  BY <1>2, <1>3

-----------------------------------------------------------------------------
(* The rest, and the invariant.                                            *)

LEMMA QueryKeeps == ASSUME Inv, NEW t \in Threads, QueryCatalog(t) PROVE Inv'
<1>1. TablesOK' /\ UNCHANGED <<nodes, clock, left>>
  BY DEF QueryCatalog, Inv, TypeOK, TablesOK, NoOrphans, OfflineIsSilent, Silent
<1>2. QED
  BY <1>1, FinishKeeps, NodesKept, InvParts DEF QueryCatalog, Inv, TypeOK

LEMMA ArriveKeeps == ASSUME Inv, NEW t \in Threads, NEW r \in Requests, Arrive(t, r) PROVE Inv'
<1> USE DEF Arrive
<1>1. FirstStage(r.op) \in {"body", "expire"}
  BY DEF FirstStage
<1>2. Progress'
  BY <1>1 DEF Inv, TypeOK, Progress, Go
<1>3. ThreadsOK'
  BY <1>1, <1>2 DEF ThreadsOK, Inv, TypeOK, Go
<1>4. TablesOK'
  BY DEF Inv, TypeOK, TablesOK, NoOrphans, OfflineIsSilent, Silent
<1>5. \A u \in Threads : asOf'[u] \in {0, asOf[u]}
  OBVIOUS
<1>6. QED
  BY <1>3, <1>4, <1>5, NodesKept, InvParts DEF Inv, TypeOK

LEMMA TickKeeps == ASSUME Inv, Tick PROVE Inv'
<1> USE DEF Tick
<1>1. clock \in Nat /\ clock' = clock + 1 /\ clock' \in 0..MaxClock /\ Timeout \in Nat
  BY StoreAssumption DEF Inv, TypeOK
<1>2. ThreadsOK'
  BY DEF ThreadsOK, Inv, TypeOK, Progress
<1>3. \A n \in DOMAIN nodes : nodes[n].seen \in Nat
  BY StoreAssumption DEF Inv, TypeOK, NodeRow
<1>4. OfflineIsSilent'
  BY <1>1, <1>3 DEF Inv, OfflineIsSilent, Silent
<1>5. TablesOK'
  BY <1>4 DEF TablesOK, Inv, TypeOK, NoOrphans
<1>6. \A u \in Threads : asOf[u] \in Nat
  BY StoreAssumption DEF Inv, TypeOK
<1>7. FreshSince'
  BY <1>1, <1>6 DEF Inv, FreshSince
<1>8. QED
  BY <1>1, <1>2, <1>5, <1>7, InvParts

LEMMA InitInv == Init => Inv
<1> SUFFICES ASSUME Init PROVE Inv
  OBVIOUS
<1>1. DOMAIN groups = {} /\ DOMAIN nodes = {}
  BY DEF Init
<1>2. TablesOK
  BY <1>1 DEF Init, TablesOK, NoOrphans, OfflineIsSilent
<1>3. ThreadsOK /\ clock \in 0..MaxClock
  BY StoreAssumption DEF Init, ThreadsOK, Progress
<1>4. FreshSince
  BY <1>1 DEF Init, FreshSince
<1>5. QED
  BY <1>2, <1>3, <1>4 DEF Inv, TypeOK, TablesOK, ThreadsOK

LEMMA NextInv == Inv /\ [Next]_vars => Inv'
<1> SUFFICES ASSUME Inv, [Next]_vars PROVE Inv'
  OBVIOUS
<1>1. CASE UNCHANGED vars
  BY <1>1 DEF vars, Inv, TypeOK, Progress, NoOrphans, OfflineIsSilent, Silent, FreshSince
<1>2. CASE Tick
  BY <1>2, TickKeeps
<1>3. ASSUME NEW t \in Threads, Serve(t) PROVE Inv'
  BY <1>3, ExpireKeeps, AnswerKeeps, CreateKeeps, ReadKeeps, WriteKeeps, DeleteKeeps,
     RegisterKeeps, MembershipKeeps, HeartbeatKeeps, QueryKeeps DEF Serve
<1>4. ASSUME NEW t \in Threads, NEW r \in Requests, Arrive(t, r) PROVE Inv'
  BY <1>4, ArriveKeeps
<1>5. QED
  BY <1>1, <1>2, <1>3, <1>4 DEF Next

\* The invariant holds of every behaviour of the store.
THEOREM Invariance == Spec => []Inv
  BY InitInv, NextInv, PTL DEF Spec

\* The tables and the threads keep their types.
THEOREM TypeCorrect == Spec => []TypeOK
<1>1. Inv => TypeOK
  BY DEF Inv
<1>2. QED
  BY <1>1, Invariance, PTL

\* No node outlives its group (ON DELETE CASCADE, and register_node's check in
\* the same acquisition of the lock as its INSERT).
THEOREM NoOrphansHolds == Spec => []NoOrphans
<1>1. Inv => NoOrphans
  BY DEF Inv
<1>2. QED
  BY <1>1, Invariance, PTL

\* Whoever is shown offline has been silent, or has said so itself in its last
\* heartbeat (_expire_offline, heartbeat).
THEOREM OfflineIsSilentHolds == Spec => []OfflineIsSilent
<1>1. Inv => OfflineIsSilent
  BY DEF Inv
<1>2. QED
  BY <1>1, Invariance, PTL

\* query_catalog lists nobody who was silent when it began.
THEOREM CatalogIsFreshHolds == Spec => []CatalogIsFresh
<1>1. Inv => CatalogIsFresh
  BY DEF Inv, FreshSince, CatalogIsFresh, Listed
<1>2. QED
  BY <1>1, Invariance, PTL

-----------------------------------------------------------------------------
(* The administrator's word.                                               *)

\* The steps that change a membership.
LEMMA MembershipChanges ==
    ASSUME Inv, [Next]_vars, NEW n \in DOMAIN nodes \intersect DOMAIN nodes',
           nodes'[n].group = nodes[n].group, nodes'[n].membership # nodes[n].membership
    PROVE  \E t \in Threads : /\ At(t, "membership")
                              /\ req[t].node = n /\ req[t].group = nodes[n].group
                              /\ req[t].decision = nodes'[n].membership
<1>0. nodes[n] \in NodeRow
  BY DEF Inv, TypeOK
<1>1. CASE UNCHANGED nodes
  BY <1>1
<1>2. CASE nodes' = Expired
  BY <1>0, <1>2 DEF Expired, NodeRow
<1>3. ASSUME NEW t \in Threads, DeleteGroup(t) PROVE FALSE
  BY <1>3 DEF DeleteGroup, Drop
<1>4. ASSUME NEW t \in Threads, RegisterNode(t), nodes' # nodes PROVE FALSE
  <2> DEFINE g == req[t].group
             row == [group |-> g, status |-> "idle", seen |-> clock,
                     membership |-> Admission(req[t].node, g)]
  <2>1. nodes' = Put(nodes, req[t].node, row)
    BY <1>4 DEF RegisterNode
  <2>2. req[t].node = n /\ nodes'[n] = row
    BY <2>1 DEF Put
  <2>3. Member(n, g)
    BY <2>2 DEF Member
  <2>4. QED
    BY <2>2, <2>3 DEF Admission
<1>5. ASSUME NEW t \in Threads, SetMembership(t), nodes' # nodes
      PROVE  /\ At(t, "membership")
             /\ req[t].node = n /\ req[t].group = nodes[n].group
             /\ req[t].decision = nodes'[n].membership
  <2>1. /\ nodes' = [nodes EXCEPT ![req[t].node].membership = req[t].decision]
        /\ Member(req[t].node, req[t].group)
    BY <1>5 DEF SetMembership
  <2>2. req[t].node = n
    BY <2>1
  <2>3. nodes'[n] = [nodes[n] EXCEPT !.membership = req[t].decision]
    BY <2>1, <2>2
  <2>4. QED
    BY <1>0, <1>5, <2>1, <2>2, <2>3 DEF SetMembership, Member, NodeRow
<1>6. ASSUME NEW t \in Threads, Heartbeat(t) PROVE FALSE
  <2>1. \/ nodes'[n] = nodes[n]
        \/ nodes'[n] = [nodes[n] EXCEPT !.status = req[t].status, !.seen = clock]
    BY <1>6 DEF Heartbeat
  <2>2. QED
    BY <1>0, <2>1 DEF NodeRow
<1>7. QED
  BY <1>1, <1>2, <1>3, <1>4, <1>5, <1>6
     DEF Next, Serve, Arrive, Tick, Expire, Answer, CreateGroup, ReadGroup, WriteGroup,
         QueryCatalog, vars

\* set_node_membership alone changes a membership, and only to what was decided:
\* registrations, heartbeats, expiry and PATCHes leave it.
THEOREM DecisionStandsHolds == Spec => DecisionStands
<1>1. Inv /\ [Next]_vars =>
        [\A n \in DOMAIN nodes \intersect DOMAIN nodes' :
            nodes'[n].group = nodes[n].group /\ nodes'[n].membership # nodes[n].membership
            => \E t \in Threads : /\ At(t, "membership")
                                  /\ req[t].node = n /\ req[t].group = nodes[n].group
                                  /\ req[t].decision = nodes'[n].membership]_vars
  BY MembershipChanges
<1>2. QED
  BY <1>1, Invariance, PTL DEF Spec, DecisionStands

\* A node that registers in a manual group, or comes back to it, is not listed by
\* that unless it is an approved member.
LEMMA JoiningIsNotListed ==
    ASSUME Inv, [Next]_vars, NEW g \in DOMAIN groups, groups[g].join = "manual",
           NEW n \in Listed(g)', n \notin Listed(g)
    PROVE  Member(n, g) /\ (nodes[n].membership = "approved" \/ Approving(n, g))
<1>0. n \in DOMAIN nodes' /\ nodes'[n].group = g /\ nodes'[n].membership = "approved"
      /\ nodes'[n].status = "idle"
  BY DEF Listed
<1>1. SUFFICES Member(n, g)
  <2>1. ASSUME Member(n, g), nodes[n].membership # "approved" PROVE Approving(n, g)
    BY <1>0, <2>1, MembershipChanges DEF Member, Approving
  <2>2. QED
    BY <2>1
<1>2. CASE UNCHANGED nodes
  BY <1>0, <1>2 DEF Member
<1>3. CASE nodes' = Expired
  <2>1. n \in DOMAIN nodes /\ nodes[n] \in NodeRow
    BY <1>0, <1>3 DEF Expired, Inv, TypeOK
  <2>2. nodes'[n] \in {nodes[n], [nodes[n] EXCEPT !.status = "offline"]}
    BY <1>3, <2>1 DEF Expired
  <2>3. QED
    BY <1>0, <2>1, <2>2 DEF Member, NodeRow
<1>4. ASSUME NEW t \in Threads, DeleteGroup(t) PROVE Member(n, g)
  BY <1>0, <1>4 DEF DeleteGroup, Drop, Member
<1>5. ASSUME NEW t \in Threads, RegisterNode(t), nodes' # nodes PROVE Member(n, g)
  <2> DEFINE h == req[t].group
             row == [group |-> h, status |-> "idle", seen |-> clock,
                     membership |-> Admission(req[t].node, h)]
  <2>1. nodes' = Put(nodes, req[t].node, row)
    BY <1>5 DEF RegisterNode
  <2>2. CASE n # req[t].node
    BY <1>0, <2>1, <2>2 DEF Put, Member
  <2>3. CASE n = req[t].node
    <3>1. nodes'[n] = row
      BY <2>1, <2>3 DEF Put
    <3>2. h = g /\ Admission(n, g) = "approved"
      BY <1>0, <2>3, <3>1
    <3>3. QED
      BY <3>2 DEF Admission
  <2>4. QED
    BY <2>2, <2>3
<1>6. ASSUME NEW t \in Threads, SetMembership(t) \/ Heartbeat(t) PROVE Member(n, g)
  <2>1. n \in DOMAIN nodes /\ nodes[n] \in NodeRow
    BY <1>0, <1>6 DEF SetMembership, Heartbeat, Inv, TypeOK
  <2>2. \/ nodes'[n] = nodes[n]
        \/ nodes'[n] = [nodes[n] EXCEPT !.membership = req[t].decision]
        \/ nodes'[n] = [nodes[n] EXCEPT !.status = req[t].status, !.seen = clock]
    BY <1>6, <2>1 DEF SetMembership, Heartbeat
  <2>3. nodes'[n].group = nodes[n].group
    BY <2>1, <2>2 DEF NodeRow
  <2>4. QED
    BY <1>0, <2>1, <2>3 DEF Member
<1>7. QED
  BY <1>2, <1>3, <1>4, <1>5, <1>6
     DEF Next, Serve, Arrive, Tick, Expire, Answer, CreateGroup, ReadGroup, WriteGroup,
         QueryCatalog, vars

\* register_node lets nobody into a manual group's catalog, at the first
\* registration or a later one: only an approval does.
THEOREM ManualMeansPendingHolds == Spec => ManualMeansPending
<1>1. Inv /\ [Next]_vars =>
        [\A g \in DOMAIN groups : groups[g].join = "manual" =>
            \A n \in Listed(g)' \ Listed(g) :
               Member(n, g) /\ (nodes[n].membership = "approved" \/ Approving(n, g))]_vars
  BY JoiningIsNotListed
<1>2. QED
  BY <1>1, Invariance, PTL DEF Spec, ManualMeansPending
=============================================================================
