---------------------------- MODULE SerialWorker ----------------------------
(***************************************************************************)
(* What an agent promises to the parents that assign subtasks to it,       *)
(* before any of its machinery: it takes work on while it has room, serves *)
(* one subtask at a time in the order it took them on, and loses all of    *)
(* its backlog, and nothing else, when its process restarts.               *)
(***************************************************************************)
EXTENDS Naturals, Sequences

CONSTANTS Messages,     \* the assign_subtask messages it may be sent
          Capacity      \* how many subtasks it holds, the one in service included

VARIABLES backlog,      \* the subtask in service, then those that wait
          served        \* the subtasks served, in the order they were served

vars == <<backlog, served>>

Init == backlog = <<>> /\ served = <<>>

Accept(m) == /\ Len(backlog) < Capacity
             /\ backlog' = Append(backlog, m)
             /\ UNCHANGED served

Serve == /\ backlog # <<>>
         /\ served' = Append(served, Head(backlog))
         /\ backlog' = Tail(backlog)

Restart == backlog' = <<>> /\ UNCHANGED served

Next == (\E m \in Messages : Accept(m)) \/ Serve \/ Restart

Spec == Init /\ [][Next]_vars
=============================================================================
