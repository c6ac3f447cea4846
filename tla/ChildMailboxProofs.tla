------------------------- MODULE ChildMailboxProofs -------------------------
(***************************************************************************)
(* Proofs about the child side.  First its mailbox, ChildMailbox, for every*)
(* set of messages, queue size, number of report attempts and of restarts; *)
(* then the runs in it, AssignmentRun, for every set of executors, files,  *)
(* keys, number of steps and every process that is left behind.            *)
(***************************************************************************)
EXTENDS AssignmentRun, SequenceTheorems, TLAPS

-----------------------------------------------------------------------------
(* The inductive invariant.                                                *)

ActivePhases == {"created", "running", "uploading", "reporting", "backoff"}

\* The one task alive is that of `current`, and it works on `current`.
RunnerInv ==
    /\ \A m \in Messages : pc[m] \in ActivePhases <=> m = current
    /\ \A m \in Messages : pc[m] \in ActivePhases \ {"created"} => work[m] = m
    /\ current = NoWork => queue = <<>>

\* What waits was accepted, has no task yet, and waits once.
QueueInv ==
    /\ \A i \in 1..Len(queue) : pc[queue[i]] = "none" /\ reply[queue[i]] = "accepted"
    /\ \A i, j \in 1..Len(queue) : queue[i] = queue[j] => i = j
    /\ Len(queue) <= QueueSize

\* A message without a task was not accepted, or waits.
AcceptedInv ==
    \A m \in Messages :
        /\ reply[m] # "accepted" => pc[m] = "none"
        /\ reply[m] = "accepted" /\ pc[m] = "none" => \E i \in 1..Len(queue) : queue[i] = m

\* What was served is done, and was served once.
ServedInv ==
    /\ \A i \in 1..Len(served) : pc[served[i]] = "done"
    /\ \A i, j \in 1..Len(served) : served[i] = served[j] => i = j

\* How often the parent may have heard of m, by the phase of its task.
ReportInv ==
    \A m \in Messages :
        /\ pc[m] \in {"none", "created", "running", "uploading"}
              => attempt[m] = 0 /\ Len(inbox[m]) = 0
        /\ pc[m] = "reporting" => attempt[m] >= 1 /\ Len(inbox[m]) < attempt[m]
        /\ pc[m] = "backoff" => /\ attempt[m] >= 1 /\ attempt[m] < ReportAttempts
                                /\ Len(inbox[m]) <= attempt[m]
        /\ pc[m] \in {"reporting", "backoff"} => result[m] \in Outcomes
        /\ Len(inbox[m]) <= ReportAttempts
        /\ \A i \in 1..Len(inbox[m]) : inbox[m][i] = result[m]

Inv == TypeOK /\ RunnerInv /\ QueueInv /\ AcceptedInv /\ ServedInv /\ ReportInv

-----------------------------------------------------------------------------
(* Init and the steps that leave the queue alone.                          *)

LEMMA InitInv == ASSUME Init PROVE Inv
  <1> USE MailboxAssumption DEF Init
  <1>1. TypeOK
    BY DEF TypeOK, Replies, Phases, Outcomes
  <1>2. RunnerInv /\ QueueInv /\ AcceptedInv /\ ServedInv /\ ReportInv
    BY DEF RunnerInv, QueueInv, AcceptedInv, ServedInv, ReportInv, ActivePhases
  <1> QED BY <1>1, <1>2 DEF Inv

\* A message that is turned away changes its reply only.
LEMMA RejectInv ==
    ASSUME Inv, NEW m \in Messages, RejectSelf(m) \/ RejectBusy(m)
    PROVE  Inv'
  <1> USE MailboxAssumption DEF Inv, RejectSelf, RejectBusy
  <1>1. TypeOK'
    BY DEF TypeOK, Replies
  <1>2. RunnerInv'
    BY DEF RunnerInv
  <1>3. ServedInv'
    BY DEF ServedInv
  <1>4. ReportInv'
    BY DEF ReportInv
  <1>5. \A i \in 1..Len(queue) : queue[i] \in Messages /\ queue[i] # m
    BY ElementOfSeq DEF QueueInv, TypeOK
  <1>6. QueueInv'
    <2>1. queue' = queue /\ pc' = pc /\ \A k \in Messages \ {m} : reply'[k] = reply[k]
      BY DEF TypeOK
    <2> QED BY <1>5, <2>1 DEF QueueInv
  <1>7. AcceptedInv'
    BY DEF AcceptedInv, TypeOK
  <1> QED BY <1>1, <1>2, <1>3, <1>4, <1>6, <1>7

LEMMA AcceptIdleInv ==
    ASSUME Inv, NEW m \in Messages, AcceptIdle(m)
    PROVE  Inv'
  <1> USE MailboxAssumption DEF Inv, AcceptIdle
  <1>1. TypeOK'
    BY DEF TypeOK, Replies, Phases
  <1>2. pc[m] = "none" /\ queue = <<>>
    BY DEF AcceptedInv, RunnerInv, TypeOK
  <1>3. RunnerInv'
    BY <1>2 DEF RunnerInv, ActivePhases, TypeOK
  <1>4. QueueInv'
    BY <1>2 DEF QueueInv, TypeOK
  <1>5. AcceptedInv'
    BY <1>2 DEF AcceptedInv, TypeOK
  <1>6. ServedInv'
    BY <1>2 DEF ServedInv, TypeOK
  <1>7. ReportInv'
    BY <1>2 DEF ReportInv, TypeOK
  <1> QED BY <1>1, <1>3, <1>4, <1>5, <1>6, <1>7

LEMMA AcceptQueuedInv ==
    ASSUME Inv, NEW m \in Messages, AcceptQueued(m)
    PROVE  Inv'
  <1> USE MailboxAssumption DEF Inv, AcceptQueued
  <1>1. /\ queue' \in Seq(Messages)
        /\ Len(queue') = Len(queue) + 1
        /\ \A i \in 1..Len(queue) : queue'[i] = queue[i]
        /\ queue'[Len(queue) + 1] = m
        /\ Len(queue) \in Nat
    BY AppendProperties, LenProperties DEF TypeOK
  <1>2. TypeOK'
    BY <1>1 DEF TypeOK, Replies
  <1>3. pc[m] = "none" /\ \A i \in 1..Len(queue) : queue[i] # m
    BY DEF AcceptedInv, QueueInv, TypeOK
  <1>4. RunnerInv'
    BY DEF RunnerInv, TypeOK
  <1>5. \A i \in 1..Len(queue) : queue[i] \in Messages
    BY ElementOfSeq DEF TypeOK
  <1>6. QueueInv'
    <2>1. \A i \in 1..Len(queue') : i \in 1..Len(queue) \/ i = Len(queue) + 1
      BY <1>1
    <2>2. reply'[m] = "accepted" /\ pc' = pc /\ \A k \in Messages \ {m} : reply'[k] = reply[k]
      BY DEF TypeOK
    <2>3. \A i \in 1..Len(queue') : pc'[queue'[i]] = "none" /\ reply'[queue'[i]] = "accepted"
      BY <1>1, <1>3, <1>5, <2>1, <2>2 DEF QueueInv
    <2>4. \A i, j \in 1..Len(queue') : queue'[i] = queue'[j] => i = j
      BY <1>1, <1>3, <2>1 DEF QueueInv
    <2>5. Len(queue') <= QueueSize
      BY <1>1
    <2> QED BY <2>3, <2>4, <2>5 DEF QueueInv
  <1>7. AcceptedInv'
    BY <1>1, <1>3 DEF AcceptedInv, TypeOK
  <1>8. ServedInv' /\ ReportInv'
    BY DEF ServedInv, ReportInv, TypeOK
  <1> QED BY <1>2, <1>4, <1>6, <1>7, <1>8

-----------------------------------------------------------------------------
(* The steps of a runner that keep it alive.  Each moves the task of m from *)
(* one active phase to another.                                            *)

RunnerMoves(m) ==
    /\ pc[m] \in ActivePhases
    /\ pc' \in [Messages -> Phases]
    /\ pc'[m] \in ActivePhases \ {"created"}
    /\ \A k \in Messages \ {m} : pc'[k] = pc[k]
    /\ work'[m] = m /\ \A k \in Messages \ {m} : work'[k] = work[k]
    /\ UNCHANGED <<current, queue, reply, inbox, served>>

LEMMA RunnerMovesInv ==
    ASSUME Inv, NEW m \in Messages, RunnerMoves(m)
    PROVE  RunnerInv' /\ QueueInv' /\ AcceptedInv' /\ ServedInv'
  <1> USE DEF Inv, RunnerMoves
  <1>1. RunnerInv'
    BY DEF RunnerInv, ActivePhases
  <1>2. QueueInv'
    <2>1. \A i \in 1..Len(queue) : queue[i] \in Messages /\ queue[i] # m
      BY ElementOfSeq DEF QueueInv, TypeOK, ActivePhases
    <2> QED BY <2>1 DEF QueueInv
  <1>3. AcceptedInv'
    BY DEF AcceptedInv, ActivePhases
  <1>4. ServedInv'
    <2>1. \A i \in 1..Len(served) : served[i] \in Messages /\ served[i] # m
      BY ElementOfSeq DEF ServedInv, TypeOK, ActivePhases
    <2> QED BY <2>1 DEF ServedInv
  <1> QED BY <1>1, <1>2, <1>3, <1>4

LEMMA StartRunnerInv ==
    ASSUME Inv, NEW m \in Messages, StartRunner(m)
    PROVE  Inv'
  <1> USE DEF Inv, StartRunner
  <1>1. m = current /\ current # NoWork
    BY MailboxAssumption DEF RunnerInv, ActivePhases
  <1>2. TypeOK'
    BY DEF TypeOK, Phases
  <1>3. RunnerMoves(m)
    BY <1>1 DEF RunnerMoves, TypeOK, ActivePhases, Phases
  <1>4. ReportInv'
    BY <1>1 DEF ReportInv, TypeOK
  <1> QED BY <1>2, <1>3, <1>4, RunnerMovesInv

LEMMA ExecutorReturnsInv ==
    ASSUME Inv, NEW m \in Messages, ExecutorReturns(m)
    PROVE  Inv'
  <1> USE DEF Inv, ExecutorReturns
  <1>1. TypeOK'
    BY DEF TypeOK, Phases
  <1>2. RunnerMoves(m)
    BY DEF RunnerMoves, TypeOK, ActivePhases, Phases, RunnerInv
  <1>3. ReportInv'
    BY DEF ReportInv, TypeOK
  <1> QED BY <1>1, <1>2, <1>3, RunnerMovesInv

LEMMA StartReportInv ==
    ASSUME Inv, NEW m \in Messages, NEW status \in Outcomes,
           pc[m] \in {"running", "uploading"}, StartReport(m, status)
    PROVE  Inv'
  <1> USE MailboxAssumption DEF Inv, StartReport
  <1>1. TypeOK'
    BY DEF TypeOK, Phases
  <1>2. RunnerMoves(m)
    BY DEF RunnerMoves, TypeOK, ActivePhases, Phases, RunnerInv
  <1>3. ReportInv'
    BY DEF ReportInv, TypeOK
  <1> QED BY <1>1, <1>2, <1>3, RunnerMovesInv

LEMMA RetryReportInv ==
    ASSUME Inv, NEW m \in Messages, RetryReport(m)
    PROVE  Inv'
  <1> USE MailboxAssumption DEF Inv, RetryReport
  <1>1. TypeOK'
    BY DEF TypeOK, Phases, ReportInv
  <1>2. RunnerMoves(m)
    BY DEF RunnerMoves, TypeOK, ActivePhases, Phases, RunnerInv
  <1>3. ReportInv'
    BY LenProperties DEF ReportInv, TypeOK
  <1> QED BY <1>1, <1>2, <1>3, RunnerMovesInv

-----------------------------------------------------------------------------
(* The end of a report attempt.                                            *)

\* What an attempt does to the parent's inbox, the rest of Inv aside.
LEMMA InboxStep ==
    ASSUME Inv, NEW m \in Messages, pc[m] = "reporting",
           ParentTakes(m) \/ UNCHANGED inbox
    PROVE  /\ work[m] = m
           /\ inbox' \in [Messages -> Seq(Outcomes)]
           /\ Len(inbox'[m]) <= attempt[m]
           /\ \A i \in 1..Len(inbox'[m]) : inbox'[m][i] = result[m]
           /\ \A k \in Messages \ {m} : inbox'[k] = inbox[k]
  <1> USE DEF Inv
  <1>1. work[m] = m /\ result[m] \in Outcomes /\ Len(inbox[m]) < attempt[m]
    BY DEF RunnerInv, ReportInv, ActivePhases
  <1>2. inbox[m] \in Seq(Outcomes) /\ Len(inbox[m]) \in Nat /\ attempt[m] \in Nat
    BY LenProperties, MailboxAssumption DEF TypeOK
  <1>3. CASE UNCHANGED inbox
    BY <1>1, <1>2, <1>3 DEF TypeOK, ReportInv
  <1>4. CASE ParentTakes(m)
    <2>1. inbox' = [inbox EXCEPT ![m] = Append(inbox[m], result[m])]
      BY <1>1, <1>4 DEF ParentTakes
    <2>2. /\ Append(inbox[m], result[m]) \in Seq(Outcomes)
          /\ Len(Append(inbox[m], result[m])) = Len(inbox[m]) + 1
          /\ \A i \in 1..Len(inbox[m]) : Append(inbox[m], result[m])[i] = inbox[m][i]
          /\ Append(inbox[m], result[m])[Len(inbox[m]) + 1] = result[m]
      BY <1>1, <1>2, AppendProperties
    <2>3. inbox' \in [Messages -> Seq(Outcomes)] /\ inbox'[m] = Append(inbox[m], result[m])
      BY <2>1, <2>2 DEF TypeOK
    <2>4. \A k \in Messages \ {m} : inbox'[k] = inbox[k]
      BY <2>1 DEF TypeOK
    <2>5. \A i \in 1..Len(inbox[m]) + 1 : inbox'[m][i] = result[m]
      BY <1>2, <2>2, <2>3 DEF ReportInv
    <2> QED BY <1>1, <1>2, <2>2, <2>3, <2>4, <2>5
  <1> QED BY <1>3, <1>4

LEMMA BackoffInv ==
    ASSUME Inv, NEW m \in Messages, pc[m] = "reporting",
           ParentTakes(m) \/ UNCHANGED inbox, attempt[m] < ReportAttempts,
           pc' = [pc EXCEPT ![m] = "backoff"],
           UNCHANGED <<current, queue, served, reply, work, attempt, result, restarts>>
    PROVE  Inv'
  <1> USE DEF Inv
  <1>1. /\ work[m] = m
        /\ inbox' \in [Messages -> Seq(Outcomes)]
        /\ Len(inbox'[m]) <= attempt[m]
        /\ \A i \in 1..Len(inbox'[m]) : inbox'[m][i] = result[m]
        /\ \A k \in Messages \ {m} : inbox'[k] = inbox[k]
    BY InboxStep
  <1>2. TypeOK'
    BY <1>1 DEF TypeOK, Phases
  <1>3. RunnerInv'
    BY DEF RunnerInv, TypeOK, ActivePhases
  <1>4. QueueInv'
    <2>1. \A i \in 1..Len(queue) : queue[i] \in Messages /\ queue[i] # m
      BY ElementOfSeq DEF QueueInv, TypeOK
    <2> QED BY <2>1 DEF QueueInv, TypeOK
  <1>5. AcceptedInv'
    BY DEF AcceptedInv, TypeOK
  <1>6. ServedInv'
    <2>1. \A i \in 1..Len(served) : served[i] \in Messages /\ served[i] # m
      BY ElementOfSeq DEF ServedInv, TypeOK
    <2> QED BY <2>1 DEF ServedInv, TypeOK
  <1>7. ReportInv'
    <2>1. Len(inbox'[m]) \in Nat /\ attempt[m] \in Nat
      BY <1>1, LenProperties DEF TypeOK
    <2> QED BY <1>1, <2>1, MailboxAssumption DEF ReportInv, TypeOK
  <1> QED BY <1>2, <1>3, <1>4, <1>5, <1>6, <1>7

LEMMA ReleaseInv ==
    ASSUME Inv, NEW m \in Messages, pc[m] = "reporting",
           ParentTakes(m) \/ UNCHANGED inbox, Release(m),
           UNCHANGED <<reply, work, attempt, result, restarts>>
    PROVE  Inv'
  <1> USE DEF Inv
  <1>1. /\ work[m] = m
        /\ inbox' \in [Messages -> Seq(Outcomes)]
        /\ Len(inbox'[m]) <= attempt[m]
        /\ \A i \in 1..Len(inbox'[m]) : inbox'[m][i] = result[m]
        /\ \A k \in Messages \ {m} : inbox'[k] = inbox[k]
    BY InboxStep
  <1>2. m = current
    BY DEF RunnerInv, ActivePhases
  <1>3. Len(inbox'[m]) \in Nat /\ attempt[m] \in 0..ReportAttempts
    BY <1>1, LenProperties DEF TypeOK
  \* The history of served messages, in both cases.
  <1>4. /\ served' \in Seq(Messages)
        /\ Len(served') = Len(served) + 1 /\ Len(served) \in Nat
        /\ \A i \in 1..Len(served) : served'[i] = served[i]
        /\ served'[Len(served) + 1] = m
    BY <1>1, AppendProperties, LenProperties DEF TypeOK, Release
  <1>5. \A i \in 1..Len(served) : served[i] \in Messages /\ served[i] # m
    BY ElementOfSeq DEF ServedInv, TypeOK
  <1>6. \A i, j \in 1..Len(served') : served'[i] = served'[j] => i = j
    <2>1. \A i \in 1..Len(served') : i \in 1..Len(served) \/ i = Len(served) + 1
      BY <1>4
    <2> QED BY <1>4, <1>5, <2>1 DEF ServedInv
  <1>7. ASSUME pc'[m] = "done",
               \A k \in Messages \ {m} : pc[k] = "done" => pc'[k] = "done"
        PROVE  ServedInv'
    <2>1. \A i \in 1..Len(served') : i \in 1..Len(served) \/ i = Len(served) + 1
      BY <1>4
    <2>2. \A i \in 1..Len(served') : pc'[served'[i]] = "done"
      BY <1>4, <1>5, <1>7, <2>1 DEF ServedInv
    <2> QED BY <1>6, <2>2 DEF ServedInv
  <1>8. CASE queue = <<>>
    <2>1. /\ current' = NoWork /\ queue' = <<>>
          /\ pc' \in [Messages -> Phases] /\ pc'[m] = "done"
          /\ \A k \in Messages \ {m} : pc'[k] = pc[k]
      BY <1>8 DEF Release, TypeOK, Phases
    <2>2. TypeOK'
      BY <1>1, <1>4, <2>1 DEF TypeOK
    <2>3. RunnerInv'
      BY <1>2, <2>1, MailboxAssumption DEF RunnerInv, ActivePhases
    <2>4. QueueInv'
      BY <1>8, <2>1 DEF QueueInv
    <2>5. AcceptedInv'
      BY <1>8, <2>1 DEF AcceptedInv
    <2>6. ReportInv'
      BY <1>1, <1>3, <2>1, MailboxAssumption DEF ReportInv, TypeOK
    <2> QED BY <1>7, <2>1, <2>2, <2>3, <2>4, <2>5, <2>6
  <1>9. CASE queue # <<>>
    <2> DEFINE h == Head(queue)
    <2>1. /\ h = queue[1] /\ h \in Messages /\ Len(queue) \in Nat \ {0}
          /\ Tail(queue) \in Seq(Messages) /\ Len(Tail(queue)) = Len(queue) - 1
          /\ \A i \in 1..Len(Tail(queue)) : Tail(queue)[i] = queue[i + 1]
      BY <1>9, HeadTailProperties, EmptySeq, LenProperties DEF TypeOK
    <2>2. pc[h] = "none" /\ reply[h] = "accepted" /\ h # m
      BY <2>1 DEF QueueInv
    <2>3. /\ current' = h /\ queue' = Tail(queue)
          /\ pc' \in [Messages -> Phases] /\ pc'[m] = "done" /\ pc'[h] = "created"
          /\ \A k \in Messages \ {m, h} : pc'[k] = pc[k]
      BY <1>9, <2>1, <2>2 DEF Release, TypeOK, Phases
    <2> HIDE DEF h
    <2>4. TypeOK'
      BY <1>1, <1>4, <2>1, <2>3 DEF TypeOK
    <2>5. RunnerInv'
      BY <1>2, <2>1, <2>2, <2>3, MailboxAssumption DEF RunnerInv, ActivePhases
    <2>6. \A i \in 1..Len(queue) : queue[i] \in Messages /\ queue[i] # m
      BY ElementOfSeq DEF QueueInv, TypeOK
    <2>7. \A i \in 1..Len(queue') : /\ i + 1 \in 1..Len(queue) /\ queue'[i] = queue[i + 1]
                                   /\ queue'[i] # h
      BY <2>1, <2>3 DEF QueueInv
    <2>8. QueueInv'
      <3>1. \A i \in 1..Len(queue') : pc'[queue'[i]] = "none" /\ reply'[queue'[i]] = "accepted"
        BY <2>3, <2>6, <2>7 DEF QueueInv
      <3>2. \A i, j \in 1..Len(queue') : queue'[i] = queue'[j] => i = j
        BY <2>1, <2>3, <2>7 DEF QueueInv
      <3>3. Len(queue') <= QueueSize
        BY <2>1, <2>3, MailboxAssumption DEF QueueInv
      <3> QED BY <3>1, <3>2, <3>3 DEF QueueInv
    <2>9. AcceptedInv'
      <3> SUFFICES ASSUME NEW k \in Messages, reply[k] = "accepted", pc'[k] = "none"
                   PROVE  \E i \in 1..Len(queue') : queue'[i] = k
        BY <2>1, <2>2, <2>3 DEF AcceptedInv
      <3>1. pc[k] = "none" /\ k # h
        BY <2>3
      <3>2. PICK i \in 1..Len(queue) : queue[i] = k
        BY <3>1 DEF AcceptedInv
      <3>3. i # 1 /\ i - 1 \in 1..Len(queue')
        BY <2>1, <2>3, <3>1, <3>2
      <3>4. queue'[i - 1] = k
        BY <2>1, <2>3, <3>2, <3>3
      <3> QED BY <3>3, <3>4
    <2>10. ReportInv'
      <3> DEFINE Heard(k) ==
            /\ pc[k] \in {"none", "created", "running", "uploading"}
                  => attempt[k] = 0 /\ Len(inbox[k]) = 0
            /\ pc[k] = "reporting" => attempt[k] >= 1 /\ Len(inbox[k]) < attempt[k]
            /\ pc[k] = "backoff" => /\ attempt[k] >= 1 /\ attempt[k] < ReportAttempts
                                    /\ Len(inbox[k]) <= attempt[k]
            /\ pc[k] \in {"reporting", "backoff"} => result[k] \in Outcomes
            /\ Len(inbox[k]) <= ReportAttempts
            /\ \A i \in 1..Len(inbox[k]) : inbox[k][i] = result[k]
      <3>1. ASSUME NEW k \in Messages, k = m PROVE Heard(k)'
        BY <3>1, <1>1, <1>3, <2>3, MailboxAssumption
      <3>2. ASSUME NEW k \in Messages, k = h PROVE Heard(k)'
        <4>1. attempt'[k] = 0 /\ inbox'[k] = inbox[k] /\ Len(inbox[k]) = 0 /\ pc'[k] = "created"
          BY <3>2, <1>1, <2>1, <2>2, <2>3 DEF ReportInv
        <4> QED BY <4>1, MailboxAssumption
      <3>3. \A k \in Messages \ {m, h} : Heard(k)'
        BY <1>1, <2>3 DEF ReportInv
      <3>4. \A k \in Messages : Heard(k)'
        BY <3>1, <3>2, <3>3
      <3> QED BY <3>4 DEF ReportInv
    <2>11. ServedInv'
      BY <1>7, <2>2, <2>3
    <2> QED BY <2>4, <2>5, <2>8, <2>9, <2>10, <2>11
  <1> QED BY <1>8, <1>9

-----------------------------------------------------------------------------
\* A restart empties the mailbox: what was alive or waiting is lost.
LEMMA RestartInv == ASSUME Inv, Restart PROVE Inv'
  <1> USE DEF Inv, Restart
  <1> DEFINE gone == Active \union Range(queue)
  <1>1. /\ pc' \in [Messages -> Phases]
        /\ \A m \in Messages : pc'[m] = IF m \in gone THEN "lost" ELSE pc[m]
        /\ current' = NoWork /\ queue' = <<>> /\ Len(queue') = 0
    BY DEF TypeOK, Phases
  <1>2. \A m \in Messages : m \in gone <=> \/ pc[m] \in ActivePhases
                                           \/ \E i \in 1..Len(queue) : queue[i] = m
    BY LenProperties DEF Active, ActivePhases, Range, TypeOK
  <1> HIDE DEF gone
  <1>3. \A m \in Messages : pc[m] = "done" => m \notin gone
    BY <1>2 DEF QueueInv, ActivePhases
  <1>4. TypeOK'
    BY <1>1, MailboxAssumption DEF TypeOK
  <1>5. RunnerInv'
    BY <1>1, <1>2, MailboxAssumption DEF RunnerInv, ActivePhases
  <1>6. QueueInv'
    BY <1>1, MailboxAssumption DEF QueueInv
  <1>7. AcceptedInv'
    BY <1>1, <1>2 DEF AcceptedInv, QueueInv, RunnerInv, ActivePhases
  <1>8. ServedInv'
    <2>1. \A i \in 1..Len(served) : served[i] \in Messages
      BY ElementOfSeq DEF TypeOK
    <2> QED BY <1>1, <1>3, <2>1 DEF ServedInv
  <1>9. ReportInv'
    <2>1. \A m \in Messages : pc'[m] = pc[m] \/ pc'[m] = "lost"
      BY <1>1
    <2> QED BY <2>1 DEF ReportInv
  <1> QED BY <1>4, <1>5, <1>6, <1>7, <1>8, <1>9

-----------------------------------------------------------------------------
(* The invariant, and what it gives.                                       *)

LEMMA NextInv == ASSUME Inv, [Next]_vars PROVE Inv'
  <1>1. ASSUME NEW m \in Messages, Mailbox(m) PROVE Inv'
    BY <1>1, RejectInv, AcceptIdleInv, AcceptQueuedInv DEF Mailbox
  <1>2. ASSUME NEW m \in Messages, Runner(m) PROVE Inv'
    <2>1. CASE StartRunner(m)
      BY <2>1, StartRunnerInv
    <2>2. CASE ExecutorReturns(m)
      BY <2>2, ExecutorReturnsInv
    <2>3. CASE UploadDone(m) \/ RunRaises(m)
      BY <2>3, StartReportInv DEF UploadDone, RunRaises, Outcomes
    <2>4. CASE ReportOk(m)
      BY <2>4, ReleaseInv DEF ReportOk
    <2>5. CASE ReportFails(m)
      BY <2>5, ReleaseInv, BackoffInv DEF ReportFails
    <2>6. CASE RetryReport(m)
      BY <2>6, RetryReportInv
    <2> QED BY <1>2, <2>1, <2>2, <2>3, <2>4, <2>5, <2>6 DEF Runner
  <1>3. CASE Restart
    BY <1>3, RestartInv
  <1>4. CASE UNCHANGED vars
    BY <1>4 DEF vars, Inv, TypeOK, RunnerInv, QueueInv, AcceptedInv, ServedInv, ReportInv
  <1> QED BY <1>1, <1>2, <1>3, <1>4 DEF Next

\* Every reachable state satisfies the inductive invariant.
THEOREM Invariance == Spec => []Inv
  BY InitInv, NextInv, PTL DEF Spec

\* The variables keep their types, for every size of the mailbox.
THEOREM TypeCorrect == Spec => []TypeOK
  BY Invariance, PTL DEF Inv

LEMMA InvOneRunner == ASSUME Inv PROVE OneRunner
  <1> USE DEF Inv, RunnerInv
  <1>1. \A m \in Messages : m \in Active <=> m = current
    BY DEF Active, ActivePhases
  <1>2. Active = {current} \ {NoWork}
    BY <1>1, MailboxAssumption DEF TypeOK, Active
  <1>3. \A m \in Active : pc[m] # "created" => work[m] = current
    BY <1>1 DEF Active, ActivePhases
  <1> QED BY <1>2, <1>3 DEF OneRunner

\* One runner at a time, that of the message GET /child shows.
THEOREM OneRunnerHolds == Spec => []OneRunner
  BY Invariance, InvOneRunner, PTL

LEMMA InvStatusTruthful == ASSUME Inv PROVE StatusTruthful
  <1> USE DEF Inv
  <1>1. ASSUME Status = "IDLE", NEW m \in Messages, reply[m] = "accepted"
        PROVE  pc[m] \in {"done", "lost"}
    <2>1. current = NoWork /\ queue = <<>> /\ Len(queue) = 0
      BY <1>1 DEF Status
    <2>2. pc[m] \notin ActivePhases
      BY <2>1, MailboxAssumption DEF RunnerInv
    <2>3. pc[m] # "none"
      BY <1>1, <2>1 DEF AcceptedInv
    <2> QED BY <2>2, <2>3 DEF TypeOK, Phases, ActivePhases
  <1>2. ASSUME \A m \in Messages : reply[m] = "accepted" => pc[m] \in {"done", "lost"}
        PROVE  Status = "IDLE"
    <2>1. current = NoWork
      BY <1>2 DEF RunnerInv, AcceptedInv, ActivePhases, TypeOK
    <2> QED BY <2>1 DEF RunnerInv, Status
  <1> QED BY <1>1, <1>2 DEF StatusTruthful, Status

\* The busy bit tells the truth about accepted work.
THEOREM StatusTruthfulHolds == Spec => []StatusTruthful
  BY Invariance, InvStatusTruthful, PTL

LEMMA InvReportsAgree == ASSUME Inv PROVE ReportsAgree
  <1>1. \A m \in Messages : DOMAIN inbox[m] = 1..Len(inbox[m])
    BY LenProperties DEF Inv, TypeOK
  <1> QED BY <1>1 DEF Inv, ReportInv, ReportsAgree

\* The parent hears one verdict, REPORT_ATTEMPTS times at most.
THEOREM ReportsAgreeHolds == Spec => []ReportsAgree
  BY Invariance, InvReportsAgree, PTL

LEMMA InvRunsOnce == ASSUME Inv PROVE RunsOnce
  <1> USE DEF Inv
  <1> DEFINE cur == IF current = NoWork THEN <<>> ELSE <<current>>
             line == served \o cur \o queue
  <1>1. /\ served \in Seq(Messages) /\ queue \in Seq(Messages) /\ cur \in Seq(Messages)
        /\ Len(served) \in Nat /\ Len(queue) \in Nat
    BY MailboxAssumption DEF TypeOK
  <1>2. \/ current = NoWork /\ Len(cur) = 0 /\ Len(queue) = 0
        \/ current \in Messages /\ current # NoWork /\ Len(cur) = 1 /\ cur[1] = current
    BY DEF TypeOK, RunnerInv
  <1> HIDE DEF cur
  <1>3. served \o cur \in Seq(Messages) /\ Len(served \o cur) = Len(served) + Len(cur)
    BY <1>1
  <1>4. DOMAIN line = 1..(Len(served) + Len(cur) + Len(queue))
    BY <1>1, <1>2, <1>3
  <1>5. ASSUME NEW i \in DOMAIN line
        PROVE  \/ i \in 1..Len(served) /\ line[i] = served[i]
               \/ current # NoWork /\ i = Len(served) + 1 /\ line[i] = current
               \/ /\ i - Len(served) - Len(cur) \in 1..Len(queue)
                  /\ line[i] = queue[i - Len(served) - Len(cur)]
    BY <1>1, <1>2, <1>3, <1>4, <1>5
  <1>6. ASSUME NEW i \in DOMAIN line
        PROVE  /\ i \in 1..Len(served) => pc[line[i]] = "done"
               /\ current # NoWork /\ i = Len(served) + 1 => pc[line[i]] \in ActivePhases
               /\ i \notin 1..Len(served) /\ ~(current # NoWork /\ i = Len(served) + 1)
                     => pc[line[i]] = "none" /\ reply[line[i]] = "accepted"
               /\ line[i] \in Messages
    <2>1. CASE i \in 1..Len(served) /\ line[i] = served[i]
      BY <2>1, <1>1 DEF ServedInv, TypeOK
    <2>2. CASE current # NoWork /\ i = Len(served) + 1 /\ line[i] = current
      BY <2>2, <1>1, <1>2 DEF RunnerInv
    <2>3. CASE /\ i - Len(served) - Len(cur) \in 1..Len(queue)
               /\ line[i] = queue[i - Len(served) - Len(cur)]
      BY <2>3, <1>1, <1>2, <1>4 DEF QueueInv
    <2> QED BY <1>5, <2>1, <2>2, <2>3
  <1>7. ASSUME NEW i \in DOMAIN line PROVE reply[line[i]] = "accepted"
    BY <1>6 DEF AcceptedInv, ActivePhases
  <1>8. ASSUME NEW i \in DOMAIN line, NEW j \in DOMAIN line, line[i] = line[j]
        PROVE  i = j
    <2>1. CASE i \in 1..Len(served)
      <3>1. j \in 1..Len(served)
        BY <2>1, <1>6, <1>8, "done" \notin ActivePhases DEF ActivePhases
      <3> QED BY <2>1, <3>1, <1>5, <1>8, <1>1 DEF ServedInv
    <2>2. CASE current # NoWork /\ i = Len(served) + 1
      BY <2>2, <1>6, <1>8, <1>1 DEF ActivePhases
    <2>3. CASE i \notin 1..Len(served) /\ ~(current # NoWork /\ i = Len(served) + 1)
      <3>1. j \notin 1..Len(served) /\ ~(current # NoWork /\ j = Len(served) + 1)
        BY <2>3, <1>6, <1>8 DEF ActivePhases
      <3>2. /\ i - Len(served) - Len(cur) \in 1..Len(queue)
            /\ line[i] = queue[i - Len(served) - Len(cur)]
        BY <2>3, <1>5
      <3>3. /\ j - Len(served) - Len(cur) \in 1..Len(queue)
            /\ line[j] = queue[j - Len(served) - Len(cur)]
        BY <3>1, <1>5
      <3>4. i - Len(served) - Len(cur) = j - Len(served) - Len(cur)
        BY <3>2, <3>3, <1>8 DEF QueueInv
      <3> QED BY <3>4, <1>1, <1>2, <1>4
    <2> QED BY <2>1, <2>2, <2>3
  <1> QED BY <1>7, <1>8 DEF RunsOnce, cur

\* No accepted subtask is run twice or kept in two places; no refused one is.
THEOREM RunsOnceHolds == Spec => []RunsOnce
  BY Invariance, InvRunsOnce, PTL

-----------------------------------------------------------------------------
(* Refinement: the mailbox implements the serial worker.                   *)

\* The two shapes of the backlog, and its length.
LEMMA BacklogShape ==
    ASSUME Inv
    PROVE  \/ current = NoWork /\ queue = <<>> /\ Backlog = <<>>
           \/ /\ current \in Messages /\ current # NoWork
              /\ Backlog = <<current>> \o queue
              /\ Len(Backlog) = 1 + Len(queue)
              /\ Head(Backlog) = current
              /\ Tail(Backlog) = queue
  <1>1. queue \in Seq(Messages) /\ current \in Messages \union {NoWork}
    BY DEF Inv, TypeOK
  <1>2. CASE current = NoWork
    BY <1>2 DEF Inv, RunnerInv, Backlog
  <1>3. CASE current \in Messages /\ current # NoWork
    <2>1. Backlog = <<current>> \o queue
      BY <1>3 DEF Backlog
    <2>2. Len(<<current>> \o queue) = 1 + Len(queue) /\ Head(<<current>> \o queue) = current
      BY <1>1, <1>3
    <2>3. Tail(<<current>> \o queue) = queue
      <3>1. Tail(<<current>> \o queue) \in Seq(Messages)
        BY <1>1, <1>3, <2>2
      <3>2. Len(Tail(<<current>> \o queue)) = Len(queue)
        BY <1>1, <1>3, <2>2
      <3>3. \A i \in 1..Len(queue) : Tail(<<current>> \o queue)[i] = queue[i]
        BY <1>1, <1>3, <2>2
      <3> QED BY <1>1, <3>1, <3>2, <3>3, SeqEqual
    <2> QED BY <1>3, <2>1, <2>2, <2>3
  <1> QED BY <1>1, <1>2, <1>3

\* Accepting a message appends it to the backlog, within the capacity.
LEMMA AcceptRefines ==
    ASSUME Inv, NEW m \in Messages, AcceptIdle(m) \/ AcceptQueued(m)
    PROVE  Worker!Accept(m)
  <1> USE MailboxAssumption DEF Worker!Accept
  <1>1. queue \in Seq(Messages)
    BY DEF Inv, TypeOK
  <1>2. CASE AcceptIdle(m)
    <2>1. current = NoWork /\ queue = <<>> /\ Backlog = <<>>
      BY <1>2, BacklogShape DEF AcceptIdle
    <2>2. Backlog' = <<m>> \o <<>>
      BY <1>2, <2>1 DEF AcceptIdle, Backlog
    <2>3. <<m>> \o <<>> = Append(<<>>, m)
      OBVIOUS
    <2> QED BY <1>2, <2>1, <2>2, <2>3 DEF AcceptIdle
  <1>3. CASE AcceptQueued(m)
    <2>1. current \in Messages /\ Backlog = <<current>> \o queue /\ Len(Backlog) = 1 + Len(queue)
      BY <1>3, BacklogShape DEF AcceptQueued
    <2>2. Backlog' = <<current>> \o Append(queue, m)
      BY <1>3 DEF AcceptQueued, Backlog
    <2>3. <<current>> \o Append(queue, m) = Append(<<current>> \o queue, m)
      BY <1>1, <2>1
    <2>4. Len(Backlog) < 1 + QueueSize
      BY <1>1, <1>3, <2>1 DEF AcceptQueued
    <2> QED BY <1>3, <2>1, <2>2, <2>3, <2>4 DEF AcceptQueued
  <1> QED BY <1>2, <1>3

\* The end of a run serves the head of the backlog.
LEMMA ReleaseRefines ==
    ASSUME Inv, NEW m \in Messages, Release(m), pc[m] = "reporting"
    PROVE  Worker!Serve
  <1> USE DEF Inv
  <1>1. m = current /\ work[m] = m /\ current # NoWork /\ queue \in Seq(Messages)
    BY MailboxAssumption DEF RunnerInv, ActivePhases, TypeOK
  <1>2. /\ Backlog = <<current>> \o queue /\ Len(Backlog) = 1 + Len(queue)
        /\ Head(Backlog) = current /\ Tail(Backlog) = queue
    BY <1>1, BacklogShape
  <1>3. Backlog # <<>>
    BY <1>1, <1>2
  <1>4. served' = Append(served, Head(Backlog))
    BY <1>1, <1>2 DEF Release
  <1>5. Backlog' = queue
    <2>1. CASE queue = <<>>
      BY <2>1 DEF Release, Backlog
    <2>2. CASE queue # <<>>
      <3>1. Head(queue) \in Messages /\ Head(queue) # NoWork
        BY <1>1, <2>2, MailboxAssumption, HeadTailProperties
      <3>2. Backlog' = <<Head(queue)>> \o Tail(queue)
        BY <2>2, <3>1 DEF Release, Backlog
      <3> QED BY <1>1, <2>2, <3>2, HeadTailProperties
    <2> QED BY <2>1, <2>2
  <1> QED BY <1>2, <1>3, <1>4, <1>5 DEF Worker!Serve

\* Every step of the mailbox is a step of the worker, or leaves it alone.
LEMMA StepRefines ==
    ASSUME Inv, [Next]_vars
    PROVE  [Worker!Next]_(Worker!vars)
  <1> USE DEF Worker!Next, Worker!vars
  <1>1. ASSUME NEW m \in Messages, AcceptIdle(m) \/ AcceptQueued(m)
        PROVE  Worker!Next
    BY <1>1, AcceptRefines
  <1>2. ASSUME NEW m \in Messages, RejectSelf(m) \/ RejectBusy(m)
        PROVE  UNCHANGED Worker!vars
    BY <1>2 DEF RejectSelf, RejectBusy, Backlog
  <1>3. ASSUME NEW m \in Messages,
               \/ StartRunner(m) \/ ExecutorReturns(m) \/ UploadDone(m)
               \/ RunRaises(m) \/ RetryReport(m)
        PROVE  UNCHANGED Worker!vars
    BY <1>3 DEF StartRunner, ExecutorReturns, UploadDone, RunRaises, RetryReport,
                StartReport, Backlog
  <1>4. ASSUME NEW m \in Messages, ReportOk(m) \/ ReportFails(m)
        PROVE  Worker!Next \/ UNCHANGED Worker!vars
    <2>1. pc[m] = "reporting"
      BY <1>4 DEF ReportOk, ReportFails
    <2>2. CASE Release(m)
      BY <2>1, <2>2, ReleaseRefines
    <2>3. CASE UNCHANGED <<current, queue, served>>
      BY <2>3 DEF Backlog
    <2> QED BY <1>4, <2>2, <2>3 DEF ReportOk, ReportFails
  <1>5. CASE Restart
    BY <1>5 DEF Restart, Worker!Restart, Backlog
  <1>6. CASE UNCHANGED vars
    BY <1>6 DEF vars, Backlog
  <1> QED BY <1>1, <1>2, <1>3, <1>4, <1>5, <1>6 DEF Next, Mailbox, Runner

\* The mailbox is a bounded FIFO serial worker, whatever its queue size, the
\* failures of its runs and reports, and its restarts.
THEOREM RefinesWorker == Spec => ImplementsWorker
  <1>1. Init => Worker!Init
    BY DEF Init, Worker!Init, Backlog
  <1>2. Inv /\ [Next]_vars => [Worker!Next]_(Worker!vars)
    BY StepRefines
  <1> QED BY <1>1, <1>2, Invariance, PTL DEF Spec, ImplementsWorker, Worker!Spec

-----------------------------------------------------------------------------
(* The runs in the mailbox.                                                *)

\* The types of a run, and that an object's key is that of its file.
RunTypeOK ==
    /\ dirs \subseteq Messages /\ strays \subseteq Messages /\ stuck \subseteq Messages
    /\ uses \in [Messages -> Executors \union {"none"}]
    /\ step \in [Messages -> 0..(MaxSteps - 1)]
    /\ files \in [Messages -> SUBSET Files]
    /\ due \in [Messages -> SUBSET Files]
    /\ sent \in [Messages -> SUBSET Files]
    /\ reported \in [Messages -> SUBSET Keys]
    /\ DOMAIN objects \subseteq Messages \X Keys
    /\ \A o \in DOMAIN objects : objects[o] \in Files /\ KeyOf[objects[o]] = o[2]

\* The keys that these files are stored under.
KeysOf(names) == {KeyOf[f] : f \in names}

\* What is stored for m, and what its result says of it, by the phase of its run.
StoreInv(m) ==
    /\ pc[m] \in {"none", "created", "running"} => StoredFor(m) = {} /\ sent[m] = {}
    /\ pc[m] = "uploading" => StoredFor(m) = KeysOf(sent[m])
    /\ pc[m] \in {"none", "created", "running", "uploading"} => result[m] = "none"
    /\ result[m] = "COMPLETED" => reported[m] = StoredFor(m)
    /\ result[m] # "COMPLETED" => reported[m] = {}

\* No file of m is lost, unless a process was left behind.
WholeInv(m) ==
    m \notin strays =>
        /\ pc[m] = "uploading" => files[m] = due[m] /\ sent[m] \subseteq due[m]
        /\ result[m] = "COMPLETED" => reported[m] = KeysOf(due[m])

\* Its workspace is there only while it runs, or if it could not be removed.
GoneInv(m) ==
    m \in dirs => m \in strays \union stuck \/ pc[m] \in {"running", "uploading", "lost"}

\* The inductive invariant of a run, besides that of its mailbox.
RunInv == RunTypeOK /\ \A m \in Messages : StoreInv(m) /\ WholeInv(m) /\ GoneInv(m)

-----------------------------------------------------------------------------
(* A step of the run is a step of the mailbox.                             *)

\* Each action of the run calls one of the mailbox or leaves its variables alone.
LEMMA StepIsMailbox == ASSUME [RunNext]_runVars PROVE [Next]_vars
  <1>1. ASSUME NEW m \in Messages, Work(m) PROVE Runner(m) \/ UNCHANGED vars
    BY <1>1 DEF Work, BeginRun, ToolStep, StepsExhausted, AnswerText, OpenCodeReturns,
         RunFails, PutFile, UploadRaises, UploadEnds, Runner
  <1>2. ASSUME NEW m \in Messages, Reports(m) PROVE Runner(m)
    BY <1>2 DEF Reports, Runner
  <1>3. ASSUME NEW m \in Messages, StrayWrites(m) PROVE UNCHANGED vars
    BY <1>3 DEF StrayWrites
  <1>4. CASE RestartHost
    BY <1>4 DEF RestartHost, Next
  <1>5. CASE UNCHANGED runVars
    BY <1>5 DEF runVars
  <1> QED BY <1>1, <1>2, <1>3, <1>4, <1>5 DEF RunNext, Next

-----------------------------------------------------------------------------
(* The rows of the messages that a step is not about.                      *)

\* The phase of k as the mailbox may change it without a step of its run.
Passes(k) ==
    \/ pc'[k] \in {pc[k], "lost"}
    \/ pc[k] = "none" /\ pc'[k] = "created"
    \/ pc[k] \in {"reporting", "backoff"} /\ pc'[k] \in {"reporting", "backoff", "done"}

\* All the invariant says of one message.
Row(k) == StoreInv(k) /\ WholeInv(k) /\ GoneInv(k)

\* A step leaves what a row speaks of as it is.
SameRow(k) ==
    /\ files'[k] = files[k] /\ due'[k] = due[k] /\ sent'[k] = sent[k]
    /\ reported'[k] = reported[k] /\ result'[k] = result[k]
    /\ StoredFor(k)' = StoredFor(k)
    /\ (k \in strays' <=> k \in strays) /\ (k \in stuck' <=> k \in stuck)
    /\ (k \in dirs' <=> k \in dirs)

\* A row that a step leaves alone stays true, however the mailbox moves its message.
LEMMA SameRowKeeps ==
    ASSUME NEW k \in Messages, Row(k), Passes(k), SameRow(k)
    PROVE  Row(k)'
  <1> USE DEF Row, SameRow, Passes
  <1>1. StoreInv(k)'
    BY DEF StoreInv, KeysOf
  <1>2. WholeInv(k)'
    BY DEF WholeInv, KeysOf
  <1>3. GoneInv(k)'
    BY DEF GoneInv
  <1> QED BY <1>1, <1>2, <1>3

\* The mailbox moves other messages only so, and leaves their results alone.
LEMMA OthersPass ==
    ASSUME Inv, NEW m \in Messages, Mailbox(m) \/ Runner(m), NEW k \in Messages, k # m
    PROVE  Passes(k) /\ result'[k] = result[k]
  <1>1. pc \in [Messages -> Phases] /\ result \in [Messages -> Outcomes \union {"none"}]
    BY DEF Inv, TypeOK
  <1>2. CASE Mailbox(m)
    BY <1>1, <1>2 DEF Mailbox, RejectSelf, AcceptIdle, AcceptQueued, RejectBusy, Passes
  <1>3. CASE \/ StartRunner(m) \/ ExecutorReturns(m) \/ UploadDone(m) \/ RunRaises(m)
             \/ RetryReport(m)
    BY <1>1, <1>3 DEF StartRunner, ExecutorReturns, UploadDone, RunRaises, StartReport,
                     RetryReport, Passes
  <1>4. CASE ReportOk(m) \/ ReportFails(m)
    <2>1. result' = result
      BY <1>4 DEF ReportOk, ReportFails
    <2>2. pc'[k] = pc[k] \/ (queue # <<>> /\ k = Head(queue) /\ pc'[k] = "created")
      BY <1>1, <1>4 DEF ReportOk, ReportFails, Release
    <2>3. ASSUME queue # <<>>, k = Head(queue) PROVE pc[k] = "none"
      <3>1. queue \in Seq(Messages)
        BY DEF Inv, TypeOK
      <3>2. k = queue[1] /\ 1 \in 1..Len(queue)
        BY <2>3, <3>1
      <3> QED BY <3>2 DEF Inv, QueueInv
    <2> QED BY <2>1, <2>2, <2>3 DEF Passes
  <1> QED BY <1>2, <1>3, <1>4 DEF Runner

\* So it does the message itself, when it comes in and when it is reported.
LEMMA OwnPasses ==
    ASSUME Inv, NEW m \in Messages,
           Mailbox(m) \/ ReportOk(m) \/ ReportFails(m) \/ RetryReport(m)
    PROVE  Passes(m) /\ result'[m] = result[m]
  <1>1. pc \in [Messages -> Phases] /\ queue \in Seq(Messages)
    BY DEF Inv, TypeOK
  <1>2. CASE Mailbox(m)
    <2>1. reply[m] = "none" => pc[m] = "none"
      BY DEF Inv, AcceptedInv
    <2> QED BY <1>1, <1>2, <2>1 DEF Mailbox, RejectSelf, AcceptIdle, AcceptQueued,
                                   RejectBusy, Passes
  <1>3. CASE ReportOk(m) \/ ReportFails(m)
    <2>1. pc[m] = "reporting" /\ result' = result
      BY <1>3 DEF ReportOk, ReportFails
    <2>2. queue # <<>> => Head(queue) # m
      <3> SUFFICES ASSUME queue # <<>> PROVE Head(queue) # m
        OBVIOUS
      <3>1. Head(queue) = queue[1] /\ 1 \in 1..Len(queue)
        BY <1>1
      <3> QED BY <2>1, <3>1 DEF Inv, QueueInv
    <2>3. pc'[m] \in {"backoff", "done"}
      BY <1>1, <1>3, <2>2 DEF ReportOk, ReportFails, Release
    <2> QED BY <2>1, <2>3 DEF Passes
  <1>4. CASE RetryReport(m)
    BY <1>1, <1>4 DEF RetryReport, Passes
  <1> QED BY <1>2, <1>3, <1>4

\* A step that leaves the rows of the others as they are keeps them true.
LEMMA OthersKeep ==
    ASSUME Inv, RunInv, NEW m \in Messages, Mailbox(m) \/ Runner(m) \/ UNCHANGED vars,
           NEW k \in Messages, k # m,
           files'[k] = files[k] /\ due'[k] = due[k] /\ sent'[k] = sent[k],
           reported'[k] = reported[k] /\ StoredFor(k)' = StoredFor(k),
           (k \in strays' <=> k \in strays) /\ (k \in stuck' <=> k \in stuck),
           k \in dirs' <=> k \in dirs
    PROVE  Row(k)'
  <1>1. Passes(k) /\ result'[k] = result[k]
    <2>1. CASE UNCHANGED vars
      BY <2>1 DEF vars, Passes
    <2> QED BY <2>1, OthersPass
  <1>2. Row(k)
    BY DEF RunInv, Row
  <1> QED BY <1>1, <1>2, SameRowKeeps DEF SameRow

-----------------------------------------------------------------------------
(* One file is stored.                                                     *)

\* Under the key of its name, which is one of its own message.
LEMMA PutKeeps ==
    ASSUME RunTypeOK, NEW m \in Messages, NEW f \in Uploadable(m), objects' = Stored(m, f)
    PROVE  /\ DOMAIN objects' \subseteq Messages \X Keys
           /\ \A o \in DOMAIN objects' : objects'[o] \in Files /\ KeyOf[objects'[o]] = o[2]
           /\ \A k \in Messages : k # m => StoredFor(k)' = StoredFor(k)
           /\ StoredFor(m)' = StoredFor(m) \union {KeyOf[f]}
  <1>1. f \in Files /\ KeyOf[f] \in Keys
    BY RunAssumption DEF Uploadable, RunTypeOK
  <1>2. /\ DOMAIN objects' = DOMAIN objects \union {<<m, KeyOf[f]>>}
        /\ objects'[<<m, KeyOf[f]>>] = f
        /\ \A o \in DOMAIN objects : o # <<m, KeyOf[f]>> => objects'[o] = objects[o]
    BY DEF Stored
  <1>3. DOMAIN objects' \subseteq Messages \X Keys
    BY <1>1, <1>2 DEF RunTypeOK
  <1>4. ASSUME NEW o \in DOMAIN objects'
        PROVE  objects'[o] \in Files /\ KeyOf[objects'[o]] = o[2]
    <2>1. CASE o = <<m, KeyOf[f]>>
      BY <1>1, <1>2, <2>1
    <2>2. CASE o # <<m, KeyOf[f]>>
      BY <1>2, <1>4, <2>2 DEF RunTypeOK
    <2> QED BY <2>1, <2>2
  <1>5. ASSUME NEW k \in Messages, k # m PROVE StoredFor(k)' = StoredFor(k)
    BY <1>2, <1>5 DEF StoredFor
  <1>6. StoredFor(m)' = StoredFor(m) \union {KeyOf[f]}
    BY <1>1, <1>2 DEF StoredFor
  <1> QED BY <1>3, <1>4, <1>5, <1>6

-----------------------------------------------------------------------------
(* Each step keeps the invariant: the types, the row of the message it is  *)
(* about, and the rows of the others.                                      *)

\* No run has begun.
LEMMA RunInitInv == ASSUME RunInit PROVE RunInv
  <1> USE RunAssumption DEF RunInit, Init
  <1>0. DOMAIN objects = {} /\ 0 \in 0..(MaxSteps - 1)
    BY DEF RunInit
  <1>1. RunTypeOK
    BY <1>0 DEF RunTypeOK
  <1>2. ASSUME NEW m \in Messages PROVE StoredFor(m) = {}
    BY <1>0 DEF StoredFor
  <1>3. ASSUME NEW m \in Messages PROVE StoreInv(m) /\ WholeInv(m) /\ GoneInv(m)
    BY <1>2, <1>3 DEF StoreInv, WholeInv, GoneInv
  <1> QED BY <1>1, <1>3 DEF RunInv

\* Messages come in, and reports go out.
LEMMA ReportsKeep ==
    ASSUME Inv, RunInv, NEW m \in Messages, UNCHANGED workVars,
           Mailbox(m) \/ ReportOk(m) \/ ReportFails(m) \/ RetryReport(m)
    PROVE  RunInv'
  <1> USE DEF workVars, storeVars, runtimeVars
  <1>1. RunTypeOK'
    BY DEF RunInv, RunTypeOK
  <1>2. \A k \in Messages : StoredFor(k)' = StoredFor(k)
    BY DEF StoredFor
  <1>3. Row(m)'
    <2>1. SameRow(m) /\ Passes(m)
      BY <1>2, OwnPasses DEF SameRow
    <2> QED BY <2>1, SameRowKeeps DEF RunInv, Row
  <1>4. ASSUME NEW k \in Messages, k # m PROVE Row(k)'
    <2>1. Mailbox(m) \/ Runner(m)
      BY DEF Runner
    <2> QED BY <1>2, <1>4, <2>1, OthersKeep
  <1> QED BY <1>1, <1>3, <1>4 DEF RunInv, Row

\* A workspace is made, and the executor starts in it.
LEMMA BeginRunKeeps ==
    ASSUME Inv, RunInv, NEW m \in Messages, BeginRun(m)
    PROVE  RunInv'
  <1> USE DEF BeginRun, storeVars
  <1>1. RunTypeOK'
    BY DEF RunInv, RunTypeOK
  <1>2. \A k \in Messages : StoredFor(k)' = StoredFor(k)
    BY DEF StoredFor
  <1>3. pc[m] = "created" /\ pc'[m] = "running" /\ result' = result
    <2>1. m = current /\ current # NoWork
      BY MailboxAssumption DEF StartRunner, Inv, RunnerInv, ActivePhases
    <2> QED BY <2>1 DEF StartRunner, Inv, TypeOK
  <1>4. Row(m)'
    BY <1>2, <1>3 DEF RunInv, Row, StoreInv, WholeInv, GoneInv
  <1>5. ASSUME NEW k \in Messages, k # m PROVE Row(k)'
    <2>1. Runner(m)
      BY DEF Runner
    <2> QED BY <1>2, <1>5, <2>1, OthersKeep
  <1> QED BY <1>1, <1>4, <1>5 DEF RunInv, Row

\* A tool changes files, and may leave a process behind.
LEMMA ToolStepKeeps ==
    ASSUME Inv, RunInv, NEW m \in Messages, ToolStep(m)
    PROVE  RunInv'
  <1> USE DEF ToolStep, WorkIn, LeaveBehind, storeVars
  <1>1. RunTypeOK'
    BY RunAssumption DEF RunInv, RunTypeOK
  <1>2. \A k \in Messages : StoredFor(k)' = StoredFor(k)
    BY DEF StoredFor
  <1>3. pc[m] = "running" /\ pc' = pc /\ result' = result
    BY DEF InExecutor, vars
  <1>4. Row(m)'
    BY <1>2, <1>3 DEF RunInv, Row, StoreInv, WholeInv, GoneInv
  <1>5. ASSUME NEW k \in Messages, k # m PROVE Row(k)'
    BY <1>2, <1>5, OthersKeep DEF RunInv, RunTypeOK
  <1> QED BY <1>1, <1>4, <1>5 DEF RunInv, Row

\* The executor returned: text, an echo, or the end of opencode.
LEMMA ReturnsKeep ==
    ASSUME Inv, RunInv, NEW m \in Messages, AnswerText(m) \/ OpenCodeReturns(m)
    PROVE  RunInv'
  <1> USE DEF AnswerText, OpenCodeReturns, EndExecutor, WorkIn, LeaveBehind, storeVars
  <1>1. RunTypeOK'
    BY RunAssumption DEF RunInv, RunTypeOK
  <1>2. \A k \in Messages : StoredFor(k)' = StoredFor(k)
    BY DEF StoredFor
  <1>3. pc[m] = "running" /\ pc'[m] = "uploading" /\ result' = result /\ Runner(m)
    BY DEF ExecutorReturns, Runner, Inv, TypeOK
  <1>4. due'[m] = files'[m] /\ sent' = sent /\ reported' = reported
    BY DEF RunInv, RunTypeOK
  <1>5. Row(m)'
    <2>1. StoreInv(m)'
      BY <1>2, <1>3, <1>4 DEF RunInv, StoreInv, KeysOf
    <2>2. WholeInv(m)'
      BY <1>3, <1>4 DEF RunInv, StoreInv, WholeInv
    <2>3. GoneInv(m)'
      BY <1>3 DEF GoneInv
    <2> QED BY <2>1, <2>2, <2>3 DEF Row
  <1>6. ASSUME NEW k \in Messages, k # m PROVE Row(k)'
    BY <1>2, <1>3, <1>6, OthersKeep DEF RunInv, RunTypeOK
  <1> QED BY <1>1, <1>5, <1>6 DEF RunInv, Row

\* A failed run stores nothing more that its result would name, and cleans up.
LEMMA FailsKeeps ==
    ASSUME Inv, RunInv, NEW m \in Messages, RunRaises(m), CleanUp(m),
           UNCHANGED <<due, reported>>,
           strays' \in {strays, strays \union {m}}, stuck' \in {stuck, stuck \union {m}},
           uses' \in [Messages -> Executors \union {"none"}],
           step' \in [Messages -> 0..(MaxSteps - 1)],
           UNCHANGED objects \/ \E f \in Uploadable(m) : objects' = Stored(m, f)
    PROVE  RunInv'
  <1>1. pc[m] \in {"running", "uploading"} /\ pc'[m] = "reporting"
        /\ result'[m] = "FAILED" /\ Runner(m)
    BY DEF RunRaises, StartReport, Runner, Inv, TypeOK
  <1>2. /\ DOMAIN objects' \subseteq Messages \X Keys
        /\ \A o \in DOMAIN objects' : objects'[o] \in Files /\ KeyOf[objects'[o]] = o[2]
        /\ \A k \in Messages : k # m => StoredFor(k)' = StoredFor(k)
    <2>1. CASE UNCHANGED objects
      BY <2>1 DEF RunInv, RunTypeOK, StoredFor
    <2>2. CASE \E f \in Uploadable(m) : objects' = Stored(m, f)
      BY <2>2, PutKeeps DEF RunInv
    <2> QED BY <2>1, <2>2
  <1>3. RunTypeOK'
    <2>1. dirs' \subseteq Messages /\ strays' \subseteq Messages /\ stuck' \subseteq Messages
      BY DEF RunInv, RunTypeOK, CleanUp
    <2>2. files' \in [Messages -> SUBSET Files] /\ sent' \in [Messages -> SUBSET Files]
      BY DEF RunInv, RunTypeOK, CleanUp
    <2> QED BY <1>2, <2>1, <2>2 DEF RunInv, RunTypeOK
  <1>4. Row(m)'
    <2>1. reported'[m] = {}
      BY <1>1 DEF RunInv, StoreInv
    <2>2. m \in dirs' => m \in strays' \union stuck'
      BY DEF CleanUp
    <2> QED BY <1>1, <2>1, <2>2 DEF Row, StoreInv, WholeInv, GoneInv
  <1>5. ASSUME NEW k \in Messages, k # m PROVE Row(k)'
    BY <1>1, <1>2, <1>5, OthersKeep DEF RunInv, RunTypeOK, CleanUp
  <1> QED BY <1>3, <1>4, <1>5 DEF RunInv, Row

\* The three ways a run fails: out of steps, an executor or an upload that raises.
LEMMA RunEndsBadly ==
    ASSUME Inv, RunInv, NEW m \in Messages,
           StepsExhausted(m) \/ RunFails(m) \/ UploadRaises(m)
    PROVE  RunInv'
  <1> USE DEF EndExecutor, LeaveBehind, storeVars, runtimeVars
  <1>1. 0 \in 0..(MaxSteps - 1)
    BY RunAssumption
  <1>2. uses \in [Messages -> Executors \union {"none"}] /\ step \in [Messages -> 0..(MaxSteps - 1)]
    BY DEF RunInv, RunTypeOK
  <1>3. CASE StepsExhausted(m)
    BY <1>1, <1>2, <1>3, FailsKeeps DEF StepsExhausted
  <1>4. CASE RunFails(m)
    BY <1>1, <1>2, <1>4, FailsKeeps DEF RunFails
  <1>5. CASE UploadRaises(m)
    BY <1>2, <1>5, FailsKeeps DEF UploadRaises
  <1> QED BY <1>3, <1>4, <1>5

\* The next file is stored.
LEMMA PutFileKeeps ==
    ASSUME Inv, RunInv, NEW m \in Messages, NEW f \in Files, PutFile(m, f)
    PROVE  RunInv'
  <1> USE DEF PutFile, runtimeVars
  <1>1. f \in Uploadable(m) /\ objects' = Stored(m, f) /\ RunTypeOK
    BY DEF RunInv
  <1>2. RunTypeOK'
    BY <1>1, PutKeeps DEF RunTypeOK
  <1>3. /\ pc[m] = "uploading" /\ pc' = pc /\ result' = result /\ reported' = reported
        /\ sent'[m] = sent[m] \union {f} /\ files' = files /\ due' = due
    BY <1>1 DEF vars, RunTypeOK
  <1>4. StoredFor(m)' = KeysOf(sent'[m])
    BY <1>1, <1>3, PutKeeps DEF RunInv, StoreInv, KeysOf
  <1>5. Row(m)'
    <2>1. StoreInv(m)'
      BY <1>3, <1>4 DEF RunInv, StoreInv, KeysOf
    <2>2. WholeInv(m)'
      BY <1>1, <1>3 DEF RunInv, WholeInv, Uploadable
    <2>3. GoneInv(m)'
      BY <1>3 DEF GoneInv
    <2> QED BY <2>1, <2>2, <2>3 DEF Row
  <1>6. ASSUME NEW k \in Messages, k # m PROVE Row(k)'
    BY <1>1, <1>6, PutKeeps, OthersKeep DEF RunTypeOK
  <1> QED BY <1>2, <1>5, <1>6 DEF RunInv, Row

\* What was there throughout is stored, so all of it unless a process changed it.
LEMMA UploadEndsKeeps ==
    ASSUME Inv, RunInv, NEW m \in Messages, UploadEnds(m)
    PROVE  RunInv'
  <1> USE DEF UploadEnds, runtimeVars
  <1>1. /\ pc[m] = "uploading" /\ pc'[m] = "reporting" /\ result'[m] = "COMPLETED"
        /\ reported'[m] = KeysOf(sent[m]) /\ Runner(m)
    BY DEF UploadDone, StartReport, Runner, Inv, TypeOK, RunInv, RunTypeOK, KeysOf
  <1>2. \A k \in Messages : StoredFor(k)' = StoredFor(k)
    BY DEF StoredFor
  <1>3. KeysOf(sent[m]) = StoredFor(m) /\ StoredFor(m) \subseteq Keys
    BY <1>1 DEF RunInv, StoreInv, StoredFor
  <1>4. RunTypeOK'
    BY <1>3 DEF RunInv, RunTypeOK, CleanUp, KeysOf
  <1>5. Row(m)'
    <2>1. StoreInv(m)'
      BY <1>1, <1>2, <1>3 DEF StoreInv
    <2>2. WholeInv(m)'
      <3>1. m \notin strays => sent[m] = due[m]
        BY <1>1 DEF RunInv, WholeInv
      <3> QED BY <1>1, <3>1 DEF WholeInv
    <2>3. GoneInv(m)'
      BY DEF CleanUp, GoneInv
    <2> QED BY <2>1, <2>2, <2>3 DEF Row
  <1>6. ASSUME NEW k \in Messages, k # m PROVE Row(k)'
    BY <1>1, <1>2, <1>6, OthersKeep DEF RunInv, RunTypeOK, CleanUp
  <1> QED BY <1>4, <1>5, <1>6 DEF RunInv, Row

\* A process left behind changes files, or makes the workspace again.
LEMMA StrayWritesKeeps ==
    ASSUME Inv, RunInv, NEW m \in Messages, StrayWrites(m)
    PROVE  RunInv'
  <1> USE DEF StrayWrites, runtimeVars, storeVars
  <1>1. RunTypeOK'
    BY DEF RunInv, RunTypeOK
  <1>2. \A k \in Messages : StoredFor(k)' = StoredFor(k)
    BY DEF StoredFor
  <1>3. Row(m)'
    BY <1>2 DEF RunInv, Row, StoreInv, WholeInv, GoneInv, vars
  <1>4. ASSUME NEW k \in Messages, k # m PROVE Row(k)'
    BY <1>2, <1>4, OthersKeep DEF RunInv, RunTypeOK
  <1> QED BY <1>1, <1>3, <1>4 DEF RunInv, Row

\* The Host is killed: what it was about is lost, what it stored stays.
LEMMA RestartHostKeeps ==
    ASSUME Inv, RunInv, RestartHost
    PROVE  RunInv'
  <1> USE DEF RestartHost, Restart, workVars, runtimeVars, storeVars
  <1>1. RunTypeOK'
    BY DEF RunInv, RunTypeOK
  <1>2. ASSUME NEW k \in Messages PROVE Row(k)'
    <2>1. Passes(k)
      BY DEF Passes
    <2>2. SameRow(k)
      BY DEF SameRow, StoredFor
    <2> QED BY <2>1, <2>2, SameRowKeeps DEF RunInv, Row
  <1> QED BY <1>1, <1>2 DEF RunInv, Row

\* Every step keeps the invariant.
LEMMA RunNextInv == ASSUME Inv, RunInv, [RunNext]_runVars PROVE RunInv'
  <1>1. ASSUME NEW m \in Messages, Work(m) PROVE RunInv'
    BY <1>1, BeginRunKeeps, ToolStepKeeps, ReturnsKeep, RunEndsBadly, PutFileKeeps,
       UploadEndsKeeps DEF Work
  <1>2. ASSUME NEW m \in Messages, Reports(m) \/ (Mailbox(m) /\ UNCHANGED workVars)
        PROVE  RunInv'
    BY <1>2, ReportsKeep DEF Reports
  <1>3. ASSUME NEW m \in Messages, StrayWrites(m) PROVE RunInv'
    BY <1>3, StrayWritesKeeps
  <1>4. CASE RestartHost
    BY <1>4, RestartHostKeeps
  <1>5. CASE UNCHANGED runVars
    BY <1>5 DEF runVars, vars, workVars, runtimeVars, storeVars, RunInv, RunTypeOK, StoreInv,
                WholeInv, GoneInv, StoredFor
  <1> QED BY <1>1, <1>2, <1>3, <1>4, <1>5 DEF RunNext

-----------------------------------------------------------------------------
(* The theorems.                                                           *)

\* Whatever executors, tools, uploads and stray processes do, the agent they run
\* in is the mailbox of ChildMailbox: with fairness, which is left to TLC, this is
\* ImplementsMailbox.
THEOREM RunIsMailbox == RunSpec => Spec
  <1>1. RunInit => Init
    BY DEF RunInit
  <1>2. [RunNext]_runVars => [Next]_vars
    BY StepIsMailbox
  <1> QED BY <1>1, <1>2, PTL DEF RunSpec, Spec

\* The run, like the mailbox it runs in, serves its messages one after the other.
THEOREM RunRefinesWorker == RunSpec => ImplementsWorker
  BY RunIsMailbox, RefinesWorker

\* Every reachable state of a run satisfies both inductive invariants.
THEOREM RunInvariance == RunSpec => [](Inv /\ RunInv)
  <1>1. RunInit => Inv /\ RunInv
    BY RunInitInv, InitInv DEF RunInit
  <1>2. Inv /\ RunInv /\ [RunNext]_runVars => Inv' /\ RunInv'
    BY StepIsMailbox, NextInv, RunNextInv
  <1> QED BY <1>1, <1>2, PTL DEF RunSpec

\* A COMPLETED result names exactly the objects stored for its subtask, each a
\* file of that name, and a FAILED one none, however far its upload came.
THEOREM ReportedAreStoredHolds == RunSpec => []ReportedAreStored
  <1>1. ASSUME RunInv PROVE ReportedAreStored
    <2> SUFFICES ASSUME NEW m \in Messages
                 PROVE  /\ result[m] = "COMPLETED" =>
                              /\ reported[m] = StoredFor(m)
                              /\ \A k \in reported[m] : KeyOf[objects[<<m, k>>]] = k
                        /\ result[m] # "COMPLETED" => reported[m] = {}
      BY DEF ReportedAreStored
    <2>1. StoreInv(m)
      BY <1>1 DEF RunInv
    <2>2. \A k \in StoredFor(m) : KeyOf[objects[<<m, k>>]] = k
      BY <1>1 DEF RunInv, RunTypeOK, StoredFor
    <2> QED BY <2>1, <2>2 DEF StoreInv
  <1> QED BY <1>1, RunInvariance, PTL

\* Without a process left behind, a COMPLETED result names every file the
\* executor left.
THEOREM CompletedIsWholeHolds == RunSpec => []CompletedIsWhole
  <1>1. RunInv => CompletedIsWhole
    BY DEF RunInv, WholeInv, CompletedIsWhole, KeysOf
  <1> QED BY <1>1, RunInvariance, PTL

\* The workspace on disk is that of the run at work, but for kills, and for what
\* the tools left behind that rmtree(ignore_errors) passes over.
THEOREM WorkspaceIsGoneHolds == RunSpec => []WorkspaceIsGone
  <1>1. RunInv => WorkspaceIsGone
    BY DEF RunInv, RunTypeOK, GoneInv, WorkspaceIsGone
  <1> QED BY <1>1, RunInvariance, PTL
=============================================================================
