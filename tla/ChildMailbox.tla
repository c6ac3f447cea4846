---------------------------- MODULE ChildMailbox ----------------------------
(***************************************************************************)
(* The child side of an agent (src/mycoagent/node/runtime.py): the mailbox *)
(* that accepts assign_subtask messages, the bounded queue behind it, the  *)
(* asyncio task that runs one assignment (_run_child), and the report of   *)
(* its result to the parent, tried REPORT_ATTEMPTS times.                  *)
(*                                                                         *)
(* Grain of atomicity.  Everything runs on one event loop and no lock of   *)
(* the agent is held across an await, so the code between two real awaits  *)
(* is one action: the whole of _accept_child; a runner's start up to       *)
(* executor.run; the return of the executor up to the upload; and the end  *)
(* of a report together with the `finally` that frees the agent and hands  *)
(* it the next message.                                                    *)
(*                                                                         *)
(* An assignment carries a subtask id that its parent sends only once, so  *)
(* a message stands for its subtask, and for the asyncio task created to   *)
(* run it.                                                                 *)
(***************************************************************************)
EXTENDS Naturals, Sequences, Functions

CONSTANTS Messages,         \* assign_subtask messages sent to this agent
          OwnMessages,      \* those whose parent_node_id is this agent's own id
          NoWork,           \* _current_child is None
          QueueSize,        \* mailbox_queue_size
          ReportAttempts,   \* REPORT_ATTEMPTS
          MaxRestarts       \* bound on the process restarts explored

ASSUME MailboxAssumption ==
    /\ OwnMessages \subseteq Messages
    /\ NoWork \notin Messages
    /\ QueueSize \in Nat
    /\ ReportAttempts \in Nat \ {0}
    /\ MaxRestarts \in Nat

VARIABLES
    current,    \* _current_child
    queue,      \* _mailbox_queue
    reply,      \* what POST /mailbox answered for a message
    pc,         \* where the task that runs a message is
    work,       \* the local `work` of _run_child
    attempt,    \* the local `attempt` of _report_result
    result,     \* the local `result` of _run_child: its status
    inbox,      \* the subtask_result statuses the parent took, per message
    served,     \* history: the messages whose run ended, in order
    restarts    \* bound on Restart

vars == <<current, queue, reply, pc, work, attempt, result, inbox, served, restarts>>

Replies  == {"none", "accepted", "busy", "self"}
Phases   == {"none", "created", "running", "uploading", "reporting", "backoff",
             "done", "lost"}
Outcomes == {"COMPLETED", "FAILED"}

Active == {m \in Messages :
              pc[m] \in {"created", "running", "uploading", "reporting", "backoff"}}

\* Mutant: a busy bit that looks at the queue only.
StatusQueueOnly == IF queue # <<>> THEN "BUSY" ELSE "IDLE"

\* AgentRuntime.status: what the next heartbeat tells the manager.
Status == IF current # NoWork \/ queue # <<>> THEN "BUSY" ELSE "IDLE"

-----------------------------------------------------------------------------
Init == /\ current = NoWork
        /\ queue = <<>>
        /\ reply = [m \in Messages |-> "none"]
        /\ pc = [m \in Messages |-> "none"]
        /\ work = [m \in Messages |-> NoWork]
        /\ attempt = [m \in Messages |-> 0]
        /\ result = [m \in Messages |-> "none"]
        /\ inbox = [m \in Messages |-> <<>>]
        /\ served = <<>>
        /\ restarts = 0

-----------------------------------------------------------------------------
(* _accept_child: its four outcomes.                                       *)

RejectSelf(m) ==
    /\ m \in OwnMessages
    /\ reply[m] = "none"
    /\ reply' = [reply EXCEPT ![m] = "self"]
    /\ UNCHANGED <<current, queue, pc, work, attempt, result, inbox, served, restarts>>

\* Mutant: starts a second runner beside the one at work.
AcceptIdleUnlocked(m) ==
    /\ m \notin OwnMessages
    /\ reply[m] = "none"
    /\ current' = m
    /\ pc' = [pc EXCEPT ![m] = "created"]
    /\ reply' = [reply EXCEPT ![m] = "accepted"]
    /\ UNCHANGED <<queue, work, attempt, result, inbox, served, restarts>>

AcceptIdle(m) ==
    /\ m \notin OwnMessages
    /\ reply[m] = "none"
    /\ current = NoWork
    /\ current' = m
    /\ pc' = [pc EXCEPT ![m] = "created"]
    /\ reply' = [reply EXCEPT ![m] = "accepted"]
    /\ UNCHANGED <<queue, work, attempt, result, inbox, served, restarts>>

\* Mutant: an off-by-one lets one message too many wait.
AcceptQueuedOverfull(m) ==
    /\ m \notin OwnMessages
    /\ reply[m] = "none"
    /\ current # NoWork
    /\ Len(queue) <= QueueSize
    /\ queue' = Append(queue, m)
    /\ reply' = [reply EXCEPT ![m] = "accepted"]
    /\ UNCHANGED <<current, pc, work, attempt, result, inbox, served, restarts>>

AcceptQueued(m) ==
    /\ m \notin OwnMessages
    /\ reply[m] = "none"
    /\ current # NoWork
    /\ Len(queue) < QueueSize
    /\ queue' = Append(queue, m)
    /\ reply' = [reply EXCEPT ![m] = "accepted"]
    /\ UNCHANGED <<current, pc, work, attempt, result, inbox, served, restarts>>

RejectBusy(m) ==
    /\ m \notin OwnMessages
    /\ reply[m] = "none"
    /\ current # NoWork
    /\ Len(queue) >= QueueSize
    /\ reply' = [reply EXCEPT ![m] = "busy"]
    /\ UNCHANGED <<current, queue, pc, work, attempt, result, inbox, served, restarts>>

-----------------------------------------------------------------------------
(* _run_child, from the creation of its task to the report.                *)

StartRunner(m) ==
    /\ pc[m] = "created"
    /\ work' = [work EXCEPT ![m] = current]
    /\ pc' = [pc EXCEPT ![m] = IF current = NoWork THEN "done" ELSE "running"]
    /\ UNCHANGED <<current, queue, reply, attempt, result, inbox, served, restarts>>

ExecutorReturns(m) ==
    /\ pc[m] = "running"
    /\ pc' = [pc EXCEPT ![m] = "uploading"]
    /\ UNCHANGED <<current, queue, reply, work, attempt, result, inbox, served, restarts>>

\* `result` is built and the first report goes out.
StartReport(m, status) ==
    /\ result' = [result EXCEPT ![m] = status]
    /\ attempt' = [attempt EXCEPT ![m] = 1]
    /\ pc' = [pc EXCEPT ![m] = "reporting"]
    /\ UNCHANGED <<current, queue, reply, work, inbox, served, restarts>>

UploadDone(m) == pc[m] = "uploading" /\ StartReport(m, "COMPLETED")

\* Workspace creation, the executor or the upload raised.
RunRaises(m) == pc[m] \in {"running", "uploading"} /\ StartReport(m, "FAILED")

-----------------------------------------------------------------------------
(* _report_result and the `finally` of _run_child.                         *)

ParentTakes(m) == inbox' = [inbox EXCEPT ![work[m]] = Append(@, result[m])]

\* Mutant: peeks at the queue, and leaves the message in it.
ReleasePeeks(m) ==
    /\ served' = Append(served, work[m])
    /\ UNCHANGED queue
    /\ IF queue = <<>>
       THEN current' = NoWork /\ pc' = [pc EXCEPT ![m] = "done"]
       ELSE /\ current' = Head(queue)
            /\ pc' = [pc EXCEPT ![m] = "done", ![Head(queue)] = "created"]

\* The `finally`: free the agent, take the next message, start its runner.
Release(m) ==
    /\ served' = Append(served, work[m])
    /\ IF queue = <<>>
       THEN /\ current' = NoWork
            /\ pc' = [pc EXCEPT ![m] = "done"]
            /\ UNCHANGED queue
       ELSE /\ current' = Head(queue)
            /\ queue' = Tail(queue)
            /\ pc' = [pc EXCEPT ![m] = "done", ![Head(queue)] = "created"]

ReportOk(m) ==
    /\ pc[m] = "reporting"
    /\ ParentTakes(m)
    /\ Release(m)
    /\ UNCHANGED <<reply, work, attempt, result, restarts>>

\* Mutant: one attempt too many.
ReportFailsOnceMore(m) ==
    /\ pc[m] = "reporting"
    /\ ParentTakes(m) \/ UNCHANGED inbox
    /\ IF attempt[m] <= ReportAttempts
       THEN pc' = [pc EXCEPT ![m] = "backoff"] /\ UNCHANGED <<current, queue, served>>
       ELSE Release(m)
    /\ UNCHANGED <<reply, work, attempt, result, restarts>>

\* Mutant: exhausted retries leave _run_child past its `finally`.
ReportFailsSticks(m) ==
    /\ pc[m] = "reporting"
    /\ ParentTakes(m) \/ UNCHANGED inbox
    /\ IF attempt[m] < ReportAttempts
       THEN pc' = [pc EXCEPT ![m] = "backoff"]
       ELSE pc' = [pc EXCEPT ![m] = "done"]
    /\ UNCHANGED <<current, queue, served, reply, work, attempt, result, restarts>>

\* The report fails: before the parent took it, or after (its answer is lost).
ReportFails(m) ==
    /\ pc[m] = "reporting"
    /\ ParentTakes(m) \/ UNCHANGED inbox
    /\ IF attempt[m] < ReportAttempts
       THEN pc' = [pc EXCEPT ![m] = "backoff"] /\ UNCHANGED <<current, queue, served>>
       ELSE Release(m)
    /\ UNCHANGED <<reply, work, attempt, result, restarts>>

\* Mutant: a retry after a lost answer reports a failure.
RetryReportFailed(m) ==
    /\ pc[m] = "backoff"
    /\ attempt' = [attempt EXCEPT ![m] = @ + 1]
    /\ pc' = [pc EXCEPT ![m] = "reporting"]
    /\ result' = [result EXCEPT ![m] = "FAILED"]
    /\ UNCHANGED <<current, queue, reply, work, inbox, served, restarts>>

RetryReport(m) ==
    /\ pc[m] = "backoff"
    /\ attempt' = [attempt EXCEPT ![m] = @ + 1]
    /\ pc' = [pc EXCEPT ![m] = "reporting"]
    /\ UNCHANGED <<current, queue, reply, work, result, inbox, served, restarts>>

-----------------------------------------------------------------------------
\* The Host process restarts: AgentRuntime.__init__ builds an empty mailbox.
Restart ==
    /\ restarts < MaxRestarts
    /\ restarts' = restarts + 1
    /\ current' = NoWork
    /\ queue' = <<>>
    /\ pc' = [m \in Messages |->
                 IF m \in Active \union Range(queue) THEN "lost" ELSE pc[m]]
    /\ UNCHANGED <<reply, work, attempt, result, inbox, served>>

-----------------------------------------------------------------------------
Runner(m) == \/ StartRunner(m) \/ ExecutorReturns(m) \/ UploadDone(m) \/ RunRaises(m)
             \/ ReportOk(m) \/ ReportFails(m) \/ RetryReport(m)

Mailbox(m) == RejectSelf(m) \/ AcceptIdle(m) \/ AcceptQueued(m) \/ RejectBusy(m)

Next == (\E m \in Messages : Mailbox(m) \/ Runner(m)) \/ Restart

Spec == Init /\ [][Next]_vars

(* A created task is run by the event loop, the executors stop (the LLM    *)
(* loop after max_steps, OpenCode after its timeout) and HTTP calls and    *)
(* sleeps end: every runner keeps moving.  Nobody has to send messages.    *)
FairSpec == Spec /\ \A m \in Messages : WF_vars(Runner(m))

-----------------------------------------------------------------------------
(* Properties.                                                             *)

TypeOK ==
    /\ current \in Messages \union {NoWork}
    /\ queue \in Seq(Messages)
    /\ reply \in [Messages -> Replies]
    /\ pc \in [Messages -> Phases]
    /\ work \in [Messages -> Messages \union {NoWork}]
    /\ attempt \in [Messages -> 0..ReportAttempts]
    /\ result \in [Messages -> Outcomes \union {"none"}]
    /\ inbox \in [Messages -> Seq(Outcomes)]
    /\ served \in Seq(Messages)
    /\ restarts \in 0..MaxRestarts

\* The agent runs one subtask at a time: whatever is accepted, queued or handed
\* over, one task at most is alive, it runs what GET /child shows, and messages
\* wait in the queue only behind it (_run_child and its `finally`).
OneRunner ==
    /\ Active = {current} \ {NoWork}
    /\ \A m \in Active : pc[m] # "created" => work[m] = current
    /\ current = NoWork => queue = <<>>

\* The busy bit of the heartbeat is truthful: the agent says IDLE exactly when
\* every message it ever accepted was served or died with a restart.
StatusTruthful ==
    Status = "IDLE" <=> \A m \in Messages :
                            reply[m] = "accepted" => pc[m] \in {"done", "lost"}

\* No subtask is run twice, and none runs that was refused: what waits, runs or
\* was served is accepted, and in one place only.
RunsOnce ==
    LET line == served \o (IF current = NoWork THEN <<>> ELSE <<current>>) \o queue
    IN  /\ \A i, j \in DOMAIN line : line[i] = line[j] => i = j
        /\ \A i \in DOMAIN line : reply[line[i]] = "accepted"

\* The parent hears of a subtask at most REPORT_ATTEMPTS times, always with one
\* status, and only from a run that got to its report (the retry of
\* _report_result repeats a result, it never changes it).
ReportsAgree ==
    \A m \in Messages :
        /\ Len(inbox[m]) <= ReportAttempts
        /\ \A i \in DOMAIN inbox[m] : inbox[m][i] = result[m]

\* The mailbox is a serial worker: first come, first served, over all handovers.
Backlog == IF current = NoWork THEN <<>> ELSE <<current>> \o queue
Worker == INSTANCE SerialWorker WITH backlog <- Backlog, Capacity <- 1 + QueueSize
ImplementsWorker == Worker!Spec

\* What is accepted is eventually served, unless the process restarts first
\* ("child must always report", _run_child): no failure of the executor, of the
\* upload or of both reports can wedge the mailbox.
AcceptedIsServed ==
    \A m \in Messages : reply[m] = "accepted" ~> pc[m] \in {"done", "lost"}
=============================================================================
