------------------------------ MODULE JobMemory ------------------------------
(***************************************************************************)
(* The parent's record of a job (src/mycoagent/models.py) and the          *)
(* operations of JobStore on it (src/mycoagent/node/jobs.py) as functions  *)
(* from a job to a job.  JobStore's asyncio lock is never held across an   *)
(* await, so each of these is one indivisible step of whoever calls it.    *)
(*                                                                         *)
(* A subtask is named by its place in the list: records are only appended  *)
(* and never reordered or removed.  Descriptions, results and artifact ids *)
(* are payload and left out; local_result and error matter only in being   *)
(* set or not.                                                             *)
(***************************************************************************)
EXTENDS Naturals, Sequences, FiniteSets

CONSTANTS Children,     \* agents a subtask can be assigned to
          NoAgent       \* assignee_node_id is None

SubtaskStatus == {"PENDING", "ASSIGNED", "RUNNING", "COMPLETED", "FAILED"}
JobStatus     == {"RUNNING", "COMPLETED", "FAILED"}

SubtaskRecord == [status : SubtaskStatus, assignee : Children \union {NoAgent}]

JobRecord == [subtasks : Seq(SubtaskRecord), local : BOOLEAN, error : BOOLEAN,
              status : JobStatus]

-----------------------------------------------------------------------------
RollUp(job) ==
    LET of == {job.subtasks[i].status : i \in DOMAIN job.subtasks}
    IN  CASE job.error -> "FAILED"
          [] ~job.error /\ of = {} -> IF job.local THEN "COMPLETED" ELSE "RUNNING"
          [] ~job.error /\ "FAILED" \in of -> "FAILED"
          [] ~job.error /\ of = {"COMPLETED"} -> "COMPLETED"
          [] OTHER -> "RUNNING"

Rolled(job) == [job EXCEPT !.status = RollUp(job)]

PendingSubtask == [status |-> "PENDING", assignee |-> NoAgent]

\* Mutant: a new job has the status of a new subtask.
CreatePending(n) == [subtasks |-> [i \in 1..n |-> PendingSubtask], local |-> FALSE,
                     error |-> FALSE, status |-> "PENDING"]

Create(n) == [subtasks |-> [i \in 1..n |-> PendingSubtask], local |-> FALSE,
              error |-> FALSE, status |-> "RUNNING"]

UpdateSubtask(job, i, status, assignee) ==
    Rolled([job EXCEPT !.subtasks[i] = [status |-> status, assignee |-> assignee]])

SetStatus(job, i, status) == UpdateSubtask(job, i, status, job.subtasks[i].assignee)

\* Mutant: the new subtask does not reopen the job.
AddSubtaskUnrolled(job) == [job EXCEPT !.subtasks = Append(@, PendingSubtask)]

AddSubtask(job) == Rolled([job EXCEPT !.subtasks = Append(@, PendingSubtask)])

CompleteLocal(job) == Rolled([job EXCEPT !.local = TRUE])

Fail(job) == [job EXCEPT !.error = TRUE, !.status = "FAILED"]

\* inflight_counts of one agent over the jobs in memory.
Inflight(memory, agent) ==
    Cardinality(UNION {
        {<<j, i>> : i \in {k \in DOMAIN memory[j].subtasks :
                              /\ memory[j].subtasks[k].assignee = agent
                              /\ memory[j].subtasks[k].status \in {"ASSIGNED", "RUNNING"}}}
            : j \in DOMAIN memory})
=============================================================================
