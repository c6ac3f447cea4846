--------------------------- MODULE JobMemoryProofs ---------------------------
(***************************************************************************)
(* The operations on a job keep it well typed and its status the roll-up   *)
(* of its subtasks: lemmas for JobStoreProofs and DispatchProofs.          *)
(***************************************************************************)
EXTENDS JobMemory, TLAPS

\* A well typed record whose status is what _roll_up makes of it.
RolledUp(job) == job \in JobRecord /\ job.status = RollUp(job)

\* _roll_up returns a JobStatus.
LEMMA RollUpType ==
    ASSUME NEW job \in JobRecord
    PROVE  RollUp(job) \in JobStatus
  BY DEF RollUp, JobStatus

\* The roll-up does not look at the status it replaces.
LEMMA RolledIsRolledUp ==
    ASSUME NEW job \in JobRecord
    PROVE  RolledUp(Rolled(job))
<1> DEFINE new == Rolled(job)
<1>1. new \in JobRecord
  BY RollUpType DEF Rolled, JobRecord
<1>2. /\ new.subtasks = job.subtasks /\ new.local = job.local /\ new.error = job.error
      /\ new.status = RollUp(job)
  BY DEF Rolled, JobRecord
<1>3. RollUp(new) = RollUp(job)
  BY <1>2 DEF RollUp
<1>4. QED
  BY <1>1, <1>2, <1>3 DEF RolledUp

\* JobStore.create.
LEMMA CreateIsRolledUp ==
    ASSUME NEW n \in Nat
    PROVE  RolledUp(Create(n))
<1> DEFINE job == Create(n)
           of == {job.subtasks[i].status : i \in DOMAIN job.subtasks}
<1>1. job.subtasks = [i \in 1..n |-> PendingSubtask] /\ ~job.error /\ ~job.local /\ job.status = "RUNNING"
  BY DEF Create
<1>2. job.subtasks \in Seq(SubtaskRecord)
  <2>1. PendingSubtask \in SubtaskRecord
    BY DEF PendingSubtask, SubtaskRecord, SubtaskStatus
  <2>2. QED
    BY <1>1, <2>1
<1>3. job \in JobRecord
  BY <1>2 DEF Create, JobRecord, JobStatus
<1>4. of \subseteq {"PENDING"}
  BY <1>1 DEF PendingSubtask
<1>5. RollUp(job) = "RUNNING"
  BY <1>1, <1>4 DEF RollUp
<1>6. QED
  BY <1>1, <1>3, <1>5 DEF RolledUp

\* A record is replaced in its place, or nothing is if there is none.
LEMMA ReplacedIsSeq ==
    ASSUME NEW S, NEW s \in Seq(S), NEW i, NEW x \in S
    PROVE  [s EXCEPT ![i] = x] \in Seq(S)
<1> DEFINE t == [s EXCEPT ![i] = x]
<1>1. s \in [1..Len(s) -> S] /\ Len(s) \in Nat
  OBVIOUS
<1>2. t \in [1..Len(s) -> S]
  BY <1>1
<1>3. QED
  BY <1>1, <1>2

\* JobStore.update_subtask.
LEMMA UpdateIsRolledUp ==
    ASSUME NEW job \in JobRecord, NEW i, NEW status \in SubtaskStatus,
           NEW assignee \in Children \union {NoAgent}
    PROVE  RolledUp(UpdateSubtask(job, i, status, assignee))
<1> DEFINE record == [status |-> status, assignee |-> assignee]
           new == [job EXCEPT !.subtasks[i] = record]
<1>1. record \in SubtaskRecord
  BY DEF SubtaskRecord
<1>2. [job.subtasks EXCEPT ![i] = record] \in Seq(SubtaskRecord)
  <2>1. job.subtasks \in Seq(SubtaskRecord)
    BY DEF JobRecord
  <2> HIDE DEF record
  <2>2. QED
    BY <1>1, <2>1, ReplacedIsSeq
<1>3. new \in JobRecord
  BY <1>2 DEF JobRecord
<1>4. QED
  BY <1>3, RolledIsRolledUp DEF UpdateSubtask

\* The same, of the status only.
LEMMA SetStatusIsRolledUp ==
    ASSUME NEW job \in JobRecord, NEW i \in DOMAIN job.subtasks, NEW status \in SubtaskStatus
    PROVE  RolledUp(SetStatus(job, i, status))
<1>1. job.subtasks[i].assignee \in Children \union {NoAgent}
  <2>1. job.subtasks \in Seq(SubtaskRecord)
    BY DEF JobRecord
  <2>2. job.subtasks[i] \in SubtaskRecord
    BY <2>1
  <2>3. QED
    BY <2>2 DEF SubtaskRecord
<1>2. QED
  BY <1>1, UpdateIsRolledUp DEF SetStatus

\* JobStore.add_subtask.
LEMMA AddIsRolledUp ==
    ASSUME NEW job \in JobRecord
    PROVE  RolledUp(AddSubtask(job))
<1> DEFINE new == [job EXCEPT !.subtasks = Append(@, PendingSubtask)]
<1>1. PendingSubtask \in SubtaskRecord
  BY DEF PendingSubtask, SubtaskRecord, SubtaskStatus
<1>2. new \in JobRecord
  BY <1>1 DEF JobRecord
<1>3. QED
  BY <1>2, RolledIsRolledUp DEF AddSubtask

\* JobStore.complete_local.
LEMMA CompleteLocalIsRolledUp ==
    ASSUME NEW job \in JobRecord
    PROVE  RolledUp(CompleteLocal(job))
<1>1. [job EXCEPT !.local = TRUE] \in JobRecord
  BY DEF JobRecord
<1>2. QED
  BY <1>1, RolledIsRolledUp DEF CompleteLocal

\* JobStore.fail.
LEMMA FailIsRolledUp ==
    ASSUME NEW job \in JobRecord
    PROVE  RolledUp(Fail(job))
<1>1. Fail(job) \in JobRecord /\ Fail(job).error /\ Fail(job).status = "FAILED"
  BY DEF Fail, JobRecord, JobStatus
<1>2. RollUp(Fail(job)) = "FAILED"
  BY <1>1 DEF RollUp
<1>3. QED
  BY <1>1, <1>2 DEF RolledUp
=============================================================================
