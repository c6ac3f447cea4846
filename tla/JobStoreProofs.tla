---------------------------- MODULE JobStoreProofs ----------------------------
(***************************************************************************)
(* Proofs about JobStore, for any number of jobs, operations, failures of  *)
(* the database and restarts: what an operation answered is never lost,    *)
(* and what is shown is what a restart brings back unless the last         *)
(* operation on that job raised.  Both rest on DiskFollowsMemory: what an  *)
(* open transaction holds is newer than the table and no newer than        *)
(* memory, so the commit that takes it along takes no job back in time.    *)
(***************************************************************************)
EXTENDS JobStore, JobMemoryProofs

\* A job never goes back in time on disk.
DiskFollowsMemory ==
    /\ DOMAIN open \subseteq DOMAIN jobs
    /\ \A j \in DOMAIN open :
          /\ open[j].version <= jobs[j].version
          /\ j \in DOMAIN table => table[j].version < open[j].version
    /\ up => \A j \in DOMAIN table : table[j].version <= jobs[j].version

\* A process that is down has no memory.
DownIsEmpty == ~up => DOMAIN jobs = {}

Inv == TypeOK /\ AnsweredSurvives /\ ShownIsKept /\ DiskFollowsMemory /\ DownIsEmpty

\* What an operation gives to _persist: a row newer than the job, or of a new job.
Fresh(j, row) ==
    /\ row \in Row
    /\ IF j \in DOMAIN jobs THEN jobs[j].version < row.version ELSE j \notin DOMAIN table

-----------------------------------------------------------------------------
(* Lemmas.                                                                 *)

\* The empty memory of a process that starts.
LEMMA EmptyDomain == DOMAIN <<>> = {}
  OBVIOUS

\* The initial state.
LEMMA InitInv == Init => Inv
  BY JobStoreAssumption, EmptyDomain
     DEF Init, Inv, TypeOK, AnsweredSurvives, ShownIsKept, DiskFollowsMemory, DownIsEmpty

\* A row that is new to the table or newer than it has become the committed one:
\* nothing that was answered is lost, though the open transaction went along.
LEMMA CommitKeeps ==
    ASSUME Inv, up, NEW j \in Jobs, NEW row, Fresh(j, row),
           table' = Overlay(table, Overlay(open, One(j, row)))
    PROVE  /\ DOMAIN table' \subseteq Jobs
           /\ \A k \in DOMAIN table' : table'[k] \in Row
           /\ \A k \in Jobs \ {j} : answered[k] > 0 =>
                  k \in DOMAIN table' /\ table'[k].version >= answered[k]
           /\ j \in DOMAIN table' /\ table'[j] = row
           /\ answered[j] > 0 => row.version >= answered[j]
           /\ \A k \in DOMAIN jobs \ (raised \union {j}) :
                  k \in DOMAIN table' /\ table'[k] = jobs[k]
           /\ DOMAIN table' \subseteq DOMAIN jobs \union {j}
           /\ \A k \in DOMAIN table' \ {j} : table'[k].version <= jobs[k].version
<1>1. /\ DOMAIN table' = DOMAIN table \union DOMAIN open \union {j}
      /\ table'[j] = row
      /\ \A k \in DOMAIN open : k # j => table'[k] = open[k]
      /\ \A k \in DOMAIN table \ DOMAIN open : k # j => table'[k] = table[k]
  BY DEF Overlay, One
<1>2. /\ DOMAIN table \subseteq DOMAIN jobs /\ DOMAIN open \subseteq DOMAIN jobs
      /\ DOMAIN jobs \subseteq Jobs
  BY DEF Inv, TypeOK, ShownIsKept, DiskFollowsMemory
<1>t. /\ \A k \in DOMAIN table : table[k] \in Row
      /\ \A k \in DOMAIN open : open[k] \in Row
      /\ \A k \in DOMAIN jobs : jobs[k] \in Row
      /\ row \in Row
      /\ answered \in [Jobs -> Nat]
  BY DEF Inv, TypeOK, Fresh
<1>3. \A k \in DOMAIN table' : table'[k] \in Row
  <2>1. TAKE k \in DOMAIN table'
  <2>2. CASE k = j
    BY <1>1, <1>t, <2>2
  <2>3. CASE k # j /\ k \in DOMAIN open
    BY <1>1, <1>t, <2>3
  <2>4. CASE k # j /\ k \notin DOMAIN open
    BY <1>1, <1>t, <2>4
  <2>5. QED
    BY <2>2, <2>3, <2>4
<1>4. /\ \A k \in DOMAIN table : table[k].version \in Nat
      /\ \A k \in DOMAIN open : open[k].version \in Nat
      /\ \A k \in DOMAIN jobs : jobs[k].version \in Nat
      /\ row.version \in Nat
      /\ \A k \in Jobs : answered[k] \in Nat
  BY <1>t DEF Row
<1>5. ASSUME NEW k \in Jobs \ {j}, answered[k] > 0
      PROVE  k \in DOMAIN table' /\ table'[k].version >= answered[k]
  <2>1. k \in DOMAIN table /\ table[k].version >= answered[k]
    BY <1>5 DEF Inv, AnsweredSurvives
  <2>2. CASE k \in DOMAIN open
    <3>1. table[k].version < open[k].version /\ table'[k] = open[k]
      BY <1>1, <2>1, <2>2 DEF Inv, DiskFollowsMemory
    <3>2. QED
      BY <1>1, <1>4, <2>1, <2>2, <3>1
  <2>3. CASE k \notin DOMAIN open
    BY <1>1, <2>1, <2>3
  <2>4. QED
    BY <2>2, <2>3
<1>6. answered[j] > 0 => row.version >= answered[j]
  <2>1. SUFFICES ASSUME answered[j] > 0
                 PROVE  row.version >= answered[j]
    OBVIOUS
  <2>2. j \in DOMAIN table /\ table[j].version >= answered[j]
    BY <2>1 DEF Inv, AnsweredSurvives
  <2>3. j \in DOMAIN jobs /\ jobs[j].version < row.version
    BY <1>2, <2>2 DEF Fresh
  <2>4. table[j].version <= jobs[j].version
    BY <2>2 DEF Inv, DiskFollowsMemory
  <2>5. QED
    BY <1>4, <2>2, <2>3, <2>4
<1>7. ASSUME NEW k \in DOMAIN jobs \ (raised \union {j})
      PROVE  k \in DOMAIN table' /\ table'[k] = jobs[k]
  <2>1. k \in DOMAIN table /\ table[k] = jobs[k]
    BY DEF Inv, ShownIsKept
  <2>2. k \notin DOMAIN open
    <3>1. SUFFICES ASSUME k \in DOMAIN open PROVE FALSE
      OBVIOUS
    <3>2. open[k].version <= jobs[k].version /\ table[k].version < open[k].version
      BY <2>1, <3>1 DEF Inv, DiskFollowsMemory
    <3>3. QED
      BY <1>4, <2>1, <3>1, <3>2
  <2>3. QED
    BY <1>1, <2>1, <2>2
<1>8. ASSUME NEW k \in DOMAIN table' \ {j}
      PROVE  table'[k].version <= jobs[k].version
  <2>1. CASE k \in DOMAIN open
    BY <1>1, <2>1 DEF Inv, DiskFollowsMemory
  <2>2. CASE k \notin DOMAIN open
    BY <1>1, <2>2 DEF Inv, DiskFollowsMemory
  <2>3. QED
    BY <2>1, <2>2
<1>9. QED
  BY <1>1, <1>2, <1>3, <1>5, <1>6, <1>7, <1>8

-----------------------------------------------------------------------------
(* The steps.                                                              *)

\* An operation that is answered.
LEMMA PersistsKeeps ==
    ASSUME Inv, up, NEW j \in Jobs, NEW row, Fresh(j, row),
           jobs' = Overlay(jobs, One(j, row)), Persists(j, row), UNCHANGED <<up, restarts>>
    PROVE  Inv'
<1>1. /\ table' = Overlay(table, Overlay(open, One(j, row)))
      /\ DOMAIN open' = {}
      /\ answered' = [answered EXCEPT ![j] = row.version]
      /\ raised' = raised \ {j}
      /\ failures' = failures /\ restarts' = restarts /\ up' = up
  BY EmptyDomain DEF Persists
<1>2. /\ DOMAIN jobs' = DOMAIN jobs \union {j}
      /\ jobs'[j] = row
      /\ \A k \in DOMAIN jobs : k # j => jobs'[k] = jobs[k]
  BY DEF Overlay, One
<1>3. /\ row \in Row /\ row.version \in Nat
      /\ \A k \in DOMAIN jobs : jobs[k] \in Row
      /\ DOMAIN jobs \subseteq Jobs /\ answered \in [Jobs -> Nat]
  BY DEF Inv, TypeOK, Fresh, Row
<1>4. TypeOK'
  <2>1. DOMAIN jobs' \subseteq Jobs /\ \A k \in DOMAIN jobs' : jobs'[k] \in Row
    BY <1>2, <1>3
  <2>2. DOMAIN table' \subseteq Jobs /\ \A k \in DOMAIN table' : table'[k] \in Row
    BY <1>1, CommitKeeps
  <2>3. answered' \in [Jobs -> Nat]
    BY <1>1, <1>3
  <2>4. QED
    BY <1>1, <2>1, <2>2, <2>3 DEF Inv, TypeOK
<1>5. AnsweredSurvives'
  <2>1. SUFFICES ASSUME NEW k \in Jobs, answered'[k] > 0
                 PROVE  k \in DOMAIN table' /\ table'[k].version >= answered'[k]
    BY DEF AnsweredSurvives
  <2>2. CASE k = j
    <3>1. answered'[j] = row.version
      BY <1>1, <1>3
    <3>2. j \in DOMAIN table' /\ table'[j] = row
      BY <1>1, CommitKeeps
    <3>3. QED
      BY <1>3, <2>2, <3>1, <3>2
  <2>3. CASE k # j
    <3>1. answered'[k] = answered[k]
      BY <1>1, <1>3, <2>3
    <3>2. answered[k] > 0 => k \in DOMAIN table' /\ table'[k].version >= answered[k]
      BY <1>1, <2>3, CommitKeeps
    <3>3. QED
      BY <2>1, <3>1, <3>2
  <2>4. QED
    BY <2>2, <2>3
<1>6. ShownIsKept'
  <2>1. DOMAIN table' \subseteq DOMAIN jobs'
    BY <1>1, <1>2, CommitKeeps
  <2>2. ASSUME NEW k \in DOMAIN jobs' \ raised'
        PROVE  k \in DOMAIN table' /\ table'[k] = jobs'[k]
    <3>1. CASE k = j
      BY <1>1, <1>2, <3>1, CommitKeeps
    <3>2. CASE k # j
      <4>1. k \in DOMAIN jobs \ (raised \union {j}) /\ jobs'[k] = jobs[k]
        BY <1>1, <1>2, <3>2
      <4>2. QED
        BY <1>1, <4>1, CommitKeeps
    <3>3. QED
      BY <3>1, <3>2
  <2>3. QED
    BY <2>1, <2>2 DEF ShownIsKept
<1>7. DiskFollowsMemory'
  <2>1. ASSUME NEW k \in DOMAIN table'
        PROVE  table'[k].version <= jobs'[k].version
    <3>1. CASE k = j
      BY <1>1, <1>2, <1>3, <3>1, CommitKeeps
    <3>2. CASE k # j
      <4>1. table'[k].version <= jobs[k].version /\ k \in DOMAIN jobs
        BY <1>1, <3>2, CommitKeeps
      <4>2. QED
        BY <1>2, <3>2, <4>1
    <3>3. QED
      BY <3>1, <3>2
  <2>2. QED
    BY <1>1, <2>1 DEF DiskFollowsMemory
<1>8. DownIsEmpty'
  BY <1>1 DEF DownIsEmpty
<1>9. QED
  BY <1>4, <1>5, <1>6, <1>7, <1>8 DEF Inv

\* An operation that raises: the job is ahead of the table, and named in raised.
LEMMA PersistRaisesKeeps ==
    ASSUME Inv, up, NEW j \in Jobs, NEW row, Fresh(j, row),
           jobs' = Overlay(jobs, One(j, row)), PersistRaises(j, row), UNCHANGED <<up, restarts>>
    PROVE  Inv'
<1>1. /\ failures < MaxFailures /\ failures' = failures + 1
      /\ open' = open \/ open' = Overlay(open, One(j, row)) \/ open' = <<>>
      /\ raised' = raised \union {j}
      /\ table' = table /\ answered' = answered /\ restarts' = restarts /\ up' = up
  BY DEF PersistRaises
<1>2. /\ DOMAIN jobs' = DOMAIN jobs \union {j}
      /\ jobs'[j] = row
      /\ \A k \in DOMAIN jobs : k # j => jobs'[k] = jobs[k]
  BY DEF Overlay, One
<1>3. /\ row \in Row /\ row.version \in Nat
      /\ \A k \in DOMAIN jobs : jobs[k] \in Row /\ jobs[k].version \in Nat
      /\ \A k \in DOMAIN open : open[k] \in Row /\ open[k].version \in Nat
      /\ \A k \in DOMAIN table : table[k] \in Row /\ table[k].version \in Nat
      /\ DOMAIN jobs \subseteq Jobs /\ DOMAIN open \subseteq Jobs
      /\ failures \in 0..MaxFailures
  BY DEF Inv, TypeOK, Fresh, Row
<1>4. /\ DOMAIN table \subseteq DOMAIN jobs /\ DOMAIN open \subseteq DOMAIN jobs
      /\ \A k \in DOMAIN open : open[k].version <= jobs[k].version
      /\ \A k \in DOMAIN open : k \in DOMAIN table => table[k].version < open[k].version
      /\ \A k \in DOMAIN table : table[k].version <= jobs[k].version
  BY DEF Inv, ShownIsKept, DiskFollowsMemory
<1>5. IF j \in DOMAIN jobs THEN jobs[j].version < row.version ELSE j \notin DOMAIN table
  BY DEF Fresh
<1>6. \A k \in DOMAIN open' : \/ k \in DOMAIN open /\ open'[k] = open[k]
                              \/ k = j /\ open'[k] = row
  <2>1. CASE open' = open
    BY <2>1
  <2>2. CASE open' = Overlay(open, One(j, row))
    BY <2>2 DEF Overlay, One
  <2>3. CASE open' = <<>>
    BY <2>3, EmptyDomain
  <2>4. QED
    BY <1>1, <2>1, <2>2, <2>3
<1>7. TypeOK'
  <2>1. DOMAIN jobs' \subseteq Jobs /\ \A k \in DOMAIN jobs' : jobs'[k] \in Row
    BY <1>2, <1>3
  <2>2. DOMAIN open' \subseteq Jobs /\ \A k \in DOMAIN open' : open'[k] \in Row
    BY <1>3, <1>6
  <2>3. failures' \in 0..MaxFailures
    BY <1>1, <1>3, JobStoreAssumption
  <2>4. QED
    BY <1>1, <2>1, <2>2, <2>3 DEF Inv, TypeOK
<1>8. AnsweredSurvives'
  BY <1>1 DEF Inv, AnsweredSurvives
<1>9. ShownIsKept'
  <2>1. ASSUME NEW k \in DOMAIN jobs' \ raised'
        PROVE  k \in DOMAIN table' /\ table'[k] = jobs'[k]
    <3>1. k \in DOMAIN jobs \ raised /\ jobs'[k] = jobs[k]
      BY <1>1, <1>2
    <3>2. QED
      BY <1>1, <3>1 DEF Inv, ShownIsKept
  <2>2. QED
    BY <1>1, <1>2, <1>4, <2>1 DEF ShownIsKept
<1>10. DiskFollowsMemory'
  <2>1. \A k \in DOMAIN jobs : jobs[k].version <= jobs'[k].version
    BY <1>2, <1>3, <1>5
  <2>2. ASSUME NEW k \in DOMAIN open'
        PROVE  /\ k \in DOMAIN jobs'
               /\ open'[k].version <= jobs'[k].version
               /\ k \in DOMAIN table => table[k].version < open'[k].version
    <3>1. CASE k \in DOMAIN open /\ open'[k] = open[k]
      <4>1. k \in DOMAIN jobs /\ jobs'[k].version \in Nat
        BY <1>2, <1>3, <1>4, <3>1
      <4>2. QED
        BY <1>2, <1>3, <1>4, <2>1, <3>1, <4>1
    <3>2. CASE k = j /\ open'[k] = row
      <4>1. j \in DOMAIN table => table[j].version <= jobs[j].version /\ j \in DOMAIN jobs
        BY <1>4
      <4>2. QED
        BY <1>2, <1>3, <1>5, <3>2, <4>1
    <3>3. QED
      BY <1>6, <3>1, <3>2
  <2>3. ASSUME NEW k \in DOMAIN table
        PROVE  table[k].version <= jobs'[k].version
    <3>1. k \in DOMAIN jobs /\ jobs'[k].version \in Nat
      BY <1>2, <1>3, <1>4
    <3>2. QED
      BY <1>3, <1>4, <2>1, <3>1
  <2>4. QED
    BY <1>1, <2>2, <2>3 DEF DiskFollowsMemory
<1>11. DownIsEmpty'
  BY <1>1 DEF DownIsEmpty
<1>12. QED
  BY <1>7, <1>8, <1>9, <1>10, <1>11 DEF Inv

\* A kill in an operation: its commit may have been reached, its answer not.
LEMMA KilledWritingKeeps ==
    ASSUME Inv, NEW j \in Jobs, NEW row, Fresh(j, row), KilledWriting(j, row)
    PROVE  Inv'
<1>1. /\ up
      /\ table' = Overlay(table, Overlay(open, One(j, row)))
      /\ ~up' /\ DOMAIN jobs' = {} /\ DOMAIN open' = {} /\ up' \in BOOLEAN
      /\ answered' = answered /\ raised' = raised /\ failures' = failures
      /\ restarts' = restarts
  BY EmptyDomain DEF KilledWriting
<1>2. TypeOK'
  <2>1. DOMAIN table' \subseteq Jobs /\ \A k \in DOMAIN table' : table'[k] \in Row
    BY <1>1, CommitKeeps
  <2>2. QED
    BY <1>1, <2>1 DEF Inv, TypeOK
<1>3. AnsweredSurvives'
  <2>1. ASSUME NEW k \in Jobs, answered[k] > 0
        PROVE  k \in DOMAIN table' /\ table'[k].version >= answered[k]
    BY <1>1, <2>1, CommitKeeps
  <2>2. QED
    BY <1>1, <2>1 DEF AnsweredSurvives
<1>4. QED
  BY <1>1, <1>2, <1>3 DEF Inv, ShownIsKept, DiskFollowsMemory, DownIsEmpty

\* Whatever becomes of an operation.
LEMMA AttemptKeeps ==
    ASSUME Inv, NEW j \in Jobs, NEW row, Fresh(j, row), Attempt(j, row)
    PROVE  Inv'
<1>1. CASE Write(j, row)
  BY <1>1, PersistsKeeps, PersistRaisesKeeps DEF Write
<1>2. CASE KilledWriting(j, row)
  BY <1>2, KilledWritingKeeps
<1>3. QED
  BY <1>1, <1>2 DEF Attempt

\* A job of one more operation is newer than it was.
LEMMA ChangedIsFresh ==
    ASSUME Inv, NEW j \in DOMAIN jobs, NEW job, RolledUp(job)
    PROVE  Fresh(j, Changed(j, job))
<1>1. jobs[j] \in Row
  BY DEF Inv, TypeOK
<1>2. jobs[j].version \in Nat
  BY <1>1 DEF Row
<1>3. QED
  BY <1>2 DEF Fresh, Changed, Row, RolledUp

\* The operations of JobStore.
LEMMA OperateKeeps ==
    ASSUME Inv, NEW j \in Jobs, Operate(j)
    PROVE  Inv'
<1> USE JobStoreAssumption
<1>1. ASSUME NEW n \in 0..MaxSubtasks, CreateJob(j, n)
      PROVE  Inv'
  <2>1. Create(n) \in JobRecord
    BY CreateIsRolledUp DEF RolledUp
  <2>2. Fresh(j, [job |-> Create(n), version |-> 1])
    BY <1>1, <2>1 DEF CreateJob, Fresh, Row
  <2>3. QED
    BY <1>1, <2>2, AttemptKeeps DEF CreateJob
<1>2. ASSUME j \in DOMAIN jobs, NEW job, RolledUp(job), Attempt(j, Changed(j, job))
      PROVE  Inv'
  BY <1>2, ChangedIsFresh, AttemptKeeps
<1>3. j \in DOMAIN jobs => jobs[j].job \in JobRecord
  BY DEF Inv, TypeOK, Row
<1>4. ASSUME NEW i \in 1..MaxSubtasks, DispatchSubtask(j, i)
      PROVE  Inv'
  <2>1. j \in DOMAIN jobs /\ i \in DOMAIN jobs[j].job.subtasks
    BY <1>4 DEF DispatchSubtask
  <2>2. ASSUME NEW c \in Children,
               Attempt(j, Changed(j, UpdateSubtask(jobs[j].job, i, "ASSIGNED", c)))
        PROVE  Inv'
    <3>1. RolledUp(UpdateSubtask(jobs[j].job, i, "ASSIGNED", c))
      BY <1>3, <2>1, UpdateIsRolledUp DEF SubtaskStatus
    <3>2. QED
      BY <1>2, <2>1, <2>2, <3>1
  <2>3. ASSUME NEW status \in {"RUNNING", "FAILED"},
               Attempt(j, Changed(j, SetStatus(jobs[j].job, i, status)))
        PROVE  Inv'
    <3>1. RolledUp(SetStatus(jobs[j].job, i, status))
      BY <1>3, <2>1, SetStatusIsRolledUp DEF SubtaskStatus
    <3>2. QED
      BY <1>2, <2>1, <2>3, <3>1
  <2>4. QED
    BY <1>4, <2>2, <2>3 DEF DispatchSubtask
<1>5. ASSUME NEW i \in 1..MaxSubtasks, TakeResult(j, i)
      PROVE  Inv'
  <2>1. PICK c \in Children, status \in {"COMPLETED", "FAILED"} :
             Attempt(j, Changed(j, UpdateSubtask(jobs[j].job, i, status, c)))
    BY <1>5 DEF TakeResult
  <2>2. j \in DOMAIN jobs
    BY <1>5 DEF TakeResult
  <2>3. RolledUp(UpdateSubtask(jobs[j].job, i, status, c))
    BY <1>3, <2>2, UpdateIsRolledUp DEF SubtaskStatus
  <2>4. QED
    BY <1>2, <2>1, <2>2, <2>3
<1>6. CASE AddOne(j)
  BY <1>2, <1>3, <1>6, AddIsRolledUp DEF AddOne
<1>7. CASE FailJob(j)
  BY <1>2, <1>3, <1>7, FailIsRolledUp DEF FailJob
<1>8. CASE FinishLocally(j)
  BY <1>2, <1>3, <1>8, CompleteLocalIsRolledUp DEF FinishLocally
<1>9. QED
  BY <1>1, <1>4, <1>5, <1>6, <1>7, <1>8 DEF Operate

\* close(), or a kill between two operations.
LEMMA StopKeeps == Inv /\ Stop => Inv'
<1> SUFFICES ASSUME Inv, Stop PROVE Inv'
  OBVIOUS
<1>1. /\ ~up' /\ up' \in BOOLEAN /\ DOMAIN jobs' = {} /\ DOMAIN open' = {}
      /\ UNCHANGED <<table, answered, raised, failures, restarts>>
  BY EmptyDomain DEF Stop
<1>2. QED
  BY <1>1 DEF Inv, TypeOK, AnsweredSurvives, ShownIsKept, DiskFollowsMemory, DownIsEmpty

\* JobStore.__init__ reads the table.
LEMMA StartKeeps == Inv /\ Start => Inv'
<1> SUFFICES ASSUME Inv, Start PROVE Inv'
  OBVIOUS
<1>1. /\ ~up /\ up' = TRUE /\ jobs' = table /\ raised' = {}
      /\ restarts < MaxRestarts /\ restarts' = restarts + 1
      /\ UNCHANGED <<table, open, answered, failures>>
  BY DEF Start
<1>2. DOMAIN open = {}
  BY <1>1 DEF Inv, DiskFollowsMemory, DownIsEmpty
<1>3. restarts' \in 0..MaxRestarts
  BY <1>1, JobStoreAssumption DEF Inv, TypeOK
<1>4. TypeOK'
  BY <1>1, <1>3 DEF Inv, TypeOK
<1>5. \A k \in DOMAIN table : table[k].version \in Nat
  BY DEF Inv, TypeOK, Row
<1>6. DiskFollowsMemory'
  BY <1>1, <1>2, <1>5 DEF DiskFollowsMemory
<1>7. QED
  BY <1>1, <1>4, <1>6 DEF Inv, AnsweredSurvives, ShownIsKept, DownIsEmpty

\* Inv is inductive.
LEMMA NextInv == Inv /\ [Next]_vars => Inv'
<1> SUFFICES ASSUME Inv, [Next]_vars PROVE Inv'
  OBVIOUS
<1>1. CASE UNCHANGED vars
  BY <1>1 DEF vars, Inv, TypeOK, AnsweredSurvives, ShownIsKept, DiskFollowsMemory, DownIsEmpty
<1>2. CASE Next
  BY <1>2, OperateKeeps, StopKeeps, StartKeeps DEF Next
<1>3. QED
  BY <1>1, <1>2

-----------------------------------------------------------------------------
(* The theorems.                                                           *)

\* The inductive invariant holds in every reachable state.
THEOREM Invariance == Spec => []Inv
  BY InitInv, NextInv, PTL DEF Spec

\* Every record in memory, in a transaction and in the table is well typed.
THEOREM TypeCorrect == Spec => []TypeOK
<1>1. Inv => TypeOK
  BY DEF Inv
<1>2. QED
  BY <1>1, Invariance, PTL

\* A result whose child was answered 200, and all else an operation answered,
\* is in the table ever after: no failure of another write, no transaction left
\* open and no kill or restart takes it back.
THEOREM AnsweredSurvivesHolds == Spec => []AnsweredSurvives
<1>1. Inv => AnsweredSurvives
  BY DEF Inv
<1>2. QED
  BY <1>1, Invariance, PTL

\* What is shown of a job is what a restart brings back, unless the last
\* operation on that very job raised.
THEOREM ShownIsKeptHolds == Spec => []ShownIsKept
<1>1. Inv => ShownIsKept
  BY DEF Inv
<1>2. QED
  BY <1>1, Invariance, PTL

\* What an open transaction would commit never takes a job back in time.
THEOREM DiskFollowsMemoryHolds == Spec => []DiskFollowsMemory
<1>1. Inv => DiskFollowsMemory
  BY DEF Inv
<1>2. QED
  BY <1>1, Invariance, PTL
=============================================================================
