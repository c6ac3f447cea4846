------------------------------- MODULE JobStore -------------------------------
(***************************************************************************)
(* JobStore with a --job-db (src/mycoagent/node/jobs.py): the jobs in      *)
(* memory and the SQLite table that is to bring them back.  Every          *)
(* operation changes the job in memory first and then writes its row       *)
(* (_persist: execute, commit); either may raise, and the caller then gets *)
(* the exception though memory has changed.                                *)
(*                                                                         *)
(* Grain of atomicity.  The asyncio lock of the store is never held across *)
(* an await, so an operation with its _persist is one action; a kill in    *)
(* the middle of one is an action of its own.                              *)
(*                                                                         *)
(* External: SQLite under Python's sqlite3, which opens a transaction      *)
(* before an INSERT.  If execute raises, the row is not written; if commit *)
(* raises, it is written and the transaction stays open, to be committed   *)
(* with the next row; on some errors (a full disk) SQLite rolls back by    *)
(* itself.  Closing the connection, or dying, rolls back.                  *)
(*                                                                         *)
(* A record carries the number of operations it went through, which is     *)
(* history: the code keeps no versions.                                    *)
(***************************************************************************)
EXTENDS JobMemory

CONSTANTS Jobs,
          MaxSubtasks,      \* most subtasks a job gets
          MaxVersion,       \* bound on the operations on one job
          MaxFailures,      \* bound on the writes that raise
          MaxRestarts       \* bound on the process restarts

ASSUME JobStoreAssumption ==
    /\ NoAgent \notin Children
    /\ MaxSubtasks \in Nat /\ MaxVersion \in Nat
    /\ MaxFailures \in Nat /\ MaxRestarts \in Nat

VARIABLES
    up,         \* the process runs, with the connection open
    jobs,       \* _jobs: id -> job
    table,      \* the committed rows of table jobs: id -> job
    open,       \* rows of the open transaction: written, not committed
    answered,   \* history: the last version of a job an operation returned
    raised,     \* history: the jobs whose last operation raised
    failures,   \* bound on the writes that raise
    restarts    \* bound on Start

vars == <<up, jobs, table, open, answered, raised, failures, restarts>>

Row == [job : JobRecord, version : Nat]

Overlay(old, new) == [j \in DOMAIN old \union DOMAIN new |->
                         IF j \in DOMAIN new THEN new[j] ELSE old[j]]
One(j, row) == [k \in {j} |-> row]

Init == /\ up = TRUE
        /\ jobs = <<>> /\ table = <<>> /\ open = <<>>
        /\ answered = [j \in Jobs |-> 0]
        /\ raised = {}
        /\ failures = 0 /\ restarts = 0

-----------------------------------------------------------------------------
(* _persist, after the row of job j in memory has become `row`.            *)

\* The commit takes along what an earlier commit that raised left behind.
Persists(j, row) ==
    /\ table' = Overlay(table, Overlay(open, One(j, row)))
    /\ open' = <<>>
    /\ answered' = [answered EXCEPT ![j] = row.version]
    /\ raised' = raised \ {j}
    /\ UNCHANGED failures

\* Mutant: the error of the database is swallowed, and the caller answered.
PersistRaisesSilently(j, row) ==
    /\ failures < MaxFailures
    /\ failures' = failures + 1
    /\ open' \in {open, Overlay(open, One(j, row)), <<>>}
    /\ answered' = [answered EXCEPT ![j] = row.version]
    /\ raised' = raised \ {j}
    /\ UNCHANGED table

PersistRaises(j, row) ==
    /\ failures < MaxFailures
    /\ failures' = failures + 1
    /\ open' \in {open, Overlay(open, One(j, row)), <<>>}
    /\ raised' = raised \union {j}
    /\ UNCHANGED <<table, answered>>

\* An operation: memory, then _persist.
Write(j, row) ==
    /\ up
    /\ row.version <= MaxVersion
    /\ jobs' = Overlay(jobs, One(j, row))
    /\ Persists(j, row) \/ PersistRaises(j, row)
    /\ UNCHANGED <<up, restarts>>

\* The process is killed in an operation: before its commit, or after it and
\* before the caller is answered.
KilledWriting(j, row) ==
    /\ up
    /\ row.version <= MaxVersion
    /\ table' = Overlay(table, Overlay(open, One(j, row)))
    /\ up' = FALSE
    /\ jobs' = <<>> /\ open' = <<>>
    /\ UNCHANGED <<answered, raised, failures, restarts>>

Attempt(j, row) == Write(j, row) \/ KilledWriting(j, row)

-----------------------------------------------------------------------------
(* The operations.                                                         *)

CreateJob(j, n) ==
    /\ j \notin DOMAIN jobs \union DOMAIN table     \* a new uuid
    /\ Attempt(j, [job |-> Create(n), version |-> 1])

Changed(j, job) == [job |-> job, version |-> jobs[j].version + 1]

\* The dispatch of a subtask: the assignment, RUNNING, and what fails it.
DispatchSubtask(j, i) ==
    /\ j \in DOMAIN jobs /\ i \in DOMAIN jobs[j].job.subtasks
    /\ \/ \E c \in Children :
             Attempt(j, Changed(j, UpdateSubtask(jobs[j].job, i, "ASSIGNED", c)))
       \/ \E status \in {"RUNNING", "FAILED"} :
             Attempt(j, Changed(j, SetStatus(jobs[j].job, i, status)))

\* The result a child reports; the child is answered 200 if it returns, and
\* reports once more if it raises.
TakeResult(j, i) ==
    /\ j \in DOMAIN jobs /\ i \in DOMAIN jobs[j].job.subtasks
    /\ \E c \in Children, status \in {"COMPLETED", "FAILED"} :
          Attempt(j, Changed(j, UpdateSubtask(jobs[j].job, i, status, c)))

AddOne(j) ==
    /\ j \in DOMAIN jobs /\ Len(jobs[j].job.subtasks) < MaxSubtasks
    /\ Attempt(j, Changed(j, AddSubtask(jobs[j].job)))

\* Mutant: fail changes the job in memory only.
FailJobOnly(j) ==
    /\ up /\ j \in DOMAIN jobs /\ jobs[j].version < MaxVersion
    /\ jobs' = Overlay(jobs, One(j, Changed(j, Fail(jobs[j].job))))
    /\ UNCHANGED <<up, table, open, answered, raised, failures, restarts>>

FailJob(j) ==
    /\ j \in DOMAIN jobs
    /\ Attempt(j, Changed(j, Fail(jobs[j].job)))

\* complete_local, of a job without subtasks.
FinishLocally(j) ==
    /\ j \in DOMAIN jobs /\ jobs[j].job.subtasks = <<>>
    /\ Attempt(j, Changed(j, CompleteLocal(jobs[j].job)))

-----------------------------------------------------------------------------
\* close() in an orderly shutdown, or a kill between two operations.
Stop ==
    /\ up
    /\ up' = FALSE
    /\ jobs' = <<>> /\ open' = <<>>
    /\ UNCHANGED <<table, answered, raised, failures, restarts>>

\* JobStore.__init__: the table is read into memory (_load).
Start ==
    /\ ~up /\ restarts < MaxRestarts
    /\ restarts' = restarts + 1
    /\ up' = TRUE
    /\ jobs' = table
    /\ raised' = {}
    /\ UNCHANGED <<table, open, answered, failures>>

-----------------------------------------------------------------------------
Operate(j) == \/ \E n \in 0..MaxSubtasks : CreateJob(j, n)
              \/ \E i \in 1..MaxSubtasks : DispatchSubtask(j, i) \/ TakeResult(j, i)
              \/ AddOne(j) \/ FailJob(j) \/ FinishLocally(j)

Next == (\E j \in Jobs : Operate(j)) \/ Stop \/ Start

Spec == Init /\ [][Next]_vars

-----------------------------------------------------------------------------
(* Properties.                                                             *)

TypeOK ==
    /\ up \in BOOLEAN
    /\ \A f \in {jobs, table, open} :
          DOMAIN f \subseteq Jobs /\ \A j \in DOMAIN f : f[j] \in Row
    /\ answered \in [Jobs -> Nat]
    /\ raised \subseteq Jobs
    /\ failures \in 0..MaxFailures /\ restarts \in 0..MaxRestarts

\* What an operation answered is on disk and stays there, through later writes
\* that raise, transactions left open, kills and restarts: a result a child got
\* its 200 for comes back with every restart (_persist, _load).
AnsweredSurvives ==
    \A j \in Jobs : answered[j] > 0 =>
        j \in DOMAIN table /\ table[j].version >= answered[j]

\* What a client reads of a job is what a restart would bring back, except
\* after an operation on that very job raised: a failed write of one job never
\* makes another one differ, and the next write that succeeds makes up for it.
ShownIsKept ==
    up => /\ DOMAIN table \subseteq DOMAIN jobs
          /\ \A j \in DOMAIN jobs \ raised : j \in DOMAIN table /\ table[j] = jobs[j]
=============================================================================
