--------------------------- MODULE DispatchProofs ---------------------------
(***************************************************************************)
(* Proofs about Dispatch for any number of jobs, forwards, children and    *)
(* subtasks, any capacity and number of attempts, with and without a job   *)
(* database, faults and restarts.  Only TypeCorrect, which bounds the      *)
(* number of subtasks, asks that the forwards be finitely many.            *)
(***************************************************************************)
EXTENDS Dispatch, JobMemoryProofs, FiniteSetTheorems

\* Subtasks a job may ever get: the bound on their number is the model's.
Names == Jobs \X (Nat \ {0})

ProcRecord == [pc : Phases, job : Jobs \union {NoAgent}, sub : Nat, todo : Nat,
               planned : BOOLEAN, exclude : Children \union {NoAgent},
               target : Children \union {NoAgent}]

Working == {"querying", "assigning"}

\* The subtasks after the current one that a coroutine will dispatch: planned
\* ones do not exist yet.
Left(q) == IF q.planned THEN 0 ELSE q.todo

\* Subtask s, of coroutine record q, has still to be sent to a child.
Fresh(q, s) == /\ q.pc \in Working /\ q.job = s[1]
               /\ IF q.pc = "querying" THEN q.sub <= s[2] ELSE q.sub < s[2]
               /\ s[2] <= q.sub + Left(q)

\* Child c has subtask s, had it, or may still get it.
Held(s, c) == \/ <<s, c>> \in assigns
              \/ \E i \in DOMAIN backlog[c] : backlog[c][i] = s
              \/ \E v \in Verdicts : <<s, c, v>> \in ran

Answered(s) == s \in Subtasks /\ answer[s] # "none"

-----------------------------------------------------------------------------
(* The inductive invariant: the parent.                                    *)

\* Records are well typed and rolled up.
MemoryOK == /\ DOMAIN memory \subseteq Jobs
            /\ \A j \in DOMAIN memory : RolledUp(memory[j]) /\ proc[j].pc # "idle"

\* A coroutine knows its job, and its subtasks are among the job's.
Placed(p) ==
    LET q == proc[p]
    IN  /\ q.pc = "idle" => q = NotStarted
        /\ q.pc # "idle" => q.job \in Jobs /\ proc[q.job].pc # "idle" /\ (p \in Jobs => q.job = p)
        /\ q.pc \in {"planning", "local"} => p \in Jobs /\ q.sub = 0 /\ q.todo = 0
        /\ p \in Forwards => q.todo = 0
        /\ q.pc \in Working \union {"planning", "local"} => q.job \in DOMAIN memory
        /\ q.pc \in Working => q.sub > 0 /\ q.sub + Left(q) <= Len(memory[q.job].subtasks)
        /\ q.job \in DOMAIN memory => q.sub <= Len(memory[q.job].subtasks)

\* No subtask is sent by two coroutines.
Apart(p, r) ==
    /\ \A s \in Names : ~(Fresh(proc[p], s) /\ Fresh(proc[r], s))
    /\ ~Fresh(proc[p], SubtaskOf(r))

ProcOK == /\ proc \in [Coroutines -> ProcRecord]
          /\ \A p \in Coroutines : Placed(p)
          /\ \A p, r \in Coroutines : p # r => Apart(p, r)

\* What has still to be sent nobody has heard of.
FreshOK ==
    \A p \in Coroutines, s \in Names : Fresh(proc[p], s) =>
        /\ memory[s[1]].subtasks[s[2]] = PendingSubtask
        /\ ~Answered(s) /\ \A c \in Children : ~Held(s, c)

\* Who holds a subtask is the one the record names.
HeldOK ==
    \A s \in Names :
        /\ \A c \in Children : Held(s, c) =>
              /\ proc[s[1]].pc # "idle"
              /\ s[1] \in DOMAIN memory =>
                    s[2] \in DOMAIN memory[s[1]].subtasks /\ AssigneeOf(s) = c
              /\ \A d \in Children : Held(s, d) => c = d
        /\ Answered(s) => /\ proc[s[1]].pc # "idle"
                          /\ s[1] \in DOMAIN memory => s[2] \in DOMAIN memory[s[1]].subtasks

\* An undecided subtask has a coroutine that will decide it, or had one that
\* died of an error or a restart.
Attended ==
    \A s \in Names : Known(s) =>
        /\ StatusOf(s) = "ASSIGNED" =>
              \E p \in Coroutines : SubtaskOf(p) = s /\ proc[p].pc \in {"assigning", "gone"}
        /\ StatusOf(s) = "PENDING" =>
              \E p \in Coroutines :
                  \/ Fresh(proc[p], s)
                  \/ /\ proc[p].pc \in {"raised", "gone"}
                     /\ proc[p].job = s[1] /\ proc[p].sub <= s[2]

Causes ==
    \A s \in Names : Known(s) =>
        /\ StatusOf(s) = "RUNNING" /\ s \in Subtasks => answer[s] = "accepted"
        /\ StatusOf(s) = "COMPLETED" => <<s, AssigneeOf(s), "COMPLETED">> \in ran

ForwardOK ==
    \A f \in Forwards :
        /\ proc[f].pc = "querying" => proc[f].target = NoAgent \/ proc[f].target # proc[f].exclude
        /\ proc[f].exclude # NoAgent /\ Known(SubtaskOf(f)) => AssigneeOf(SubtaskOf(f)) # proc[f].exclude

ParentInv == MemoryOK /\ ProcOK /\ FreshOK /\ HeldOK /\ Attended /\ Causes /\ ForwardOK

-----------------------------------------------------------------------------
(* The inductive invariant: the children and the network.                  *)

NetTypes ==
    /\ assigns \subseteq Names \X Children
    /\ DOMAIN answer = Subtasks
    /\ backlog \in [Children -> Seq(Names)]
    /\ run \in [Children -> [phase : {"idle", "running", "reporting"},
                             verdict : Verdicts \union {"none"}, attempt : Nat,
                             answer : {"none", "ok", "error"}]]
    /\ reports \subseteq [subtask : Names, child : Children, verdict : Verdicts, attempt : Nat]
    /\ ran \subseteq Names \X Children \X Verdicts

\* A child runs the head of its backlog, which it has run when it reports.
AtWork(c) ==
    /\ run[c].phase = "idle" => backlog[c] = <<>>
    /\ run[c].answer # "none" => run[c].phase = "reporting"
    /\ run[c].phase # "idle" => backlog[c] # <<>>
    /\ run[c].phase = "reporting" =>
          run[c].verdict \in Verdicts /\ <<backlog[c][1], c, run[c].verdict>> \in ran
    /\ \A i, k \in DOMAIN backlog[c] : backlog[c][i] = backlog[c][k] => i = k
    /\ \A i \in DOMAIN backlog[c] :
          (\E v \in Verdicts : <<backlog[c][i], c, v>> \in ran) => i = 1 /\ run[c].phase = "reporting"

\* What is on its way has not arrived.
OnItsWay ==
    \A s \in Names, c \in Children : <<s, c>> \in assigns =>
        /\ ~Answered(s)
        /\ \A i \in DOMAIN backlog[c] : backlog[c][i] # s
        /\ \A v \in Verdicts : <<s, c, v>> \notin ran

\* A verdict is reached once, and reports carry it.
OneVerdict ==
    /\ \A s \in Names, c \in Children, v, w \in Verdicts :
          <<s, c, v>> \in ran /\ <<s, c, w>> \in ran => v = w
    /\ \A r \in reports : <<r.subtask, r.child, r.verdict>> \in ran

NetInv == NetTypes /\ (\A c \in Children : AtWork(c)) /\ OnItsWay /\ OneVerdict

Inv == ParentInv /\ NetInv

-----------------------------------------------------------------------------
(* What the operations of the JobStore do to the list of subtasks.         *)

LEMMA SubtasksSeq ==
    ASSUME NEW job, RolledUp(job)
    PROVE  /\ job \in JobRecord
           /\ job.subtasks \in Seq(SubtaskRecord)
           /\ Len(job.subtasks) \in Nat /\ DOMAIN job.subtasks = 1..Len(job.subtasks)
           /\ \A i \in 1..Len(job.subtasks) :
                 /\ job.subtasks[i] \in SubtaskRecord
                 /\ job.subtasks[i].assignee \in Children \union {NoAgent}
                 /\ job.subtasks[i].status \in SubtaskStatus
<1>1. job \in JobRecord
  BY DEF RolledUp
<1>2. job.subtasks \in Seq(SubtaskRecord)
  BY <1>1 DEF JobRecord
<1>3. \A i \in 1..Len(job.subtasks) : job.subtasks[i] \in SubtaskRecord
  BY <1>2
<1>4. QED
  BY <1>1, <1>2, <1>3 DEF SubtaskRecord

LEMMA CreateSubtasks ==
    ASSUME NEW n \in Nat
    PROVE  /\ RolledUp(Create(n)) /\ Len(Create(n).subtasks) = n
           /\ \A i \in 1..n : Create(n).subtasks[i] = PendingSubtask
  BY CreateIsRolledUp DEF Create

LEMMA SetStatusSubtasks ==
    ASSUME NEW job, RolledUp(job), NEW i \in 1..Len(job.subtasks), NEW status \in SubtaskStatus
    PROVE  /\ RolledUp(SetStatus(job, i, status))
           /\ Len(SetStatus(job, i, status).subtasks) = Len(job.subtasks)
           /\ \A k \in 1..Len(job.subtasks) : k # i =>
                 SetStatus(job, i, status).subtasks[k] = job.subtasks[k]
           /\ SetStatus(job, i, status).subtasks[i].status = status
           /\ SetStatus(job, i, status).subtasks[i].assignee = job.subtasks[i].assignee
<1>1. RolledUp(SetStatus(job, i, status))
  BY SubtasksSeq, SetStatusIsRolledUp
<1>2. SetStatus(job, i, status).subtasks
        = [job.subtasks EXCEPT ![i] = [status |-> status, assignee |-> job.subtasks[i].assignee]]
  BY SubtasksSeq DEF SetStatus, UpdateSubtask, Rolled, JobRecord
<1>3. QED
  BY <1>1, <1>2, SubtasksSeq

LEMMA UpdateSubtasks ==
    ASSUME NEW job, RolledUp(job), NEW i \in 1..Len(job.subtasks), NEW status \in SubtaskStatus,
           NEW assignee \in Children \union {NoAgent}
    PROVE  /\ RolledUp(UpdateSubtask(job, i, status, assignee))
           /\ Len(UpdateSubtask(job, i, status, assignee).subtasks) = Len(job.subtasks)
           /\ \A k \in 1..Len(job.subtasks) : k # i =>
                 UpdateSubtask(job, i, status, assignee).subtasks[k] = job.subtasks[k]
           /\ UpdateSubtask(job, i, status, assignee).subtasks[i]
                 = [status |-> status, assignee |-> assignee]
<1>1. RolledUp(UpdateSubtask(job, i, status, assignee))
  BY SubtasksSeq, UpdateIsRolledUp
<1>2. UpdateSubtask(job, i, status, assignee).subtasks
        = [job.subtasks EXCEPT ![i] = [status |-> status, assignee |-> assignee]]
  BY SubtasksSeq DEF UpdateSubtask, Rolled, JobRecord
<1>3. QED
  BY <1>1, <1>2, SubtasksSeq

LEMMA AddSubtasks ==
    ASSUME NEW job, RolledUp(job)
    PROVE  /\ RolledUp(AddSubtask(job))
           /\ Len(AddSubtask(job).subtasks) = Len(job.subtasks) + 1
           /\ \A k \in 1..Len(job.subtasks) : AddSubtask(job).subtasks[k] = job.subtasks[k]
           /\ AddSubtask(job).subtasks[Len(job.subtasks) + 1] = PendingSubtask
<1>1. RolledUp(AddSubtask(job))
  BY SubtasksSeq, AddIsRolledUp
<1>2. AddSubtask(job).subtasks = Append(job.subtasks, PendingSubtask)
  BY SubtasksSeq DEF AddSubtask, Rolled, JobRecord
<1>3. QED
  BY <1>1, <1>2, SubtasksSeq

LEMMA OthersSubtasks ==
    ASSUME NEW job, RolledUp(job)
    PROVE  /\ RolledUp(Fail(job)) /\ Fail(job).subtasks = job.subtasks
           /\ RolledUp(CompleteLocal(job)) /\ CompleteLocal(job).subtasks = job.subtasks
<1>1. RolledUp(Fail(job)) /\ RolledUp(CompleteLocal(job))
  BY SubtasksSeq, FailIsRolledUp, CompleteLocalIsRolledUp
<1>2. Fail(job).subtasks = job.subtasks /\ CompleteLocal(job).subtasks = job.subtasks
  BY SubtasksSeq DEF Fail, CompleteLocal, Rolled, JobRecord
<1>3. QED
  BY <1>1, <1>2

-----------------------------------------------------------------------------
(* A step of a coroutine that sends nothing.                               *)

Old(j) == IF j \in DOMAIN memory THEN memory[j].subtasks ELSE <<>>

\* Coroutine p becomes q and leaves the record `job` of its job j.
CoroutineMoves(p, q, j, job) ==
    /\ proc' = [proc EXCEPT ![p] = q] /\ q \in ProcRecord
    /\ Remember(j, job) /\ RolledUp(job)
    /\ q.job = j /\ q.pc \notin {"idle", "assigning"} /\ (p \in Jobs => p = j)
    /\ p \in Forwards => q.todo = 0
    /\ proc[p].pc \notin Ended
    /\ proc[p].pc = "idle" \/ proc[p].job = j
    /\ j \in DOMAIN memory \/ (p = j /\ proc[p].pc = "idle")
    /\ q.pc \in {"planning", "local"} => p \in Jobs /\ q.sub = 0 /\ q.todo = 0
    /\ q.pc = "querying" => q.sub > 0 /\ q.sub + Left(q) <= Len(job.subtasks)
    /\ q.sub <= Len(job.subtasks)
    /\ q.sub \in {0, proc[p].sub} \/ q.sub > Len(Old(j)) \/ Fresh(proc[p], <<j, q.sub>>)

\* Of the subtasks it changes its current one, which it decides or hands to its
\* child, and adds new ones, which it goes on to or gives up.
SubtasksMove(p, q, j, job) ==
    /\ Len(Old(j)) <= Len(job.subtasks)
    /\ \A i \in 1..Len(Old(j)) :
          job.subtasks[i] = Old(j)[i] \/ (i = proc[p].sub /\ proc[p].pc \in Working)
    /\ \A i \in 1..Len(job.subtasks) : i > Len(Old(j)) =>
          job.subtasks[i].assignee = NoAgent /\ job.subtasks[i].status \in {"PENDING", "FAILED"}
    /\ \A i \in 1..Len(job.subtasks) : Fresh(q, <<j, i>>) =>
          /\ job.subtasks[i] = PendingSubtask
          /\ i > Len(Old(j)) \/ Fresh(proc[p], <<j, i>>)
    /\ \A i \in 1..Len(job.subtasks) :
          job.subtasks[i].status = "PENDING" /\ (i > Len(Old(j)) \/ Fresh(proc[p], <<j, i>>))
             => Fresh(q, <<j, i>>)
    /\ proc[p].pc \in Working =>
          /\ job.subtasks[proc[p].sub].assignee = Old(j)[proc[p].sub].assignee
          /\ \/ job.subtasks[proc[p].sub].status = "FAILED"
             \/ /\ job.subtasks[proc[p].sub].status = "RUNNING"
                /\ <<j, proc[p].sub>> \in Subtasks => answer[<<j, proc[p].sub>>] = "accepted"

ForwardMoves(p, q, job) ==
    p \in Forwards =>
        /\ q.pc = "querying" => q.target = NoAgent \/ q.target # q.exclude
        /\ q.sub > 0
        /\ q.exclude # NoAgent => job.subtasks[q.sub].assignee # q.exclude

Moves(p, q, j, job) ==
    /\ CoroutineMoves(p, q, j, job) /\ SubtasksMove(p, q, j, job) /\ ForwardMoves(p, q, job)
    /\ UNCHANGED <<childVars, assigns, answer, reports>>

\* What a coroutine has still to send is in memory.
LEMMA FreshIsKnown ==
    ASSUME ParentInv, NEW p \in Coroutines, NEW s \in Names, Fresh(proc[p], s)
    PROVE  /\ s[1] \in DOMAIN memory /\ s[2] \in 1..Len(memory[s[1]].subtasks)
           /\ s[2] \in DOMAIN memory[s[1]].subtasks
<1>1. /\ proc[p].pc \in Working /\ proc[p].job = s[1] /\ s[2] <= proc[p].sub + Left(proc[p])
  BY DEF Fresh
<1>2. /\ s[1] \in DOMAIN memory /\ proc[p].sub + Left(proc[p]) <= Len(memory[s[1]].subtasks)
  BY <1>1 DEF ParentInv, ProcOK, Placed
<1>3. RolledUp(memory[s[1]])
  BY <1>2 DEF ParentInv, MemoryOK
<1>4. proc[p].sub \in Nat /\ Left(proc[p]) \in Nat /\ s[2] \in Nat \ {0}
  BY DEF ParentInv, ProcOK, ProcRecord, Left, Names
<1>5. QED
  BY <1>1, <1>2, <1>3, <1>4, SubtasksSeq

\* What is where after such a step.
Moved(p, q, j, job) ==
    /\ DOMAIN memory' = DOMAIN memory \union {j} /\ memory'[j] = job
    /\ \A k \in DOMAIN memory : k # j => memory'[k] = memory[k]
    /\ proc'[p] = q /\ \A r \in Coroutines : r # p => proc'[r] = proc[r]
    /\ Len(job.subtasks) \in Nat /\ DOMAIN job.subtasks = 1..Len(job.subtasks)
    /\ Len(Old(j)) \in Nat /\ DOMAIN Old(j) = 1..Len(Old(j))

LEMMA MovesMemory ==
    ASSUME ParentInv, NEW p \in Coroutines, NEW q, NEW j \in Jobs, NEW job, Moves(p, q, j, job)
    PROVE  MemoryOK' /\ Moved(p, q, j, job)
<1>1. /\ DOMAIN memory' = DOMAIN memory \union {j} /\ memory'[j] = job
      /\ \A k \in DOMAIN memory : k # j => memory'[k] = memory[k]
  BY DEF Moves, CoroutineMoves, Remember
<1>2. proc'[p] = q /\ \A r \in Coroutines : r # p => proc'[r] = proc[r]
  BY DEF Moves, CoroutineMoves, ParentInv, ProcOK
<1>3. RolledUp(job) /\ q.pc # "idle" /\ (j \in DOMAIN memory \/ p = j)
  BY DEF Moves, CoroutineMoves
<1>4. MemoryOK'
  <2>1. DOMAIN memory' \subseteq Jobs
    BY <1>1 DEF ParentInv, MemoryOK
  <2>2. ASSUME NEW k \in DOMAIN memory' PROVE RolledUp(memory'[k]) /\ proc'[k].pc # "idle"
    <3>1. k \in Coroutines
      BY <2>1 DEF Coroutines
    <3>2. CASE k = j
      BY <1>1, <1>2, <1>3, <3>1, <3>2 DEF ParentInv, MemoryOK
    <3>3. CASE k # j
      BY <1>1, <1>2, <1>3, <3>1, <3>3 DEF ParentInv, MemoryOK
    <3>4. QED
      BY <3>2, <3>3
  <2>3. QED
    BY <2>1, <2>2 DEF MemoryOK, RolledUp, RollUp, JobRecord, JobStatus, SubtaskRecord, SubtaskStatus
<1>5. Len(job.subtasks) \in Nat /\ DOMAIN job.subtasks = 1..Len(job.subtasks)
  BY <1>3, SubtasksSeq
<1>6. Len(Old(j)) \in Nat /\ DOMAIN Old(j) = 1..Len(Old(j))
  <2>1. CASE j \in DOMAIN memory
    <3>1. RolledUp(memory[j])
      BY <2>1 DEF ParentInv, MemoryOK
    <3>2. QED
      BY <2>1, <3>1, SubtasksSeq DEF Old
  <2>2. CASE j \notin DOMAIN memory
    BY <2>2 DEF Old
  <2>3. QED
    BY <2>1, <2>2
<1>7. QED
  BY <1>1, <1>2, <1>4, <1>5, <1>6 DEF Moved

LEMMA MovesPlaced ==
    ASSUME ParentInv, NEW p \in Coroutines, NEW q, NEW j \in Jobs, NEW job, Moves(p, q, j, job)
    PROVE  proc' \in [Coroutines -> ProcRecord] /\ \A r \in Coroutines : Placed(r)'
<1>0. Moved(p, q, j, job)
  BY MovesMemory
<1>1. proc' \in [Coroutines -> ProcRecord]
  BY DEF Moves, CoroutineMoves, ParentInv, ProcOK
<1>2. j \in Coroutines /\ proc'[j].pc # "idle"
  <2>1. j \in Coroutines
    BY DEF Coroutines
  <2>2. q.pc # "idle" /\ (j \in DOMAIN memory \/ p = j)
    BY DEF Moves, CoroutineMoves
  <2>3. QED
    BY <2>1, <2>2, <1>0 DEF ParentInv, MemoryOK, Moved
<1>3. Placed(p)'
  <2>1. /\ proc'[p] = q /\ q.pc # "idle" /\ q.job = j /\ (p \in Jobs => p = j)
        /\ q.pc \in {"planning", "local"} => p \in Jobs /\ q.sub = 0 /\ q.todo = 0
        /\ p \in Forwards => q.todo = 0
        /\ q.pc \in Working => q.sub > 0 /\ q.sub + Left(q) <= Len(job.subtasks)
        /\ q.sub <= Len(job.subtasks)
    BY <1>0 DEF Moves, CoroutineMoves, Working, Moved
  <2>2. j \in DOMAIN memory' /\ memory'[j] = job
    BY <1>0 DEF Moved
  <2>3. QED
    BY <1>2, <2>1, <2>2 DEF Placed, Left
<1>4. ASSUME NEW r \in Coroutines, r # p PROVE Placed(r)'
  <2>1. proc'[r] = proc[r] /\ Placed(r)
    BY <1>4, <1>0 DEF ParentInv, ProcOK, Moved
  <2>2. proc[r].pc # "idle" => proc'[proc[r].job].pc # "idle"
    <3> SUFFICES ASSUME proc[r].pc # "idle" PROVE proc'[proc[r].job].pc # "idle"
      OBVIOUS
    <3>1. proc[r].job \in Coroutines /\ proc[proc[r].job].pc # "idle"
      BY <2>1 DEF Placed, Coroutines
    <3>2. q.pc # "idle"
      BY DEF Moves, CoroutineMoves
    <3>3. QED
      BY <3>1, <3>2, <1>0 DEF Moved
  <2>3. DOMAIN memory \subseteq DOMAIN memory'
    BY <1>0 DEF Moved
  <2>4. ASSUME proc[r].job \in DOMAIN memory
        PROVE  Len(memory[proc[r].job].subtasks) <= Len(memory'[proc[r].job].subtasks)
               /\ Len(memory[proc[r].job].subtasks) \in Nat
               /\ Len(memory'[proc[r].job].subtasks) \in Nat
    <3>1. RolledUp(memory[proc[r].job])
      BY <2>4 DEF ParentInv, MemoryOK
    <3>2. Len(memory[proc[r].job].subtasks) \in Nat
      BY <3>1, SubtasksSeq
    <3>3. CASE proc[r].job = j
      BY <2>4, <3>2, <3>3, <1>0 DEF Moves, SubtasksMove, Old, Moved
    <3>4. CASE proc[r].job # j
      BY <2>4, <3>2, <3>4, <1>0 DEF Moved
    <3>5. QED
      BY <3>3, <3>4
  <2>5. proc[r].sub \in Nat /\ Left(proc[r]) \in Nat
    BY DEF ParentInv, ProcOK, ProcRecord, Left
  <2>6. proc[r].job \in DOMAIN memory' => proc[r].sub <= Len(memory'[proc[r].job].subtasks)
    <3>1. CASE proc[r].job \in DOMAIN memory
      BY <2>1, <2>4, <2>5, <3>1 DEF Placed
    <3>2. CASE proc[r].job \notin DOMAIN memory /\ proc[r].job = j
      <4>1. proc[j].pc = "idle"
        BY <3>2 DEF Moves, CoroutineMoves
      <4>2. proc[r].pc = "idle"
        BY <2>1, <3>2, <4>1 DEF Placed
      <4>3. proc[r].sub = 0
        BY <2>1, <4>2 DEF Placed, NotStarted
      <4>4. QED
        BY <3>2, <4>3, <1>0 DEF Moved
    <3>3. QED
      BY <3>1, <3>2, <1>0 DEF Moved
  <2>7. proc[r].pc \in Working => proc[r].sub + Left(proc[r]) <= Len(memory'[proc[r].job].subtasks)
    BY <2>1, <2>4, <2>5 DEF Placed
  <2>8. QED
    BY <2>1, <2>2, <2>3, <2>6, <2>7 DEF Placed, Left
<1>5. QED
  BY <1>1, <1>3, <1>4

\* What p still has to send is new, or it had to before.
LEMMA MovesFreshOf ==
    ASSUME ParentInv, NEW p \in Coroutines, NEW q, NEW j \in Jobs, NEW job, Moves(p, q, j, job),
           NEW s \in Names, Fresh(q, s)
    PROVE  /\ s[1] = j /\ s[2] \in 1..Len(job.subtasks) /\ s = <<j, s[2]>>
           /\ job.subtasks[s[2]] = PendingSubtask
           /\ s[2] > Len(Old(j)) \/ Fresh(proc[p], s)
<1>0. Moved(p, q, j, job)
  BY MovesMemory
<1>1. /\ q.job = j /\ q.pc # "assigning" /\ q \in ProcRecord
      /\ q.pc = "querying" => q.sub > 0 /\ q.sub + Left(q) <= Len(job.subtasks)
  BY DEF Moves, CoroutineMoves
<1>2. s[1] = j /\ q.pc = "querying" /\ s[2] <= q.sub + Left(q)
  BY <1>1 DEF Fresh, Working
<1>3. q.sub \in Nat /\ Left(q) \in Nat /\ s[2] \in Nat \ {0} /\ s = <<s[1], s[2]>>
  BY <1>1 DEF ProcRecord, Left, Names
<1>4. s[2] \in 1..Len(job.subtasks)
  BY <1>1, <1>2, <1>3, <1>0 DEF Moved
<1>5. QED
  BY <1>2, <1>3, <1>4 DEF Moves, SubtasksMove

LEMMA MovesApart ==
    ASSUME ParentInv, NEW p \in Coroutines, NEW q, NEW j \in Jobs, NEW job, Moves(p, q, j, job)
    PROVE  \A r, t \in Coroutines : r # t => Apart(r, t)'
<1>0. Moved(p, q, j, job)
  BY MovesMemory
<1>1. ASSUME NEW r \in Coroutines, NEW s \in Names, r # p, Fresh(proc[r], s), s[1] = j
      PROVE  s[2] <= Len(Old(j))
  BY <1>1, FreshIsKnown DEF Old
<1>2. ASSUME NEW r \in Coroutines, r # p PROVE Apart(p, r)' /\ Apart(r, p)'
  <2>1. proc'[r] = proc[r] /\ proc'[p] = q /\ SubtaskOf(r)' = SubtaskOf(r) /\ SubtaskOf(p)' = <<j, q.sub>>
    BY <1>2, <1>0 DEF SubtaskOf, Moves, CoroutineMoves, Moved
  <2>2. Apart(p, r) /\ Apart(r, p) /\ Placed(r)
    BY <1>2 DEF ParentInv, ProcOK
  <2>3. Len(Old(j)) \in Nat /\ \A s \in Names : s[2] \in Nat
    BY <1>0 DEF Names, Moved
  <2>4. \A s \in Names : ~(Fresh(q, s) /\ Fresh(proc[r], s))
    BY <1>1, <1>2, <2>2, <2>3, MovesFreshOf DEF Apart
  <2>5. ~Fresh(q, SubtaskOf(r))
    <3> SUFFICES ASSUME Fresh(q, SubtaskOf(r)) PROVE FALSE
      OBVIOUS
    <3>1. /\ q.job = j /\ q.pc = "querying" /\ q.sub > 0 /\ q.sub \in Nat /\ q.sub <= proc[r].sub
          /\ proc[r].job = j /\ proc[r].sub \in Nat
      BY DEF Fresh, SubtaskOf, Working, Moves, CoroutineMoves, ProcRecord, ParentInv, ProcOK
    <3>2. SubtaskOf(r) \in Names
      BY <3>1 DEF SubtaskOf, Names
    <3>3. proc[r].sub > Len(Old(j)) \/ Fresh(proc[p], SubtaskOf(r))
      BY <3>2, MovesFreshOf DEF SubtaskOf
    <3>4. proc[r].sub > Len(Old(j))
      BY <2>2, <3>3 DEF Apart
    <3>5. j \notin DOMAIN memory
      BY <2>2, <2>3, <3>1, <3>4 DEF Placed, Old
    <3>6. proc[j].pc = "idle"
      BY <3>5 DEF Moves, CoroutineMoves
    <3>7. proc[r].pc = "idle"
      BY <2>2, <3>1, <3>6 DEF Placed
    <3>8. QED
      BY <2>2, <3>1, <3>7 DEF Placed, NotStarted
  <2>6. ~Fresh(proc[r], <<j, q.sub>>)
    <3> SUFFICES ASSUME Fresh(proc[r], <<j, q.sub>>) PROVE FALSE
      OBVIOUS
    <3>1. proc[r].sub <= q.sub /\ proc[r].sub > 0 /\ proc[r].sub \in Nat /\ q.sub \in Nat
      BY <2>2 DEF Fresh, Placed, Working, ParentInv, ProcOK, ProcRecord, Moves, CoroutineMoves
    <3>2. <<j, q.sub>> \in Names /\ q.sub # 0
      BY <3>1 DEF Names
    <3>3. q.sub <= Len(Old(j))
      BY <1>1, <1>2, <3>2
    <3>4. q.sub = proc[p].sub \/ Fresh(proc[p], <<j, q.sub>>)
      BY <2>3, <3>1, <3>2, <3>3 DEF Moves, CoroutineMoves
    <3>5. CASE q.sub = proc[p].sub
      <4>1. proc[p].pc # "idle"
        BY <3>2, <3>5 DEF ParentInv, ProcOK, Placed, NotStarted
      <4>2. proc[p].job = j
        BY <4>1 DEF Moves, CoroutineMoves
      <4>3. QED
        BY <2>2, <3>5, <4>2 DEF Apart, SubtaskOf
    <3>6. CASE Fresh(proc[p], <<j, q.sub>>)
      BY <2>2, <3>2, <3>6 DEF Apart
    <3>7. QED
      BY <3>4, <3>5, <3>6
  <2>7. QED
    BY <2>1, <2>2, <2>4, <2>5, <2>6 DEF Apart
<1>3. ASSUME NEW r \in Coroutines, NEW t \in Coroutines, r # p, t # p, r # t PROVE Apart(r, t)'
  <2>1. proc'[r] = proc[r] /\ proc'[t] = proc[t] /\ SubtaskOf(t)' = SubtaskOf(t) /\ Apart(r, t)
    BY <1>3, <1>0 DEF ParentInv, ProcOK, SubtaskOf, Moved
  <2>2. QED
    BY <2>1 DEF Apart
<1>4. QED
  BY <1>2, <1>3

\* No move reassigns a subtask, and p decides only its current one.
LEMMA MovesOld ==
    ASSUME ParentInv, NEW p \in Coroutines, NEW q, NEW j \in Jobs, NEW job, Moves(p, q, j, job)
    PROVE  \A i \in 1..Len(Old(j)) :
              /\ j \in DOMAIN memory /\ Old(j) = memory[j].subtasks
              /\ i \in 1..Len(job.subtasks)
              /\ job.subtasks[i].assignee = memory[j].subtasks[i].assignee
              /\ \/ job.subtasks[i] = memory[j].subtasks[i]
                 \/ /\ <<j, i>> = SubtaskOf(p) /\ proc[p].pc \in Working
                    /\ \/ job.subtasks[i].status = "FAILED"
                       \/ /\ job.subtasks[i].status = "RUNNING"
                          /\ <<j, i>> \in Subtasks => answer[<<j, i>>] = "accepted"
<1> TAKE i \in 1..Len(Old(j))
<1>0. Moved(p, q, j, job)
  BY MovesMemory
<1>1. j \in DOMAIN memory /\ Old(j) = memory[j].subtasks
  BY DEF Old
<1>2. i \in 1..Len(job.subtasks)
  BY <1>0 DEF Moved, Moves, SubtasksMove
<1>3. \/ job.subtasks[i] = memory[j].subtasks[i]
      \/ i = proc[p].sub /\ proc[p].pc \in Working
  BY <1>1 DEF Moves, SubtasksMove
<1>4. proc[p].pc \in Working => proc[p].job = j
  BY DEF Moves, CoroutineMoves, Working
<1>5. QED
  BY <1>1, <1>2, <1>3, <1>4 DEF Moves, SubtasksMove, SubtaskOf

\* Whom a subtask is assigned to no move changes.
LEMMA MovesAssignee ==
    ASSUME ParentInv, NEW p \in Coroutines, NEW q, NEW j \in Jobs, NEW job, Moves(p, q, j, job)
    PROVE  \A i \in 1..Len(Old(j)) : /\ i \in 1..Len(job.subtasks)
                                     /\ job.subtasks[i].assignee = memory[j].subtasks[i].assignee
<1> SUFFICES ASSUME NEW i \in 1..Len(Old(j))
             PROVE  /\ i \in 1..Len(job.subtasks)
                    /\ job.subtasks[i].assignee = memory[j].subtasks[i].assignee
  OBVIOUS
<1>0. Moved(p, q, j, job)
  BY MovesMemory
<1>1. j \in DOMAIN memory /\ Old(j) = memory[j].subtasks
  BY DEF Old
<1>2. i \in 1..Len(job.subtasks)
  BY <1>0 DEF Moved, Moves, SubtasksMove
<1>3. \/ job.subtasks[i] = memory[j].subtasks[i]
      \/ i = proc[p].sub /\ proc[p].pc \in Working
  BY <1>1 DEF Moves, SubtasksMove
<1>4. QED
  BY <1>1, <1>2, <1>3 DEF Moves, SubtasksMove

\* Nobody has heard of a subtask the step adds.
LEMMA MovesNew ==
    ASSUME ParentInv, NEW p \in Coroutines, NEW q, NEW j \in Jobs, NEW job, Moves(p, q, j, job),
           NEW s \in Names, s[1] = j, s[2] > Len(Old(j))
    PROVE  ~Answered(s) /\ \A c \in Children : ~Held(s, c)
<1>0. Moved(p, q, j, job)
  BY MovesMemory
<1>1. j \notin DOMAIN memory => proc[j].pc = "idle"
  BY DEF Moves, CoroutineMoves
<1>2. s[2] \notin 1..Len(Old(j))
  BY <1>0 DEF Moved, Names
<1>3. j \in DOMAIN memory => s[2] \notin DOMAIN memory[j].subtasks
  BY <1>0, <1>2 DEF Old, Moved
<1>4. QED
  BY <1>1, <1>3 DEF ParentInv, HeldOK

\* The messages and the children are as they were.
LEMMA MovesNet ==
    ASSUME NEW p, NEW q, NEW j, NEW job, Moves(p, q, j, job)
    PROVE  /\ \A s, c : Held(s, c)' <=> Held(s, c)
           /\ \A s : Answered(s)' <=> Answered(s)
  BY DEF Moves, childVars, Held, Answered

LEMMA MovesFresh ==
    ASSUME ParentInv, NEW p \in Coroutines, NEW q, NEW j \in Jobs, NEW job, Moves(p, q, j, job)
    PROVE  FreshOK'
<1>0. Moved(p, q, j, job)
  BY MovesMemory
<1> SUFFICES ASSUME NEW r \in Coroutines, NEW s \in Names, Fresh(proc'[r], s)
             PROVE  /\ memory'[s[1]].subtasks[s[2]] = PendingSubtask
                    /\ ~Answered(s) /\ \A c \in Children : ~Held(s, c)
  BY MovesNet DEF FreshOK
<1>1. CASE r = p
  <2>1. Fresh(q, s)
    BY <1>0, <1>1 DEF Moved
  <2>2. /\ s[1] = j /\ job.subtasks[s[2]] = PendingSubtask
        /\ s[2] > Len(Old(j)) \/ Fresh(proc[p], s)
    BY <2>1, MovesFreshOf
  <2>3. ~Answered(s) /\ \A c \in Children : ~Held(s, c)
    BY <2>2, MovesNew DEF ParentInv, FreshOK
  <2>4. QED
    BY <1>0, <2>2, <2>3 DEF Moved
<1>2. CASE r # p
  <2>1. Fresh(proc[r], s)
    BY <1>0, <1>2 DEF Moved
  <2>2. /\ memory[s[1]].subtasks[s[2]] = PendingSubtask
        /\ ~Answered(s) /\ \A c \in Children : ~Held(s, c)
        /\ s[1] \in DOMAIN memory /\ s[2] \in 1..Len(memory[s[1]].subtasks)
    BY <2>1, FreshIsKnown DEF ParentInv, FreshOK
  <2>3. CASE s[1] = j
    <3>1. s[2] \in 1..Len(Old(j)) /\ s = <<j, s[2]>>
      BY <2>2, <2>3 DEF Old, Names
    <3>2. s # SubtaskOf(p)
      BY <1>2, <2>1 DEF ParentInv, ProcOK, Apart
    <3>3. job.subtasks[s[2]] = memory[j].subtasks[s[2]]
      BY <3>1, <3>2, MovesOld
    <3>4. QED
      BY <1>0, <2>2, <2>3, <3>3 DEF Moved
  <2>4. CASE s[1] # j
    BY <1>0, <2>2, <2>4 DEF Moved
  <2>5. QED
    BY <2>3, <2>4
<1>3. QED
  BY <1>1, <1>2

LEMMA MovesHeld ==
    ASSUME ParentInv, NEW p \in Coroutines, NEW q, NEW j \in Jobs, NEW job, Moves(p, q, j, job)
    PROVE  HeldOK'
<1>0. Moved(p, q, j, job)
  BY MovesMemory
<1>a. \A i \in 1..Len(Old(j)) : /\ i \in 1..Len(job.subtasks)
                                /\ job.subtasks[i].assignee = memory[j].subtasks[i].assignee
  BY MovesAssignee
<1> SUFFICES ASSUME NEW s \in Names
             PROVE  /\ \A c \in Children : Held(s, c) =>
                          /\ proc'[s[1]].pc # "idle"
                          /\ s[1] \in DOMAIN memory' =>
                                s[2] \in DOMAIN memory'[s[1]].subtasks /\ AssigneeOf(s)' = c
                          /\ \A d \in Children : Held(s, d) => c = d
                    /\ Answered(s) =>
                          /\ proc'[s[1]].pc # "idle"
                          /\ s[1] \in DOMAIN memory' => s[2] \in DOMAIN memory'[s[1]].subtasks
  BY MovesNet DEF HeldOK
<1>1. s[1] \in Jobs /\ s[1] \in Coroutines /\ s = <<s[1], s[2]>>
  BY DEF Names, Coroutines
<1>2. proc[s[1]].pc # "idle" => proc'[s[1]].pc # "idle"
  BY <1>0, <1>1 DEF Moved, Moves, CoroutineMoves
<1>3. ASSUME s[1] \in DOMAIN memory', proc[s[1]].pc # "idle",
             s[1] \in DOMAIN memory => s[2] \in DOMAIN memory[s[1]].subtasks
      PROVE  /\ s[1] \in DOMAIN memory
             /\ s[2] \in DOMAIN memory'[s[1]].subtasks
             /\ memory'[s[1]].subtasks[s[2]].assignee = memory[s[1]].subtasks[s[2]].assignee
  <2>1. CASE s[1] # j
    BY <1>0, <1>3, <2>1 DEF Moved
  <2>2. CASE s[1] = j
    <3>1. j \in DOMAIN memory
      BY <1>3, <2>2 DEF Moves, CoroutineMoves
    <3>a. Old(j) = memory[j].subtasks
      BY <3>1 DEF Old
    <3>2. s[2] \in 1..Len(Old(j))
      <4>1. s[2] \in DOMAIN memory[j].subtasks
        BY <1>3, <2>2, <3>1
      <4>2. s[2] \in DOMAIN Old(j)
        BY <3>a, <4>1
      <4>3. QED
        BY <1>0, <4>2 DEF Moved
    <3>3. /\ s[2] \in 1..Len(job.subtasks)
          /\ job.subtasks[s[2]].assignee = memory[j].subtasks[s[2]].assignee
      BY <1>a, <3>2
    <3>4. QED
      BY <1>0, <2>2, <3>1, <3>3 DEF Moved
  <2>3. QED
    BY <2>1, <2>2
<1>4. QED
  BY <1>2, <1>3 DEF ParentInv, HeldOK, AssigneeOf

\* A subtask of this job is new, decided now, or as it was.
LEMMA MovesKnown ==
    ASSUME ParentInv, NEW p \in Coroutines, NEW q, NEW j \in Jobs, NEW job, Moves(p, q, j, job),
           NEW s \in Names, Known(s)'
    PROVE  \/ /\ Known(s) /\ StatusOf(s)' = StatusOf(s) /\ AssigneeOf(s)' = AssigneeOf(s)
              /\ StatusOf(s) = "PENDING" /\ Fresh(proc[p], s) => Fresh(q, s)
              /\ StatusOf(s) = "ASSIGNED" => SubtaskOf(p) # s \/ proc[p].pc \notin Working
                                             \/ StatusOf(s)' # "ASSIGNED"
           \/ /\ StatusOf(s)' \in {"PENDING", "FAILED"}
              /\ StatusOf(s)' = "PENDING" => Fresh(q, s)
           \/ StatusOf(s)' = "RUNNING" /\ (s \in Subtasks => answer[s] = "accepted")
<1>0. Moved(p, q, j, job)
  BY MovesMemory
<1>1. s[1] \in DOMAIN memory' /\ s[2] \in DOMAIN memory'[s[1]].subtasks
      /\ s = <<s[1], s[2]>> /\ s[2] \in Nat \ {0}
  BY DEF Known, Names
<1>2. CASE s[1] # j
  <2>1. s[1] \in DOMAIN memory /\ memory'[s[1]] = memory[s[1]]
    BY <1>0, <1>1, <1>2 DEF Moved
  <2>2. proc[p].pc \in Working => proc[p].job = j
    BY DEF Moves, CoroutineMoves, Working
  <2>3. ~Fresh(proc[p], s) /\ (proc[p].pc \in Working => SubtaskOf(p) # s)
    BY <1>1, <1>2, <2>2 DEF Fresh, SubtaskOf
  <2>4. QED
    BY <1>1, <2>1, <2>3 DEF Known, StatusOf, AssigneeOf
<1>3. CASE s[1] = j
  <2>1. s[2] \in 1..Len(job.subtasks) /\ memory'[s[1]] = job /\ Len(Old(j)) \in Nat
    BY <1>0, <1>1, <1>3 DEF Moved
  <2>2. StatusOf(s)' = job.subtasks[s[2]].status /\ AssigneeOf(s)' = job.subtasks[s[2]].assignee
    BY <2>1 DEF StatusOf, AssigneeOf
  <2>3. job.subtasks[s[2]].status = "PENDING" /\ (s[2] > Len(Old(j)) \/ Fresh(proc[p], s))
           => Fresh(q, s)
    BY <1>1, <1>3, <2>1 DEF Moves, SubtasksMove
  <2>4. CASE s[2] > Len(Old(j))
    BY <2>1, <2>2, <2>3, <2>4 DEF Moves, SubtasksMove
  <2>5. CASE ~(s[2] > Len(Old(j)))
    <3>1. s[2] \in 1..Len(Old(j))
      BY <1>1, <2>1, <2>5
    <3>2. /\ j \in DOMAIN memory /\ Old(j) = memory[j].subtasks
          /\ job.subtasks[s[2]].assignee = memory[j].subtasks[s[2]].assignee
          /\ \/ job.subtasks[s[2]] = memory[j].subtasks[s[2]]
             \/ /\ job.subtasks[s[2]].status = "FAILED"
             \/ /\ job.subtasks[s[2]].status = "RUNNING"
                /\ s \in Subtasks => answer[s] = "accepted"
      BY <1>1, <1>3, <3>1, MovesOld, MovesAssignee
    <3>3. Known(s) /\ StatusOf(s) = memory[j].subtasks[s[2]].status
          /\ AssigneeOf(s) = memory[j].subtasks[s[2]].assignee
      BY <1>0, <1>3, <3>1, <3>2 DEF Known, StatusOf, AssigneeOf, Moved
    <3>4. ASSUME SubtaskOf(p) = s, proc[p].pc \in Working
          PROVE  job.subtasks[s[2]].status # "ASSIGNED"
      <4>1. s[2] = proc[p].sub
        BY <1>1, <3>4 DEF SubtaskOf
      <4>2. QED
        BY <3>4, <4>1 DEF Moves, SubtasksMove
    <3>5. QED
      BY <2>2, <2>3, <3>2, <3>3, <3>4
  <2>6. QED
    BY <2>4, <2>5
<1>4. QED
  BY <1>2, <1>3

LEMMA MovesAttended ==
    ASSUME ParentInv, NEW p \in Coroutines, NEW q, NEW j \in Jobs, NEW job, Moves(p, q, j, job)
    PROVE  Attended'
<1>0. Moved(p, q, j, job)
  BY MovesMemory
<1>1. proc[p].pc \notin {"raised", "gone"} /\ proc'[p] = q
  BY <1>0 DEF Moved, Moves, CoroutineMoves, Ended
<1> SUFFICES ASSUME NEW s \in Names, Known(s)'
             PROVE  /\ StatusOf(s)' = "ASSIGNED" =>
                         \E r \in Coroutines : SubtaskOf(r)' = s /\ proc'[r].pc \in {"assigning", "gone"}
                    /\ StatusOf(s)' = "PENDING" =>
                         \E r \in Coroutines :
                            \/ Fresh(proc'[r], s)
                            \/ /\ proc'[r].pc \in {"raised", "gone"}
                               /\ proc'[r].job = s[1] /\ proc'[r].sub <= s[2]
  BY DEF Attended
<1>2. ASSUME StatusOf(s)' = "ASSIGNED"
      PROVE  \E r \in Coroutines : SubtaskOf(r)' = s /\ proc'[r].pc \in {"assigning", "gone"}
  <2>1. Known(s) /\ StatusOf(s) = "ASSIGNED" /\ (SubtaskOf(p) # s \/ proc[p].pc \notin Working)
    BY <1>2, MovesKnown
  <2>2. PICK r \in Coroutines : SubtaskOf(r) = s /\ proc[r].pc \in {"assigning", "gone"}
    BY <2>1 DEF ParentInv, Attended
  <2>3. r # p
    BY <1>1, <2>1, <2>2 DEF Working
  <2>4. QED
    BY <1>0, <2>2, <2>3 DEF Moved, SubtaskOf
<1>3. ASSUME StatusOf(s)' = "PENDING"
      PROVE  \E r \in Coroutines :
                \/ Fresh(proc'[r], s)
                \/ /\ proc'[r].pc \in {"raised", "gone"}
                   /\ proc'[r].job = s[1] /\ proc'[r].sub <= s[2]
  <2>1. \/ Fresh(q, s)
        \/ Known(s) /\ StatusOf(s) = "PENDING" /\ (Fresh(proc[p], s) => Fresh(q, s))
    BY <1>3, MovesKnown
  <2>2. CASE Fresh(q, s)
    BY <1>1, <2>2
  <2>3. CASE Known(s) /\ StatusOf(s) = "PENDING" /\ ~Fresh(proc[p], s)
    <3>1. PICK r \in Coroutines : \/ Fresh(proc[r], s)
                                  \/ /\ proc[r].pc \in {"raised", "gone"}
                                     /\ proc[r].job = s[1] /\ proc[r].sub <= s[2]
      BY <2>3 DEF ParentInv, Attended
    <3>2. r # p
      BY <1>1, <2>3, <3>1
    <3>3. QED
      BY <1>0, <3>1, <3>2 DEF Moved
  <2>4. QED
    BY <2>1, <2>2, <2>3
<1>4. QED
  BY <1>2, <1>3

LEMMA MovesCauses ==
    ASSUME ParentInv, NEW p \in Coroutines, NEW q, NEW j \in Jobs, NEW job, Moves(p, q, j, job)
    PROVE  Causes'
<1>1. answer' = answer /\ ran' = ran
  BY DEF Moves, childVars
<1> SUFFICES ASSUME NEW s \in Names, Known(s)'
             PROVE  /\ StatusOf(s)' = "RUNNING" /\ s \in Subtasks => answer[s] = "accepted"
                    /\ StatusOf(s)' = "COMPLETED" => <<s, AssigneeOf(s)', "COMPLETED">> \in ran
  BY <1>1 DEF Causes
<1>2. QED
  BY MovesKnown DEF ParentInv, Causes

LEMMA MovesForward ==
    ASSUME ParentInv, NEW p \in Coroutines, NEW q, NEW j \in Jobs, NEW job, Moves(p, q, j, job)
    PROVE  ForwardOK'
<1>0. Moved(p, q, j, job)
  BY MovesMemory
<1>a. \A i \in 1..Len(Old(j)) : /\ i \in 1..Len(job.subtasks)
                                /\ job.subtasks[i].assignee = memory[j].subtasks[i].assignee
  BY MovesAssignee
<1> SUFFICES ASSUME NEW f \in Forwards
             PROVE  /\ proc'[f].pc = "querying" => proc'[f].target = NoAgent \/ proc'[f].target # proc'[f].exclude
                    /\ proc'[f].exclude # NoAgent /\ Known(SubtaskOf(f))'
                          => AssigneeOf(SubtaskOf(f))' # proc'[f].exclude
  BY DEF ForwardOK
<1>1. CASE f = p
  <2>1. proc'[f] = q /\ SubtaskOf(f)' = <<j, q.sub>> /\ memory'[j] = job
    BY <1>0, <1>1 DEF Moved, Moves, CoroutineMoves, SubtaskOf
  <2>2. AssigneeOf(SubtaskOf(f))' = job.subtasks[q.sub].assignee
    BY <2>1 DEF AssigneeOf
  <2>3. QED
    BY <1>1, <2>1, <2>2 DEF Moves, ForwardMoves
<1>2. CASE f # p
  <2>1. f \in Coroutines
    BY DEF Coroutines
  <2>2. proc'[f] = proc[f] /\ SubtaskOf(f)' = SubtaskOf(f) /\ Placed(f) /\ proc[f].sub \in Nat
    BY <1>0, <1>2, <2>1 DEF Moved, SubtaskOf, ParentInv, ProcOK, ProcRecord
  <2>3. ASSUME proc[f].exclude # NoAgent, Known(SubtaskOf(f))'
        PROVE  Known(SubtaskOf(f)) /\ AssigneeOf(SubtaskOf(f))' = AssigneeOf(SubtaskOf(f))
    <3>1. proc[f].pc # "idle"
      BY <2>2, <2>3 DEF Placed, NotStarted
    <3>2. SubtaskOf(f)' = <<proc[f].job, proc[f].sub>> /\ SubtaskOf(f) = <<proc[f].job, proc[f].sub>>
      BY <2>2 DEF SubtaskOf
    <3>3. proc[f].job \in DOMAIN memory' /\ proc[f].sub \in DOMAIN memory'[proc[f].job].subtasks
      BY <2>3, <3>2 DEF Known
    <3>4. CASE proc[f].job # j
      <4>1. proc[f].job \in DOMAIN memory /\ memory'[proc[f].job] = memory[proc[f].job]
        BY <1>0, <3>3, <3>4 DEF Moved
      <4>2. QED
        BY <3>2, <3>3, <4>1 DEF Known, AssigneeOf
    <3>5. CASE proc[f].job = j
      <4>1. j \in DOMAIN memory
        BY <2>2, <3>1, <3>5 DEF Placed, Moves, CoroutineMoves
      <4>a. Old(j) = memory[j].subtasks
        BY <4>1 DEF Old
      <4>2. proc[f].sub \in 1..Len(Old(j))
        <5>1. proc[f].sub <= Len(Old(j))
          BY <2>2, <3>5, <4>1, <4>a DEF Placed
        <5>2. proc[f].sub \in 1..Len(job.subtasks)
          BY <1>0, <3>3, <3>5 DEF Moved
        <5>3. Len(Old(j)) \in Nat
          BY <1>0 DEF Moved
        <5>4. QED
          BY <2>2, <5>1, <5>2, <5>3
      <4>3. job.subtasks[proc[f].sub].assignee = memory[j].subtasks[proc[f].sub].assignee
        BY <1>a, <4>2
      <4>4. proc[f].sub \in DOMAIN memory[j].subtasks /\ memory'[j] = job
        BY <1>0, <4>1, <4>2 DEF Moved, Old
      <4>5. QED
        BY <3>2, <3>5, <4>1, <4>3, <4>4 DEF Known, AssigneeOf
    <3>6. QED
      BY <3>4, <3>5
  <2>4. QED
    BY <2>1, <2>2, <2>3 DEF ParentInv, ForwardOK
<1>3. QED
  BY <1>1, <1>2

LEMMA MovesKeep ==
    ASSUME Inv, NEW p \in Coroutines, NEW q, NEW j \in Jobs, NEW job, Moves(p, q, j, job)
    PROVE  Inv'
<1>1. MemoryOK'
  BY MovesMemory DEF Inv
<1>2. ProcOK'
  <2>1. proc' \in [Coroutines -> ProcRecord] /\ \A r \in Coroutines : Placed(r)'
    BY MovesPlaced DEF Inv
  <2>2. \A r, t \in Coroutines : r # t => Apart(r, t)'
    BY MovesApart DEF Inv
  <2>3. QED
    BY <2>1, <2>2 DEF ProcOK
<1>3. FreshOK' /\ HeldOK' /\ Attended' /\ Causes' /\ ForwardOK'
  BY MovesFresh, MovesHeld, MovesAttended, MovesCauses, MovesForward DEF Inv
<1>4. NetInv'
  BY DEF Inv, Moves, childVars, NetInv, NetTypes, AtWork, OnItsWay, OneVerdict, Answered
<1>5. QED
  BY <1>1, <1>2, <1>3, <1>4 DEF Inv, ParentInv

-----------------------------------------------------------------------------
(* The steps that are such moves.                                          *)

\* What the invariant says of one coroutine.
LEMMA ProcFacts ==
    ASSUME Inv, NEW p \in Coroutines
    PROVE  /\ proc[p] \in ProcRecord /\ Placed(p) /\ proc[p].sub \in Nat /\ proc[p].todo \in Nat
           /\ proc[p].planned \in BOOLEAN /\ proc[p].job \in Jobs \union {NoAgent}
           /\ proc[p].exclude \in Children \union {NoAgent}
           /\ proc[p].target \in Children \union {NoAgent}
  BY DEF Inv, ParentInv, ProcOK, ProcRecord

LEMMA SubmitKeeps ==
    ASSUME Inv, NEW j \in Jobs, Submit(j)
    PROVE  Inv'
<1>1. j \in Coroutines /\ j \notin Forwards
  BY DispatchAssumption DEF Coroutines
<1>2. proc[j] = NotStarted /\ proc[j].pc = "idle"
  BY <1>1, ProcFacts DEF Submit, SubmitSubtasks, SubmitWhole, At, Placed
<1>3. j \notin DOMAIN memory /\ Old(j) = <<>> /\ Len(Old(j)) = 0
  BY <1>2 DEF Inv, ParentInv, MemoryOK, Old
<1>4. ASSUME NEW n \in 1..MaxSubtasks, SubmitSubtasks(j, n) PROVE Inv'
  <2> DEFINE q == [proc[j] EXCEPT !.pc = "querying", !.job = j, !.sub = 1, !.todo = n - 1]
  <2>1. n \in Nat /\ n - 1 \in Nat /\ n >= 1
    BY DispatchAssumption
  <2>2. /\ q \in ProcRecord /\ q.pc = "querying" /\ q.job = j /\ q.sub = 1 /\ q.todo = n - 1
        /\ Left(q) = n - 1
    <3>1. proc[j] \in ProcRecord /\ j \in Jobs \union {NoAgent} /\ "querying" \in Phases
      BY <1>1, ProcFacts DEF Phases
    <3>2. q \in ProcRecord
      BY <2>1, <3>1 DEF ProcRecord
    <3>3. q.pc = "querying" /\ q.job = j /\ q.sub = 1 /\ q.todo = n - 1 /\ q.planned = FALSE
      BY <1>2, <3>1 DEF ProcRecord, NotStarted
    <3>4. QED
      BY <3>2, <3>3 DEF Left
  <2>3. proc' = [proc EXCEPT ![j] = q] /\ Remember(j, Create(n))
        /\ UNCHANGED <<childVars, assigns, answer, reports>>
    BY <1>4 DEF SubmitSubtasks, netVars
  <2> HIDE DEF q
  <2>4. CoroutineMoves(j, q, j, Create(n))
    BY <1>1, <1>2, <1>3, <2>1, <2>2, <2>3, CreateSubtasks DEF CoroutineMoves, Ended
  <2>5. SubtasksMove(j, q, j, Create(n))
    <3>1. \A i \in 1..n : Fresh(q, <<j, i>>)
      BY <2>1, <2>2 DEF Fresh, Working
    <3>2. \A i \in 1..n : Create(n).subtasks[i].assignee = NoAgent
                          /\ Create(n).subtasks[i].status = "PENDING"
      BY <2>1, CreateSubtasks DEF PendingSubtask
    <3>3. Len(Create(n).subtasks) = n /\ \A i \in 1..n : Create(n).subtasks[i] = PendingSubtask
      BY <2>1, CreateSubtasks
    <3>4. QED
      BY <1>2, <1>3, <2>1, <3>1, <3>2, <3>3 DEF SubtasksMove, Working
  <2>6. QED
    BY <1>1, <2>3, <2>4, <2>5, MovesKeep DEF Moves, ForwardMoves
<1>5. ASSUME NEW pc \in {"planning", "local"}, SubmitWhole(j, pc) PROVE Inv'
  <2> DEFINE q == [proc[j] EXCEPT !.pc = pc, !.job = j]
  <2>1. /\ q \in ProcRecord /\ q.pc = pc /\ q.job = j /\ q.sub = 0 /\ q.todo = 0
    <3>1. proc[j] \in ProcRecord /\ j \in Jobs \union {NoAgent} /\ pc \in Phases
      BY <1>1, ProcFacts DEF Phases
    <3>2. q \in ProcRecord
      BY <3>1 DEF ProcRecord
    <3>3. QED
      BY <1>2, <3>1, <3>2 DEF ProcRecord, NotStarted
  <2>2. proc' = [proc EXCEPT ![j] = q] /\ Remember(j, Create(0))
        /\ UNCHANGED <<childVars, assigns, answer, reports>>
    BY <1>5 DEF SubmitWhole, netVars
  <2> HIDE DEF q
  <2>3. RolledUp(Create(0)) /\ Len(Create(0).subtasks) = 0
    BY CreateSubtasks
  <2>4. CoroutineMoves(j, q, j, Create(0))
    BY <1>1, <1>2, <1>3, <2>1, <2>2, <2>3 DEF CoroutineMoves, Ended
  <2>5. SubtasksMove(j, q, j, Create(0))
    BY <1>2, <1>3, <2>3 DEF SubtasksMove, Working
  <2>6. QED
    BY <1>1, <2>2, <2>4, <2>5, MovesKeep DEF Moves, ForwardMoves
<1>6. QED
  BY <1>4, <1>5 DEF Submit

\* The coroutine of a job that is planned or run here.
LEMMA WholeFacts ==
    ASSUME Inv, NEW p \in Coroutines, proc[p].pc \in {"planning", "local"}
    PROVE  /\ p \in Jobs /\ p \notin Forwards /\ proc[p].job = p /\ p \in DOMAIN memory
           /\ RolledUp(memory[p]) /\ Old(p) = memory[p].subtasks
           /\ proc[p].sub = 0 /\ proc[p].todo = 0
           /\ Len(memory[p].subtasks) \in Nat
<1>1. p \in Jobs /\ proc[p].job = p /\ p \in DOMAIN memory /\ proc[p].sub = 0 /\ proc[p].todo = 0
  BY ProcFacts DEF Placed, Working
<1>2. RolledUp(memory[p])
  BY <1>1 DEF Inv, ParentInv, MemoryOK
<1>3. QED
  BY <1>1, <1>2, SubtasksSeq, DispatchAssumption DEF Old

\* It ends with the subtasks as they are.
LEMMA WholeEnds ==
    ASSUME Inv, NEW p \in Coroutines, proc[p].pc \in {"planning", "local"},
           NEW job, RolledUp(job), job.subtasks = memory[p].subtasks,
           Remember(p, job), proc' = [proc EXCEPT ![p].pc = "returned"],
           UNCHANGED <<childVars, assigns, answer, reports>>
    PROVE  Inv'
<1> DEFINE q == [proc[p] EXCEPT !.pc = "returned"]
<1>1. /\ q \in ProcRecord /\ q.pc = "returned" /\ q.job = p /\ q.sub = 0 /\ q.todo = 0
  BY WholeFacts, ProcFacts DEF ProcRecord, Phases, Ended
<1>2. proc' = [proc EXCEPT ![p] = q]
  OBVIOUS
<1> HIDE DEF q
<1>3. CoroutineMoves(p, q, p, job)
  <2>1. /\ p \in Jobs /\ p \notin Forwards /\ proc[p].job = p /\ p \in DOMAIN memory
        /\ 0 <= Len(job.subtasks)
    BY WholeFacts
  <2>2. QED
    BY <1>1, <1>2, <2>1 DEF CoroutineMoves, Ended
<1>4. SubtasksMove(p, q, p, job)
  <2>1. \A i \in 1..Len(job.subtasks) : ~Fresh(q, <<p, i>>) /\ ~Fresh(proc[p], <<p, i>>)
    BY <1>1 DEF Fresh, Working
  <2>2. QED
    BY <2>1, WholeFacts DEF SubtasksMove, Working
<1>5. QED
  BY <1>3, <1>4, WholeFacts, MovesKeep DEF Moves, ForwardMoves

LEMMA PlanFailsKeeps == ASSUME Inv, NEW p \in Coroutines, PlanFails(p) PROVE Inv'
<1>1. proc[p].pc = "planning" /\ RolledUp(memory[p])
  BY WholeFacts DEF PlanFails, At
<1>2. QED
  BY <1>1, OthersSubtasks, WholeEnds DEF PlanFails, netVars

LEMMA LocalDoneKeeps == ASSUME Inv, NEW p \in Coroutines, LocalDone(p) PROVE Inv'
<1>1. proc[p].pc = "local" /\ RolledUp(memory[p])
  BY WholeFacts DEF LocalDone, At
<1>2. QED
  BY <1>1, OthersSubtasks, WholeEnds DEF LocalDone, netVars

LEMMA PlanDoneKeeps ==
    ASSUME Inv, NEW p \in Coroutines, NEW n \in 1..MaxSubtasks, PlanDone(p, n)
    PROVE  Inv'
<1> DEFINE job == AddSubtask(memory[p])
           q == [proc[p] EXCEPT !.pc = "querying", !.planned = TRUE, !.sub = Len(job.subtasks),
                                !.todo = n - 1]
           len == Len(memory[p].subtasks)
<1>0. /\ proc[p].pc = "planning" /\ n - 1 \in Nat
      /\ p \in Jobs /\ p \notin Forwards /\ proc[p].job = p /\ p \in DOMAIN memory
      /\ RolledUp(memory[p]) /\ Old(p) = memory[p].subtasks /\ proc[p].sub = 0
      /\ len \in Nat
  BY WholeFacts, DispatchAssumption DEF PlanDone, At
<1>1. /\ RolledUp(job) /\ Len(job.subtasks) = len + 1
      /\ \A k \in 1..len : job.subtasks[k] = memory[p].subtasks[k]
      /\ job.subtasks[len + 1] = PendingSubtask
  BY <1>0, AddSubtasks
<1>2. /\ q \in ProcRecord /\ q.pc = "querying" /\ q.job = p /\ q.sub = len + 1 /\ Left(q) = 0
  <2>1. proc[p] \in ProcRecord /\ "querying" \in Phases /\ Len(job.subtasks) \in Nat
    BY <1>0, <1>1, ProcFacts DEF Phases
  <2>2. q \in ProcRecord
    BY <1>0, <2>1 DEF ProcRecord
  <2>3. q.pc = "querying" /\ q.job = p /\ q.sub = len + 1 /\ q.planned = TRUE
    BY <1>0, <1>1, <2>1 DEF ProcRecord
  <2>4. QED
    BY <2>2, <2>3 DEF Left
<1>3. proc' = [proc EXCEPT ![p] = q] /\ Remember(p, job)
      /\ UNCHANGED <<childVars, assigns, answer, reports>>
  BY DEF PlanDone, netVars
<1> HIDE DEF q, job, len
<1>4. CoroutineMoves(p, q, p, job)
  <2>1. Len(Old(p)) = len
    BY <1>0 DEF len
  <2>2. QED
    BY <1>0, <1>1, <1>2, <1>3, <2>1 DEF CoroutineMoves, Ended, Working
<1>5. SubtasksMove(p, q, p, job)
  <2>1. \A i \in 1..Len(job.subtasks) : /\ ~Fresh(proc[p], <<p, i>>)
                                        /\ Fresh(q, <<p, i>>) <=> i = len + 1
    BY <1>0, <1>1, <1>2 DEF Fresh, Working
  <2>2. job.subtasks[len + 1].assignee = NoAgent /\ job.subtasks[len + 1].status = "PENDING"
    BY <1>1 DEF PendingSubtask
  <2>3. Len(Old(p)) = len
    BY <1>0 DEF len
  <2>4. proc[p].pc \notin Working
    BY <1>0 DEF Working
  <2>5. QED
    BY <1>0, <1>1, <2>1, <2>2, <2>3, <2>4 DEF SubtasksMove
<1>6. QED
  BY <1>0, <1>3, <1>4, <1>5, MovesKeep DEF Moves, ForwardMoves

\* A forward adds its subtask, and fails it if it would go back to its source.
LEMMA ForwardKeeps ==
    ASSUME Inv, NEW f \in Forwards, NEW j \in DOMAIN memory,
           NEW target \in Children \union {NoAgent},
           NEW from \in 0..Len(memory[j].subtasks), Forward(f, j, from, target)
    PROVE  Inv'
<1> DEFINE len     == Len(memory[j].subtasks)
           exclude == IF from = 0 THEN NoAgent ELSE memory[j].subtasks[from].assignee
           added   == AddSubtask(memory[j])
           refused == target # NoAgent /\ target = exclude
           job == IF refused THEN SetStatus(added, Len(added.subtasks), "FAILED") ELSE added
           q == [proc[f] EXCEPT !.pc = IF refused THEN "returned" ELSE "querying", !.job = j,
                                !.sub = Len(added.subtasks), !.exclude = exclude,
                                !.target = target]
<1>0. /\ f \in Coroutines /\ f \notin Jobs /\ j \in Jobs /\ j \in Coroutines
      /\ RolledUp(memory[j]) /\ len \in Nat /\ Old(j) = memory[j].subtasks
  BY SubtasksSeq, DispatchAssumption DEF Coroutines, Inv, ParentInv, MemoryOK, Old
<1>1. proc[f].pc = "idle" /\ proc[f] = NotStarted /\ proc[f] \in ProcRecord
  BY <1>0, ProcFacts DEF Forward, At, Placed
<1>2. exclude \in Children \union {NoAgent}
  <2>1. CASE from = 0
    BY <2>1
  <2>2. CASE from # 0
    <3>1. from \in 1..Len(memory[j].subtasks)
      BY <1>0, <2>2
    <3>2. memory[j].subtasks[from].assignee \in Children \union {NoAgent}
      BY <1>0, <3>1, SubtasksSeq
    <3>3. QED
      BY <2>2, <3>2
  <2>3. QED
    BY <2>1, <2>2
<1>3. /\ RolledUp(added) /\ Len(added.subtasks) = len + 1
      /\ \A k \in 1..len : added.subtasks[k] = memory[j].subtasks[k]
      /\ added.subtasks[len + 1] = PendingSubtask
  BY <1>0, AddSubtasks
<1>4. proc' = [proc EXCEPT ![f] = q] /\ Remember(j, job)
      /\ UNCHANGED <<childVars, assigns, answer, reports>>
  BY DEF Forward, netVars
<1>5. q \in ProcRecord
  <2>1. {"returned", "querying"} \subseteq Phases /\ Len(added.subtasks) \in Nat
    BY <1>0, <1>3 DEF Phases, Ended
  <2>2. QED
    BY <1>0, <1>1, <1>2, <2>1 DEF ProcRecord
<1>6. /\ q.pc = (IF refused THEN "returned" ELSE "querying") /\ q.job = j /\ q.sub = len + 1
      /\ q.exclude = exclude /\ q.target = target /\ q.todo = 0 /\ Left(q) = 0
  BY <1>1, <1>3 DEF ProcRecord, NotStarted, Left
<1>7. /\ RolledUp(job) /\ Len(job.subtasks) = len + 1
      /\ \A k \in 1..len : job.subtasks[k] = memory[j].subtasks[k]
      /\ job.subtasks[len + 1].assignee = NoAgent
      /\ refused => job.subtasks[len + 1].status = "FAILED"
      /\ ~refused => job.subtasks[len + 1] = PendingSubtask
  <2>1. CASE ~refused
    BY <1>3, <2>1 DEF PendingSubtask
  <2>2. CASE refused
    <3>1. len + 1 \in 1..Len(added.subtasks) /\ "FAILED" \in SubtaskStatus
          /\ \A k \in 1..len : k \in 1..Len(added.subtasks) /\ k # len + 1
      BY <1>0, <1>3 DEF SubtaskStatus
    <3>2. job = SetStatus(added, len + 1, "FAILED")
      BY <1>3, <2>2
    <3> HIDE DEF job, added, refused, len
    <3>3. /\ RolledUp(job) /\ Len(job.subtasks) = Len(added.subtasks)
          /\ \A k \in 1..Len(added.subtasks) : k # len + 1 => job.subtasks[k] = added.subtasks[k]
          /\ job.subtasks[len + 1].status = "FAILED"
          /\ job.subtasks[len + 1].assignee = added.subtasks[len + 1].assignee
      BY <1>3, <3>1, <3>2, SetStatusSubtasks
    <3>4. added.subtasks[len + 1].assignee = NoAgent
      BY <1>3 DEF PendingSubtask
    <3>5. QED
      BY <1>3, <2>2, <3>1, <3>3, <3>4
  <2>3. QED
    BY <2>1, <2>2
<1>a. ~refused => target = NoAgent \/ target # exclude
  OBVIOUS
<1>b. Len(Old(j)) = len
  BY <1>0
<1> HIDE DEF q, job, added, refused, exclude, len
<1>8. CoroutineMoves(f, q, j, job)
  BY <1>0, <1>1, <1>4, <1>5, <1>6, <1>7, <1>b DEF CoroutineMoves, Ended
<1>9. SubtasksMove(f, q, j, job)
  <2>1. \A i \in 1..Len(job.subtasks) : /\ ~Fresh(proc[f], <<j, i>>)
                                        /\ Fresh(q, <<j, i>>) <=> ~refused /\ i = len + 1
    BY <1>0, <1>1, <1>6, <1>7 DEF Fresh, Working
  <2>2. ~refused => job.subtasks[len + 1].status = "PENDING"
    BY <1>7 DEF PendingSubtask
  <2>3. proc[f].pc \notin Working
    BY <1>1 DEF Working
  <2>4. \A i \in 1..Len(job.subtasks) : i > len => i = len + 1
    BY <1>0, <1>7
  <2>5. QED
    BY <1>0, <1>7, <1>b, <2>1, <2>2, <2>3, <2>4 DEF SubtasksMove
<1>10. ForwardMoves(f, q, job)
  BY <1>0, <1>6, <1>7, <1>a DEF ForwardMoves
<1>11. QED
  BY <1>0, <1>4, <1>8, <1>9, <1>10, MovesKeep DEF Moves

\* A coroutine at its current subtask.
LEMMA WorkingFacts ==
    ASSUME Inv, NEW p \in Coroutines, proc[p].pc \in Working
    PROVE  /\ proc[p].job \in Jobs /\ proc[p].job \in DOMAIN memory /\ RolledUp(JobOf(p))
           /\ Old(proc[p].job) = JobOf(p).subtasks
           /\ proc[p].sub \in 1..Len(JobOf(p).subtasks) /\ Len(JobOf(p).subtasks) \in Nat
           /\ proc[p].sub + Left(proc[p]) <= Len(JobOf(p).subtasks)
           /\ SubtaskOf(p) \in Names /\ Known(SubtaskOf(p))
           /\ (p \in Jobs => p = proc[p].job) /\ (p \in Forwards => proc[p].todo = 0)
<1>1. /\ proc[p].job \in Jobs /\ proc[p].job \in DOMAIN memory
      /\ proc[p].sub > 0 /\ proc[p].sub + Left(proc[p]) <= Len(JobOf(p).subtasks)
      /\ proc[p].sub <= Len(JobOf(p).subtasks)
      /\ (p \in Jobs => p = proc[p].job) /\ (p \in Forwards => proc[p].todo = 0)
  BY ProcFacts DEF Placed, Working, JobOf
<1>2. RolledUp(JobOf(p))
  BY <1>1 DEF Inv, ParentInv, MemoryOK, JobOf
<1>3. Len(JobOf(p).subtasks) \in Nat /\ DOMAIN JobOf(p).subtasks = 1..Len(JobOf(p).subtasks)
  BY <1>2, SubtasksSeq
<1>4. proc[p].sub \in 1..Len(JobOf(p).subtasks)
  BY <1>1, <1>3, ProcFacts
<1>5. SubtaskOf(p) \in Names /\ Known(SubtaskOf(p))
  BY <1>1, <1>3, <1>4, ProcFacts DEF SubtaskOf, Names, Known, JobOf
<1>6. QED
  BY <1>1, <1>2, <1>3, <1>4, <1>5 DEF Old, JobOf

\* The current subtask is decided; the loop goes on.
LEMMA ContinueKeeps ==
    ASSUME Inv, NEW p \in Coroutines, proc[p].pc \in Working,
           NEW status \in {"FAILED", "RUNNING"},
           status = "RUNNING" => answer[SubtaskOf(p)] = "accepted",
           Continue(p, SetStatus(JobOf(p), proc[p].sub, status)),
           UNCHANGED <<childVars, assigns, answer, reports>>
    PROVE  Inv'
<1> DEFINE j   == proc[p].job
           i   == proc[p].sub
           len == Len(JobOf(p).subtasks)
           set == SetStatus(JobOf(p), i, status)
<1>0. /\ j \in Jobs /\ j \in DOMAIN memory /\ RolledUp(JobOf(p)) /\ Old(j) = JobOf(p).subtasks
      /\ i \in 1..len /\ len \in Nat /\ i + Left(proc[p]) <= len
      /\ (p \in Jobs => p = j) /\ (p \in Forwards => proc[p].todo = 0)
      /\ SubtaskOf(p) = <<j, i>> /\ JobOf(p) = memory[j] /\ Known(SubtaskOf(p))
      /\ SubtaskOf(p) \in Names
  BY WorkingFacts DEF SubtaskOf, JobOf
<1>1. /\ RolledUp(set) /\ Len(set.subtasks) = len
      /\ \A k \in 1..len : k # i => set.subtasks[k] = JobOf(p).subtasks[k]
      /\ set.subtasks[i].status = status
      /\ set.subtasks[i].assignee = JobOf(p).subtasks[i].assignee
  <2>1. status \in SubtaskStatus /\ i \in 1..Len(JobOf(p).subtasks) /\ RolledUp(JobOf(p))
    BY <1>0 DEF SubtaskStatus
  <2> HIDE DEF i
  <2>2. QED
    BY <2>1, SetStatusSubtasks
<1>2. /\ proc[p] \in ProcRecord /\ proc[p].todo \in Nat /\ proc[p].planned \in BOOLEAN
      /\ proc[p].pc \in {"querying", "assigning"}
  BY ProcFacts DEF Working
<1>3. ASSUME NEW k \in 1..len, Fresh(proc[p], <<j, k>>)
      PROVE  JobOf(p).subtasks[k] = PendingSubtask
  <2>1. <<j, k>> \in Names
    BY <1>0 DEF Names
  <2>2. QED
    BY <1>0, <1>3, <2>1 DEF Inv, ParentInv, FreshOK
<1>4. p \in Forwards /\ proc[p].exclude # NoAgent => set.subtasks[i].assignee # proc[p].exclude
  BY <1>0, <1>1 DEF Inv, ParentInv, ForwardOK, AssigneeOf
<1>5. p \in Coroutines /\ (p \in Jobs => p \notin Forwards) /\ proc[p].pc \notin Ended
      /\ proc[p].pc # "idle"
  BY <1>2, DispatchAssumption DEF Ended
<1>6. Continue(p, set) /\ UNCHANGED <<childVars, assigns, answer, reports>>
  OBVIOUS
<1>7. CASE proc[p].todo = 0
  <2> DEFINE q == [proc[p] EXCEPT !.pc = "returned"]
  <2>1. Remember(j, set) /\ proc' = [proc EXCEPT ![p] = q]
    BY <1>6, <1>7 DEF Continue
  <2>2. /\ q \in ProcRecord /\ q.pc = "returned" /\ q.job = j /\ q.sub = i /\ q.todo = 0
        /\ q.exclude = proc[p].exclude
    BY <1>2, <1>7 DEF ProcRecord, Phases, Ended
  <2> HIDE DEF q, set, j, i, len
  <2>3. CoroutineMoves(p, q, j, set)
    BY <1>0, <1>1, <1>5, <2>1, <2>2 DEF CoroutineMoves, j, i
  <2>4. SubtasksMove(p, q, j, set)
    <3>1. \A k \in 1..len : ~Fresh(q, <<j, k>>) /\ (Fresh(proc[p], <<j, k>>) => k = i)
      BY <1>0, <1>2, <1>7, <2>2 DEF Fresh, Working, Left, i, j
    <3>2. Len(Old(j)) = len /\ i = proc[p].sub
      BY <1>0 DEF len, i
    <3>3. status # "PENDING"
      OBVIOUS
    <3>4. QED
      BY <1>0, <1>1, <1>2, <3>1, <3>2, <3>3 DEF SubtasksMove, Working
  <2>5. ForwardMoves(p, q, set)
    BY <1>0, <1>4, <2>2 DEF ForwardMoves
  <2>6. QED
    BY <1>0, <1>6, <2>3, <2>4, <2>5, MovesKeep DEF Moves
<1>8. CASE proc[p].todo > 0 /\ proc[p].planned
  <2> DEFINE job == AddSubtask(set)
             q == [proc[p] EXCEPT !.pc = "querying", !.todo = proc[p].todo - 1,
                                !.sub = Len(set.subtasks) + 1]
  <2>1. Remember(j, job) /\ proc' = [proc EXCEPT ![p] = q]
    <3>1. ~(proc[p].todo = 0)
      BY <1>2, <1>8
    <3>2. /\ Remember(j, job)
          /\ proc' = [proc EXCEPT ![p].pc = "querying", ![p].todo = @ - 1,
                                   ![p].sub = Len(set.subtasks) + 1]
      BY <1>6, <1>8, <3>1, Zenon DEF Continue
    <3>3. proc \in [Coroutines -> ProcRecord]
      BY DEF Inv, ParentInv, ProcOK
    <3>4. QED
      BY <3>2, <3>3 DEF ProcRecord
  <2>2. q \in ProcRecord
    <3>1. "querying" \in Phases /\ Len(set.subtasks) + 1 \in Nat /\ proc[p].todo - 1 \in Nat
      BY <1>0, <1>1, <1>2, <1>8 DEF Phases
    <3>2. QED
      BY <1>2, <3>1 DEF ProcRecord
  <2>3. /\ q.pc = "querying" /\ q.job = j /\ q.sub = len + 1 /\ Left(q) = 0
    BY <1>1, <1>2, <1>8 DEF ProcRecord, Left
  <2>4. /\ RolledUp(job) /\ Len(job.subtasks) = len + 1
        /\ \A k \in 1..len : job.subtasks[k] = set.subtasks[k]
        /\ job.subtasks[len + 1] = PendingSubtask
    BY <1>1, AddSubtasks
  <2>5. p \notin Forwards
    BY <1>0, <1>8
  <2> HIDE DEF q, job, set, j, i, len
  <2>6. Len(Old(j)) = len /\ i = proc[p].sub
    BY <1>0 DEF len, i
  <2>7. CoroutineMoves(p, q, j, job)
    BY <1>0, <1>5, <2>1, <2>2, <2>3, <2>4, <2>5, <2>6 DEF CoroutineMoves, j
  <2>8. SubtasksMove(p, q, j, job)
    <3>1. \A k \in 1..(len + 1) : /\ Fresh(q, <<j, k>>) <=> k = len + 1
                                  /\ Fresh(proc[p], <<j, k>>) => k = i
      BY <1>0, <1>2, <1>8, <2>3 DEF Fresh, Working, Left, i, j
    <3>2. job.subtasks[len + 1].assignee = NoAgent /\ job.subtasks[len + 1].status = "PENDING"
      BY <2>4 DEF PendingSubtask
    <3>3. i \in 1..len => job.subtasks[i] = set.subtasks[i] /\ i # len + 1
      BY <1>0, <2>4
    <3>4. \A k \in 1..(len + 1) : k > len => k = len + 1
      BY <1>0
    <3>5. \A k \in 1..len : k \in 1..(len + 1) /\ (k # i => job.subtasks[k] = Old(j)[k])
      BY <1>0, <1>1, <2>4 DEF j
    <3>6. Len(Old(j)) <= Len(job.subtasks)
      BY <1>0, <2>4, <2>6
    <3>7. /\ job.subtasks[i].assignee = Old(j)[i].assignee
          /\ job.subtasks[i].status = status /\ status # "PENDING"
      BY <1>0, <1>1, <3>3
    <3>8. status = "FAILED" \/ (status = "RUNNING" /\ answer[<<j, i>>] = "accepted")
      BY <1>0
    <3>9. proc[p].pc \in Working
      OBVIOUS
    <3>10. QED
      BY <2>4, <2>6, <3>1, <3>2, <3>4, <3>5, <3>6, <3>7, <3>8, <3>9 DEF SubtasksMove
  <2>9. QED
    BY <1>0, <1>6, <2>5, <2>7, <2>8, MovesKeep DEF Moves, ForwardMoves
<1>9. CASE proc[p].todo > 0 /\ ~proc[p].planned
  <2> DEFINE q == [proc[p] EXCEPT !.pc = "querying", !.todo = proc[p].todo - 1,
                                !.sub = proc[p].sub + 1]
  <2>1. Remember(j, set) /\ proc' = [proc EXCEPT ![p] = q]
    <3>1. ~(proc[p].todo = 0)
      BY <1>2, <1>9
    <3>2. /\ Remember(j, set)
          /\ proc' = [proc EXCEPT ![p].pc = "querying", ![p].todo = @ - 1, ![p].sub = @ + 1]
      BY <1>6, <1>9, <3>1, Zenon DEF Continue
    <3>3. proc \in [Coroutines -> ProcRecord]
      BY DEF Inv, ParentInv, ProcOK
    <3>4. QED
      BY <3>2, <3>3 DEF ProcRecord
  <2>2. q \in ProcRecord
    <3>1. "querying" \in Phases /\ proc[p].sub + 1 \in Nat /\ proc[p].todo - 1 \in Nat
      BY <1>0, <1>2, <1>9 DEF Phases
    <3>2. QED
      BY <1>2, <3>1 DEF ProcRecord
  <2>3. /\ q.pc = "querying" /\ q.job = j /\ q.sub = i + 1 /\ Left(q) = proc[p].todo - 1
        /\ Left(proc[p]) = proc[p].todo
    BY <1>1, <1>2, <1>9 DEF ProcRecord, Left
  <2>5. p \notin Forwards
    BY <1>0, <1>9
  <2> HIDE DEF q, set, j, i, len
  <2>6. Len(Old(j)) = len /\ i = proc[p].sub /\ i \in Nat
    BY <1>0 DEF len, i
  <2>4. i + 1 <= len /\ i + 1 > 0 /\ i + 1 + (proc[p].todo - 1) <= len
    BY <1>0, <1>2, <1>9, <2>3, <2>6
  <2>a. \A k \in 1..len : /\ Fresh(q, <<j, k>>) => Fresh(proc[p], <<j, k>>) /\ k # i
                          /\ Fresh(proc[p], <<j, k>>) /\ k # i => Fresh(q, <<j, k>>)
    BY <1>0, <1>2, <1>9, <2>3, <2>6 DEF Fresh, Working, j
  <2>7. CoroutineMoves(p, q, j, set)
    <3>1. i + 1 \in 1..len /\ Fresh(q, <<j, i + 1>>)
      BY <1>0, <1>2, <1>9, <2>3, <2>4, <2>6 DEF Fresh, Working
    <3>2. Fresh(proc[p], <<j, i + 1>>)
      BY <2>a, <3>1
    <3>3. QED
      BY <1>0, <1>1, <1>5, <2>1, <2>2, <2>3, <2>4, <2>5, <3>2 DEF CoroutineMoves, j
  <2>8. SubtasksMove(p, q, j, set)
    <3>1. \A k \in 1..len : k # i => set.subtasks[k] = Old(j)[k]
      BY <1>0, <1>1
    <3>2. \A k \in 1..len : Fresh(q, <<j, k>>) => set.subtasks[k] = PendingSubtask
      BY <1>0, <1>1, <1>3, <2>a DEF j, len
    <3>3. /\ set.subtasks[i].assignee = Old(j)[i].assignee
          /\ set.subtasks[i].status = status /\ status # "PENDING"
      BY <1>0, <1>1
    <3>4. status = "FAILED" \/ (status = "RUNNING" /\ answer[<<j, i>>] = "accepted")
      BY <1>0
    <3>5. proc[p].pc \in Working /\ ~(\E k \in 1..len : k > len)
      BY <1>0
    <3>6. QED
      BY <1>0, <1>1, <2>6, <2>a, <3>1, <3>2, <3>3, <3>4, <3>5 DEF SubtasksMove
  <2>9. QED
    BY <1>0, <1>6, <2>5, <2>7, <2>8, MovesKeep DEF Moves, ForwardMoves
<1>10. QED
  BY <1>2, <1>7, <1>8, <1>9

-----------------------------------------------------------------------------
(* The steps that send a subtask, or end a coroutine.                      *)

LEMMA AssignToKeeps ==
    ASSUME Inv, NEW p \in Coroutines, proc[p].pc = "querying", NEW c \in Children,
           p \in Forwards => c # proc[p].exclude,
           AssignTo(p, c), UNCHANGED childVars
    PROVE  Inv'
<1> DEFINE j   == proc[p].job
           i   == proc[p].sub
           len == Len(JobOf(p).subtasks)
           job == UpdateSubtask(JobOf(p), i, "ASSIGNED", c)
           sent == SubtaskOf(p)
<1>0. /\ j \in Jobs /\ j \in DOMAIN memory /\ RolledUp(JobOf(p)) /\ JobOf(p) = memory[j]
      /\ i \in 1..len /\ len \in Nat
      /\ sent = <<j, i>> /\ sent \in Names /\ Known(sent)
  BY WorkingFacts DEF Working, SubtaskOf, JobOf
<1>1. /\ RolledUp(job) /\ Len(job.subtasks) = len
      /\ \A k \in 1..len : k # i => job.subtasks[k] = JobOf(p).subtasks[k]
      /\ job.subtasks[i] = [status |-> "ASSIGNED", assignee |-> c]
  <2>1. "ASSIGNED" \in SubtaskStatus /\ c \in Children \union {NoAgent} /\ i \in 1..Len(JobOf(p).subtasks)
    BY <1>0 DEF SubtaskStatus
  <2> HIDE DEF i
  <2>2. QED
    BY <1>0, <2>1, UpdateSubtasks
<1>2. DOMAIN job.subtasks = 1..len /\ DOMAIN memory[j].subtasks = 1..len
  BY <1>0, <1>1, SubtasksSeq
<1>3. /\ DOMAIN memory' = DOMAIN memory /\ memory'[j] = job
      /\ \A k \in DOMAIN memory : k # j => memory'[k] = memory[k]
  BY <1>0 DEF AssignTo, Remember
<1>4. /\ \A r \in Coroutines : r # p => proc'[r] = proc[r]
      /\ proc'[p] = [proc[p] EXCEPT !.pc = "assigning"]
      /\ proc' \in [Coroutines -> ProcRecord]
  <2>1. proc' = [proc EXCEPT ![p].pc = "assigning"] /\ "assigning" \in Phases
    BY DEF AssignTo, Phases
  <2>2. proc \in [Coroutines -> ProcRecord]
    BY DEF Inv, ParentInv, ProcOK
  <2>3. [proc[p] EXCEPT !.pc = "assigning"] \in ProcRecord
    BY <2>1, <2>2 DEF ProcRecord
  <2>4. QED
    BY <2>1, <2>2, <2>3
<1>5. /\ assigns' = assigns \union {<<sent, c>>}
      /\ UNCHANGED <<answer, reports, backlog, run, ran>>
  BY DEF AssignTo, childVars
<1>6. Fresh(proc[p], sent)
  BY <1>0, ProcFacts DEF Fresh, Working, Left, SubtaskOf
<1>7. /\ memory[j].subtasks[i] = PendingSubtask
      /\ ~Answered(sent) /\ \A d \in Children : ~Held(sent, d)
  BY <1>0, <1>6 DEF Inv, ParentInv, FreshOK
<1>8. /\ proc'[p].pc = "assigning"
      /\ \A r \in Coroutines : /\ proc'[r].job = proc[r].job /\ proc'[r].sub = proc[r].sub
                               /\ proc'[r].exclude = proc[r].exclude /\ proc'[r].todo = proc[r].todo
                               /\ Left(proc'[r]) = Left(proc[r]) /\ SubtaskOf(r)' = SubtaskOf(r)
  <2>1. proc[p] \in ProcRecord
    BY ProcFacts
  <2>2. /\ proc'[p].pc = "assigning" /\ proc'[p].job = proc[p].job /\ proc'[p].sub = proc[p].sub
        /\ proc'[p].exclude = proc[p].exclude /\ proc'[p].todo = proc[p].todo
        /\ proc'[p].planned = proc[p].planned
    BY <1>4, <2>1 DEF ProcRecord
  <2>3. QED
    BY <1>4, <2>2 DEF Left, SubtaskOf
<1>9. ASSUME NEW r \in Coroutines, NEW s \in Names
      PROVE  Fresh(proc'[r], s) <=> Fresh(proc[r], s) /\ s # sent
  <2>1. CASE r = p
    <3>1. s = <<s[1], s[2]>> /\ s[2] \in Nat /\ i \in Nat
      BY <1>0 DEF Names
    <3>2. QED
      BY <1>0, <1>8, <2>1, <3>1 DEF Fresh, Working
  <2>2. CASE r # p
    <3>1. ~Fresh(proc[r], sent)
      BY <2>2 DEF Inv, ParentInv, ProcOK, Apart
    <3>2. QED
      BY <1>4, <2>2, <3>1
  <2>3. QED
    BY <2>1, <2>2
<1>10. /\ \A s \in Names, d \in Children : Held(s, d)' <=> Held(s, d) \/ (s = sent /\ d = c)
       /\ \A s \in Names : Answered(s)' <=> Answered(s)
  BY <1>5 DEF Held, Answered
<1>11. ASSUME NEW s \in Names
       PROVE  /\ Known(s)' <=> Known(s)
              /\ s[1] \in DOMAIN memory => DOMAIN memory'[s[1]].subtasks = DOMAIN memory[s[1]].subtasks
              /\ Known(s) /\ s # sent => memory'[s[1]].subtasks[s[2]] = memory[s[1]].subtasks[s[2]]
  <2>1. s = <<s[1], s[2]>>
    BY DEF Names
  <2>2. CASE s[1] = j
    BY <1>0, <1>1, <1>2, <1>3, <2>1, <2>2 DEF Known
  <2>3. CASE s[1] # j
    BY <1>3, <2>3 DEF Known
  <2>4. QED
    BY <2>2, <2>3
<1>12. memory'[sent[1]].subtasks[sent[2]] = [status |-> "ASSIGNED", assignee |-> c]
  BY <1>0, <1>1, <1>3
<1> HIDE DEF j, i, len, job, sent
<1>13. MemoryOK'
  <2>1. \A k \in DOMAIN memory' : RolledUp(memory'[k])
    BY <1>0, <1>1, <1>3 DEF Inv, ParentInv, MemoryOK
  <2>2. \A k \in DOMAIN memory : k \in Coroutines /\ proc[k].pc # "idle"
    BY DEF Inv, ParentInv, MemoryOK, Coroutines
  <2>3. \A k \in DOMAIN memory' : proc'[k].pc # "idle"
    <3>1. \A k \in Coroutines : proc[k].pc # "idle" => proc'[k].pc # "idle"
      BY <1>4, <1>8
    <3>2. QED
      BY <1>3, <2>2, <3>1
  <2>4. QED
    BY <1>3, <2>1, <2>3 DEF Inv, ParentInv, MemoryOK
<1>14. ASSUME NEW r \in Coroutines PROVE Placed(r)'
  <2>1. Placed(r) /\ (r = p => proc[r].pc = "querying")
    BY ProcFacts
  <2>2. \A t \in Coroutines : proc[t].pc # "idle" => proc'[t].pc # "idle"
    BY <1>4, <1>8
  <2>3. proc[r].job \in Jobs => proc[r].job \in Coroutines
    BY DEF Coroutines
  <2>4. \A k \in DOMAIN memory : Len(memory'[k].subtasks) = Len(memory[k].subtasks)
    BY <1>0, <1>1, <1>3 DEF len
  <2>5. CASE r # p
    BY <1>3, <1>4, <2>1, <2>2, <2>3, <2>4, <2>5 DEF Placed, Left, Working
  <2>6. CASE r = p
    <3>1. /\ proc'[r].pc = "assigning" /\ proc[r].pc = "querying"
          /\ proc'[r].job = proc[r].job /\ proc'[r].sub = proc[r].sub
          /\ proc'[r].todo = proc[r].todo /\ Left(proc'[r]) = Left(proc[r])
      BY <1>8, <2>1, <2>6
    <3>2. QED
      BY <1>3, <2>1, <2>2, <2>3, <2>4, <3>1 DEF Placed, Working, Left
  <2>7. QED
    BY <2>5, <2>6
<1>15. ASSUME NEW r \in Coroutines, NEW t \in Coroutines, r # t PROVE Apart(r, t)'
  <2>1. Apart(r, t) /\ SubtaskOf(t)' = SubtaskOf(t)
    BY <1>8, <1>15 DEF Inv, ParentInv, ProcOK
  <2>2. ~Fresh(proc'[r], SubtaskOf(t))
    <3>1. CASE r # p
      BY <1>4, <2>1, <3>1 DEF Apart
    <3>2. CASE r = p
      <4>1. ~Fresh(proc[p], SubtaskOf(t)) /\ proc[p].pc = "querying"
        BY <2>1, <3>2 DEF Apart
      <4>2. proc[p].sub \in Nat /\ proc[t].sub \in Nat
        BY ProcFacts
      <4>3. QED
        BY <1>8, <3>2, <4>1, <4>2 DEF Fresh, Working, SubtaskOf
    <3>3. QED
      BY <3>1, <3>2
  <2>3. QED
    BY <1>9, <2>1, <2>2 DEF Apart
<1>16. FreshOK'
  <2> SUFFICES ASSUME NEW r \in Coroutines, NEW s \in Names, Fresh(proc'[r], s)
               PROVE  /\ memory'[s[1]].subtasks[s[2]] = PendingSubtask
                      /\ ~Answered(s)' /\ \A d \in Children : ~Held(s, d)'
    BY DEF FreshOK
  <2>1. Fresh(proc[r], s) /\ s # sent
    BY <1>9
  <2>2. Known(s)
    BY <2>1, FreshIsKnown DEF Inv, Known
  <2>3. QED
    BY <1>10, <1>11, <2>1, <2>2 DEF Inv, ParentInv, FreshOK
<1>17. HeldOK'
  <2> SUFFICES ASSUME NEW s \in Names
               PROVE  /\ \A d \in Children : Held(s, d)' =>
                            /\ proc'[s[1]].pc # "idle"
                            /\ s[1] \in DOMAIN memory' =>
                                  s[2] \in DOMAIN memory'[s[1]].subtasks /\ AssigneeOf(s)' = d
                            /\ \A e \in Children : Held(s, e)' => d = e
                      /\ Answered(s)' =>
                            /\ proc'[s[1]].pc # "idle"
                            /\ s[1] \in DOMAIN memory' => s[2] \in DOMAIN memory'[s[1]].subtasks
    BY DEF HeldOK
  <2>1. s[1] \in Coroutines /\ (proc[s[1]].pc # "idle" => proc'[s[1]].pc # "idle")
    BY <1>4, <1>8 DEF Names, Coroutines
  <2>2. CASE s = sent
    <3>1. proc[s[1]].pc # "idle" /\ Known(s)
      BY <1>0, <2>2 DEF Inv, ParentInv, MemoryOK, Known
    <3>2. AssigneeOf(s)' = c
      BY <1>12, <2>2 DEF AssigneeOf
    <3>3. QED
      BY <1>7, <1>10, <1>11, <2>1, <2>2, <3>1, <3>2 DEF Known
  <2>3. CASE s # sent
    <3>1. ASSUME s[1] \in DOMAIN memory', s[2] \in DOMAIN memory[s[1]].subtasks
          PROVE  s[2] \in DOMAIN memory'[s[1]].subtasks /\ AssigneeOf(s)' = AssigneeOf(s)
      BY <1>3, <1>11, <2>3, <3>1 DEF Known, AssigneeOf
    <3>2. QED
      BY <1>3, <1>10, <2>1, <2>3, <3>1 DEF Inv, ParentInv, HeldOK
  <2>4. QED
    BY <2>2, <2>3
<1>18. Attended'
  <2> SUFFICES ASSUME NEW s \in Names, Known(s)'
               PROVE  /\ StatusOf(s)' = "ASSIGNED" =>
                            \E r \in Coroutines :
                               SubtaskOf(r)' = s /\ proc'[r].pc \in {"assigning", "gone"}
                      /\ StatusOf(s)' = "PENDING" =>
                            \E r \in Coroutines :
                               \/ Fresh(proc'[r], s)
                               \/ /\ proc'[r].pc \in {"raised", "gone"}
                                  /\ proc'[r].job = s[1] /\ proc'[r].sub <= s[2]
    BY DEF Attended
  <2>1. CASE s = sent
    <3>1. StatusOf(s)' = "ASSIGNED"
      BY <1>12, <2>1 DEF StatusOf
    <3>2. QED
      BY <1>8, <2>1, <3>1 DEF sent
  <2>2. CASE s # sent
    <3>1. Known(s) /\ StatusOf(s)' = StatusOf(s)
      BY <1>11, <2>2 DEF StatusOf
    <3>2. ASSUME StatusOf(s) = "ASSIGNED"
          PROVE  \E r \in Coroutines : SubtaskOf(r)' = s /\ proc'[r].pc \in {"assigning", "gone"}
      <4>1. PICK r \in Coroutines : SubtaskOf(r) = s /\ proc[r].pc \in {"assigning", "gone"}
        BY <3>1, <3>2 DEF Inv, ParentInv, Attended
      <4>2. r # p
        BY <2>2, <4>1 DEF sent
      <4>3. QED
        BY <1>4, <1>8, <4>1, <4>2
    <3>3. ASSUME StatusOf(s) = "PENDING"
          PROVE  \E r \in Coroutines :
                    \/ Fresh(proc'[r], s)
                    \/ /\ proc'[r].pc \in {"raised", "gone"}
                       /\ proc'[r].job = s[1] /\ proc'[r].sub <= s[2]
      <4>1. PICK r \in Coroutines : \/ Fresh(proc[r], s)
                                    \/ /\ proc[r].pc \in {"raised", "gone"}
                                       /\ proc[r].job = s[1] /\ proc[r].sub <= s[2]
        BY <3>1, <3>3 DEF Inv, ParentInv, Attended
      <4>2. CASE Fresh(proc[r], s)
        BY <1>9, <2>2, <4>2
      <4>3. CASE ~Fresh(proc[r], s)
        <5>1. r # p
          BY <4>1, <4>3
        <5>2. QED
          BY <1>4, <4>1, <4>3, <5>1
      <4>4. QED
        BY <4>2, <4>3
    <3>4. QED
      BY <3>1, <3>2, <3>3
  <2>3. QED
    BY <2>1, <2>2
<1>19. Causes'
  <2> SUFFICES ASSUME NEW s \in Names, Known(s)'
               PROVE  /\ StatusOf(s)' = "RUNNING" /\ s \in Subtasks => answer'[s] = "accepted"
                      /\ StatusOf(s)' = "COMPLETED" => <<s, AssigneeOf(s)', "COMPLETED">> \in ran'
    BY DEF Causes
  <2>1. CASE s = sent
    BY <1>12, <2>1 DEF StatusOf
  <2>2. CASE s # sent
    <3>1. Known(s) /\ StatusOf(s)' = StatusOf(s) /\ AssigneeOf(s)' = AssigneeOf(s)
      BY <1>11, <2>2 DEF StatusOf, AssigneeOf
    <3>2. QED
      BY <1>5, <3>1 DEF Inv, ParentInv, Causes
  <2>3. QED
    BY <2>1, <2>2
<1>20. ForwardOK'
  <2> SUFFICES ASSUME NEW f \in Forwards
               PROVE  /\ proc'[f].pc = "querying" => proc'[f].target = NoAgent
                                                     \/ proc'[f].target # proc'[f].exclude
                      /\ proc'[f].exclude # NoAgent /\ Known(SubtaskOf(f))'
                            => AssigneeOf(SubtaskOf(f))' # proc'[f].exclude
    BY DEF ForwardOK
  <2>1. f \in Coroutines
    BY DEF Coroutines
  <2>2. CASE f = p
    <3>1. SubtaskOf(f)' = sent /\ proc'[f].exclude = proc[f].exclude /\ proc'[f].pc = "assigning"
      BY <1>8, <2>2 DEF sent
    <3>2. AssigneeOf(SubtaskOf(f))' = c
      BY <1>12, <3>1 DEF AssigneeOf
    <3>3. QED
      BY <2>2, <3>1, <3>2
  <2>3. CASE f # p
    <3>1. proc'[f] = proc[f] /\ SubtaskOf(f)' = SubtaskOf(f) /\ SubtaskOf(f) # sent
      BY <1>4, <1>6, <1>8, <2>1, <2>3 DEF Inv, ParentInv, ProcOK, Apart
    <3>2. ASSUME Known(SubtaskOf(f))'
          PROVE  Known(SubtaskOf(f)) /\ AssigneeOf(SubtaskOf(f))' = AssigneeOf(SubtaskOf(f))
      <4>1. SubtaskOf(f)[1] \in DOMAIN memory /\ SubtaskOf(f)[2] \in DOMAIN memory'[SubtaskOf(f)[1]].subtasks
        BY <1>3, <3>1, <3>2 DEF Known
      <4>2. SubtaskOf(f) \in Names
        <5>1. RolledUp(memory'[SubtaskOf(f)[1]]) /\ SubtaskOf(f)[1] \in Jobs
          BY <1>3, <1>13, <4>1 DEF MemoryOK
        <5>2. SubtaskOf(f)[2] \in Nat \ {0}
          BY <4>1, <5>1, SubtasksSeq
        <5>3. QED
          BY <5>1, <5>2 DEF SubtaskOf, Names
      <4>3. Known(SubtaskOf(f)) /\ memory'[SubtaskOf(f)[1]].subtasks[SubtaskOf(f)[2]]
                                      = memory[SubtaskOf(f)[1]].subtasks[SubtaskOf(f)[2]]
        BY <1>11, <3>1, <3>2, <4>1, <4>2 DEF Known
      <4>4. QED
        BY <3>1, <4>3 DEF AssigneeOf
    <3>3. QED
      BY <2>1, <3>1, <3>2 DEF Inv, ParentInv, ForwardOK
  <2>4. QED
    BY <2>2, <2>3
<1>21. NetInv'
  <2>1. NetTypes'
    <3>1. assigns' \subseteq Names \X Children
      <4>1. assigns \subseteq Names \X Children /\ sent \in Names
        BY <1>0 DEF Inv, NetInv, NetTypes
      <4>2. QED
        BY <1>5, <4>1
    <3>2. QED
      BY <1>5, <3>1 DEF Inv, NetInv, NetTypes
  <2>2. (\A d \in Children : AtWork(d)') /\ OneVerdict'
    BY <1>5 DEF Inv, NetInv, AtWork, OneVerdict
  <2>3. OnItsWay'
    <3>1. /\ ~Answered(sent) /\ \A k \in DOMAIN backlog[c] : backlog[c][k] # sent
          /\ \A v \in Verdicts : <<sent, c, v>> \notin ran
      BY <1>7 DEF Held
    <3>2. QED
      BY <1>5, <3>1 DEF Inv, NetInv, OnItsWay, Answered
  <2>4. QED
    BY <2>1, <2>2, <2>3 DEF NetInv
<1>22. QED
  BY <1>4, <1>13, <1>14, <1>15, <1>16, <1>17, <1>18, <1>19, <1>20, <1>21 DEF Inv, ParentInv, ProcOK

LEMMA DispatchFailsKeeps ==
    ASSUME Inv, NEW p \in Coroutines, proc[p].pc \in Working, DispatchFails(p),
           UNCHANGED <<childVars, assigns, answer, reports>>
    PROVE  Inv'
<1>1. Continue(p, SetStatus(JobOf(p), proc[p].sub, "FAILED"))
  BY DEF DispatchFails
<1>2. QED
  BY <1>1, ContinueKeeps

LEMMA CatalogKeeps ==
    ASSUME Inv, NEW p \in Coroutines, NEW listed \in SUBSET Children, CatalogAnswers(p, listed)
    PROVE  Inv'
<1> DEFINE candidates == listed \ {proc[p].exclude}
<1>1. proc[p].pc = "querying" /\ proc[p].pc \in Working
  BY DEF CatalogAnswers, At, Working
<1>2. CASE candidates = {}
  <2>1. DispatchFails(p) /\ UNCHANGED <<childVars, assigns, answer, reports>>
    BY <1>2 DEF CatalogAnswers, netVars
  <2>2. QED
    BY <1>1, <2>1, DispatchFailsKeeps
<1>3. CASE candidates # {}
  <2>1. PICK c \in Picked(candidates) : AssignTo(p, c)
    BY <1>3 DEF CatalogAnswers
  <2>2. c \in candidates
    <3> HIDE DEF candidates
    <3>1. QED
      BY DEF Picked
  <2>3. c \in Children /\ c # proc[p].exclude /\ UNCHANGED childVars
    BY <2>2 DEF CatalogAnswers
  <2>4. QED
    BY <1>1, <2>1, <2>3, AssignToKeeps
<1>4. QED
  BY <1>2, <1>3

LEMMA TargetKeeps ==
    ASSUME Inv, NEW p \in Coroutines, NEW usable \in BOOLEAN, TargetAnswers(p, usable)
    PROVE  Inv'
<1>1. proc[p].pc = "querying" /\ proc[p].pc \in Working /\ proc[p].target # NoAgent
  BY DEF TargetAnswers, At, Working
<1>2. CASE ~usable
  <2>1. DispatchFails(p) /\ UNCHANGED <<childVars, assigns, answer, reports>>
    BY <1>2 DEF TargetAnswers, netVars
  <2>2. QED
    BY <1>1, <2>1, DispatchFailsKeeps
<1>3. CASE usable
  <2>1. AssignTo(p, proc[p].target) /\ UNCHANGED childVars
    BY <1>3 DEF TargetAnswers
  <2>2. proc[p].target \in Children
    BY <1>1, ProcFacts
  <2>3. p \in Forwards => proc[p].target # proc[p].exclude
    BY <1>1 DEF Inv, ParentInv, ForwardOK
  <2>4. QED
    BY <1>1, <2>1, <2>2, <2>3, AssignToKeeps
<1>4. QED
  BY <1>2, <1>3

LEMMA AnsweredKeeps ==
    ASSUME Inv, NEW p \in Coroutines, AssignAnswered(p) \/ AssignFails(p)
    PROVE  Inv'
<1>1. proc[p].pc \in Working /\ UNCHANGED <<childVars, assigns, answer, reports>>
  BY DEF AssignAnswered, AssignFails, At, Working
<1>2. CASE DispatchFails(p)
  BY <1>1, <1>2, DispatchFailsKeeps
<1>3. CASE /\ answer[SubtaskOf(p)] = "accepted"
           /\ Continue(p, SetStatus(JobOf(p), proc[p].sub, "RUNNING"))
  BY <1>1, <1>3, ContinueKeeps
<1>4. QED
  BY <1>2, <1>3 DEF AssignAnswered, AssignFails

\* Coroutines that die where they are.
LEMMA DeathsKeep ==
    ASSUME Inv, NEW forgets \in BOOLEAN, memory' = IF forgets THEN <<>> ELSE memory,
           NEW Dead \in SUBSET Coroutines, NEW end \in {"raised", "gone"},
           \A p \in Dead : proc[p].pc \notin Ended \union {"idle"},
           (\E p \in Dead : proc[p].pc = "assigning") \/ forgets => end = "gone",
           forgets => \A p \in Coroutines \ Dead : proc[p].pc \in Ended \union {"idle"},
           proc' = [p \in Coroutines |-> IF p \in Dead THEN [proc[p] EXCEPT !.pc = end] ELSE proc[p]],
           UNCHANGED <<childVars, assigns, answer, reports>>
    PROVE  Inv'
<1>0. DOMAIN <<>> = {}
  OBVIOUS
<1>1. /\ \A p \in Dead : proc'[p] = [proc[p] EXCEPT !.pc = end]
      /\ \A p \in Coroutines \ Dead : proc'[p] = proc[p]
  OBVIOUS
<1>2. ASSUME NEW p \in Coroutines
      PROVE  /\ proc'[p] \in ProcRecord
             /\ proc'[p].job = proc[p].job /\ proc'[p].sub = proc[p].sub
             /\ proc'[p].todo = proc[p].todo /\ proc'[p].exclude = proc[p].exclude
             /\ proc'[p].target = proc[p].target
             /\ proc'[p].pc = IF p \in Dead THEN end ELSE proc[p].pc
             /\ SubtaskOf(p)' = SubtaskOf(p) /\ Left(proc'[p]) = Left(proc[p])
  <2>1. proc[p] \in ProcRecord /\ end \in Phases
    BY ProcFacts DEF Phases, Ended
  <2>2. CASE p \in Dead
    <3>1. [proc[p] EXCEPT !.pc = end] \in ProcRecord
      BY <2>1 DEF ProcRecord
    <3>2. proc'[p] = [proc[p] EXCEPT !.pc = end]
      BY <1>1, <2>2
    <3>3. QED
      BY <2>1, <2>2, <3>1, <3>2 DEF ProcRecord, SubtaskOf, Left
  <2>3. CASE p \notin Dead
    BY <1>1, <2>1, <2>3 DEF SubtaskOf, Left
  <2>4. QED
    BY <2>2, <2>3
<1>3. ASSUME NEW p \in Coroutines, NEW s
      PROVE  /\ Fresh(proc'[p], s) => Fresh(proc[p], s)
             /\ Fresh(proc[p], s) => Fresh(proc'[p], s) \/ p \in Dead
  BY <1>1, <1>2 DEF Fresh, Working
<1>4. \A p \in Coroutines : proc[p].pc # "idle" => proc'[p].pc # "idle"
  BY <1>2
<1>5. MemoryOK'
  <2>1. CASE ~forgets
    BY <1>4, <2>1 DEF Inv, ParentInv, MemoryOK, Coroutines
  <2>2. CASE forgets
    BY <1>0, <2>2 DEF MemoryOK
  <2>3. QED
    BY <2>1, <2>2
<1>6. ProcOK'
  <2>1. proc' \in [Coroutines -> ProcRecord]
    BY <1>2
  <2>2. ASSUME NEW p \in Coroutines PROVE Placed(p)'
    <3>1. Placed(p)
      BY ProcFacts
    <3>2. proc[p].job \in Jobs => proc[p].job \in Coroutines
      BY DEF Coroutines
    <3>3. CASE p \in Dead
      <4>1. proc'[p].pc \in {"raised", "gone"} /\ proc[p].pc # "idle"
        BY <1>2, <3>3
      <4>2. proc'[p].job \in DOMAIN memory' => memory' = memory
        BY <1>0
      <4>3. QED
        BY <1>2, <1>4, <3>1, <3>2, <4>1, <4>2 DEF Placed, Working
    <3>4. CASE p \notin Dead
      <4>1. proc'[p] = proc[p]
        BY <1>1, <3>4
      <4>2. CASE ~forgets
        BY <1>4, <3>1, <3>2, <4>1, <4>2 DEF Placed
      <4>3. CASE forgets
        <5>1. proc[p].pc \in Ended \union {"idle"}
          BY <3>4, <4>3
        <5>2. QED
          BY <1>0, <1>4, <3>1, <3>2, <4>1, <4>3, <5>1 DEF Placed, Ended, Working
      <4>4. QED
        BY <4>2, <4>3
    <3>5. QED
      BY <3>3, <3>4
  <2>3. ASSUME NEW p \in Coroutines, NEW r \in Coroutines, p # r PROVE Apart(p, r)'
    <3>1. Apart(p, r) /\ SubtaskOf(r)' = SubtaskOf(r)
      BY <1>2, <2>3 DEF Inv, ParentInv, ProcOK
    <3>2. QED
      BY <1>3, <3>1 DEF Apart
  <2>4. QED
    BY <2>1, <2>2, <2>3 DEF ProcOK
<1>7. /\ \A s, c : Held(s, c)' <=> Held(s, c)
      /\ \A s : Answered(s)' <=> Answered(s)
  BY DEF childVars, Held, Answered
<1>8. FreshOK'
  <2> SUFFICES ASSUME NEW p \in Coroutines, NEW s \in Names, Fresh(proc'[p], s)
               PROVE  /\ memory'[s[1]].subtasks[s[2]] = PendingSubtask
                      /\ ~Answered(s) /\ \A c \in Children : ~Held(s, c)
    BY <1>7 DEF FreshOK
  <2>1. Fresh(proc[p], s) /\ proc'[p].pc \in Working
    BY <1>3 DEF Fresh
  <2>2. p \notin Dead
    BY <1>2, <2>1 DEF Working
  <2>3. memory' = memory
    BY <1>2, <2>1, <2>2 DEF Ended, Working
  <2>4. QED
    BY <2>1, <2>3 DEF Inv, ParentInv, FreshOK
<1>9. HeldOK'
  <2> SUFFICES ASSUME NEW s \in Names
               PROVE  /\ \A c \in Children : Held(s, c) =>
                            /\ proc'[s[1]].pc # "idle"
                            /\ s[1] \in DOMAIN memory' =>
                                  s[2] \in DOMAIN memory'[s[1]].subtasks /\ AssigneeOf(s)' = c
                            /\ \A d \in Children : Held(s, d) => c = d
                      /\ Answered(s) =>
                            /\ proc'[s[1]].pc # "idle"
                            /\ s[1] \in DOMAIN memory' => s[2] \in DOMAIN memory'[s[1]].subtasks
    BY <1>7 DEF HeldOK
  <2>1. s[1] \in Coroutines /\ (proc[s[1]].pc # "idle" => proc'[s[1]].pc # "idle")
    BY <1>4 DEF Names, Coroutines
  <2>2. s[1] \in DOMAIN memory' => memory' = memory
    BY <1>0
  <2>3. QED
    BY <2>1, <2>2 DEF Inv, ParentInv, HeldOK, AssigneeOf
<1>10. ASSUME NEW s, Known(s)'
       PROVE  /\ memory' = memory /\ Known(s)
              /\ StatusOf(s)' = StatusOf(s) /\ AssigneeOf(s)' = AssigneeOf(s)
  <2>1. memory' = memory
    BY <1>0, <1>10 DEF Known
  <2>2. QED
    BY <1>10, <2>1 DEF Known, StatusOf, AssigneeOf
<1>11. Attended'
  <2> SUFFICES ASSUME NEW s \in Names, Known(s)'
               PROVE  /\ StatusOf(s) = "ASSIGNED" =>
                            \E p \in Coroutines :
                               SubtaskOf(p) = s /\ proc'[p].pc \in {"assigning", "gone"}
                      /\ StatusOf(s) = "PENDING" =>
                            \E p \in Coroutines :
                               \/ Fresh(proc'[p], s)
                               \/ /\ proc'[p].pc \in {"raised", "gone"}
                                  /\ proc[p].job = s[1] /\ proc[p].sub <= s[2]
    <3>1. \A p \in Coroutines : /\ SubtaskOf(p)' = SubtaskOf(p) /\ proc'[p].job = proc[p].job
                                 /\ proc'[p].sub = proc[p].sub
      BY <1>2
    <3>2. \A s \in Names : Known(s)' => StatusOf(s)' = StatusOf(s)
      BY <1>10
    <3>3. QED
      BY <3>1, <3>2 DEF Attended
  <2>1. Known(s)
    BY <1>10
  <2>2. ASSUME StatusOf(s) = "ASSIGNED"
        PROVE  \E p \in Coroutines : SubtaskOf(p) = s /\ proc'[p].pc \in {"assigning", "gone"}
    <3>1. PICK p \in Coroutines : SubtaskOf(p) = s /\ proc[p].pc \in {"assigning", "gone"}
      BY <2>1, <2>2 DEF Inv, ParentInv, Attended
    <3>2. proc'[p].pc \in {"assigning", "gone"}
      BY <1>2, <3>1 DEF Ended
    <3>3. QED
      BY <3>1, <3>2
  <2>3. ASSUME StatusOf(s) = "PENDING"
        PROVE  \E p \in Coroutines : \/ Fresh(proc'[p], s)
                                     \/ /\ proc'[p].pc \in {"raised", "gone"}
                                        /\ proc[p].job = s[1] /\ proc[p].sub <= s[2]
    <3>1. PICK p \in Coroutines : \/ Fresh(proc[p], s)
                                  \/ /\ proc[p].pc \in {"raised", "gone"}
                                     /\ proc[p].job = s[1] /\ proc[p].sub <= s[2]
      BY <2>1, <2>3 DEF Inv, ParentInv, Attended
    <3>2. CASE Fresh(proc[p], s) /\ p \in Dead
      <4>1. proc[p].sub \in Nat /\ s[2] \in Nat
        BY ProcFacts DEF Names
      <4>2. proc[p].job = s[1] /\ proc[p].sub <= s[2]
        BY <3>2, <4>1 DEF Fresh
      <4>3. QED
        BY <1>2, <3>2, <4>2
    <3>3. CASE Fresh(proc[p], s) /\ p \notin Dead
      BY <1>3, <3>3
    <3>4. CASE ~Fresh(proc[p], s)
      BY <1>2, <3>1, <3>4
    <3>5. QED
      BY <3>2, <3>3, <3>4
  <2>4. QED
    BY <2>2, <2>3
<1>12. Causes'
  BY <1>10 DEF childVars, Inv, ParentInv, Causes
<1>13. ForwardOK'
  <2> SUFFICES ASSUME NEW f \in Forwards
               PROVE  /\ proc'[f].pc = "querying" => proc'[f].target = NoAgent
                                                     \/ proc'[f].target # proc'[f].exclude
                      /\ proc'[f].exclude # NoAgent /\ Known(SubtaskOf(f))'
                            => AssigneeOf(SubtaskOf(f))' # proc'[f].exclude
    BY DEF ForwardOK
  <2>1. f \in Coroutines
    BY DEF Coroutines
  <2>2. proc'[f].pc = "querying" => proc[f].pc = "querying"
    BY <1>2, <2>1
  <2>3. SubtaskOf(f)' = SubtaskOf(f) /\ proc'[f].exclude = proc[f].exclude
        /\ proc'[f].target = proc[f].target
    BY <1>2, <2>1
  <2>4. Known(SubtaskOf(f))' => Known(SubtaskOf(f)) /\ AssigneeOf(SubtaskOf(f))' = AssigneeOf(SubtaskOf(f))
    <3> SUFFICES ASSUME Known(SubtaskOf(f))'
                 PROVE  Known(SubtaskOf(f)) /\ AssigneeOf(SubtaskOf(f))' = AssigneeOf(SubtaskOf(f))
      OBVIOUS
    <3>1. memory' = memory
      BY <1>0 DEF Known
    <3>2. QED
      BY <2>3, <3>1 DEF Known, AssigneeOf
  <2>5. QED
    BY <2>2, <2>3, <2>4 DEF Inv, ParentInv, ForwardOK
<1>14. NetInv'
  BY DEF Inv, childVars, NetInv, NetTypes, AtWork, OnItsWay, OneVerdict, Answered
<1>15. QED
  BY <1>5, <1>6, <1>8, <1>9, <1>11, <1>12, <1>13, <1>14 DEF Inv, ParentInv

LEMMA RaisesKeeps == ASSUME Inv, NEW p \in Coroutines, Raises(p) PROVE Inv'
<1>1. proc \in [Coroutines -> ProcRecord]
  BY DEF Inv, ParentInv, ProcOK
<1>2. proc' = [r \in Coroutines |-> IF r \in {p} THEN [proc[r] EXCEPT !.pc = "raised"] ELSE proc[r]]
  BY <1>1 DEF Raises
<1>3. /\ memory' = memory /\ proc[p].pc \in {"local", "querying"}
      /\ UNCHANGED <<childVars, assigns, answer, reports>>
  BY DEF Raises, netVars
<1>4. memory' = IF FALSE THEN <<>> ELSE memory
  BY <1>3
<1>5. {p} \in SUBSET Coroutines /\ \A r \in {p} : /\ proc[r].pc \notin Ended \union {"idle"}
                                                 /\ proc[r].pc # "assigning"
  BY <1>3 DEF Ended
<1>6. QED
  BY <1>2, <1>3, <1>4, <1>5, DeathsKeep

LEMMA RestartParentKeeps == ASSUME Inv, RestartParent PROVE Inv'
<1> DEFINE dead == {p \in Coroutines : proc[p].pc \notin Ended \union {"idle"}}
<1>1. proc' = [p \in Coroutines |-> IF p \in dead THEN [proc[p] EXCEPT !.pc = "gone"] ELSE proc[p]]
  BY DEF RestartParent
<1>2. PICK forgets \in BOOLEAN : memory' = IF forgets THEN <<>> ELSE memory
  <2>1. (JobDb => memory' = memory) /\ (~JobDb => memory' = <<>>)
    BY DEF RestartParent
  <2>2. memory' = (IF FALSE THEN <<>> ELSE memory) \/ memory' = (IF TRUE THEN <<>> ELSE memory)
    BY <2>1
  <2>3. QED
    BY <2>2
<1>3. /\ dead \in SUBSET Coroutines /\ \A p \in dead : proc[p].pc \notin Ended \union {"idle"}
      /\ \A p \in Coroutines \ dead : proc[p].pc \in Ended \union {"idle"}
  OBVIOUS
<1> HIDE DEF dead
<1>4. UNCHANGED <<childVars, assigns, answer, reports>>
  BY DEF RestartParent
<1>5. QED
  BY <1>1, <1>2, <1>3, <1>4, DeathsKeep

-----------------------------------------------------------------------------
(* The steps of the children and of the network.                           *)

\* The parent's part holds while no child gets a subtask it did not have.
LEMMA ParentKeeps ==
    ASSUME Inv, UNCHANGED <<memory, proc>>,
           \A s \in Names, c \in Children : Held(s, c)' => Held(s, c),
           \A s \in Names : Answered(s)' => Answered(s) \/ \E c \in Children : Held(s, c),
           \A s \in Subtasks : answer[s] = "accepted" => answer'[s] = "accepted",
           ran \subseteq ran'
    PROVE  ParentInv'
<1>1. /\ \A s : (Known(s)' <=> Known(s)) /\ StatusOf(s)' = StatusOf(s) /\ AssigneeOf(s)' = AssigneeOf(s)
      /\ \A p : SubtaskOf(p)' = SubtaskOf(p)
  BY DEF Known, StatusOf, AssigneeOf, SubtaskOf
<1>2. MemoryOK'
  BY DEF Inv, ParentInv, MemoryOK
<1>3. ProcOK'
  BY <1>1 DEF Inv, ParentInv, ProcOK, Placed, Apart
<1>4. FreshOK'
  BY DEF Inv, ParentInv, FreshOK
<1>5. HeldOK'
  <2> SUFFICES ASSUME NEW s \in Names
               PROVE  /\ \A c \in Children : Held(s, c)' =>
                            /\ proc[s[1]].pc # "idle"
                            /\ s[1] \in DOMAIN memory =>
                                  s[2] \in DOMAIN memory[s[1]].subtasks /\ AssigneeOf(s) = c
                            /\ \A d \in Children : Held(s, d)' => c = d
                      /\ Answered(s)' => /\ proc[s[1]].pc # "idle"
                                         /\ s[1] \in DOMAIN memory => s[2] \in DOMAIN memory[s[1]].subtasks
    BY <1>1 DEF HeldOK
  <2>1. QED
    BY DEF Inv, ParentInv, HeldOK
<1>6. Attended'
  BY <1>1 DEF Inv, ParentInv, Attended
<1>7. Causes'
  BY <1>1 DEF Inv, ParentInv, Causes
<1>8. ForwardOK'
  BY <1>1 DEF Inv, ParentInv, ForwardOK
<1>9. QED
  BY <1>2, <1>3, <1>4, <1>5, <1>6, <1>7, <1>8 DEF ParentInv

\* A result changes the verdict of a subtask on the child that has run it.
LEMMA ResultKeepsParent ==
    ASSUME Inv, NEW s \in Names, NEW c \in Children, NEW v \in Verdicts, <<s, c, v>> \in ran,
           s[1] \in DOMAIN memory, Remember(s[1], UpdateSubtask(memory[s[1]], s[2], v, c)),
           UNCHANGED <<proc, backlog, ran, assigns, answer>>
    PROVE  ParentInv'
<1> DEFINE j   == s[1]
           i   == s[2]
           len == Len(memory[j].subtasks)
           job == UpdateSubtask(memory[j], i, v, c)
<1>1. Held(s, c) /\ s = <<j, i>> /\ j \in Jobs
  BY DEF Held, Names
<1>2. i \in DOMAIN memory[j].subtasks /\ AssigneeOf(s) = c /\ RolledUp(memory[j])
  BY <1>1 DEF Inv, ParentInv, HeldOK, MemoryOK
<1>3. i \in 1..len /\ len \in Nat /\ DOMAIN memory[j].subtasks = 1..len
  BY <1>2, SubtasksSeq
<1>4. /\ RolledUp(job) /\ Len(job.subtasks) = len
      /\ \A k \in 1..len : k # i => job.subtasks[k] = memory[j].subtasks[k]
      /\ job.subtasks[i] = [status |-> v, assignee |-> c]
  <2>1. v \in SubtaskStatus /\ c \in Children \union {NoAgent} /\ i \in 1..Len(memory[j].subtasks)
    BY <1>3 DEF SubtaskStatus, Verdicts
  <2> HIDE DEF i, j
  <2>2. QED
    BY <1>2, <2>1, UpdateSubtasks DEF job, len
<1>5. DOMAIN job.subtasks = 1..len
  BY <1>4, SubtasksSeq
<1>6. /\ DOMAIN memory' = DOMAIN memory /\ memory'[j] = job
      /\ \A k \in DOMAIN memory : k # j => memory'[k] = memory[k]
  BY DEF Remember
<1> HIDE DEF job, len
<1>7. ASSUME NEW t \in Names
      PROVE  /\ Known(t)' <=> Known(t)
             /\ t[1] \in DOMAIN memory => DOMAIN memory'[t[1]].subtasks = DOMAIN memory[t[1]].subtasks
             /\ Known(t) => AssigneeOf(t)' = AssigneeOf(t)
             /\ Known(t) /\ t # s => memory'[t[1]].subtasks[t[2]] = memory[t[1]].subtasks[t[2]]
             /\ t = s => StatusOf(t)' = v
  <2>1. t = <<t[1], t[2]>>
    BY DEF Names
  <2>2. CASE t[1] # j
    BY <1>6, <2>2 DEF Known, AssigneeOf
  <2>3. CASE t[1] = j
    <3>1. DOMAIN memory'[t[1]].subtasks = 1..len /\ DOMAIN memory[t[1]].subtasks = 1..len
      BY <1>3, <1>5, <1>6, <2>3
    <3>2. Known(t)' <=> Known(t)
      BY <1>6, <3>1 DEF Known
    <3>3. CASE t = s
      BY <1>2, <1>4, <1>6, <3>1, <3>2, <3>3 DEF AssigneeOf, StatusOf
    <3>4. CASE t # s
      <4>1. t[2] # i
        BY <1>1, <2>1, <2>3, <3>4
      <4>2. t[2] \in 1..len => job.subtasks[t[2]] = memory[j].subtasks[t[2]]
        BY <1>4, <4>1
      <4>3. QED
        BY <1>6, <2>3, <3>1, <3>2, <3>4, <4>2 DEF Known, AssigneeOf
    <3>5. QED
      BY <3>3, <3>4
  <2>4. QED
    BY <2>2, <2>3
<1>8. /\ \A t, d : Held(t, d)' <=> Held(t, d)
      /\ \A t : Answered(t)' <=> Answered(t)
      /\ \A p : SubtaskOf(p)' = SubtaskOf(p)
  BY DEF Held, Answered, SubtaskOf
<1>9. MemoryOK'
  BY <1>4, <1>6 DEF Inv, ParentInv, MemoryOK
<1>10. ProcOK'
  <2>1. \A k \in DOMAIN memory : Len(memory'[k].subtasks) = Len(memory[k].subtasks)
    BY <1>4, <1>6 DEF len
  <2>2. ASSUME NEW p \in Coroutines PROVE Placed(p)'
    <3>1. Placed(p)
      BY ProcFacts
    <3>2. QED
      BY <1>6, <2>1, <3>1 DEF Placed
  <2>3. QED
    BY <1>8, <2>2 DEF Inv, ParentInv, ProcOK, Apart
<1>11. FreshOK'
  <2> SUFFICES ASSUME NEW p \in Coroutines, NEW t \in Names, Fresh(proc[p], t)
               PROVE  /\ memory'[t[1]].subtasks[t[2]] = PendingSubtask
                      /\ ~Answered(t) /\ \A d \in Children : ~Held(t, d)
    BY <1>8 DEF FreshOK
  <2>1. /\ memory[t[1]].subtasks[t[2]] = PendingSubtask
        /\ ~Answered(t) /\ \A d \in Children : ~Held(t, d)
    BY DEF Inv, ParentInv, FreshOK
  <2>2. Known(t) /\ t # s
    BY <1>1, <2>1, FreshIsKnown DEF Inv, Known
  <2>3. QED
    BY <1>7, <2>1, <2>2
<1>12. HeldOK'
  <2> SUFFICES ASSUME NEW t \in Names
               PROVE  /\ \A d \in Children : Held(t, d) =>
                            /\ proc[t[1]].pc # "idle"
                            /\ t[1] \in DOMAIN memory' =>
                                  t[2] \in DOMAIN memory'[t[1]].subtasks /\ AssigneeOf(t)' = d
                            /\ \A e \in Children : Held(t, e) => d = e
                      /\ Answered(t) =>
                            /\ proc[t[1]].pc # "idle"
                            /\ t[1] \in DOMAIN memory' => t[2] \in DOMAIN memory'[t[1]].subtasks
    BY <1>8 DEF HeldOK
  <2>1. ASSUME t[1] \in DOMAIN memory', t[2] \in DOMAIN memory[t[1]].subtasks
        PROVE  t[2] \in DOMAIN memory'[t[1]].subtasks /\ AssigneeOf(t)' = AssigneeOf(t)
    BY <1>6, <1>7, <2>1 DEF Known
  <2>2. QED
    BY <1>6, <2>1 DEF Inv, ParentInv, HeldOK
<1>13. Attended'
  <2> SUFFICES ASSUME NEW t \in Names, Known(t)'
               PROVE  /\ StatusOf(t)' = "ASSIGNED" =>
                            \E p \in Coroutines : SubtaskOf(p) = t /\ proc[p].pc \in {"assigning", "gone"}
                      /\ StatusOf(t)' = "PENDING" =>
                            \E p \in Coroutines :
                               \/ Fresh(proc[p], t)
                               \/ /\ proc[p].pc \in {"raised", "gone"}
                                  /\ proc[p].job = t[1] /\ proc[p].sub <= t[2]
    BY <1>8 DEF Attended
  <2>1. CASE t = s
    BY <1>7, <2>1 DEF Verdicts
  <2>2. CASE t # s
    <3>1. Known(t) /\ StatusOf(t)' = StatusOf(t)
      BY <1>7, <2>2 DEF StatusOf
    <3>2. QED
      BY <3>1 DEF Inv, ParentInv, Attended
  <2>3. QED
    BY <2>1, <2>2
<1>14. Causes'
  <2> SUFFICES ASSUME NEW t \in Names, Known(t)'
               PROVE  /\ StatusOf(t)' = "RUNNING" /\ t \in Subtasks => answer[t] = "accepted"
                      /\ StatusOf(t)' = "COMPLETED" => <<t, AssigneeOf(t)', "COMPLETED">> \in ran
    BY DEF Causes
  <2>1. Known(t) /\ AssigneeOf(t)' = AssigneeOf(t)
    BY <1>7
  <2>2. CASE t = s
    <3>1. StatusOf(t)' = v /\ AssigneeOf(t)' = c
      BY <1>2, <1>7, <2>1, <2>2
    <3>2. QED
      BY <2>2, <3>1 DEF Verdicts
  <2>3. CASE t # s
    <3>1. StatusOf(t)' = StatusOf(t)
      BY <1>7, <2>1, <2>3 DEF StatusOf
    <3>2. QED
      BY <2>1, <3>1 DEF Inv, ParentInv, Causes
  <2>4. QED
    BY <2>2, <2>3
<1>15. ForwardOK'
  <2> SUFFICES ASSUME NEW f \in Forwards, proc[f].exclude # NoAgent, Known(SubtaskOf(f))'
               PROVE  AssigneeOf(SubtaskOf(f))' # proc[f].exclude
    BY <1>8 DEF Inv, ParentInv, ForwardOK
  <2>1. SubtaskOf(f) \in Names
    <3>1. SubtaskOf(f) = <<proc[f].job, proc[f].sub>> /\ SubtaskOf(f)' = SubtaskOf(f)
      BY <1>8 DEF SubtaskOf
    <3>2. RolledUp(memory'[proc[f].job]) /\ proc[f].job \in Jobs
      BY <1>9, <3>1 DEF Known, MemoryOK
    <3>3. proc[f].sub \in Nat \ {0}
      BY <3>1, <3>2, SubtasksSeq DEF Known
    <3>4. QED
      BY <3>1, <3>2, <3>3 DEF Names
  <2>2. Known(SubtaskOf(f)) /\ AssigneeOf(SubtaskOf(f))' = AssigneeOf(SubtaskOf(f))
    <3> DEFINE t == SubtaskOf(f)
    <3>1. t \in Names /\ SubtaskOf(f)' = t
      BY <1>8, <2>1
    <3>2. Known(t)' /\ AssigneeOf(SubtaskOf(f))' = memory'[t[1]].subtasks[t[2]].assignee
      BY <3>1 DEF Known, AssigneeOf
    <3>3. Known(t) /\ AssigneeOf(t) = memory'[t[1]].subtasks[t[2]].assignee
      BY <1>7, <3>1, <3>2 DEF Known, AssigneeOf
    <3>4. QED
      BY <3>2, <3>3
  <2>3. QED
    BY <2>2 DEF Inv, ParentInv, ForwardOK
<1>16. QED
  BY <1>9, <1>10, <1>11, <1>12, <1>13, <1>14, <1>15 DEF ParentInv

LEMMA ParentTakesReportKeeps ==
    ASSUME Inv, NEW r \in reports, ParentTakesReport(r)
    PROVE  Inv'
<1>1. /\ r.subtask \in Names /\ r.child \in Children /\ r.verdict \in Verdicts
      /\ <<r.subtask, r.child, r.verdict>> \in ran
  BY DEF Inv, NetInv, NetTypes, OneVerdict
<1>2. reports' = reports \ {r} /\ UNCHANGED <<proc, backlog, ran, assigns, answer>>
  BY DEF ParentTakesReport
<1>3. ParentInv'
  <2>1. CASE r.subtask[1] \in DOMAIN memory
    <3>1. Remember(r.subtask[1], UpdateSubtask(memory[r.subtask[1]], r.subtask[2], r.verdict, r.child))
      BY <2>1 DEF ParentTakesReport
    <3>2. QED
      BY <1>1, <1>2, <2>1, <3>1, ResultKeepsParent
  <2>2. CASE r.subtask[1] \notin DOMAIN memory
    <3>1. UNCHANGED memory
      BY <2>2 DEF ParentTakesReport
    <3>2. /\ \A s, c : Held(s, c)' <=> Held(s, c)
          /\ \A s : Answered(s)' <=> Answered(s)
      BY <1>2 DEF Held, Answered
    <3>3. QED
      BY <1>2, <3>1, <3>2, ParentKeeps
  <2>3. QED
    BY <2>1, <2>2
<1>4. PICK a \in {"none", "ok", "error"} :
          /\ run' = [run EXCEPT ![r.child].answer = a]
          /\ a # "none" => run[r.child].phase = "reporting"
  <2>1. run[r.child].answer \in {"none", "ok", "error"}
    BY <1>1 DEF Inv, NetInv, NetTypes
  <2>2. run[r.child].answer # "none" => run[r.child].phase = "reporting"
    BY <1>1 DEF Inv, NetInv, AtWork
  <2>3. \E a \in {"none", "ok", "error"} :
            /\ run' = [run EXCEPT ![r.child].answer = a]
            /\ a = run[r.child].answer \/ run[r.child].phase = "reporting"
    <3>1. CASE r.subtask[1] \in DOMAIN memory
      BY <2>1, <3>1 DEF ParentTakesReport
    <3>2. CASE r.subtask[1] \notin DOMAIN memory
      BY <2>1, <3>2 DEF ParentTakesReport
    <3>3. QED
      BY <3>1, <3>2
  <2>4. QED
    BY <2>2, <2>3
<1>5. \A c \in Children : /\ run'[c].phase = run[c].phase /\ run'[c].verdict = run[c].verdict
                          /\ run'[c].answer # "none" => run[c].phase = "reporting"
  <2> SUFFICES ASSUME NEW c \in Children
               PROVE  /\ run'[c].phase = run[c].phase /\ run'[c].verdict = run[c].verdict
                      /\ run'[c].answer # "none" => run[c].phase = "reporting"
    OBVIOUS
  <2>1. /\ run \in [Children -> [phase : {"idle", "running", "reporting"},
                                 verdict : Verdicts \union {"none"}, attempt : Nat,
                                 answer : {"none", "ok", "error"}]]
        /\ run[c].answer # "none" => run[c].phase = "reporting"
    BY DEF Inv, NetInv, NetTypes, AtWork
  <2>2. QED
    BY <1>4, <2>1
<1>6. NetTypes'
  <2>1. run' \in [Children -> [phase : {"idle", "running", "reporting"},
                               verdict : Verdicts \union {"none"}, attempt : Nat,
                               answer : {"none", "ok", "error"}]]
    BY <1>4 DEF Inv, NetInv, NetTypes
  <2>2. QED
    BY <1>2, <2>1 DEF Inv, NetInv, NetTypes
<1>7. (\A c \in Children : AtWork(c)') /\ OnItsWay' /\ OneVerdict'
  BY <1>2, <1>5 DEF Inv, NetInv, AtWork, OnItsWay, OneVerdict, Answered
<1>8. QED
  BY <1>3, <1>6, <1>7 DEF Inv, NetInv

LEMMA ChildTakesAssignKeeps ==
    ASSUME Inv, NEW s, NEW c, <<s, c>> \in assigns, ChildTakesAssign(s, c)
    PROVE  Inv'
<1>1. s \in Names /\ c \in Children
  BY DEF Inv, NetInv, NetTypes
<1>2. /\ ~Answered(s) /\ \A i \in DOMAIN backlog[c] : backlog[c][i] # s
      /\ \A v \in Verdicts : <<s, c, v>> \notin ran
  BY <1>1 DEF Inv, NetInv, OnItsWay
<1>3. /\ assigns' = assigns \ {<<s, c>>} /\ UNCHANGED <<memory, proc, ran, reports>>
      /\ \E a : answer' = [answer EXCEPT ![s] = a]
  BY DEF ChildTakesAssign, parentVars
<1>4. \/ backlog' = backlog /\ run' = run
      \/ /\ backlog' = [backlog EXCEPT ![c] = Append(@, s)]
         /\ run' = IF backlog[c] = <<>> THEN [run EXCEPT ![c] = Starting] ELSE run
  BY DEF ChildTakesAssign
<1>5. /\ backlog \in [Children -> Seq(Names)] /\ backlog[c] \in Seq(Names)
      /\ run \in [Children -> [phase : {"idle", "running", "reporting"},
                               verdict : Verdicts \union {"none"}, attempt : Nat,
                               answer : {"none", "ok", "error"}]]
      /\ DOMAIN answer = Subtasks
  BY <1>1 DEF Inv, NetInv, NetTypes
<1>6. /\ Starting.phase = "running" /\ Starting.answer = "none"
      /\ Starting \in [phase : {"idle", "running", "reporting"},
                       verdict : Verdicts \union {"none"}, attempt : Nat,
                       answer : {"none", "ok", "error"}]
  BY DEF Starting, Resting
<1> DEFINE len == Len(backlog[c])
<1>7. /\ len \in Nat /\ DOMAIN backlog[c] = 1..len
      /\ \A d \in Children : d # c => backlog'[d] = backlog[d] /\ run'[d] = run[d]
      /\ \/ backlog'[c] = backlog[c] /\ run'[c] = run[c]
         \/ /\ DOMAIN backlog'[c] = 1..(len + 1) /\ backlog'[c][len + 1] = s
            /\ \A i \in 1..len : backlog'[c][i] = backlog[c][i]
            /\ run'[c] = (IF backlog[c] = <<>> THEN Starting ELSE run[c])
  <2>1. len \in Nat /\ DOMAIN backlog[c] = 1..len
    BY <1>5
  <2>2. CASE backlog' = backlog /\ run' = run
    BY <2>1, <2>2
  <2>3. CASE /\ backlog' = [backlog EXCEPT ![c] = Append(@, s)]
             /\ run' = IF backlog[c] = <<>> THEN [run EXCEPT ![c] = Starting] ELSE run
    <3>1. /\ \A d \in Children : d # c => backlog'[d] = backlog[d]
          /\ backlog'[c] = Append(backlog[c], s)
      BY <1>1, <1>5, <2>3
    <3>2. /\ \A d \in Children : d # c => run'[d] = run[d]
          /\ run'[c] = (IF backlog[c] = <<>> THEN Starting ELSE run[c])
      BY <1>1, <1>5, <2>3
    <3>3. /\ DOMAIN Append(backlog[c], s) = 1..(len + 1) /\ Append(backlog[c], s)[len + 1] = s
          /\ \A i \in 1..len : Append(backlog[c], s)[i] = backlog[c][i]
      BY <1>1, <1>5, <2>1
    <3>4. QED
      BY <2>1, <3>1, <3>2, <3>3
  <2>4. QED
    BY <1>4, <2>2, <2>3
<1>8. ASSUME NEW d \in Children, NEW i \in DOMAIN backlog'[d]
      PROVE  \/ i \in DOMAIN backlog[d] /\ backlog'[d][i] = backlog[d][i]
             \/ d = c /\ i = len + 1 /\ backlog'[d][i] = s
  BY <1>7
<1> HIDE DEF len
<1>9. /\ \A t \in Subtasks : t # s => answer'[t] = answer[t]
      /\ DOMAIN answer' = Subtasks
  BY <1>3, <1>5
<1>10. /\ \A t \in Names, d \in Children : Held(t, d)' => Held(t, d)
       /\ \A t \in Names : Answered(t)' => Answered(t) \/ \E d \in Children : Held(t, d)
  <2>1. Held(s, c)
    BY DEF Held
  <2>2. \A t \in Names, d \in Children : Held(t, d)' => Held(t, d)
    <3> SUFFICES ASSUME NEW t \in Names, NEW d \in Children, Held(t, d)' PROVE Held(t, d)
      OBVIOUS
    <3>1. \/ <<t, d>> \in assigns' \/ (\E i \in DOMAIN backlog'[d] : backlog'[d][i] = t)
          \/ (\E v \in Verdicts : <<t, d, v>> \in ran)
      BY <1>3 DEF Held
    <3>2. ASSUME NEW i \in DOMAIN backlog'[d], backlog'[d][i] = t PROVE Held(t, d)
      BY <1>8, <2>1, <3>2 DEF Held
    <3>3. QED
      BY <1>3, <3>1, <3>2 DEF Held
  <2>3. \A t \in Names : Answered(t)' => Answered(t) \/ t = s
    BY <1>9 DEF Answered
  <2>4. QED
    BY <1>1, <2>1, <2>2, <2>3
<1>11. \A t \in Subtasks : answer[t] = "accepted" => answer'[t] = "accepted"
  BY <1>2, <1>9 DEF Answered
<1>12. ParentInv'
  BY <1>3, <1>10, <1>11, ParentKeeps
<1>13. NetTypes'
  <2>1. backlog' \in [Children -> Seq(Names)]
    <3>1. Append(backlog[c], s) \in Seq(Names)
      BY <1>1, <1>5
    <3>2. QED
      BY <1>4, <1>5, <3>1
  <2>2. run' \in [Children -> [phase : {"idle", "running", "reporting"},
                               verdict : Verdicts \union {"none"}, attempt : Nat,
                               answer : {"none", "ok", "error"}]]
    BY <1>1, <1>4, <1>5, <1>6
  <2>3. QED
    BY <1>3, <1>9, <2>1, <2>2 DEF Inv, NetInv, NetTypes
<1>14. ASSUME NEW d \in Children PROVE AtWork(d)'
  <2>1. AtWork(d)
    BY DEF Inv, NetInv
  <2>2. CASE backlog'[d] = backlog[d] /\ run'[d] = run[d]
    BY <1>3, <2>1, <2>2 DEF AtWork
  <2>3. CASE /\ d = c /\ DOMAIN backlog'[c] = 1..(len + 1) /\ backlog'[c][len + 1] = s
             /\ \A i \in 1..len : backlog'[c][i] = backlog[c][i]
             /\ run'[c] = (IF backlog[c] = <<>> THEN Starting ELSE run[c])
    <3>1. backlog'[c] # <<>> /\ len + 1 \in DOMAIN backlog'[c]
      BY <1>7, <2>3
    <3>2. run'[c].phase # "idle"
      BY <1>6, <2>1, <2>3 DEF AtWork
    <3>3. run'[c].answer # "none" => run'[c].phase = "reporting"
      BY <1>6, <2>1, <2>3 DEF AtWork
    <3>4. run'[c].phase = "reporting" =>
             /\ backlog[c] # <<>> /\ run'[c] = run[c] /\ backlog'[c][1] = backlog[c][1]
      <4>1. run'[c].phase = "reporting" => backlog[c] # <<>> /\ run'[c] = run[c]
        BY <1>6, <2>3
      <4>2. backlog[c] # <<>> => 1 \in 1..len
        BY <1>5 DEF len
      <4>3. QED
        BY <2>3, <4>1, <4>2
    <3>5. run'[c].phase = "reporting" =>
             run'[c].verdict \in Verdicts /\ <<backlog'[c][1], c, run'[c].verdict>> \in ran'
      BY <1>3, <2>1, <2>3, <3>4 DEF AtWork
    <3>6. \A i, k \in DOMAIN backlog'[c] : backlog'[c][i] = backlog'[c][k] => i = k
      <4>1. \A i \in 1..len : i \in DOMAIN backlog[c] /\ backlog'[c][i] = backlog[c][i] /\ backlog[c][i] # s
        BY <1>2, <1>7, <2>3
      <4>2. \A i \in 1..(len + 1) : i \in 1..len \/ i = len + 1
        BY <1>7
      <4>3. QED
        BY <2>1, <2>3, <4>1, <4>2 DEF AtWork
    <3>7. ASSUME NEW i \in DOMAIN backlog'[c], \E v \in Verdicts : <<backlog'[c][i], c, v>> \in ran
          PROVE  i = 1 /\ run'[c].phase = "reporting"
      <4>1. i \in DOMAIN backlog[c] /\ backlog'[c][i] = backlog[c][i]
        BY <1>1, <1>2, <1>8, <3>7
      <4>2. i = 1 /\ run[c].phase = "reporting"
        BY <2>1, <2>3, <3>7, <4>1 DEF AtWork
      <4>3. backlog[c] # <<>>
        BY <4>1
      <4>4. QED
        BY <2>3, <4>2, <4>3
    <3>8. QED
      BY <1>3, <2>3, <3>1, <3>2, <3>3, <3>5, <3>6, <3>7 DEF AtWork
  <2>4. QED
    BY <1>7, <2>2, <2>3
<1>15. OnItsWay'
  <2> SUFFICES ASSUME NEW t \in Names, NEW d \in Children, <<t, d>> \in assigns'
               PROVE  /\ ~Answered(t)'
                      /\ \A i \in DOMAIN backlog'[d] : backlog'[d][i] # t
                      /\ \A v \in Verdicts : <<t, d, v>> \notin ran'
    BY DEF OnItsWay
  <2>1. <<t, d>> \in assigns /\ <<t, d>> # <<s, c>>
    BY <1>3
  <2>2. t # s
    <3>1. Held(t, d) /\ Held(s, c)
      BY <2>1 DEF Held
    <3>2. QED
      BY <1>1, <2>1, <3>1 DEF Inv, ParentInv, HeldOK
  <2>3. /\ ~Answered(t) /\ \A i \in DOMAIN backlog[d] : backlog[d][i] # t
        /\ \A v \in Verdicts : <<t, d, v>> \notin ran
    BY <2>1 DEF Inv, NetInv, OnItsWay
  <2>4. ~Answered(t)'
    BY <1>9, <2>2, <2>3 DEF Answered
  <2>5. QED
    BY <1>3, <1>8, <2>2, <2>3, <2>4
<1>16. OneVerdict'
  BY <1>3 DEF Inv, NetInv, OneVerdict
<1>17. QED
  BY <1>12, <1>13, <1>14, <1>15, <1>16 DEF Inv, NetInv

LEMMA LossKeeps == ASSUME Inv, Loss PROVE Inv'
<1>1. /\ assigns' \subseteq assigns /\ reports' \subseteq reports
      /\ UNCHANGED <<memory, proc, backlog, run, ran, answer>>
  BY DEF Loss, LoseAssign, LoseReport, parentVars, childVars
<1>2. /\ \A s, c : Held(s, c)' => Held(s, c)
      /\ \A s : Answered(s)' <=> Answered(s)
  BY <1>1 DEF Held, Answered
<1>3. ParentInv'
  BY <1>1, <1>2, ParentKeeps
<1>4. NetTypes' /\ (\A c \in Children : AtWork(c)')
  BY <1>1 DEF Inv, NetInv, NetTypes, AtWork
<1>5. OnItsWay' /\ OneVerdict'
  BY <1>1, <1>2 DEF Inv, NetInv, OnItsWay, OneVerdict
<1>6. QED
  BY <1>3, <1>4, <1>5 DEF Inv, NetInv

\* A child that is not idle, and the head of its backlog.
LEMMA BusyFacts ==
    ASSUME Inv, NEW c \in Children, run[c].phase # "idle"
    PROVE  /\ backlog[c] \in Seq(Names) /\ Len(backlog[c]) \in Nat
           /\ DOMAIN backlog[c] = 1..Len(backlog[c]) /\ 1 \in DOMAIN backlog[c]
           /\ Head(backlog[c]) = backlog[c][1] /\ Head(backlog[c]) \in Names
           /\ Held(Head(backlog[c]), c)
           /\ Tail(backlog[c]) \in Seq(Names) /\ Len(Tail(backlog[c])) = Len(backlog[c]) - 1
           /\ \A i \in 1..(Len(backlog[c]) - 1) : Tail(backlog[c])[i] = backlog[c][i + 1]
<1>1. backlog[c] \in Seq(Names) /\ backlog[c] # <<>>
  BY DEF Inv, NetInv, NetTypes, AtWork
<1>2. /\ Len(backlog[c]) \in Nat /\ DOMAIN backlog[c] = 1..Len(backlog[c])
      /\ 1 \in DOMAIN backlog[c] /\ Head(backlog[c]) = backlog[c][1]
  BY <1>1
<1>3. Head(backlog[c]) \in Names
  BY <1>1
<1>4. Held(Head(backlog[c]), c)
  BY <1>2 DEF Held
<1>5. /\ Tail(backlog[c]) \in Seq(Names) /\ Len(Tail(backlog[c])) = Len(backlog[c]) - 1
      /\ \A i \in 1..(Len(backlog[c]) - 1) : Tail(backlog[c])[i] = backlog[c][i + 1]
  BY <1>1
<1>6. QED
  BY <1>1, <1>2, <1>3, <1>4, <1>5

RunRecord == [phase : {"idle", "running", "reporting"}, verdict : Verdicts \union {"none"},
              attempt : Nat, answer : {"none", "ok", "error"}]

LEMMA ChildRunsKeeps ==
    ASSUME Inv, NEW c \in Children, NEW v \in Verdicts, ChildRuns(c, v)
    PROVE  Inv'
<1> DEFINE head == Head(backlog[c])
<1>1. run[c].phase = "running"
  BY DEF ChildRuns
<1>2. /\ head = backlog[c][1] /\ head \in Names /\ Held(head, c) /\ 1 \in DOMAIN backlog[c]
  BY <1>1, BusyFacts
<1>3. /\ ran' = ran \union {<<head, c, v>>} /\ UNCHANGED <<memory, proc, backlog, assigns, answer>>
      /\ reports' = reports \union {[subtask |-> head, child |-> c, verdict |-> v, attempt |-> 1]}
      /\ run' = [run EXCEPT ![c] = [phase |-> "reporting", verdict |-> v, attempt |-> 1,
                                    answer |-> "none"]]
  BY DEF ChildRuns, Report, parentVars
<1>4. AtWork(c) /\ \A w \in Verdicts : <<head, c, w>> \notin ran
  BY <1>1, <1>2 DEF Inv, NetInv, AtWork
<1>5. run \in [Children -> RunRecord]
  BY DEF Inv, NetInv, NetTypes, RunRecord
<1>6. /\ run'[c] = [phase |-> "reporting", verdict |-> v, attempt |-> 1, answer |-> "none"]
      /\ \A d \in Children : d # c => run'[d] = run[d]
      /\ run' \in [Children -> RunRecord]
  <2>1. [phase |-> "reporting", verdict |-> v, attempt |-> 1, answer |-> "none"] \in RunRecord
    BY DEF RunRecord
  <2>2. QED
    BY <1>3, <1>5, <2>1
<1> HIDE DEF head
<1>7. /\ \A s \in Names, d \in Children : Held(s, d)' => Held(s, d)
      /\ \A s : Answered(s)' <=> Answered(s)
  BY <1>2, <1>3 DEF Held, Answered
<1>8. ParentInv'
  BY <1>3, <1>7, ParentKeeps
<1>9. NetTypes'
  <2>1. ran' \subseteq Names \X Children \X Verdicts
    <3>1. ran \subseteq Names \X Children \X Verdicts
      BY DEF Inv, NetInv, NetTypes
    <3>2. QED
      BY <1>2, <1>3, <3>1
  <2>2. reports' \subseteq [subtask : Names, child : Children, verdict : Verdicts, attempt : Nat]
    <3>1. reports \subseteq [subtask : Names, child : Children, verdict : Verdicts, attempt : Nat]
      BY DEF Inv, NetInv, NetTypes
    <3>2. QED
      BY <1>2, <1>3, <3>1
  <2>3. QED
    BY <1>3, <1>6, <2>1, <2>2 DEF Inv, NetInv, NetTypes, RunRecord
<1>10. ASSUME NEW d \in Children PROVE AtWork(d)'
  <2>1. AtWork(d)
    BY DEF Inv, NetInv
  <2>2. CASE d # c
    BY <1>3, <1>6, <2>1, <2>2 DEF AtWork
  <2>3. CASE d = c
    <3>1. ASSUME NEW i \in DOMAIN backlog[c], \E w \in Verdicts : <<backlog[c][i], c, w>> \in ran'
          PROVE  i = 1
      <4>1. CASE backlog[c][i] = head
        BY <1>2, <1>4, <4>1 DEF AtWork
      <4>2. CASE backlog[c][i] # head
        BY <1>3, <1>4, <3>1, <4>2 DEF AtWork
      <4>3. QED
        BY <4>1, <4>2
    <3>2. backlog[c] # <<>> /\ <<backlog[c][1], c, v>> \in ran'
      BY <1>2, <1>3
    <3>3. QED
      BY <1>3, <1>4, <1>6, <2>3, <3>1, <3>2 DEF AtWork
  <2>4. QED
    BY <2>2, <2>3
<1>11. OnItsWay'
  <2> SUFFICES ASSUME NEW s \in Names, NEW d \in Children, <<s, d>> \in assigns
               PROVE  /\ ~Answered(s)
                      /\ \A i \in DOMAIN backlog[d] : backlog[d][i] # s
                      /\ \A w \in Verdicts : <<s, d, w>> \notin ran'
    BY <1>3, <1>7 DEF OnItsWay
  <2>1. /\ ~Answered(s) /\ \A i \in DOMAIN backlog[d] : backlog[d][i] # s
        /\ \A w \in Verdicts : <<s, d, w>> \notin ran
    BY DEF Inv, NetInv, OnItsWay
  <2>2. <<s, d>> # <<head, c>>
    BY <1>2, <2>1
  <2>3. QED
    BY <1>3, <2>1, <2>2
<1>12. OneVerdict'
  <2>1. ASSUME NEW s \in Names, NEW d \in Children, NEW w \in Verdicts, NEW x \in Verdicts,
               <<s, d, w>> \in ran', <<s, d, x>> \in ran'
        PROVE  w = x
    BY <1>3, <1>4, <2>1 DEF Inv, NetInv, OneVerdict
  <2>2. \A r \in reports' : <<r.subtask, r.child, r.verdict>> \in ran'
    <3>1. \A r \in reports : <<r.subtask, r.child, r.verdict>> \in ran
      BY DEF Inv, NetInv, OneVerdict
    <3>2. ASSUME NEW r \in reports' PROVE <<r.subtask, r.child, r.verdict>> \in ran'
      <4>1. CASE r \in reports
        BY <1>3, <3>1, <4>1
      <4>2. CASE r = [subtask |-> head, child |-> c, verdict |-> v, attempt |-> 1]
        BY <1>3, <4>2
      <4>3. QED
        BY <1>3, <4>1, <4>2
    <3>3. QED
      BY <3>2
  <2>3. QED
    BY <2>1, <2>2 DEF OneVerdict
<1>13. QED
  BY <1>8, <1>9, <1>10, <1>11, <1>12 DEF Inv, NetInv

\* A child drops the head of its backlog, or all of it.
LEMMA DropKeeps ==
    ASSUME Inv, NEW c \in Children,
           \/ Release(c) /\ run[c].phase = "reporting"
           \/ backlog' = [backlog EXCEPT ![c] = <<>>] /\ run' = [run EXCEPT ![c] = Resting],
           UNCHANGED <<memory, proc, ran, assigns, answer, reports>>
    PROVE  Inv'
<1>1. run \in [Children -> RunRecord] /\ backlog \in [Children -> Seq(Names)]
  BY DEF Inv, NetInv, NetTypes, RunRecord
<1>2. {Resting, Starting} \subseteq RunRecord
      /\ \A r \in {Resting, Starting} : r.phase \in {"idle", "running"} /\ r.answer = "none"
      /\ Resting.phase = "idle" /\ Starting.phase = "running"
  BY DEF Resting, Starting, RunRecord
<1>3. /\ \A d \in Children : d # c => backlog'[d] = backlog[d] /\ run'[d] = run[d]
      /\ run'[c] \in {Resting, Starting} /\ run' \in [Children -> RunRecord]
      /\ backlog'[c] \in Seq(Names) /\ backlog' \in [Children -> Seq(Names)]
      /\ run'[c] = Starting <=> backlog'[c] # <<>>
      /\ \A i \in DOMAIN backlog'[c] : i + 1 \in DOMAIN backlog[c] /\ backlog'[c][i] = backlog[c][i + 1]
                                       /\ i \in Nat \ {0}
  <2>1. CASE Release(c) /\ run[c].phase = "reporting"
    <3>1. /\ backlog[c] \in Seq(Names) /\ Len(backlog[c]) \in Nat /\ Len(backlog[c]) >= 1
          /\ DOMAIN backlog[c] = 1..Len(backlog[c])
          /\ Tail(backlog[c]) \in Seq(Names) /\ Len(Tail(backlog[c])) = Len(backlog[c]) - 1
          /\ \A i \in 1..(Len(backlog[c]) - 1) : Tail(backlog[c])[i] = backlog[c][i + 1]
      BY <2>1, BusyFacts
    <3>2. /\ \A d \in Children : d # c => backlog'[d] = backlog[d] /\ run'[d] = run[d]
          /\ backlog'[c] = Tail(backlog[c])
          /\ run'[c] = (IF Len(backlog[c]) > 1 THEN Starting ELSE Resting)
      BY <1>1, <2>1 DEF Release
    <3>3. backlog'[c] # <<>> <=> Len(backlog[c]) > 1
      <4>1. Tail(backlog[c]) # <<>> <=> Len(Tail(backlog[c])) > 0
        BY <3>1
      <4>2. Len(Tail(backlog[c])) > 0 <=> Len(backlog[c]) > 1
        BY <3>1
      <4>3. QED
        BY <3>2, <4>1, <4>2
    <3>4. run' \in [Children -> RunRecord] /\ backlog' \in [Children -> Seq(Names)]
      BY <1>1, <1>2, <2>1, <3>1 DEF Release
    <3>5. DOMAIN backlog'[c] = 1..(Len(backlog[c]) - 1)
      BY <3>1, <3>2
    <3>6. QED
      BY <1>2, <3>1, <3>2, <3>3, <3>4, <3>5
  <2>2. CASE backlog' = [backlog EXCEPT ![c] = <<>>] /\ run' = [run EXCEPT ![c] = Resting]
    <3>1. /\ \A d \in Children : d # c => backlog'[d] = backlog[d] /\ run'[d] = run[d]
          /\ backlog'[c] = <<>> /\ run'[c] = Resting
          /\ run' \in [Children -> RunRecord] /\ backlog' \in [Children -> Seq(Names)]
      BY <1>1, <1>2, <2>2
    <3>2. QED
      BY <1>2, <3>1
  <2>3. QED
    BY <2>1, <2>2
<1>4. ASSUME NEW d \in Children, NEW i \in DOMAIN backlog'[d]
      PROVE  \E k \in DOMAIN backlog[d] : backlog'[d][i] = backlog[d][k]
  BY <1>3
<1>5. /\ \A s \in Names, d \in Children : Held(s, d)' => Held(s, d)
      /\ \A s : Answered(s)' <=> Answered(s)
  BY <1>4 DEF Held, Answered
<1>6. ParentInv'
  BY <1>5, ParentKeeps
<1>7. NetTypes'
  BY <1>3 DEF Inv, NetInv, NetTypes, RunRecord
<1>8. ASSUME NEW d \in Children PROVE AtWork(d)'
  <2>1. AtWork(d)
    BY DEF Inv, NetInv
  <2>2. CASE d # c
    BY <1>3, <2>1, <2>2 DEF AtWork
  <2>3. CASE d = c
    <3>1. run'[c].phase \in {"idle", "running"} /\ run'[c].answer = "none"
          /\ (run'[c].phase = "idle" <=> backlog'[c] = <<>>)
      BY <1>2, <1>3
    <3>2. \A i, k \in DOMAIN backlog'[c] : backlog'[c][i] = backlog'[c][k] => i = k
      BY <1>3, <2>1, <2>3 DEF AtWork
    <3>3. ASSUME NEW i \in DOMAIN backlog'[c], \E v \in Verdicts : <<backlog'[c][i], c, v>> \in ran
          PROVE  FALSE
      <4>1. i + 1 \in DOMAIN backlog[c] /\ backlog'[c][i] = backlog[c][i + 1] /\ i \in Nat \ {0}
        BY <1>3
      <4>2. i + 1 = 1
        BY <2>1, <2>3, <3>3, <4>1 DEF AtWork
      <4>3. QED
        BY <4>1, <4>2
    <3>4. QED
      BY <2>3, <3>1, <3>2, <3>3 DEF AtWork
  <2>4. QED
    BY <2>2, <2>3
<1>9. OnItsWay' /\ OneVerdict'
  BY <1>4, <1>5 DEF Inv, NetInv, OnItsWay, OneVerdict
<1>10. QED
  BY <1>6, <1>7, <1>8, <1>9 DEF Inv, NetInv

\* A child tries its report again.
LEMMA ReportAgainKeeps ==
    ASSUME Inv, NEW c \in Children, run[c].phase = "reporting",
           run' = [run EXCEPT ![c].attempt = @ + 1, ![c].answer = "none"],
           reports' = reports \union {Report(c, run[c].verdict, run[c].attempt + 1)},
           UNCHANGED <<memory, proc, backlog, ran, assigns, answer>>
    PROVE  Inv'
<1>1. run \in [Children -> RunRecord]
  BY DEF Inv, NetInv, NetTypes, RunRecord
<1>2. run[c] \in RunRecord /\ AtWork(c) /\ Head(backlog[c]) = backlog[c][1] /\ Head(backlog[c]) \in Names
  BY <1>1, BusyFacts DEF Inv, NetInv
<1>3. /\ run[c].attempt + 1 \in Nat /\ run[c].verdict \in Verdicts
      /\ <<Head(backlog[c]), c, run[c].verdict>> \in ran
  BY <1>2 DEF AtWork, RunRecord
<1>4. run' \in [Children -> RunRecord]
  BY <1>1, <1>3 DEF RunRecord
<1>5. ASSUME NEW d \in Children
      PROVE  /\ run'[d].phase = run[d].phase /\ run'[d].verdict = run[d].verdict
             /\ run'[d].answer # "none" => run[d].answer # "none"
  BY <1>1 DEF RunRecord
<1>6. /\ \A s, d : Held(s, d)' <=> Held(s, d)
      /\ \A s : Answered(s)' <=> Answered(s)
  BY DEF Held, Answered
<1>7. ParentInv'
  BY <1>6, ParentKeeps
<1>8. NetTypes'
  <2>1. Report(c, run[c].verdict, run[c].attempt + 1)
           \in [subtask : Names, child : Children, verdict : Verdicts, attempt : Nat]
    BY <1>2, <1>3 DEF Report
  <2>2. reports' \subseteq [subtask : Names, child : Children, verdict : Verdicts, attempt : Nat]
    <3>1. reports \subseteq [subtask : Names, child : Children, verdict : Verdicts, attempt : Nat]
      BY DEF Inv, NetInv, NetTypes
    <3>2. QED
      BY <2>1, <3>1
  <2>3. QED
    BY <1>4, <2>2 DEF Inv, NetInv, NetTypes, RunRecord
<1>9. ASSUME NEW d \in Children PROVE AtWork(d)'
  <2>1. /\ AtWork(d) /\ run'[d].phase = run[d].phase /\ run'[d].verdict = run[d].verdict
        /\ run'[d].answer # "none" => run[d].answer # "none"
    BY <1>5 DEF Inv, NetInv
  <2>2. backlog' = backlog /\ ran' = ran
    OBVIOUS
  <2>3. QED
    BY <2>1, <2>2, ZenonT(60) DEF AtWork
<1>10. OnItsWay'
  BY <1>6 DEF Inv, NetInv, OnItsWay
<1>11. OneVerdict'
  BY <1>3 DEF Inv, NetInv, OneVerdict, Report
<1>12. QED
  BY <1>7, <1>8, <1>9, <1>10, <1>11 DEF Inv, NetInv

LEMMA ChildKeeps == ASSUME Inv, NEW c \in Children, Child(c) PROVE Inv'
<1>1. ASSUME NEW v \in Verdicts, ChildRuns(c, v) PROVE Inv'
  BY <1>1, ChildRunsKeeps
<1>2. CASE ReportAnswered(c)
  <2>1. run[c].phase = "reporting" /\ Release(c)
    BY <1>2 DEF ReportAnswered, Inv, NetInv, AtWork
  <2>2. UNCHANGED <<memory, proc, ran, assigns, answer, reports>>
    BY <1>2 DEF ReportAnswered, parentVars, netVars
  <2>3. QED
    BY <2>1, <2>2, DropKeeps
<1>3. CASE ReportFails(c)
  <2>1. run[c].phase = "reporting" /\ UNCHANGED <<memory, proc, ran, assigns, answer>>
    BY <1>3 DEF ReportFails, parentVars
  <2>2. CASE run[c].attempt < ReportAttempts
    <3>1. /\ run' = [run EXCEPT ![c].attempt = @ + 1, ![c].answer = "none"]
          /\ reports' = reports \union {Report(c, run[c].verdict, run[c].attempt + 1)}
          /\ UNCHANGED backlog
      BY <1>3, <2>2 DEF ReportFails
    <3>2. QED
      BY <2>1, <3>1, ReportAgainKeeps
  <2>3. CASE ~(run[c].attempt < ReportAttempts)
    <3>1. Release(c) /\ UNCHANGED reports
      BY <1>3, <2>3 DEF ReportFails
    <3>2. QED
      BY <2>1, <3>1, DropKeeps
  <2>4. QED
    BY <2>2, <2>3
<1>4. QED
  BY <1>1, <1>2, <1>3 DEF Child

LEMMA RestartChildKeeps == ASSUME Inv, NEW c \in Children, RestartChild(c) PROVE Inv'
<1>1. /\ backlog' = [backlog EXCEPT ![c] = <<>>] /\ run' = [run EXCEPT ![c] = Resting]
      /\ UNCHANGED <<memory, proc, ran, assigns, answer, reports>>
  BY DEF RestartChild, parentVars, netVars
<1>2. QED
  BY <1>1, DropKeeps

LEMMA StepKeeps == ASSUME Inv, NEW p \in Coroutines, Step(p) PROVE Inv'
<1>1. ASSUME NEW n \in 1..MaxSubtasks, PlanDone(p, n) PROVE Inv'
  BY <1>1, PlanDoneKeeps
<1>2. ASSUME NEW listed \in SUBSET Children, CatalogAnswers(p, listed) PROVE Inv'
  BY <1>2, CatalogKeeps
<1>3. ASSUME NEW usable \in BOOLEAN, TargetAnswers(p, usable) PROVE Inv'
  BY <1>3, TargetKeeps
<1>4. CASE PlanFails(p)
  BY <1>4, PlanFailsKeeps
<1>5. CASE LocalDone(p)
  BY <1>5, LocalDoneKeeps
<1>6. CASE Raises(p)
  BY <1>6, RaisesKeeps
<1>7. CASE AssignAnswered(p) \/ AssignFails(p)
  BY <1>7, AnsweredKeeps
<1>8. QED
  BY <1>1, <1>2, <1>3, <1>4, <1>5, <1>6, <1>7 DEF Step

LEMMA NetworkKeeps == ASSUME Inv, Network PROVE Inv'
<1>1. ASSUME NEW m \in assigns, ChildTakesAssign(m[1], m[2]) PROVE Inv'
  <2>1. m \in Names \X Children
    BY DEF Inv, NetInv, NetTypes
  <2>2. <<m[1], m[2]>> \in assigns
    BY <2>1
  <2>3. QED
    BY <1>1, <2>2, ChildTakesAssignKeeps
<1>2. ASSUME NEW r \in reports, ParentTakesReport(r) PROVE Inv'
  BY <1>2, ParentTakesReportKeeps
<1>3. QED
  BY <1>1, <1>2 DEF Network

LEMMA InitInv == Init => Inv
<1> SUFFICES ASSUME Init PROVE Inv
  OBVIOUS
<1>0. DOMAIN <<>> = {}
  OBVIOUS
<1>1. /\ DOMAIN memory = {} /\ assigns = {} /\ reports = {} /\ ran = {}
      /\ answer = [s \in Subtasks |-> "none"]
      /\ \A c \in Children : backlog[c] = <<>> /\ DOMAIN backlog[c] = {} /\ run[c] = Resting
      /\ \A p \in Coroutines : proc[p] = NotStarted
  BY <1>0 DEF Init
<1>2. NotStarted.pc = "idle" /\ NotStarted.exclude = NoAgent /\ NotStarted.job = NoAgent
      /\ NotStarted \in ProcRecord
  BY DEF NotStarted, ProcRecord, Phases
<1>3. /\ \A s \in Names, c \in Children : ~Held(s, c)
      /\ \A s : ~Answered(s) /\ ~Known(s)
      /\ \A p \in Coroutines : \A s : ~Fresh(proc[p], s)
  BY <1>1, <1>2 DEF Held, Answered, Known, Fresh, Working
<1>4. MemoryOK
  BY <1>1 DEF MemoryOK
<1>5. ProcOK
  <2>1. proc \in [Coroutines -> ProcRecord]
    BY <1>2 DEF Init
  <2>2. \A p \in Coroutines : Placed(p)
    <3>1. NotStarted.todo = 0
      BY DEF NotStarted
    <3> HIDE DEF NotStarted
    <3>2. QED
      BY <1>1, <1>2, <3>1 DEF Placed, Working
  <2>3. \A p, r \in Coroutines : Apart(p, r)
    BY <1>3 DEF Apart
  <2>4. QED
    BY <2>1, <2>2, <2>3 DEF ProcOK
<1>6. FreshOK /\ HeldOK /\ Attended /\ Causes
  BY <1>3 DEF FreshOK, HeldOK, Attended, Causes
<1>7. ForwardOK
  BY <1>1, <1>2 DEF ForwardOK, Coroutines
<1>8. NetTypes
  <2>1. backlog \in [Children -> Seq(Names)]
    BY DEF Init
  <2>2. run \in [Children -> [phase : {"idle", "running", "reporting"},
                              verdict : Verdicts \union {"none"}, attempt : Nat,
                              answer : {"none", "ok", "error"}]]
    BY DEF Init, Resting
  <2>3. QED
    BY <1>1, <2>1, <2>2 DEF NetTypes
<1>9. (\A c \in Children : AtWork(c)) /\ OnItsWay /\ OneVerdict
  BY <1>1 DEF AtWork, OnItsWay, OneVerdict, Resting
<1>10. QED
  BY <1>4, <1>5, <1>6, <1>7, <1>8, <1>9 DEF Inv, ParentInv, NetInv

LEMMA NextInv == ASSUME Inv, [Next]_vars PROVE Inv'
<1>1. CASE UNCHANGED vars
  <2>1. UNCHANGED <<memory, proc, backlog, run, ran, assigns, answer, reports>>
    BY <1>1 DEF vars, parentVars, childVars, netVars
  <2>2. /\ \A s, c : Held(s, c)' <=> Held(s, c)
        /\ \A s : Answered(s)' <=> Answered(s)
    BY <2>1 DEF Held, Answered
  <2>3. ParentInv'
    BY <2>1, <2>2, ParentKeeps
  <2>4. NetInv'
    BY <2>1, <2>2 DEF Inv, NetInv, NetTypes, AtWork, OnItsWay, OneVerdict
  <2>5. QED
    BY <2>3, <2>4 DEF Inv
<1>2. ASSUME NEW j \in Jobs, Submit(j) PROVE Inv'
  BY <1>2, SubmitKeeps
<1>3. ASSUME NEW f \in Forwards, NEW j \in DOMAIN memory, NEW target \in Children \union {NoAgent},
             NEW from \in 0..Len(memory[j].subtasks), Forward(f, j, from, target)
      PROVE  Inv'
  BY <1>3, ForwardKeeps
<1>4. ASSUME NEW p \in Coroutines, Step(p) PROVE Inv'
  BY <1>4, StepKeeps
<1>5. ASSUME NEW c \in Children, Child(c) PROVE Inv'
  BY <1>5, ChildKeeps
<1>6. CASE Network
  BY <1>6, NetworkKeeps
<1>7. CASE Loss
  BY <1>7, LossKeeps
<1>8. CASE RestartParent
  BY <1>8, RestartParentKeeps
<1>9. ASSUME NEW c \in Children, RestartChild(c) PROVE Inv'
  BY <1>9, RestartChildKeeps
<1>10. QED
  BY <1>1, <1>2, <1>3, <1>4, <1>5, <1>6, <1>7, <1>8, <1>9 DEF Next

THEOREM Invariance == Spec => []Inv
<1>1. Inv /\ [Next]_vars => Inv'
  BY NextInv
<1>2. QED
  BY InitInv, <1>1, PTL DEF Spec

-----------------------------------------------------------------------------
(* The properties.                                                         *)

LEMMA SubtasksAreNames == Subtasks \subseteq Names
<1> DEFINE most == MaxSubtasks + Cardinality(Forwards)
<1>1. \A i \in 1..most : i \in Nat \ {0}
  <2> HIDE DEF most
  <2> SUFFICES ASSUME NEW i \in 1..most PROVE i \in Nat \ {0}
    OBVIOUS
  <2>1. QED
    OBVIOUS
<1>2. QED
  BY <1>1 DEF Subtasks, Names

\* Whoever touched a job last, its status is what _roll_up makes of its subtasks.
THEOREM StatusIsRollUpHolds == Spec => []StatusIsRollUp
<1>1. Inv => StatusIsRollUp
  BY DEF Inv, ParentInv, MemoryOK, RolledUp, StatusIsRollUp
<1>2. QED
  BY <1>1, Invariance, PTL

\* A subtask is sent to one child only, the one its JobMemory names.
THEOREM HeldByAssigneeHolds == Spec => []HeldByAssignee
<1>1. ASSUME Inv PROVE HeldByAssignee
  <2> SUFFICES ASSUME NEW s \in Subtasks
               PROVE  /\ Cardinality(Holders(s)) <= 1
                      /\ Known(s) => Holders(s) \subseteq {AssigneeOf(s)}
    BY DEF HeldByAssignee
  <2>1. s \in Names /\ Holders(s) = {c \in Children : Held(s, c)}
    BY SubtasksAreNames DEF Holders, Held
  <2>2. \A c, d \in Children : Held(s, c) /\ Held(s, d) => c = d
    BY <1>1, <2>1 DEF Inv, ParentInv, HeldOK
  <2>3. Known(s) => \A c \in Children : Held(s, c) => AssigneeOf(s) = c
    BY <1>1, <2>1 DEF Inv, ParentInv, HeldOK, Known
  <2>4. Cardinality(Holders(s)) <= 1
    <3>1. CASE Holders(s) = {}
      <4>1. Cardinality(Holders(s)) = 0
        BY <3>1, FS_EmptySet
      <4>2. QED
        BY <4>1
    <3>2. CASE Holders(s) # {}
      <4>1. PICK c \in Children : Holders(s) = {c}
        BY <2>1, <2>2, <3>2
      <4>2. Cardinality(Holders(s)) = 1
        BY <4>1, FS_Singleton
      <4>3. QED
        BY <4>2
    <3>3. QED
      BY <3>1, <3>2
  <2>5. QED
    BY <2>1, <2>3, <2>4
<1>2. QED
  BY <1>1, Invariance, PTL

\* No subtask is executed twice, whatever is timed out, retried or restarted.
THEOREM RunsAtMostOnceHolds == Spec => []RunsAtMostOnce
<1>1. ASSUME Inv PROVE RunsAtMostOnce
  <2>1. ASSUME NEW x \in ran, NEW y \in ran, x[1] = y[1] PROVE x = y
    <3>1. x \in Names \X Children \X Verdicts /\ y \in Names \X Children \X Verdicts
      BY <1>1 DEF Inv, NetInv, NetTypes
    <3>2. x = <<x[1], x[2], x[3]>> /\ y = <<x[1], y[2], y[3]>>
      BY <2>1, <3>1
    <3>3. Held(x[1], x[2]) /\ Held(x[1], y[2])
      BY <3>1, <3>2 DEF Held
    <3>4. x[2] = y[2]
      BY <1>1, <3>1, <3>3 DEF Inv, ParentInv, HeldOK
    <3>5. x[3] = y[3]
      BY <1>1, <3>1, <3>2, <3>4 DEF Inv, NetInv, OneVerdict
    <3>6. QED
      BY <3>2, <3>4, <3>5
  <2>2. \A c \in Children : AtWork(c)
    BY <1>1 DEF Inv, NetInv
  <2>3. QED
    BY <2>1, <2>2 DEF RunsAtMostOnce, AtWork
<1>2. QED
  BY <1>1, Invariance, PTL

\* A subtask is RUNNING only if its child accepted it, COMPLETED only if its
\* child ran it to completion.
THEOREM BeliefHasCauseHolds == Spec => []BeliefHasCause
<1>1. Inv => BeliefHasCause
  BY SubtasksAreNames DEF Inv, ParentInv, Causes, BeliefHasCause
<1>2. QED
  BY <1>1, Invariance, PTL

\* An undecided subtask has a coroutine that will decide it, unless that died.
THEOREM UndecidedIsAttendedHolds == Spec => []UndecidedIsAttended
<1>1. ASSUME Inv PROVE UndecidedIsAttended
  <2> SUFFICES ASSUME NEW s \in Subtasks, Known(s)
               PROVE  /\ StatusOf(s) = "ASSIGNED" =>
                            \E p \in Coroutines : /\ SubtaskOf(p) = s
                                                  /\ proc[p].pc \in {"assigning", "gone"}
                      /\ StatusOf(s) = "PENDING" =>
                            \E p \in Coroutines : /\ proc[p].job = s[1] /\ proc[p].pc # "returned"
                                                  /\ proc[p].sub <= s[2]
    BY DEF UndecidedIsAttended
  <2>1. s \in Names
    BY SubtasksAreNames
  <2>2. ASSUME NEW p \in Coroutines, Fresh(proc[p], s)
        PROVE  proc[p].job = s[1] /\ proc[p].pc # "returned" /\ proc[p].sub <= s[2]
    <3>1. proc[p].sub \in Nat /\ s[2] \in Nat
      BY <1>1, <2>1, ProcFacts DEF Names
    <3>2. QED
      BY <2>2, <3>1 DEF Fresh, Working
  <2>3. QED
    BY <1>1, <2>1, <2>2 DEF Inv, ParentInv, Attended
<1>2. QED
  BY <1>1, Invariance, PTL

\* A forwarded subtask never goes to the agent whose result it carries.
THEOREM ForwardAvoidsSourceHolds == Spec => []ForwardAvoidsSource
<1>1. Inv => ForwardAvoidsSource
  BY DEF Inv, ParentInv, ForwardOK, ForwardAvoidsSource
<1>2. QED
  BY <1>1, Invariance, PTL

-----------------------------------------------------------------------------
(* The types, and with them the bound on the subtasks of a job: here the   *)
(* number of forwards must be finite.                                      *)

\* The subtasks that coroutine record q may still add to its job.
Ahead(q) == IF q.pc = "planning" THEN MaxSubtasks
            ELSE IF q.pc \in Working /\ q.planned THEN q.todo ELSE 0

\* The forwards that were made of job j.
ForwardsOf(j) == {f \in Forwards : proc[f].pc # "idle" /\ proc[f].job = j}

\* A job has the subtasks of its request or plan, and one for each of its forwards.
Counted ==
    \A j \in DOMAIN memory :
        Len(memory[j].subtasks) + Ahead(proc[j]) <= MaxSubtasks + Cardinality(ForwardsOf(j))

\* The types of all but the memory and the coroutines, which Inv gives.
WireTypes ==
    /\ rr \in 0..RoundRobinCycle
    /\ assigns \subseteq Subtasks \X Children
    /\ answer \in [Subtasks -> {"none", "accepted", "busy"}]
    /\ replies \subseteq Subtasks
    /\ backlog \in [Children -> Seq(Subtasks)]
    /\ run \in [Children -> [phase : {"idle", "running", "reporting"},
                             verdict : Verdicts \union {"none"},
                             attempt : 0..ReportAttempts,
                             answer : {"none", "ok", "error"}]]
    /\ reports \subseteq ReportMessage
    /\ ran \subseteq Subtasks \X Children \X Verdicts
    /\ taken \subseteq Subtasks /\ struck \subseteq Subtasks
    /\ restarts \in 0..MaxRestarts

\* A job of the memory and its list.
LEMMA JobFacts ==
    ASSUME Inv, NEW j \in DOMAIN memory
    PROVE  /\ j \in Jobs /\ j \in Coroutines /\ RolledUp(memory[j])
           /\ Len(memory[j].subtasks) \in Nat
<1>1. j \in Jobs /\ RolledUp(memory[j])
  BY DEF Inv, ParentInv, MemoryOK
<1>2. QED
  BY <1>1, SubtasksSeq DEF Coroutines

\* How much a coroutine may add is a number.
LEMMA AheadType == ASSUME NEW q \in ProcRecord PROVE Ahead(q) \in Nat
  BY DispatchAssumption DEF Ahead, ProcRecord

\* The forwards of a job are as many as were made of it, of finitely many.
LEMMA ForwardsFinite ==
    ASSUME IsFiniteSet(Forwards), NEW j
    PROVE  /\ IsFiniteSet(ForwardsOf(j)) /\ Cardinality(ForwardsOf(j)) \in Nat
           /\ Cardinality(Forwards) \in Nat /\ Cardinality(ForwardsOf(j)) <= Cardinality(Forwards)
<1>1. ForwardsOf(j) \in SUBSET Forwards
  BY DEF ForwardsOf
<1>2. QED
  BY <1>1, FS_Subset, FS_CardinalityType

\* So the subtasks in memory are among those of the model.
LEMMA KnownAreSubtasks ==
    ASSUME IsFiniteSet(Forwards), Inv, Counted, NEW s \in Names, Known(s)
    PROVE  s \in Subtasks
<1>1. /\ s[1] \in DOMAIN memory /\ s[1] \in Coroutines
      /\ Len(memory[s[1]].subtasks) \in Nat /\ RolledUp(memory[s[1]])
  BY JobFacts DEF Known
<1>2. s[2] \in 1..Len(memory[s[1]].subtasks)
  BY <1>1, SubtasksSeq DEF Known
<1>3. Ahead(proc[s[1]]) \in Nat
  BY <1>1, ProcFacts, AheadType
<1>4. Len(memory[s[1]].subtasks) <= MaxSubtasks + Cardinality(Forwards)
  <2>1. Len(memory[s[1]].subtasks) + Ahead(proc[s[1]])
          <= MaxSubtasks + Cardinality(ForwardsOf(s[1]))
    BY <1>1 DEF Counted
  <2>2. QED
    BY <1>1, <1>3, <2>1, ForwardsFinite, DispatchAssumption
<1>5. s[2] \in 1..(MaxSubtasks + Cardinality(Forwards))
  BY <1>1, <1>2, <1>4, ForwardsFinite, DispatchAssumption
<1>6. QED
  BY <1>5 DEF Subtasks, Names

-----------------------------------------------------------------------------
(* The count.                                                              *)

\* A forward that was made stays one of its job.
LEMMA SameForwards ==
    ASSUME \A f \in Forwards : /\ proc'[f].pc # "idle" <=> proc[f].pc # "idle"
                               /\ proc[f].pc # "idle" => proc'[f].job = proc[f].job,
           NEW j
    PROVE  ForwardsOf(j)' = ForwardsOf(j)
  BY DEF ForwardsOf

\* Of job j, for which coroutine p now has record q: what it added to the list
\* it will not add any more.
Room(p, q, j, job) ==
    \/ /\ p = j /\ j \notin DOMAIN memory
       /\ Len(job.subtasks) + Ahead(q) <= MaxSubtasks
    \/ /\ p = j /\ j \in DOMAIN memory
       /\ Len(job.subtasks) + Ahead(q) <= Len(memory[j].subtasks) + Ahead(proc[p])
    \/ /\ p # j /\ j \in DOMAIN memory
       /\ Len(job.subtasks) <= Len(memory[j].subtasks)

\* Such a step keeps the count.
LEMMA CountOfOne ==
    ASSUME IsFiniteSet(Forwards), Inv, Counted, NEW p \in Coroutines, NEW q \in ProcRecord,
           NEW j \in Jobs, NEW job, Remember(j, job), proc' = [proc EXCEPT ![p] = q],
           RolledUp(job), q.pc # "idle", p \in Jobs => p = j,
           p \in Forwards => proc[p].pc # "idle" /\ q.job = proc[p].job,
           Room(p, q, j, job)
    PROVE  Counted'
<1>1. /\ DOMAIN memory' = DOMAIN memory \union {j} /\ memory'[j] = job
      /\ \A k \in DOMAIN memory : k # j => memory'[k] = memory[k]
  BY DEF Remember
<1>2. proc'[p] = q /\ \A r \in Coroutines : r # p => proc'[r] = proc[r]
  BY DEF Inv, ParentInv, ProcOK
<1>3. ASSUME NEW k PROVE ForwardsOf(k)' = ForwardsOf(k)
  BY <1>2, SameForwards DEF Coroutines
<1>4. ASSUME NEW k \in DOMAIN memory'
      PROVE  Len(memory'[k].subtasks) + Ahead(proc'[k]) <= MaxSubtasks + Cardinality(ForwardsOf(k)')
  <2>1. Cardinality(ForwardsOf(k)) \in Nat /\ MaxSubtasks \in Nat
        /\ Cardinality(ForwardsOf(k)') = Cardinality(ForwardsOf(k))
    BY <1>3, ForwardsFinite, DispatchAssumption
  <2>2. CASE k # j
    <3>1. k \in DOMAIN memory /\ memory'[k] = memory[k] /\ k \in Jobs /\ k \in Coroutines /\ k # p
      BY <1>1, <2>2, JobFacts
    <3>2. proc'[k] = proc[k]
      BY <1>2, <3>1
    <3>3. QED
      BY <2>1, <3>1, <3>2 DEF Counted
  <2>3. CASE k = j
    <3>1. j \in Coroutines /\ Len(job.subtasks) \in Nat
      BY SubtasksSeq DEF Coroutines
    <3>2. Ahead(q) \in Nat /\ Ahead(proc[j]) \in Nat
      BY <3>1, AheadType, ProcFacts
    <3>3. p # j => proc'[j] = proc[j]
      BY <1>2, <3>1
    <3>4. CASE j \notin DOMAIN memory
      <4>1. p = j /\ Len(job.subtasks) + Ahead(q) <= MaxSubtasks
        BY <3>4 DEF Room
      <4>2. QED
        BY <1>1, <1>2, <2>1, <2>3, <3>1, <3>2, <4>1
    <3>5. CASE j \in DOMAIN memory
      <4>1. Len(memory[j].subtasks) \in Nat
            /\ Len(memory[j].subtasks) + Ahead(proc[j]) <= MaxSubtasks + Cardinality(ForwardsOf(j))
        BY <3>5, JobFacts DEF Counted
      <4>2. CASE p = j
        <5>1. Len(job.subtasks) + Ahead(q) <= Len(memory[j].subtasks) + Ahead(proc[j])
          BY <3>5, <4>2 DEF Room
        <5>2. QED
          BY <1>1, <1>2, <2>1, <2>3, <3>1, <3>2, <4>1, <4>2, <5>1
      <4>3. CASE p # j
        <5>1. Len(job.subtasks) <= Len(memory[j].subtasks)
          BY <3>5, <4>3 DEF Room
        <5>2. QED
          BY <1>1, <2>1, <2>3, <3>1, <3>2, <3>3, <4>1, <4>3, <5>1
      <4>4. QED
        BY <4>2, <4>3
    <3>6. QED
      BY <3>4, <3>5
  <2>4. QED
    BY <2>2, <2>3
<1>5. QED
  BY <1>4 DEF Counted

\* A request comes with its subtasks, or leaves them to a plan.
LEMMA SubmitCounts ==
    ASSUME IsFiniteSet(Forwards), Inv, Counted, NEW j \in Jobs, Submit(j)
    PROVE  Counted'
<1>1. j \in Coroutines /\ j \notin Forwards
  BY DispatchAssumption DEF Coroutines
<1>2. proc[j] = NotStarted /\ proc[j].pc = "idle" /\ proc[j] \in ProcRecord
  BY <1>1, ProcFacts DEF Submit, SubmitSubtasks, SubmitWhole, At, Placed
<1>3. j \notin DOMAIN memory
  BY <1>2 DEF Inv, ParentInv, MemoryOK
<1>4. ASSUME NEW n \in 1..MaxSubtasks, SubmitSubtasks(j, n) PROVE Counted'
  <2> DEFINE q == [proc[j] EXCEPT !.pc = "querying", !.job = j, !.sub = 1, !.todo = n - 1]
  <2>1. n \in Nat /\ n - 1 \in Nat /\ n <= MaxSubtasks
    BY DispatchAssumption
  <2>2. q \in ProcRecord /\ q.pc = "querying" /\ q.planned = FALSE
    <3>1. "querying" \in Phases /\ j \in Jobs \union {NoAgent}
      BY DEF Phases
    <3>2. q \in ProcRecord
      BY <1>2, <2>1, <3>1 DEF ProcRecord
    <3>3. QED
      BY <1>2, <3>2 DEF ProcRecord, NotStarted
  <2>3. proc' = [proc EXCEPT ![j] = q] /\ Remember(j, Create(n))
    BY <1>4 DEF SubmitSubtasks
  <2> HIDE DEF q
  <2>4. Ahead(q) = 0
    BY <2>2 DEF Ahead
  <2>5. RolledUp(Create(n)) /\ Len(Create(n).subtasks) = n
    BY <2>1, CreateSubtasks
  <2>6. Room(j, q, j, Create(n))
    BY <1>3, <2>1, <2>4, <2>5 DEF Room
  <2>7. QED
    BY <1>1, <2>2, <2>3, <2>5, <2>6, CountOfOne
<1>5. ASSUME NEW pc \in {"planning", "local"}, SubmitWhole(j, pc) PROVE Counted'
  <2> DEFINE q == [proc[j] EXCEPT !.pc = pc, !.job = j]
  <2>1. q \in ProcRecord /\ q.pc = pc
    BY <1>2 DEF ProcRecord, Phases
  <2>2. proc' = [proc EXCEPT ![j] = q] /\ Remember(j, Create(0))
    BY <1>5 DEF SubmitWhole
  <2> HIDE DEF q
  <2>3. Ahead(q) \in {0, MaxSubtasks} /\ MaxSubtasks \in Nat
    BY <2>1, DispatchAssumption DEF Ahead, Working
  <2>4. RolledUp(Create(0)) /\ Len(Create(0).subtasks) = 0
    BY CreateSubtasks
  <2>5. Room(j, q, j, Create(0))
    BY <1>3, <2>3, <2>4 DEF Room
  <2>6. q.pc # "idle"
    BY <2>1
  <2>7. QED
    BY <1>1, <2>1, <2>2, <2>4, <2>5, <2>6, CountOfOne
<1>6. QED
  BY <1>4, <1>5 DEF Submit

\* The plan is made, or there is none.
LEMMA WholeCounts ==
    ASSUME IsFiniteSet(Forwards), Inv, Counted, NEW p \in Coroutines,
           \/ PlanFails(p) \/ LocalDone(p)
           \/ \E n \in 1..MaxSubtasks : PlanDone(p, n)
    PROVE  Counted'
<1>1. proc[p].pc \in {"planning", "local"} /\ proc[p] \in ProcRecord
  BY ProcFacts DEF PlanFails, LocalDone, PlanDone, At
<1>2. /\ p \in Jobs /\ p \notin Forwards /\ proc[p].job = p /\ p \in DOMAIN memory
      /\ RolledUp(memory[p]) /\ Len(memory[p].subtasks) \in Nat
  BY <1>1, WholeFacts
<1>3. Ahead(proc[p]) \in Nat
  BY <1>1, AheadType
<1>4. CASE PlanFails(p) \/ LocalDone(p)
  <2> DEFINE q == [proc[p] EXCEPT !.pc = "returned"]
  <2>1. q \in ProcRecord /\ q.pc = "returned"
    BY <1>1 DEF ProcRecord, Phases, Ended
  <2>2. proc' = [proc EXCEPT ![p] = q]
    BY <1>4 DEF PlanFails, LocalDone
  <2>3. PICK job \in {Fail(memory[p]), CompleteLocal(memory[p])} : Remember(p, job)
    BY <1>4, <1>2 DEF PlanFails, LocalDone
  <2>4. RolledUp(job) /\ Len(job.subtasks) = Len(memory[p].subtasks)
    BY <1>2, <2>3, OthersSubtasks
  <2> HIDE DEF q
  <2>5. Ahead(q) = 0
    BY <2>1 DEF Ahead, Working
  <2>6. Room(p, q, p, job)
    BY <1>2, <1>3, <2>4, <2>5 DEF Room
  <2>7. QED
    BY <1>2, <2>1, <2>2, <2>3, <2>4, <2>6, CountOfOne
<1>5. ASSUME NEW n \in 1..MaxSubtasks, PlanDone(p, n) PROVE Counted'
  <2> DEFINE job == AddSubtask(memory[p])
             q == [proc[p] EXCEPT !.pc = "querying", !.planned = TRUE, !.sub = Len(job.subtasks),
                                  !.todo = n - 1]
  <2>1. n \in Nat /\ n - 1 \in Nat /\ n <= MaxSubtasks /\ MaxSubtasks \in Nat
    BY DispatchAssumption
  <2>2. RolledUp(job) /\ Len(job.subtasks) = Len(memory[p].subtasks) + 1
    BY <1>2, AddSubtasks
  <2>3. q \in ProcRecord /\ q.pc = "querying" /\ q.planned = TRUE /\ q.todo = n - 1
    <3>1. "querying" \in Phases /\ Len(job.subtasks) \in Nat
      BY <1>2, <2>2 DEF Phases
    <3> HIDE DEF job
    <3>2. q \in ProcRecord
      BY <1>1, <2>1, <3>1 DEF ProcRecord
    <3>3. QED
      BY <1>1, <3>2 DEF ProcRecord
  <2>4. proc' = [proc EXCEPT ![p] = q] /\ Remember(p, job)
    BY <1>5 DEF PlanDone
  <2> HIDE DEF q, job
  <2>5. Ahead(q) = n - 1
    BY <2>3 DEF Ahead, Working
  <2>6. Ahead(proc[p]) = MaxSubtasks
    BY <1>5 DEF PlanDone, At, Ahead
  <2>7. Room(p, q, p, job)
    BY <1>2, <2>1, <2>2, <2>5, <2>6 DEF Room
  <2>8. QED
    BY <1>2, <2>2, <2>3, <2>4, <2>7, CountOfOne
<1>6. QED
  BY <1>4, <1>5

\* A dispatch that is over: the next planned subtask is one fewer to come.
LEMMA ContinueCounts ==
    ASSUME IsFiniteSet(Forwards), Inv, Counted, NEW p \in Coroutines, proc[p].pc \in Working,
           NEW status \in {"FAILED", "RUNNING"},
           Continue(p, SetStatus(JobOf(p), proc[p].sub, status))
    PROVE  Counted'
<1> DEFINE j == proc[p].job
           set == SetStatus(JobOf(p), proc[p].sub, status)
<1>1. /\ j \in Jobs /\ j \in DOMAIN memory /\ JobOf(p) = memory[j]
      /\ Len(memory[j].subtasks) \in Nat /\ (p \in Jobs => p = j)
      /\ p \in Forwards => proc[p].todo = 0
  BY WorkingFacts DEF JobOf
<1>2. RolledUp(set) /\ Len(set.subtasks) = Len(memory[j].subtasks)
  <2>1. status \in SubtaskStatus /\ proc[p].sub \in 1..Len(JobOf(p).subtasks) /\ RolledUp(JobOf(p))
    BY WorkingFacts DEF SubtaskStatus
  <2>2. QED
    BY <1>1, <2>1, SetStatusSubtasks
<1>3. /\ proc[p] \in ProcRecord /\ proc[p].todo \in Nat /\ proc[p].sub \in Nat
      /\ proc[p].planned \in BOOLEAN /\ proc \in [Coroutines -> ProcRecord]
  BY ProcFacts DEF Inv, ParentInv, ProcOK
<1>4. Continue(p, set)
  OBVIOUS
<1>5. /\ Ahead(proc[p]) = IF proc[p].planned THEN proc[p].todo ELSE 0
      /\ proc[p].pc # "idle"
  BY DEF Ahead, Working
<1>6. CASE proc[p].todo = 0
  <2> DEFINE q == [proc[p] EXCEPT !.pc = "returned"]
  <2>1. Remember(j, set) /\ proc' = [proc EXCEPT ![p] = q]
    BY <1>4, <1>6 DEF Continue
  <2>2. q \in ProcRecord /\ q.pc = "returned" /\ q.job = j
    BY <1>3 DEF ProcRecord, Phases, Ended
  <2> HIDE DEF q, set
  <2>3. Ahead(q) = 0
    BY <2>2 DEF Ahead, Working
  <2>4. Room(p, q, j, set)
    BY <1>1, <1>2, <1>3, <1>5, <1>6, <2>3 DEF Room
  <2>5. QED
    BY <1>1, <1>2, <1>5, <2>1, <2>2, <2>4, CountOfOne DEF j
<1>7. CASE proc[p].todo > 0 /\ proc[p].planned
  <2> DEFINE job == AddSubtask(set)
             q == [proc[p] EXCEPT !.pc = "querying", !.todo = proc[p].todo - 1,
                                !.sub = Len(set.subtasks) + 1]
  <2>1. Remember(j, job) /\ proc' = [proc EXCEPT ![p] = q]
    <3>1. ~(proc[p].todo = 0)
      BY <1>3, <1>7
    <3>2. /\ Remember(j, job)
          /\ proc' = [proc EXCEPT ![p].pc = "querying", ![p].todo = @ - 1,
                                   ![p].sub = Len(set.subtasks) + 1]
      BY <1>4, <1>7, <3>1, Zenon DEF Continue
    <3>3. QED
      BY <1>3, <3>2 DEF ProcRecord
  <2>2. /\ q \in ProcRecord /\ q.pc = "querying" /\ q.planned /\ q.todo = proc[p].todo - 1
        /\ q.job = j
    <3>1. "querying" \in Phases /\ Len(set.subtasks) + 1 \in Nat /\ proc[p].todo - 1 \in Nat
      BY <1>1, <1>2, <1>3, <1>7 DEF Phases
    <3>2. QED
      BY <1>3, <1>7, <3>1 DEF ProcRecord
  <2>3. RolledUp(job) /\ Len(job.subtasks) = Len(set.subtasks) + 1
    BY <1>2, AddSubtasks
  <2> HIDE DEF q, set, job
  <2>4. Ahead(q) = proc[p].todo - 1
    BY <2>2 DEF Ahead, Working
  <2>5. p \notin Forwards /\ p = j
    BY <1>1, <1>7 DEF Coroutines
  <2>6. Room(p, q, j, job)
    BY <1>1, <1>2, <1>3, <1>5, <1>7, <2>3, <2>4, <2>5 DEF Room
  <2>7. QED
    BY <1>1, <2>1, <2>2, <2>3, <2>5, <2>6, CountOfOne
<1>8. CASE proc[p].todo > 0 /\ ~proc[p].planned
  <2> DEFINE q == [proc[p] EXCEPT !.pc = "querying", !.todo = proc[p].todo - 1,
                                !.sub = proc[p].sub + 1]
  <2>1. Remember(j, set) /\ proc' = [proc EXCEPT ![p] = q]
    <3>1. ~(proc[p].todo = 0)
      BY <1>3, <1>8
    <3>2. /\ Remember(j, set)
          /\ proc' = [proc EXCEPT ![p].pc = "querying", ![p].todo = @ - 1, ![p].sub = @ + 1]
      BY <1>4, <1>8, <3>1, Zenon DEF Continue
    <3>3. QED
      BY <1>3, <3>2 DEF ProcRecord
  <2>2. q \in ProcRecord /\ q.pc = "querying" /\ ~q.planned /\ q.job = j
    <3>1. "querying" \in Phases /\ proc[p].sub + 1 \in Nat /\ proc[p].todo - 1 \in Nat
      BY <1>3, <1>8 DEF Phases
    <3>2. QED
      BY <1>3, <1>8, <3>1 DEF ProcRecord
  <2> HIDE DEF q, set
  <2>3. Ahead(q) = 0
    BY <2>2 DEF Ahead, Working
  <2>4. Room(p, q, j, set)
    BY <1>1, <1>2, <1>3, <1>5, <1>8, <2>3 DEF Room
  <2>5. QED
    BY <1>1, <1>2, <1>5, <2>1, <2>2, <2>4, CountOfOne
<1>9. QED
  BY <1>3, <1>6, <1>7, <1>8

\* A forward adds one subtask, and is one more.
LEMMA ForwardCounts ==
    ASSUME IsFiniteSet(Forwards), Inv, Counted, NEW f \in Forwards, NEW j \in DOMAIN memory,
           NEW target \in Children \union {NoAgent},
           NEW from \in 0..Len(memory[j].subtasks), Forward(f, j, from, target)
    PROVE  Counted'
<1> DEFINE added == AddSubtask(memory[j])
           broken == SetStatus(added, Len(added.subtasks), "FAILED")
<1>1. /\ f \in Coroutines /\ f \notin Jobs /\ j \in Jobs /\ j \in Coroutines
      /\ RolledUp(memory[j]) /\ Len(memory[j].subtasks) \in Nat
  BY JobFacts, DispatchAssumption DEF Coroutines
<1>2. RolledUp(added) /\ Len(added.subtasks) = Len(memory[j].subtasks) + 1
  BY <1>1, AddSubtasks
<1>3. Len(broken.subtasks) = Len(added.subtasks)
  <2>1. Len(added.subtasks) \in 1..Len(added.subtasks) /\ "FAILED" \in SubtaskStatus
    BY <1>1, <1>2 DEF SubtaskStatus
  <2> HIDE DEF added
  <2>2. QED
    BY <1>2, <2>1, SetStatusSubtasks
<1>4. PICK job \in {added, broken} : Remember(j, job)
  BY DEF Forward
<1>5. Len(job.subtasks) = Len(memory[j].subtasks) + 1
  BY <1>2, <1>3, <1>4
<1> HIDE DEF added, broken
<1>6. /\ DOMAIN memory' = DOMAIN memory /\ memory'[j] = job
      /\ \A k \in DOMAIN memory : k # j => memory'[k] = memory[k]
  BY <1>4 DEF Remember
<1>7. /\ proc[f].pc = "idle" /\ proc'[f].pc # "idle" /\ proc'[f].job = j
      /\ \A r \in Coroutines : r # f => proc'[r] = proc[r]
  <2>1. proc \in [Coroutines -> ProcRecord] /\ proc[f] \in ProcRecord
    BY <1>1, ProcFacts DEF Inv, ParentInv, ProcOK
  <2>2. proc[f].pc = "idle"
    BY DEF Forward, At
  <2> DEFINE exclude == IF from = 0 THEN NoAgent ELSE memory[j].subtasks[from].assignee
             refused == target # NoAgent /\ target = exclude
             q == [proc[f] EXCEPT !.pc = IF refused THEN "returned" ELSE "querying", !.job = j,
                                  !.sub = Len(AddSubtask(memory[j]).subtasks),
                                  !.exclude = exclude, !.target = target]
  <2>3. proc' = [proc EXCEPT ![f] = q]
    BY DEF Forward
  <2>4. q.pc # "idle" /\ q.job = j
    BY <2>1 DEF ProcRecord
  <2> HIDE DEF q
  <2>5. proc'[f] = q
    BY <1>1, <2>1, <2>3
  <2>6. \A r \in Coroutines : r # f => proc'[r] = proc[r]
    BY <2>1, <2>3
  <2>7. QED
    BY <2>2, <2>4, <2>5, <2>6
<1>8. ForwardsOf(j)' = ForwardsOf(j) \union {f} /\ f \notin ForwardsOf(j)
  BY <1>7 DEF ForwardsOf, Coroutines
<1>9. ASSUME NEW k \in DOMAIN memory, k # j PROVE ForwardsOf(k)' = ForwardsOf(k)
  BY <1>7, <1>9 DEF ForwardsOf, Coroutines
<1>10. ASSUME NEW k \in DOMAIN memory
       PROVE  Len(memory'[k].subtasks) + Ahead(proc'[k])
                <= MaxSubtasks + Cardinality(ForwardsOf(k)')
  <2>1. /\ k \in Coroutines /\ k # f /\ Len(memory[k].subtasks) \in Nat
        /\ Ahead(proc[k]) \in Nat /\ proc'[k] = proc[k]
    BY <1>1, <1>7, JobFacts, ProcFacts, AheadType
  <2>2. Len(memory[k].subtasks) + Ahead(proc[k]) <= MaxSubtasks + Cardinality(ForwardsOf(k))
    BY DEF Counted
  <2>3. MaxSubtasks \in Nat /\ Cardinality(ForwardsOf(k)) \in Nat /\ IsFiniteSet(ForwardsOf(k))
    BY ForwardsFinite, DispatchAssumption
  <2>4. CASE k = j
    <3>1. Cardinality(ForwardsOf(k)') = Cardinality(ForwardsOf(k)) + 1
      BY <1>8, <2>3, <2>4, FS_AddElement
    <3>2. Len(memory'[k].subtasks) = Len(memory[k].subtasks) + 1
      BY <1>5, <1>6, <2>4
    <3>3. QED
      BY <2>1, <2>2, <2>3, <3>1, <3>2
  <2>5. CASE k # j
    <3>1. Cardinality(ForwardsOf(k)') = Cardinality(ForwardsOf(k)) /\ memory'[k] = memory[k]
      BY <1>6, <1>9, <2>5
    <3>2. QED
      BY <2>1, <2>2, <3>1
  <2>6. QED
    BY <2>4, <2>5
<1>11. QED
  BY <1>6, <1>10 DEF Counted

\* A record that is changed in its place leaves the list as long as it was.
LEMMA UpdateLength ==
    ASSUME NEW job, RolledUp(job), NEW i \in 1..Len(job.subtasks), NEW status \in SubtaskStatus,
           NEW assignee \in Children \union {NoAgent}
    PROVE  /\ RolledUp(UpdateSubtask(job, i, status, assignee))
           /\ Len(UpdateSubtask(job, i, status, assignee).subtasks) = Len(job.subtasks)
<1>1. RolledUp(UpdateSubtask(job, i, status, assignee))
  BY SubtasksSeq, UpdateIsRolledUp
<1>2. UpdateSubtask(job, i, status, assignee).subtasks
        = [job.subtasks EXCEPT ![i] = [status |-> status, assignee |-> assignee]]
  BY SubtasksSeq DEF UpdateSubtask, Rolled, JobRecord
<1>3. QED
  BY <1>1, <1>2, SubtasksSeq

\* The target of a subtask is chosen.
LEMMA AssignToCounts ==
    ASSUME IsFiniteSet(Forwards), Inv, Counted, NEW p \in Coroutines, proc[p].pc = "querying",
           NEW c \in Children, AssignTo(p, c)
    PROVE  Counted'
<1> DEFINE j   == proc[p].job
           i   == proc[p].sub
           job == UpdateSubtask(JobOf(p), i, "ASSIGNED", c)
           q   == [proc[p] EXCEPT !.pc = "assigning"]
<1>1. /\ j \in Jobs /\ j \in DOMAIN memory /\ JobOf(p) = memory[j]
      /\ Len(memory[j].subtasks) \in Nat /\ (p \in Jobs => p = j)
  BY WorkingFacts DEF JobOf, Working
<1>2. RolledUp(job) /\ Len(job.subtasks) = Len(memory[j].subtasks)
  <2>1. /\ "ASSIGNED" \in SubtaskStatus /\ c \in Children \union {NoAgent}
        /\ i \in 1..Len(JobOf(p).subtasks) /\ RolledUp(JobOf(p))
    BY WorkingFacts DEF SubtaskStatus, Working
  <2>2. RolledUp(job) /\ Len(job.subtasks) = Len(JobOf(p).subtasks)
    <3> HIDE DEF i
    <3>1. QED
      BY <2>1, UpdateLength
  <2>3. QED
    BY <1>1, <2>2
<1>3. Remember(j, job) /\ proc' = [proc EXCEPT ![p] = q]
  BY DEF AssignTo
<1>4. /\ q \in ProcRecord /\ q.pc = "assigning" /\ q.job = j /\ q.planned = proc[p].planned
      /\ q.todo = proc[p].todo
  <2>1. proc[p] \in ProcRecord /\ "assigning" \in Phases
    BY ProcFacts DEF Phases
  <2>2. QED
    BY <2>1 DEF ProcRecord
<1>5. Ahead(proc[p]) \in Nat
  BY ProcFacts, AheadType
<1> HIDE DEF q, job
<1>6. Ahead(q) = Ahead(proc[p])
  BY <1>4 DEF Ahead, Working
<1>7. Room(p, q, j, job)
  BY <1>1, <1>2, <1>5, <1>6 DEF Room
<1>8. QED
  BY <1>1, <1>2, <1>3, <1>4, <1>7, CountOfOne

\* A result changes a record in its place.
LEMMA ResultCounts ==
    ASSUME IsFiniteSet(Forwards), Inv, Counted, NEW r \in reports, ParentTakesReport(r)
    PROVE  Counted'
<1> DEFINE j == r.subtask[1]
           i == r.subtask[2]
           v == r.verdict
           c == r.child
           job == UpdateSubtask(memory[j], i, v, c)
<1>1. proc' = proc
  BY DEF ParentTakesReport
<1>2. /\ r.subtask \in Names /\ r.child \in Children /\ r.verdict \in Verdicts
      /\ <<r.subtask, r.child, r.verdict>> \in ran
  BY DEF Inv, NetInv, NetTypes, OneVerdict
<1>3. ASSUME j \in DOMAIN memory
      PROVE  /\ DOMAIN memory' = DOMAIN memory
             /\ \A k \in DOMAIN memory : Len(memory'[k].subtasks) = Len(memory[k].subtasks)
  <2>1. Held(r.subtask, r.child)
    BY <1>2 DEF Held
  <2>2. i \in DOMAIN memory[j].subtasks
    BY <1>2, <1>3, <2>1 DEF Inv, ParentInv, HeldOK
  <2>3. RolledUp(memory[j])
    BY <1>3, JobFacts
  <2>4. i \in 1..Len(memory[j].subtasks) /\ v \in SubtaskStatus
        /\ c \in Children \union {NoAgent}
    BY <1>2, <2>2, <2>3, SubtasksSeq DEF Verdicts, SubtaskStatus
  <2>5. Len(job.subtasks) = Len(memory[j].subtasks)
    <3> HIDE DEF i, j, v, c
    <3>1. QED
      BY <2>3, <2>4, UpdateLength
  <2>6. Remember(j, job)
    BY <1>3 DEF ParentTakesReport
  <2> HIDE DEF job, i, j, v, c
  <2>7. QED
    BY <1>3, <2>5, <2>6 DEF Remember
<1>4. ASSUME j \notin DOMAIN memory PROVE memory' = memory
  BY <1>4 DEF ParentTakesReport
<1>5. \A k : ForwardsOf(k)' = ForwardsOf(k)
  BY <1>1 DEF ForwardsOf
<1>6. /\ DOMAIN memory' = DOMAIN memory
      /\ \A k \in DOMAIN memory : Len(memory'[k].subtasks) = Len(memory[k].subtasks)
  BY <1>3, <1>4
<1>7. QED
  BY <1>1, <1>5, <1>6 DEF Counted

\* Coroutines that raise or die add nothing.
LEMMA DeathsCount ==
    ASSUME IsFiniteSet(Forwards), Inv, Counted, memory' = memory \/ memory' = <<>>,
           \A p \in Coroutines : \/ proc'[p] = proc[p]
                                 \/ /\ proc[p].pc # "idle" /\ proc'[p].pc \in {"raised", "gone"}
                                    /\ proc'[p].job = proc[p].job
    PROVE  Counted'
<1>0. DOMAIN <<>> = {}
  OBVIOUS
<1>1. ASSUME NEW k PROVE ForwardsOf(k)' = ForwardsOf(k)
  BY SameForwards DEF Coroutines
<1>2. CASE memory' = <<>>
  BY <1>0, <1>2 DEF Counted
<1>3. CASE memory' = memory
  <2> SUFFICES ASSUME NEW k \in DOMAIN memory
               PROVE  Len(memory[k].subtasks) + Ahead(proc'[k])
                        <= MaxSubtasks + Cardinality(ForwardsOf(k))
    BY <1>1, <1>3 DEF Counted
  <2>1. k \in Coroutines /\ Len(memory[k].subtasks) \in Nat /\ Ahead(proc[k]) \in Nat
    BY JobFacts, ProcFacts, AheadType
  <2>2. Len(memory[k].subtasks) + Ahead(proc[k]) <= MaxSubtasks + Cardinality(ForwardsOf(k))
    BY DEF Counted
  <2>3. Ahead(proc'[k]) = Ahead(proc[k]) \/ Ahead(proc'[k]) = 0
    BY <2>1 DEF Ahead, Working
  <2>4. MaxSubtasks \in Nat /\ Cardinality(ForwardsOf(k)) \in Nat
    BY ForwardsFinite, DispatchAssumption
  <2>5. QED
    BY <2>1, <2>2, <2>3, <2>4
<1>4. QED
  BY <1>2, <1>3

\* The steps of a coroutine.
LEMMA StepCounts ==
    ASSUME IsFiniteSet(Forwards), Inv, Counted, NEW p \in Coroutines, Step(p)
    PROVE  Counted'
<1>1. CASE \/ PlanFails(p) \/ LocalDone(p)
           \/ \E n \in 1..MaxSubtasks : PlanDone(p, n)
  BY <1>1, WholeCounts
<1>2. ASSUME proc[p].pc \in Working, DispatchFails(p) PROVE Counted'
  BY <1>2, ContinueCounts DEF DispatchFails
<1>3. ASSUME NEW listed \in SUBSET Children, CatalogAnswers(p, listed) PROVE Counted'
  <2>1. proc[p].pc = "querying" /\ proc[p].pc \in Working
    BY <1>3 DEF CatalogAnswers, At, Working
  <2>2. DispatchFails(p) \/ \E c \in Children : AssignTo(p, c)
    BY <1>3 DEF CatalogAnswers, Picked
  <2>3. QED
    BY <1>2, <2>1, <2>2, AssignToCounts
<1>4. ASSUME NEW usable \in BOOLEAN, TargetAnswers(p, usable) PROVE Counted'
  <2>1. proc[p].pc = "querying" /\ proc[p].pc \in Working /\ proc[p].target # NoAgent
    BY <1>4 DEF TargetAnswers, At, Working
  <2>2. proc[p].target \in Children
    BY <2>1, ProcFacts
  <2>3. DispatchFails(p) \/ AssignTo(p, proc[p].target)
    BY <1>4 DEF TargetAnswers
  <2>4. QED
    BY <1>2, <2>1, <2>2, <2>3, AssignToCounts
<1>5. CASE AssignAnswered(p) \/ AssignFails(p)
  <2>1. proc[p].pc \in Working
    BY <1>5 DEF AssignAnswered, AssignFails, At, Working
  <2>2. DispatchFails(p) \/ Continue(p, SetStatus(JobOf(p), proc[p].sub, "RUNNING"))
    BY <1>5 DEF AssignAnswered, AssignFails
  <2>3. QED
    BY <1>2, <2>1, <2>2, ContinueCounts
<1>6. CASE Raises(p)
  <2>1. proc[p] \in ProcRecord /\ proc \in [Coroutines -> ProcRecord]
    BY ProcFacts DEF Inv, ParentInv, ProcOK
  <2>2. /\ proc[p].pc # "idle" /\ proc'[p].pc = "raised" /\ proc'[p].job = proc[p].job
        /\ \A r \in Coroutines : r # p => proc'[r] = proc[r]
        /\ memory' = memory
    BY <1>6, <2>1 DEF Raises, ProcRecord
  <2>3. QED
    BY <2>2, DeathsCount
<1>7. QED
  BY <1>1, <1>3, <1>4, <1>5, <1>6 DEF Step

\* Every step keeps the count.
LEMMA NextCounts ==
    ASSUME IsFiniteSet(Forwards), Inv, Counted, [Next]_vars
    PROVE  Counted'
<1>1. CASE UNCHANGED parentVars
  BY <1>1, DeathsCount DEF parentVars
<1>2. ASSUME NEW j \in Jobs, Submit(j) PROVE Counted'
  BY <1>2, SubmitCounts
<1>3. ASSUME NEW f \in Forwards, NEW j \in DOMAIN memory, NEW target \in Children \union {NoAgent},
             NEW from \in 0..Len(memory[j].subtasks), Forward(f, j, from, target)
      PROVE  Counted'
  BY <1>3, ForwardCounts
<1>4. ASSUME NEW p \in Coroutines, Step(p) PROVE Counted'
  BY <1>4, StepCounts
<1>5. ASSUME NEW r \in reports, ParentTakesReport(r) PROVE Counted'
  BY <1>5, ResultCounts
<1>6. CASE RestartParent
  <2>1. proc' = [p \in Coroutines |-> IF proc[p].pc \in {"idle"} \union Ended THEN proc[p]
                                      ELSE [proc[p] EXCEPT !.pc = "gone"]]
        /\ memory' \in {memory, <<>>}
    BY <1>6 DEF RestartParent
  <2>2. ASSUME NEW p \in Coroutines
        PROVE  \/ proc'[p] = proc[p]
               \/ /\ proc[p].pc # "idle" /\ proc'[p].pc \in {"raised", "gone"}
                  /\ proc'[p].job = proc[p].job
    BY <2>1, ProcFacts DEF ProcRecord
  <2>3. QED
    BY <2>1, <2>2, DeathsCount
<1>7. CASE \/ \E c \in Children : Child(c) \/ RestartChild(c)
           \/ \E m \in assigns : ChildTakesAssign(m[1], m[2])
           \/ Loss
  BY <1>1, <1>7 DEF Child, ChildRuns, ReportAnswered, ReportFails, RestartChild,
       ChildTakesAssign, Loss, LoseAssign, LoseReport
<1>8. QED
  BY <1>1, <1>2, <1>3, <1>4, <1>5, <1>6, <1>7 DEF Next, Network, vars

-----------------------------------------------------------------------------
(* The types of the wire and of the children.                              *)

\* The record of one child's runner.
RunType == [phase : {"idle", "running", "reporting"}, verdict : Verdicts \union {"none"},
            attempt : 0..ReportAttempts, answer : {"none", "ok", "error"}]

\* What a coroutine at work dispatches is a subtask of the model.
LEMMA SubtaskOfType ==
    ASSUME IsFiniteSet(Forwards), Inv, Counted, NEW p \in Coroutines, proc[p].pc \in Working
    PROVE  SubtaskOf(p) \in Subtasks
  BY WorkingFacts, KnownAreSubtasks

\* A step of a coroutine puts at most its own subtask on the wire.
LEMMA StepTypes ==
    ASSUME IsFiniteSet(Forwards), Inv, Counted, WireTypes, NEW p \in Coroutines, Step(p)
    PROVE  WireTypes'
<1>1. /\ UNCHANGED <<answer, reports, backlog, run, ran, taken, struck, restarts>>
      /\ replies' \subseteq replies
  BY DEF Step, PlanFails, PlanDone, LocalDone, Raises, CatalogAnswers, TargetAnswers,
         AssignTo, AssignAnswered, AssignFails, childVars, netVars, ends
<1>2. assigns' \subseteq Subtasks \X Children
  <2>1. CASE \E listed \in SUBSET Children : CatalogAnswers(p, listed)
    <3>1. proc[p].pc \in Working
      BY <2>1 DEF CatalogAnswers, At, Working
    <3>2. assigns' = assigns \/ \E c \in Children : assigns' = assigns \union {<<SubtaskOf(p), c>>}
      BY <2>1 DEF CatalogAnswers, Picked, AssignTo, netVars
    <3>3. QED
      BY <3>1, <3>2, SubtaskOfType DEF WireTypes
  <2>2. CASE \E usable \in BOOLEAN : TargetAnswers(p, usable)
    <3>1. proc[p].pc \in Working /\ proc[p].target \in Children
      BY <2>2, ProcFacts DEF TargetAnswers, At, Working
    <3>2. assigns' = assigns \/ assigns' = assigns \union {<<SubtaskOf(p), proc[p].target>>}
      BY <2>2 DEF TargetAnswers, AssignTo, netVars
    <3>3. QED
      BY <3>1, <3>2, SubtaskOfType DEF WireTypes
  <2>3. CASE \/ PlanFails(p) \/ (\E n \in 1..MaxSubtasks : PlanDone(p, n))
             \/ LocalDone(p) \/ Raises(p) \/ AssignAnswered(p) \/ AssignFails(p)
    BY <2>3 DEF PlanFails, PlanDone, LocalDone, Raises, AssignAnswered, AssignFails, netVars,
         WireTypes
  <2>4. QED
    BY <2>1, <2>2, <2>3 DEF Step
<1>3. rr' \in 0..RoundRobinCycle
  <2>1. rr' = rr \/ rr' = (rr + 1) % RoundRobinCycle
    BY DEF Step, PlanFails, PlanDone, LocalDone, Raises, CatalogAnswers, TargetAnswers,
           AssignAnswered, AssignFails
  <2>2. rr \in Nat /\ rr <= RoundRobinCycle /\ RoundRobinCycle \in Nat /\ RoundRobinCycle > 0
    BY DispatchAssumption DEF WireTypes
  <2>3. QED
    BY <2>1, <2>2
<1>4. QED
  BY <1>1, <1>2, <1>3 DEF WireTypes

\* An assignment arrives.
LEMMA TakesAssignTypes ==
    ASSUME WireTypes, NEW m \in assigns, ChildTakesAssign(m[1], m[2])
    PROVE  WireTypes'
<1> DEFINE s == m[1]
           c == m[2]
<1>1. s \in Subtasks /\ c \in Children
  BY DEF WireTypes
<1>2. Starting \in RunType
  BY DispatchAssumption DEF Starting, Resting, RunType
<1>3. ChildTakesAssign(s, c)
  OBVIOUS
<1>4. WireTypes /\ run \in [Children -> RunType]
  BY DEF WireTypes, RunType
<1> HIDE DEF s, c
<1>5. /\ assigns' \subseteq Subtasks \X Children /\ replies' \subseteq Subtasks
      /\ answer' \in [Subtasks -> {"none", "accepted", "busy"}]
  BY <1>1, <1>3, <1>4 DEF ChildTakesAssign, WireTypes
<1>6. backlog' \in [Children -> Seq(Subtasks)]
  <2>1. Append(backlog[c], s) \in Seq(Subtasks)
    BY <1>1, <1>4 DEF WireTypes
  <2>2. backlog' \in {backlog, [backlog EXCEPT ![c] = Append(backlog[c], s)]}
    BY <1>3 DEF ChildTakesAssign
  <2>3. QED
    BY <1>4, <2>1, <2>2 DEF WireTypes
<1>7. run' \in [Children -> RunType]
  <2>1. run' \in {run, [run EXCEPT ![c] = Starting]}
    BY <1>3 DEF ChildTakesAssign
  <2>2. QED
    BY <1>2, <1>4, <2>1
<1>8. UNCHANGED <<rr, ran, reports, taken, struck, restarts>>
  BY <1>3 DEF ChildTakesAssign, parentVars, ends
<1>9. QED
  BY <1>4, <1>5, <1>6, <1>7, <1>8 DEF WireTypes, RunType

\* A report arrives.
LEMMA TakesReportTypes ==
    ASSUME WireTypes, NEW r \in reports, ParentTakesReport(r)
    PROVE  WireTypes'
<1>1. r.subtask \in Subtasks /\ r.child \in Children /\ run \in [Children -> RunType]
  BY DEF WireTypes, ReportMessage, RunType
<1>2. reports' \subseteq reports /\ taken' \subseteq Subtasks
  BY <1>1 DEF ParentTakesReport, WireTypes
<1>3. run' \in [Children -> RunType]
  <2>1. PICK a \in {"ok", "error", run[r.child].answer} :
           run' = [run EXCEPT ![r.child].answer = a]
    BY DEF ParentTakesReport
  <2>2. [run[r.child] EXCEPT !.answer = a] \in RunType
    BY <1>1, <2>1 DEF RunType
  <2>3. QED
    BY <1>1, <2>1, <2>2
<1>4. UNCHANGED <<rr, backlog, ran, assigns, answer, replies, struck, restarts>>
  BY DEF ParentTakesReport
<1>5. QED
  BY <1>2, <1>3, <1>4 DEF WireTypes, RunType

\* A child runs the head of its backlog, reports it and drops it.
LEMMA ChildTypes ==
    ASSUME Inv, WireTypes, NEW c \in Children, Child(c)
    PROVE  WireTypes'
<1> DEFINE head == Head(backlog[c])
<1>1. run[c].phase # "idle"
  BY DEF Child, ChildRuns, ReportAnswered, ReportFails, Inv, NetInv, AtWork
<1>2. /\ backlog[c] \in Seq(Subtasks) /\ backlog[c] # <<>> /\ run \in [Children -> RunType]
      /\ run[c].phase = "reporting" => run[c].verdict \in Verdicts
  BY <1>1 DEF WireTypes, RunType, Inv, NetInv, AtWork
<1>3. head \in Subtasks /\ Tail(backlog[c]) \in Seq(Subtasks)
  BY <1>2
<1>4. ReportAttempts \in Nat /\ ReportAttempts >= 1
  BY DispatchAssumption
<1>5. ASSUME NEW v \in Verdicts, NEW a \in 1..ReportAttempts
      PROVE  Report(c, v, a) \in ReportMessage
  BY <1>3 DEF Report, ReportMessage
<1>6. /\ UNCHANGED <<rr, assigns, answer, replies, taken, struck, restarts>>
  BY DEF Child, ChildRuns, ReportAnswered, ReportFails, parentVars, netVars, ends
<1>7. ASSUME NEW v \in Verdicts, ChildRuns(c, v)
      PROVE  WireTypes'
  <2>1. [phase |-> "reporting", verdict |-> v, attempt |-> 1, answer |-> "none"] \in RunType
    BY <1>4 DEF RunType
  <2>2. run' \in [Children -> RunType]
    BY <1>2, <1>7, <2>1 DEF ChildRuns
  <2>3. reports' \subseteq ReportMessage
    <3>1. Report(c, v, 1) \in ReportMessage
      BY <1>4, <1>5
    <3>2. QED
      BY <1>7, <3>1 DEF ChildRuns, WireTypes
  <2>4. ran' \subseteq Subtasks \X Children \X Verdicts
    BY <1>3, <1>7 DEF ChildRuns, WireTypes
  <2>5. backlog' = backlog
    BY <1>7 DEF ChildRuns
  <2>6. QED
    BY <1>6, <2>2, <2>3, <2>4, <2>5 DEF WireTypes, RunType
<1>8. ASSUME Release(c), UNCHANGED <<ran, reports>> PROVE WireTypes'
  <2>1. backlog' = [backlog EXCEPT ![c] = Tail(backlog[c])]
        /\ run' \in {[run EXCEPT ![c] = Starting], [run EXCEPT ![c] = Resting]}
    BY <1>8 DEF Release
  <2>2. Starting \in RunType /\ Resting \in RunType
    BY <1>4 DEF Starting, Resting, RunType
  <2>3. run' \in [Children -> RunType]
    BY <1>2, <2>1, <2>2
  <2>4. backlog' \in [Children -> Seq(Subtasks)]
    BY <1>3, <2>1 DEF WireTypes
  <2>5. QED
    BY <1>6, <1>8, <2>3, <2>4 DEF WireTypes, RunType
<1>9. ASSUME run[c].phase = "reporting", run[c].attempt < ReportAttempts,
             run' = [run EXCEPT ![c].attempt = @ + 1, ![c].answer = "none"],
             reports' = reports \union {Report(c, run[c].verdict, run[c].attempt + 1)},
             UNCHANGED <<backlog, ran>>
      PROVE  WireTypes'
  <2>1. run[c] \in RunType /\ run[c].attempt \in Nat /\ run[c].attempt + 1 \in 1..ReportAttempts
    BY <1>2, <1>4, <1>9 DEF RunType
  <2>2. [run[c] EXCEPT !.attempt = run[c].attempt + 1, !.answer = "none"] \in RunType
    <3>1. run[c].attempt + 1 \in 0..ReportAttempts /\ "none" \in {"none", "ok", "error"}
      BY <2>1
    <3>2. QED
      BY <2>1, <3>1 DEF RunType
  <2>3. run' = [run EXCEPT ![c] = [run[c] EXCEPT !.attempt = run[c].attempt + 1, !.answer = "none"]]
    BY <1>2, <1>9, <2>1 DEF RunType
  <2>4. run' \in [Children -> RunType]
    BY <1>2, <2>2, <2>3
  <2>5. Report(c, run[c].verdict, run[c].attempt + 1) \in ReportMessage
    BY <1>2, <1>5, <1>9, <2>1
  <2>6. reports' \subseteq ReportMessage
    BY <1>9, <2>5 DEF WireTypes
  <2>7. QED
    BY <1>6, <1>9, <2>4, <2>6 DEF WireTypes, RunType
<1>10. CASE ReportAnswered(c)
  BY <1>8, <1>10 DEF ReportAnswered, netVars
<1>11. CASE ReportFails(c)
  BY <1>8, <1>9, <1>11 DEF ReportFails
<1>12. QED
  BY <1>7, <1>10, <1>11 DEF Child

\* What is lost, and who is killed.
LEMMA LossTypes ==
    ASSUME WireTypes, Loss \/ RestartParent \/ \E c \in Children : RestartChild(c)
    PROVE  WireTypes'
<1>1. CASE Loss
  <2>1. /\ assigns' \subseteq assigns /\ reports' \subseteq reports
        /\ UNCHANGED <<rr, answer, replies, backlog, run, ran, taken, restarts>>
        /\ struck' = struck \/ \E r \in reports : struck' = struck \union {r.subtask}
    BY <1>1 DEF Loss, LoseAssign, LoseReport, parentVars, childVars, ends
  <2>2. struck' \subseteq Subtasks
    BY <2>1 DEF WireTypes, ReportMessage
  <2>3. QED
    BY <2>1, <2>2 DEF WireTypes
<1>2. ASSUME restarts < MaxRestarts, restarts' = restarts + 1 PROVE restarts' \in 0..MaxRestarts
  BY <1>2, DispatchAssumption DEF WireTypes
<1>3. CASE RestartParent
  <2>1. /\ rr' = 0 /\ replies' = {} /\ struck' \subseteq struck \union Subtasks
        /\ UNCHANGED <<backlog, run, ran, assigns, answer, reports, taken>>
        /\ restarts' \in 0..MaxRestarts
    BY <1>2, <1>3 DEF RestartParent, childVars
  <2>2. 0 \in 0..RoundRobinCycle
    BY DispatchAssumption
  <2>3. QED
    BY <2>1, <2>2 DEF WireTypes
<1>4. ASSUME NEW c \in Children, RestartChild(c) PROVE WireTypes'
  <2>1. Resting \in RunType /\ run \in [Children -> RunType]
    BY DispatchAssumption DEF Resting, RunType, WireTypes
  <2>2. run' \in [Children -> RunType] /\ backlog' \in [Children -> Seq(Subtasks)]
    BY <1>4, <2>1 DEF RestartChild, WireTypes
  <2>3. Range(backlog[c]) \subseteq Subtasks
    BY DEF Range, WireTypes
  <2>4. /\ struck' = struck \union Range(backlog[c]) /\ restarts' \in 0..MaxRestarts
        /\ UNCHANGED <<rr, ran, assigns, answer, replies, reports, taken>>
    BY <1>2, <1>4 DEF RestartChild, parentVars, netVars
  <2>5. QED
    BY <2>2, <2>3, <2>4 DEF WireTypes, RunType
<1>5. QED
  BY <1>1, <1>3, <1>4

\* Every step keeps the types.
LEMMA NextTypes ==
    ASSUME IsFiniteSet(Forwards), Inv, Counted, WireTypes, [Next]_vars
    PROVE  WireTypes'
<1>1. CASE \/ \E j \in Jobs : Submit(j)
           \/ \E f \in Forwards, j \in DOMAIN memory, target \in Children \union {NoAgent} :
                 \E from \in 0..Len(memory[j].subtasks) : Forward(f, j, from, target)
           \/ UNCHANGED vars
  <2>1. UNCHANGED <<rr, childVars, netVars, ends, restarts>>
    BY <1>1 DEF Submit, SubmitSubtasks, SubmitWhole, Forward, vars, parentVars
  <2>2. QED
    BY <2>1 DEF WireTypes, childVars, netVars, ends
<1>2. CASE \E p \in Coroutines : Step(p)
  BY <1>2, StepTypes
<1>3. CASE \E c \in Children : Child(c)
  BY <1>3, ChildTypes
<1>4. CASE Network
  BY <1>4, TakesAssignTypes, TakesReportTypes DEF Network
<1>5. CASE Loss \/ RestartParent \/ \E c \in Children : RestartChild(c)
  BY <1>5, LossTypes
<1>6. QED
  BY <1>1, <1>2, <1>3, <1>4, <1>5 DEF Next

\* With finitely many forwards every variable stays within the model's bounds: a
\* parent has the subtasks of its jobs and one for each forward, and no message,
\* mailbox or record is about any other.
THEOREM TypeCorrect == IsFiniteSet(Forwards) => (Spec => []TypeOK)
<1> SUFFICES ASSUME IsFiniteSet(Forwards) PROVE Spec => []TypeOK
  OBVIOUS
<1>1. Init => Inv /\ Counted /\ WireTypes
  <2> SUFFICES ASSUME Init PROVE Counted /\ WireTypes
    BY InitInv
  <2>1. DOMAIN memory = {}
    BY DEF Init
  <2>2. 0 \in 0..RoundRobinCycle /\ 0 \in 0..MaxRestarts /\ Resting \in RunType
    BY DispatchAssumption DEF Resting, RunType
  <2>3. run \in [Children -> RunType] /\ backlog \in [Children -> Seq(Subtasks)]
    BY <2>2 DEF Init
  <2>4. QED
    BY <2>1, <2>2, <2>3 DEF Init, Counted, WireTypes, RunType
<1>2. Inv /\ Counted /\ WireTypes /\ [Next]_vars => Inv' /\ Counted' /\ WireTypes'
  BY NextInv, NextCounts, NextTypes
<1>3. Inv /\ WireTypes => TypeOK
  <2> SUFFICES ASSUME Inv, WireTypes PROVE TypeOK
    OBVIOUS
  <2>1. DOMAIN memory \subseteq Jobs /\ \A j \in DOMAIN memory : memory[j] \in JobRecord
    BY DEF Inv, ParentInv, MemoryOK, RolledUp
  <2>2. proc \in [Coroutines -> ProcRecord]
    BY DEF Inv, ParentInv, ProcOK
  <2>3. QED
    BY <2>1, <2>2 DEF TypeOK, WireTypes, ProcRecord
<1>4. QED
  BY <1>1, <1>2, <1>3, PTL DEF Spec

-----------------------------------------------------------------------------
(* The choice of a target.                                                 *)

\* Among finitely many things of natural weight one is lightest.  (Its proof orders
\* them by the sets of what is lighter.)
LEMMA LeastOf ==
    ASSUME NEW S, IsFiniteSet(S), S # {}, NEW f \in [S -> Nat]
    PROVE  \E x \in S : \A y \in S : f[x] <= f[y]
<1> DEFINE below(x) == {y \in S : f[y] < f[x]}
           lows == {below(x) : x \in S}
<1>1. IsWellFoundedOn(StrictSubsetOrdering(S), FiniteSubsetsOf(S))
  BY FS_StrictSubsetOrderingWellFounded
<1>2. lows \subseteq FiniteSubsetsOf(S) /\ lows # {}
  <2>1. \A x \in S : below(x) \in SUBSET S
    OBVIOUS
  <2>2. \A x \in S : IsFiniteSet(below(x))
    BY <2>1, FS_Subset
  <2>3. ASSUME NEW low \in lows PROVE low \in FiniteSubsetsOf(S)
    <3>1. PICK x \in S : low = below(x)
      OBVIOUS
    <3>2. QED
      BY <3>1, <2>1, <2>2 DEF FiniteSubsetsOf
  <2>4. PICK x \in S : TRUE
    OBVIOUS
  <2>5. below(x) \in lows
    OBVIOUS
  <2>6. QED
    BY <2>3, <2>5
<1>3. PICK low \in lows : \A other \in lows : <<other, low>> \notin StrictSubsetOrdering(S)
  BY <1>1, <1>2, WFMin
<1>4. PICK x \in S : low = below(x)
  OBVIOUS
<1>5. ASSUME NEW y \in S, f[y] < f[x] PROVE FALSE
  <2>1. below(y) \subseteq below(x) /\ y \in below(x) /\ y \notin below(y)
    BY <1>5
  <2>2. <<below(y), below(x)>> \in StrictSubsetOrdering(S)
    BY <2>1 DEF StrictSubsetOrdering
  <2>3. QED
    BY <1>3, <1>4, <2>2
<1>6. QED
  BY <1>5

\* Round robin over a finite set of ids: each place is that of one id.
LEMMA RankIsUnique ==
    ASSUME NEW pool, pool \subseteq Int, pool # {}, IsFiniteSet(pool), NEW r \in Nat
    PROVE  \E c \in pool :
               {d \in pool : Cardinality({e \in pool : e < d}) = r % Cardinality(pool)} = {c}
<1> DEFINE n == Cardinality(pool)
           below(c) == {e \in pool : e < c}
           rank == [c \in pool |-> Cardinality(below(c))]
<1>1. n \in Nat \ {0}
  BY FS_CardinalityType, FS_EmptySet
<1>2. \A c \in pool : IsFiniteSet(below(c)) /\ Cardinality(below(c)) \in 0..(n - 1)
  <2> SUFFICES ASSUME NEW c \in pool
               PROVE  IsFiniteSet(below(c)) /\ Cardinality(below(c)) \in 0..(n - 1)
    OBVIOUS
  <2>1. below(c) \in SUBSET pool /\ below(c) # pool
    OBVIOUS
  <2>2. IsFiniteSet(below(c)) /\ Cardinality(below(c)) <= n /\ n # Cardinality(below(c))
    BY <2>1, FS_Subset
  <2>3. Cardinality(below(c)) \in Nat
    BY <2>2, FS_CardinalityType
  <2>4. QED
    BY <2>2, <2>3, <1>1
<1>3. \A c, d \in pool : c < d => rank[c] < rank[d]
  <2> SUFFICES ASSUME NEW c \in pool, NEW d \in pool, c < d PROVE rank[c] < rank[d]
    OBVIOUS
  <2>1. below(c) \in SUBSET below(d) /\ c \in below(d) /\ c \notin below(c)
    <3>1. c \in Int /\ d \in Int /\ c < d
      OBVIOUS
    <3>2. ASSUME NEW e \in pool, e < c PROVE e < d
      BY <3>1, <3>2
    <3>3. ASSUME NEW e \in below(c) PROVE e \in below(d)
      BY <3>2
    <3>4. ~(c < c)
      BY <3>1
    <3>5. QED
      BY <3>1, <3>3, <3>4
  <2>2. /\ Cardinality(below(c)) <= Cardinality(below(d))
        /\ Cardinality(below(c)) # Cardinality(below(d))
    <3>1. IsFiniteSet(below(d))
      BY <1>2
    <3>2. below(c) # below(d)
      BY <2>1
    <3>3. QED
      BY <2>1, <3>1, <3>2, FS_Subset
  <2>3. QED
    BY <1>2, <2>2
<1>4. rank \in Injection(pool, 0..(n - 1))
  <2>1. \A c, d \in pool : rank[c] = rank[d] => c = d
    <3> SUFFICES ASSUME NEW c \in pool, NEW d \in pool, c # d PROVE rank[c] # rank[d]
      OBVIOUS
    <3>1. c < d \/ d < c
      OBVIOUS
    <3>2. rank[c] \in Int /\ rank[d] \in Int
      BY <1>1, <1>2
    <3>3. QED
      BY <1>3, <3>1, <3>2
  <2>2. rank \in [pool -> 0..(n - 1)]
    BY <1>2
  <2>3. QED
    BY <2>1, <2>2 DEF Injection, IsInjective
<1>5. IsFiniteSet(0..(n - 1)) /\ Cardinality(0..(n - 1)) = n
  BY <1>1, FS_Interval
<1>6. rank \in Surjection(pool, 0..(n - 1))
  BY <1>4, <1>5, FS_Injection
<1>7. r % n \in 0..(n - 1)
  BY <1>1
<1>8. PICK c \in pool : rank[c] = r % n
  BY <1>6, <1>7 DEF Surjection
<1>9. \A d \in pool : rank[d] = r % n => d = c
  BY <1>4, <1>8 DEF Injection, IsInjective
<1>10. {d \in pool : Cardinality(below(d)) = r % n} = {c}
  BY <1>8, <1>9
<1>11. QED
  BY <1>10

\* There are finitely many jobs in memory, and _rr_index is a
\* number.
FinitelyMany == IsFiniteSet(DOMAIN memory) /\ rr \in Nat

\* pick_dispatch_target picks one of the candidates, and none of them has less to do.
PickIsOne ==
    \A candidates \in SUBSET Children : candidates # {} =>
        \E c \in candidates :
            /\ Picked(candidates) = {c}
            /\ \A d \in candidates : Inflight(memory, c) <= Inflight(memory, d)

\* One more job.
LEMMA RememberedIsFinite ==
    ASSUME NEW j, NEW job, Remember(j, job), IsFiniteSet(DOMAIN memory)
    PROVE  IsFiniteSet(DOMAIN memory')
<1>1. DOMAIN memory' = DOMAIN memory \union {j}
  BY DEF Remember
<1>2. QED
  BY <1>1, FS_AddElement

\* A coroutine remembers the job it works on.
LEMMA ContinueIsFinite ==
    ASSUME NEW p, NEW job, Continue(p, job), IsFiniteSet(DOMAIN memory)
    PROVE  IsFiniteSet(DOMAIN memory')
<1>1. \E new : Remember(proc[p].job, new)
  BY DEF Continue
<1>2. QED
  BY <1>1, RememberedIsFinite

\* No step of anyone makes a parent have infinitely many jobs.
LEMMA NextFinite == ASSUME FinitelyMany, [Next]_vars PROVE FinitelyMany'
<1> USE DEF FinitelyMany
<1>1. CASE UNCHANGED parentVars
  BY <1>1 DEF parentVars
<1>2. ASSUME NEW j \in Jobs, Submit(j) PROVE FinitelyMany'
  <2>1. rr' = rr /\ \E job : Remember(j, job)
    BY <1>2 DEF Submit, SubmitSubtasks, SubmitWhole
  <2>2. QED
    BY <2>1, RememberedIsFinite
<1>3. ASSUME NEW f, NEW j, NEW from, NEW target, Forward(f, j, from, target) PROVE FinitelyMany'
  <2>1. rr' = rr /\ \E job : Remember(j, job)
    BY <1>3 DEF Forward
  <2>2. QED
    BY <2>1, RememberedIsFinite
<1>4. ASSUME NEW p \in Coroutines, Step(p) PROVE FinitelyMany'
  <2>1. rr' \in Nat
    <3>1. rr' \in {rr, (rr + 1) % RoundRobinCycle}
      BY <1>4 DEF Step, PlanFails, PlanDone, LocalDone, Raises, CatalogAnswers, TargetAnswers,
                  AssignAnswered, AssignFails
    <3>2. (rr + 1) % RoundRobinCycle \in Nat
      BY DispatchAssumption
    <3>3. QED
      BY <3>1, <3>2
  <2>2. \/ memory' = memory
        \/ \E j, job : Remember(j, job)
        \/ \E job : Continue(p, job)
    BY <1>4 DEF Step, PlanFails, PlanDone, LocalDone, Raises, CatalogAnswers, TargetAnswers,
                AssignAnswered, AssignFails, AssignTo, DispatchFails
  <2>3. QED
    BY <2>1, <2>2, RememberedIsFinite, ContinueIsFinite
<1>5. CASE Network
  <2>1. rr' = rr /\ (memory' = memory \/ \E j, job : Remember(j, job))
    BY <1>5 DEF Network, ChildTakesAssign, ParentTakesReport, parentVars
  <2>2. QED
    BY <2>1, RememberedIsFinite
<1>6. CASE RestartParent
  <2>1. rr' = 0 /\ memory' \in {memory, <<>>}
    BY <1>6 DEF RestartParent
  <2>2. DOMAIN <<>> = {}
    OBVIOUS
  <2>3. QED
    BY <2>1, <2>2, FS_EmptySet
<1>7. CASE Loss \/ \E c \in Children : Child(c) \/ RestartChild(c)
  <2>1. UNCHANGED parentVars
    BY <1>7 DEF Loss, LoseAssign, LoseReport, Child, ChildRuns, ReportAnswered,
                ReportFails, RestartChild, parentVars
  <2>2. QED
    BY <1>1, <2>1
<1>8. CASE UNCHANGED vars
  BY <1>1, <1>8 DEF vars
<1>9. QED
  BY <1>2, <1>3, <1>4, <1>5, <1>6, <1>7, <1>8 DEF Next

\* An agent has finitely many subtasks in flight.
LEMMA InflightType ==
    ASSUME Inv, FinitelyMany, NEW c
    PROVE  Inflight(memory, c) \in Nat
<1> DEFINE busy(j) == {<<j, i>> : i \in {k \in DOMAIN memory[j].subtasks :
                              /\ memory[j].subtasks[k].assignee = c
                              /\ memory[j].subtasks[k].status \in {"ASSIGNED", "RUNNING"}}}
           family == {busy(j) : j \in DOMAIN memory}
<1>1. ASSUME NEW j \in DOMAIN memory PROVE IsFiniteSet(busy(j))
  <2>1. Len(memory[j].subtasks) \in Nat /\ DOMAIN memory[j].subtasks = 1..Len(memory[j].subtasks)
    BY JobFacts, SubtasksSeq
  <2>2. IsFiniteSet(1..Len(memory[j].subtasks)) /\ IsFiniteSet({j})
    <3>1. 1 \in Int /\ Len(memory[j].subtasks) \in Int
      BY <2>1
    <3>2. IsFiniteSet(1..Len(memory[j].subtasks))
      BY <3>1, FS_Interval
    <3>3. QED
      BY <3>2, FS_Singleton
  <2>3. IsFiniteSet({j} \X (1..Len(memory[j].subtasks)))
    BY <2>2, FS_Product
  <2>4. busy(j) \in SUBSET ({j} \X (1..Len(memory[j].subtasks)))
    BY <2>1
  <2>5. QED
    BY <2>3, <2>4, FS_Subset
<1>2. IsFiniteSet(family)
  <2> DEFINE of == [j \in DOMAIN memory |-> busy(j)]
  <2>1. of \in Surjection(DOMAIN memory, family)
    BY DEF Surjection
  <2>2. QED
    BY <2>1, FS_Surjection DEF FinitelyMany
<1>3. \A s \in family : IsFiniteSet(s)
  BY <1>1
<1>4. IsFiniteSet(UNION family)
  BY <1>2, <1>3, FS_UNION
<1>5. QED
  BY <1>4, FS_CardinalityType DEF Inflight

\* The least loaded are some, and the round robin picks one of them.
LEMMA Picks == ASSUME Inv, FinitelyMany PROVE PickIsOne
<1> SUFFICES ASSUME NEW S \in SUBSET Children, S # {}
             PROVE  \E c \in S : /\ Picked(S) = {c}
                                 /\ \A d \in S : Inflight(memory, c) <= Inflight(memory, d)
  BY DEF PickIsOne
<1> DEFINE load == [c \in S |-> Inflight(memory, c)]
           pool == {c \in S : \A d \in S : Inflight(memory, c) <= Inflight(memory, d)}
<1>1. IsFiniteSet(S) /\ pool \in SUBSET S /\ IsFiniteSet(pool) /\ pool \subseteq Int
  <2>1. IsFiniteSet(S)
    BY DispatchAssumption, FS_Subset
  <2>2. pool \in SUBSET S
    OBVIOUS
  <2>3. IsFiniteSet(pool)
    BY <2>1, <2>2, FS_Subset
  <2>4. pool \subseteq Int
    <3>1. Children \subseteq Int
      BY DispatchAssumption
    <3>2. \A c \in pool : c \in Children
      BY <2>2
    <3> HIDE DEF pool
    <3>3. QED
      BY <3>1, <3>2
  <2>5. QED
    BY <2>1, <2>2, <2>3, <2>4
<1>2. load \in [S -> Nat]
  BY InflightType
<1>3. \E c \in S : \A d \in S : load[c] <= load[d]
  BY <1>1, <1>2, LeastOf
<1>4. pool # {}
  BY <1>3
<1>5. PICK c \in pool :
          {d \in pool : Cardinality({e \in pool : e < d}) = rr % Cardinality(pool)} = {c}
  BY <1>1, <1>4, RankIsUnique DEF FinitelyMany
<1>6. Picked(S) = {c}
  BY <1>5 DEF Picked
<1>7. QED
  BY <1>6

\* The rule by which a parent chooses is well defined: whatever children a catalog
\* offers, however many jobs there are and whatever _rr_index, exactly one of them is
\* picked, and none of them has fewer subtasks in flight.
THEOREM PickIsOneHolds == Spec => []PickIsOne
<1>1. Init => Inv /\ FinitelyMany
  <2>1. Init => DOMAIN memory = {} /\ rr = 0
    BY DEF Init
  <2>2. QED
    BY <2>1, InitInv, FS_EmptySet DEF FinitelyMany
<1>2. Inv /\ FinitelyMany /\ [Next]_vars => Inv' /\ FinitelyMany'
  BY NextInv, NextFinite
<1>3. Inv /\ FinitelyMany => PickIsOne
  BY Picks
<1>4. QED
  BY <1>1, <1>2, <1>3, PTL DEF Spec
=============================================================================
