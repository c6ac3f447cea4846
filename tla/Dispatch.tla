------------------------------ MODULE Dispatch ------------------------------
(***************************************************************************)
(* One parent agent at work: the jobs in its JobMemory, the coroutines     *)
(* that dispatch their subtasks (submit_job, forward_subtask and _dispatch *)
(* in src/mycoagent/node/runtime.py), the children that accept and run     *)
(* them, and the two HTTP exchanges between them, assign_subtask and       *)
(* subtask_result, either of which can time out or fail on one side after  *)
(* it succeeded on the other.                                              *)
(*                                                                         *)
(* Grain of atomicity.  A coroutine suspends only at its HTTP calls, the   *)
(* planner and the local executor, so all it does between two of these is  *)
(* one action, up to and including the start of the next subtask.          *)
(*                                                                         *)
(* Abstractions.  The manager is an environment: a catalog query answers   *)
(* any set of children, which covers stale answers.  A child is the serial *)
(* worker of SerialWorker.tla (ChildMailbox.tla is shown to implement it)  *)
(* with its report attempts.  The parent is not one of the children: its   *)
(* queries exclude it (exclude_node_id, `blocked`) and _accept_child       *)
(* refuses its own messages, so the test that a child does not re-dispatch *)
(* its own job (_current_child.job_id) cannot succeed here.                *)
(***************************************************************************)
EXTENDS JobMemory, Functions

CONSTANTS
    Jobs,               \* the jobs submitted to this parent
    Forwards,           \* the POST /jobs/{id}/forward calls made to it
    MaxSubtasks,        \* most subtasks a request or a plan has
    Capacity,           \* 1 + mailbox_queue_size of every child
    ReportAttempts,     \* REPORT_ATTEMPTS
    RoundRobinCycle,    \* _rr_index is kept modulo this multiple of all pool sizes
    JobDb,              \* whether the parent has a --job-db
    Faulty,             \* whether calls time out and messages are lost
    MaxRestarts         \* bound on the restarts of the parent and of the children

ASSUME DispatchAssumption ==
    /\ Children \subseteq Nat /\ IsFiniteSet(Children)
    /\ NoAgent \notin Children
    /\ Jobs \cap Forwards = {}
    /\ MaxSubtasks \in Nat \ {0} /\ Capacity \in Nat \ {0}
    /\ ReportAttempts \in Nat \ {0} /\ MaxRestarts \in Nat
    /\ RoundRobinCycle \in Nat \ {0}
    /\ \A n \in 1..Cardinality(Children) : RoundRobinCycle % n = 0
    /\ {JobDb, Faulty} \subseteq BOOLEAN

Coroutines == Jobs \union Forwards   \* one submit_job per job, and the forwards

Subtasks == Jobs \X (1..(MaxSubtasks + Cardinality(Forwards)))

VARIABLES
    memory,     \* jobs._jobs: the jobs this parent knows
    proc,       \* the coroutines
    rr,         \* _rr_index
    assigns,    \* assign_subtask messages on their way to a child
    answer,     \* what the child answered to the assign of a subtask
    replies,    \* the subtasks whose answer is on its way back
    backlog,    \* per child: the subtask it runs, then its mailbox queue
    run,        \* per child: what _run_child does with the head of the backlog
    reports,    \* subtask_result messages on their way to the parent
    ran,        \* history: <<subtask, child, verdict>> of every execution
    taken,      \* history: the subtasks of which the parent took a result
    struck,     \* history: those whose result a fault took away for good
    restarts    \* bound on the restarts

parentVars == <<memory, proc, rr>>
childVars  == <<backlog, run, ran>>
netVars    == <<assigns, answer, replies, reports>>
ends      == <<taken, struck>>
vars == <<parentVars, childVars, netVars, ends, restarts>>

Verdicts == {"COMPLETED", "FAILED"}
Ended    == {"returned", "raised", "gone"}
Phases   == {"idle", "planning", "local", "querying", "assigning"} \union Ended

NotStarted == [pc |-> "idle", job |-> NoAgent, sub |-> 0, todo |-> 0,
               planned |-> FALSE, exclude |-> NoAgent, target |-> NoAgent]

Resting == [phase |-> "idle", verdict |-> "none", attempt |-> 0, answer |-> "none"]

Init == /\ memory = <<>>
        /\ proc = [p \in Coroutines |-> NotStarted]
        /\ rr = 0
        /\ assigns = {} /\ replies = {} /\ reports = {}
        /\ answer = [s \in Subtasks |-> "none"]
        /\ backlog = [c \in Children |-> <<>>]
        /\ run = [c \in Children |-> Resting]
        /\ ran = {} /\ taken = {} /\ struck = {}
        /\ restarts = 0

-----------------------------------------------------------------------------
(* The parent's coroutines.                                                *)

At(p, pc) == proc[p].pc = pc
JobOf(p)  == memory[proc[p].job]
SubtaskOf(p) == <<proc[p].job, proc[p].sub>>

Remember(j, job) == memory' = [k \in DOMAIN memory \union {j} |->
                                  IF k = j THEN job ELSE memory[k]]

\* submit_job up to its first await after the job is created.
SubmitSubtasks(j, n) ==
    /\ At(j, "idle")
    /\ Remember(j, Create(n))
    /\ proc' = [proc EXCEPT ![j] = [@ EXCEPT !.pc = "querying", !.job = j,
                                             !.sub = 1, !.todo = n - 1]]
    /\ UNCHANGED <<rr, childVars, netVars, ends, restarts>>

\* Without subtasks: the planner if the agent has one, else its own executor.
SubmitWhole(j, pc) ==
    /\ At(j, "idle")
    /\ Remember(j, Create(0))
    /\ proc' = [proc EXCEPT ![j] = [@ EXCEPT !.pc = pc, !.job = j]]
    /\ UNCHANGED <<rr, childVars, netVars, ends, restarts>>

\* The catalog, the LLM or the parsing of its plan failed.
PlanFails(j) ==
    /\ At(j, "planning")
    /\ Remember(j, Fail(memory[j]))
    /\ proc' = [proc EXCEPT ![j].pc = "returned"]
    /\ UNCHANGED <<rr, childVars, netVars, ends, restarts>>

\* The loop over the planned specs adds each subtask just before its dispatch.
PlanDone(j, n) ==
    /\ At(j, "planning")
    /\ LET job == AddSubtask(memory[j])
       IN  /\ Remember(j, job)
           /\ proc' = [proc EXCEPT ![j] = [@ EXCEPT !.pc = "querying", !.planned = TRUE,
                                                    !.sub = Len(job.subtasks), !.todo = n - 1]]
    /\ UNCHANGED <<rr, childVars, netVars, ends, restarts>>

LocalDone(j) ==
    /\ At(j, "local")
    /\ Remember(j, CompleteLocal(memory[j]))
    /\ proc' = [proc EXCEPT ![j].pc = "returned"]
    /\ UNCHANGED <<rr, childVars, netVars, ends, restarts>>

\* An await of the coroutine raises what nobody catches: the local executor, or
\* an HTTP error of manager.catalog or manager.get_node.
Raises(p) ==
    /\ proc[p].pc \in {"local", "querying"}
    /\ proc' = [proc EXCEPT ![p].pc = "raised"]
    /\ UNCHANGED <<memory, rr, childVars, netVars, ends, restarts>>

\* `job` is what the current subtask's dispatch leaves; the loop goes on with
\* the next subtask, or the coroutine returns.
Continue(p, job) ==
    CASE proc[p].todo = 0 ->
            /\ Remember(proc[p].job, job)
            /\ proc' = [proc EXCEPT ![p].pc = "returned"]
      [] proc[p].todo > 0 /\ proc[p].planned ->
            /\ Remember(proc[p].job, AddSubtask(job))
            /\ proc' = [proc EXCEPT ![p].pc = "querying", ![p].todo = @ - 1,
                                     ![p].sub = Len(job.subtasks) + 1]
      [] OTHER ->
            /\ Remember(proc[p].job, job)
            /\ proc' = [proc EXCEPT ![p].pc = "querying", ![p].todo = @ - 1, ![p].sub = @ + 1]

\* Mutant: the first DispatchError ends the loop over the subtasks.
DispatchFailsAborts(p) ==
    /\ Remember(proc[p].job, SetStatus(JobOf(p), proc[p].sub, "FAILED"))
    /\ proc' = [proc EXCEPT ![p].pc = "returned"]

\* A DispatchError: the caller of _dispatch marks the subtask FAILED.
DispatchFails(p) == Continue(p, SetStatus(JobOf(p), proc[p].sub, "FAILED"))

\* _dispatch from its choice of a target to the await of mail.assign.
AssignTo(p, c) ==
    /\ Remember(proc[p].job, UpdateSubtask(JobOf(p), proc[p].sub, "ASSIGNED", c))
    /\ proc' = [proc EXCEPT ![p].pc = "assigning"]
    /\ assigns' = assigns \union {<<SubtaskOf(p), c>>}
    /\ UNCHANGED <<answer, replies, reports>>

\* pick_dispatch_target: of the least loaded, round-robin in order of id (the
\* set holds the one agent picked).
Picked(candidates) ==
    LET load(c) == Inflight(memory, c)
        pool == {c \in candidates : \A d \in candidates : load(c) <= load(d)}
        rank(c) == Cardinality({d \in pool : d < c})
    IN  {c \in pool : rank(c) = rr % Cardinality(pool)}

\* Mutant: the agent whose result is forwarded is offered it too.
CatalogAnswersAnyone(p, listed) ==
    /\ At(p, "querying") /\ proc[p].target = NoAgent
    /\ IF listed = {}
       THEN DispatchFails(p) /\ UNCHANGED <<rr, netVars>>
       ELSE /\ \E c \in Picked(listed) : AssignTo(p, c)
            /\ rr' = (rr + 1) % RoundRobinCycle
    /\ UNCHANGED <<childVars, ends, restarts>>

CatalogAnswers(p, listed) ==
    /\ At(p, "querying") /\ proc[p].target = NoAgent
    /\ LET candidates == listed \ {proc[p].exclude}
       IN  IF candidates = {}
           THEN DispatchFails(p) /\ UNCHANGED <<rr, netVars>>
           ELSE /\ \E c \in Picked(candidates) : AssignTo(p, c)
                /\ rr' = (rr + 1) % RoundRobinCycle
    /\ UNCHANGED <<childVars, ends, restarts>>

\* With a target_node_id: `usable` is the checks on its group, membership and status.
TargetAnswers(p, usable) ==
    /\ At(p, "querying") /\ proc[p].target # NoAgent
    /\ IF usable THEN AssignTo(p, proc[p].target)
                 ELSE DispatchFails(p) /\ UNCHANGED netVars
    /\ UNCHANGED <<rr, childVars, ends, restarts>>

\* Mutant: the answer is not looked at.
AssignAnsweredAny(p) ==
    /\ At(p, "assigning") /\ SubtaskOf(p) \in replies
    /\ replies' = replies \ {SubtaskOf(p)}
    /\ Continue(p, SetStatus(JobOf(p), proc[p].sub, "RUNNING"))
    /\ UNCHANGED <<rr, childVars, assigns, answer, reports, ends, restarts>>

\* mail.assign answered: 200, or the child's 409.
AssignAnswered(p) ==
    /\ At(p, "assigning") /\ SubtaskOf(p) \in replies
    /\ replies' = replies \ {SubtaskOf(p)}
    /\ IF answer[SubtaskOf(p)] = "accepted"
       THEN Continue(p, SetStatus(JobOf(p), proc[p].sub, "RUNNING"))
       ELSE DispatchFails(p)
    /\ UNCHANGED <<rr, childVars, assigns, answer, reports, ends, restarts>>

\* Mutant: a dispatch timeout is not caught.
AssignFailsUncaught(p) ==
    /\ Faulty /\ At(p, "assigning")
    /\ replies' = replies \ {SubtaskOf(p)}
    /\ proc' = [proc EXCEPT ![p].pc = "returned"]
    /\ UNCHANGED <<memory, rr, childVars, assigns, answer, reports, ends, restarts>>

\* Mutant: a timeout has the subtask dispatched anew.
AssignFailsRetries(p) ==
    /\ Faulty /\ At(p, "assigning")
    /\ replies' = replies \ {SubtaskOf(p)}
    /\ proc' = [proc EXCEPT ![p].pc = "querying"]
    /\ UNCHANGED <<memory, rr, childVars, assigns, answer, reports, ends, restarts>>

\* mail.assign times out or breaks; its message may still arrive, or have.
AssignFails(p) ==
    /\ Faulty /\ At(p, "assigning")
    /\ replies' = replies \ {SubtaskOf(p)}
    /\ DispatchFails(p)
    /\ UNCHANGED <<rr, childVars, assigns, answer, reports, ends, restarts>>

\* forward_subtask of the result of subtask `from` (0: of none) to `target`
\* (NoAgent: to whom the catalog offers).
Forward(f, j, from, target) ==
    /\ At(f, "idle")
    /\ j \in DOMAIN memory
    /\ from \in 0..Len(memory[j].subtasks)
    /\ LET exclude == IF from = 0 THEN NoAgent ELSE memory[j].subtasks[from].assignee
           job == AddSubtask(memory[j])
           sub == Len(job.subtasks)
           refused == target # NoAgent /\ target = exclude
       IN  /\ Remember(j, IF refused THEN SetStatus(job, sub, "FAILED") ELSE job)
           /\ proc' = [proc EXCEPT ![f] =
                  [@ EXCEPT !.pc = IF refused THEN "returned" ELSE "querying", !.job = j,
                            !.sub = sub, !.exclude = exclude, !.target = target]]
    /\ UNCHANGED <<rr, childVars, netVars, ends, restarts>>

\* _accept_result; a job that is not in memory is answered 404.
ParentTakesReport(r) ==
    /\ r \in reports
    /\ reports' = reports \ {r}
    /\ LET j == r.subtask[1]  i == r.subtask[2]  known == j \in DOMAIN memory
       IN  /\ IF known
              THEN /\ Remember(j, UpdateSubtask(memory[j], i, r.verdict, r.child))
                   /\ taken' = taken \union {r.subtask}
              ELSE UNCHANGED <<memory, taken>>
           /\ run' = [run EXCEPT ![r.child].answer =
                         IF /\ @ = "none" /\ run[r.child].phase = "reporting"
                            /\ r.subtask = Head(backlog[r.child])
                            /\ r.attempt = run[r.child].attempt
                         THEN IF known THEN "ok" ELSE "error"
                         ELSE @]
    /\ UNCHANGED <<proc, rr, backlog, ran, assigns, answer, replies, struck, restarts>>

-----------------------------------------------------------------------------
(* The children.                                                           *)

Starting == [Resting EXCEPT !.phase = "running"]

ChildTakesAssign(s, c) ==
    /\ <<s, c>> \in assigns
    /\ assigns' = assigns \ {<<s, c>>}
    /\ replies' = IF \E p \in Coroutines : At(p, "assigning") /\ SubtaskOf(p) = s
                  THEN replies \union {s} ELSE replies
    /\ IF Len(backlog[c]) < Capacity
       THEN /\ answer' = [answer EXCEPT ![s] = "accepted"]
            /\ backlog' = [backlog EXCEPT ![c] = Append(@, s)]
            /\ run' = IF backlog[c] = <<>> THEN [run EXCEPT ![c] = Starting] ELSE run
       ELSE /\ answer' = [answer EXCEPT ![s] = "busy"]
            /\ UNCHANGED <<backlog, run>>
    /\ UNCHANGED <<parentVars, ran, reports, ends, restarts>>

Report(c, verdict, attempt) ==
    [subtask |-> Head(backlog[c]), child |-> c, verdict |-> verdict, attempt |-> attempt]

ChildRuns(c, verdict) ==
    /\ run[c].phase = "running"
    /\ ran' = ran \union {<<Head(backlog[c]), c, verdict>>}
    /\ run' = [run EXCEPT ![c] = [phase |-> "reporting", verdict |-> verdict,
                                  attempt |-> 1, answer |-> "none"]]
    /\ reports' = reports \union {Report(c, verdict, 1)}
    /\ UNCHANGED <<parentVars, backlog, assigns, answer, replies, ends, restarts>>

\* The head of the backlog is done with: the next one starts.
Release(c) ==
    /\ backlog' = [backlog EXCEPT ![c] = Tail(@)]
    /\ run' = [run EXCEPT ![c] = IF Len(backlog[c]) > 1 THEN Starting ELSE Resting]

ReportAnswered(c) ==
    /\ run[c].answer = "ok"
    /\ Release(c)
    /\ UNCHANGED <<parentVars, ran, netVars, ends, restarts>>

\* Mutant: one attempt too many.
ReportFailsOnceMore(c) ==
    /\ run[c].phase = "reporting"
    /\ Faulty \/ run[c].answer = "error"
    /\ IF run[c].attempt <= ReportAttempts
       THEN /\ run' = [run EXCEPT ![c].attempt = @ + 1, ![c].answer = "none"]
            /\ reports' = reports \union {Report(c, run[c].verdict, run[c].attempt + 1)}
            /\ UNCHANGED backlog
       ELSE Release(c) /\ UNCHANGED reports
    /\ UNCHANGED <<parentVars, ran, assigns, answer, replies, ends, restarts>>

\* Mutant: range(1, REPORT_ATTEMPTS), so one attempt too few.
ReportFailsOnceLess(c) ==
    /\ run[c].phase = "reporting"
    /\ Faulty \/ run[c].answer = "error"
    /\ IF run[c].attempt + 1 < ReportAttempts
       THEN /\ run' = [run EXCEPT ![c].attempt = @ + 1, ![c].answer = "none"]
            /\ reports' = reports \union {Report(c, run[c].verdict, run[c].attempt + 1)}
            /\ UNCHANGED backlog
       ELSE Release(c) /\ UNCHANGED reports
    /\ UNCHANGED <<parentVars, ran, assigns, answer, replies, ends, restarts>>

\* Mutant: exhausted reports leave the child past its `finally`.
ReportFailsSticks(c) ==
    /\ run[c].phase = "reporting"
    /\ Faulty \/ run[c].answer = "error"
    /\ IF run[c].attempt < ReportAttempts
       THEN /\ run' = [run EXCEPT ![c].attempt = @ + 1, ![c].answer = "none"]
            /\ reports' = reports \union {Report(c, run[c].verdict, run[c].attempt + 1)}
       ELSE UNCHANGED <<run, reports>>
    /\ UNCHANGED <<parentVars, backlog, ran, assigns, answer, replies, ends, restarts>>

\* The attempt is answered by an error, or times out whatever became of it.
ReportFails(c) ==
    /\ run[c].phase = "reporting"
    /\ Faulty \/ run[c].answer = "error"
    /\ IF run[c].attempt < ReportAttempts
       THEN /\ run' = [run EXCEPT ![c].attempt = @ + 1, ![c].answer = "none"]
            /\ reports' = reports \union {Report(c, run[c].verdict, run[c].attempt + 1)}
            /\ UNCHANGED backlog
       ELSE Release(c) /\ UNCHANGED reports
    /\ UNCHANGED <<parentVars, ran, assigns, answer, replies, ends, restarts>>

-----------------------------------------------------------------------------
(* Losses and restarts.                                                    *)

LoseAssign(m) ==
    /\ Faulty /\ m \in assigns
    /\ assigns' = assigns \ {m}
    /\ UNCHANGED <<parentVars, childVars, answer, replies, reports, ends, restarts>>

\* The parent had its last chance to hear of it with the last attempt.
LoseReport(r) ==
    /\ Faulty /\ r \in reports
    /\ reports' = reports \ {r}
    /\ struck' = IF r.attempt = ReportAttempts THEN struck \union {r.subtask} ELSE struck
    /\ UNCHANGED <<parentVars, childVars, assigns, answer, replies, taken, restarts>>

\* The parent's process restarts: JobStore._load, and no coroutine survives.
RestartParent ==
    /\ restarts < MaxRestarts
    /\ restarts' = restarts + 1
    /\ IF JobDb THEN UNCHANGED <<memory, struck>>
       ELSE memory' = <<>> /\ struck' = struck \union {s \in Subtasks : s[1] \in DOMAIN memory}
    /\ proc' = [p \in Coroutines |-> IF proc[p].pc \in {"idle"} \union Ended THEN proc[p]
                                     ELSE [proc[p] EXCEPT !.pc = "gone"]]
    /\ rr' = 0
    /\ replies' = {}
    /\ UNCHANGED <<childVars, assigns, answer, reports, taken>>

\* A child's process restarts: its mailbox is in memory only.
RestartChild(c) ==
    /\ restarts < MaxRestarts
    /\ restarts' = restarts + 1
    /\ backlog' = [backlog EXCEPT ![c] = <<>>]
    /\ run' = [run EXCEPT ![c] = Resting]
    /\ struck' = struck \union Range(backlog[c])
    /\ UNCHANGED <<parentVars, ran, netVars, taken>>

-----------------------------------------------------------------------------
Submit(j) == \/ \E n \in 1..MaxSubtasks : SubmitSubtasks(j, n)
             \/ \E pc \in {"planning", "local"} : SubmitWhole(j, pc)

Step(p) == \/ PlanFails(p) \/ (\E n \in 1..MaxSubtasks : PlanDone(p, n))
           \/ LocalDone(p) \/ Raises(p)
           \/ (\E listed \in SUBSET Children : CatalogAnswers(p, listed))
           \/ (\E usable \in BOOLEAN : TargetAnswers(p, usable))
           \/ AssignAnswered(p) \/ AssignFails(p)

Child(c) == \/ (\E verdict \in Verdicts : ChildRuns(c, verdict))
            \/ ReportAnswered(c) \/ ReportFails(c)

Network == \/ (\E m \in assigns : ChildTakesAssign(m[1], m[2]))
           \/ (\E r \in reports : ParentTakesReport(r))

Loss == (\E m \in assigns : LoseAssign(m)) \/ (\E r \in reports : LoseReport(r))

Next == \/ \E j \in Jobs : Submit(j)
        \/ \E f \in Forwards, j \in DOMAIN memory, target \in Children \union {NoAgent} :
              \E from \in 0..Len(memory[j].subtasks) : Forward(f, j, from, target)
        \/ \E p \in Coroutines : Step(p)
        \/ \E c \in Children : Child(c)
        \/ Network \/ Loss
        \/ RestartParent \/ \E c \in Children : RestartChild(c)

Spec == Init /\ [][Next]_vars

(* Coroutines and children keep moving: every HTTP call ends (httpx and    *)
(* dispatch_timeout), executors and the planner stop, and what is on the   *)
(* wire arrives or is lost.  Requests, losses and restarts need not come.  *)
Fairness == /\ \A p \in Coroutines : WF_vars(Step(p))
            /\ \A c \in Children : WF_vars(Child(c))
            /\ WF_vars(Network)

FairSpec == Spec /\ Fairness

-----------------------------------------------------------------------------
(* Properties.                                                             *)

ReportMessage == [subtask : Subtasks, child : Children, verdict : Verdicts,
                  attempt : 1..ReportAttempts]

TypeOK ==
    /\ DOMAIN memory \subseteq Jobs
    /\ \A j \in DOMAIN memory : memory[j] \in JobRecord
    /\ proc \in [Coroutines ->
          [pc : Phases, job : Jobs \union {NoAgent}, sub : Nat, todo : Nat,
           planned : BOOLEAN, exclude : Children \union {NoAgent},
           target : Children \union {NoAgent}]]
    /\ rr \in 0..RoundRobinCycle
    /\ assigns \subseteq Subtasks \X Children
    /\ answer \in [Subtasks -> {"none", "accepted", "busy"}]
    /\ replies \subseteq Subtasks
    /\ backlog \in [Children -> Seq(Subtasks)]
    /\ run \in [Children -> [phase : {"idle", "running", "reporting"},
                             verdict : Verdicts \union {"none"},
                             attempt : 0..ReportAttempts,
                             answer : {"none", "ok", "error"}]]
    /\ reports \subseteq ReportMessage
    /\ ran \subseteq Subtasks \X Children \X Verdicts
    /\ taken \subseteq Subtasks /\ struck \subseteq Subtasks
    /\ restarts \in 0..MaxRestarts

Known(s) == s[1] \in DOMAIN memory /\ s[2] \in DOMAIN memory[s[1]].subtasks
StatusOf(s)   == memory[s[1]].subtasks[s[2]].status
AssigneeOf(s) == memory[s[1]].subtasks[s[2]].assignee

\* The status a client polls is never stale: whoever touched the job last
\* (a dispatch, a result, a forward, the planner), it is what _roll_up makes of
\* the subtasks.
StatusIsRollUp == \A j \in DOMAIN memory : memory[j].status = RollUp(memory[j])

\* The children that have, or may still get, a subtask.
Holders(s) == {c \in Children : \/ <<s, c>> \in assigns
                                \/ \E i \in DOMAIN backlog[c] : backlog[c][i] = s
                                \/ \E v \in Verdicts : <<s, c, v>> \in ran}

\* A subtask is sent to one child only, the one its JobMemory names, through
\* every timeout, late acceptance, duplicate report, forward and restart.
HeldByAssignee ==
    \A s \in Subtasks :
        /\ Cardinality(Holders(s)) <= 1
        /\ Known(s) => Holders(s) \subseteq {AssigneeOf(s)}

\* No subtask is executed twice, whatever is timed out, retried or restarted.
RunsAtMostOnce ==
    /\ \A x, y \in ran : x[1] = y[1] => x = y
    /\ \A c \in Children : \A i, k \in DOMAIN backlog[c] :
          /\ backlog[c][i] = backlog[c][k] => i = k
          /\ (\E v \in Verdicts : <<backlog[c][i], c, v>> \in ran)
                => i = 1 /\ run[c].phase = "reporting"

\* What the parent believes of a subtask happened: it is RUNNING only if its
\* child accepted it, COMPLETED only if its child ran it to completion.
BeliefHasCause ==
    \A s \in Subtasks : Known(s) =>
        /\ StatusOf(s) = "RUNNING" => answer[s] = "accepted"
        /\ StatusOf(s) = "COMPLETED" => <<s, AssigneeOf(s), "COMPLETED">> \in ran

\* A subtask stays ASSIGNED only while its coroutine awaits the answer, and
\* PENDING only while one will still get to it, unless that coroutine died of
\* an uncaught error or a restart ("any assign failure must not stay ASSIGNED",
\* _dispatch).
UndecidedIsAttended ==
    \A s \in Subtasks : Known(s) =>
        LET attended(p) == proc[p].job = s[1] /\ proc[p].pc # "returned" /\ proc[p].sub <= s[2]
        IN  /\ StatusOf(s) = "ASSIGNED" =>
                  \E p \in Coroutines : /\ SubtaskOf(p) = s
                                        /\ proc[p].pc \in {"assigning", "gone"}
            /\ StatusOf(s) = "PENDING" => \E p \in Coroutines : attended(p)

\* A forwarded subtask never goes to the agent whose result it carries
\* (forward_subtask excludes the source's assignee).
ForwardAvoidsSource ==
    \A f \in Forwards :
        proc[f].exclude # NoAgent /\ Known(SubtaskOf(f))
            => AssigneeOf(SubtaskOf(f)) # proc[f].exclude

\* Every submit_job and forward_subtask ends, though any call may time out and
\* any message be lost.
CoroutinesEnd == \A p \in Coroutines : proc[p].pc # "idle" ~> proc[p].pc \in Ended

\* No mailbox stays occupied: every child is idle again and again, though the
\* parent may be gone and every report fail.
BacklogsDrain == \A c \in Children : []<>(backlog[c] = <<>>)

\* The result of every accepted subtask reaches the parent, COMPLETED or FAILED,
\* unless its child restarts first, all its reports are lost, or the parent
\* forgets the job: one lost or late report, and any failure of the dispatch, the
\* retry of _report_result covers.
ResultsArrive == \A s \in Subtasks : answer[s] = "accepted" ~> s \in taken \union struck

\* A job all of whose results were COMPLETED and taken by the parent, and that
\* no coroutine works on any more, is completed ("all completed, job completed",
\* docs/concepts/architecture.md:95; _roll_up).
AllCompletedDecidesJob ==
    \A j \in DOMAIN memory :
        /\ memory[j].subtasks # <<>>
        /\ \A p \in Coroutines : proc[p].job = j => proc[p].pc = "returned"
        /\ \A i \in DOMAIN memory[j].subtasks :
              <<j, i>> \in taken /\ \E c \in Children : <<<<j, i>>, c, "COMPLETED">> \in ran
        => memory[j].status = "COMPLETED"
=============================================================================
