# A formal model of MycoAgent

TLA+ modules, TLC runs and TLAPS proofs about the program in this repository. All
paths below `src/mycoagent/` are relative to the repository. The modules are
written from the code; the documentation is quoted only where the code disagrees
with it (see *What the checks found*).

## 1. The system

MycoAgent lets agents on different machines hand each other work. A **Cluster
Manager** keeps groups and the agents (nodes) registered in them. A **Host** is one
process with one or more agents on a common asyncio event loop. An agent that
receives a job (`POST /jobs`) becomes the *parent* of its subtasks: it asks the
Manager for a catalog, assigns each subtask to the mailbox of another agent (the
*child*), and the child posts the result to the parent's mailbox. The Manager never
sees a job.

| Part | State it keeps | Operations | Interacts with |
|---|---|---|---|
| Child mailbox and runner (`node/runtime.py` 389-492) | `_current_child`, `_mailbox_queue`, the runner task | accept, queue, refuse (busy, own message), run, report with a second attempt, hand over to the next | parent over HTTP; executor; artifact store |
| Parent dispatch (`runtime.py` 278-387, 494-602) | `_rr_index`, one coroutine per request | `submit_job`, `forward_subtask`, `_dispatch`, `_accept_result` | job records, Manager, children |
| Job records (`node/jobs.py`) | `_jobs`, optionally a SQLite file | create, update, add a subtask, complete, fail, roll the status up, in-flight counts, reload | the parent's coroutines |
| Manager store and API (`manager/store.py`, `api.py`) | tables `groups`, `nodes`, one connection under an `RLock` | group create/patch/delete, register, approve/deny, heartbeat, catalog, expiry | threads of the API; agents |
| Postgres store (`manager/postgres_store.py`) | the same tables, one connection per Manager process | the same | other Managers on the same database |
| Agent lifecycle and Host (`runtime.py` 119-277, 604-713) | id, record, heartbeat task, configuration | register, configure (registers again), heartbeat loop, close | Manager; all agents of the Host share one event loop |
| Planner (`node/planner.py`) | none | an LLM's answer becomes a list of subtasks or a `PlanningError` | parent |
| Executors (`node/executor.py`, `opencode.py`) | the conversation of one run | echo; a loop of LLM steps and tool calls; one OpenCode process | runner, workspace, event loop |
| Artifacts and workspace (`artifacts.py`, `node/workspace.py`) | objects; a temporary directory per run | make, list and remove a workspace; upload its files one by one | runner, executor, processes that tools leave behind |
| Configuration and CLI (`cli.py`, `node/local_config.py`) | `agents.yaml` | `init` (flags or wizard) writes it and posts it to the running Hosts; a Host boots from it | Hosts |
| Identity (`node/identity.py`) | the id file of a Host | resolve: environment, file, or a new uuid that is written | Manager's rows |
| LLM client, providers, capabilities, specs, authentication | none | probing, prompting, parsing, one comparison of a token | everything above |

### What is hard

* **Two sides of an HTTP call.** `_dispatch` waits for the answer to an assign at
  most `dispatch_timeout`; the child may accept, run and even report before,
  during or after. A report whose answer is lost is sent again.
* **Coroutines of one agent** interleave at every `await`: several jobs, a forward,
  results coming in, and the runner, all over the same records.
* **Handover in the mailbox.** The runner's `finally` frees the agent or starts the
  next message while new ones arrive.
* **Threads of the Manager.** A store method takes the lock two or three times
  (`_expire_offline`, its own statements, the read of its answer).
* **Several Managers on one Postgres**, whose locks exclude nobody else and whose
  connections remember a failed statement.
* **Time.** Heartbeats, expiry, and executors that hold the event loop.
* **Restarts.** The mailbox is in memory only; a parent with `--job-db` reloads
  records that nobody attends any more, and memory is changed before the row is
  written and committed, either of which may raise.
* **One file, several readers.** `init` empties and writes `agents.yaml` and then posts to one
  Host after the other, while Hosts boot from it, register and are killed; a boot and
  a `/configure` translate the same entry with code of their own.
* **Files.** Tools and what they leave running write to the workspace during the
  upload; two names may share one key in the store; any put may raise.

### What makes each part correct

* Mailbox: one runner at a time, nothing run twice, a truthful busy bit, first come
  first served, what is accepted is served, one verdict per subtask.
* Dispatch: a subtask has one holder, the one the parent names; what the parent
  believes has happened; no subtask stays ASSIGNED or PENDING without somebody who
  will decide it; the job's status is the roll-up; every request ends.
* Manager: no node without its group; a decision of the administrator stands; the
  catalog lists who was heard from in time; offline means silent, or said so itself;
  nobody gets into the catalog of a manual group by registering.
* Postgres: the same across Managers, and a Manager stays able to serve.
* Presence: an agent that lives is offline only if its calls failed or were late for long
  enough to account for it; a wrong row is corrected.
* Job records: what was answered without an error is what the next process finds, and
  what is shown now is not undone by a restart unless the write of it raised.
* Runs: a COMPLETED result names exactly what is stored, and all that the executor left;
  the workspace is gone before the report, unless tools left in it what stands in the way;
  every executor comes to an end.
* Configuration: a Host runs what its file gives, or somebody was warned; the
  catalog follows the Host; one row per id file.

## 2. The modules

| Module | What it models |
|---|---|
| `SerialWorker` | abstract: a bounded first-come-first-served worker that loses its backlog with a restart |
| `ChildMailbox` (`ChildMailboxProofs`) | mailbox, runner tasks and reports of one agent; implements `SerialWorker` |
| `AssignmentRun` (`ChildMailboxProofs`) | what a runner does between its start and its report: workspace, executor, upload; implements `ChildMailbox` |
| `JobMemory` (`JobMemoryProofs`) | the records of `JobStore` and their operators (no state) |
| `JobStore` (`JobStoreProofs`) | those records in memory, in SQLite and in an open transaction, with failures and restarts |
| `Dispatch` (`DispatchProofs`) | one parent, its coroutines, the children, the network between |
| `ManagerStore` (`ManagerStoreProofs`) | the SQLite store under its threaded API, with a clock |
| `PostgresManagers` (`PostgresProofs`) | several Managers on one Postgres |
| `AgentPresence` (`PresenceProofs`) | agents of a Host, their heartbeats, the event loop, the Manager's rows, in discrete time |
| `HostConfig` (`HostConfigProofs`) | `agents.yaml`, the `init` command, the Hosts that boot from it and are configured, their id files and rows |
| `MC...` | the small constants of the runs |

    SerialWorker  <-- implemented by --  ChildMailbox  <-- implemented by --  AssignmentRun
                                            (its worker is the child in)
    JobMemory     <-- extended by -----  Dispatch, JobStore

Operators named `...Only`, `...Late` and so on, commented *Mutant*, are deliberately
wrong variants of the definition they stand next to. No next-state relation uses
them: put in its place, each one makes a property fail and so shows that the
property looks at that piece of code.

**ChildMailbox.** A message is one `assign_subtask`; `pc[m]` is where its runner is
(`created` by `create_task`, `running`, `uploading`, `reporting`, `backoff`, `done`, or
`lost` in a restart). `AcceptIdle`, `AcceptQueued`, `RejectBusy` and `RejectSelf` are the four
ends of `_accept_child`; `Release` is the `finally` of `_run_child`, part of the action in
which the last report ends. `inbox` and `served` are history. A code step
between two awaits is one action.

**AssignmentRun** extends `ChildMailbox` and opens its `running` and `uploading`. `BeginRun` makes the
directory and takes the executor the agent has *then*. The loop of `executor.py` takes one LLM
answer per step (`ToolStep`, `AnswerText`, at most `MaxSteps`, then `StepsExhausted`); an OpenCode
process and the echo are one step each; tools and OpenCode leave any set of files, and maybe a process
that goes on writing them (`StrayWrites`). `PutFile` stores one file under the key of its name
(`a/b` and `a\b` share one; a name with `..` is refused) and `UploadRaises` ends the upload in
the middle. `CleanUp` removes the directory before the report begins. `rmtree(ignore_errors=True)` says nothing of what it
cannot remove, so where tools left a process at work (`strays`), or what the Host may not remove (`stuck`: a read-only
directory, one of another user, a mount), the directory may stay with any of its files. `files` are those that `rglob`
finds. `due` is history.

**Dispatch** and **JobMemory.** `memory` is `jobs._jobs`; `proc[p]` one call of `submit_job` or
`forward_subtask`, suspended at the planner, the local executor, the catalog (or
`get_node`) or the assign. `assigns`, `replies` and `reports` are what is on the wire, so
order, delay and loss are the network's choice. A catalog answers any set of
children, which covers a stale one. A child is the serial worker that
`ChildMailbox` is proved to implement, with its report attempts.

**JobStore** puts the same operators over a database. An operation changes `jobs`, then
`_persist` ends well (`Persists`, which commits what an earlier failed commit left behind
too), raises (`PersistRaises`: before the row is written, after it, or with a rollback) or
is cut by a kill (`KilledWriting`). `Stop` and `Start` are an orderly restart. The code keeps no
versions: `version`, `answered` and `raised` are history.

**ManagerStore.** One action per acquisition of the lock: `Expire`, then the body
(`RegisterNode`, `SetMembership`, ...), then `Answer`, which expires once more.
`update_group` reads and writes in two of them. A heartbeat says idle, busy or offline: the agents
never say offline, but the endpoint takes it and the store writes it, so `left` (history) remembers whose last word it was.

**PostgresManagers.** One action per statement that matters to another Manager.
A request goes to any
Manager, as behind the proxy of `docs/guides/deploy.md`. `lock[m]` is held from `SelectGroup` or `SelectNode` to the
write, as in the code; `aborted` is the set of connections left in an aborted
transaction; `overtaken` is history: another Manager wrote in the middle of this thread's section. The behaviour of
Postgres and psycopg (READ COMMITTED, keys, cascade, aborted transactions) is
external and stated at the head of the module.

**AgentPresence.** Timers count down and a coroutine
that is due runs before time goes on, unless an executor holds the loop
(`ExecutorBlocks`). A call to the Manager ends within `Latency`, served or failed (`CallReturns`, `CallFails`), or it is
late (`CallIsLate`) and the client waits on, up to `Patience`, before it gives up. The Manager serves a heartbeat somewhere
between its start and its end, or, if the client has given up, at any time later (`ServeGone`), among later ones and
registrations. `lost` and `late` are history: how many calls failed promptly, and were late, since one was last served.

**HostConfig.** `init` is a process of its own: `OpenFile` empties the yaml, `WriteFile` fills it, `Post`
configures one Host after the other, and it may be killed between any two. `FromFlags` and
`WizardPlans` are what the flags and the prompts make of the file that was there. A Host
boots (`BootReads`, `BootRegisters`, `BootEnds`) with `Boots` of its entry, or is told and takes
`Applies` of it: the code translates an entry twice, and so does the module. The Manager takes
registrations late, in any order, or never. `doubt` and `tears` are history: a Host somebody
was warned about, and id files a kill has emptied.

## 3. The runs

| Run | Instance | Question |
|---|---|---|
| `ChildMailbox` | 3 messages and one of the agent's own, queue of 1, 2 attempts, 1 restart, fair runners | safety of the mailbox, `ImplementsWorker`, `AcceptedIsServed` |
| `AssignmentRun` | 1 assignment and one of the agent's own, 4 file names, 2 keys, 3 LLM steps, 2 attempts, 1 restart, fair runners | results name what is stored and all of it, workspaces go, `ImplementsMailbox` with its liveness |
| `DispatchForward` | 1 job, 1 forward, 2 children, job database, faults, 1 restart | roll-up, one holder, one execution, believed causes, nobody stranded, forward avoids its source |
| `DispatchBatch` | jobs of up to 2 subtasks, given or planned, 2 children with room for 2 each, faults, 1 restart, fairness | a failing subtask strands no other; requests end, mailboxes drain, results arrive |
| `DispatchLateRunning` | 1 job, 1 child, no faults | **violated** |
| `JobStore` | 2 jobs, 1 child, 1 subtask, 4 operations per job, 2 failures, 2 restarts | what was answered survives; what is shown is kept |
| `ManagerStoreRequests` | 2 groups without allow list, 1 node, 2 threads, timeout 1, clock to 3 | groups, membership, freshness of the catalog |
| `PostgresSections` | 2 groups, 1 node, 2 requests at one or two Managers | the foreign key; what the lock of one process protects |
| `PostgresAborted` | 1 group, 1 node, 2 requests, two Managers | **violated** |
| `Presence` | 1 agent, interval 3, timeout 9, latency 1, patience 12, blocking up to 12, 2 calls in a row that fail and 1 that is late, fairness | who lives is offline only by calls that failed or were late; rows are corrected |
| `PresenceBlocked` | 2 agents, blocking up to 12 | **violated** |
| `HostConfig` | two Hosts on one `agents.yaml`, one with an id file, one with an id in its environment, 1 `init`, 1 kill or failed boot, 3 first files | no Host runs something else than its file without a warning; the catalog follows; ids stay |

**Why the bounds suffice.** The mailbox needs one message at work, one waiting, one
refused and one of its own; a restart may take the first two at any point. The order
of several waiting messages is what the refinement proof of section 4 settles for
every queue size. A run has a workspace, files and keys of its own, so one assignment
shows what can happen to it; its four names are two with one key, one with its own and
one that is refused; three LLM steps are a first, a middle and a last. In `Dispatch` two
children are enough for a wrong target, a forward
that must avoid one, and a second holder; two subtasks for "the one behind a failure"
and for a child with one at work and one waiting. The proofs of section 4 need none
of these bounds. A row of `JobStore` that a failed
commit left behind meets the commit of the other job, a second failure, a kill and a
restart after each: two jobs, four operations, two failures, two restarts. Two threads with one node and two
groups are enough for every pair of overlapping requests and for a move between
groups. The clock of `ManagerStoreRequests` lets a node fall silent, be heard of
again and join another group before it ends. Its lists `allow_register` are empty: a list only turns
registrations away, and the theorems of section 4 are about any lists. `HostConfig` has a Host with an id file, as both of
`docker-compose.yml`, and one with an id from its environment, both with `--executor echo`, and as first files none, the
example of the repository, and one with an incomplete second entry. `MaxRestarts`, `MaxClock`, `Losses`, `Delays`,
`MaxBlock`, `MaxVersion`, `MaxFailures`, `MaxInits` and `MaxFaults` are the bounds on what could go
on for ever; `RoundRobinCycle` is a multiple of all pool
sizes, so that the index wraps without changing a choice.

The `Presence` instance is the default configuration: an interval of 5 s is 3 ticks of 5/3 s, the
timeout of 15 s is 9, and the 12 ticks of `Patience` are the 10 s to connect and 10 s for an answer that the client of the Manager
waits (`timeout=10.0`). A prompt call takes up to one tick. `LongestSilence` is then 5 ticks, 9 with one call that
failed promptly, 13 with two, and 20 with one that was late. Expiry is strict, so the defaults tolerate one
failure and no timeout: with `Losses` 2 and `Delays` 1 both sides of that line are among the states, and
`AliveIsNotOffline` says that an agent is marked offline only beyond it. A longer call than a tick counts as late, so nothing is
assumed about the network but that no more calls than these fail or are late in a row. `AliveIsNotOffline` speaks
of the time before an executor holds the event loop (`stalled`), as `BusyIsNotOffline` fails after it.

**Deadlock** is checked where the system goes on for ever (`ManagerStore`,
`PostgresManagers`, `AgentPresence`). The instances of `ChildMailbox`, `AssignmentRun` and `Dispatch` stop
when all their requests are answered, and those of `JobStore` and `HostConfig` when their bounds on
operations and faults are used up.

**Fairness.** `ChildMailbox`: weak fairness of each runner: asyncio runs created
tasks, executors stop, HTTP calls and sleeps end. `AssignmentRun` says why executors stop: it has weak
fairness of the steps of a run only (an LLM call, a put and a report end by their timeouts, subprocesses are
killed by theirs), and the bound on LLM steps must do the rest; that it implements the
fair mailbox is part of `ImplementsMailbox`.
`Dispatch`: weak fairness of each coroutine, of each child and of the network (a message
is delivered or lost). `AgentPresence`: time passes, the Manager answers once no more calls may fail
or be late (`Losses` and `Delays` bound them in a row, not in all), and strong
fairness of the heartbeat loop: a loop that is due is in asyncio's ready queue, which is
served in turn, so other coroutines that block the loop for a while can delay it but not
for ever. No one has to submit, register or send anything.

## 4. What is proved

Each theorem is `Spec => []P` (or `[][A]_vars`, or an implementation), from the named assumption on the
constants of its module, for every value of them. In each module an inductive `Inv`
strengthens the properties, a lemma per action or group of actions shows that it is kept, `NextInv`
combines them and `Invariance` is the temporal conclusion. Every invariant, every safety action property and
the refinement of the serial worker that a passing run checks is proved; where a theorem has a further hypothesis
it is named, and the run satisfies it.

| Module | Theorems |
|---|---|
| `ChildMailboxProofs` | `TypeCorrect`, `OneRunnerHolds`, `StatusTruthfulHolds`, `RunsOnceHolds`, `ReportsAgreeHolds`, `RefinesWorker`; of runs `RunIsMailbox`, `RunRefinesWorker`, `ReportedAreStoredHolds`, `CompletedIsWholeHolds`, `WorkspaceIsGoneHolds` |
| `JobStoreProofs` | `TypeCorrect`, `AnsweredSurvivesHolds`, `ShownIsKeptHolds`, `DiskFollowsMemoryHolds` |
| `DispatchProofs` | `StatusIsRollUpHolds`, `HeldByAssigneeHolds`, `RunsAtMostOnceHolds`, `BeliefHasCauseHolds`, `UndecidedIsAttendedHolds`, `ForwardAvoidsSourceHolds`, `TypeCorrect`, `PickIsOneHolds` |
| `ManagerStoreProofs` | `TypeCorrect`, `NoOrphansHolds`, `CatalogIsFreshHolds`, `OfflineIsSilentHolds`, `DecisionStandsHolds`, `ManualMeansPendingHolds` |
| `PostgresProofs` | `TypeCorrect`, `NoOrphansHolds`, `ReadsStayTrueHolds` |
| `PresenceProofs` | `TypeCorrect`, `AliveIsNotOfflineHolds`, `PromptIsNotOffline` |
| `HostConfigProofs` | `TypeCorrect`, `SettledIsCompleteHolds`, `OneRowPerHostHolds`, `BehindIsWarnedHolds`, `CatalogFollowsHolds` |

**ChildMailboxProofs**, for every finite or infinite set of messages and every
queue size, number of attempts and of restarts. `OneRunner` is not inductive: to know that the handover starts no second runner one must
know that what waits has no runner yet; to know that a message is served once, that
what was served is done. `Inv` therefore adds to `TypeOK`: `RunnerInv` (a task is alive iff it
is that of `current`, and it works on it), `QueueInv` (what waits is accepted, has no task,
is there once, and fits), `AcceptedInv` (a message without a task is refused, unknown or
waits), `ServedInv` and `ReportInv` (how often the parent can have heard, by the phase of the
task). `StatusTruthful` and `RunsOnce` follow
from `Inv` without further induction. The refinement maps `current` and `queue` to one backlog
(`BacklogShape`); `AcceptRefines` and `ReleaseRefines` show that an acceptance is an `Accept` and the end
of a report a `Serve`, and `StepRefines` that all else stutters or is a `Restart`.

Its second half opens the run (`AssignmentRun`), for any executors, files, keys, LLM steps and processes left
behind. `StepIsMailbox`: every step of a run is a step of the mailbox or leaves it alone, so `RunIsMailbox` (the
safety half of `ImplementsMailbox`) gives a run all that is proved of the mailbox, and `RunRefinesWorker` follows at once.
`RunInv` is one row per message: `StoreInv` (what is stored is what was sent, and what is told of it, by
the phase), `WholeInv` (no file of the executor is lost unless a process was left behind) and `GoneInv` (the workspace of a run
that was cleaned up is there only if tools left a process or something that cannot be removed). A
step is about one message; `OthersPass` and `SameRowKeeps` say once for all of them that the rows of the others stand,
however the mailbox moves those messages meanwhile. That an object's key is that of its file must be
part of the invariant (`RunTypeOK`): a later put of the same key replaces the file, not the key.

**JobStoreProofs**, for any number of jobs, subtasks, failures and restarts. That what was answered survives needs
`DiskFollowsMemory`: a row in the open transaction is newer than the committed one and no newer than
memory, so the commit of one job, which takes the rows of the others along, never takes one back
in time; and `DownIsEmpty`: a process that is down has no memory and no transaction. `JobMemoryProofs` shows
of each operation of `JobStore` that the job it returns is well typed and carries its
roll-up; the module is also the ground of `DispatchProofs`.

**DispatchProofs**, for any number of jobs, forwards, children and subtasks, any capacity and any number of restarts
and lost messages. A subtask is named by its job and its place there, and the proof is over `Names`, the
pairs of a job and any positive number: the model's bound on subtasks is not used. `Inv` has two halves.
`ParentInv`: memory is well typed and rolled up (`MemoryOK`); each coroutine is where its job is, and two
work on different subtasks (`ProcOK`, from `Placed` and `Apart`); what a coroutine has still to send (`Fresh`)
nobody has heard of (`FreshOK`); who holds a subtask is whom the record names (`HeldOK`); the undecided
are attended, the believed has a cause, a forward avoids its source. `NetInv`: what a
child works on is what waits first (`AtWork`), an assignment is on its way, waiting, at work or over (`OnItsWay`), and all verdicts on a
subtask agree (`OneVerdict`). `FreshOK` is what makes the rest inductive: an assign can only be the first one for its
subtask if nothing in the world knows that name yet, whatever was lost or is late. The lemmas divide the
steps by what they disturb: `MovesKeep` for every step of a coroutine that sends nothing, `AssignToKeeps` for the one
that sends, `DeathsKeep` for those that raise or die in a restart, `ParentKeeps` for the steps of children
and network, `ResultKeepsParent` for a result that comes in.

`TypeCorrect` is where that bound counts, and the one theorem here that needs finitely many forwards: it says that no
message, mailbox or history is ever about a subtask beyond those of the request or plan and one per forward. The
length of a job's list alone is not inductive: a planned list still grows, and so does that of a
job that is forwarded. `Counted` bounds the length together with what the coroutine will still add (`Ahead`), by the
request and the forwards made so far (`ForwardsOf`); `CountOfOne` shows once for every step that what
a coroutine adds it no longer has ahead. `PickIsOneHolds` says that `pick_dispatch_target` is well defined, whatever
the catalog offers: the jobs in memory are finitely many, so loads are numbers and some
candidate has the least (`LeastOf`), and the ranks of the least loaded are 0, 1, 2, ..., each once
(`RankIsUnique`), so `_rr_index % len(pool)` names exactly one. No answer of a catalog can block a dispatch.

**ManagerStoreProofs**, for any number of threads, groups and nodes, any timeout and clock. `Progress` says that a thread is
only where its request leads; `CatalogIsFresh` needs `FreshSince`: whoever is not offline after the expiry
of a query was heard from since the cutoff of that query, whatever other threads do before its SELECT. `DecisionStands` and
`ManualMeansPending` are action properties, from the same invariant; the second uses the first, as a member that comes back
is listed only if its membership was approved before, or is being changed by an approval (`MembershipChanges`).
`OfflineIsSilent` carries the nodes that said offline (`left`) through every step.

**PostgresProofs**, for any number of Managers, threads, groups and nodes. `Progress` again:
whoever is about to
write a policy or a registration has read a join mode. Without it, an `UPDATE` could write
what no row may hold. The lemmas `FinishKeeps`, `CommittedKeeps` and `MarkedKeeps` say what all steps share; then one
lemma per statement. The foreign key carries the case of `StoreNode`, the cascade that of
`DeleteGroup`, and the locks none: the theorem holds for Managers that exclude nobody.
`ReadsStayTrue` is where the locks count. `Guarded` adds that a thread in a section has the lock of its Manager;
then a step of another thread of that Manager is impossible (`OthersWait`), and a step at another Manager
either leaves the tables alone or marks the section as overtaken (`OthersGuarded`).

**PresenceProofs**, for any number of agents, and any interval, timeout, latency and patience, and any number of calls
in a row that fail or are late; there is no hypothesis about how these compare. The invariant is a budget: `LongestSilence` is what
the calls since the last heartbeat account for, `UntilServed` the time to the next heartbeat if no more fail, and `OnTime` says that the age
of a row and that time stay within the budget; `TimersFit` bounds the timers. A prompt failure adds a round to both
sides and a late call its wait; a heartbeat that is served sets the budget back (`ServeKeeps`). `PromptIsNotOffline` is
the case of no such call, where `Interval + 2 * Latency <= Timeout`, which the defaults meet (5 <= 9).

**HostConfigProofs**, for any number of Hosts, ids, entries, `init` commands and kills, and any first
files. `SettledIsComplete` is a fact about flags and plans, which `InitSteps` carries. `OneRowPerHost` is a budget
again: `Mention` says where an id of a Host may be (the process, its file, the environment, a registration on
its way, a row), and `Budget` that these are at most one more than its tears, and no more than its tears while a Host that is
down would find no id: that is what a boot with a new uuid spends. `IdsStay` and `IdIsMade` sort the steps into those that make no id
and the one that does. `BehindIsWarned` needs `Current`, which is about Hosts that boot or run with what
their entry gives, and `InitOK`, as the Host that `init` has posted to is ahead of its report. `CatalogFollows` is
about registrations that may be taken in any order: `Owned` (an id is one Host's), `Latest` (the last registration is
the newest that can be taken) and `Followed` (whatever is still to be taken and is not old says what the agent is).

Three hypotheses say what a deployment must be for the last two; each is needed, as section 6 tells.
`Catalogued` (both): the first files name what was discovered in an opencode entry, as `init` does, for a boot adds it
and `/configure` does not. `Plain` (`BehindIsWarned`): environment and flags give no LLM, for a boot uses one and
`/configure` does not. `Named` (`CatalogFollows`): each Host has a name and an id of its own
and its entry at its own place, for two Hosts with one id share a row. `MCHostConfig` assumes all three, so the run
evaluates them on its instance.

Only model-checked: liveness (`AcceptedIsServed`, `CoroutinesEnd`, `BacklogsDrain`, `ResultsArrive`, `RowFollows`, and
the fair half of `ImplementsMailbox`), which is out of the prover's reach (as are `ENABLED`, induction over data and recursive
operators, which the project does not use). `ManagerStore.TypeOK` and `AgentPresence.TypeOK` are
proved, and for that reason not among the invariants of the runs.

## 5. What the checks found

Each is a run expected to violate the property that states the documentation.

1. **A result overwritten by RUNNING** (`DispatchLateRunning`; `runtime.py:602`). The child
   may run and report before the parent's coroutine resumes from the answered assign,
   which then writes RUNNING over COMPLETED. The job stays running.
2. **A Manager that answers 500 for ever** (`PostgresAborted`; `postgres_store.py:252`). A refused
   statement of `register_node` leaves the connection in an aborted transaction; only
   `create_group` rolls back. It needs a second Manager: by
   `ReadsStayTrue` what one reads under its lock holds when it writes, unless another overtook it.
3. **Working agents offline** (`PresenceBlocked`; `opencode.py:201`). A subprocess is awaited on
   the event loop, so a task of more than 15 s silences its whole Host.

## 6. Also met

Behaviour of the code that the models contain, and that no document, comment or test
contradicts clearly enough to state it as a violated property.

* *Lost update.* `update_group` is a read-modify-write over two acquisitions of the lock (`store.py:188`): of two PATCHes at once
  that change different fields, one may undo the other.
* *Lost decision.* An approval through one Manager between the SELECT and UPDATE of a registration at
  another is overwritten (`postgres_store.py:219`). Within one Manager the lock prevents it.
* *Phantom job.* A `create` that raised has put the job in memory already, so it is listed until the next restart.
* *Workspaces that stay.* The overview (`docs/concepts/overview.md:38`) says that a workspace is always deleted at the end of its
  assignment. `rmtree(ignore_errors=True)` leaves, and does not tell of, what the Host may not remove: read-only directories, files of other users, mounts.
  `run_shell` kills or awaits the shell only: what it started in the background may write to the
  workspace during the upload, and keep the directory from being removed. A kill of the Host leaves it too.
* *Unread files.* A directory that the Host may not read is passed over by `rglob`: its files are not uploaded, and the result is COMPLETED.
* *One timeout is too many.* By the defaults a single heartbeat call that the client waits for to its end (10 s and more, and a
  sleep of 5 s after it) takes an agent that lives beyond the 15 s of the Manager: it is offline until its next heartbeat.
* *Offline by request.* The API takes a heartbeat that says offline; the node is then offline and fresh, until it says something else.
* *Shared keys.* `a/b` and `a\b` in one workspace are one object in the store; the result names it twice, and the last put stays.
* *Two translations of one entry.* With an LLM in its environment, a Host that is configured loses the planner a boot would give it.
  A hand-written opencode entry with plain skills gets the discovered skills added by a boot and not by `/configure`,
  which also drops the `--opencode-*` flags of its Host. `--executor echo --llm-url X` becomes `auto`; `--force --provider echo` on a file with
  opencode entries stays opencode; a name changed in the wizard is found by `init`, which goes by order, and not
  by the next boot, which goes by name. A file torn by a kill, and then `--executor agent --llm-url ""`, stays incomplete.
  `Catalogued`, `Plain` and `Named` leave these out of the instance and of two theorems; `BehindIsWarned` asks that
  an entry stand where its name is; `Settles` names the flags that leave nothing open.
* *Identity.* A Host without an id file, or with one that a kill left empty, takes a new id at its next boot: a new row, and
  with several agents in the Host another path of the job database. Jobs that are reloaded carry the old id and
  cannot be forwarded any more.
* *Left alone.* After its group is deleted an agent heartbeats into 404 until it is restarted or configured. A local executor
  that raises leaves its job RUNNING. An HTTP error of the catalog leaves `submit_job` as an exception with its
  later subtasks PENDING (`UndecidedIsAttended` excuses the subtasks of a coroutine that raised).
* *Answers.* A forward of a subtask of the job in service is
  refused with a 409 where the documentation says 404; a child is said to download the
  artifacts of its source, which no code does.

## 7. What is not modelled

* Text: prompts, parsing of plans and model specs, formatting, providers, the probing of LLM URLs, and `ctl`, which is
  one HTTP call per command.
* Capabilities and specs: pure probing and parsing. `HostConfig` keeps whether discovered names are among the skills and tools.
* A Host of several agents whose start fails halfway, and `close`. Two `init` commands at once, or an editor on the file.
* The objects of a `MemoryArtifactStore` (the default without S3 settings), which are lost with its process: in `AssignmentRun` objects
  stay through a restart, as those of S3 do.
* Where in time the clock is read before the lock is taken (`_expire_offline`): it is read in the same step.
* Row locks of Postgres, and the deadlocks of two Managers' `UPDATE`s of several rows.
* In `Dispatch`, the parent as a child of another parent. A parent is not in its own catalog,
  and the re-dispatch guard on the job of `_current_child` then cannot fire.
* Machine, models, skills and tools as catalog filters (a catalog answers any subset
  in `Dispatch`; `ManagerStore` keeps the default `idle_only` filter).
* Authentication: one comparison per request, without state.

## 8. Plan

Done: the mailbox, runs with workspace and upload, dispatch, job records with their database, both Manager stores, presence,
and the configuration of Hosts; proofs of the safety of each. What would come next:

1. `Catalog`: `catalog_matches` and `filter_catalog_nodes` as operators against a reference definition of who is
   eligible (`pick_dispatch_target` is in `Dispatch`).
2. A composition of parent, Manager and agents: `Dispatch` with the catalog of `ManagerStore` and
   rows that follow `AgentPresence`; deleted groups, nodes that register again while they work, and the
   agent that is parent and child at once.
3. A Host of several agents: a start that fails halfway, `close` with runners at work.
4. Proofs: that a `JobStore` whose writes succeed gives `Dispatch` the memory it relies on after a restart (a
   refinement), and up to which time an executor may hold the event loop for the agents of its Host to stay online.
