---------------------------- MODULE AgentPresence ----------------------------
(***************************************************************************)
(* How the Cluster Manager's row of an agent follows the agent: the agents *)
(* of one Host (src/mycoagent/node/runtime.py) on their common event loop, *)
(* the heartbeat loop of each, registration and re-registration, and the   *)
(* Manager that takes heartbeats and marks the silent ones offline.        *)
(*                                                                         *)
(* Time is discrete.  Timers count down; a coroutine whose timer is at     *)
(* zero runs before time goes on, unless the loop is blocked.              *)
(*                                                                         *)
(* The event loop is blocked by what an executor does without an await:    *)
(* OpenCodeExecutor.run waits for its subprocess, and the shell tool of    *)
(* ChildAgentExecutor for its command, on the loop itself.                 *)
(*                                                                         *)
(* A call to the Manager is prompt, and ends within Latency, or it is      *)
(* late: then the client waits for it until its patience is at an end      *)
(* (timeout=10.0 of ManagerClient: 10 s to connect, and 10 s for an        *)
(* answer) and gives up; the request may still be on its way, and the      *)
(* Manager serve it when the loop has long gone on.                        *)
(*                                                                         *)
(* Abstractions.  A heartbeat call is served by the Manager at one instant *)
(* (ManagerStore.tla has the steps inside), and so is a registration.      *)
(* The mailbox is its busy bit (ChildMailbox.tla).                         *)
(***************************************************************************)
EXTENDS Naturals

CONSTANTS Agents,       \* the agents of the Host
          Interval,     \* heartbeat_interval, in ticks
          Timeout,      \* heartbeat_timeout, in ticks
          Latency,      \* longest a prompt call to the Manager takes, in ticks
          Patience,     \* longest the client waits for a call, in ticks
          MaxBlock,     \* longest an executor holds the event loop, in ticks
          Losses,       \* bound on an agent's calls in a row that fail promptly
          Delays        \* bound on an agent's calls in a row that are late

ASSUME PresenceAssumption ==
    /\ Interval \in Nat \ {0} /\ Timeout \in Nat
    /\ Latency \in Nat /\ Patience \in Nat /\ Latency <= Patience
    /\ MaxBlock \in Nat /\ Losses \in Nat /\ Delays \in Nat

VARIABLES
    row,        \* the Manager's row of an agent: its status, the age of last_seen
    busy,       \* AgentRuntime.status
    loop,       \* the heartbeat loop: where it is, its timer, the call's content
    gone,       \* what the heartbeats given up say that may yet be served
    blocked,    \* how long the event loop is still blocked
    lost,       \* history: since an agent's call was last served, how many failed promptly
    late,       \* history: how many were late, the one that was served included
    stalled     \* history: an executor has held the event loop

history == <<lost, late, stalled>>
vars == <<row, busy, loop, gone, blocked, history>>

Statuses == {"idle", "busy"}
NoRow    == [status |-> "none", age |-> 0]
Calling  == {"calling", "served"}

Init == /\ row = [a \in Agents |-> NoRow]
        /\ busy = [a \in Agents |-> "idle"]
        /\ loop = [a \in Agents |-> [at |-> "off", timer |-> 0, says |-> "idle", late |-> FALSE]]
        /\ gone = [a \in Agents |-> {}]
        /\ blocked = 0
        /\ lost = [a \in Agents |-> 0] /\ late = [a \in Agents |-> 0]
        /\ stalled = FALSE

Known(a) == row[a].status # "none"

-----------------------------------------------------------------------------
(* The agent.                                                              *)

\* start and apply_config: register_node answers with a fresh idle row, and
\* start creates the task of the heartbeat loop.
Register(a) ==
    /\ blocked = 0
    /\ row' = [row EXCEPT ![a] = [status |-> "idle", age |-> 0]]
    /\ loop' = IF loop[a].at = "off"
               THEN [loop EXCEPT ![a] = [@ EXCEPT !.at = "sleeping", !.timer = 0]]
               ELSE loop
    /\ UNCHANGED <<busy, gone, blocked, history>>

\* Mutant: the busy bit is read when the agent starts, and never again.
WakeUpStale(a) ==
    /\ blocked = 0
    /\ loop[a].at = "sleeping" /\ loop[a].timer = 0
    /\ loop' = [loop EXCEPT ![a] = [@ EXCEPT !.at = "calling", !.timer = Latency]]
    /\ UNCHANGED <<row, busy, gone, blocked, history>>

\* _heartbeat_loop wakes, reads the busy bit and calls the Manager.
WakeUp(a) ==
    /\ blocked = 0
    /\ loop[a].at = "sleeping" /\ loop[a].timer = 0
    /\ loop' = [loop EXCEPT ![a] = [at |-> "calling", timer |-> Latency, says |-> busy[a],
                                    late |-> FALSE]]
    /\ UNCHANGED <<row, busy, gone, blocked, history>>

\* Mutant: the loop sleeps one interval too long.
SleepLonger(a) ==
    loop' = [loop EXCEPT ![a] = [@ EXCEPT !.at = "sleeping", !.timer = Interval + 1, !.late = FALSE]]

Sleep(a) ==
    loop' = [loop EXCEPT ![a] = [@ EXCEPT !.at = "sleeping", !.timer = Interval, !.late = FALSE]]

\* A call that was served is over: its answer is here, a 404 included, or does
\* not come.  The loop logs what it raises, and sleeps.
CallReturns(a) ==
    /\ blocked = 0
    /\ loop[a].at = "served"
    /\ Sleep(a)
    /\ UNCHANGED <<row, busy, gone, blocked, history>>

\* A call that was not served fails, refused, cut off, or given up when it is
\* late.  The loop logs the exception and sleeps; the Manager may yet serve it.
CallFails(a) ==
    /\ blocked = 0
    /\ loop[a].at = "calling"
    /\ IF loop[a].late THEN UNCHANGED lost
       ELSE lost[a] < Losses /\ lost' = [lost EXCEPT ![a] = @ + 1]
    /\ gone' \in {gone, [gone EXCEPT ![a] = @ \union {loop[a].says}]}
    /\ Sleep(a)
    /\ UNCHANGED <<row, busy, blocked, late, stalled>>

\* _accept_child on an idle agent, and the end of its last queued subtask.
WorkChanges(a) ==
    /\ blocked = 0 /\ loop[a].at # "off"
    /\ busy' = [busy EXCEPT ![a] = IF @ = "idle" THEN "busy" ELSE "idle"]
    /\ UNCHANGED <<row, loop, gone, blocked, history>>

\* The executor of an agent at work holds the event loop of all of them.
ExecutorBlocks(a, d) ==
    /\ blocked = 0 /\ busy[a] = "busy"
    /\ blocked' = d
    /\ stalled' = TRUE
    /\ UNCHANGED <<row, busy, loop, gone, lost, late>>

-----------------------------------------------------------------------------
(* The network and the Manager.                                            *)

\* The call is not over within Latency: the client waits on.
CallIsLate(a) ==
    /\ loop[a].at \in Calling /\ loop[a].timer = 0 /\ ~loop[a].late
    /\ late[a] < Delays
    /\ loop' = [loop EXCEPT ![a] = [@ EXCEPT !.timer = Patience - Latency, !.late = TRUE]]
    /\ late' = [late EXCEPT ![a] = @ + 1]
    /\ UNCHANGED <<row, busy, gone, blocked, lost, stalled>>

\* ManagerStore.heartbeat; a node that is not there gets a 404.
Heard(a, s) == row' = IF Known(a) THEN [row EXCEPT ![a] = [status |-> s, age |-> 0]] ELSE row

ServeHeartbeat(a) ==
    /\ loop[a].at = "calling"
    /\ Heard(a, loop[a].says)
    /\ loop' = [loop EXCEPT ![a].at = "served"]
    /\ lost' = [lost EXCEPT ![a] = 0]
    /\ late' = [late EXCEPT ![a] = IF loop[a].late THEN 1 ELSE 0]
    /\ UNCHANGED <<busy, gone, blocked, stalled>>

\* The Manager serves a heartbeat whose client has given up; there may be more
\* that say the same.
ServeGone(a, s) ==
    /\ s \in gone[a]
    /\ gone' \in {gone, [gone EXCEPT ![a] = @ \ {s}]}
    /\ Heard(a, s)
    /\ UNCHANGED <<busy, loop, blocked, history>>

\* _expire_offline, at the head of whatever request anyone makes.
ExpireOffline ==
    /\ row' = [a \in Agents |-> IF Known(a) /\ row[a].age > Timeout
                                THEN [row[a] EXCEPT !.status = "offline"] ELSE row[a]]
    /\ UNCHANGED <<busy, loop, gone, blocked, history>>

\* The group of the agents is deleted, and their rows with it.
GroupDeleted ==
    /\ row' = [a \in Agents |-> NoRow]
    /\ UNCHANGED <<busy, loop, gone, blocked, history>>

-----------------------------------------------------------------------------
Minus1(n) == IF n = 0 THEN 0 ELSE n - 1

\* A call may wait until its timer is out, a sleeper until it is due; while the
\* loop is blocked, only a prompt call that was not served yet is not free to.
MayWait(a) == \/ loop[a].at = "off"
              \/ loop[a].timer > 0
              \/ blocked > 0 /\ (loop[a].at # "calling" \/ loop[a].late)

Tick ==
    /\ \A a \in Agents : MayWait(a)
    /\ blocked' = Minus1(blocked)
    /\ loop' = [a \in Agents |-> [loop[a] EXCEPT !.timer = Minus1(@)]]
    /\ row' = [a \in Agents |->
                  IF Known(a) /\ row[a].age <= Timeout THEN [row[a] EXCEPT !.age = @ + 1]
                  ELSE row[a]]
    /\ UNCHANGED <<busy, gone, history>>

HeartbeatLoop(a) == WakeUp(a) \/ CallReturns(a) \/ CallFails(a)

Next == \/ \E a \in Agents : \/ Register(a) \/ WorkChanges(a)
                             \/ HeartbeatLoop(a) \/ CallIsLate(a) \/ ServeHeartbeat(a)
                             \/ \E s \in Statuses : ServeGone(a, s)
                             \/ \E d \in 1..MaxBlock : ExecutorBlocks(a, d)
        \/ ExpireOffline \/ GroupDeleted
        \/ Tick

Spec == Init /\ [][Next]_vars

(* Time passes and the Manager answers.  asyncio runs what is due in turn, *)
(* so a loop that is due runs between two executors that block: strong     *)
(* fairness, as each of them disables it for a while.                      *)
Fairness == /\ WF_vars(Tick)
            /\ \A a \in Agents : /\ SF_vars(HeartbeatLoop(a))
                                 /\ WF_vars(ServeHeartbeat(a))

FairSpec == Spec /\ Fairness

-----------------------------------------------------------------------------
(* Properties.                                                             *)

TypeOK ==
    /\ row \in [Agents -> [status : Statuses \union {"none", "offline"}, age : 0..(Timeout + 1)]]
    /\ busy \in [Agents -> Statuses]
    /\ loop \in [Agents -> [at : {"off", "sleeping"} \union Calling,
                            timer : (0..Interval) \union (0..Patience), says : Statuses,
                            late : BOOLEAN]]
    /\ gone \in [Agents -> SUBSET Statuses]
    /\ blocked \in 0..MaxBlock
    /\ lost \in [Agents -> 0..Losses] /\ late \in [Agents -> 0..Delays]
    /\ stalled \in BOOLEAN

\* The longest the Manager can have been without word from an agent whose event
\* loop is free: the end of the call that was served last, a round of the loop,
\* another for each call since then that failed promptly, and the whole wait for
\* each that was late.
LongestSilence(a) ==
    Latency + (lost[a] + 1) * (Interval + Latency) + late[a] * (Interval + Patience)

\* An agent whose event loop is free is marked offline only if since its last
\* heartbeat so many calls failed or were late that their rounds and waits add up
\* to more than heartbeat_timeout, however calls, work, registrations and the
\* other agents interleave.  By the defaults one call in a row that fails promptly
\* is never too much; one that times out is.
AliveIsNotOffline ==
    ~stalled => \A a \in Agents : row[a].status = "offline" => LongestSilence(a) > Timeout

\* The row is corrected: what a registration or a heartbeat served late made of
\* it, an agent that stays idle (or busy) is shown so again and again, unless its
\* group was deleted.
RowFollows ==
    \A a \in Agents, s \in Statuses :
        <>[](busy[a] = s /\ loop[a].at # "off") /\ <>[][~Register(a)]_vars
            => []<>(row[a].status \in {s, "none"})

\* Agents send a heartbeat about every interval ("about every 5 seconds",
\* docs/reference/faq.md:18), so a Host whose agents work keeps them in the catalog
\* while no call fails or is late.
BusyIsNotOffline ==
    \A a \in Agents : busy[a] = "busy" /\ lost[a] = 0 /\ late[a] = 0 => row[a].status # "offline"
=============================================================================
