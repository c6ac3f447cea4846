--------------------------- MODULE PresenceProofs ---------------------------
(***************************************************************************)
(* Proofs about AgentPresence, for any number of agents and any interval,  *)
(* timeout, latency and patience: how many calls have to fail or be late   *)
(* before a live agent is marked offline.                                  *)
(***************************************************************************)
EXTENDS AgentPresence, TLAPS

\* A round of the heartbeat loop, a sleep and a prompt call; and one whose call is
\* waited for to the end.
Round == Interval + Latency
Wait  == Interval + Patience

Timers    == (0..Interval) \union (0..Patience)
LoopState == [at : {"off", "sleeping"} \union Calling, timer : Timers, says : Statuses,
              late : BOOLEAN]
RowState  == [status : Statuses \union {"none", "offline"}, age : 0..(Timeout + 1)]

-----------------------------------------------------------------------------
(* The inductive invariant.                                                *)

\* How long it takes at most until the Manager is served the next heartbeat, if no
\* more calls fail or are late.  A late call may still turn out to be in vain.
UntilServed(a) ==
    CASE loop[a].at = "sleeping"                   -> loop[a].timer + Latency
      [] loop[a].at = "calling" /\ ~loop[a].late   -> loop[a].timer
      [] OTHER                                     -> loop[a].timer + Round

\* While nothing has held the event loop, a row is served again before it is older
\* than what its agent's calls since its last heartbeat account for.
OnTime ==
    ~stalled => /\ blocked = 0
                /\ \A a \in Agents : Known(a) => row[a].age + UntilServed(a) <= LongestSilence(a)

\* A sleep is no longer than the interval, a prompt call than the latency, and a
\* late call, which is counted, than what is left of the client's patience.
LoopFits(l, d) ==
    /\ l.at \in {"off", "sleeping"} => l.timer <= Interval
    /\ l.at \in Calling /\ ~l.late => l.timer <= Latency
    /\ l.late => l.at \in Calling /\ l.timer <= Patience - Latency /\ d >= 1

TimersFit == \A a \in Agents : /\ Known(a) => loop[a].at # "off"
                               /\ LoopFits(loop[a], late[a])

Inv == TypeOK /\ TimersFit /\ OnTime /\ AliveIsNotOffline

-----------------------------------------------------------------------------
(* Arithmetic.                                                             *)

LEMMA Numbers ==
    /\ Interval \in Nat /\ Latency \in Nat /\ Patience \in Nat /\ Timeout \in Nat
    /\ MaxBlock \in Nat /\ Losses \in Nat /\ Delays \in Nat /\ Latency <= Patience
    /\ Round \in Nat /\ Wait \in Nat /\ Round = Interval + Latency /\ Wait = Interval + Patience
    /\ Patience - Latency \in Nat /\ Patience - Latency <= Patience
  BY PresenceAssumption DEF Round, Wait

\* What l failed and d late calls account for.
Silence(l, d) == Latency + (l + 1) * Round + d * Wait

LEMMA SilenceGrows ==
    ASSUME NEW l \in Nat, NEW d \in Nat
    PROVE  /\ Silence(l, d) \in Nat
           /\ Silence(l + 1, d) = Silence(l, d) + Round
           /\ Silence(l, d + 1) = Silence(l, d) + Wait
           /\ Silence(l, d) >= Latency + Round
           /\ d >= 1 => Silence(l, d) >= Latency + Round + Wait
<1>1. \A k, r \in Nat : (k + 1) * r = k * r + r /\ k * r \in Nat
  OBVIOUS
<1>2. l * Round \in Nat /\ d * Wait \in Nat /\ Latency \in Nat /\ Round \in Nat /\ Wait \in Nat
  BY <1>1, Numbers
<1>3. /\ (l + 1) * Round = l * Round + Round
      /\ (l + 1 + 1) * Round = l * Round + Round + Round
      /\ (d + 1) * Wait = d * Wait + Wait
  BY <1>1, <1>2
<1>4. d >= 1 => d * Wait >= Wait
  <2> SUFFICES ASSUME d >= 1 PROVE d * Wait >= Wait
    OBVIOUS
  <2>1. PICK k \in Nat : d = k + 1
    <3>1. d - 1 \in Nat /\ d = (d - 1) + 1
      OBVIOUS
    <3>2. QED
      BY <3>1
  <2>2. d * Wait = k * Wait + Wait /\ k * Wait \in Nat
    BY <1>1, <1>2, <2>1
  <2>3. QED
    BY <1>2, <2>2
<1>5. QED
  BY <1>2, <1>3, <1>4 DEF Silence

\* LongestSilence is that of the calls that are counted.
LEMMA SilenceIs ==
    ASSUME TypeOK, NEW a \in Agents
    PROVE  /\ LongestSilence(a) = Silence(lost[a], late[a])
           /\ lost[a] \in Nat /\ late[a] \in Nat /\ LongestSilence(a) \in Nat
<1>1. lost[a] \in Nat /\ late[a] \in Nat
  BY Numbers DEF TypeOK
<1>2. LongestSilence(a) = Silence(lost[a], late[a])
  BY DEF LongestSilence, Silence, Round, Wait
<1>3. QED
  BY <1>1, <1>2, SilenceGrows

LEMMA TimersAre ==
    /\ Interval \in Timers /\ Latency \in Timers /\ 0 \in Timers /\ Patience - Latency \in Timers
    /\ \A t \in Timers : t \in Nat
  BY Numbers DEF Timers

LEMMA TimerRuns ==
    ASSUME NEW t \in Timers
    PROVE  /\ Minus1(t) \in Timers /\ Minus1(t) <= t /\ Minus1(t) \in Nat
           /\ t > 0 => Minus1(t) = t - 1
<1>1. t \in Nat /\ Interval \in Nat /\ Patience \in Nat
  BY Numbers DEF Timers
<1>2. CASE t = 0
  BY <1>2, TimersAre DEF Minus1
<1>3. CASE t # 0
  <2>1. Minus1(t) = t - 1
    BY <1>3 DEF Minus1
  <2>2. QED
    BY <1>1, <1>3, <2>1 DEF Timers
<1>4. QED
  BY <1>2, <1>3

LEMMA UntilIs ==
    ASSUME TypeOK, NEW a \in Agents
    PROVE  UntilServed(a) \in Nat /\ loop[a].timer \in Nat /\ row[a].age \in Nat
<1>1. loop[a].timer \in Nat /\ row[a].age \in Nat
  BY Numbers DEF TypeOK
<1>2. QED
  BY <1>1, Numbers DEF UntilServed

-----------------------------------------------------------------------------
(* Steps of one agent.                                                     *)

USE DEF RowState, LoopState, Timers

\* A step that changes no more than the row, the loop, the heartbeats given up and
\* the counts of one agent, and leaves it on time, keeps the invariant.
LEMMA OneAgent ==
    ASSUME Inv, NEW a \in Agents, NEW r \in RowState, NEW l \in LoopState,
           row' = [row EXCEPT ![a] = r], loop' = [loop EXCEPT ![a] = l],
           gone' \in [Agents -> SUBSET Statuses],
           lost' \in [Agents -> 0..Losses], late' \in [Agents -> 0..Delays],
           \A b \in Agents \ {a} : lost'[b] = lost[b] /\ late'[b] = late[b],
           UNCHANGED <<busy, blocked, stalled>>,
           r.status # "none" => l.at # "off",
           LoopFits(l, late'[a]),
           ~stalled /\ r.status # "none" => r.age + UntilServed(a)' <= LongestSilence(a)',
           ~stalled /\ r.status = "offline" => LongestSilence(a)' > Timeout
    PROVE  Inv'
<1>1. TypeOK'
  BY DEF Inv, TypeOK
<1>2. row'[a] = r /\ loop'[a] = l /\ \A b \in Agents \ {a} : row'[b] = row[b] /\ loop'[b] = loop[b]
  BY DEF Inv, TypeOK
<1>3. TimersFit'
  BY <1>2 DEF Inv, TimersFit, Known
<1>4. \A b \in Agents \ {a} : /\ UntilServed(b)' = UntilServed(b)
                              /\ LongestSilence(b)' = LongestSilence(b)
  BY <1>2 DEF UntilServed, LongestSilence
<1>5. OnTime'
  BY <1>2, <1>4 DEF Inv, OnTime, Known
<1>6. AliveIsNotOffline'
  BY <1>2, <1>4 DEF Inv, AliveIsNotOffline
<1>7. QED
  BY <1>1, <1>3, <1>5, <1>6 DEF Inv

\* What the invariant says of one agent, for the steps below.
LEMMA OfOne ==
    ASSUME Inv, NEW a \in Agents
    PROVE  /\ row[a] \in RowState /\ loop[a] \in LoopState
           /\ row[a].age \in Nat /\ loop[a].timer \in Nat /\ UntilServed(a) \in Nat
           /\ LongestSilence(a) \in Nat /\ lost[a] \in Nat /\ late[a] \in Nat
           /\ LongestSilence(a) = Silence(lost[a], late[a])
           /\ LongestSilence(a) >= Latency + Round
           /\ late[a] >= 1 => LongestSilence(a) >= Latency + Round + Wait
           /\ LoopFits(loop[a], late[a]) /\ (Known(a) => loop[a].at # "off")
           /\ ~stalled /\ Known(a) => row[a].age + UntilServed(a) <= LongestSilence(a)
           /\ ~stalled /\ row[a].status = "offline" => LongestSilence(a) > Timeout
<1>1. TypeOK /\ TimersFit /\ OnTime /\ AliveIsNotOffline
  BY DEF Inv
<1>2. row[a] \in RowState /\ loop[a] \in LoopState
  BY <1>1 DEF TypeOK, Timers
<1>3. /\ LongestSilence(a) = Silence(lost[a], late[a])
      /\ lost[a] \in Nat /\ late[a] \in Nat /\ LongestSilence(a) \in Nat
  BY <1>1, SilenceIs
<1>4. /\ LongestSilence(a) >= Latency + Round
      /\ late[a] >= 1 => LongestSilence(a) >= Latency + Round + Wait
  BY <1>3, SilenceGrows
<1>5. row[a].age \in Nat /\ loop[a].timer \in Nat /\ UntilServed(a) \in Nat
  BY <1>1, UntilIs
<1>6. /\ LoopFits(loop[a], late[a]) /\ (Known(a) => loop[a].at # "off")
      /\ ~stalled /\ Known(a) => row[a].age + UntilServed(a) <= LongestSilence(a)
      /\ ~stalled /\ row[a].status = "offline" => LongestSilence(a) > Timeout
  BY <1>1 DEF TimersFit, OnTime, AliveIsNotOffline
<1>7. QED
  BY <1>2, <1>3, <1>4, <1>5, <1>6

\* The Manager hears from the agent: its row is fresh, and there is time for what
\* is left of the loop's round.
LEMMA HeardInTime ==
    ASSUME Inv, NEW a \in Agents
    PROVE  UntilServed(a) <= LongestSilence(a) \/ loop[a].at = "off"
<1>1. /\ loop[a].timer \in Nat /\ LongestSilence(a) \in Nat
      /\ LongestSilence(a) >= Latency + Round
      /\ late[a] >= 1 => LongestSilence(a) >= Latency + Round + Wait
      /\ LoopFits(loop[a], late[a]) /\ loop[a] \in LoopState
  BY OfOne
<1>2. CASE loop[a].at = "sleeping"
  BY <1>1, <1>2, Numbers DEF UntilServed, LoopFits
<1>3. CASE loop[a].at \in Calling /\ ~loop[a].late
  BY <1>1, <1>3, Numbers DEF UntilServed, LoopFits, Calling
<1>4. CASE loop[a].at \in Calling /\ loop[a].late
  <2>1. loop[a].timer <= Patience - Latency /\ late[a] >= 1
    BY <1>1, <1>4 DEF LoopFits
  <2>2. UntilServed(a) = loop[a].timer + Round
    BY <1>4 DEF UntilServed, Calling
  <2>3. QED
    BY <1>1, <2>1, <2>2, Numbers
<1>5. QED
  BY <1>1, <1>2, <1>3, <1>4 DEF Calling

LEMMA RegisterKeeps == ASSUME Inv, NEW a \in Agents, Register(a) PROVE Inv'
<1> DEFINE r == [status |-> "idle", age |-> 0]
           l == IF loop[a].at = "off" THEN [loop[a] EXCEPT !.at = "sleeping", !.timer = 0]
                                      ELSE loop[a]
<1>1. /\ row' = [row EXCEPT ![a] = r] /\ loop' = [loop EXCEPT ![a] = l] /\ loop'[a] = l
      /\ UNCHANGED <<busy, gone, blocked, lost, late, stalled>>
  BY DEF Register, Inv, TypeOK, history
<1>2. loop[a] \in LoopState /\ LoopFits(loop[a], late[a])
  BY OfOne
<1>3. l \in LoopState /\ l.at # "off" /\ LoopFits(l, late'[a])
  <2>1. CASE loop[a].at = "off"
    <3>1. l.at = "sleeping" /\ l.timer = 0 /\ l.late = loop[a].late /\ l \in LoopState
      BY <1>2, <2>1, TimersAre
    <3>2. ~l.late
      BY <1>2, <2>1, <3>1 DEF LoopFits, Calling
    <3>3. QED
      BY <3>1, <3>2, Numbers DEF LoopFits, Calling
  <2>2. CASE loop[a].at # "off"
    BY <1>1, <1>2, <2>2
  <2>3. QED
    BY <2>1, <2>2
<1>4. r \in RowState /\ r.status = "idle" /\ r.age = 0
  BY Numbers DEF Statuses
<1>5. 0 + UntilServed(a)' <= LongestSilence(a)'
  <2>1. LongestSilence(a)' = LongestSilence(a) /\ LongestSilence(a) \in Nat
        /\ LongestSilence(a) >= Latency + Round
    BY <1>1, OfOne DEF LongestSilence
  <2>2. CASE loop[a].at = "off"
    <3>1. loop'[a].at = "sleeping" /\ loop'[a].timer = 0
      <4>1. l.at = "sleeping" /\ l.timer = 0
        BY <1>2, <2>2
      <4>2. QED
        BY <1>1, <4>1
    <3>2. UntilServed(a)' = 0 + Latency
      BY <3>1 DEF UntilServed
    <3>3. QED
      BY <2>1, <3>2, Numbers
  <2>3. CASE loop[a].at # "off"
    <3>1. UntilServed(a)' = UntilServed(a) /\ UntilServed(a) \in Nat
      BY <1>1, <2>3, OfOne DEF UntilServed
    <3>2. QED
      BY <2>1, <2>3, <3>1, HeardInTime
  <2>4. QED
    BY <2>2, <2>3
<1> HIDE DEF r, l
<1>6. /\ gone' \in [Agents -> SUBSET Statuses]
      /\ lost' \in [Agents -> 0..Losses] /\ late' \in [Agents -> 0..Delays]
  BY <1>1 DEF Inv, TypeOK
<1>7. QED
  BY <1>1, <1>3, <1>4, <1>5, <1>6, OneAgent

LEMMA WakeUpKeeps == ASSUME Inv, NEW a \in Agents, WakeUp(a) PROVE Inv'
<1> DEFINE r == row[a]
           l == [at |-> "calling", timer |-> Latency, says |-> busy[a], late |-> FALSE]
<1>1. /\ row' = [row EXCEPT ![a] = r] /\ loop' = [loop EXCEPT ![a] = l] /\ loop'[a] = l
      /\ UNCHANGED <<busy, gone, blocked, lost, late, stalled>>
  BY DEF WakeUp, Inv, TypeOK, history
<1>2. l \in LoopState /\ r \in RowState /\ l.at = "calling" /\ LoopFits(l, late'[a])
  BY TimersAre, Numbers DEF Inv, TypeOK, Calling, LoopFits, Timers
<1>3. UntilServed(a)' = UntilServed(a) /\ LongestSilence(a)' = LongestSilence(a)
  <2>1. UntilServed(a)' = Latency
    BY <1>1 DEF UntilServed
  <2>2. UntilServed(a) = 0 + Latency
    BY DEF WakeUp, UntilServed
  <2>3. QED
    BY <1>1, <2>1, <2>2, Numbers DEF LongestSilence
<1>4. /\ ~stalled /\ r.status # "none" => r.age + UntilServed(a)' <= LongestSilence(a)'
      /\ ~stalled /\ r.status = "offline" => LongestSilence(a)' > Timeout
  BY <1>3, OfOne DEF Known
<1> HIDE DEF r, l
<1>5. /\ gone' \in [Agents -> SUBSET Statuses]
      /\ lost' \in [Agents -> 0..Losses] /\ late' \in [Agents -> 0..Delays]
  BY <1>1 DEF Inv, TypeOK
<1>6. QED
  BY <1>1, <1>2, <1>4, <1>5, OneAgent

\* A loop that goes to sleep.
LEMMA SleepFits ==
    ASSUME Inv, NEW a \in Agents, Sleep(a)
    PROVE  \E l \in LoopState :
              /\ loop' = [loop EXCEPT ![a] = l] /\ loop'[a] = l /\ l.at = "sleeping"
              /\ \A d : LoopFits(l, d)
              /\ UntilServed(a)' = Round
<1> DEFINE l == [loop[a] EXCEPT !.at = "sleeping", !.timer = Interval, !.late = FALSE]
<1>1. loop' = [loop EXCEPT ![a] = l] /\ loop'[a] = l
  BY DEF Sleep, Inv, TypeOK
<1>2. l \in LoopState /\ l.at = "sleeping" /\ l.timer = Interval /\ ~l.late
  BY OfOne, TimersAre
<1> HIDE DEF l
<1>3. \A d : LoopFits(l, d)
  BY <1>2, Numbers DEF LoopFits, Calling
<1>4. UntilServed(a)' = Round
  BY <1>1, <1>2 DEF UntilServed, Round
<1>5. QED
  BY <1>1, <1>2, <1>3, <1>4

LEMMA CallReturnsKeeps == ASSUME Inv, NEW a \in Agents, CallReturns(a) PROVE Inv'
<1> DEFINE r == row[a]
<1>1. PICK l \in LoopState :
              /\ loop' = [loop EXCEPT ![a] = l] /\ l.at = "sleeping"
              /\ LoopFits(l, late'[a]) /\ UntilServed(a)' = Round
  BY SleepFits DEF CallReturns
<1>2. /\ row' = [row EXCEPT ![a] = r] /\ r \in RowState
      /\ UNCHANGED <<busy, gone, blocked, lost, late, stalled>>
  BY OfOne DEF CallReturns, Inv, TypeOK, history
<1>3. UntilServed(a) = loop[a].timer + Round
  BY DEF CallReturns, UntilServed
<1>4. /\ ~stalled /\ r.status # "none" => r.age + UntilServed(a)' <= LongestSilence(a)'
      /\ ~stalled /\ r.status = "offline" => LongestSilence(a)' > Timeout
  <2>1. LongestSilence(a)' = LongestSilence(a)
    BY <1>2 DEF LongestSilence
  <2>2. QED
    BY <1>1, <1>3, <2>1, OfOne, Numbers DEF Known
<1> HIDE DEF r
<1>5. /\ gone' \in [Agents -> SUBSET Statuses]
      /\ lost' \in [Agents -> 0..Losses] /\ late' \in [Agents -> 0..Delays]
  BY <1>2 DEF Inv, TypeOK
<1>6. QED
  BY <1>1, <1>2, <1>4, <1>5, OneAgent

\* A prompt failure costs a round, which is counted; the wait for a late call was
\* counted when it began.
LEMMA CallFailsKeeps == ASSUME Inv, NEW a \in Agents, CallFails(a) PROVE Inv'
<1> DEFINE r == row[a]
<1>1. PICK l \in LoopState :
              /\ loop' = [loop EXCEPT ![a] = l] /\ l.at = "sleeping"
              /\ LoopFits(l, late'[a]) /\ UntilServed(a)' = Round
  BY SleepFits DEF CallFails
<1>2. /\ row' = [row EXCEPT ![a] = r] /\ r \in RowState /\ loop[a].at \in Calling
      /\ UNCHANGED <<busy, blocked, late, stalled>>
  BY OfOne DEF CallFails, Inv, TypeOK
<1>3. /\ gone' \in [Agents -> SUBSET Statuses]
      /\ lost' \in [Agents -> 0..Losses] /\ late' \in [Agents -> 0..Delays]
      /\ \A b \in Agents \ {a} : lost'[b] = lost[b]
  <2>1. lost' \in [Agents -> 0..Losses] /\ \A b \in Agents \ {a} : lost'[b] = lost[b]
    <3>1. CASE loop[a].late
      BY <3>1 DEF CallFails, Inv, TypeOK
    <3>2. CASE ~loop[a].late
      BY <3>2, Numbers DEF CallFails, Inv, TypeOK
    <3>3. QED
      BY <3>1, <3>2
  <2>2. gone' \in [Agents -> SUBSET Statuses]
    <3>1. CASE UNCHANGED gone
      BY <3>1 DEF Inv, TypeOK
    <3>2. CASE gone' = [gone EXCEPT ![a] = @ \union {loop[a].says}]
      BY <3>2, OfOne DEF Inv, TypeOK
    <3>3. QED
      BY <3>1, <3>2 DEF CallFails
  <2>3. QED
    BY <1>2, <2>1, <2>2 DEF Inv, TypeOK
<1>4. /\ LongestSilence(a)' \in Nat /\ LongestSilence(a) \in Nat
      /\ LongestSilence(a)' >= LongestSilence(a)
      /\ UntilServed(a)' - UntilServed(a) <= LongestSilence(a)' - LongestSilence(a)
  <2>1. CASE loop[a].late
    <3>1. lost' = lost /\ LongestSilence(a)' = LongestSilence(a)
      BY <1>2, <2>1 DEF CallFails, LongestSilence
    <3>2. UntilServed(a) = loop[a].timer + Round
      BY <1>2, <2>1 DEF UntilServed, Calling
    <3>3. QED
      BY <1>1, <3>1, <3>2, OfOne, Numbers
  <2>2. CASE ~loop[a].late
    <3>1. lost'[a] = lost[a] + 1 /\ late'[a] = late[a]
      BY <1>2, <2>2 DEF CallFails, Inv, TypeOK
    <3>2. LongestSilence(a)' = Silence(lost[a] + 1, late[a])
      BY <3>1 DEF LongestSilence, Silence, Round, Wait
    <3>3. LongestSilence(a)' = LongestSilence(a) + Round
      <4>1. /\ lost[a] \in Nat /\ late[a] \in Nat
            /\ LongestSilence(a) = Silence(lost[a], late[a])
        BY OfOne
      <4>2. QED
        BY <3>2, <4>1, SilenceGrows
    <3>4. QED
      BY <1>1, <3>3, OfOne, Numbers
  <2>3. QED
    BY <2>1, <2>2
<1>5. /\ ~stalled /\ r.status # "none" => r.age + UntilServed(a)' <= LongestSilence(a)'
      /\ ~stalled /\ r.status = "offline" => LongestSilence(a)' > Timeout
  BY <1>1, <1>4, OfOne, Numbers DEF Known
<1> HIDE DEF r
<1>6. QED
  BY <1>1, <1>2, <1>3, <1>5, OneAgent

\* A call that becomes late costs what is left of the client's patience, and a
\* round if it is in vain.
LEMMA CallIsLateKeeps == ASSUME Inv, NEW a \in Agents, CallIsLate(a) PROVE Inv'
<1> DEFINE r == row[a]
           l == [loop[a] EXCEPT !.timer = Patience - Latency, !.late = TRUE]
<1>1. /\ row' = [row EXCEPT ![a] = r] /\ loop' = [loop EXCEPT ![a] = l] /\ loop'[a] = l
      /\ UNCHANGED <<busy, gone, blocked, lost, stalled>>
      /\ loop[a].at \in Calling /\ loop[a].timer = 0 /\ ~loop[a].late
  BY DEF CallIsLate, Inv, TypeOK
<1>2. /\ late[a] \in Nat /\ late[a] < Delays
      /\ late' \in [Agents -> 0..Delays] /\ late'[a] = late[a] + 1
      /\ \A b \in Agents \ {a} : late'[b] = late[b]
  BY OfOne, Numbers DEF CallIsLate, Inv, TypeOK
<1>3. l \in LoopState /\ l.at = loop[a].at /\ l.timer = Patience - Latency /\ l.late
  BY OfOne, TimersAre
<1>4. r \in RowState
  BY OfOne
<1>5. LoopFits(l, late'[a])
  BY <1>1, <1>2, <1>3, Numbers DEF LoopFits, Calling
<1>6. LongestSilence(a)' = LongestSilence(a) + Wait
  <2>1. LongestSilence(a)' = Silence(lost[a], late[a] + 1)
    BY <1>1, <1>2 DEF LongestSilence, Silence, Round, Wait
  <2>2. /\ lost[a] \in Nat /\ late[a] \in Nat
        /\ LongestSilence(a) = Silence(lost[a], late[a])
    BY OfOne
  <2>3. QED
    BY <2>1, <2>2, SilenceGrows
<1>7. UntilServed(a)' <= UntilServed(a) + Wait /\ UntilServed(a)' \in Nat
  <2>1. UntilServed(a)' = Patience - Latency + Round
    BY <1>1, <1>3 DEF UntilServed, Calling, Round
  <2>2. UntilServed(a) >= 0 /\ UntilServed(a) \in Nat
    BY OfOne
  <2>3. QED
    BY <2>1, <2>2, Numbers
<1>8. /\ ~stalled /\ r.status # "none" => r.age + UntilServed(a)' <= LongestSilence(a)'
      /\ ~stalled /\ r.status = "offline" => LongestSilence(a)' > Timeout
  BY <1>6, <1>7, OfOne, Numbers DEF Known
<1>9. gone' \in [Agents -> SUBSET Statuses] /\ lost' \in [Agents -> 0..Losses]
      /\ \A b \in Agents \ {a} : lost'[b] = lost[b] /\ late'[b] = late[b]
  BY <1>1, <1>2 DEF Inv, TypeOK
<1>10. r.status # "none" => l.at # "off"
  BY <1>1, <1>3 DEF Calling
<1> HIDE DEF r, l
<1>11. QED
  BY <1>1, <1>2, <1>3, <1>4, <1>5, <1>8, <1>9, <1>10, OneAgent

-----------------------------------------------------------------------------
(* The Manager.                                                            *)

\* What the Manager hears makes a row fresh, and revives it.
LEMMA HeardRow ==
    ASSUME Inv, NEW a \in Agents, NEW s \in Statuses, Heard(a, s)
    PROVE  \E r \in RowState :
              /\ row' = [row EXCEPT ![a] = r]
              /\ r.status # "none" => Known(a) /\ r.age = 0 /\ r.status # "offline"
<1>1. row[a] \in RowState
  BY OfOne
<1>2. CASE Known(a)
  <2>1. row' = [row EXCEPT ![a] = [status |-> s, age |-> 0]]
    BY <1>2 DEF Heard
  <2>2. [status |-> s, age |-> 0] \in RowState
    BY Numbers
  <2>3. QED
    BY <1>2, <2>1, <2>2 DEF Statuses
<1>3. CASE ~Known(a)
  <2>1. row' = [row EXCEPT ![a] = row[a]]
    BY <1>3 DEF Heard, Inv, TypeOK
  <2>2. QED
    BY <1>1, <1>3, <2>1 DEF Known
<1>4. QED
  BY <1>2, <1>3

\* The heartbeat of a call under way: after it the client has its answer to get,
\* and a round to go.
LEMMA ServeKeeps == ASSUME Inv, NEW a \in Agents, ServeHeartbeat(a) PROVE Inv'
<1> DEFINE l == [loop[a] EXCEPT !.at = "served"]
           d == IF loop[a].late THEN 1 ELSE 0
<1>1. /\ loop' = [loop EXCEPT ![a] = l] /\ loop'[a] = l /\ loop[a].at = "calling"
      /\ UNCHANGED <<busy, gone, blocked, stalled>>
  BY DEF ServeHeartbeat, Inv, TypeOK
<1>2. loop[a] \in LoopState /\ LoopFits(loop[a], late[a])
  BY OfOne
<1>3. PICK r \in RowState :
              /\ row' = [row EXCEPT ![a] = r]
              /\ r.status # "none" => Known(a) /\ r.age = 0 /\ r.status # "offline"
  BY <1>2, HeardRow DEF ServeHeartbeat
<1>4. l \in LoopState /\ l.at = "served" /\ l.timer = loop[a].timer /\ l.late = loop[a].late
  BY <1>2 DEF Calling
<1>5. /\ lost' \in [Agents -> 0..Losses] /\ late' \in [Agents -> 0..Delays]
      /\ \A b \in Agents \ {a} : lost'[b] = lost[b] /\ late'[b] = late[b]
      /\ lost'[a] = 0 /\ late'[a] = d /\ d \in 0..Delays
  <2>1. d \in 0..Delays
    <3>1. late[a] \in 0..Delays /\ (loop[a].late => late[a] >= 1)
      BY <1>2 DEF LoopFits, Inv, TypeOK
    <3>2. QED
      BY <3>1, Numbers
  <2>2. /\ late' = [late EXCEPT ![a] = d] /\ lost' = [lost EXCEPT ![a] = 0]
        /\ late \in [Agents -> 0..Delays] /\ lost \in [Agents -> 0..Losses]
    BY DEF ServeHeartbeat, Inv, TypeOK
  <2> HIDE DEF d
  <2>3. QED
    BY <2>1, <2>2, Numbers
<1>6. LoopFits(l, late'[a])
  BY <1>1, <1>2, <1>4, <1>5 DEF LoopFits, Calling
<1>7. r.status # "none" => r.age + UntilServed(a)' <= LongestSilence(a)'
  <2>1. UntilServed(a)' = loop[a].timer + Round
    BY <1>1, <1>4 DEF UntilServed, Round
  <2>2. LongestSilence(a)' = Silence(0, d) /\ d \in Nat
    BY <1>5, Numbers DEF LongestSilence, Silence, Round, Wait
  <2>3. /\ Silence(0, d) \in Nat /\ Silence(0, d) >= Latency + Round
        /\ d >= 1 => Silence(0, d) >= Latency + Round + Wait
    BY <2>2, SilenceGrows
  <2>4. CASE loop[a].late
    <3>1. loop[a].timer <= Patience - Latency /\ d = 1
      BY <1>2, <2>4 DEF LoopFits
    <3> HIDE DEF d
    <3>2. QED
      BY <1>3, <2>1, <2>2, <2>3, <3>1, OfOne, Numbers
  <2>5. CASE ~loop[a].late
    <3>1. loop[a].timer <= Latency
      BY <1>1, <1>2, <2>5 DEF LoopFits, Calling
    <3> HIDE DEF d
    <3>2. QED
      BY <1>3, <2>1, <2>2, <2>3, <3>1, OfOne, Numbers
  <2>6. QED
    BY <2>4, <2>5
<1>8. gone' \in [Agents -> SUBSET Statuses]
  BY <1>1 DEF Inv, TypeOK
<1> HIDE DEF l, d
<1>9. QED
  BY <1>1, <1>3, <1>4, <1>5, <1>6, <1>7, <1>8, OneAgent

\* A heartbeat given up, which does not concern the loop any more.
LEMMA ServeGoneKeeps ==
    ASSUME Inv, NEW a \in Agents, NEW s \in Statuses, ServeGone(a, s) PROVE Inv'
<1>1. /\ loop' = [loop EXCEPT ![a] = loop[a]] /\ loop' = loop
      /\ UNCHANGED <<busy, blocked, lost, late, stalled>>
  BY DEF ServeGone, Inv, TypeOK, history
<1>2. gone' \in [Agents -> SUBSET Statuses]
  BY DEF ServeGone, Inv, TypeOK
<1>3. PICK r \in RowState :
              /\ row' = [row EXCEPT ![a] = r]
              /\ r.status # "none" => Known(a) /\ r.age = 0 /\ r.status # "offline"
  BY HeardRow DEF ServeGone
<1>4. loop[a] \in LoopState /\ LoopFits(loop[a], late'[a]) /\ (Known(a) => loop[a].at # "off")
  BY <1>1, OfOne
<1>5. r.status # "none" => r.age + UntilServed(a)' <= LongestSilence(a)'
  <2>1. UntilServed(a)' = UntilServed(a) /\ LongestSilence(a)' = LongestSilence(a)
    BY <1>1 DEF UntilServed, LongestSilence
  <2>2. UntilServed(a) \in Nat
    BY OfOne
  <2>3. QED
    BY <1>3, <1>4, <2>1, <2>2, HeardInTime
<1>6. lost' \in [Agents -> 0..Losses] /\ late' \in [Agents -> 0..Delays]
  BY <1>1 DEF Inv, TypeOK
<1>7. QED
  BY <1>1, <1>2, <1>3, <1>4, <1>5, <1>6, OneAgent

\* Who is expired has been silent for longer than the timeout, which its calls
\* must account for.
LEMMA ExpireKeeps == ASSUME Inv, ExpireOffline PROVE Inv'
<1> USE DEF ExpireOffline, history
<1>1. ASSUME NEW a \in Agents
      PROVE  /\ row'[a] \in RowState
             /\ row'[a].age = row[a].age /\ (row'[a].status = "none" <=> row[a].status = "none")
             /\ row'[a].status # row[a].status => Known(a) /\ row[a].age > Timeout
  BY DEF Inv, TypeOK, Known
<1>2. TypeOK'
  <2>1. row' \in [Agents -> RowState]
    BY <1>1
  <2>2. QED
    BY <2>1 DEF Inv, TypeOK
<1>3. \A a \in Agents : UntilServed(a)' = UntilServed(a) /\ LongestSilence(a)' = LongestSilence(a)
  BY DEF UntilServed, LongestSilence
<1>4. TimersFit'
  BY <1>1 DEF Inv, TimersFit, Known
<1>5. OnTime'
  BY <1>1, <1>3 DEF Inv, OnTime, Known
<1>6. ASSUME ~stalled, NEW a \in Agents, row'[a].status = "offline"
      PROVE  LongestSilence(a) > Timeout
  <2>1. CASE row[a].status = "offline"
    BY <1>6, <2>1, OfOne
  <2>2. CASE row[a].status # "offline"
    BY <1>1, <1>6, <2>2, OfOne, Numbers
  <2>3. QED
    BY <2>1, <2>2
<1>7. AliveIsNotOffline'
  BY <1>3, <1>6 DEF AliveIsNotOffline
<1>8. QED
  BY <1>2, <1>4, <1>5, <1>7 DEF Inv

LEMMA GroupDeletedKeeps == ASSUME Inv, GroupDeleted PROVE Inv'
<1> USE DEF GroupDeleted, history
<1>1. \A a \in Agents : row'[a] = NoRow
  OBVIOUS
<1>2. TypeOK'
  BY Numbers DEF Inv, TypeOK, NoRow
<1>3. TimersFit' /\ OnTime' /\ AliveIsNotOffline'
  BY <1>1 DEF Inv, TimersFit, OnTime, AliveIsNotOffline, Known, NoRow
<1>4. QED
  BY <1>2, <1>3 DEF Inv

-----------------------------------------------------------------------------
(* Time.                                                                   *)

\* A tick that makes a row older brings its next heartbeat as much nearer.
LEMMA TickKeeps == ASSUME Inv, Tick PROVE Inv'
<1> USE DEF Tick, history
<1>1. ASSUME NEW a \in Agents
      PROVE  /\ loop'[a].at = loop[a].at /\ loop'[a].timer = Minus1(loop[a].timer)
             /\ loop'[a].late = loop[a].late
             /\ loop'[a] \in LoopState
             /\ row'[a] \in RowState
             /\ row'[a].status = row[a].status
             /\ row'[a].age \in {row[a].age, row[a].age + 1}
             /\ LongestSilence(a)' = LongestSilence(a)
  <2>1. loop[a] \in LoopState /\ row[a] \in RowState
    BY OfOne
  <2>2. loop'[a] = [loop[a] EXCEPT !.timer = Minus1(@)]
    OBVIOUS
  <2>3. Minus1(loop[a].timer) \in Timers
    BY <2>1, TimerRuns
  <2>4. row'[a] = IF Known(a) /\ row[a].age <= Timeout THEN [row[a] EXCEPT !.age = @ + 1] ELSE row[a]
    OBVIOUS
  <2>5. row'[a] \in RowState
        /\ row'[a].status = row[a].status /\ row'[a].age \in {row[a].age, row[a].age + 1}
    BY Numbers, <2>1, <2>4
  <2>6. LongestSilence(a)' = LongestSilence(a)
    BY DEF LongestSilence
  <2>7. QED
    BY <2>1, <2>2, <2>3, <2>5, <2>6
<1>2. TypeOK'
  <2>1. row' \in [Agents -> RowState] /\ loop' \in [Agents -> LoopState]
    BY <1>1
  <2>2. blocked' \in 0..MaxBlock
    <3>1. blocked \in 0..MaxBlock
      BY DEF Inv, TypeOK
    <3>2. blocked' = Minus1(blocked)
      OBVIOUS
    <3> HIDE DEF Tick
    <3>3. QED
      BY Numbers, <3>1, <3>2 DEF Minus1
  <2>3. QED
    BY <2>1, <2>2 DEF Inv, TypeOK
<1>3. TimersFit'
  <2> SUFFICES ASSUME NEW a \in Agents
               PROVE  (Known(a)' => loop'[a].at # "off") /\ LoopFits(loop'[a], late'[a])
    BY DEF TimersFit
  <2>1. loop[a] \in LoopState /\ LoopFits(loop[a], late[a]) /\ (Known(a) => loop[a].at # "off")
    BY OfOne
  <2>2. Minus1(loop[a].timer) <= loop[a].timer /\ Minus1(loop[a].timer) \in Nat
        /\ loop[a].timer \in Nat
    BY <2>1, TimerRuns, OfOne
  <2>3. Known(a)' <=> Known(a)
    BY <1>1 DEF Known
  <2>4. late' = late
    OBVIOUS
  <2>5. loop'[a].at = loop[a].at /\ loop'[a].timer = Minus1(loop[a].timer)
        /\ loop'[a].late = loop[a].late
    BY <1>1
  <2> HIDE DEF Tick
  <2>6. QED
    BY <2>1, <2>2, <2>3, <2>4, <2>5, Numbers DEF LoopFits
<1>4. ASSUME ~stalled, NEW a \in Agents, Known(a)
      PROVE  row'[a].age + UntilServed(a)' <= LongestSilence(a)'
  <2>1. blocked = 0 /\ loop[a].at # "off" /\ row[a].age + UntilServed(a) <= LongestSilence(a)
    BY <1>4, OfOne DEF Inv, OnTime
  <2>2. loop[a].timer > 0
    <3>1. MayWait(a)
      OBVIOUS
    <3>2. QED
      BY <2>1, <3>1 DEF MayWait
  <2>3. loop'[a].timer = loop[a].timer - 1 /\ loop[a].timer \in Nat
    <3>1. loop[a].timer \in Timers
      BY OfOne
    <3>2. QED
      BY <1>1, <2>2, <3>1, TimerRuns, OfOne
  <2>4. UntilServed(a)' = UntilServed(a) - 1
    <3>1. loop'[a].at = loop[a].at /\ loop'[a].late = loop[a].late /\ Round' = Round
      BY <1>1 DEF Round
    <3>2. CASE loop[a].at = "sleeping"
      <4>1. /\ UntilServed(a) = loop[a].timer + Latency
            /\ UntilServed(a)' = loop[a].timer - 1 + Latency
        BY <2>3, <3>1, <3>2 DEF UntilServed
      <4>2. QED
        BY <2>3, <4>1, Numbers
    <3>3. CASE loop[a].at = "calling" /\ ~loop[a].late
      BY <2>3, <3>1, <3>3 DEF UntilServed
    <3>4. CASE loop[a].at # "sleeping" /\ ~(loop[a].at = "calling" /\ ~loop[a].late)
      <4>1. /\ UntilServed(a) = loop[a].timer + Round
            /\ UntilServed(a)' = loop[a].timer - 1 + Round
        BY <2>3, <3>1, <3>4 DEF UntilServed
      <4>2. QED
        BY <2>3, <4>1, Numbers
    <3>5. QED
      BY <3>2, <3>3, <3>4
  <2>5. row'[a].age \in {row[a].age, row[a].age + 1} /\ LongestSilence(a)' = LongestSilence(a)
    BY <1>1
  <2>6. row[a].age \in Nat /\ UntilServed(a) \in Nat /\ LongestSilence(a) \in Nat
    BY OfOne
  <2> HIDE DEF Tick
  <2>7. QED
    BY <2>1, <2>4, <2>5, <2>6
<1>5. OnTime'
  <2>1. ~stalled => blocked' = 0
    BY DEF Inv, OnTime, Minus1
  <2>2. \A a \in Agents : Known(a)' => Known(a)
    BY <1>1 DEF Known
  <2>3. QED
    BY <1>4, <2>1, <2>2 DEF OnTime
<1>6. AliveIsNotOffline'
  BY <1>1 DEF Inv, AliveIsNotOffline
<1>7. QED
  BY <1>2, <1>3, <1>5, <1>6 DEF Inv

-----------------------------------------------------------------------------
(* The invariant.                                                          *)

\* Steps that touch neither the rows nor the loops.
LEMMA OthersKeep ==
    ASSUME Inv, NEW a \in Agents, WorkChanges(a) \/ \E d \in 1..MaxBlock : ExecutorBlocks(a, d)
    PROVE  Inv'
<1>1. TypeOK'
  <2>1. CASE WorkChanges(a)
    BY <2>1 DEF WorkChanges, Inv, TypeOK, Statuses, history
  <2>2. CASE \E d \in 1..MaxBlock : ExecutorBlocks(a, d)
    BY <2>2, Numbers DEF ExecutorBlocks, Inv, TypeOK
  <2>3. QED
    BY <2>1, <2>2
<1>2. UNCHANGED <<row, loop, lost, late>> /\ (~stalled' => ~stalled /\ UNCHANGED blocked)
  BY DEF WorkChanges, ExecutorBlocks, history
<1>3. \A b \in Agents : UntilServed(b)' = UntilServed(b) /\ LongestSilence(b)' = LongestSilence(b)
  BY <1>2 DEF UntilServed, LongestSilence
<1>4. TimersFit' /\ AliveIsNotOffline'
  BY <1>2, <1>3 DEF Inv, TimersFit, AliveIsNotOffline, Known
<1>5. OnTime'
  BY <1>2, <1>3 DEF Inv, OnTime, Known
<1>6. QED
  BY <1>1, <1>4, <1>5 DEF Inv

LEMMA InitInv == ASSUME Init PROVE Inv
<1>1. TypeOK
  <2>1. 0 \in 0..(Timeout + 1) /\ 0 \in 0..MaxBlock /\ 0 \in 0..Losses /\ 0 \in 0..Delays
    BY Numbers
  <2>2. QED
    BY <2>1, TimersAre DEF Init, TypeOK, NoRow, Statuses
<1>2. TimersFit /\ OnTime /\ AliveIsNotOffline
  BY Numbers DEF Init, TimersFit, LoopFits, OnTime, AliveIsNotOffline, Known, NoRow, Calling
<1>3. QED
  BY <1>1, <1>2 DEF Inv

LEMMA NextInv == ASSUME Inv, [Next]_vars PROVE Inv'
<1>1. CASE UNCHANGED vars
  <2>1. \A b \in Agents : UntilServed(b)' = UntilServed(b) /\ LongestSilence(b)' = LongestSilence(b)
    BY <1>1 DEF vars, history, UntilServed, LongestSilence
  <2>2. QED
    BY <1>1, <2>1 DEF vars, history, Inv, TypeOK, TimersFit, OnTime, AliveIsNotOffline, Known
<1>2. CASE ExpireOffline \/ GroupDeleted \/ Tick
  BY <1>2, ExpireKeeps, GroupDeletedKeeps, TickKeeps
<1>3. ASSUME NEW a \in Agents,
             \/ Register(a) \/ WorkChanges(a)
             \/ HeartbeatLoop(a) \/ CallIsLate(a) \/ ServeHeartbeat(a)
             \/ \E s \in Statuses : ServeGone(a, s)
             \/ \E d \in 1..MaxBlock : ExecutorBlocks(a, d)
      PROVE  Inv'
  BY <1>3, RegisterKeeps, WakeUpKeeps, CallReturnsKeeps, CallFailsKeeps, CallIsLateKeeps,
     ServeKeeps, ServeGoneKeeps, OthersKeep DEF HeartbeatLoop
<1>4. QED
  BY <1>1, <1>2, <1>3 DEF Next

\* The invariant holds of every behaviour of a Host and its Manager.
THEOREM Invariance == Spec => []Inv
<1>1. Init => Inv
  BY InitInv
<1>2. Inv /\ [Next]_vars => Inv'
  BY NextInv
<1>3. QED
  BY <1>1, <1>2, PTL DEF Spec

\* An agent whose event loop is free is marked offline only if since its last
\* heartbeat so many calls failed or were late that they account for more than
\* heartbeat_timeout (_heartbeat_loop, ManagerClient, _expire_offline): whatever the
\* interval, the timeouts and the client's patience are.
THEOREM AliveIsNotOfflineHolds == Spec => []AliveIsNotOffline
<1>1. Inv => AliveIsNotOffline
  BY DEF Inv
<1>2. QED
  BY <1>1, Invariance, PTL

\* An agent none of whose calls since its last heartbeat has failed or been late, on
\* a free event loop, is not marked offline where the timeout leaves room for an
\* interval and two prompt calls, as the defaults do.
THEOREM PromptIsNotOffline ==
    ASSUME Interval + 2 * Latency <= Timeout
    PROVE  Spec => [](~stalled => \A a \in Agents :
                         lost[a] = 0 /\ late[a] = 0 => row[a].status # "offline")
<1>1. ASSUME Inv, ~stalled, NEW a \in Agents, lost[a] = 0, late[a] = 0
      PROVE  row[a].status # "offline"
  <2>1. LongestSilence(a) = Latency + (0 + 1) * Round + 0 * Wait
    BY <1>1 DEF LongestSilence, Round, Wait
  <2>2. LongestSilence(a) <= Timeout
    BY <2>1, Numbers
  <2>3. QED
    BY <1>1, <2>2, OfOne, Numbers
<1>2. Inv => (~stalled => \A a \in Agents : lost[a] = 0 /\ late[a] = 0 => row[a].status # "offline")
  BY <1>1
<1>3. QED
  BY <1>2, Invariance, PTL

\* The rows, loops and timers keep their types.
THEOREM TypeCorrect == Spec => []TypeOK
<1>1. Inv => TypeOK
  BY DEF Inv
<1>2. QED
  BY <1>1, Invariance, PTL
=============================================================================
