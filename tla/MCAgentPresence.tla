--------------------------- MODULE MCAgentPresence ---------------------------
(***************************************************************************)
(* AgentPresence for TLC: a Host with one agent or two.  With the default  *)
(* settings (an interval of 5 s, a timeout of 15 s) and an Interval of 3,  *)
(* a tick is 5/3 s and the Timeout is 9.                                   *)
(***************************************************************************)
EXTENDS AgentPresence

CONSTANTS a1, a2

OneAgent  == {a1}
TwoAgents == {a1, a2}
=============================================================================
