--------------------------- MODULE MCAssignmentRun ---------------------------
(***************************************************************************)
(* AssignmentRun for TLC: one assignment, whose work is indexed by its     *)
(* message throughout, and one of the agent's own, which is refused.  a/b  *)
(* and a\b have one key, c has its own, and ..\d is refused.               *)
(***************************************************************************)
EXTENDS AssignmentRun

CONSTANTS m1, own, slash, backslash, other, dotdot, key, otherKey, Ref

MCMessages == {m1, own}
MCOwn      == {own}
MCFiles    == {slash, backslash, other, dotdot}
MCKeys     == {key, otherKey}
MCKeyOf    == [f \in MCFiles |-> CASE f = dotdot -> Ref
                                   [] f = other  -> otherKey
                                   [] OTHER      -> key]
AllExecutors == {"echo", "agent", "opencode"}
=============================================================================
