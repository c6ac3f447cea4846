--------------------------- MODULE MCChildMailbox ---------------------------
(***************************************************************************)
(* ChildMailbox for TLC: three messages of other agents, and one the agent *)
(* sent to itself.                                                         *)
(***************************************************************************)
EXTENDS ChildMailbox

CONSTANTS m1, m2, m3, own

MCMessages == {m1, m2, m3, own}
MCOwn      == {own}
=============================================================================
