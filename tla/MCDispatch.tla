----------------------------- MODULE MCDispatch -----------------------------
(***************************************************************************)
(* Dispatch for TLC: one job, one or two children (ordered by id), and at  *)
(* most one forward.                                                       *)
(***************************************************************************)
EXTENDS Dispatch

CONSTANTS j1, f1

OneJob     == {j1}
OneForward == {f1}
NoForward  == {}
TwoChildren == {1, 2}
OneChild   == {1}
=============================================================================
