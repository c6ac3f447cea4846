----------------------------- MODULE MCJobStore -----------------------------
(***************************************************************************)
(* JobStore for TLC: two jobs and one child.                               *)
(***************************************************************************)
EXTENDS JobStore, TLC

CONSTANTS j1, j2, c1

TwoJobs  == {j1, j2}
OneChild == {c1}

Symmetry == Permutations(TwoJobs)
=============================================================================
