--------------------------- MODULE MCManagerStore ---------------------------
(***************************************************************************)
(* ManagerStore for TLC: small sets of groups, nodes and threads.          *)
(***************************************************************************)
EXTENDS ManagerStore, TLC

CONSTANTS g1, g2, n1, t1, t2

TwoGroups  == {g1, g2}
OneNode    == {n1}
TwoThreads == {t1, t2}
Open       == {{}}
Symmetry   == Permutations(TwoThreads) \union Permutations(TwoGroups)
=============================================================================
