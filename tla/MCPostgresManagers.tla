------------------------- MODULE MCPostgresManagers -------------------------
(***************************************************************************)
(* PostgresManagers for TLC: two requests at a time, at one of two         *)
(* Managers or at both.                                                    *)
(***************************************************************************)
EXTENDS PostgresManagers, TLC

CONSTANTS g1, g2, n1, t1, t2, a, b

OneGroup    == {g1}
TwoGroups   == {g1, g2}
OneNode     == {n1}
TwoThreads  == {t1, t2}
TwoManagers == {a, b}
Symmetry    == Permutations(TwoGroups) \union Permutations(TwoThreads)
               \union Permutations(TwoManagers)
=============================================================================
