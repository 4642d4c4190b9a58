------------------------------ MODULE MCCache -------------------------------
(* Small instances of Cache for TLC.                                       *)
EXTENDS Cache, TLC

CONSTANTS n0, n1, n2, a, b, c, p1, p2, u1, u2, k1, k2

\* n0 is the empty NAR, the others are one chunk long.
OneEmpty == [n \in Nars |-> IF n = n0 THEN 0 ELSE 1]

PathSymmetry == Permutations(Pids) \cup Permutations(Uploads)
                \cup Permutations(Paths) \cup Permutations(Nars \ {n0})
=============================================================================
