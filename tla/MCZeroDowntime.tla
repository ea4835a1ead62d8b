--------------------------- MODULE MCZeroDowntime ---------------------------
(***************************************************************************)
(* Small instances of ZeroDowntime; see MCDeploy.                          *)
(***************************************************************************)
EXTENDS ZeroDowntime, TLC

CONSTANTS d1, r1, o1, v1, v2, q1, q2

SymmetryRequests == Permutations({v1, v2}) \cup Permutations({q1, q2})
=============================================================================
