------------------------------ MODULE MCDeploy ------------------------------
(***************************************************************************)
(* Small instances of Deploy.  Calls already made, the containers created  *)
(* and the deaths of the process are bounded by the constants; Symmetry    *)
(* exchanges the images and is used where no liveness is checked.          *)
(***************************************************************************)
EXTENDS Deploy, TLC

CONSTANTS d1, d2, r1, o1, v1, v2

Symmetry == Permutations({v1, v2})
SymmetryDeployers == Permutations({d1, d2}) \cup Permutations({v1, v2})
=============================================================================
