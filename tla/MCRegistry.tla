----------------------------- MODULE MCRegistry -----------------------------
(* The registry's three disciplines: tags, manifests and pruning of a repository  *)
(* with four tags (Registry), the upload of a blob (Uploads) and the order in     *)
(* which pushes of the command line become deploys (CliPush).  They share no      *)
(* state, so a behaviour is one of theirs: "part" says whose.                     *)
EXTENDS Registry, CliPush, Uploads, TLC

CONSTANTS p1, p2, q1, q2, t0, t1, t2, t3, b1, b2,
          u1, small

Images   == {{b1}, {b2}}
MCBodies == {<<>>, <<small>>, <<small, small, small>>}
MCDigests == {<<small>>}
Symmetry == Permutations({p1, p2}) \cup Permutations({t1, t2, t3}) \cup Permutations({b1, b2})

VARIABLE part

allVars  == <<part, vars, uploadVars, pushVars>>

RegistryInit ==
    /\ part \in {"tags", "uploads", "pushes"}
    /\ Init
    /\ UploadsInit
    /\ PushInit

RegistryNext ==
    \/ part = "tags" /\ Next /\ UNCHANGED <<part, uploadVars, pushVars>>
    \/ part = "uploads" /\ UploadsNext /\ UNCHANGED <<part, vars, pushVars>>
    \/ part = "pushes" /\ PushNext /\ UNCHANGED <<part, vars, uploadVars>>

RegistrySpec == RegistryInit /\ [][RegistryNext]_allVars

\* What does not run stays as Init has left it.
RegistryTypeOK ==
    /\ part = "tags" => TypeOK
    /\ part = "uploads" => UploadsTypeOK
    /\ part = "pushes" => PushTypeOK
=============================================================================
