---------------------------- MODULE PreviewProofs ----------------------------
(***************************************************************************)
(* Proofs about Previews, for any number of pushes, failures and restarts: *)
(* the mutex of a preview domain is one as long as somebody waits for it   *)
(* or is inside, so that one creation runs at a time.                      *)
(***************************************************************************)
EXTENDS Previews, FiniteSetTheorems, TLAPS

-----------------------------------------------------------------------------
(* Previews: the name lock                                                 *)

\* The creations that were given a mutex and have not released it.
Referring == {p \in Pushes : creation[p].mutex # 0}

\* All of them have the one of the entry, which counts them: that is why an entry is
\* never dropped, and another mutex made, while one of them waits or is inside.
NameLocked ==
    /\ nameLock.refs = Cardinality(Referring)
    /\ \A p \in Pushes :
          /\ creation[p].mutex \in {0, nameLock.mutex}
          /\ creation[p].at \in Inside \cup {"lock", "release"} <=> creation[p].mutex # 0

PreviewInv == PreviewTypeOK /\ NameLocked /\ CreationsAlone

-----------------------------------------------------------------------------
(* The name lock is kept                                                 *)

\* Types.
LEMMA PreviewTypeNext ==
  ASSUME PreviewTypeOK, [PreviewNext]_previewVars
  PROVE  PreviewTypeOK'
<1>t. NoPreview \in PreviewRecord /\ 0 \in 0..MaxMutexes /\ budget \in Nat
  BY PreviewAssumption DEF NoPreview, PreviewRecord, PreviewTypeOK
<1>1. ASSUME NEW p \in Pushes, Acquire(p) PROVE PreviewTypeOK'
  <2>1. creation' \in [Pushes -> CreationRecord]
    <3>1. PICK m \in Mutexes : creation' = [creation EXCEPT ![p] = [creation[p] EXCEPT !.at = "lock",
                                                                              !.mutex = m]]
      BY <1>1 DEF Acquire, PreviewTypeOK
    <3>2. creation[p] \in CreationRecord /\ m \in 0..MaxMutexes
      BY PreviewAssumption DEF PreviewTypeOK, Mutexes
    <3>3. [creation[p] EXCEPT !.at = "lock", !.mutex = m] \in CreationRecord
      BY <3>2 DEF CreationRecord
    <3> QED
      BY <3>1, <3>3 DEF PreviewTypeOK
  <2>2. nameLock' \in [mutex : 0..MaxMutexes, refs : Nat]
    BY <1>1, <1>t, PreviewAssumption DEF Acquire, PreviewTypeOK, Mutexes
  <2>3. UNCHANGED <<preview, store, api, sweep, route, container, budget>>
    BY <1>1 DEF Acquire
  <2> QED
    BY <2>1, <2>2, <2>3 DEF PreviewTypeOK
<1>2. ASSUME NEW p \in Pushes, Lock(p) PROVE PreviewTypeOK'
  <2>1. creation' \in [Pushes -> CreationRecord]
    BY <1>2, <1>t, PreviewAssumption DEF Lock, Step, PreviewTypeOK, CreationRecord, Inside
  <2>2. UNCHANGED <<preview, store, api, sweep, nameLock, route, container, budget>>
    BY <1>2 DEF Lock
  <2> QED
    BY <2>1, <2>2 DEF PreviewTypeOK
<1>3. ASSUME NEW p \in Pushes, Add(p) PROVE PreviewTypeOK'
  <2>1. creation' \in [Pushes -> CreationRecord]
    <3>1. /\ preview' \in PreviewRecord
          /\ creation' = [creation EXCEPT ![p] = [creation[p] EXCEPT !.at = "addSave",
                                                                  !.saves = preview']]
      BY <1>3 DEF Add, PreviewTypeOK, PreviewRecord
    <3>2. [creation[p] EXCEPT !.at = "addSave", !.saves = preview'] \in CreationRecord
      BY <3>1 DEF PreviewTypeOK, CreationRecord, Inside
    <3> QED
      BY <3>1, <3>2 DEF PreviewTypeOK
  <2>2. preview' \in PreviewRecord /\ store' \in PreviewRecord
    BY <1>3, <1>t, PreviewAssumption DEF Add, PreviewTypeOK, CreationRecord, ApiRecord, PreviewRecord
  <2>3. UNCHANGED <<api, sweep, nameLock, route, container, budget>>
    BY <1>3 DEF Add
  <2> QED
    BY <2>1, <2>2, <2>3 DEF PreviewTypeOK
<1>4. ASSUME NEW p \in Pushes, AddSave(p) PROVE PreviewTypeOK'
  <2>1. creation' \in [Pushes -> CreationRecord]
    BY <1>4, <1>t, PreviewAssumption DEF AddSave, Step, Mishap, PreviewTypeOK, CreationRecord, Inside
  <2>2. preview' \in PreviewRecord /\ store' \in PreviewRecord
    BY <1>4, <1>t, PreviewAssumption DEF AddSave, Step, Mishap, PreviewTypeOK, CreationRecord, ApiRecord
  <2>3. budget' \in 0..MaxMishaps
    BY <1>4, <1>t, PreviewAssumption DEF AddSave, Step, Mishap, PreviewTypeOK
  <2>4. UNCHANGED <<api, sweep, nameLock, route, container>>
    BY <1>4 DEF AddSave
  <2> QED
    BY <2>1, <2>2, <2>3, <2>4 DEF PreviewTypeOK
<1>5. ASSUME NEW p \in Pushes, AddPreviewRoute(p) PROVE PreviewTypeOK'
  <2>1. creation' \in [Pushes -> CreationRecord]
    <3>1. CASE \E status \in {"running", "failed"} : Finishes(p, status)
      <4>1. PICK status \in {"running", "failed"} : Finishes(p, status)
        BY <3>1
      <4> DEFINE saved == [status |-> status, listed |-> status = "running", expired |-> FALSE]
      <4>2. saved \in PreviewRecord
        BY DEF PreviewRecord
      <4>3. creation' = [creation EXCEPT ![p] = [creation[p] EXCEPT !.at = "update", !.saves = saved]]
        BY <4>1 DEF Finishes, PreviewTypeOK
      <4> HIDE DEF saved
      <4>4. [creation[p] EXCEPT !.at = "update", !.saves = saved] \in CreationRecord
        BY <4>2 DEF PreviewTypeOK, CreationRecord, Inside
      <4> QED
        BY <4>3, <4>4 DEF PreviewTypeOK
    <3>2. CASE Step(p, "deploy")
      BY <3>2 DEF Step, PreviewTypeOK, CreationRecord, Inside
    <3> QED
      BY <1>5, <3>1, <3>2 DEF AddPreviewRoute
  <2>2. route' \in BOOLEAN /\ container' \in [up : BOOLEAN, old : BOOLEAN]
    BY <1>5, <1>t, PreviewAssumption DEF AddPreviewRoute, Step, Finishes, Mishap, PreviewTypeOK
  <2>3. budget' \in 0..MaxMishaps
    BY <1>5, <1>t, PreviewAssumption DEF AddPreviewRoute, Step, Finishes, Mishap, PreviewTypeOK
  <2>4. UNCHANGED <<preview, store, api, sweep, nameLock>>
    BY <1>5 DEF AddPreviewRoute
  <2> QED
    BY <2>1, <2>2, <2>3, <2>4 DEF PreviewTypeOK
<1>6. ASSUME NEW p \in Pushes, DeployPreview(p) PROVE PreviewTypeOK'
  <2>1. creation' \in [Pushes -> CreationRecord]
    <3>1. CASE \E status \in {"running", "failed"} : Finishes(p, status)
      <4>1. PICK status \in {"running", "failed"} : Finishes(p, status)
        BY <3>1
      <4> DEFINE saved == [status |-> status, listed |-> status = "running", expired |-> FALSE]
      <4>2. saved \in PreviewRecord
        BY DEF PreviewRecord
      <4>3. creation' = [creation EXCEPT ![p] = [creation[p] EXCEPT !.at = "update", !.saves = saved]]
        BY <4>1 DEF Finishes, PreviewTypeOK
      <4> HIDE DEF saved
      <4>4. [creation[p] EXCEPT !.at = "update", !.saves = saved] \in CreationRecord
        BY <4>2 DEF PreviewTypeOK, CreationRecord, Inside
      <4> QED
        BY <4>3, <4>4 DEF PreviewTypeOK
    <3> QED
      BY <1>6, <3>1 DEF DeployPreview
  <2>2. route' \in BOOLEAN /\ container' \in [up : BOOLEAN, old : BOOLEAN]
    <3>1. route' = route /\ container' \in {[up |-> TRUE, old |-> FALSE], container}
      BY <1>6 DEF DeployPreview
    <3>2. route' \in BOOLEAN
      BY <3>1 DEF PreviewTypeOK
    <3>3. [up |-> TRUE, old |-> FALSE] \in [up : BOOLEAN, old : BOOLEAN]
      OBVIOUS
    <3>4. container' \in [up : BOOLEAN, old : BOOLEAN]
      BY <3>1, <3>3 DEF PreviewTypeOK
    <3> QED
      BY <3>2, <3>4
  <2>3. budget' \in 0..MaxMishaps
    BY <1>6, <1>t, PreviewAssumption DEF DeployPreview, Finishes, Mishap, PreviewTypeOK
  <2>4. UNCHANGED <<preview, store, api, sweep, nameLock>>
    BY <1>6 DEF DeployPreview
  <2> QED
    BY <2>1, <2>2, <2>3, <2>4 DEF PreviewTypeOK
<1>7. ASSUME NEW p \in Pushes, Update(p) PROVE PreviewTypeOK'
  <2>1. creation' \in [Pushes -> CreationRecord]
    BY <1>7, <1>t, PreviewAssumption DEF Update, Step, PreviewTypeOK, CreationRecord, Inside
  <2>2. preview' \in PreviewRecord /\ store' \in PreviewRecord
    BY <1>7, <1>t, PreviewAssumption DEF Update, Step, PreviewTypeOK, CreationRecord, ApiRecord
  <2>3. UNCHANGED <<api, sweep, nameLock, route, container, budget>>
    BY <1>7 DEF Update
  <2> QED
    BY <2>1, <2>2, <2>3 DEF PreviewTypeOK
<1>8. ASSUME NEW p \in Pushes, UpdateSave(p) PROVE PreviewTypeOK'
  <2>1. creation' \in [Pushes -> CreationRecord]
    BY <1>8, <1>t, PreviewAssumption DEF UpdateSave, Step, Mishap, PreviewTypeOK, CreationRecord, Inside
  <2>2. preview' \in PreviewRecord /\ store' \in PreviewRecord
    BY <1>8, <1>t, PreviewAssumption DEF UpdateSave, Step, Mishap, PreviewTypeOK, CreationRecord, ApiRecord
  <2>3. budget' \in 0..MaxMishaps
    BY <1>8, <1>t, PreviewAssumption DEF UpdateSave, Step, Mishap, PreviewTypeOK
  <2>4. UNCHANGED <<api, sweep, nameLock, route, container>>
    BY <1>8 DEF UpdateSave
  <2> QED
    BY <2>1, <2>2, <2>3, <2>4 DEF PreviewTypeOK
<1>9. ASSUME NEW p \in Pushes, Unlock(p) PROVE PreviewTypeOK'
  <2>1. creation' \in [Pushes -> CreationRecord]
    BY <1>9, <1>t, PreviewAssumption DEF Unlock, PreviewTypeOK, CreationRecord, Inside
  <2>2. UNCHANGED <<preview, store, api, sweep, nameLock, route, container, budget>>
    BY <1>9 DEF Unlock
  <2> QED
    BY <2>1, <2>2 DEF PreviewTypeOK
<1>10. ASSUME NEW p \in Pushes, Release(p) PROVE PreviewTypeOK'
  <2>1. creation' \in [Pushes -> CreationRecord]
    BY <1>10, <1>t, PreviewAssumption DEF Release, PreviewTypeOK, CreationRecord, Inside
  <2>2. nameLock' \in [mutex : 0..MaxMutexes, refs : Nat]
    BY <1>10, <1>t, PreviewAssumption DEF Release, PreviewTypeOK
  <2>3. UNCHANGED <<preview, store, api, sweep, route, container, budget>>
    BY <1>10 DEF Release
  <2> QED
    BY <2>1, <2>2, <2>3 DEF PreviewTypeOK
<1>11. CASE Delete
  <2>1. preview' \in PreviewRecord /\ store' \in PreviewRecord
    BY <1>11, <1>t, PreviewAssumption DEF Delete, Mishap, PreviewTypeOK, CreationRecord, ApiRecord
  <2>2. api' \in ApiRecord
    BY <1>11, <1>t, PreviewAssumption DEF Delete, Mishap, PreviewTypeOK, ApiRecord
  <2>3. budget' \in 0..MaxMishaps
    BY <1>11, <1>t, PreviewAssumption DEF Delete, Mishap, PreviewTypeOK
  <2>4. UNCHANGED <<creation, sweep, nameLock, route, container>>
    BY <1>11 DEF Delete
  <2> QED
    BY <2>1, <2>2, <2>3, <2>4 DEF PreviewTypeOK
<1>12. CASE DeleteSave
  <2>1. preview' \in PreviewRecord /\ store' \in PreviewRecord
    BY <1>12, <1>t, PreviewAssumption DEF DeleteSave, Mishap, PreviewTypeOK, CreationRecord, ApiRecord
  <2>2. api' \in ApiRecord
    BY <1>12, <1>t, PreviewAssumption DEF DeleteSave, Mishap, PreviewTypeOK, ApiRecord
  <2>3. budget' \in 0..MaxMishaps
    BY <1>12, <1>t, PreviewAssumption DEF DeleteSave, Mishap, PreviewTypeOK
  <2>4. UNCHANGED <<creation, sweep, nameLock, route, container>>
    BY <1>12 DEF DeleteSave
  <2> QED
    BY <2>1, <2>2, <2>3, <2>4 DEF PreviewTypeOK
<1>13. CASE DeleteRoute
  <2>1. api' \in ApiRecord
    BY <1>13, <1>t, PreviewAssumption DEF DeleteRoute, PreviewTypeOK, ApiRecord
  <2>2. route' \in BOOLEAN /\ container' \in [up : BOOLEAN, old : BOOLEAN]
    BY <1>13, <1>t, PreviewAssumption DEF DeleteRoute, PreviewTypeOK
  <2>3. UNCHANGED <<creation, preview, store, sweep, nameLock, budget>>
    BY <1>13 DEF DeleteRoute
  <2> QED
    BY <2>1, <2>2, <2>3 DEF PreviewTypeOK
<1>14. CASE Extend
  <2>1. preview' \in PreviewRecord /\ store' \in PreviewRecord
    BY <1>14, <1>t, PreviewAssumption DEF Extend, Mishap, PreviewTypeOK, CreationRecord, ApiRecord, PreviewRecord
  <2>2. api' \in ApiRecord
    BY <1>14, <1>t, PreviewAssumption DEF Extend, Mishap, PreviewTypeOK, ApiRecord, PreviewRecord
  <2>3. budget' \in 0..MaxMishaps
    BY <1>14, <1>t, PreviewAssumption DEF Extend, Mishap, PreviewTypeOK
  <2>4. UNCHANGED <<creation, sweep, nameLock, route, container>>
    BY <1>14 DEF Extend
  <2> QED
    BY <2>1, <2>2, <2>3, <2>4 DEF PreviewTypeOK
<1>15. CASE ExtendSave
  <2>1. preview' \in PreviewRecord /\ store' \in PreviewRecord
    BY <1>15, <1>t, PreviewAssumption DEF ExtendSave, Mishap, PreviewTypeOK, CreationRecord, ApiRecord
  <2>2. api' \in ApiRecord
    BY <1>15, <1>t, PreviewAssumption DEF ExtendSave, Mishap, PreviewTypeOK, ApiRecord
  <2>3. budget' \in 0..MaxMishaps
    BY <1>15, <1>t, PreviewAssumption DEF ExtendSave, Mishap, PreviewTypeOK
  <2>4. UNCHANGED <<creation, sweep, nameLock, route, container>>
    BY <1>15 DEF ExtendSave
  <2> QED
    BY <2>1, <2>2, <2>3, <2>4 DEF PreviewTypeOK
<1>16. CASE RecordExpires
  <2>1. preview' \in PreviewRecord /\ store' \in PreviewRecord
    BY <1>16, <1>t, PreviewAssumption DEF RecordExpires, PreviewTypeOK, CreationRecord, ApiRecord, PreviewRecord
  <2>2. UNCHANGED <<creation, api, sweep, nameLock, route, container, budget>>
    BY <1>16 DEF RecordExpires
  <2> QED
    BY <2>1, <2>2 DEF PreviewTypeOK
<1>17. CASE ContainerAges
  <2>1. route' \in BOOLEAN /\ container' \in [up : BOOLEAN, old : BOOLEAN]
    BY <1>17, <1>t, PreviewAssumption DEF ContainerAges, PreviewTypeOK
  <2>2. UNCHANGED <<creation, preview, store, api, sweep, nameLock, budget>>
    BY <1>17 DEF ContainerAges
  <2> QED
    BY <2>1, <2>2 DEF PreviewTypeOK
<1>18. CASE CleanupExpired
  <2>1. preview' \in PreviewRecord /\ store' \in PreviewRecord
    BY <1>18, <1>t, PreviewAssumption DEF CleanupExpired, SweepTo, PreviewTypeOK, CreationRecord, ApiRecord
  <2>2. sweep' \in SweepRecord
    BY <1>18, <1>t, PreviewAssumption DEF CleanupExpired, SweepTo, PreviewTypeOK, SweepRecord
  <2>3. UNCHANGED <<creation, api, nameLock, route, container, budget>>
    BY <1>18 DEF CleanupExpired
  <2> QED
    BY <2>1, <2>2, <2>3 DEF PreviewTypeOK
<1>19. CASE CleanupSave
  <2>1. preview' \in PreviewRecord /\ store' \in PreviewRecord
    BY <1>19, <1>t, PreviewAssumption DEF CleanupSave, SweepTo, Mishap, PreviewTypeOK, CreationRecord, ApiRecord
  <2>2. sweep' \in SweepRecord
    BY <1>19, <1>t, PreviewAssumption DEF CleanupSave, SweepTo, Mishap, PreviewTypeOK, SweepRecord
  <2>3. budget' \in 0..MaxMishaps
    BY <1>19, <1>t, PreviewAssumption DEF CleanupSave, SweepTo, Mishap, PreviewTypeOK
  <2>4. UNCHANGED <<creation, api, nameLock, route, container>>
    BY <1>19 DEF CleanupSave
  <2> QED
    BY <2>1, <2>2, <2>3, <2>4 DEF PreviewTypeOK
<1>20. CASE TearContainer
  <2>1. route' \in BOOLEAN /\ container' \in [up : BOOLEAN, old : BOOLEAN]
    <3>1. route' = route /\ container' \in {container, [up |-> FALSE, old |-> FALSE]}
      BY <1>20 DEF TearContainer, Gone
    <3>2. route' \in BOOLEAN
      BY <3>1 DEF PreviewTypeOK
    <3>3. [up |-> FALSE, old |-> FALSE] \in [up : BOOLEAN, old : BOOLEAN]
      OBVIOUS
    <3>4. container' \in [up : BOOLEAN, old : BOOLEAN]
      BY <3>1, <3>3 DEF PreviewTypeOK
    <3> QED
      BY <3>2, <3>4
  <2>2. sweep' \in SweepRecord
    BY <1>20, <1>t, PreviewAssumption DEF TearContainer, SweepTo, Gone, PreviewTypeOK, SweepRecord
  <2>3. UNCHANGED <<creation, preview, store, api, nameLock, budget>>
    BY <1>20 DEF TearContainer
  <2> QED
    BY <2>1, <2>2, <2>3 DEF PreviewTypeOK
<1>21. CASE TearRoute
  <2>1. route' \in BOOLEAN /\ container' \in [up : BOOLEAN, old : BOOLEAN]
    BY <1>21, <1>t, PreviewAssumption DEF TearRoute, Mishap, PreviewTypeOK
  <2>2. sweep' \in SweepRecord
    BY <1>21, <1>t, PreviewAssumption DEF TearRoute, Mishap, PreviewTypeOK, SweepRecord
  <2>3. budget' \in 0..MaxMishaps
    BY <1>21, <1>t, PreviewAssumption DEF TearRoute, Mishap, PreviewTypeOK
  <2>4. UNCHANGED <<creation, preview, store, api, nameLock>>
    BY <1>21 DEF TearRoute
  <2> QED
    BY <2>1, <2>2, <2>3, <2>4 DEF PreviewTypeOK
<1>22. CASE CollectOrphans
  <2>1. sweep' \in SweepRecord
    BY <1>22, <1>t, PreviewAssumption DEF CollectOrphans, SweepTo, Mishap, PreviewTypeOK, SweepRecord
  <2>2. budget' \in 0..MaxMishaps
    BY <1>22, <1>t, PreviewAssumption DEF CollectOrphans, SweepTo, Mishap, PreviewTypeOK
  <2>3. UNCHANGED <<creation, preview, store, api, nameLock, route, container>>
    BY <1>22 DEF CollectOrphans
  <2> QED
    BY <2>1, <2>2, <2>3 DEF PreviewTypeOK
<1>23. CASE OrphanRoute
  <2>1. route' \in BOOLEAN /\ container' \in [up : BOOLEAN, old : BOOLEAN]
    BY <1>23, <1>t, PreviewAssumption DEF OrphanRoute, SweepTo, Mishap, PreviewTypeOK
  <2>2. sweep' \in SweepRecord
    BY <1>23, <1>t, PreviewAssumption DEF OrphanRoute, SweepTo, Mishap, PreviewTypeOK, SweepRecord
  <2>3. budget' \in 0..MaxMishaps
    BY <1>23, <1>t, PreviewAssumption DEF OrphanRoute, SweepTo, Mishap, PreviewTypeOK
  <2>4. UNCHANGED <<creation, preview, store, api, nameLock>>
    BY <1>23 DEF OrphanRoute
  <2> QED
    BY <2>1, <2>2, <2>3, <2>4 DEF PreviewTypeOK
<1>24. CASE OrphanRemove
  <2>1. route' \in BOOLEAN /\ container' \in [up : BOOLEAN, old : BOOLEAN]
    <3>1. route' = route /\ container' \in {container, [up |-> FALSE, old |-> FALSE]}
      BY <1>24 DEF OrphanRemove, Gone
    <3>2. route' \in BOOLEAN
      BY <3>1 DEF PreviewTypeOK
    <3>3. [up |-> FALSE, old |-> FALSE] \in [up : BOOLEAN, old : BOOLEAN]
      OBVIOUS
    <3>4. container' \in [up : BOOLEAN, old : BOOLEAN]
      BY <3>1, <3>3 DEF PreviewTypeOK
    <3> QED
      BY <3>2, <3>4
  <2>2. sweep' \in SweepRecord
    BY <1>24, <1>t, PreviewAssumption DEF OrphanRemove, SweepTo, Mishap, Gone, PreviewTypeOK, SweepRecord
  <2>3. budget' \in 0..MaxMishaps
    BY <1>24, <1>t, PreviewAssumption DEF OrphanRemove, SweepTo, Mishap, Gone, PreviewTypeOK
  <2>4. UNCHANGED <<creation, preview, store, api, nameLock>>
    BY <1>24 DEF OrphanRemove
  <2> QED
    BY <2>1, <2>2, <2>3, <2>4 DEF PreviewTypeOK
<1>25. CASE PreviewRestart
  <2>1. creation' \in [Pushes -> CreationRecord]
    BY <1>25, <1>t, PreviewAssumption DEF PreviewRestart, Mishap, PreviewTypeOK, CreationRecord, Inside
  <2>2. nameLock' \in [mutex : 0..MaxMutexes, refs : Nat]
    BY <1>25, <1>t, PreviewAssumption DEF PreviewRestart, Mishap, PreviewTypeOK
  <2>3. preview' \in PreviewRecord /\ store' \in PreviewRecord
    BY <1>25, <1>t, PreviewAssumption DEF PreviewRestart, Mishap, PreviewTypeOK, CreationRecord, ApiRecord
  <2>4. api' \in ApiRecord
    BY <1>25, <1>t, PreviewAssumption DEF PreviewRestart, Mishap, PreviewTypeOK, ApiRecord
  <2>5. sweep' \in SweepRecord
    BY <1>25, <1>t, PreviewAssumption DEF PreviewRestart, Mishap, PreviewTypeOK, SweepRecord
  <2>6. budget' \in 0..MaxMishaps
    <3>1. budget > 0 /\ budget' = budget - 1
      BY <1>25 DEF PreviewRestart, Mishap
    <3> QED
      BY <3>1, PreviewAssumption DEF PreviewTypeOK
  <2>7. UNCHANGED <<route, container>>
    BY <1>25 DEF PreviewRestart
  <2> QED
    BY <2>1, <2>2, <2>3, <2>4, <2>5, <2>6, <2>7 DEF PreviewTypeOK
<1>26. CASE UNCHANGED previewVars
  BY <1>26 DEF previewVars, PreviewTypeOK
<1> QED
  BY <1>1, <1>2, <1>3, <1>4, <1>5, <1>6, <1>7, <1>8, <1>9, <1>10, <1>11, <1>12, <1>13, <1>14, <1>15, <1>16, <1>17, <1>18, <1>19, <1>20, <1>21, <1>22, <1>23, <1>24, <1>25, <1>26
  DEF PreviewNext, CreationStep, SweepStep

\* A creation that is inside and goes on disturbs nobody.
LEMMA GoesOn ==
  ASSUME PreviewInv, UNCHANGED nameLock, NEW p \in Pushes,
         \A q \in Pushes : q # p => creation'[q] = creation[q],
         creation'[p].mutex = creation[p].mutex,
         creation[p].at \in Inside, creation'[p].at \in Inside \cup {"release"}
  PROVE  NameLocked' /\ CreationsAlone'
<1>1. Referring' = Referring
  BY DEF Referring
<1>2. CreationsAlone'
  BY DEF PreviewInv, CreationsAlone
<1> QED
  BY <1>1, <1>2 DEF PreviewInv, NameLocked

\* Who changes neither a creation nor the lock disturbs nobody either.
LEMMA StandsStill ==
  ASSUME PreviewInv, UNCHANGED <<creation, nameLock>>
  PROVE  NameLocked' /\ CreationsAlone'
BY DEF PreviewInv, NameLocked, CreationsAlone, Referring

\* The entry goes with its last reference, so that two creations never have two mutexes.
LEMMA NameLockedNext ==
  ASSUME PreviewInv, [PreviewNext]_previewVars
  PROVE  NameLocked' /\ CreationsAlone'
<1> DEFINE Goal == NameLocked' /\ CreationsAlone'
<1>t. /\ creation \in [Pushes -> [at : Inside \cup {"new", "lock", "release", "done"},
                                 mutex : 0..MaxMutexes, saves : PreviewRecord]]
      /\ nameLock \in [mutex : 0..MaxMutexes, refs : Nat]
      /\ MaxMutexes \in Nat
  BY PreviewAssumption DEF PreviewInv, PreviewTypeOK, CreationRecord
<1>f. IsFiniteSet(Referring) /\ Cardinality(Referring) \in Nat
  BY PreviewAssumption, FS_Subset, FS_CardinalityType DEF Referring
<1>i. /\ nameLock.refs = Cardinality(Referring)
      /\ \A p \in Pushes :
            /\ creation[p].mutex \in {0, nameLock.mutex}
            /\ creation[p].at \in Inside \cup {"lock", "release"} <=> creation[p].mutex # 0
      /\ CreationsAlone
  BY DEF PreviewInv, NameLocked
<1>1. ASSUME NEW p \in Pushes, Acquire(p) PROVE Goal
  <2>1. creation[p].at = "new" /\ p \notin Referring
    BY <1>1, <1>i DEF Acquire, Referring, Inside
  <2>2. PICK m \in Mutexes :
           /\ IF nameLock.mutex # 0 THEN m = nameLock.mutex
              ELSE \A q \in Pushes : creation[q].mutex # m
           /\ nameLock' = [mutex |-> m, refs |-> nameLock.refs + 1]
           /\ creation' = [creation EXCEPT ![p] = [creation[p] EXCEPT !.at = "lock",
                                                                    !.mutex = m]]
    BY <1>1, <1>t DEF Acquire
  <2>3. m # 0 /\ creation'[p].mutex = m /\ creation'[p].at = "lock"
        /\ \A q \in Pushes : q # p => creation'[q] = creation[q]
    BY <2>2, <1>t DEF Mutexes
  <2>4. Referring' = Referring \cup {p}
    BY <2>3 DEF Referring
  <2>5. nameLock'.refs = Cardinality(Referring')
    <3>1. nameLock'.refs = nameLock.refs + 1
      BY <2>2
    <3>2. Cardinality(Referring') = Cardinality(Referring) + 1
      BY <2>1, <2>4, <1>f, FS_AddElement
    <3> QED
      BY <3>1, <3>2, <1>i
  <2>6. \A q \in Pushes : creation'[q].mutex \in {0, nameLock'.mutex}
    BY <2>2, <2>3, <1>i, <1>t
  <2>7. \A q \in Pushes :
           creation'[q].at \in Inside \cup {"lock", "release"} <=> creation'[q].mutex # 0
    BY <2>3, <1>i
  <2>8. CreationsAlone'
    BY <2>3, <1>i DEF CreationsAlone, Inside
  <2> QED
    BY <2>5, <2>6, <2>7, <2>8 DEF NameLocked
<1>2. ASSUME NEW p \in Pushes, Lock(p) PROVE Goal
  <2>1. /\ UNCHANGED nameLock /\ creation[p].at = "lock" /\ creation'[p].at = "add"
        /\ creation'[p].mutex = creation[p].mutex
        /\ \A q \in Pushes : q # p => creation'[q] = creation[q]
    BY <1>2, <1>t DEF Lock, Step
  <2>2. Referring' = Referring
    BY <2>1 DEF Referring
  <2>3. \A q \in Pushes : creation[q].at \notin Inside
    <3> SUFFICES ASSUME NEW q \in Pushes, creation[q].at \in Inside PROVE FALSE
      OBVIOUS
    <3>1. creation[q].mutex # 0 /\ creation[p].mutex # 0
      BY <2>1, <1>i
    <3>2. creation[q].mutex = creation[p].mutex
      BY <3>1, <1>i
    <3> QED
      BY <3>2, <1>2 DEF Lock
  <2>4. CreationsAlone'
    BY <2>1, <2>3 DEF CreationsAlone
  <2>5. NameLocked'
    BY <2>1, <2>2, <1>i DEF NameLocked, Inside
  <2> QED
    BY <2>4, <2>5
<1>3. ASSUME NEW p \in Pushes, Add(p) PROVE Goal
  <2>1. /\ UNCHANGED nameLock /\ creation'[p].mutex = creation[p].mutex
        /\ creation[p].at \in Inside /\ creation'[p].at \in Inside \cup {"release"}
        /\ \A q \in Pushes : q # p => creation'[q] = creation[q]
    BY <1>3, <1>t DEF Add, Inside
  <2> QED
    BY <2>1, GoesOn
<1>4. ASSUME NEW p \in Pushes, AddSave(p) PROVE Goal
  <2>1. /\ UNCHANGED nameLock /\ creation'[p].mutex = creation[p].mutex
        /\ creation[p].at \in Inside /\ creation'[p].at \in Inside \cup {"release"}
        /\ \A q \in Pushes : q # p => creation'[q] = creation[q]
    BY <1>4, <1>t DEF AddSave, Step, Inside
  <2> QED
    BY <2>1, GoesOn
<1>5. ASSUME NEW p \in Pushes, AddPreviewRoute(p) PROVE Goal
  <2>1. /\ UNCHANGED nameLock /\ creation'[p].mutex = creation[p].mutex
        /\ creation[p].at \in Inside /\ creation'[p].at \in Inside \cup {"release"}
        /\ \A q \in Pushes : q # p => creation'[q] = creation[q]
    BY <1>5, <1>t DEF AddPreviewRoute, Step, Finishes, Inside
  <2> QED
    BY <2>1, GoesOn
<1>6. ASSUME NEW p \in Pushes, DeployPreview(p) PROVE Goal
  <2>1. /\ UNCHANGED nameLock /\ creation'[p].mutex = creation[p].mutex
        /\ creation[p].at \in Inside /\ creation'[p].at \in Inside \cup {"release"}
        /\ \A q \in Pushes : q # p => creation'[q] = creation[q]
    BY <1>6, <1>t DEF DeployPreview, Finishes, Inside
  <2> QED
    BY <2>1, GoesOn
<1>7. ASSUME NEW p \in Pushes, Update(p) PROVE Goal
  <2>1. /\ UNCHANGED nameLock /\ creation'[p].mutex = creation[p].mutex
        /\ creation[p].at \in Inside /\ creation'[p].at \in Inside \cup {"release"}
        /\ \A q \in Pushes : q # p => creation'[q] = creation[q]
    BY <1>7, <1>t DEF Update, Step, Inside
  <2> QED
    BY <2>1, GoesOn
<1>8. ASSUME NEW p \in Pushes, UpdateSave(p) PROVE Goal
  <2>1. /\ UNCHANGED nameLock /\ creation'[p].mutex = creation[p].mutex
        /\ creation[p].at \in Inside /\ creation'[p].at \in Inside \cup {"release"}
        /\ \A q \in Pushes : q # p => creation'[q] = creation[q]
    BY <1>8, <1>t DEF UpdateSave, Step, Inside
  <2> QED
    BY <2>1, GoesOn
<1>9. ASSUME NEW p \in Pushes, Unlock(p) PROVE Goal
  <2>1. /\ UNCHANGED nameLock /\ creation'[p].mutex = creation[p].mutex
        /\ creation[p].at \in Inside /\ creation'[p].at \in Inside \cup {"release"}
        /\ \A q \in Pushes : q # p => creation'[q] = creation[q]
    BY <1>9, <1>t DEF Unlock, Inside
  <2> QED
    BY <2>1, GoesOn
<1>10. ASSUME NEW p \in Pushes, Release(p) PROVE Goal
  <2>1. /\ creation[p].at = "release" /\ creation'[p].at = "done" /\ creation'[p].mutex = 0
        /\ \A q \in Pushes : q # p => creation'[q] = creation[q]
    BY <1>10, <1>t DEF Release
  <2>2. p \in Referring
    BY <2>1, <1>i DEF Referring
  <2>3. Referring' = Referring \ {p}
    BY <2>1 DEF Referring
  <2>4. Cardinality(Referring') = nameLock.refs - 1 /\ nameLock.refs >= 1
    <3>1. Cardinality(Referring) # 0
      BY <2>2, <1>f, FS_EmptySet
    <3>2. Cardinality(Referring') = Cardinality(Referring) - 1
      BY <2>2, <2>3, <1>f, FS_RemoveElement
    <3> QED
      BY <3>1, <3>2, <1>f, <1>i
  <2>5. CreationsAlone'
    BY <2>1, <1>i DEF CreationsAlone, Inside
  <2>6. \A q \in Pushes :
           creation'[q].at \in Inside \cup {"lock", "release"} <=> creation'[q].mutex # 0
    BY <2>1, <1>i DEF Inside
  <2>7. CASE nameLock.refs > 1
    <3>1. nameLock' = [nameLock EXCEPT !.refs = nameLock.refs - 1]
      BY <1>10, <2>7 DEF Release
    <3>2. nameLock'.refs = Cardinality(Referring') /\ nameLock'.mutex = nameLock.mutex
      BY <3>1, <2>4, <1>t
    <3>3. \A q \in Pushes : creation'[q].mutex \in {0, nameLock'.mutex}
      BY <3>2, <2>1, <1>i
    <3> QED
      BY <3>2, <3>3, <2>5, <2>6 DEF NameLocked
  <2>8. CASE ~ nameLock.refs > 1
    <3>1. nameLock' = [mutex |-> 0, refs |-> 0] /\ nameLock.refs = 1
      BY <1>10, <2>4, <2>8, <1>t DEF Release
    <3>2. Cardinality(Referring') = 0 /\ IsFiniteSet(Referring')
      BY <3>1, <2>3, <2>4, <1>f, FS_RemoveElement
    <3>3. Referring' = {}
      BY <3>2, FS_EmptySet
    <3>4. \A q \in Pushes : creation'[q].mutex \in {0, nameLock'.mutex}
      BY <3>3 DEF Referring
    <3> QED
      BY <3>1, <3>2, <3>4, <2>5, <2>6 DEF NameLocked
  <2> QED
    BY <2>7, <2>8
<1>11. ASSUME Delete PROVE Goal
  BY <1>11, StandsStill DEF Delete
<1>12. ASSUME DeleteSave PROVE Goal
  BY <1>12, StandsStill DEF DeleteSave
<1>13. ASSUME DeleteRoute PROVE Goal
  BY <1>13, StandsStill DEF DeleteRoute
<1>14. ASSUME Extend PROVE Goal
  BY <1>14, StandsStill DEF Extend
<1>15. ASSUME ExtendSave PROVE Goal
  BY <1>15, StandsStill DEF ExtendSave
<1>16. ASSUME RecordExpires PROVE Goal
  BY <1>16, StandsStill DEF RecordExpires
<1>17. ASSUME ContainerAges PROVE Goal
  BY <1>17, StandsStill DEF ContainerAges
<1>18. ASSUME CleanupExpired PROVE Goal
  BY <1>18, StandsStill DEF CleanupExpired
<1>19. ASSUME CleanupSave PROVE Goal
  BY <1>19, StandsStill DEF CleanupSave
<1>20. ASSUME TearContainer PROVE Goal
  BY <1>20, StandsStill DEF TearContainer
<1>21. ASSUME TearRoute PROVE Goal
  BY <1>21, StandsStill DEF TearRoute
<1>22. ASSUME CollectOrphans PROVE Goal
  BY <1>22, StandsStill DEF CollectOrphans
<1>23. ASSUME OrphanRoute PROVE Goal
  BY <1>23, StandsStill DEF OrphanRoute
<1>24. ASSUME OrphanRemove PROVE Goal
  BY <1>24, StandsStill DEF OrphanRemove
<1>25. ASSUME PreviewRestart PROVE Goal
  <2>1. /\ nameLock' = [mutex |-> 0, refs |-> 0]
        /\ \A p \in Pushes : creation'[p].mutex = 0 /\ creation'[p].at \in {"new", "done"}
    BY <1>25, <1>t DEF PreviewRestart
  <2>2. Referring' = {} /\ Cardinality(Referring') = 0
    BY <2>1, FS_EmptySet DEF Referring
  <2> QED
    BY <2>1, <2>2 DEF NameLocked, CreationsAlone, Inside
<1>26. ASSUME UNCHANGED previewVars PROVE Goal
  BY <1>26, StandsStill DEF previewVars
<1> HIDE DEF Goal
<1>g. Goal
  BY <1>1, <1>2, <1>3, <1>4, <1>5, <1>6, <1>7, <1>8, <1>9, <1>10, <1>11, <1>12, <1>13, <1>14, <1>15, <1>16, <1>17, <1>18, <1>19, <1>20, <1>21, <1>22, <1>23, <1>24, <1>25, <1>26
  DEF PreviewNext, CreationStep, SweepStep
<1> QED
  BY <1>g DEF Goal

LEMMA PreviewInvInit == PreviewInit => PreviewInv
<1> SUFFICES ASSUME PreviewInit PROVE PreviewInv
  OBVIOUS
<1>a. NoPreview \in PreviewRecord /\ 0 \in 0..MaxMutexes /\ MaxMishaps \in 0..MaxMishaps
  BY PreviewAssumption DEF NoPreview, PreviewRecord
<1>b. creation \in [Pushes -> CreationRecord]
  BY <1>a DEF PreviewInit, CreationRecord
<1>c. api \in ApiRecord /\ sweep \in SweepRecord
  BY <1>a DEF PreviewInit, ApiRecord, SweepRecord
<1>1. PreviewTypeOK
  BY <1>a, <1>b, <1>c DEF PreviewInit, PreviewTypeOK, Gone
<1>2. Referring = {}
  BY DEF PreviewInit, Referring
<1>3. NameLocked
  BY <1>2, FS_EmptySet DEF PreviewInit, NameLocked, Inside
<1>4. CreationsAlone
  BY DEF PreviewInit, CreationsAlone, Inside
<1> QED
  BY <1>1, <1>3, <1>4 DEF PreviewInv

LEMMA PreviewInvNext == PreviewInv /\ [PreviewNext]_previewVars => PreviewInv'
BY PreviewTypeNext, NameLockedNext DEF PreviewInv

LEMMA PreviewInvariant == PreviewSpec => []PreviewInv
BY PreviewInvInit, PreviewInvNext, PTL DEF PreviewSpec

\* One creation of a preview domain at a time, whatever pushes, deletions, expiries,
\* failures and restarts meet (AcquireNameLock and ReleaseNameLock of
\* usecase/auto/preview/service.go).
THEOREM OneCreation == PreviewSpec => []CreationsAlone
<1>1. PreviewInv => CreationsAlone
  BY DEF PreviewInv
<1> QED
  BY <1>1, PreviewInvariant, PTL
=============================================================================
