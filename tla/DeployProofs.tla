---------------------------- MODULE DeployProofs ----------------------------
(***************************************************************************)
(* Proofs about Deploy, for any number of callers, containers, images,     *)
(* faults and deaths of the process: its types, the discipline of the      *)
(* deploy lock, and what the deploys do to the map of the containers and   *)
(* to the runtime.  The theorems about the map name what they exclude: the *)
(* calls that write it without the lock, and the removal of the route.     *)
(***************************************************************************)
EXTENDS Deploy, TLAPS

-----------------------------------------------------------------------------
(* What the operators on the runtime and on the calls preserve             *)

DockerType == docker \in [Ids -> Containers \cup {Absent}]

LEMMA ExistingContainer ==
  ASSUME DockerType, NEW c \in Ids, Exists(c)
  PROVE  docker[c] \in Containers
  BY DEF DockerType, Exists, Absent

LEMMA SetStatusType ==
  ASSUME DockerType, NEW c, c \in Ids => Exists(c),
         NEW s \in Statuses \ {"absent"}, SetStatus(c, s)
  PROVE  DockerType'
<1>1. CASE c \in Ids
  <2>1. docker[c] \in Containers
    BY <1>1, ExistingContainer
  <2>2. [docker[c] EXCEPT !.status = s] \in Containers
    BY <2>1 DEF Containers
  <2>3. docker' = [docker EXCEPT ![c] = [docker[c] EXCEPT !.status = s]]
    BY DEF SetStatus
  <2> QED
    BY <1>1, <2>2, <2>3 DEF DockerType
<1>2. CASE c \notin Ids
  BY <1>2 DEF SetStatus, DockerType
<1> QED
  BY <1>1, <1>2

LEMMA StopType ==
  ASSUME DockerType, NEW c, Stop(c)
  PROVE  DockerType'
<1>1. CASE Exists(c)
  BY <1>1, SetStatusType DEF Stop, Statuses
<1>2. CASE ~ Exists(c)
  BY <1>2 DEF Stop, DockerType
<1> QED
  BY <1>1, <1>2

LEMMA RemoveType ==
  ASSUME DockerType, NEW c, Remove(c) \/ StopAndRemove(c)
  PROVE  DockerType'
<1>1. CASE docker' = [docker EXCEPT ![c] = Absent]
  BY <1>1 DEF DockerType
<1>2. CASE Stop(c)
  BY <1>2, StopType
<1>3. CASE UNCHANGED docker
  BY <1>3 DEF DockerType
<1> QED
  BY <1>1, <1>2, <1>3 DEF Remove, StopAndRemove

LEMMA SeenType ==
  ASSUME DockerType, NEW c \in Ids, Exists(c)
  PROVE  Seen(c) \in Records
  BY ExistingContainer DEF Seen, Containers, Records

LEMMA ActiveExists ==
  ASSUME NEW c, Active(c)
  PROVE  Exists(c)
  BY DEF Active, Exists

LEMMA UntrackedType == Untracked \in Records
  BY DEF Records

LEMMA IdleDeployType == IdleDeploy \in DeployCalls
  BY DEF DeployCalls

LEMMA EarlyType ==
  ASSUME NEW call \in DeployCalls, call.at \in EarlyPlaces
  PROVE  call \in EarlyCalls
  BY DEF DeployCalls, IdleDeploy, EarlyCalls, LateCalls, EarlyPlaces, LatePlaces

LEMMA LateType ==
  ASSUME NEW call \in DeployCalls, call.at \in LatePlaces
  PROVE  call \in LateCalls
  BY DEF DeployCalls, IdleDeploy, EarlyCalls, LateCalls, EarlyPlaces, LatePlaces

LEMMA GotoType ==
  ASSUME deploy \in [Deployers -> DeployCalls], NEW d \in Deployers, NEW place,
         \/ deploy[d].at \in EarlyPlaces /\ place \in EarlyPlaces
         \/ deploy[d].at \in LatePlaces /\ place \in LatePlaces,
         Goto(d, place)
  PROVE  deploy' \in [Deployers -> DeployCalls]
<1>1. [deploy[d] EXCEPT !.at = place] \in DeployCalls
  <2>1. CASE deploy[d].at \in EarlyPlaces /\ place \in EarlyPlaces
    <3>1. deploy[d] \in EarlyCalls
      BY <2>1, EarlyType
    <3> QED
      BY <2>1, <3>1 DEF EarlyCalls, DeployCalls
  <2>2. CASE deploy[d].at \in LatePlaces /\ place \in LatePlaces
    <3>1. deploy[d] \in LateCalls
      BY <2>2, LateType
    <3> QED
      BY <2>2, <3>1 DEF LateCalls, DeployCalls
  <2> QED
    BY <2>1, <2>2
<1> QED
  BY <1>1 DEF Goto

LEMMA ReturnType ==
  ASSUME deploy \in [Deployers -> DeployCalls], NEW d \in Deployers,
         deploy' = [deploy EXCEPT ![d] = IdleDeploy]
  PROVE  deploy' \in [Deployers -> DeployCalls]
  BY IdleDeployType

LEMMA AdvanceType ==
  ASSUME tasks \subseteq CleanupTasks, NEW t \in tasks,
         NEW place \in {"drain", "stop", "remove", "rename"}, Advance(t, place)
  PROVE  tasks' \subseteq CleanupTasks
<1>1. [t EXCEPT !.at = place] \in CleanupTasks
  BY DEF CleanupTasks
<1> QED
  BY <1>1 DEF Advance

LEMMA IdleOperatorType == IdleOperator \in OperatorCalls
  BY UntrackedType DEF IdleOperator, OperatorCalls

-----------------------------------------------------------------------------
(* Types                                                                   *)

LEMMA TypeInit == Init => TypeOK
<1> SUFFICES ASSUME Init PROVE TypeOK
  OBVIOUS
<1> USE DeployAssumption DEF Init
<1>1. docker \in [Ids -> Containers \cup {Absent}]
  OBVIOUS
<1>2. deploy \in [Deployers -> DeployCalls]
  BY IdleDeployType
<1>3. recon \in [Reconcilers -> ReconCalls]
  BY DEF IdleRecon, ReconCalls
<1>4. operator \in [Operators -> OperatorCalls]
  BY IdleOperatorType
<1>5. monitor \in MonitorChecks
  BY DEF IdleMonitor, MonitorChecks
<1> QED
  BY <1>1, <1>2, <1>3, <1>4, <1>5, UntrackedType DEF TypeOK, Free

LEMMA TypeNext == TypeOK /\ [Next]_vars => TypeOK'
<1> SUFFICES ASSUME TypeOK, [Next]_vars PROVE TypeOK'
  OBVIOUS
<1> USE DeployAssumption DEF TypeOK
<1>dt. DockerType
  BY DEF DockerType
<1>1. ASSUME NEW d \in Deployers, CallDeploy(d) PROVE TypeOK'
  <2>1. PICK image \in Images, skip \in BOOLEAN :
          deploy' = [deploy EXCEPT ![d] = [IdleDeploy EXCEPT !.at = "lock",
                                           !.image = image, !.skip = skip]]
    BY <1>1 DEF CallDeploy
  <2>2. [IdleDeploy EXCEPT !.at = "lock", !.image = image, !.skip = skip] \in DeployCalls
    BY UntrackedType DEF IdleDeploy, DeployCalls, EarlyCalls, EarlyPlaces
  <2> QED
    BY <1>1, <2>1, <2>2 DEF CallDeploy
<1>2. ASSUME NEW d \in Deployers, GiveUpWaiting(d) PROVE TypeOK'
  BY <1>2, ReturnType DEF GiveUpWaiting, Return, Free
<1>3. ASSUME NEW d \in Deployers, AcquireLock(d) PROVE TypeOK'
  BY <1>3, GotoType DEF AcquireLock, EarlyPlaces, LatePlaces
<1>4. ASSUME NEW d \in Deployers, ResolveTracked(d) PROVE TypeOK'
  <2>1. deploy' \in [Deployers -> DeployCalls]
    <3>1. deploy[d] \in EarlyCalls
      BY <1>4, EarlyType DEF ResolveTracked, EarlyPlaces
    <3>2. [deploy[d] EXCEPT !.at = "orphans", !.existing = tracked] \in EarlyCalls
      BY <3>1 DEF EarlyCalls, EarlyPlaces
    <3>3. deploy' = [deploy EXCEPT ![d] =
                        [deploy[d] EXCEPT !.at = "orphans", !.existing = tracked]]
      BY <1>4 DEF ResolveTracked
    <3> QED
      BY <3>2, <3>3 DEF DeployCalls
  <2> QED
    BY <1>4, <2>1 DEF ResolveTracked
<1>5. ASSUME NEW d \in Deployers, ResolveFromRuntime(d) PROVE TypeOK'
  <2>1. ASSUME NEW c \in Ids, Preferred(c),
              deploy' = [deploy EXCEPT ![d].at = "adopt", ![d].existing = Seen(c)]
        PROVE deploy' \in [Deployers -> DeployCalls]
    <3>1. Seen(c) \in Records
      BY <2>1, <1>dt, SeenType, ActiveExists DEF Preferred
    <3>2. deploy[d] \in EarlyCalls
      BY <1>5, EarlyType DEF ResolveFromRuntime, EarlyPlaces
    <3>3. [deploy[d] EXCEPT !.at = "adopt", !.existing = Seen(c)] \in EarlyCalls
      BY <3>1, <3>2 DEF EarlyCalls, EarlyPlaces
    <3>4. deploy' = [deploy EXCEPT ![d] =
                        [deploy[d] EXCEPT !.at = "adopt", !.existing = Seen(c)]]
      BY <2>1
    <3> QED
      BY <3>3, <3>4 DEF DeployCalls
  <2>2. ASSUME Goto(d, "orphans")
        PROVE deploy' \in [Deployers -> DeployCalls]
    BY <1>5, <2>2, GotoType DEF ResolveFromRuntime, EarlyPlaces
  <2> QED
    BY <1>5, <2>1, <2>2 DEF ResolveFromRuntime
<1>6. ASSUME NEW d \in Deployers, Adopt(d) PROVE TypeOK'
  <2>1. deploy' \in [Deployers -> DeployCalls]
    BY <1>6, GotoType DEF Adopt, EarlyPlaces, LatePlaces
  <2>2. deploy[d].existing \in Records
    BY UntrackedType DEF DeployCalls, EarlyCalls, LateCalls, IdleDeploy
  <2> QED
    BY <1>6, <2>1, <2>2 DEF Adopt, Track
<1>7. ASSUME NEW d \in Deployers, ListOrphans(d) PROVE TypeOK'
  <2>1. ASSUME deploy' = [deploy EXCEPT ![d].at = "clean",
                   ![d].todo = {c \in Ids : Orphan(c, deploy[d].existing.id)}]
        PROVE deploy' \in [Deployers -> DeployCalls]
    <3> DEFINE S == {c \in Ids : Orphan(c, deploy[d].existing.id)}
    <3>1. S \in SUBSET Ids
      OBVIOUS
    <3>2. deploy' = [deploy EXCEPT ![d] = [deploy[d] EXCEPT !.at = "clean", !.todo = S]]
      BY <2>1
    <3> HIDE DEF S
    <3>3. deploy[d] \in EarlyCalls
      BY <1>7, EarlyType DEF ListOrphans, EarlyPlaces
    <3>4. [deploy[d] EXCEPT !.at = "clean", !.todo = S] \in EarlyCalls
      BY <3>1, <3>3 DEF EarlyCalls, EarlyPlaces
    <3> QED
      BY <3>2, <3>4 DEF DeployCalls
  <2>2. ASSUME Goto(d, "clean") PROVE deploy' \in [Deployers -> DeployCalls]
    BY <1>7, <2>2, GotoType DEF ListOrphans, EarlyPlaces
  <2> QED
    BY <1>7, <2>1, <2>2 DEF ListOrphans
<1>8. ASSUME NEW d \in Deployers, CleanOrphan(d) PROVE TypeOK'
  <2>1. PICK c \in deploy[d].todo :
          StopAndRemove(c) /\ deploy' = [deploy EXCEPT ![d].todo = @ \ {c}]
    BY <1>8 DEF CleanOrphan
  <2>2. DockerType'
    BY <2>1, <1>dt, RemoveType
  <2>3. deploy' \in [Deployers -> DeployCalls]
    <3>1. deploy[d] \in EarlyCalls
      BY <1>8, EarlyType DEF CleanOrphan, EarlyPlaces
    <3>2. [deploy[d] EXCEPT !.todo = @ \ {c}] \in EarlyCalls
      BY <3>1 DEF EarlyCalls
    <3>3. deploy' = [deploy EXCEPT ![d] = [deploy[d] EXCEPT !.todo = @ \ {c}]]
      BY <2>1
    <3> QED
      BY <3>2, <3>3 DEF DeployCalls
  <2> QED
    BY <1>8, <2>2, <2>3 DEF CleanOrphan, DockerType
<1>9. ASSUME NEW d \in Deployers, PrepareFails(d) PROVE TypeOK'
  BY <1>9, ReturnType DEF PrepareFails, Return, Free
<1>10. ASSUME NEW d \in Deployers, SkipRedundantDeploy(d) PROVE TypeOK'
  BY <1>10, ReturnType DEF SkipRedundantDeploy, Return, Free
<1>11. ASSUME NEW d \in Deployers, CreateContainer(d) PROVE TypeOK'
  <2> DEFINE name == NewName(deploy[d].existing)
             new  == [status |-> "created", name |-> name, image |-> deploy[d].image]
  <2>0. deploy[d] \in EarlyCalls
    BY <1>11, EarlyType DEF CreateContainer, EarlyPlaces
  <2>1. deploy[d].image \in Images
    BY <2>0 DEF EarlyCalls
  <2>2. new \in Containers
    BY <2>1 DEF NewName, Containers, Names, Statuses
  <2>3. born + 1 \in Ids /\ born' = born + 1 /\ born' \in 0..MaxContainers
    BY <1>11 DEF CreateContainer, Ids
  <2>4. docker' = [docker EXCEPT ![born + 1] = new]
    BY <1>11 DEF CreateContainer
  <2>5. DockerType'
    BY <2>2, <2>3, <2>4, <1>dt DEF DockerType
  <2>6. deploy' \in [Deployers -> DeployCalls]
    <3>1. [deploy[d] EXCEPT !.at = "start", !.new = born + 1] \in LateCalls
      BY <2>0, <2>3 DEF EarlyCalls, LateCalls, LatePlaces
    <3>2. deploy' = [deploy EXCEPT ![d] =
                        [deploy[d] EXCEPT !.at = "start", !.new = born + 1]]
      BY <1>11 DEF CreateContainer
    <3> QED
      BY <3>1, <3>2 DEF DeployCalls
  <2> QED
    BY <1>11, <2>3, <2>5, <2>6 DEF CreateContainer, DockerType
<1>12. ASSUME NEW d \in Deployers, CreateFails(d) PROVE TypeOK'
  BY <1>12, ReturnType DEF CreateFails, Return, Free
<1>13. ASSUME NEW d \in Deployers, StartContainer(d) PROVE TypeOK'
  <2>1. DockerType'
    BY <1>13, <1>dt, SetStatusType DEF StartContainer, Statuses
  <2>2. deploy' \in [Deployers -> DeployCalls]
    BY <1>13, GotoType DEF StartContainer, EarlyPlaces, LatePlaces
  <2> QED
    BY <1>13, <2>1, <2>2 DEF StartContainer, DockerType
<1>14. ASSUME NEW d \in Deployers, StartFails(d) PROVE TypeOK'
  <2>1. DockerType'
    BY <1>14, <1>dt, RemoveType DEF StartFails
  <2>2. deploy' \in [Deployers -> DeployCalls]
    BY <1>14, ReturnType DEF StartFails, Return
  <2> QED
    BY <1>14, <2>1, <2>2 DEF StartFails, Return, Free, DockerType
<1>15. ASSUME NEW d \in Deployers, BecomeReady(d) PROVE TypeOK'
  BY <1>15, GotoType DEF BecomeReady, EarlyPlaces, LatePlaces
<1>16. ASSUME NEW d \in Deployers, ReadinessFails(d) PROVE TypeOK'
  <2>1. DockerType'
    BY <1>16, <1>dt, RemoveType DEF ReadinessFails
  <2>2. deploy' \in [Deployers -> DeployCalls]
    BY <1>16, ReturnType DEF ReadinessFails, Return
  <2> QED
    BY <1>16, <2>1, <2>2 DEF ReadinessFails, Return, Free, DockerType
<1>17. ASSUME NEW d \in Deployers, Activate(d) PROVE TypeOK'
  <2>1. deploy' \in [Deployers -> DeployCalls]
    BY <1>17, GotoType DEF Activate, EarlyPlaces, LatePlaces
  <2> DEFINE record == [id |-> deploy[d].new, name |-> NewName(deploy[d].existing),
                        image |-> deploy[d].image]
  <2>2. record \in Records
    <3>1. deploy[d] \in LateCalls
      BY <1>17, LateType DEF Activate, LatePlaces
    <3> QED
      BY <3>1 DEF LateCalls, Records, NewName, Names
  <2> QED
    BY <1>17, <2>1, <2>2 DEF Activate, Track
<1>18. ASSUME NEW d \in Deployers, InvalidateTarget(d) PROVE TypeOK'
  BY <1>18, GotoType DEF InvalidateTarget, EarlyPlaces, LatePlaces
<1>19. ASSUME NEW d \in Deployers, Stabilized(d) PROVE TypeOK'
  BY <1>19, GotoType DEF Stabilized, EarlyPlaces, LatePlaces
<1>20. ASSUME NEW d \in Deployers, CrashedEarly(d) PROVE TypeOK'
  BY <1>20, GotoType DEF CrashedEarly, EarlyPlaces, LatePlaces
<1>21. ASSUME NEW d \in Deployers, RestoreOld(d) PROVE TypeOK'
  <2>1. deploy' \in [Deployers -> DeployCalls]
    BY <1>21, GotoType DEF RestoreOld, EarlyPlaces, LatePlaces
  <2>2. deploy[d].existing \in Records
    BY UntrackedType DEF DeployCalls, EarlyCalls, LateCalls, IdleDeploy
  <2> QED
    BY <1>21, <2>1, <2>2 DEF RestoreOld
<1>22. ASSUME NEW d \in Deployers, Reinvalidate(d) PROVE TypeOK'
  BY <1>22, GotoType DEF Reinvalidate, EarlyPlaces, LatePlaces
<1>23. ASSUME NEW d \in Deployers, DropNew(d) PROVE TypeOK'
  <2>1. DockerType'
    BY <1>23, <1>dt, RemoveType DEF DropNew
  <2>2. deploy' \in [Deployers -> DeployCalls]
    BY <1>23, ReturnType DEF DropNew, Return
  <2> QED
    BY <1>23, <2>1, <2>2 DEF DropNew, Return, Free, DockerType
<1>24. ASSUME NEW d \in Deployers, BothDead(d) PROVE TypeOK'
  <2>1. DockerType'
    BY <1>24, <1>dt, RemoveType DEF BothDead
  <2>2. deploy' \in [Deployers -> DeployCalls]
    BY <1>24, ReturnType DEF BothDead, Return
  <2> QED
    BY <1>24, <2>1, <2>2 DEF BothDead, Return, Free, DockerType
<1>25. ASSUME NEW d \in Deployers, Finish(d) PROVE TypeOK'
  <2>1. deploy' \in [Deployers -> DeployCalls]
    BY <1>25, ReturnType DEF Finish, Return
  <2>2. tasks' \subseteq CleanupTasks
    <3>1. deploy[d].existing \in Records /\ deploy[d].new \in Ids \cup {0}
      BY UntrackedType DEF DeployCalls, EarlyCalls, LateCalls, IdleDeploy
    <3>2. deploy[d].existing.id \in Ids \cup {0}
      BY <3>1 DEF Records, Untracked
    <3> QED
      BY <1>25, <3>1, <3>2 DEF Finish, CleanupTasks
  <2> QED
    BY <1>25, <2>1, <2>2 DEF Finish, Return, Free
<1>26. ASSUME NEW t \in tasks, Drained(t) PROVE TypeOK'
  BY <1>26, AdvanceType DEF Drained
<1>27. ASSUME NEW t \in tasks, StopOld(t) PROVE TypeOK'
  <2>1. DockerType'
    BY <1>27, <1>dt, StopType DEF StopOld
  <2>2. tasks' \subseteq CleanupTasks
    BY <1>27, AdvanceType DEF StopOld
  <2> QED
    BY <1>27, <2>1, <2>2 DEF StopOld, DockerType
<1>28. ASSUME NEW t \in tasks, RemoveOld(t) PROVE TypeOK'
  <2>1. DockerType'
    BY <1>28, <1>dt, RemoveType DEF RemoveOld
  <2>2. tasks' \subseteq CleanupTasks
    BY <1>28, AdvanceType DEF RemoveOld
  <2> QED
    BY <1>28, <2>1, <2>2 DEF RemoveOld, DockerType
<1>29. ASSUME NEW t \in tasks, RenameNew(t) PROVE TypeOK'
  <2>1. CASE Exists(t.new) /\ ~ NameTaken("canonical") /\ t.new \in Ids
    <3>1. docker[t.new] \in Containers
      BY <2>1, <1>dt, ExistingContainer
    <3>2. [docker[t.new] EXCEPT !.name = "canonical"] \in Containers
      BY <3>1 DEF Containers, Names
    <3>3. docker' = [docker EXCEPT ![t.new] = [docker[t.new] EXCEPT !.name = "canonical"]]
      BY <1>29, <2>1 DEF RenameNew
    <3> QED
      BY <1>29, <2>1, <3>2, <3>3 DEF RenameNew
  <2>2. CASE ~ (Exists(t.new) /\ ~ NameTaken("canonical") /\ t.new \in Ids)
    <3>1. docker' = docker
      BY <1>29, <2>2 DEF RenameNew
    <3> QED
      BY <1>29, <3>1 DEF RenameNew
  <2> QED
    BY <2>1, <2>2
<1>30. ASSUME NEW r \in Reconcilers, CallReconcile(r) PROVE TypeOK'
  <2>1. recon' \in [Reconcilers -> ReconCalls]
    BY <1>30 DEF CallReconcile, ReconReturn, ReconCalls, IdleRecon
  <2> QED
    BY <1>30, <2>1 DEF CallReconcile, ReconReturn, Free
<1>31. ASSUME NEW r \in Reconcilers, GiveUpReconcile(r) PROVE TypeOK'
  <2>1. recon' \in [Reconcilers -> ReconCalls]
    BY <1>31 DEF GiveUpReconcile, ReconReturn, ReconCalls, IdleRecon
  <2> QED
    BY <1>31, <2>1 DEF GiveUpReconcile, ReconReturn, Free
<1>32. ASSUME NEW r \in Reconcilers, ReconcileLock(r) PROVE TypeOK'
  <2>1. recon' \in [Reconcilers -> ReconCalls]
    BY <1>32 DEF ReconcileLock, ReconReturn, ReconCalls, IdleRecon
  <2> QED
    BY <1>32, <2>1 DEF ReconcileLock, ReconReturn, Free
<1>33. ASSUME NEW r \in Reconcilers, ReconcileListFails(r) PROVE TypeOK'
  <2>1. recon' \in [Reconcilers -> ReconCalls]
    BY <1>33 DEF ReconcileListFails, ReconReturn, ReconCalls, IdleRecon
  <2> QED
    BY <1>33, <2>1 DEF ReconcileListFails, ReconReturn, Free
<1>34. ASSUME NEW r \in Reconcilers, ReconcileInvalidate(r) PROVE TypeOK'
  <2>1. recon' \in [Reconcilers -> ReconCalls]
    BY <1>34 DEF ReconcileInvalidate, ReconReturn, ReconCalls, IdleRecon
  <2> QED
    BY <1>34, <2>1 DEF ReconcileInvalidate, ReconReturn, Free
<1>35. ASSUME NEW r \in Reconcilers, ReconcileDone(r) PROVE TypeOK'
  <2>1. recon' \in [Reconcilers -> ReconCalls]
    BY <1>35 DEF ReconcileDone, ReconReturn, ReconCalls, IdleRecon
  <2> QED
    BY <1>35, <2>1 DEF ReconcileDone, ReconReturn, Free
<1>36. ASSUME NEW r \in Reconcilers, ReconcileClear(r) PROVE TypeOK'
  <2> DEFINE S == {c \in Ids : Exists(c)}
             U == {c \in Ids : Up(c)}
  <2>1. [at |-> "invalidate", todo |-> S, running |-> U] \in ReconCalls
    BY DEF ReconCalls
  <2>2. recon' \in [Reconcilers -> ReconCalls]
    BY <1>36, <2>1 DEF ReconcileClear
  <2>3. managedCount' \in Int
    BY <1>36 DEF ReconcileClear
  <2> QED
    BY <1>36, <2>2, <2>3, UntrackedType DEF ReconcileClear
<1>37. ASSUME NEW r \in Reconcilers, ReconcileRemove(r) PROVE TypeOK'
  <2>1. PICK c \in recon[r].todo :
          /\ IF c \in recon[r].running THEN StopAndRemove(c) ELSE Remove(c)
          /\ recon' = [recon EXCEPT ![r].todo = @ \ {c}]
    BY <1>37 DEF ReconcileRemove
  <2>2. DockerType'
    BY <2>1, <1>dt, RemoveType
  <2>3. recon' \in [Reconcilers -> ReconCalls]
    <3>1. [recon[r] EXCEPT !.todo = @ \ {c}] \in ReconCalls
      BY DEF ReconCalls
    <3>2. recon' = [recon EXCEPT ![r] = [recon[r] EXCEPT !.todo = @ \ {c}]]
      BY <2>1
    <3> QED
      BY <3>1, <3>2
  <2> QED
    BY <1>37, <2>2, <2>3 DEF ReconcileRemove, DockerType
<1>38. ASSUME NEW o \in Operators, SyncList(o) PROVE TypeOK'
  <2>1. PICK seen \in Listed :
          operator' = [operator EXCEPT ![o] =
              [at |-> "store", id |-> 0, seen |-> seen,
               again |-> operator[o].at = "restart"]]
    BY <1>38 DEF SyncList
  <2>2. seen \in Records
    <3>1. \A c \in Ids : Active(c) => Seen(c) \in Records
      BY <1>dt, SeenType, ActiveExists
    <3> QED
      BY <3>1, UntrackedType DEF Listed
  <2>3. (operator[o].at = "restart") \in BOOLEAN
    OBVIOUS
  <2>4. [at |-> "store", id |-> 0, seen |-> seen,
         again |-> operator[o].at = "restart"] \in OperatorCalls
    BY <2>2, <2>3 DEF OperatorCalls
  <2>5. operator' \in [Operators -> OperatorCalls]
    BY <2>1, <2>4
  <2> QED
    BY <1>38, <2>5 DEF SyncList
<1>39. ASSUME NEW o \in Operators, SyncStore(o) PROVE TypeOK'
  <2>1. operator[o].seen \in Records
    BY DEF OperatorCalls
  <2>2. [IdleOperator EXCEPT !.at = "again"] \in OperatorCalls
    BY IdleOperatorType DEF OperatorCalls
  <2>3. operator' \in [Operators -> OperatorCalls]
    BY <1>39, <2>2, IdleOperatorType DEF SyncStore
  <2> QED
    BY <1>39, <2>1, <2>3 DEF SyncStore
<1>40. ASSUME NEW o \in Operators, RestartCall(o) PROVE TypeOK'
  <2> DEFINE call == [IdleOperator EXCEPT !.at = "restart", !.id = tracked.id,
                                          !.again = operator[o].at = "again"]
  <2>1. tracked.id \in Ids \cup {0}
    BY DEF Records, Untracked
  <2>2. (operator[o].at = "again") \in BOOLEAN
    OBVIOUS
  <2>3. call \in OperatorCalls
    BY <2>1, <2>2, IdleOperatorType DEF OperatorCalls
  <2>4. operator' \in [Operators -> OperatorCalls]
    BY <1>40, <2>3, IdleOperatorType DEF RestartCall
  <2> QED
    BY <1>40, <2>4 DEF RestartCall
<1>41. ASSUME NEW o \in Operators, RestartContainer(o) PROVE TypeOK'
  <2>1. DockerType'
    <3>1. CASE Exists(operator[o].id)
      BY <1>41, <3>1, <1>dt, SetStatusType DEF RestartContainer, Statuses
    <3>2. CASE ~ Exists(operator[o].id)
      BY <1>41, <3>2 DEF RestartContainer, DockerType
    <3> QED
      BY <3>1, <3>2
  <2>2. operator' \in [Operators -> OperatorCalls]
    BY <1>41, IdleOperatorType DEF RestartContainer
  <2> QED
    BY <1>41, <2>1, <2>2 DEF RestartContainer, DockerType
<1>42. ASSUME MonitorSnapshot PROVE TypeOK'
  <2>1. tracked.id \in Ids \cup {0}
    BY DEF Records, Untracked
  <2> QED
    BY <1>42, <2>1 DEF MonitorSnapshot, MonitorChecks
<1>43. ASSUME MonitorInspect PROVE TypeOK'
  BY <1>43 DEF MonitorInspect, MonitorChecks, Remedy
<1>44. ASSUME MonitorSkip PROVE TypeOK'
  BY <1>44 DEF MonitorSkip, MonitorChecks, IdleMonitor
<1>45. ASSUME MonitorVerify PROVE TypeOK'
  BY <1>45 DEF MonitorVerify, MonitorChecks, IdleMonitor
<1>46. ASSUME MonitorAct PROVE TypeOK'
  <2>1. DockerType'
    <3>1. CASE Exists(monitor.id) /\ SetStatus(monitor.id, "running")
      BY <3>1, <1>dt, SetStatusType DEF Statuses
    <3>2. CASE UNCHANGED docker
      BY <3>2 DEF DockerType
    <3> QED
      BY <1>46, <3>1, <3>2 DEF MonitorAct
  <2>2. monitor' \in MonitorChecks
    BY <1>46 DEF MonitorAct, MonitorChecks, IdleMonitor
  <2> QED
    BY <1>46, <2>1, <2>2 DEF MonitorAct, DockerType
<1>47. ASSUME NEW c \in Ids, ContainerCrashes(c) PROVE TypeOK'
  <2>1. Exists(c)
    BY <1>47 DEF ContainerCrashes, Up, Exists
  <2>2. DockerType'
    BY <1>47, <2>1, <1>dt, SetStatusType DEF ContainerCrashes, Statuses
  <2> QED
    BY <1>47, <2>2 DEF ContainerCrashes, DockerType
<1>48. ASSUME NEW c \in Ids, RuntimeRestarts(c) PROVE TypeOK'
  <2>1. Exists(c)
    BY <1>48 DEF RuntimeRestarts, Exists
  <2>2. DockerType'
    BY <1>48, <2>1, <1>dt, SetStatusType DEF RuntimeRestarts, Statuses
  <2> QED
    BY <1>48, <2>2 DEF RuntimeRestarts, DockerType
<1>49. ASSUME NEW c \in Ids, StoppedExternally(c) PROVE TypeOK'
  <2>1. Exists(c)
    BY <1>49 DEF StoppedExternally, Active, Exists
  <2>2. DockerType'
    BY <1>49, <2>1, <1>dt, SetStatusType DEF StoppedExternally, Statuses
  <2> QED
    BY <1>49, <2>2 DEF StoppedExternally, DockerType
<1>50. ASSUME ProcessDies PROVE TypeOK'
  <2>1. deploy' \in [Deployers -> DeployCalls]
    BY <1>50, IdleDeployType DEF ProcessDies
  <2>2. recon' \in [Reconcilers -> ReconCalls]
    BY <1>50 DEF ProcessDies, IdleRecon, ReconCalls
  <2>3. operator' \in [Operators -> OperatorCalls]
    BY <1>50, IdleOperatorType DEF ProcessDies
  <2>4. monitor' \in MonitorChecks
    BY <1>50 DEF ProcessDies, IdleMonitor, MonitorChecks
  <2> QED
    BY <1>50, <2>1, <2>2, <2>3, <2>4, UntrackedType DEF ProcessDies, Free
<1>51. CASE UNCHANGED vars
  BY <1>51 DEF vars
<1> QED
  BY <1>1, <1>2, <1>3, <1>4, <1>5, <1>6, <1>7, <1>8, <1>9, <1>10, <1>11, <1>12,
     <1>13, <1>14, <1>15, <1>16, <1>17, <1>18, <1>19, <1>20, <1>21, <1>22,
     <1>23, <1>24, <1>25, <1>26, <1>27, <1>28, <1>29, <1>30, <1>31, <1>32,
     <1>33, <1>34, <1>35, <1>36, <1>37, <1>38, <1>39, <1>40, <1>41, <1>42,
     <1>43, <1>44, <1>45, <1>46, <1>47, <1>48, <1>49, <1>50, <1>51 DEF Next,
     DeployStep, TaskStep, ReconcileStep, MonitorStep

\* Every variable keeps its type: in particular a tracked record always has a name
\* and an image, and a container either is fully known to the runtime or absent.
THEOREM Typing == Spec => []TypeOK
<1> QED
  BY TypeInit, TypeNext, PTL DEF Spec

-----------------------------------------------------------------------------
(* The discipline of the deploy lock                                       *)

\* LockedSections is inductive relative to the types: an action either belongs to
\* the one call that holds the lock, or it takes a lock that is free, or it leaves
\* alone both the lock and who is in a locked section.
LEMMA LockInit == Init => LockedSections
BY DeployAssumption DEF Init, LockedSections, InSection, IdleDeploy, IdleRecon, Free

LEMMA LockNext == TypeOK /\ LockedSections /\ [Next]_vars => LockedSections'
<1> SUFFICES ASSUME TypeOK, LockedSections, [Next]_vars PROVE LockedSections'
  OBVIOUS
<1> USE DeployAssumption DEF TypeOK, LockedSections, InSection, Free
<1>1. ASSUME NEW d \in Deployers, CallDeploy(d) PROVE LockedSections'
  BY <1>1 DEF CallDeploy, Goto, Return, IdleDeploy
<1>2. ASSUME NEW d \in Deployers, GiveUpWaiting(d) PROVE LockedSections'
  BY <1>2 DEF GiveUpWaiting, Goto, Return, IdleDeploy
<1>3. ASSUME NEW d \in Deployers, AcquireLock(d) PROVE LockedSections'
  BY <1>3 DEF AcquireLock, Goto, Return, IdleDeploy
<1>4. ASSUME NEW d \in Deployers, ResolveTracked(d) PROVE LockedSections'
  BY <1>4 DEF ResolveTracked, Goto, Return, IdleDeploy
<1>5. ASSUME NEW d \in Deployers, ResolveFromRuntime(d) PROVE LockedSections'
  <2>1. deploy'[d].at \in {"adopt", "orphans"} /\ \A e \in Deployers \ {d} : deploy'[e] = deploy[e]
    <3>1. CASE Goto(d, "orphans")
      BY <3>1 DEF Goto
    <3>2. ASSUME NEW c \in Ids,
                 deploy' = [deploy EXCEPT ![d].at = "adopt", ![d].existing = Seen(c)]
          PROVE  deploy'[d].at = "adopt" /\ \A e \in Deployers \ {d} : deploy'[e] = deploy[e]
      <4> HIDE DEF TypeOK, LockedSections
      <4> DEFINE seen == Seen(c)
      <4>1. deploy' = [deploy EXCEPT ![d] = [deploy[d] EXCEPT !.at = "adopt", !.existing = seen]]
        BY <3>2
      <4> QED
        BY <4>1 DEF TypeOK, DeployCalls, IdleDeploy, EarlyCalls, LateCalls
    <3> QED
      BY <1>5, <3>1, <3>2 DEF ResolveFromRuntime
  <2> QED
    BY <1>5, <2>1 DEF ResolveFromRuntime
<1>6. ASSUME NEW d \in Deployers, Adopt(d) PROVE LockedSections'
  BY <1>6 DEF Adopt, Goto, Return, IdleDeploy
<1>7. ASSUME NEW d \in Deployers, ListOrphans(d) PROVE LockedSections'
  <2>1. PICK todo :
           deploy' = [deploy EXCEPT ![d] = [deploy[d] EXCEPT !.at = "clean", !.todo = todo]]
    <3>1. CASE Goto(d, "clean")
      <4>1. deploy' = [deploy EXCEPT ![d] = [deploy[d] EXCEPT !.at = "clean", !.todo = deploy[d].todo]]
        BY <3>1 DEF Goto, DeployCalls, IdleDeploy, EarlyCalls, LateCalls
      <4> QED
        BY <4>1
    <3> QED
      BY <1>7, <3>1 DEF ListOrphans
  <2>2. deploy'[d].at = "clean" /\ \A e \in Deployers \ {d} : deploy'[e] = deploy[e]
    BY <2>1
  <2> QED
    BY <1>7, <2>2 DEF ListOrphans
<1>8. ASSUME NEW d \in Deployers, CleanOrphan(d) PROVE LockedSections'
  BY <1>8 DEF CleanOrphan, Goto, Return, IdleDeploy
<1>9. ASSUME NEW d \in Deployers, PrepareFails(d) PROVE LockedSections'
  BY <1>9 DEF PrepareFails, Goto, Return, IdleDeploy
<1>10. ASSUME NEW d \in Deployers, SkipRedundantDeploy(d) PROVE LockedSections'
  BY <1>10 DEF SkipRedundantDeploy, Goto, Return, IdleDeploy
<1>11. ASSUME NEW d \in Deployers, CreateContainer(d) PROVE LockedSections'
  BY <1>11 DEF CreateContainer, Goto, Return, IdleDeploy
<1>12. ASSUME NEW d \in Deployers, CreateFails(d) PROVE LockedSections'
  BY <1>12 DEF CreateFails, Goto, Return, IdleDeploy
<1>13. ASSUME NEW d \in Deployers, StartContainer(d) PROVE LockedSections'
  BY <1>13 DEF StartContainer, Goto, Return, IdleDeploy
<1>14. ASSUME NEW d \in Deployers, StartFails(d) PROVE LockedSections'
  BY <1>14 DEF StartFails, Goto, Return, IdleDeploy
<1>15. ASSUME NEW d \in Deployers, BecomeReady(d) PROVE LockedSections'
  BY <1>15 DEF BecomeReady, Goto, Return, IdleDeploy
<1>16. ASSUME NEW d \in Deployers, ReadinessFails(d) PROVE LockedSections'
  BY <1>16 DEF ReadinessFails, Goto, Return, IdleDeploy
<1>17. ASSUME NEW d \in Deployers, Activate(d) PROVE LockedSections'
  BY <1>17 DEF Activate, Goto, Return, IdleDeploy
<1>18. ASSUME NEW d \in Deployers, InvalidateTarget(d) PROVE LockedSections'
  BY <1>18 DEF InvalidateTarget, Goto, Return, IdleDeploy
<1>19. ASSUME NEW d \in Deployers, Stabilized(d) PROVE LockedSections'
  BY <1>19 DEF Stabilized, Goto, Return, IdleDeploy
<1>20. ASSUME NEW d \in Deployers, CrashedEarly(d) PROVE LockedSections'
  BY <1>20 DEF CrashedEarly, Goto, Return, IdleDeploy
<1>21. ASSUME NEW d \in Deployers, RestoreOld(d) PROVE LockedSections'
  BY <1>21 DEF RestoreOld, Goto, Return, IdleDeploy
<1>22. ASSUME NEW d \in Deployers, Reinvalidate(d) PROVE LockedSections'
  BY <1>22 DEF Reinvalidate, Goto, Return, IdleDeploy
<1>23. ASSUME NEW d \in Deployers, DropNew(d) PROVE LockedSections'
  BY <1>23 DEF DropNew, Goto, Return, IdleDeploy
<1>24. ASSUME NEW d \in Deployers, BothDead(d) PROVE LockedSections'
  BY <1>24 DEF BothDead, Goto, Return, IdleDeploy
<1>25. ASSUME NEW d \in Deployers, Finish(d) PROVE LockedSections'
  BY <1>25 DEF Finish, Goto, Return, IdleDeploy
<1>26. ASSUME NEW t \in tasks, Drained(t) PROVE LockedSections'
  BY <1>26 DEF Drained
<1>27. ASSUME NEW t \in tasks, StopOld(t) PROVE LockedSections'
  BY <1>27 DEF StopOld
<1>28. ASSUME NEW t \in tasks, RemoveOld(t) PROVE LockedSections'
  BY <1>28 DEF RemoveOld
<1>29. ASSUME NEW t \in tasks, RenameNew(t) PROVE LockedSections'
  BY <1>29 DEF RenameNew
<1>30. ASSUME NEW r \in Reconcilers, CallReconcile(r) PROVE LockedSections'
  BY <1>30 DEF CallReconcile, ReconReturn, IdleRecon, ReconCalls
<1>31. ASSUME NEW r \in Reconcilers, GiveUpReconcile(r) PROVE LockedSections'
  BY <1>31 DEF GiveUpReconcile, ReconReturn, IdleRecon, ReconCalls
<1>32. ASSUME NEW r \in Reconcilers, ReconcileLock(r) PROVE LockedSections'
  BY <1>32 DEF ReconcileLock, ReconReturn, IdleRecon, ReconCalls
<1>33. ASSUME NEW r \in Reconcilers, ReconcileClear(r) PROVE LockedSections'
  BY <1>33 DEF ReconcileClear, ReconReturn, IdleRecon, ReconCalls
<1>34. ASSUME NEW r \in Reconcilers, ReconcileListFails(r) PROVE LockedSections'
  BY <1>34 DEF ReconcileListFails, ReconReturn, IdleRecon, ReconCalls
<1>35. ASSUME NEW r \in Reconcilers, ReconcileInvalidate(r) PROVE LockedSections'
  BY <1>35 DEF ReconcileInvalidate, ReconReturn, IdleRecon, ReconCalls
<1>36. ASSUME NEW r \in Reconcilers, ReconcileRemove(r) PROVE LockedSections'
  BY <1>36 DEF ReconcileRemove, ReconReturn, IdleRecon, ReconCalls
<1>37. ASSUME NEW r \in Reconcilers, ReconcileDone(r) PROVE LockedSections'
  BY <1>37 DEF ReconcileDone, ReconReturn, IdleRecon, ReconCalls
<1>38. ASSUME NEW o \in Operators, SyncList(o) PROVE LockedSections'
  BY <1>38 DEF SyncList
<1>39. ASSUME NEW o \in Operators, SyncStore(o) PROVE LockedSections'
  BY <1>39 DEF SyncStore
<1>40. ASSUME NEW o \in Operators, RestartCall(o) PROVE LockedSections'
  BY <1>40 DEF RestartCall
<1>41. ASSUME NEW o \in Operators, RestartContainer(o) PROVE LockedSections'
  BY <1>41 DEF RestartContainer
<1>42. ASSUME MonitorSnapshot PROVE LockedSections'
  BY <1>42 DEF MonitorSnapshot
<1>43. ASSUME MonitorInspect PROVE LockedSections'
  BY <1>43 DEF MonitorInspect
<1>44. ASSUME MonitorSkip PROVE LockedSections'
  BY <1>44 DEF MonitorSkip
<1>45. ASSUME MonitorVerify PROVE LockedSections'
  BY <1>45 DEF MonitorVerify
<1>46. ASSUME MonitorAct PROVE LockedSections'
  BY <1>46 DEF MonitorAct
<1>47. ASSUME NEW c \in Ids, ContainerCrashes(c) PROVE LockedSections'
  BY <1>47 DEF ContainerCrashes
<1>48. ASSUME NEW c \in Ids, RuntimeRestarts(c) PROVE LockedSections'
  BY <1>48 DEF RuntimeRestarts
<1>49. ASSUME NEW c \in Ids, StoppedExternally(c) PROVE LockedSections'
  BY <1>49 DEF StoppedExternally
<1>50. ASSUME ProcessDies PROVE LockedSections'
  BY <1>50 DEF ProcessDies, IdleDeploy, IdleRecon
<1>51. CASE UNCHANGED vars
  BY <1>51 DEF vars
<1> QED
  BY <1>1, <1>2, <1>3, <1>4, <1>5, <1>6, <1>7, <1>8, <1>9, <1>10, <1>11,
     <1>12, <1>13, <1>14, <1>15, <1>16, <1>17, <1>18, <1>19, <1>20, <1>21,
     <1>22, <1>23, <1>24, <1>25, <1>26, <1>27, <1>28, <1>29, <1>30, <1>31,
     <1>32, <1>33, <1>34, <1>35, <1>36, <1>37, <1>38, <1>39, <1>40, <1>41,
     <1>42, <1>43, <1>44, <1>45, <1>46, <1>47, <1>48, <1>49, <1>50, <1>51
     DEF Next, DeployStep, TaskStep, ReconcileStep, MonitorStep

\* However many calls compete for a domain, whichever runtime call fails and
\* whenever the process dies: at most one Deploy or ReconcileRemovedRoute is between
\* its lock and its unlock, every return releases the lock, and no return releases
\* the lock of another.
THEOREM LockDiscipline == Spec => []LockedSections
<1> QED
  BY TypeInit, TypeNext, LockInit, LockNext, PTL DEF Spec

-----------------------------------------------------------------------------
(* What a step makes of a call                                             *)

AnyCalls == [at : {"idle"} \cup EarlyPlaces \cup LatePlaces, existing : Records,
             image : Images \cup {"-"}, new : Ids \cup {0}, skip : BOOLEAN,
             todo : SUBSET Ids]

LEMMA CallShape ==
  ASSUME TypeOK, NEW d \in Deployers
  PROVE  deploy[d] \in AnyCalls
<1>1. CASE deploy[d] = IdleDeploy
  BY <1>1, UntrackedType DEF IdleDeploy, AnyCalls
<1>2. CASE deploy[d] \in EarlyCalls
  BY <1>2 DEF EarlyCalls, AnyCalls
<1>3. CASE deploy[d] \in LateCalls
  BY <1>3 DEF LateCalls, AnyCalls
<1> QED
  BY <1>1, <1>2, <1>3 DEF TypeOK, DeployCalls

\* The others are as they were.
Others(d) == \A e \in Deployers : e # d => deploy'[e] = deploy[e]

LEMMA CallBecomes ==
  ASSUME TypeOK, NEW d \in Deployers, NEW call, deploy' = [deploy EXCEPT ![d] = call]
  PROVE  deploy'[d] = call /\ Others(d)
  BY DEF TypeOK, Others

LEMMA GotoFields ==
  ASSUME TypeOK, NEW d \in Deployers, NEW place, Goto(d, place)
  PROVE  /\ deploy'[d] = [deploy[d] EXCEPT !.at = place]
         /\ deploy'[d].at = place
         /\ deploy'[d].existing = deploy[d].existing
         /\ deploy'[d].new = deploy[d].new
         /\ deploy'[d].todo = deploy[d].todo
         /\ Others(d)
<1>1. deploy' = [deploy EXCEPT ![d] = [deploy[d] EXCEPT !.at = place]]
  BY DEF Goto
<1>2. deploy'[d] = [deploy[d] EXCEPT !.at = place] /\ Others(d)
  BY <1>1, CallBecomes
<1> QED
  BY <1>2, CallShape DEF AnyCalls

LEMMA CreateFields ==
  ASSUME TypeOK, NEW d \in Deployers, CreateContainer(d)
  PROVE  /\ deploy'[d].at = "start"
         /\ deploy'[d].existing = deploy[d].existing
         /\ deploy'[d].new = born + 1
         /\ deploy'[d].todo = {}
         /\ Others(d)
<1>1. deploy' = [deploy EXCEPT ![d] = [deploy[d] EXCEPT !.at = "start", !.new = born + 1]]
  BY DEF CreateContainer
<1>2. deploy'[d] = [deploy[d] EXCEPT !.at = "start", !.new = born + 1] /\ Others(d)
  BY <1>1, CallBecomes
<1>3. deploy[d].todo = {}
  BY DEF CreateContainer
<1> QED
  BY <1>2, <1>3, CallShape DEF AnyCalls

LEMMA ListFields ==
  ASSUME TypeOK, NEW d \in Deployers, ListOrphans(d)
  PROVE  /\ deploy'[d].at = "clean"
         /\ deploy'[d].existing = deploy[d].existing
         /\ deploy'[d].new = deploy[d].new
         /\ \/ deploy'[d].todo = {c \in Ids : Orphan(c, deploy[d].existing.id)}
            \/ "list" \in Faults /\ deploy'[d].todo = deploy[d].todo
         /\ Others(d)
<1>1. CASE "list" \in Faults /\ Goto(d, "clean")
  BY <1>1, GotoFields
<1>2. ASSUME deploy' = [deploy EXCEPT ![d].at = "clean",
                   ![d].todo = {c \in Ids : Orphan(c, deploy[d].existing.id)}]
      PROVE  /\ deploy'[d].at = "clean"
             /\ deploy'[d].existing = deploy[d].existing
             /\ deploy'[d].new = deploy[d].new
             /\ deploy'[d].todo = {c \in Ids : Orphan(c, deploy[d].existing.id)}
             /\ Others(d)
  <2> DEFINE S == {c \in Ids : Orphan(c, deploy[d].existing.id)}
  <2>1. deploy' = [deploy EXCEPT ![d] = [deploy[d] EXCEPT !.at = "clean", !.todo = S]]
    BY <1>2
  <2> HIDE DEF S
  <2>2. deploy'[d] = [deploy[d] EXCEPT !.at = "clean", !.todo = S] /\ Others(d)
    BY <2>1, CallBecomes
  <2>3. /\ deploy'[d].at = "clean" /\ deploy'[d].existing = deploy[d].existing
        /\ deploy'[d].new = deploy[d].new /\ deploy'[d].todo = S
    BY <2>2, CallShape DEF AnyCalls
  <2> QED
    BY <2>2, <2>3 DEF S
<1> QED
  BY <1>1, <1>2 DEF ListOrphans

LEMMA CleanFields ==
  ASSUME TypeOK, NEW d \in Deployers, NEW c,
         deploy' = [deploy EXCEPT ![d].todo = @ \ {c}]
  PROVE  /\ deploy'[d].at = deploy[d].at
         /\ deploy'[d].existing = deploy[d].existing
         /\ deploy'[d].new = deploy[d].new
         /\ deploy'[d].todo = deploy[d].todo \ {c}
         /\ Others(d)
<1>1. deploy' = [deploy EXCEPT ![d] = [deploy[d] EXCEPT !.todo = deploy[d].todo \ {c}]]
  OBVIOUS
<1>2. deploy'[d] = [deploy[d] EXCEPT !.todo = deploy[d].todo \ {c}] /\ Others(d)
  BY <1>1, CallBecomes
<1> QED
  BY <1>2, CallShape DEF AnyCalls

LEMMA ResolveFields ==
  ASSUME TypeOK, NEW d \in Deployers, NEW place, NEW record,
         deploy' = [deploy EXCEPT ![d] =
                       [deploy[d] EXCEPT !.at = place, !.existing = record]]
  PROVE  /\ deploy'[d].at = place
         /\ deploy'[d].existing = record
         /\ deploy'[d].new = deploy[d].new
         /\ deploy'[d].todo = deploy[d].todo
         /\ Others(d)
<1>1. deploy'[d] = [deploy[d] EXCEPT !.at = place, !.existing = record] /\ Others(d)
  BY CallBecomes
<1>2. deploy[d] \in AnyCalls
  BY CallShape
<1>3. deploy'[d].at = place /\ deploy'[d].existing = record
  BY <1>1, <1>2 DEF AnyCalls
<1>4. deploy'[d].new = deploy[d].new /\ deploy'[d].todo = deploy[d].todo
  BY <1>1, <1>2 DEF AnyCalls
<1> QED
  BY <1>1, <1>3, <1>4

LEMMA CallDeployFields ==
  ASSUME TypeOK, NEW d \in Deployers, CallDeploy(d)
  PROVE  /\ deploy'[d].at = "lock" /\ deploy'[d].existing = Untracked
         /\ deploy'[d].new = 0 /\ deploy'[d].todo = {}
         /\ Others(d)
<1>1. PICK image \in Images, skip \in BOOLEAN :
        deploy' = [deploy EXCEPT ![d] = [IdleDeploy EXCEPT !.at = "lock",
                                         !.image = image, !.skip = skip]]
  BY DEF CallDeploy
<1>2. deploy'[d] = [IdleDeploy EXCEPT !.at = "lock", !.image = image, !.skip = skip]
      /\ Others(d)
  BY <1>1, CallBecomes
<1> QED
  BY <1>2 DEF IdleDeploy

LEMMA ReturnFields ==
  ASSUME TypeOK, NEW d \in Deployers, deploy' = [deploy EXCEPT ![d] = IdleDeploy]
  PROVE  /\ deploy'[d] = IdleDeploy
         /\ deploy'[d].at = "idle" /\ deploy'[d].existing = Untracked
         /\ deploy'[d].new = 0 /\ deploy'[d].todo = {}
         /\ Others(d)
<1>1. deploy'[d] = IdleDeploy /\ Others(d)
  BY CallBecomes
<1> QED
  BY <1>1 DEF IdleDeploy

\* Under the lock a call is alone: the others are out of their sections.
LEMMA Alone ==
  ASSUME LockedSections, NEW d \in Deployers, InSection(d)
  PROVE  /\ \A e \in Deployers : e # d => deploy[e].at \in {"idle", "lock"}
         /\ \A r \in Reconcilers : recon[r].at \in {"idle", "lock"}
  BY DeployAssumption DEF LockedSections, InSection

-----------------------------------------------------------------------------
(* What a Deploy read at its start                                         *)

\* A call knows nothing before it has the lock; from then on what it read is what the
\* map says, until it writes the map itself.
Current(d) ==
    LET call == deploy[d] IN
    /\ call.at \in {"idle", "lock", "resolve"} => call.existing = Untracked
    /\ call.at = "adopt" => tracked = Untracked
    /\ call.at \in {"orphans", "clean", "start", "ready", "activate"}
          => tracked = call.existing
    /\ call.at \in {"invalidate", "stabilize", "rollback", "finish"}
          => tracked.id = call.new
    /\ call.at \in {"reinvalidate", "dropnew"} => tracked = call.existing

NoFreeCalls == \A o \in Operators : operator[o] = IdleOperator

CurrentInv ==
    /\ TypeOK
    /\ LockedSections
    /\ NoFreeCalls
    /\ \A d \in Deployers : Current(d)

LEMMA CurrentImplies == CurrentInv => ExistingIsCurrent
BY DEF CurrentInv, Current, ExistingIsCurrent

\* A step of one call under the lock: the others know nothing, whatever becomes of
\* the map.
LEMMA CurrentOthers ==
  ASSUME CurrentInv, NEW d \in Deployers, InSection(d), Others(d), Current(d)'
  PROVE  \A e \in Deployers : Current(e)'
<1> SUFFICES ASSUME NEW e \in Deployers, e # d PROVE Current(e)'
  OBVIOUS
<1>1. deploy'[e] = deploy[e] /\ deploy[e].at \in {"idle", "lock"}
  BY Alone DEF CurrentInv, Others
<1>2. deploy[e].existing = Untracked
  BY <1>1 DEF CurrentInv, Current
<1> QED
  BY <1>1, <1>2 DEF Current

\* A step of a call that leaves the map alone.
LEMMA CurrentKept ==
  ASSUME CurrentInv, NEW d \in Deployers, Others(d), tracked' = tracked, Current(d)'
  PROVE  \A e \in Deployers : Current(e)'
<1> SUFFICES ASSUME NEW e \in Deployers, e # d PROVE Current(e)'
  OBVIOUS
<1>1. deploy'[e] = deploy[e] /\ Current(e)
  BY DEF CurrentInv, Others
<1> QED
  BY <1>1 DEF Current

\* A return leaves the map alone.
LEMMA CurrentReturn ==
  ASSUME CurrentInv, NEW d \in Deployers, tracked' = tracked,
         deploy' = [deploy EXCEPT ![d] = IdleDeploy]
  PROVE  \A e \in Deployers : Current(e)'
<1>1. Current(d)' /\ Others(d)
  BY ReturnFields DEF CurrentInv, Current
<1> QED
  BY <1>1, CurrentKept

\* So does a move between places of which the same is asked.
LEMMA CurrentMove ==
  ASSUME CurrentInv, NEW d \in Deployers, tracked' = tracked, NEW place, Goto(d, place),
         \/ deploy[d].at = "lock" /\ place = "resolve"
         \/ /\ deploy[d].at \in {"orphans", "clean", "start", "ready"}
            /\ place \in {"clean", "start", "ready", "activate"}
         \/ /\ deploy[d].at \in {"invalidate", "stabilize"}
            /\ place \in {"stabilize", "rollback", "finish"}
         \/ deploy[d].at = "reinvalidate" /\ place = "dropnew"
  PROVE  \A e \in Deployers : Current(e)'
<1>1. Current(d)' /\ Others(d)
  BY GotoFields DEF CurrentInv, Current
<1> QED
  BY <1>1, CurrentKept

LEMMA CurrentInit == Init => NoFreeCalls /\ \A d \in Deployers : Current(d)
BY DEF Init, NoFreeCalls, Current, IdleDeploy

LEMMA CurrentNext ==
  ASSUME Calls = {}, CurrentInv, [Next]_vars
  PROVE  NoFreeCalls' /\ \A d \in Deployers : Current(d)'
<1> DEFINE Each == \A d \in Deployers : Current(d)
<1>a. TypeOK /\ LockedSections /\ NoFreeCalls /\ Each
  BY DEF CurrentInv
<1> HIDE DEF Each
<1>q. ASSUME UNCHANGED <<tracked, deploy, operator>> PROVE Each' /\ NoFreeCalls'
  BY <1>a, <1>q DEF Each, Current, NoFreeCalls
<1>1. ASSUME NEW d \in Deployers, CallDeploy(d) PROVE Each' /\ NoFreeCalls'
  <2>1. Current(d)' /\ Others(d)
    BY <1>1, <1>a, CallDeployFields DEF Current
  <2> QED
    BY <1>1, <1>a, <2>1, CurrentKept DEF CallDeploy, Each, NoFreeCalls
<1>2. ASSUME NEW d \in Deployers, GiveUpWaiting(d) PROVE Each' /\ NoFreeCalls'
  BY <1>2, <1>a, CurrentReturn DEF GiveUpWaiting, Return, Each, NoFreeCalls
<1>3. ASSUME NEW d \in Deployers, AcquireLock(d) PROVE Each' /\ NoFreeCalls'
  BY <1>3, <1>a, CurrentMove DEF AcquireLock, Each, NoFreeCalls
<1>4. ASSUME NEW d \in Deployers, ResolveTracked(d) PROVE Each' /\ NoFreeCalls'
  <2>0. deploy'[d].at = "orphans" /\ deploy'[d].existing = tracked /\ Others(d)
    <3>1. deploy' = [deploy EXCEPT ![d] =
                        [deploy[d] EXCEPT !.at = "orphans", !.existing = tracked]]
      BY <1>4 DEF ResolveTracked
    <3>2. TypeOK
      BY <1>a
    <3>3. deploy'[d].at = "orphans" /\ Others(d)
      BY <3>1, <3>2, ResolveFields
    <3>4. deploy'[d] = [deploy[d] EXCEPT !.at = "orphans", !.existing = tracked]
      BY <3>1, <3>2, CallBecomes
    <3>5. deploy'[d].existing = tracked
      BY <3>2, <3>4, CallShape DEF AnyCalls
    <3> QED
      BY <3>3, <3>5
  <2>1. Current(d)' /\ Others(d)
    BY <1>4, <2>0 DEF ResolveTracked, Current
  <2> QED
    BY <1>4, <1>a, <2>1, CurrentKept DEF ResolveTracked, Each, NoFreeCalls
<1>5. ASSUME NEW d \in Deployers, ResolveFromRuntime(d) PROVE Each' /\ NoFreeCalls'
  <2>1. Current(d)' /\ Others(d)
    <3>1. CASE Goto(d, "orphans")
      <4>1. deploy[d].existing = Untracked /\ tracked' = Untracked
        BY <1>5, <1>a DEF ResolveFromRuntime, Each, Current
      <4>2. deploy'[d].at = "orphans" /\ deploy'[d].existing = deploy[d].existing
            /\ Others(d)
        BY <3>1, <1>a, GotoFields
      <4> QED
        BY <4>1, <4>2 DEF Current
    <3>2. ASSUME NEW c \in Ids,
                 deploy' = [deploy EXCEPT ![d].at = "adopt", ![d].existing = Seen(c)]
          PROVE  Current(d)' /\ Others(d)
      <4>1. deploy'[d].at = "adopt" /\ Others(d)
        <5>1. deploy' = [deploy EXCEPT ![d] =
                            [deploy[d] EXCEPT !.at = "adopt", !.existing = Seen(c)]]
          BY <3>2
        <5> QED
          BY <5>1, <1>a, ResolveFields
      <4> QED
        BY <4>1, <1>5 DEF ResolveFromRuntime, Current
    <3> QED
      BY <1>5, <3>1, <3>2 DEF ResolveFromRuntime
  <2> QED
    BY <1>5, <1>a, <2>1, CurrentKept DEF ResolveFromRuntime, Each, NoFreeCalls
<1>6. ASSUME NEW d \in Deployers, Adopt(d) PROVE Each' /\ NoFreeCalls'
  <2>1. deploy'[d].at = "orphans" /\ deploy'[d].existing = deploy[d].existing
        /\ deploy'[d].new = deploy[d].new /\ Others(d)
    BY <1>6, <1>a, GotoFields DEF Adopt
  <2>2. Current(d)'
    BY <1>6, <2>1 DEF Adopt, Track, Current
  <2>3. InSection(d)
    BY <1>6 DEF Adopt, InSection
  <2> QED
    BY <1>6, <1>a, <2>1, <2>2, <2>3, CurrentOthers DEF Adopt, Each, NoFreeCalls
<1>7. ASSUME NEW d \in Deployers, ListOrphans(d) PROVE Each' /\ NoFreeCalls'
  <2>1. deploy'[d].at \in {"clean", "start"} /\ deploy'[d].existing = deploy[d].existing
        /\ Others(d)
    BY <1>7, <1>a, ListFields DEF ListOrphans
  <2>2. Current(d)'
    BY <1>7, <1>a, <2>1 DEF ListOrphans, Each, Current
  <2> QED
    BY <1>7, <1>a, <2>1, <2>2, CurrentKept DEF ListOrphans, Each, NoFreeCalls
<1>8. ASSUME NEW d \in Deployers, CleanOrphan(d) PROVE Each' /\ NoFreeCalls'
  <2>1. deploy'[d].at \in {"clean", "start"} /\ deploy'[d].existing = deploy[d].existing
        /\ Others(d)
    BY <1>8, <1>a, CleanFields DEF CleanOrphan
  <2>2. Current(d)'
    BY <1>8, <1>a, <2>1 DEF CleanOrphan, Each, Current
  <2> QED
    BY <1>8, <1>a, <2>1, <2>2, CurrentKept DEF CleanOrphan, Each, NoFreeCalls
<1>9. ASSUME NEW d \in Deployers, PrepareFails(d) PROVE Each' /\ NoFreeCalls'
  BY <1>9, <1>a, CurrentReturn DEF PrepareFails, Return, Each, NoFreeCalls
<1>10. ASSUME NEW d \in Deployers, SkipRedundantDeploy(d) PROVE Each' /\ NoFreeCalls'
  BY <1>10, <1>a, CurrentReturn DEF SkipRedundantDeploy, Return, Each, NoFreeCalls
<1>11. ASSUME NEW d \in Deployers, CreateContainer(d) PROVE Each' /\ NoFreeCalls'
  <2>1. deploy'[d].at \in {"clean", "start"} /\ deploy'[d].existing = deploy[d].existing
        /\ Others(d)
    BY <1>11, <1>a, CreateFields DEF CreateContainer
  <2>2. Current(d)'
    BY <1>11, <1>a, <2>1 DEF CreateContainer, Each, Current
  <2> QED
    BY <1>11, <1>a, <2>1, <2>2, CurrentKept DEF CreateContainer, Each, NoFreeCalls
<1>12. ASSUME NEW d \in Deployers, CreateFails(d) PROVE Each' /\ NoFreeCalls'
  BY <1>12, <1>a, CurrentReturn DEF CreateFails, Return, Each, NoFreeCalls
<1>13. ASSUME NEW d \in Deployers, StartContainer(d) PROVE Each' /\ NoFreeCalls'
  BY <1>13, <1>a, CurrentMove DEF StartContainer, Each, NoFreeCalls
<1>14. ASSUME NEW d \in Deployers, StartFails(d) PROVE Each' /\ NoFreeCalls'
  BY <1>14, <1>a, CurrentReturn DEF StartFails, Return, Each, NoFreeCalls
<1>15. ASSUME NEW d \in Deployers, BecomeReady(d) PROVE Each' /\ NoFreeCalls'
  BY <1>15, <1>a, CurrentMove DEF BecomeReady, Each, NoFreeCalls
<1>16. ASSUME NEW d \in Deployers, ReadinessFails(d) PROVE Each' /\ NoFreeCalls'
  BY <1>16, <1>a, CurrentReturn DEF ReadinessFails, Return, Each, NoFreeCalls
<1>17. ASSUME NEW d \in Deployers, Activate(d) PROVE Each' /\ NoFreeCalls'
  <2>1. deploy'[d].at = "invalidate" /\ deploy'[d].existing = deploy[d].existing
        /\ deploy'[d].new = deploy[d].new /\ Others(d)
    BY <1>17, <1>a, GotoFields DEF Activate
  <2>2. Current(d)'
    BY <1>17, <2>1 DEF Activate, Track, Current
  <2>3. InSection(d)
    BY <1>17 DEF Activate, InSection
  <2> QED
    BY <1>17, <1>a, <2>1, <2>2, <2>3, CurrentOthers DEF Activate, Each, NoFreeCalls
<1>18. ASSUME NEW d \in Deployers, InvalidateTarget(d) PROVE Each' /\ NoFreeCalls'
  BY <1>18, <1>a, CurrentMove DEF InvalidateTarget, Each, NoFreeCalls
<1>19. ASSUME NEW d \in Deployers, Stabilized(d) PROVE Each' /\ NoFreeCalls'
  BY <1>19, <1>a, CurrentMove DEF Stabilized, Each, NoFreeCalls
<1>20. ASSUME NEW d \in Deployers, CrashedEarly(d) PROVE Each' /\ NoFreeCalls'
  BY <1>20, <1>a, CurrentMove DEF CrashedEarly, Each, NoFreeCalls
<1>21. ASSUME NEW d \in Deployers, RestoreOld(d) PROVE Each' /\ NoFreeCalls'
  <2>1. deploy'[d].at = "reinvalidate" /\ deploy'[d].existing = deploy[d].existing
        /\ deploy'[d].new = deploy[d].new /\ Others(d)
    BY <1>21, <1>a, GotoFields DEF RestoreOld
  <2>2. Current(d)'
    BY <1>21, <2>1 DEF RestoreOld, Track, Current
  <2>3. InSection(d)
    BY <1>21 DEF RestoreOld, InSection
  <2> QED
    BY <1>21, <1>a, <2>1, <2>2, <2>3, CurrentOthers DEF RestoreOld, Each, NoFreeCalls
<1>22. ASSUME NEW d \in Deployers, Reinvalidate(d) PROVE Each' /\ NoFreeCalls'
  BY <1>22, <1>a, CurrentMove DEF Reinvalidate, Each, NoFreeCalls
<1>23. ASSUME NEW d \in Deployers, DropNew(d) PROVE Each' /\ NoFreeCalls'
  BY <1>23, <1>a, CurrentReturn DEF DropNew, Return, Each, NoFreeCalls
<1>24. ASSUME NEW d \in Deployers, BothDead(d) PROVE Each' /\ NoFreeCalls'
  BY <1>24, <1>a, CurrentReturn DEF BothDead, Return, Each, NoFreeCalls
<1>25. ASSUME NEW d \in Deployers, Finish(d) PROVE Each' /\ NoFreeCalls'
  BY <1>25, <1>a, CurrentReturn DEF Finish, Return, Each, NoFreeCalls
<1>26. ASSUME NEW t \in tasks, TaskStep(t) PROVE Each' /\ NoFreeCalls'
  BY <1>26, <1>q DEF TaskStep, Drained, StopOld, RemoveOld, RenameNew
<1>27. ASSUME NEW r \in Reconcilers, ReconcileClear(r) PROVE Each' /\ NoFreeCalls'
  <2>1. \A d \in Deployers : deploy[d].at \in {"idle", "lock"}
    BY <1>27, <1>a, DeployAssumption DEF ReconcileClear, LockedSections, InSection
  <2> QED
    BY <1>27, <1>a, <2>1 DEF ReconcileClear, Each, Current, NoFreeCalls
<1>28. ASSUME NEW r \in Reconcilers,
              \/ CallReconcile(r) \/ GiveUpReconcile(r) \/ ReconcileLock(r)
              \/ ReconcileListFails(r) \/ ReconcileInvalidate(r) \/ ReconcileRemove(r)
              \/ ReconcileDone(r)
       PROVE Each' /\ NoFreeCalls'
  BY <1>28, <1>q DEF CallReconcile, GiveUpReconcile, ReconcileLock, ReconcileListFails,
     ReconcileInvalidate, ReconcileRemove, ReconcileDone
<1>29. ASSUME NEW o \in Operators,
              SyncList(o) \/ SyncStore(o) \/ RestartCall(o) \/ RestartContainer(o)
       PROVE Each' /\ NoFreeCalls'
  <2>1. operator[o].at = "idle"
    BY <1>a DEF NoFreeCalls, IdleOperator
  <2> QED
    BY <1>29, <2>1 DEF SyncList, SyncStore, RestartCall, RestartContainer
<1>30. ASSUME MonitorStep PROVE Each' /\ NoFreeCalls'
  BY <1>30, <1>q DEF MonitorStep, MonitorSnapshot, MonitorInspect, MonitorSkip,
     MonitorVerify, MonitorAct
<1>31. ASSUME NEW c \in Ids,
              ContainerCrashes(c) \/ RuntimeRestarts(c) \/ StoppedExternally(c)
       PROVE Each' /\ NoFreeCalls'
  BY <1>31, <1>q DEF ContainerCrashes, RuntimeRestarts, StoppedExternally
<1>32. ASSUME ProcessDies PROVE Each' /\ NoFreeCalls'
  BY <1>32 DEF ProcessDies, Each, Current, NoFreeCalls, IdleDeploy
<1>33. ASSUME UNCHANGED vars PROVE Each' /\ NoFreeCalls'
  <2>1. UNCHANGED <<tracked, deploy, operator>>
    BY <1>33 DEF vars
  <2> QED
    BY <2>1, <1>q
<1>34. Each' /\ NoFreeCalls'
  BY <1>1, <1>2, <1>3, <1>4, <1>5, <1>6, <1>7, <1>8, <1>9, <1>10, <1>11, <1>12,
     <1>13, <1>14, <1>15, <1>16, <1>17, <1>18, <1>19, <1>20, <1>21, <1>22, <1>23,
     <1>24, <1>25, <1>26, <1>27, <1>28, <1>29, <1>30, <1>31, <1>32, <1>33
     DEF Next, DeployStep, ReconcileStep
<1> QED
  BY <1>34 DEF Each

\* Nothing a Deploy read at its start is stale when it activates, provided every
\* change of the map is made under the deploy lock: of the calls that make none
\* (Calls) there are none.  Reconcilers, the monitor, the failures and the deaths of
\* the process are arbitrary.
THEOREM StaysCurrent == Calls = {} => (Spec => []ExistingIsCurrent)
<1> SUFFICES ASSUME Calls = {} PROVE Spec => []ExistingIsCurrent
  OBVIOUS
<1>1. Init => CurrentInv
  BY TypeInit, LockInit, CurrentInit DEF CurrentInv
<1>2. CurrentInv /\ [Next]_vars => CurrentInv'
  BY TypeNext, LockNext, CurrentNext DEF CurrentInv
<1> QED
  BY <1>1, <1>2, CurrentImplies, PTL DEF Spec
-----------------------------------------------------------------------------
(* What the clean-ups are after *)

\* What the runtime does: nothing else is touched, nothing comes into being.
LEMMA StatusSet ==
  ASSUME TypeOK, NEW c \in Ids, Exists(c), NEW s \in Statuses \ {"absent"}, SetStatus(c, s)
  PROVE  /\ \A x \in Ids : x # c => docker'[x] = docker[x]
         /\ docker'[c].status = s /\ docker'[c].name = docker[c].name
<1>1. docker[c] \in Containers
  BY ExistingContainer DEF TypeOK, DockerType
<1>2. docker' = [docker EXCEPT ![c] = [docker[c] EXCEPT !.status = s]]
  BY DEF SetStatus
<1> QED
  BY <1>1, <1>2 DEF TypeOK, Containers

LEMMA Stopped ==
  ASSUME TypeOK, NEW c, Stop(c) \/ Remove(c) \/ StopAndRemove(c)
  PROVE  /\ \A x \in Ids : x # c => docker'[x] = docker[x]
         /\ c \in Ids => \/ docker'[c] = Absent
                        \/ docker'[c] = docker[c]
                        \/ /\ Exists(c) /\ docker'[c].status = "stopped"
                           /\ docker'[c].name = docker[c].name
<1>1. CASE UNCHANGED docker
  BY <1>1
<1>2. CASE docker' = [docker EXCEPT ![c] = Absent]
  BY <1>2 DEF TypeOK
<1>3. CASE Exists(c) /\ SetStatus(c, "stopped")
  <2>1. CASE c \in Ids
    BY <1>3, <2>1, StatusSet DEF Statuses
  <2>2. CASE c \notin Ids
    BY <1>3, <2>2 DEF SetStatus, TypeOK
  <2> QED
    BY <2>1, <2>2
<1> QED
  BY <1>1, <1>2, <1>3 DEF Stop, Remove, StopAndRemove

\* No container comes into being.
NoneBorn == born' = born /\ \A c \in Ids : Exists(c)' => Exists(c)

LEMMA StatusBears ==
  ASSUME TypeOK, born' = born, NEW c \in Ids, Exists(c),
         NEW s \in Statuses \ {"absent"}, SetStatus(c, s)
  PROVE  NoneBorn
  BY StatusSet DEF NoneBorn, Exists

LEMMA StopBears ==
  ASSUME TypeOK, born' = born, NEW c, Stop(c) \/ Remove(c) \/ StopAndRemove(c)
  PROVE  NoneBorn
  BY Stopped DEF NoneBorn, Exists, Absent

\* What one call holds is not what a clean-up is after; what it creates is new.
Spare(d) ==
    LET call == deploy[d] IN
    /\ call.existing.id <= born
    /\ call.at \in LatePlaces => call.new <= born /\ call.new # call.existing.id
    /\ call.at # "clean" => call.todo = {}
    /\ call.existing.id \notin call.todo
    /\ \A t \in tasks : t.old # call.existing.id /\ t.old # call.new

\* Nor is what the map says serves.
SpareTask(t) == t.old \in Ids /\ t.old <= born /\ t.old # tracked.id

\* Once something is tracked the map is not empty again, so nobody looks for a
\* container to adopt while a clean-up is under way, and the monitor is idle.
Known ==
    /\ \A c \in Ids : Exists(c) => c <= born
    /\ tracked.id <= born
    /\ tasks # {} => tracked # Untracked
    /\ monitor.at # "idle" => tracked # Untracked

SparesInv ==
    /\ CurrentInv
    /\ Known
    /\ \A d \in Deployers : Spare(d)
    /\ \A t \in tasks : SpareTask(t)

LEMMA SparesImplies == SparesInv => CleanupSparesTracked
<1> SUFFICES ASSUME SparesInv, NEW d \in Deployers PROVE tracked.id \notin deploy[d].todo
  BY DEF SparesInv, SpareTask, CleanupSparesTracked
<1> QED
  BY DEF SparesInv, CurrentInv, Current, Spare

LEMMA EarlyNew ==
  ASSUME TypeOK, NEW d \in Deployers
  PROVE  /\ deploy[d].at \notin LatePlaces => deploy[d].new = 0
         /\ deploy[d].at \in LatePlaces => deploy[d].new \in Ids
<1>1. deploy[d] = IdleDeploy \/ deploy[d] \in EarlyCalls \/ deploy[d] \in LateCalls
  BY DEF TypeOK, DeployCalls
<1> QED
  BY <1>1 DEF IdleDeploy, EarlyCalls, LateCalls, EarlyPlaces, LatePlaces

LEMMA RecordIds ==
  /\ \A record \in Records : record.id \in Ids \cup {0}
  /\ \A record \in Records : record.id = 0 <=> record = Untracked
  /\ \A c \in Ids : c \in Nat /\ c # 0
  BY DeployAssumption DEF Records, Untracked, Ids

\* A step of a call that creates nothing, writes no map and starts no clean-up.
LEMMA SparesCall ==
  ASSUME SparesInv, NEW d \in Deployers, Others(d), Spare(d)', NoneBorn,
         UNCHANGED <<tracked, tasks, monitor>>
  PROVE  Known' /\ (\A e \in Deployers : Spare(e)') /\ (\A t \in tasks' : SpareTask(t)')
<1>1. Known'
  BY DEF SparesInv, Known, NoneBorn
<1>2. ASSUME NEW e \in Deployers, e # d PROVE Spare(e)'
  <2>1. deploy'[e] = deploy[e] /\ Spare(e)
    BY <1>2 DEF SparesInv, Others
  <2> QED
    BY <2>1 DEF Spare, NoneBorn
<1>3. \A t \in tasks' : SpareTask(t)'
  BY DEF SparesInv, SpareTask, NoneBorn
<1> QED
  BY <1>1, <1>2, <1>3

LEMMA SparesReturn ==
  ASSUME SparesInv, NEW d \in Deployers, deploy' = [deploy EXCEPT ![d] = IdleDeploy],
         NoneBorn, UNCHANGED <<tracked, tasks, monitor>>
  PROVE  Known' /\ (\A e \in Deployers : Spare(e)') /\ (\A t \in tasks' : SpareTask(t)')
<1>0. TypeOK /\ \A t \in tasks : t.old # 0
  BY RecordIds DEF SparesInv, CurrentInv, SpareTask
<1>1. /\ deploy'[d].at = "idle" /\ deploy'[d].existing = Untracked
      /\ deploy'[d].new = 0 /\ deploy'[d].todo = {} /\ Others(d)
  BY <1>0, ReturnFields
<1>2. Spare(d)'
  BY <1>0, <1>1 DEF Spare, LatePlaces, Untracked, TypeOK, NoneBorn
<1> QED
  BY <1>1, <1>2, SparesCall

LEMMA SparesMove ==
  ASSUME SparesInv, NEW d \in Deployers, NEW place, Goto(d, place),
         deploy[d].at # "clean", deploy[d].at \in LatePlaces <=> place \in LatePlaces,
         NoneBorn, UNCHANGED <<tracked, tasks, monitor>>
  PROVE  Known' /\ (\A e \in Deployers : Spare(e)') /\ (\A t \in tasks' : SpareTask(t)')
<1>0. TypeOK /\ Spare(d)
  BY DEF SparesInv, CurrentInv
<1>1. /\ deploy'[d].at = place /\ deploy'[d].existing = deploy[d].existing
      /\ deploy'[d].new = deploy[d].new /\ deploy'[d].todo = deploy[d].todo /\ Others(d)
  BY <1>0, GotoFields
<1>2. Spare(d)'
  BY <1>0, <1>1 DEF Spare, NoneBorn
<1> QED
  BY <1>1, <1>2, SparesCall

LEMMA SparesInit ==
  Init => Known /\ (\A d \in Deployers : Spare(d)) /\ (\A t \in tasks : SpareTask(t))
BY DEF Init, Known, Spare, IdleDeploy, Untracked, LatePlaces, Exists, Absent, IdleMonitor

LEMMA SparesNext ==
  ASSUME Calls = {}, Reconcilers = {}, SparesInv, [Next]_vars
  PROVE  Known' /\ (\A d \in Deployers : Spare(d)') /\ (\A t \in tasks' : SpareTask(t)')
<1> DEFINE Goal == /\ Known' /\ (\A d \in Deployers : Spare(d)')
                   /\ (\A t \in tasks' : SpareTask(t)')
<1>a. /\ TypeOK /\ LockedSections /\ NoFreeCalls /\ (\A d \in Deployers : Current(d))
      /\ Known /\ (\A d \in Deployers : Spare(d)) /\ (\A t \in tasks : SpareTask(t))
      /\ CurrentInv
  BY DEF SparesInv, CurrentInv
<1>t. TypeOK
  BY DEF SparesInv, CurrentInv
<1>b. ASSUME NEW record \in Records PROVE record.id \in Ids \cup {0}
  BY RecordIds
<1>c. born \in Nat /\ tracked \in Records /\ \A d \in Deployers : deploy[d].existing \in Records
  BY <1>a, CallShape, DeployAssumption DEF TypeOK, AnyCalls
<1>q. ASSUME NoneBorn, UNCHANGED <<tracked, deploy, tasks, monitor>> PROVE Goal
  BY <1>a, <1>q DEF Known, Spare, SpareTask, NoneBorn
<1>n. ASSUME UNCHANGED <<docker, born>> PROVE NoneBorn
  BY <1>n DEF NoneBorn, Exists
<1> HIDE DEF Goal
<1>1. ASSUME NEW d \in Deployers, CallDeploy(d) PROVE Goal
  <2>1. /\ deploy'[d].at = "lock" /\ deploy'[d].existing = Untracked
        /\ deploy'[d].new = 0 /\ deploy'[d].todo = {} /\ Others(d)
    BY <1>1, <1>a, CallDeployFields
  <2>2. Spare(d)'
    BY <1>1, <1>a, <1>c, <2>1, RecordIds DEF CallDeploy, Spare, SpareTask, Untracked, LatePlaces
  <2> QED
    BY <1>1, <1>n, <2>1, <2>2, SparesCall DEF CallDeploy, Goal
<1>2. ASSUME NEW d \in Deployers, GiveUpWaiting(d) PROVE Goal
  BY <1>2, <1>n, SparesReturn DEF GiveUpWaiting, Return, Goal
<1>3. ASSUME NEW d \in Deployers, AcquireLock(d) PROVE Goal
  BY <1>3, <1>n, SparesMove DEF AcquireLock, LatePlaces, Goal
<1>4. ASSUME NEW d \in Deployers, ResolveTracked(d) PROVE Goal
  <2>1. deploy' = [deploy EXCEPT ![d] =
                      [deploy[d] EXCEPT !.at = "orphans", !.existing = tracked]]
    BY <1>4 DEF ResolveTracked
  <2>2. /\ deploy'[d].at = "orphans" /\ deploy'[d].new = deploy[d].new
        /\ deploy'[d].todo = deploy[d].todo /\ Others(d)
    BY <2>1, <1>t, ResolveFields
  <2>3. deploy'[d].existing = tracked
    <3>1. deploy'[d] = [deploy[d] EXCEPT !.at = "orphans", !.existing = tracked]
      BY <2>1, <1>t, CallBecomes
    <3> QED
      BY <3>1, <1>t, CallShape DEF AnyCalls
  <2>4. Spare(d)'
    BY <1>4, <1>a, <1>c, <2>2, <2>3 DEF ResolveTracked, Spare, SpareTask, Known, LatePlaces
  <2> QED
    BY <1>4, <1>n, <2>2, <2>4, SparesCall DEF ResolveTracked, Goal
<1>5. ASSUME NEW d \in Deployers, ResolveFromRuntime(d) PROVE Goal
  <2>1. CASE Goto(d, "orphans")
    BY <1>5, <2>1, <1>n, SparesMove DEF ResolveFromRuntime, LatePlaces, Goal
  <2>2. ASSUME NEW c \in Ids, Preferred(c),
               deploy' = [deploy EXCEPT ![d].at = "adopt", ![d].existing = Seen(c)]
        PROVE  Goal
    <3>1. deploy' = [deploy EXCEPT ![d] =
                        [deploy[d] EXCEPT !.at = "adopt", !.existing = Seen(c)]]
      BY <2>2
    <3>2. /\ deploy'[d].at = "adopt" /\ deploy'[d].new = deploy[d].new
          /\ deploy'[d].existing = Seen(c)
          /\ deploy'[d].todo = deploy[d].todo /\ Others(d)
      <4> DEFINE seen == Seen(c)
      <4>1. deploy' = [deploy EXCEPT ![d] =
                          [deploy[d] EXCEPT !.at = "adopt", !.existing = seen]]
        BY <3>1
      <4> HIDE DEF seen
      <4>2. deploy'[d] = [deploy[d] EXCEPT !.at = "adopt", !.existing = seen] /\ Others(d)
        BY <4>1, <1>t, CallBecomes
      <4>3. /\ deploy'[d].at = "adopt" /\ deploy'[d].new = deploy[d].new
            /\ deploy'[d].existing = seen /\ deploy'[d].todo = deploy[d].todo
        BY <4>2, <1>t, CallShape DEF AnyCalls
      <4> QED
        BY <4>2, <4>3 DEF seen
    <3>3. deploy'[d].existing.id <= born
      <4>1. c <= born
        BY <2>2, <1>a, ActiveExists DEF Preferred, Known
      <4> QED
        BY <3>2, <4>1 DEF Seen
    <3>4. tasks' = {} /\ born' = born /\ deploy[d].at # "clean"
      BY <1>5, <1>a DEF ResolveFromRuntime, Known
    <3>5. Spare(d)'
      BY <1>a, <3>2, <3>3, <3>4 DEF Spare, LatePlaces
    <3> QED
      BY <1>5, <1>n, <3>2, <3>5, SparesCall DEF ResolveFromRuntime, Goal
  <2> QED
    BY <1>5, <2>1, <2>2 DEF ResolveFromRuntime
<1>6. ASSUME NEW d \in Deployers, Adopt(d) PROVE Goal
  <2>1. /\ deploy'[d].at = "orphans" /\ deploy'[d].existing = deploy[d].existing
        /\ deploy'[d].new = deploy[d].new /\ deploy'[d].todo = deploy[d].todo /\ Others(d)
    BY <1>6, <1>a, GotoFields DEF Adopt
  <2>2. NoneBorn /\ UNCHANGED <<tasks, monitor, born>>
    BY <1>6, <1>n DEF Adopt
  <2>3. tasks = {} /\ monitor.at = "idle"
    BY <1>6, <1>a DEF Adopt, Current, Known
  <2>4. ((tasks = {} /\ monitor.at = "idle") \/ tracked' # Untracked) /\ tracked'.id <= born'
    BY <1>6, <1>a, <2>2, <2>3 DEF Adopt, Track, Spare
  <2>5. \A t \in tasks : t.old # tracked'.id
    BY <2>3
  <2>6. Known'
    BY <1>a, <2>2, <2>4 DEF Known, NoneBorn
  <2>7. \A e \in Deployers : Spare(e)'
    <3>1. Spare(d)'
      BY <1>6, <1>a, <2>1, <2>2 DEF Adopt, Spare, LatePlaces
    <3>2. ASSUME NEW e \in Deployers, e # d PROVE Spare(e)'
      <4>1. deploy'[e] = deploy[e] /\ Spare(e)
        BY <1>a, <2>1, <3>2 DEF Others
      <4> QED
        BY <2>2, <4>1 DEF Spare
    <3> QED
      BY <3>1, <3>2
  <2>8. \A t \in tasks' : SpareTask(t)'
    BY <1>a, <2>2, <2>5 DEF SpareTask
  <2> QED
    BY <2>6, <2>7, <2>8 DEF Goal
<1>7. ASSUME NEW d \in Deployers, ListOrphans(d) PROVE Goal
  <2>1. /\ deploy'[d].at = "clean" /\ deploy'[d].existing = deploy[d].existing
        /\ deploy'[d].new = deploy[d].new /\ Others(d)
        /\ \/ deploy'[d].todo = {c \in Ids : Orphan(c, deploy[d].existing.id)}
           \/ deploy'[d].todo = deploy[d].todo
    BY <1>7, <1>a, ListFields
  <2>2. deploy[d].existing.id \notin {c \in Ids : Orphan(c, deploy[d].existing.id)}
    BY DEF Orphan
  <2>3. deploy'[d].existing.id \notin deploy'[d].todo
    BY <2>1, <2>2, <1>a DEF Spare
  <2>4. Spare(d)'
    BY <1>7, <1>a, <2>1, <2>3 DEF ListOrphans, Spare, LatePlaces
  <2> QED
    BY <1>7, <1>n, <2>1, <2>4, SparesCall DEF ListOrphans, Goal
<1>8. ASSUME NEW d \in Deployers, CleanOrphan(d) PROVE Goal
  <2>1. PICK c \in deploy[d].todo :
          StopAndRemove(c) /\ deploy' = [deploy EXCEPT ![d].todo = @ \ {c}]
    BY <1>8 DEF CleanOrphan
  <2>2. /\ deploy'[d].at = deploy[d].at /\ deploy'[d].existing = deploy[d].existing
        /\ deploy'[d].new = deploy[d].new /\ deploy'[d].todo = deploy[d].todo \ {c}
        /\ Others(d)
    BY <2>1, <1>a, CleanFields
  <2>3. NoneBorn
    BY <1>8, <2>1, <1>a, StopBears DEF CleanOrphan
  <2>4. Spare(d)'
    BY <1>8, <1>a, <2>2 DEF CleanOrphan, Spare
  <2> QED
    BY <1>8, <2>2, <2>3, <2>4, SparesCall DEF CleanOrphan, Goal
<1>9. ASSUME NEW d \in Deployers, PrepareFails(d) PROVE Goal
  BY <1>9, <1>n, SparesReturn DEF PrepareFails, Return, Goal
<1>10. ASSUME NEW d \in Deployers, SkipRedundantDeploy(d) PROVE Goal
  BY <1>10, <1>n, SparesReturn DEF SkipRedundantDeploy, Return, Goal
<1>11. ASSUME NEW d \in Deployers, CreateContainer(d) PROVE Goal
  <2>1. /\ deploy'[d].at = "start" /\ deploy'[d].existing = deploy[d].existing
        /\ deploy'[d].new = born + 1 /\ deploy'[d].todo = {} /\ Others(d)
    BY <1>11, <1>a, CreateFields
  <2>2. born' = born + 1 /\ UNCHANGED <<tracked, tasks, monitor>>
    BY <1>11 DEF CreateContainer
  <2>3. \A c \in Ids : Exists(c)' => Exists(c) \/ c = born + 1
    BY <1>11, <1>a DEF CreateContainer, Exists, TypeOK
  <2>4. tracked.id \in Int /\ \A e \in Deployers : deploy[e].existing.id \in Int
    BY <1>b, <1>c DEF Ids
  <2>5. \A t \in tasks : t.old \in Int
    BY <1>a DEF SpareTask, Ids
  <2>6. Known'
    BY <1>a, <1>c, <2>2, <2>3, <2>4 DEF Known, Ids
  <2>7. Spare(d)'
    BY <1>a, <1>c, <2>1, <2>2, <2>4, <2>5 DEF Spare, SpareTask
  <2>8. ASSUME NEW e \in Deployers, e # d PROVE Spare(e)'
    <3>1. deploy'[e] = deploy[e] /\ Spare(e)
      BY <1>a, <2>1, <2>8 DEF Others
    <3>2. deploy[e].new \in Int
      BY <1>a, EarlyNew DEF Ids
    <3> QED
      BY <1>c, <2>2, <2>4, <3>1, <3>2 DEF Spare
  <2>9. \A t \in tasks' : SpareTask(t)'
    BY <1>a, <1>c, <2>2, <2>5 DEF SpareTask
  <2> QED
    BY <2>6, <2>7, <2>8, <2>9 DEF Goal
<1>12. ASSUME NEW d \in Deployers, CreateFails(d) PROVE Goal
  BY <1>12, <1>n, SparesReturn DEF CreateFails, Return, Goal
<1>13. ASSUME NEW d \in Deployers, StartContainer(d) PROVE Goal
  <2>1. deploy[d].new \in Ids
    BY <1>13, <1>a, EarlyNew DEF StartContainer, LatePlaces
  <2>2. NoneBorn
    BY <1>13, <1>a, <2>1, StatusBears DEF StartContainer, Statuses
  <2> QED
    BY <1>13, <2>2, SparesMove DEF StartContainer, LatePlaces, Goal
<1>14. ASSUME NEW d \in Deployers, StartFails(d) PROVE Goal
  <2>1. NoneBorn
    BY <1>14, <1>a, StopBears DEF StartFails
  <2> QED
    BY <1>14, <2>1, SparesReturn DEF StartFails, Return, Goal
<1>15. ASSUME NEW d \in Deployers, BecomeReady(d) PROVE Goal
  BY <1>15, <1>n, SparesMove DEF BecomeReady, LatePlaces, Goal
<1>16. ASSUME NEW d \in Deployers, ReadinessFails(d) PROVE Goal
  <2>1. NoneBorn
    BY <1>16, <1>a, StopBears DEF ReadinessFails
  <2> QED
    BY <1>16, <2>1, SparesReturn DEF ReadinessFails, Return, Goal
<1>17. ASSUME NEW d \in Deployers, Activate(d) PROVE Goal
  <2>1. /\ deploy'[d].at = "invalidate" /\ deploy'[d].existing = deploy[d].existing
        /\ deploy'[d].new = deploy[d].new /\ deploy'[d].todo = deploy[d].todo /\ Others(d)
    BY <1>17, <1>a, GotoFields DEF Activate
  <2>2. NoneBorn /\ UNCHANGED <<tasks, monitor, born>>
    BY <1>17, <1>n DEF Activate
  <2>3. deploy[d].new \in Ids /\ tracked'.id = deploy[d].new /\ deploy[d].new <= born
    BY <1>17, <1>a, EarlyNew DEF Activate, Track, LatePlaces, Spare
  <2>4. tracked' # Untracked /\ tracked'.id <= born'
    BY <2>2, <2>3, RecordIds DEF Untracked
  <2>5. \A t \in tasks : t.old # tracked'.id
    BY <1>a, <2>3 DEF Spare
  <2>6. Known'
    BY <1>a, <2>2, <2>4 DEF Known, NoneBorn
  <2>7. \A e \in Deployers : Spare(e)'
    <3>1. Spare(d)'
      BY <1>17, <1>a, <2>1, <2>2 DEF Activate, Spare, LatePlaces
    <3>2. ASSUME NEW e \in Deployers, e # d PROVE Spare(e)'
      <4>1. deploy'[e] = deploy[e] /\ Spare(e)
        BY <1>a, <2>1, <3>2 DEF Others
      <4> QED
        BY <2>2, <4>1 DEF Spare
    <3> QED
      BY <3>1, <3>2
  <2>8. \A t \in tasks' : SpareTask(t)'
    BY <1>a, <2>2, <2>5 DEF SpareTask
  <2> QED
    BY <2>6, <2>7, <2>8 DEF Goal
<1>18. ASSUME NEW d \in Deployers, InvalidateTarget(d) PROVE Goal
  BY <1>18, <1>n, SparesMove DEF InvalidateTarget, LatePlaces, Goal
<1>19. ASSUME NEW d \in Deployers, Stabilized(d) PROVE Goal
  BY <1>19, <1>n, SparesMove DEF Stabilized, LatePlaces, Goal
<1>20. ASSUME NEW d \in Deployers, CrashedEarly(d) PROVE Goal
  BY <1>20, <1>n, SparesMove DEF CrashedEarly, LatePlaces, Goal
<1>21. ASSUME NEW d \in Deployers, RestoreOld(d) PROVE Goal
  <2>1. /\ deploy'[d].at = "reinvalidate" /\ deploy'[d].existing = deploy[d].existing
        /\ deploy'[d].new = deploy[d].new /\ deploy'[d].todo = deploy[d].todo /\ Others(d)
    BY <1>21, <1>a, GotoFields DEF RestoreOld
  <2>2. NoneBorn /\ UNCHANGED <<tasks, monitor, born>>
    BY <1>21, <1>n DEF RestoreOld
  <2>3. tracked' = deploy[d].existing /\ deploy[d].existing.id \in Ids
    BY <1>21 DEF RestoreOld, OldIsUp
  <2>4. tracked' # Untracked /\ tracked'.id <= born'
    BY <1>a, <2>2, <2>3, RecordIds DEF Untracked, Spare
  <2>5. \A t \in tasks : t.old # tracked'.id
    BY <1>a, <2>3 DEF Spare
  <2>6. Known'
    BY <1>a, <2>2, <2>4 DEF Known, NoneBorn
  <2>7. \A e \in Deployers : Spare(e)'
    <3>1. Spare(d)'
      BY <1>21, <1>a, <2>1, <2>2 DEF RestoreOld, Spare, LatePlaces
    <3>2. ASSUME NEW e \in Deployers, e # d PROVE Spare(e)'
      <4>1. deploy'[e] = deploy[e] /\ Spare(e)
        BY <1>a, <2>1, <3>2 DEF Others
      <4> QED
        BY <2>2, <4>1 DEF Spare
    <3> QED
      BY <3>1, <3>2
  <2>8. \A t \in tasks' : SpareTask(t)'
    BY <1>a, <2>2, <2>5 DEF SpareTask
  <2> QED
    BY <2>6, <2>7, <2>8 DEF Goal
<1>22. ASSUME NEW d \in Deployers, Reinvalidate(d) PROVE Goal
  BY <1>22, <1>n, SparesMove DEF Reinvalidate, LatePlaces, Goal
<1>23. ASSUME NEW d \in Deployers, DropNew(d) PROVE Goal
  <2>1. NoneBorn
    BY <1>23, <1>a, StopBears DEF DropNew
  <2> QED
    BY <1>23, <2>1, SparesReturn DEF DropNew, Return, Goal
<1>24. ASSUME NEW d \in Deployers, BothDead(d) PROVE Goal
  <2>1. NoneBorn
    BY <1>24, <1>a, StopBears DEF BothDead
  <2> QED
    BY <1>24, <2>1, SparesReturn DEF BothDead, Return, Goal
<1>25. ASSUME NEW d \in Deployers, Finish(d) PROVE Goal
  <2>1. /\ deploy'[d].at = "idle" /\ deploy'[d].existing = Untracked
        /\ deploy'[d].new = 0 /\ deploy'[d].todo = {} /\ Others(d)
    BY <1>25, <1>a, ReturnFields DEF Finish, Return
  <2>2. CASE tasks' = tasks
    BY <1>25, <1>n, <2>2, SparesReturn DEF Finish, Return, Goal
  <2>3. CASE deploy[d].existing # Untracked
    <3> DEFINE old == deploy[d].existing.id
               task == [old |-> old, new |-> deploy[d].new, at |-> "drain"]
    <3>1. tasks' = tasks \cup {task} /\ task.old = old
      BY <1>25, <2>3 DEF Finish
    <3>2. UNCHANGED <<docker, born, tracked, monitor>>
      BY <1>25 DEF Finish
    <3>3. old \in Ids /\ old <= born
      BY <1>a, <1>c, <2>3, RecordIds DEF Spare
    <3>4. tracked.id = deploy[d].new /\ deploy[d].new \in Ids /\ old # deploy[d].new
      BY <1>25, <1>a, EarlyNew DEF Finish, Current, LatePlaces, Spare
    <3> HIDE DEF task, old
    <3>5. tracked # Untracked
      BY <3>4, RecordIds DEF Untracked
    <3>6. Known'
      BY <1>a, <3>2, <3>5 DEF Known, Exists
    <3>7. \A t \in tasks' : SpareTask(t)'
      BY <1>a, <3>1, <3>2, <3>3, <3>4 DEF SpareTask
    <3>8. \A t \in tasks' : t.old # 0
      BY <3>7, RecordIds DEF SpareTask
    <3>9. Spare(d)'
      BY <1>c, <2>1, <3>2, <3>8 DEF Spare, LatePlaces, Untracked
    <3>10. ASSUME NEW e \in Deployers, e # d PROVE Spare(e)'
      <4>1. deploy'[e] = deploy[e] /\ Spare(e)
        BY <1>a, <2>1, <3>10 DEF Others
      <4>2. InSection(d)
        BY <1>25 DEF Finish, InSection
      <4>3. deploy[e].at \in {"idle", "lock"}
        BY <1>a, <3>10, <4>2, Alone
      <4>4. deploy[e].existing = Untracked /\ deploy[e].new = 0
        BY <1>a, <4>3, EarlyNew DEF Current, LatePlaces
      <4> QED
        BY <3>2, <3>8, <4>1, <4>4 DEF Spare, Untracked
    <3> QED
      BY <3>6, <3>7, <3>9, <3>10 DEF Goal
  <2> QED
    BY <1>25, <2>2, <2>3 DEF Finish
<1>26. ASSUME NEW t \in tasks, TaskStep(t) PROVE Goal
  <2>1. UNCHANGED <<born, tracked, deploy, monitor>>
    BY <1>26 DEF TaskStep, Drained, StopOld, RemoveOld, RenameNew
  <2>2. NoneBorn
    <3>1. CASE RenameNew(t)
      <4>1. CASE UNCHANGED docker
        BY <2>1, <4>1, <1>n
      <4>2. CASE Exists(t.new) /\ docker' = [docker EXCEPT ![t.new].name = "canonical"]
        <5>1. ASSUME NEW c \in Ids, c # t.new PROVE docker'[c] = docker[c]
          BY <4>2, <5>1, <1>a DEF TypeOK
        <5> QED
          BY <2>1, <4>2, <5>1 DEF NoneBorn, Exists
      <4> QED
        BY <3>1, <4>1, <4>2 DEF RenameNew
    <3>2. CASE Drained(t)
      BY <2>1, <3>2, <1>n DEF Drained
    <3>3. CASE StopOld(t) \/ RemoveOld(t)
      BY <2>1, <3>3, <1>a, StopBears DEF StopOld, RemoveOld
    <3> QED
      BY <1>26, <3>1, <3>2, <3>3 DEF TaskStep
  <2>3. \A s \in tasks' : \E u \in tasks : s.old = u.old
    <3>1. ASSUME NEW place, Advance(t, place)
          PROVE  \A s \in tasks' : \E u \in tasks : s.old = u.old
      <4>1. t \in CleanupTasks
        BY <1>a DEF TypeOK
      <4>2. [t EXCEPT !.at = place].old = t.old
        BY <4>1 DEF CleanupTasks
      <4> QED
        BY <3>1, <4>2 DEF Advance
    <3>2. CASE RenameNew(t)
      BY <3>2 DEF RenameNew
    <3> QED
      BY <1>26, <3>1, <3>2 DEF TaskStep, Drained, StopOld, RemoveOld
  <2>4. Known'
    BY <1>a, <2>1, <2>2 DEF Known, NoneBorn
  <2>5. \A d \in Deployers : Spare(d)'
    BY <1>a, <2>1, <2>3 DEF Spare
  <2>6. \A s \in tasks' : SpareTask(s)'
    BY <1>a, <2>1, <2>3 DEF SpareTask
  <2> QED
    BY <2>4, <2>5, <2>6 DEF Goal
<1>27. ASSUME NEW o \in Operators,
              SyncList(o) \/ SyncStore(o) \/ RestartCall(o) \/ RestartContainer(o)
       PROVE Goal
  <2>1. operator[o].at = "idle"
    BY <1>a DEF NoFreeCalls, IdleOperator
  <2> QED
    BY <1>27, <2>1 DEF SyncList, SyncStore, RestartCall, RestartContainer
<1>28. ASSUME MonitorStep PROVE Goal
  <2>1. UNCHANGED <<born, tracked, deploy, tasks>>
    BY <1>28 DEF MonitorStep, MonitorSnapshot, MonitorInspect, MonitorSkip,
       MonitorVerify, MonitorAct
  <2>2. monitor.at # "idle" => tracked # Untracked
    BY <1>a DEF Known
  <2>3. monitor'.at # "idle" => tracked' # Untracked
    BY <1>28, <2>1, <2>2 DEF MonitorStep, MonitorSnapshot, MonitorInspect, MonitorSkip,
       MonitorVerify, MonitorAct, IdleMonitor
  <2>4. NoneBorn
    <3>1. CASE UNCHANGED docker
      BY <2>1, <3>1, <1>n
    <3>2. CASE MonitorAct /\ Exists(monitor.id) /\ SetStatus(monitor.id, "running")
      <4>1. CASE monitor.id \in Ids
        BY <2>1, <3>2, <4>1, <1>a, StatusBears DEF Statuses
      <4>2. CASE monitor.id \notin Ids
        BY <2>1, <3>2, <4>2, <1>a DEF SetStatus, TypeOK, NoneBorn, Exists
      <4> QED
        BY <4>1, <4>2
    <3> QED
      BY <1>28, <3>1, <3>2 DEF MonitorStep, MonitorSnapshot, MonitorInspect, MonitorSkip,
         MonitorVerify, MonitorAct
  <2> QED
    BY <1>a, <2>1, <2>3, <2>4 DEF Known, Spare, SpareTask, NoneBorn, Goal
<1>29. ASSUME NEW c \in Ids,
              ContainerCrashes(c) \/ RuntimeRestarts(c) \/ StoppedExternally(c)
       PROVE Goal
  <2>1. /\ Exists(c) /\ \E s \in Statuses \ {"absent"} : SetStatus(c, s)
        /\ UNCHANGED <<born, tracked, deploy, tasks, monitor>>
    BY <1>29 DEF ContainerCrashes, RuntimeRestarts, StoppedExternally, Up, Active, Exists,
       Statuses
  <2>2. NoneBorn
    BY <2>1, <1>a, StatusBears
  <2> QED
    BY <2>1, <2>2, <1>q
<1>30. ASSUME ProcessDies PROVE Goal
  <2>1. /\ UNCHANGED <<docker, born>> /\ tracked' = Untracked /\ tasks' = {}
        /\ monitor' = IdleMonitor /\ deploy' = [d \in Deployers |-> IdleDeploy]
    BY <1>30 DEF ProcessDies
  <2> QED
    BY <1>a, <1>c, <2>1 DEF Known, Exists, Spare, IdleDeploy, IdleMonitor, Untracked,
       LatePlaces, Goal
<1>31. ASSUME UNCHANGED vars PROVE Goal
  <2>1. UNCHANGED <<docker, born, tracked, deploy, tasks, monitor>>
    BY <1>31 DEF vars
  <2> QED
    BY <2>1, <1>n, <1>q
<1>32. Goal
  BY <1>1, <1>2, <1>3, <1>4, <1>5, <1>6, <1>7, <1>8, <1>9, <1>10, <1>11, <1>12,
     <1>13, <1>14, <1>15, <1>16, <1>17, <1>18, <1>19, <1>20, <1>21, <1>22, <1>23,
     <1>24, <1>25, <1>26, <1>27, <1>28, <1>29, <1>30, <1>31 DEF Next, DeployStep
<1> QED
  BY <1>32 DEF Goal

\* No clean-up under way, of a replaced container in the background or of orphans, is
\* after the container that serves, however the monitor, the failures and the deaths
\* of the process interleave; excluded are the calls that take no lock and the removal
\* of the route, whose tasks outlive what the map knew.
THEOREM SparesTracked ==
  Calls = {} /\ Reconcilers = {} => (Spec => []CleanupSparesTracked)
<1> SUFFICES ASSUME Calls = {}, Reconcilers = {} PROVE Spec => []CleanupSparesTracked
  OBVIOUS
<1>1. Init => SparesInv
  BY TypeInit, LockInit, CurrentInit, SparesInit DEF SparesInv, CurrentInv
<1>2. SparesInv /\ [Next]_vars => SparesInv'
  BY TypeNext, LockNext, CurrentNext, SparesNext DEF SparesInv, CurrentInv
<1> QED
  BY <1>1, <1>2, SparesImplies, PTL DEF Spec

-----------------------------------------------------------------------------
(* The names in the runtime *)

\* A container has the name it was recorded with, or its clean-up has renamed it since.
KnownAs(record) ==
    record # Untracked /\ Exists(record.id)
        => docker[record.id].name \in {record.name, "canonical"}

\* What the runtime holds besides the orphans still to be removed: the container that
\* serves, and others only under the canonical name, and those only next to it.
Named(d) ==
    LET call == deploy[d] IN
    /\ KnownAs(call.existing)
    /\ call.at \in LatePlaces /\ Exists(call.new)
          => docker[call.new].name \in {NewName(call.existing), "canonical"}
    /\ call.at = "adopt" => call.existing # Untracked
    /\ call.at = "orphans" /\ call.existing = Untracked => \A c \in Ids : ~ Active(c)
    /\ call.at = "clean" =>
          \A c \in Ids : Exists(c) /\ c \notin call.todo /\ c # call.existing.id
                           => call.existing # Untracked /\ docker[c].name = "canonical"

NamesInv ==
    /\ SparesInv
    /\ KnownAs(tracked)
    /\ \A d \in Deployers : Named(d)

LEMMA NamesImplies == NamesInv => NameIsFree
<1> SUFFICES ASSUME NamesInv, NEW d \in Deployers, deploy[d].at = "clean",
                    deploy[d].todo = {}, NEW c \in Ids,
                    docker[c].name = NewName(deploy[d].existing)
             PROVE  FALSE
  BY DEF NameIsFree, NameTaken
<1> DEFINE existing == deploy[d].existing
<1>1. TypeOK /\ Named(d)
  BY DEF NamesInv, SparesInv, CurrentInv
<1>2. existing \in Records
  BY <1>1, CallShape DEF AnyCalls
<1>3. Exists(c)
  <2>1. NewName(existing) # "-"
    BY DEF NewName
  <2> QED
    BY <1>1, <2>1 DEF TypeOK, Exists, Absent, Containers
<1>4. CASE existing = Untracked
  BY <1>1, <1>3, <1>4, RecordIds DEF Named, Untracked
<1>5. CASE existing # Untracked /\ c = existing.id
  BY <1>1, <1>3, <1>5 DEF Named, KnownAs, NewName
<1>6. CASE existing # Untracked /\ c # existing.id
  BY <1>1, <1>3, <1>6 DEF Named, NewName
<1> QED
  BY <1>4, <1>5, <1>6

\* What is there was there, under the same name or renamed to the canonical one.
KeepsNames ==
    \A c \in Ids : Exists(c)' => Exists(c) /\ docker'[c].name \in {docker[c].name, "canonical"}

WakesNone == \A c \in Ids : Active(c)' => Active(c)

LEMMA KeepsKnown ==
  ASSUME KeepsNames, NEW record \in Records, KnownAs(record)
  PROVE  record # Untracked /\ Exists(record.id)'
            => docker'[record.id].name \in {record.name, "canonical"}
  BY RecordIds DEF KnownAs, KeepsNames

LEMMA StatusNames ==
  ASSUME TypeOK, NEW c \in Ids, Exists(c), NEW s \in Statuses \ {"absent"}, SetStatus(c, s)
  PROVE  KeepsNames
<1> SUFFICES ASSUME NEW x \in Ids, Exists(x)'
             PROVE  Exists(x) /\ docker'[x].name \in {docker[x].name, "canonical"}
  BY DEF KeepsNames
<1>1. CASE x = c
  BY <1>1, StatusSet
<1>2. CASE x # c
  <2>1. docker'[x] = docker[x]
    BY <1>2, StatusSet
  <2> QED
    BY <2>1 DEF Exists
<1> QED
  BY <1>1, <1>2

LEMMA StopNames ==
  ASSUME TypeOK, NEW c, Stop(c) \/ Remove(c) \/ StopAndRemove(c)
  PROVE  KeepsNames /\ WakesNone
<1> SUFFICES ASSUME NEW x \in Ids
             PROVE  /\ Exists(x)' => /\ Exists(x)
                                     /\ docker'[x].name \in {docker[x].name, "canonical"}
                    /\ Active(x)' => Active(x)
  BY DEF KeepsNames, WakesNone
<1>1. CASE docker'[x] = docker[x]
  BY <1>1 DEF Exists, Active
<1>2. CASE docker'[x] = Absent
  BY <1>2 DEF Exists, Active, Absent
<1>3. CASE Exists(x) /\ docker'[x].status = "stopped" /\ docker'[x].name = docker[x].name
  BY <1>3 DEF Active
<1> QED
  BY <1>1, <1>2, <1>3, Stopped

\* The calls out of their sections know nothing, so it does not matter to them.
LEMMA NamesOthers ==
  ASSUME NamesInv, NEW d \in Deployers, InSection(d), Others(d)
  PROVE  \A e \in Deployers : e # d => Named(e)'
<1> SUFFICES ASSUME NEW e \in Deployers, e # d PROVE Named(e)'
  OBVIOUS
<1>1. deploy'[e] = deploy[e] /\ deploy[e].at \in {"idle", "lock"}
  BY Alone DEF Others, NamesInv, SparesInv, CurrentInv
<1>2. deploy[e].existing = Untracked
  BY <1>1 DEF NamesInv, SparesInv, CurrentInv, Current
<1> QED
  BY <1>1, <1>2 DEF Named, KnownAs, LatePlaces

\* A step that only takes away, of a call or of nobody.
LEMMA NamedKept ==
  ASSUME NamesInv, NEW e \in Deployers, deploy'[e] = deploy[e], KeepsNames,
         WakesNone \/ tracked # Untracked
  PROVE  Named(e)'
<1> DEFINE call == deploy[e]
<1>1. TypeOK /\ Named(e) /\ Current(e)
  BY DEF NamesInv, SparesInv, CurrentInv
<1>2. call.existing \in Records /\ call.new \in Ids \cup {0}
  BY <1>1, CallShape DEF AnyCalls
<1>3. call.at \in LatePlaces => call.new \in Ids
  BY <1>1, EarlyNew
<1>4. KnownAs(call.existing)'
  BY <1>1, <1>2, KeepsKnown DEF Named, KnownAs
<1>5. call.at \in LatePlaces /\ Exists(call.new)'
         => docker'[call.new].name \in {NewName(call.existing), "canonical"}
  BY <1>1, <1>3 DEF Named, KeepsNames
<1>6. call.at = "orphans" /\ call.existing = Untracked => \A c \in Ids : ~ Active(c)'
  BY <1>1 DEF Named, WakesNone, Current
<1>7. call.at = "clean" =>
         \A c \in Ids : Exists(c)' /\ c \notin call.todo /\ c # call.existing.id
                          => call.existing # Untracked /\ docker'[c].name = "canonical"
  BY <1>1 DEF Named, KeepsNames
<1> QED
  BY <1>1, <1>4, <1>5, <1>6, <1>7 DEF Named, KnownAs

LEMMA NamesCall ==
  ASSUME NamesInv, NEW d \in Deployers, Others(d), Named(d)', KeepsNames, tracked' = tracked,
         WakesNone \/ InSection(d)
  PROVE  KnownAs(tracked)' /\ \A e \in Deployers : Named(e)'
<1>1. KnownAs(tracked)'
  <2>1. tracked \in Records /\ KnownAs(tracked)
    BY DEF NamesInv, SparesInv, CurrentInv, TypeOK
  <2> QED
    BY <2>1, KeepsKnown DEF KnownAs
<1>2. ASSUME NEW e \in Deployers, e # d, WakesNone PROVE Named(e)'
  BY <1>2, NamedKept DEF Others
<1> QED
  BY <1>1, <1>2, NamesOthers

LEMMA NamesReturn ==
  ASSUME NamesInv, NEW d \in Deployers, deploy' = [deploy EXCEPT ![d] = IdleDeploy],
         KeepsNames, WakesNone, tracked' = tracked
  PROVE  KnownAs(tracked)' /\ \A e \in Deployers : Named(e)'
<1>1. deploy'[d].at = "idle" /\ deploy'[d].existing = Untracked /\ Others(d)
  BY ReturnFields DEF NamesInv, SparesInv, CurrentInv
<1>2. Named(d)'
  BY <1>1 DEF Named, KnownAs, LatePlaces
<1> QED
  BY <1>1, <1>2, NamesCall

\* A move of a call, with the names as they were.
LEMMA NamesMove ==
  ASSUME NamesInv, NEW d \in Deployers, NEW place, Goto(d, place),
         place \notin {"adopt", "orphans", "clean"},
         deploy[d].at \in LatePlaces <=> place \in LatePlaces,
         KeepsNames, tracked' = tracked, WakesNone \/ InSection(d)
  PROVE  KnownAs(tracked)' /\ \A e \in Deployers : Named(e)'
<1>0. TypeOK /\ Named(d)
  BY DEF NamesInv, SparesInv, CurrentInv
<1>1. /\ deploy'[d].at = place /\ deploy'[d].existing = deploy[d].existing
      /\ deploy'[d].new = deploy[d].new /\ Others(d)
  BY <1>0, GotoFields
<1>2. deploy[d].existing \in Records
  BY <1>0, CallShape DEF AnyCalls
<1>3. deploy[d].at \in LatePlaces => deploy[d].new \in Ids
  BY <1>0, EarlyNew
<1>4. KnownAs(deploy[d].existing)'
  BY <1>0, <1>1, <1>2, KeepsKnown DEF Named, KnownAs
<1>5. place \in LatePlaces /\ Exists(deploy[d].new)'
         => docker'[deploy[d].new].name \in {NewName(deploy[d].existing), "canonical"}
  <2> SUFFICES ASSUME place \in LatePlaces, Exists(deploy[d].new)'
               PROVE  docker'[deploy[d].new].name \in {NewName(deploy[d].existing), "canonical"}
    OBVIOUS
  <2>1. deploy[d].new \in Ids /\ Exists(deploy[d].new)'
    BY <1>3, <1>1 DEF Exists
  <2>2. /\ Exists(deploy[d].new)
        /\ docker'[deploy[d].new].name \in {docker[deploy[d].new].name, "canonical"}
    BY <2>1, <1>1 DEF KeepsNames, Exists
  <2> QED
    BY <1>0, <2>2 DEF Named
<1>6. Named(d)'
  BY <1>1, <1>4, <1>5 DEF Named, KnownAs
<1> QED
  BY <1>1, <1>6, NamesCall

LEMMA NamesInit == Init => KnownAs(tracked) /\ \A d \in Deployers : Named(d)
BY DEF Init, KnownAs, Named, IdleDeploy, LatePlaces

LEMMA NamesNext ==
  ASSUME Calls = {}, Reconcilers = {}, "list" \notin Faults, "remove" \notin Faults,
         NamesInv, [Next]_vars
  PROVE  KnownAs(tracked)' /\ \A d \in Deployers : Named(d)'
<1> DEFINE Goal == KnownAs(tracked)' /\ \A d \in Deployers : Named(d)'
<1>a. /\ TypeOK /\ NoFreeCalls /\ Known /\ (\A d \in Deployers : Current(d))
      /\ (\A d \in Deployers : Spare(d)) /\ (\A d \in Deployers : Named(d))
      /\ KnownAs(tracked)
  BY DEF NamesInv, SparesInv, CurrentInv
<1>t. TypeOK
  BY <1>a
<1>c. born \in Nat /\ tracked \in Records /\ \A d \in Deployers : deploy[d].existing \in Records
  BY <1>a, CallShape, DeployAssumption DEF TypeOK, AnyCalls
<1>n. ASSUME UNCHANGED docker PROVE KeepsNames /\ WakesNone
  BY <1>n DEF KeepsNames, WakesNone, Exists, Active
<1>q. ASSUME KeepsNames, WakesNone \/ tracked # Untracked, UNCHANGED <<tracked, deploy>>
      PROVE  Goal
  <2>1. KnownAs(tracked)'
    BY <1>a, <1>c, <1>q, KeepsKnown DEF KnownAs
  <2>2. \A d \in Deployers : Named(d)'
    BY <1>q, NamedKept
  <2> QED
    BY <2>1, <2>2
<1> HIDE DEF Goal
<1>1. ASSUME NEW d \in Deployers, CallDeploy(d) PROVE Goal
  <2>1. deploy'[d].at = "lock" /\ deploy'[d].existing = Untracked /\ Others(d)
    BY <1>1, <1>a, CallDeployFields
  <2>2. Named(d)'
    BY <2>1 DEF Named, KnownAs, LatePlaces
  <2> QED
    BY <1>1, <1>n, <2>1, <2>2, NamesCall DEF CallDeploy, Goal
<1>2. ASSUME NEW d \in Deployers, GiveUpWaiting(d) PROVE Goal
  BY <1>2, <1>n, NamesReturn DEF GiveUpWaiting, Return, Goal
<1>3. ASSUME NEW d \in Deployers, AcquireLock(d) PROVE Goal
  BY <1>3, <1>n, NamesMove DEF AcquireLock, LatePlaces, Goal
<1>4. ASSUME NEW d \in Deployers, ResolveTracked(d) PROVE Goal
  <2>1. deploy' = [deploy EXCEPT ![d] =
                      [deploy[d] EXCEPT !.at = "orphans", !.existing = tracked]]
    BY <1>4 DEF ResolveTracked
  <2>2. deploy'[d] = [deploy[d] EXCEPT !.at = "orphans", !.existing = tracked] /\ Others(d)
    BY <2>1, <1>t, CallBecomes
  <2>3. deploy'[d].at = "orphans" /\ deploy'[d].existing = tracked
    BY <2>2, <1>t, CallShape DEF AnyCalls
  <2>4. Named(d)'
    BY <1>4, <1>a, <2>3 DEF ResolveTracked, Named, KnownAs, Exists, LatePlaces
  <2> QED
    BY <1>4, <1>n, <2>2, <2>4, NamesCall DEF ResolveTracked, Goal
<1>5. ASSUME NEW d \in Deployers, ResolveFromRuntime(d) PROVE Goal
  <2>1. CASE Goto(d, "orphans") /\ ~ \E c \in Ids : Active(c)
    <3>1. deploy'[d].at = "orphans" /\ deploy'[d].existing = deploy[d].existing /\ Others(d)
      BY <2>1, <1>t, GotoFields
    <3>2. deploy[d].existing = Untracked
      BY <1>5, <1>a DEF ResolveFromRuntime, Current
    <3>3. Named(d)'
      BY <1>5, <2>1, <3>1, <3>2 DEF ResolveFromRuntime, Named, KnownAs, Active, LatePlaces
    <3> QED
      BY <1>5, <1>n, <3>1, <3>3, NamesCall DEF ResolveFromRuntime, Goal
  <2>2. ASSUME NEW c \in Ids, Preferred(c),
               deploy' = [deploy EXCEPT ![d].at = "adopt", ![d].existing = Seen(c)]
        PROVE  Goal
    <3> DEFINE seen == Seen(c)
    <3>1. seen.id = c /\ seen.name = docker[c].name /\ seen # Untracked
      BY RecordIds DEF Seen, Untracked
    <3>2. deploy' = [deploy EXCEPT ![d] =
                        [deploy[d] EXCEPT !.at = "adopt", !.existing = seen]]
      BY <2>2
    <3> HIDE DEF seen
    <3>3. deploy'[d] = [deploy[d] EXCEPT !.at = "adopt", !.existing = seen] /\ Others(d)
      BY <3>2, <1>t, CallBecomes
    <3>4. deploy'[d].at = "adopt" /\ deploy'[d].existing = seen
      BY <3>3, <1>t, CallShape DEF AnyCalls
    <3>5. Named(d)'
      BY <1>5, <3>1, <3>4 DEF ResolveFromRuntime, Named, KnownAs, LatePlaces
    <3> QED
      BY <1>5, <1>n, <3>3, <3>5, NamesCall DEF ResolveFromRuntime, Goal
  <2> QED
    BY <1>5, <2>1, <2>2 DEF ResolveFromRuntime
<1>6. ASSUME NEW d \in Deployers, Adopt(d) PROVE Goal
  <2>1. /\ deploy'[d].at = "orphans" /\ deploy'[d].existing = deploy[d].existing
        /\ deploy'[d].new = deploy[d].new /\ Others(d)
    BY <1>6, <1>a, GotoFields DEF Adopt
  <2>2. UNCHANGED docker /\ InSection(d)
    BY <1>6 DEF Adopt, InSection
  <2>3. Named(d)'
    BY <1>6, <1>a, <2>1, <2>2 DEF Adopt, Named, KnownAs, Exists, LatePlaces
  <2>4. tracked' = deploy[d].existing
    BY <1>6 DEF Adopt, Track
  <2>5. KnownAs(tracked)'
    BY <1>a, <2>2, <2>4 DEF Named, KnownAs, Exists
  <2> QED
    BY <2>1, <2>2, <2>3, <2>5, NamesOthers DEF Goal
<1>7. ASSUME NEW d \in Deployers, ListOrphans(d) PROVE Goal
  <2>1. /\ deploy'[d].at = "clean" /\ deploy'[d].existing = deploy[d].existing
        /\ deploy'[d].todo = {c \in Ids : Orphan(c, deploy[d].existing.id)} /\ Others(d)
    BY <1>7, <1>a, ListFields
  <2>2. ASSUME NEW c \in Ids, Exists(c), c \notin deploy'[d].todo,
               c # deploy[d].existing.id
        PROVE  deploy[d].existing # Untracked /\ docker[c].name = "canonical"
    <3>1. Active(c) /\ (deploy[d].existing.id = 0 \/ docker[c].name = "canonical")
      BY <2>1, <2>2 DEF Orphan
    <3>2. deploy[d].existing # Untracked
      BY <1>7, <1>a, <3>1 DEF ListOrphans, Named
    <3> QED
      BY <1>c, <3>1, <3>2, RecordIds
  <2>3. UNCHANGED docker
    BY <1>7 DEF ListOrphans
  <2>4. Named(d)'
    BY <1>a, <2>1, <2>2, <2>3 DEF Named, KnownAs, Exists, LatePlaces
  <2> QED
    BY <1>7, <1>n, <2>1, <2>4, NamesCall DEF ListOrphans, Goal
<1>8. ASSUME NEW d \in Deployers, CleanOrphan(d) PROVE Goal
  <2>1. PICK c \in deploy[d].todo :
          StopAndRemove(c) /\ deploy' = [deploy EXCEPT ![d].todo = @ \ {c}]
    BY <1>8 DEF CleanOrphan
  <2>2. /\ deploy'[d].at = "clean" /\ deploy'[d].existing = deploy[d].existing
        /\ deploy'[d].todo = deploy[d].todo \ {c} /\ Others(d)
    BY <1>8, <2>1, <1>a, CleanFields DEF CleanOrphan
  <2>3. KeepsNames /\ WakesNone
    BY <2>1, <1>a, StopNames
  <2>4. c \in Ids /\ docker'[c] = Absent
    BY <2>1, <1>a, CallShape DEF StopAndRemove, TypeOK, AnyCalls
  <2>5. ASSUME NEW x \in Ids, Exists(x)', x \notin deploy'[d].todo,
               x # deploy[d].existing.id
        PROVE  deploy[d].existing # Untracked /\ docker'[x].name = "canonical"
    <3>1. x # c
      BY <2>4, <2>5 DEF Exists, Absent
    <3>2. Exists(x) /\ docker'[x].name \in {docker[x].name, "canonical"}
      BY <2>3, <2>5 DEF KeepsNames
    <3> QED
      BY <1>8, <1>a, <2>2, <2>5, <3>1, <3>2 DEF CleanOrphan, Named
  <2>6. KnownAs(deploy[d].existing)'
    BY <1>a, <1>c, <2>2, <2>3, KeepsKnown DEF Named, KnownAs
  <2>7. Named(d)'
    BY <2>2, <2>5, <2>6 DEF Named, KnownAs, LatePlaces
  <2> QED
    BY <1>8, <2>2, <2>3, <2>7, NamesCall DEF CleanOrphan, Goal
<1>9. ASSUME NEW d \in Deployers, PrepareFails(d) PROVE Goal
  BY <1>9, <1>n, NamesReturn DEF PrepareFails, Return, Goal
<1>10. ASSUME NEW d \in Deployers, SkipRedundantDeploy(d) PROVE Goal
  BY <1>10, <1>n, NamesReturn DEF SkipRedundantDeploy, Return, Goal
<1>11. ASSUME NEW d \in Deployers, CreateContainer(d) PROVE Goal
  <2> DEFINE existing == deploy[d].existing
  <2>1. /\ deploy'[d].at = "start" /\ deploy'[d].existing = existing
        /\ deploy'[d].new = born + 1 /\ Others(d)
    BY <1>11, <1>a, CreateFields
  <2>2. \A c \in Ids : c # born + 1 => docker'[c] = docker[c]
    BY <1>11, <1>a DEF CreateContainer, TypeOK
  <2>3. born + 1 \in Ids /\ docker'[born + 1].name = NewName(existing)
    <3>1. born + 1 \in Ids
      BY <1>11, <1>c, DeployAssumption DEF CreateContainer, Ids
    <3>2. docker' = [docker EXCEPT ![born + 1] =
                       [status |-> "created", name |-> NewName(existing),
                        image |-> deploy[d].image]]
      BY <1>11 DEF CreateContainer
    <3> QED
      BY <3>1, <3>2, <1>t DEF TypeOK
  <2>4. ASSUME NEW record \in Records, record.id <= born, KnownAs(record)
        PROVE  record # Untracked /\ Exists(record.id)'
                  => docker'[record.id].name \in {record.name, "canonical"}
    <3>1. record # Untracked => record.id \in Ids /\ record.id # born + 1
      BY <1>c, <2>4, RecordIds
    <3> QED
      BY <2>2, <2>4, <3>1 DEF KnownAs, Exists
  <2>5. KnownAs(tracked)'
    BY <1>11, <1>a, <1>c, <2>4 DEF CreateContainer, Known, KnownAs
  <2>6. Named(d)'
    BY <1>a, <1>c, <2>1, <2>3, <2>4 DEF Named, Spare, KnownAs
  <2>7. InSection(d)
    BY <1>11 DEF CreateContainer, InSection
  <2> QED
    BY <2>1, <2>5, <2>6, <2>7, NamesOthers DEF Goal
<1>12. ASSUME NEW d \in Deployers, CreateFails(d) PROVE Goal
  BY <1>12, <1>n, NamesReturn DEF CreateFails, Return, Goal
<1>13. ASSUME NEW d \in Deployers, StartContainer(d) PROVE Goal
  <2>1. deploy[d].new \in Ids
    BY <1>13, <1>a, EarlyNew DEF StartContainer, LatePlaces
  <2>2. KeepsNames /\ InSection(d)
    BY <1>13, <1>a, <2>1, StatusNames DEF StartContainer, Statuses, InSection
  <2> QED
    BY <1>13, <2>2, NamesMove DEF StartContainer, LatePlaces, Goal
<1>14. ASSUME NEW d \in Deployers, StartFails(d) PROVE Goal
  <2>1. KeepsNames /\ WakesNone
    BY <1>14, <1>a, StopNames DEF StartFails
  <2> QED
    BY <1>14, <2>1, NamesReturn DEF StartFails, Return, Goal
<1>15. ASSUME NEW d \in Deployers, BecomeReady(d) PROVE Goal
  BY <1>15, <1>n, NamesMove DEF BecomeReady, LatePlaces, Goal
<1>16. ASSUME NEW d \in Deployers, ReadinessFails(d) PROVE Goal
  <2>1. KeepsNames /\ WakesNone
    BY <1>16, <1>a, StopNames DEF ReadinessFails
  <2> QED
    BY <1>16, <2>1, NamesReturn DEF ReadinessFails, Return, Goal
<1>17. ASSUME NEW d \in Deployers, Activate(d) PROVE Goal
  <2>1. /\ deploy'[d].at = "invalidate" /\ deploy'[d].existing = deploy[d].existing
        /\ deploy'[d].new = deploy[d].new /\ Others(d)
    BY <1>17, <1>a, GotoFields DEF Activate
  <2>2. UNCHANGED docker /\ InSection(d)
    BY <1>17 DEF Activate, InSection
  <2>3. Named(d)'
    BY <1>17, <1>a, <2>1, <2>2 DEF Activate, Named, KnownAs, Exists, LatePlaces
  <2>4. tracked'.id = deploy[d].new /\ tracked'.name = NewName(deploy[d].existing)
    BY <1>17 DEF Activate, Track
  <2>5. KnownAs(tracked)'
    BY <1>17, <1>a, <2>2, <2>4 DEF Activate, Named, KnownAs, Exists, LatePlaces
  <2> QED
    BY <2>1, <2>2, <2>3, <2>5, NamesOthers DEF Goal
<1>18. ASSUME NEW d \in Deployers, InvalidateTarget(d) PROVE Goal
  BY <1>18, <1>n, NamesMove DEF InvalidateTarget, LatePlaces, Goal
<1>19. ASSUME NEW d \in Deployers, Stabilized(d) PROVE Goal
  BY <1>19, <1>n, NamesMove DEF Stabilized, LatePlaces, Goal
<1>20. ASSUME NEW d \in Deployers, CrashedEarly(d) PROVE Goal
  BY <1>20, <1>n, NamesMove DEF CrashedEarly, LatePlaces, Goal
<1>21. ASSUME NEW d \in Deployers, RestoreOld(d) PROVE Goal
  <2>1. /\ deploy'[d].at = "reinvalidate" /\ deploy'[d].existing = deploy[d].existing
        /\ deploy'[d].new = deploy[d].new /\ Others(d)
    BY <1>21, <1>a, GotoFields DEF RestoreOld
  <2>2. UNCHANGED docker /\ InSection(d)
    BY <1>21 DEF RestoreOld, InSection
  <2>3. Named(d)'
    BY <1>21, <1>a, <2>1, <2>2 DEF RestoreOld, Named, KnownAs, Exists, LatePlaces
  <2>4. tracked' = deploy[d].existing
    BY <1>21 DEF RestoreOld, Track
  <2>5. KnownAs(tracked)'
    BY <1>a, <2>2, <2>4 DEF Named, KnownAs, Exists
  <2> QED
    BY <2>1, <2>2, <2>3, <2>5, NamesOthers DEF Goal
<1>22. ASSUME NEW d \in Deployers, Reinvalidate(d) PROVE Goal
  BY <1>22, <1>n, NamesMove DEF Reinvalidate, LatePlaces, Goal
<1>23. ASSUME NEW d \in Deployers, DropNew(d) PROVE Goal
  <2>1. KeepsNames /\ WakesNone
    BY <1>23, <1>a, StopNames DEF DropNew
  <2> QED
    BY <1>23, <2>1, NamesReturn DEF DropNew, Return, Goal
<1>24. ASSUME NEW d \in Deployers, BothDead(d) PROVE Goal
  <2>1. KeepsNames /\ WakesNone
    BY <1>24, <1>a, StopNames DEF BothDead
  <2> QED
    BY <1>24, <2>1, NamesReturn DEF BothDead, Return, Goal
<1>25. ASSUME NEW d \in Deployers, Finish(d) PROVE Goal
  BY <1>25, <1>n, NamesReturn DEF Finish, Return, Goal
<1>26. ASSUME NEW t \in tasks, TaskStep(t) PROVE Goal
  <2>1. UNCHANGED <<tracked, deploy>>
    BY <1>26 DEF TaskStep, Drained, StopOld, RemoveOld, RenameNew
  <2>2. KeepsNames /\ WakesNone
    <3>1. CASE UNCHANGED docker
      BY <3>1, <1>n
    <3>2. CASE RenameNew(t) /\ Exists(t.new)
                /\ docker' = [docker EXCEPT ![t.new].name = "canonical"]
      <4>1. ASSUME NEW c \in Ids, c # t.new PROVE docker'[c] = docker[c]
        BY <3>2, <4>1, <1>a DEF TypeOK
      <4>2. ASSUME t.new \in Ids
            PROVE  /\ docker'[t.new].status = docker[t.new].status
                   /\ docker'[t.new].name = "canonical"
        <5>1. docker[t.new] \in Containers
          BY <3>2, <4>2, <1>a, ExistingContainer DEF TypeOK, DockerType
        <5>2. docker' = [docker EXCEPT ![t.new] = [docker[t.new] EXCEPT !.name = "canonical"]]
          BY <3>2
        <5> QED
          BY <4>2, <5>1, <5>2, <1>a DEF TypeOK, Containers
      <4> QED
        BY <3>2, <4>1, <4>2 DEF KeepsNames, WakesNone, Exists, Active
    <3>3. CASE StopOld(t) \/ RemoveOld(t)
      BY <3>3, <1>a, StopNames DEF StopOld, RemoveOld
    <3> QED
      BY <1>26, <3>1, <3>2, <3>3 DEF TaskStep, Drained, RenameNew
  <2> QED
    BY <2>1, <2>2, <1>q
<1>27. ASSUME NEW o \in Operators,
              SyncList(o) \/ SyncStore(o) \/ RestartCall(o) \/ RestartContainer(o)
       PROVE Goal
  <2>1. operator[o].at = "idle"
    BY <1>a DEF NoFreeCalls, IdleOperator
  <2> QED
    BY <1>27, <2>1 DEF SyncList, SyncStore, RestartCall, RestartContainer
<1>28. ASSUME MonitorStep PROVE Goal
  <2>1. UNCHANGED <<tracked, deploy>>
    BY <1>28 DEF MonitorStep, MonitorSnapshot, MonitorInspect, MonitorSkip,
       MonitorVerify, MonitorAct
  <2>2. CASE UNCHANGED docker
    BY <2>1, <2>2, <1>n, <1>q
  <2>3. CASE MonitorAct /\ Exists(monitor.id) /\ SetStatus(monitor.id, "running")
    <3>1. tracked # Untracked
      BY <2>3, <1>a DEF MonitorAct, Known
    <3>2. KeepsNames
      <4>1. CASE monitor.id \in Ids
        BY <2>3, <4>1, <1>a, StatusNames DEF Statuses
      <4>2. CASE monitor.id \notin Ids
        BY <2>3, <4>2, <1>a, <1>n DEF SetStatus, TypeOK
      <4> QED
        BY <4>1, <4>2
    <3> QED
      BY <2>1, <3>1, <3>2, <1>q
  <2> QED
    BY <1>28, <2>2, <2>3 DEF MonitorStep, MonitorSnapshot, MonitorInspect, MonitorSkip,
       MonitorVerify, MonitorAct
<1>29. ASSUME NEW c \in Ids,
              ContainerCrashes(c) \/ RuntimeRestarts(c) \/ StoppedExternally(c)
       PROVE Goal
  <2>1. Active(c) /\ UNCHANGED <<tracked, deploy>>
    BY <1>29 DEF ContainerCrashes, RuntimeRestarts, StoppedExternally, Up, Active
  <2>2. PICK s \in Statuses \ {"absent"} : SetStatus(c, s)
    BY <1>29 DEF ContainerCrashes, RuntimeRestarts, StoppedExternally, Statuses
  <2>3. KeepsNames /\ \A x \in Ids : x # c => docker'[x] = docker[x]
    BY <2>1, <2>2, <1>a, ActiveExists, StatusNames, StatusSet
  <2>4. WakesNone
    BY <2>1, <2>3 DEF WakesNone, Active
  <2> QED
    BY <2>1, <2>3, <2>4, <1>q
<1>30. ASSUME ProcessDies PROVE Goal
  BY <1>30 DEF ProcessDies, Named, KnownAs, IdleDeploy, LatePlaces, Goal
<1>31. ASSUME UNCHANGED vars PROVE Goal
  <2>1. UNCHANGED <<docker, tracked, deploy>>
    BY <1>31 DEF vars
  <2> QED
    BY <2>1, <1>n, <1>q
<1>32. Goal
  BY <1>1, <1>2, <1>3, <1>4, <1>5, <1>6, <1>7, <1>8, <1>9, <1>10, <1>11, <1>12,
     <1>13, <1>14, <1>15, <1>16, <1>17, <1>18, <1>19, <1>20, <1>21, <1>22, <1>23,
     <1>24, <1>25, <1>26, <1>27, <1>28, <1>29, <1>30, <1>31 DEF Next, DeployStep
<1> QED
  BY <1>32 DEF Goal

\* The name a Deploy is about to use is free, whatever interrupted the deploys before
\* it, as long as the runtime answers: it lists what it holds and removes what it is
\* told to.
THEOREM NamesStayFree ==
  Calls = {} /\ Reconcilers = {} /\ Faults \cap {"list", "remove"} = {}
      => (Spec => []NameIsFree)
<1> SUFFICES ASSUME Calls = {}, Reconcilers = {}, Faults \cap {"list", "remove"} = {}
             PROVE  Spec => []NameIsFree
  OBVIOUS
<1>0. "list" \notin Faults /\ "remove" \notin Faults
  OBVIOUS
<1>1. Init => NamesInv
  BY TypeInit, LockInit, CurrentInit, SparesInit, NamesInit DEF NamesInv, SparesInv, CurrentInv
<1>2. NamesInv /\ [Next]_vars => NamesInv'
  BY <1>0, TypeNext, LockNext, CurrentNext, SparesNext, NamesNext
     DEF NamesInv, SparesInv, CurrentInv
<1> QED
  BY <1>1, <1>2, NamesImplies, PTL DEF Spec

-----------------------------------------------------------------------------
(* The removal of a route *)

\* What is there when a removal has listed the containers is on its list until it is
\* removed: who could create another waits for the lock, and everyone else only starts
\* and stops what is there.
RemovalsList ==
    \A r \in Reconcilers : recon[r].at \in {"invalidate", "remove"} =>
        \A c \in Ids : Exists(c) => c \in recon[r].todo

NoneComes == \A c \in Ids : Exists(c)' => Exists(c)

LEMMA StatusComes ==
  ASSUME TypeOK, NEW c \in Ids, Exists(c), NEW s \in Statuses \ {"absent"}, SetStatus(c, s)
  PROVE  NoneComes
  BY StatusSet DEF NoneComes, Exists

LEMMA StopComes ==
  ASSUME TypeOK, NEW c, Stop(c) \/ Remove(c) \/ StopAndRemove(c)
  PROVE  NoneComes
  BY Stopped DEF NoneComes, Exists, Absent

LEMMA StartComes ==
  ASSUME TypeOK, NEW c, Exists(c), SetStatus(c, "running")
  PROVE  NoneComes
<1>1. CASE c \in Ids
  BY <1>1, StatusComes DEF Statuses
<1>2. CASE c \notin Ids
  BY <1>2 DEF SetStatus, TypeOK, NoneComes, Exists
<1> QED
  BY <1>1, <1>2

LEMMA RemovalsKept ==
  ASSUME RemovalsList, NoneComes, UNCHANGED recon
  PROVE  RemovalsList'
  BY DEF RemovalsList, NoneComes

LEMMA RemovalsStill ==
  ASSUME RemovalsList, UNCHANGED <<docker, recon>>
  PROVE  RemovalsList'
  BY DEF RemovalsList, Exists

\* A removal that moves without listing, or is over.
LEMMA RemovalMoves ==
  ASSUME TypeOK, RemovalsList, UNCHANGED docker, NEW r \in Reconcilers, NEW next,
         recon' = [recon EXCEPT ![r] = next],
         next.at \in {"invalidate", "remove"} =>
            recon[r].at \in {"invalidate", "remove"} /\ next.todo = recon[r].todo
  PROVE  RemovalsList'
<1>1. recon'[r] = next /\ \A q \in Reconcilers \ {r} : recon'[q] = recon[q]
  BY DEF TypeOK
<1> QED
  BY <1>1 DEF RemovalsList, Exists

LEMMA RemovalsNext ==
  ASSUME "remove" \notin Faults, TypeOK, LockedSections, RemovalsList, [Next]_vars
  PROVE  RemovalsList'
<1>1. ASSUME NEW d \in Deployers, CallDeploy(d) \/ GiveUpWaiting(d) \/ AcquireLock(d)
      PROVE RemovalsList'
  BY <1>1, RemovalsStill DEF CallDeploy, GiveUpWaiting, AcquireLock
<1>2. ASSUME NEW d \in Deployers, CreateContainer(d) PROVE RemovalsList'
  <2>1. lock = d
    BY <1>2 DEF CreateContainer, LockedSections, InSection
  <2>2. \A r \in Reconcilers : recon[r].at \in {"idle", "lock"}
    BY <2>1, DeployAssumption DEF LockedSections
  <2> QED
    BY <1>2, <2>2 DEF CreateContainer, RemovalsList
<1>3. ASSUME NEW d \in Deployers, CleanOrphan(d) PROVE RemovalsList'
  <2>1. PICK c : StopAndRemove(c)
    BY <1>3 DEF CleanOrphan
  <2> QED
    BY <1>3, <2>1, StopComes, RemovalsKept DEF CleanOrphan
<1>4. ASSUME NEW d \in Deployers, StartContainer(d) PROVE RemovalsList'
  BY <1>4, StartComes, RemovalsKept DEF StartContainer
<1>5. ASSUME NEW d \in Deployers,
             StartFails(d) \/ ReadinessFails(d) \/ DropNew(d) \/ BothDead(d)
      PROVE RemovalsList'
  BY <1>5, StopComes, RemovalsKept DEF StartFails, ReadinessFails, DropNew, BothDead
<1>6. ASSUME NEW d \in Deployers,
             \/ ResolveTracked(d) \/ ResolveFromRuntime(d) \/ Adopt(d) \/ ListOrphans(d)
             \/ PrepareFails(d) \/ SkipRedundantDeploy(d) \/ CreateFails(d)
             \/ BecomeReady(d) \/ Activate(d) \/ InvalidateTarget(d) \/ Stabilized(d)
             \/ CrashedEarly(d) \/ RestoreOld(d) \/ Reinvalidate(d) \/ Finish(d)
      PROVE RemovalsList'
  BY <1>6, RemovalsStill DEF ResolveTracked, ResolveFromRuntime, Adopt, ListOrphans,
     PrepareFails, SkipRedundantDeploy, CreateFails, BecomeReady, Activate,
     InvalidateTarget, Stabilized, CrashedEarly, RestoreOld, Reinvalidate, Finish
<1>7. ASSUME NEW t \in tasks, Drained(t) PROVE RemovalsList'
  BY <1>7, RemovalsStill DEF Drained
<1>8. ASSUME NEW t \in tasks, StopOld(t) \/ RemoveOld(t) PROVE RemovalsList'
  BY <1>8, StopComes, RemovalsKept DEF StopOld, RemoveOld
<1>9. ASSUME NEW t \in tasks, RenameNew(t) PROVE RemovalsList'
  <2>1. CASE docker' = docker
    BY <1>9, <2>1, RemovalsStill DEF RenameNew
  <2>2. CASE docker' = [docker EXCEPT ![t.new] = [docker[t.new] EXCEPT !.name = "canonical"]]
             /\ Exists(t.new) /\ t.new \in Ids
    <3>1. NoneComes
      BY <2>2 DEF NoneComes, Exists, TypeOK
    <3> QED
      BY <1>9, <3>1, RemovalsKept DEF RenameNew
  <2>3. CASE t.new \notin Ids
    <3>1. docker' = docker
      BY <1>9, <2>3 DEF RenameNew, TypeOK
    <3> QED
      BY <2>1, <3>1
  <2> QED
    BY <1>9, <2>1, <2>2, <2>3 DEF RenameNew
<1>10. ASSUME NEW r \in Reconcilers, CallReconcile(r) PROVE RemovalsList'
  BY <1>10 DEF CallReconcile, RemovalsList, Exists, TypeOK, ReconCalls
<1>11. ASSUME NEW r \in Reconcilers,
              GiveUpReconcile(r) \/ ReconcileListFails(r) \/ ReconcileDone(r)
       PROVE RemovalsList'
  BY <1>11, RemovalMoves DEF GiveUpReconcile, ReconcileListFails, ReconcileDone,
     ReconReturn, IdleRecon
<1>12. ASSUME NEW r \in Reconcilers, ReconcileLock(r) PROVE RemovalsList'
  BY <1>12 DEF ReconcileLock, RemovalsList, Exists, TypeOK, ReconCalls
<1>13. ASSUME NEW r \in Reconcilers, ReconcileClear(r) PROVE RemovalsList'
  <2>1. /\ recon'[r].todo = {c \in Ids : Exists(c)}
        /\ \A q \in Reconcilers \ {r} : recon'[q] = recon[q]
    BY <1>13 DEF ReconcileClear, TypeOK
  <2>2. UNCHANGED docker
    BY <1>13 DEF ReconcileClear
  <2> QED
    BY <2>1, <2>2 DEF RemovalsList, Exists
<1>14. ASSUME NEW r \in Reconcilers, ReconcileInvalidate(r) PROVE RemovalsList'
  <2>1. recon[r] \in ReconCalls
    BY DEF TypeOK
  <2>2. recon' = [recon EXCEPT ![r] = [recon[r] EXCEPT !.at = "remove"]]
    BY <1>14 DEF ReconcileInvalidate
  <2>3. [recon[r] EXCEPT !.at = "remove"].todo = recon[r].todo
    BY <2>1 DEF ReconCalls
  <2> QED
    BY <1>14, <2>2, <2>3, RemovalMoves DEF ReconcileInvalidate
<1>15. ASSUME NEW r \in Reconcilers, ReconcileRemove(r) PROVE RemovalsList'
  <2>1. PICK c \in recon[r].todo :
           /\ IF c \in recon[r].running THEN StopAndRemove(c) ELSE Remove(c)
           /\ recon' = [recon EXCEPT ![r].todo = @ \ {c}]
    BY <1>15 DEF ReconcileRemove
  <2>2. recon[r].at = "remove" /\ recon[r] \in ReconCalls
    BY <1>15 DEF ReconcileRemove, TypeOK
  <2>3. c \in Ids
    BY <2>2 DEF ReconCalls
  <2>4. docker' = [docker EXCEPT ![c] = Absent]
    BY <2>1 DEF StopAndRemove, Remove
  <2>5. recon' = [recon EXCEPT ![r] = [recon[r] EXCEPT !.todo = recon[r].todo \ {c}]]
    BY <2>1
  <2>6. /\ recon'[r].todo = recon[r].todo \ {c}
        /\ \A q \in Reconcilers \ {r} : recon'[q] = recon[q]
    BY <2>2, <2>5 DEF TypeOK, ReconCalls
  <2>7. \A x \in Ids : Exists(x)' => x # c /\ Exists(x)
    BY <2>3, <2>4 DEF TypeOK, Exists, Absent
  <2> QED
    BY <2>2, <2>6, <2>7 DEF RemovalsList
<1>16. ASSUME NEW o \in Operators, SyncList(o) \/ SyncStore(o) \/ RestartCall(o)
       PROVE RemovalsList'
  BY <1>16, RemovalsStill DEF SyncList, SyncStore, RestartCall
<1>17. ASSUME NEW o \in Operators, RestartContainer(o) PROVE RemovalsList'
  BY <1>17, StartComes, RemovalsKept, RemovalsStill DEF RestartContainer
<1>18. ASSUME MonitorSnapshot \/ MonitorInspect \/ MonitorSkip \/ MonitorVerify
       PROVE RemovalsList'
  BY <1>18, RemovalsStill DEF MonitorSnapshot, MonitorInspect, MonitorSkip, MonitorVerify
<1>19. ASSUME MonitorAct PROVE RemovalsList'
  BY <1>19, StartComes, RemovalsKept, RemovalsStill DEF MonitorAct
<1>20. ASSUME NEW c \in Ids,
              ContainerCrashes(c) \/ RuntimeRestarts(c) \/ StoppedExternally(c)
       PROVE RemovalsList'
  <2>1. /\ Exists(c) /\ \E s \in Statuses \ {"absent"} : SetStatus(c, s)
        /\ UNCHANGED recon
    BY <1>20 DEF ContainerCrashes, RuntimeRestarts, StoppedExternally, Up, Active, Exists,
       Statuses
  <2> QED
    BY <2>1, StatusComes, RemovalsKept
<1>21. ASSUME ProcessDies PROVE RemovalsList'
  BY <1>21 DEF ProcessDies, RemovalsList, IdleRecon
<1>22. ASSUME UNCHANGED vars PROVE RemovalsList'
  BY <1>22, RemovalsStill DEF vars
<1> QED
  BY <1>1, <1>2, <1>3, <1>4, <1>5, <1>6, <1>7, <1>8, <1>9, <1>10, <1>11, <1>12, <1>13,
     <1>14, <1>15, <1>16, <1>17, <1>18, <1>19, <1>20, <1>21, <1>22
     DEF Next, DeployStep, TaskStep, ReconcileStep, MonitorStep

\* When the removal of a route returns nothing of it runs, as long as the runtime removes
\* what it is told to: whatever deploys, clean-ups, syncs, restarts and the monitor were
\* doing with its containers meanwhile, whoever died and whenever the process did.
THEOREM RemovedRouteIsDown == "remove" \notin Faults => (Spec => RemovedIsDown)
<1> SUFFICES ASSUME "remove" \notin Faults PROVE Spec => RemovedIsDown
  OBVIOUS
<1>1. Init => RemovalsList
  BY DEF Init, RemovalsList, IdleRecon
<1>2. TypeOK /\ LockedSections /\ RemovalsList /\ [Next]_vars => RemovalsList'
  BY RemovalsNext
<1>3. RemovalsList /\ [Next]_vars =>
         [\A r \in Reconcilers : ReconcileDone(r) => \A c \in Ids : ~ Active(c)]_vars
  BY ActiveExists DEF RemovalsList, ReconcileDone
<1> QED
  BY <1>1, <1>2, <1>3, Typing, LockDiscipline, PTL DEF Spec, RemovedIsDown
=============================================================================
