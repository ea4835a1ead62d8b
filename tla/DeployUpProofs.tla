---------------------------- MODULE DeployUpProofs ----------------------------
(***************************************************************************)
(* Proofs about Deploy: zero downtime.  As long as the programs in the     *)
(* containers do not die by themselves, what the map says serves is        *)
(* running, and whatever the deploys, their failures, the monitor, the     *)
(* clean-ups and the deaths of the process do, something that serves goes  *)
(* on serving.                                                             *)
(***************************************************************************)
EXTENDS DeployProofs

-----------------------------------------------------------------------------
(* What the map says serves is running                                     *)

\* Neither the old container nor the started new one of a call goes down, so the call
\* has nothing to roll back; and while nothing is known to serve, it removes nothing
\* that runs.
UpCall(d) ==
    LET call == deploy[d] IN
    /\ call.existing # Untracked => Up(call.existing.id)
    /\ call.at \in {"ready", "activate", "invalidate", "stabilize", "finish"} => Up(call.new)
    /\ call.at \notin {"rollback", "reinvalidate", "dropnew"}
    /\ call.existing = Untracked => \A c \in call.todo : ~ Up(c)

NoneRestarting == \A c \in Ids : docker[c].status # "restarting"

UpInv ==
    /\ SparesInv
    /\ NoneRestarting
    /\ TrackedIsUp
    /\ \A d \in Deployers : UpCall(d)

\* All but c stay up, and nobody's program is taken to have died.
Spares(c) ==
    /\ \A x \in Ids : x # c /\ Up(x) => Up(x)'
    /\ \A x \in Ids : docker'[x].status = "restarting" => docker[x].status = "restarting"

LEMMA SparesNone ==
  ASSUME TypeOK, UNCHANGED docker
  PROVE  Spares(0) /\ \A x \in Ids : Up(x)' => Up(x)
  BY DEF Spares, Up

LEMMA RunningSpares ==
  ASSUME TypeOK, NEW c \in Ids, Exists(c), SetStatus(c, "running")
  PROVE  Spares(0) /\ Up(c)'
  BY StatusSet DEF Spares, Up, Statuses

LEMMA StopSpares ==
  ASSUME TypeOK, NEW c, Stop(c) \/ Remove(c) \/ StopAndRemove(c)
  PROVE  Spares(c) /\ \A x \in Ids : Up(x)' => Up(x)
<1> SUFFICES ASSUME NEW x \in Ids
             PROVE  /\ x # c /\ Up(x) => Up(x)'
                    /\ docker'[x].status = "restarting" => docker[x].status = "restarting"
                    /\ Up(x)' => Up(x)
  BY DEF Spares
<1>1. CASE docker'[x] = docker[x]
  BY <1>1 DEF Up
<1>2. CASE x = c /\ docker'[x] = Absent
  BY <1>2 DEF Up, Absent
<1>3. CASE x = c /\ docker'[x].status = "stopped"
  BY <1>3 DEF Up
<1> QED
  BY <1>1, <1>2, <1>3, Stopped

\* While one call is in its section the others work with nothing that could go down.
LEMMA UpOthers ==
  ASSUME UpInv, NEW d \in Deployers, InSection(d), Others(d)
  PROVE  \A e \in Deployers : e # d => UpCall(e)'
<1> SUFFICES ASSUME NEW e \in Deployers, e # d PROVE UpCall(e)'
  OBVIOUS
<1>1. deploy'[e] = deploy[e] /\ deploy[e].at \in {"idle", "lock"}
  BY Alone DEF Others, UpInv, SparesInv, CurrentInv
<1>2. deploy[e].existing = Untracked /\ deploy[e].todo = {}
  BY <1>1 DEF UpInv, SparesInv, CurrentInv, Current, Spare
<1> QED
  BY <1>1, <1>2 DEF UpCall

\* A step that takes down nothing a waiting or working call relies on.
LEMMA UpKept ==
  ASSUME UpInv, NEW e \in Deployers, deploy'[e] = deploy[e], NEW c, Spares(c),
         c # deploy[e].existing.id, c # deploy[e].new \/ deploy[e].at \notin LatePlaces,
         tracked # Untracked \/ \A x \in Ids : Up(x)' => Up(x)
  PROVE  UpCall(e)'
<1> DEFINE call == deploy[e]
<1>1. TypeOK /\ UpCall(e) /\ Current(e) /\ Spare(e)
  BY DEF UpInv, SparesInv, CurrentInv
<1>2. call.existing \in Records /\ call.todo \subseteq Ids
  BY <1>1, CallShape DEF AnyCalls
<1>3. call.at \in LatePlaces => call.new \in Ids
  BY <1>1, EarlyNew
<1>4. call.existing # Untracked => Up(call.existing.id)'
  BY <1>1, <1>2, RecordIds DEF UpCall, Spares
<1>5. call.at \in {"ready", "activate", "invalidate", "stabilize", "finish"} => Up(call.new)'
  BY <1>1, <1>3 DEF UpCall, Spares, LatePlaces
<1>6. call.existing = Untracked => \A x \in call.todo : ~ Up(x)'
  <2>1. CASE \A x \in Ids : Up(x)' => Up(x)
    BY <1>1, <1>2, <2>1 DEF UpCall
  <2>2. CASE tracked # Untracked
    BY <1>1, <2>2 DEF Spare, Current
  <2> QED
    BY <2>1, <2>2
<1> QED
  BY <1>1, <1>4, <1>5, <1>6 DEF UpCall, Up

Running == TrackedIsUp /\ NoneRestarting

LEMMA RunningKept ==
  ASSUME UpInv, NEW c, Spares(c), c # tracked.id, tracked' = tracked
  PROVE  Running'
<1>1. tracked \in Records
  BY DEF UpInv, SparesInv, CurrentInv, TypeOK
<1>2. TrackedIsUp'
  BY <1>1, RecordIds DEF UpInv, TrackedIsUp, Spares
<1>3. NoneRestarting'
  BY DEF UpInv, NoneRestarting, Spares
<1> QED
  BY <1>2, <1>3 DEF Running

\* A step of a call that leaves the runtime and the map alone.
LEMMA UpStill ==
  ASSUME UpInv, NEW d \in Deployers, Others(d), UpCall(d)', UNCHANGED <<docker, tracked>>
  PROVE  Running' /\ \A e \in Deployers : UpCall(e)'
<1>1. Running'
  BY DEF UpInv, Running, TrackedIsUp, NoneRestarting, Up
<1>2. ASSUME NEW e \in Deployers, e # d PROVE UpCall(e)'
  <2>1. deploy'[e] = deploy[e] /\ UpCall(e)
    BY <1>2 DEF UpInv, Others
  <2> QED
    BY <2>1 DEF UpCall, Up
<1> QED
  BY <1>1, <1>2

LEMMA UpReturn ==
  ASSUME UpInv, NEW d \in Deployers, deploy' = [deploy EXCEPT ![d] = IdleDeploy],
         UNCHANGED <<docker, tracked>>
  PROVE  Running' /\ \A e \in Deployers : UpCall(e)'
<1>1. /\ deploy'[d].at = "idle" /\ deploy'[d].existing = Untracked
      /\ deploy'[d].todo = {} /\ Others(d)
  BY ReturnFields DEF UpInv, SparesInv, CurrentInv
<1>2. UpCall(d)'
  BY <1>1 DEF UpCall
<1> QED
  BY <1>1, <1>2, UpStill

LEMMA UpMove ==
  ASSUME UpInv, NEW d \in Deployers, NEW place, Goto(d, place),
         place \notin {"rollback", "reinvalidate", "dropnew"},
         place \in {"ready", "activate", "invalidate", "stabilize", "finish"}
            => Up(deploy[d].new),
         UNCHANGED <<docker, tracked>>
  PROVE  Running' /\ \A e \in Deployers : UpCall(e)'
<1>0. TypeOK /\ UpCall(d)
  BY DEF UpInv, SparesInv, CurrentInv
<1>1. /\ deploy'[d].at = place /\ deploy'[d].existing = deploy[d].existing
      /\ deploy'[d].new = deploy[d].new /\ deploy'[d].todo = deploy[d].todo /\ Others(d)
  BY <1>0, GotoFields
<1>2. UpCall(d)'
  BY <1>0, <1>1 DEF UpCall, Up
<1> QED
  BY <1>1, <1>2, UpStill

LEMMA UpInit == Init => Running /\ \A d \in Deployers : UpCall(d)
BY DEF Init, Running, NoneRestarting, TrackedIsUp, UpCall, IdleDeploy, Absent

\* What does not happen here: nobody's program dies, nothing is inspected wrongly.
ProgramsLive == Faults \cap {"crash", "flaky", "external", "inspect"} = {}

LEMMA UpNext ==
  ASSUME Calls = {}, Reconcilers = {}, ProgramsLive, UpInv, [Next]_vars
  PROVE  Running' /\ \A d \in Deployers : UpCall(d)'
<1> DEFINE Goal == Running' /\ \A d \in Deployers : UpCall(d)'
<1>a. /\ TypeOK /\ NoFreeCalls /\ Known /\ (\A d \in Deployers : Current(d))
      /\ (\A d \in Deployers : Spare(d)) /\ (\A t \in tasks : SpareTask(t))
      /\ (\A d \in Deployers : UpCall(d)) /\ NoneRestarting /\ TrackedIsUp
  BY DEF UpInv, SparesInv, CurrentInv
<1>t. TypeOK
  BY <1>a
<1>c. born \in Nat /\ tracked \in Records /\ \A d \in Deployers : deploy[d].existing \in Records
  BY <1>a, CallShape, DeployAssumption DEF TypeOK, AnyCalls
<1>f. "crash" \notin Faults /\ "flaky" \notin Faults /\ "external" \notin Faults
      /\ "inspect" \notin Faults
  BY DEF ProgramsLive
<1>e. (\A d \in Deployers : UpCall(d)') /\ Running' => Goal
  OBVIOUS
<1> HIDE DEF Goal
<1>1. ASSUME NEW d \in Deployers, CallDeploy(d) PROVE Goal
  <2>1. /\ deploy'[d].at = "lock" /\ deploy'[d].existing = Untracked
        /\ deploy'[d].todo = {} /\ Others(d)
    BY <1>1, <1>a, CallDeployFields
  <2>2. UpCall(d)'
    BY <2>1 DEF UpCall
  <2> QED
    BY <1>1, <2>1, <2>2, UpStill DEF CallDeploy, Goal
<1>2. ASSUME NEW d \in Deployers, GiveUpWaiting(d) PROVE Goal
  BY <1>2, UpReturn DEF GiveUpWaiting, Return, Goal
<1>3. ASSUME NEW d \in Deployers, AcquireLock(d) PROVE Goal
  <2>1. deploy[d].at \in {"ready", "invalidate", "stabilize"} => Up(deploy[d].new)
    BY <1>a DEF UpCall
  <2> QED
    BY <1>3, <2>1, UpMove DEF AcquireLock, Goal
<1>4. ASSUME NEW d \in Deployers, ResolveTracked(d) PROVE Goal
  <2>1. deploy' = [deploy EXCEPT ![d] =
                      [deploy[d] EXCEPT !.at = "orphans", !.existing = tracked]]
    BY <1>4 DEF ResolveTracked
  <2>2. deploy'[d] = [deploy[d] EXCEPT !.at = "orphans", !.existing = tracked] /\ Others(d)
    BY <2>1, <1>t, CallBecomes
  <2>3. deploy'[d].at = "orphans" /\ deploy'[d].existing = tracked
    BY <2>2, <1>t, CallShape DEF AnyCalls
  <2>4. UpCall(d)'
    BY <1>4, <1>a, <2>3 DEF ResolveTracked, UpCall, TrackedIsUp, Up
  <2> QED
    BY <1>4, <2>2, <2>4, UpStill DEF ResolveTracked, Goal
<1>5. ASSUME NEW d \in Deployers, ResolveFromRuntime(d) PROVE Goal
  <2>1. CASE Goto(d, "orphans")
    BY <1>5, <2>1, UpMove DEF ResolveFromRuntime, Goal
  <2>2. ASSUME NEW c \in Ids, Preferred(c),
               deploy' = [deploy EXCEPT ![d].at = "adopt", ![d].existing = Seen(c)]
        PROVE  Goal
    <3> DEFINE seen == Seen(c)
    <3>1. seen.id = c /\ seen # Untracked /\ Up(c)
      BY <1>a, <2>2, RecordIds DEF Seen, Untracked, Preferred, Active, Up, NoneRestarting
    <3>2. deploy' = [deploy EXCEPT ![d] =
                        [deploy[d] EXCEPT !.at = "adopt", !.existing = seen]]
      BY <2>2
    <3> HIDE DEF seen
    <3>3. deploy'[d] = [deploy[d] EXCEPT !.at = "adopt", !.existing = seen] /\ Others(d)
      BY <3>2, <1>t, CallBecomes
    <3>4. deploy'[d].at = "adopt" /\ deploy'[d].existing = seen
      BY <3>3, <1>t, CallShape DEF AnyCalls
    <3>5. UpCall(d)'
      BY <1>5, <3>1, <3>4 DEF ResolveFromRuntime, UpCall, Up
    <3> QED
      BY <1>5, <3>3, <3>5, UpStill DEF ResolveFromRuntime, Goal
  <2> QED
    BY <1>5, <2>1, <2>2 DEF ResolveFromRuntime
<1>6. ASSUME NEW d \in Deployers, Adopt(d) PROVE Goal
  <2>1. /\ deploy'[d].at = "orphans" /\ deploy'[d].existing = deploy[d].existing
        /\ deploy'[d].new = deploy[d].new /\ deploy'[d].todo = {} /\ Others(d)
    BY <1>6, <1>a, GotoFields DEF Adopt, Spare
  <2>2. UNCHANGED docker /\ InSection(d)
    BY <1>6 DEF Adopt, InSection
  <2>3. UpCall(d)'
    BY <1>6, <1>a, <2>1, <2>2 DEF Adopt, UpCall, Up
  <2>4. tracked' # Untracked => Up(tracked'.id)
    BY <1>6, <1>a DEF Adopt, Track, UpCall
  <2>5. Running'
    BY <1>a, <2>2, <2>4 DEF Running, TrackedIsUp, NoneRestarting, Up
  <2> QED
    BY <2>1, <2>2, <2>3, <2>5, UpOthers, <1>e
<1>7. ASSUME NEW d \in Deployers, ListOrphans(d) PROVE Goal
  <2>1. /\ deploy'[d].at = "clean" /\ deploy'[d].existing = deploy[d].existing /\ Others(d)
        /\ \/ deploy'[d].todo = {c \in Ids : Orphan(c, deploy[d].existing.id)}
           \/ deploy'[d].todo = deploy[d].todo
    BY <1>7, <1>a, ListFields
  <2>2. deploy[d].todo = {}
    BY <1>7, <1>a DEF ListOrphans, Spare
  <2>3. deploy[d].existing = Untracked => \A c \in deploy'[d].todo : ~ Up(c)
    BY <2>1, <2>2 DEF Orphan, Active, Up, Untracked
  <2>4. UNCHANGED <<docker, tracked>>
    BY <1>7 DEF ListOrphans
  <2>5. UpCall(d)'
    BY <1>a, <2>1, <2>3, <2>4 DEF UpCall, Up
  <2> QED
    BY <2>1, <2>4, <2>5, UpStill DEF Goal
<1>8. ASSUME NEW d \in Deployers, CleanOrphan(d) PROVE Goal
  <2>1. PICK c \in deploy[d].todo :
          StopAndRemove(c) /\ deploy' = [deploy EXCEPT ![d].todo = @ \ {c}]
    BY <1>8 DEF CleanOrphan
  <2>2. /\ deploy'[d].at = "clean" /\ deploy'[d].existing = deploy[d].existing
        /\ deploy'[d].todo = deploy[d].todo \ {c} /\ Others(d)
    BY <1>8, <2>1, <1>a, CleanFields DEF CleanOrphan
  <2>3. Spares(c) /\ \A x \in Ids : Up(x)' => Up(x)
    BY <2>1, <1>a, StopSpares
  <2>4. c # deploy[d].existing.id /\ c # tracked.id
    BY <1>8, <2>1, <1>a DEF CleanOrphan, Spare, Current
  <2>5. Running'
    BY <1>8, <2>3, <2>4, RunningKept DEF CleanOrphan
  <2>6. UpCall(d)'
    <3>1. deploy[d].existing # Untracked => Up(deploy[d].existing.id)'
      BY <1>a, <1>c, <2>2, <2>3, <2>4, RecordIds DEF UpCall, Spares, Up
    <3>2. deploy[d].existing = Untracked => \A x \in deploy'[d].todo : ~ Up(x)'
      BY <1>a, <2>2, <2>3, CallShape DEF UpCall, AnyCalls
    <3> QED
      BY <2>2, <3>1, <3>2 DEF UpCall, Up
  <2>7. InSection(d)
    BY <1>8 DEF CleanOrphan, InSection
  <2> QED
    BY <2>2, <2>5, <2>6, <2>7, UpOthers, <1>e
<1>9. ASSUME NEW d \in Deployers, PrepareFails(d) PROVE Goal
  BY <1>9, UpReturn DEF PrepareFails, Return, Goal
<1>10. ASSUME NEW d \in Deployers, SkipRedundantDeploy(d) PROVE Goal
  BY <1>10, UpReturn DEF SkipRedundantDeploy, Return, Goal
<1>11. ASSUME NEW d \in Deployers, CreateContainer(d) PROVE Goal
  <2>1. /\ deploy'[d].at = "start" /\ deploy'[d].existing = deploy[d].existing
        /\ deploy'[d].new = born + 1 /\ deploy'[d].todo = {} /\ Others(d)
    BY <1>11, <1>a, CreateFields
  <2>2. \A c \in Ids : c # born + 1 => docker'[c] = docker[c]
    BY <1>11, <1>a DEF CreateContainer, TypeOK
  <2>3. docker'[born + 1].status = "created" /\ born + 1 # tracked.id
        /\ born + 1 # deploy[d].existing.id
    <3>1. born + 1 \in Ids
      BY <1>11, <1>c, DeployAssumption DEF CreateContainer, Ids
    <3>2. docker' = [docker EXCEPT ![born + 1] =
                       [status |-> "created", name |-> NewName(deploy[d].existing),
                        image |-> deploy[d].image]]
      BY <1>11 DEF CreateContainer
    <3>3. tracked.id \in Int /\ deploy[d].existing.id \in Int
      BY <1>c, RecordIds DEF Ids
    <3> QED
      BY <3>1, <3>2, <3>3, <1>a, <1>c DEF TypeOK, Known, Spare
  <2>4. Spares(born + 1)
    BY <2>2, <2>3 DEF Spares, Up
  <2>5. Running'
    BY <1>11, <2>3, <2>4, RunningKept DEF CreateContainer
  <2>6. UpCall(d)'
    <3>1. deploy[d].existing # Untracked => Up(deploy[d].existing.id)'
      BY <1>a, <1>c, <2>1, <2>3, <2>4, RecordIds DEF UpCall, Spares, Up
    <3> QED
      BY <2>1, <3>1 DEF UpCall, Up
  <2>7. InSection(d)
    BY <1>11 DEF CreateContainer, InSection
  <2> QED
    BY <2>1, <2>5, <2>6, <2>7, UpOthers, <1>e
<1>12. ASSUME NEW d \in Deployers, CreateFails(d) PROVE Goal
  BY <1>12, UpReturn DEF CreateFails, Return, Goal
<1>13. ASSUME NEW d \in Deployers, StartContainer(d) PROVE Goal
  <2>1. deploy[d].new \in Ids
    BY <1>13, <1>a, EarlyNew DEF StartContainer, LatePlaces
  <2>2. Spares(0) /\ Up(deploy[d].new)'
    <3>1. Spares(0) /\ docker'[deploy[d].new].status = "running"
      BY <1>13, <1>a, <2>1, RunningSpares, StatusSet DEF StartContainer, Statuses
    <3>2. deploy'[d].new = deploy[d].new
      BY <1>13, <1>a, GotoFields DEF StartContainer
    <3> QED
      BY <3>1, <3>2 DEF Up
  <2>3. /\ deploy'[d].at = "ready" /\ deploy'[d].existing = deploy[d].existing
        /\ deploy'[d].new = deploy[d].new /\ deploy'[d].todo = {} /\ Others(d)
    BY <1>13, <1>a, GotoFields DEF StartContainer, Spare
  <2>4. Running'
    <3>1. tracked.id # 0 \/ tracked = Untracked
      BY <1>c, RecordIds
    <3>2. TrackedIsUp'
      BY <1>13, <1>a, <1>c, <2>2, <3>1, RecordIds DEF StartContainer, TrackedIsUp, Spares
    <3>3. NoneRestarting'
      BY <1>a, <2>2 DEF NoneRestarting, Spares
    <3> QED
      BY <3>2, <3>3 DEF Running
  <2>5. UpCall(d)'
    <3>1. deploy[d].existing # Untracked => Up(deploy[d].existing.id)'
      BY <1>a, <1>c, <2>2, <2>3, RecordIds DEF UpCall, Spares, Up
    <3> QED
      BY <2>2, <2>3, <3>1 DEF UpCall, Up
  <2>6. InSection(d)
    BY <1>13 DEF StartContainer, InSection
  <2> QED
    BY <2>3, <2>4, <2>5, <2>6, UpOthers, <1>e
<1>14. ASSUME NEW d \in Deployers, StartFails(d) PROVE Goal
  <2>1. /\ deploy'[d].at = "idle" /\ deploy'[d].existing = Untracked
        /\ deploy'[d].todo = {} /\ Others(d)
    BY <1>14, <1>a, ReturnFields DEF StartFails, Return
  <2>2. Spares(deploy[d].new)
    BY <1>14, <1>a, StopSpares DEF StartFails
  <2>3. deploy[d].new # tracked.id
    BY <1>14, <1>a DEF StartFails, Current, Spare, LatePlaces
  <2>4. Running'
    BY <1>14, <2>2, <2>3, RunningKept DEF StartFails
  <2>5. InSection(d)
    BY <1>14 DEF StartFails, InSection
  <2>6. UpCall(d)'
    BY <2>1 DEF UpCall
  <2> QED
    BY <2>1, <2>4, <2>5, <2>6, UpOthers, <1>e
<1>15. ASSUME NEW d \in Deployers, BecomeReady(d) PROVE Goal
  <2>1. deploy[d].at \in {"ready", "invalidate", "stabilize"} => Up(deploy[d].new)
    BY <1>a DEF UpCall
  <2> QED
    BY <1>15, <2>1, UpMove DEF BecomeReady, Goal
<1>16. ASSUME NEW d \in Deployers, ReadinessFails(d) PROVE Goal
  <2>1. /\ deploy'[d].at = "idle" /\ deploy'[d].existing = Untracked
        /\ deploy'[d].todo = {} /\ Others(d)
    BY <1>16, <1>a, ReturnFields DEF ReadinessFails, Return
  <2>2. Spares(deploy[d].new)
    BY <1>16, <1>a, StopSpares DEF ReadinessFails
  <2>3. deploy[d].new # tracked.id
    BY <1>16, <1>a DEF ReadinessFails, Current, Spare, LatePlaces
  <2>4. Running'
    BY <1>16, <2>2, <2>3, RunningKept DEF ReadinessFails
  <2>5. InSection(d)
    BY <1>16 DEF ReadinessFails, InSection
  <2>6. UpCall(d)'
    BY <2>1 DEF UpCall
  <2> QED
    BY <2>1, <2>4, <2>5, <2>6, UpOthers, <1>e
<1>17. ASSUME NEW d \in Deployers, Activate(d) PROVE Goal
  <2>1. /\ deploy'[d].at = "invalidate" /\ deploy'[d].existing = deploy[d].existing
        /\ deploy'[d].new = deploy[d].new /\ deploy'[d].todo = {} /\ Others(d)
    BY <1>17, <1>a, GotoFields DEF Activate, Spare
  <2>2. UNCHANGED docker /\ InSection(d)
    BY <1>17 DEF Activate, InSection
  <2>3. UpCall(d)'
    BY <1>17, <1>a, <2>1, <2>2 DEF Activate, UpCall, Up
  <2>4. tracked' # Untracked => Up(tracked'.id)
    BY <1>17, <1>a DEF Activate, Track, UpCall
  <2>5. Running'
    BY <1>a, <2>2, <2>4 DEF Running, TrackedIsUp, NoneRestarting, Up
  <2> QED
    BY <2>1, <2>2, <2>3, <2>5, UpOthers, <1>e
<1>18. ASSUME NEW d \in Deployers, InvalidateTarget(d) PROVE Goal
  <2>1. deploy[d].at \in {"ready", "invalidate", "stabilize"} => Up(deploy[d].new)
    BY <1>a DEF UpCall
  <2> QED
    BY <1>18, <2>1, UpMove DEF InvalidateTarget, Goal
<1>19. ASSUME NEW d \in Deployers, Stabilized(d) PROVE Goal
  <2>1. deploy[d].at \in {"ready", "invalidate", "stabilize"} => Up(deploy[d].new)
    BY <1>a DEF UpCall
  <2> QED
    BY <1>19, <2>1, UpMove DEF Stabilized, Goal
<1>20. ASSUME NEW d \in Deployers, CrashedEarly(d) PROVE Goal
  BY <1>20, <1>a, <1>f DEF CrashedEarly, UpCall
<1>21. ASSUME NEW d \in Deployers, RestoreOld(d) PROVE Goal
  BY <1>21, <1>a DEF RestoreOld, UpCall
<1>22. ASSUME NEW d \in Deployers, Reinvalidate(d) PROVE Goal
  BY <1>22, <1>a DEF Reinvalidate, UpCall
<1>23. ASSUME NEW d \in Deployers, DropNew(d) PROVE Goal
  BY <1>23, <1>a DEF DropNew, UpCall
<1>24. ASSUME NEW d \in Deployers, BothDead(d) PROVE Goal
  BY <1>24, <1>a DEF BothDead, UpCall
<1>25. ASSUME NEW d \in Deployers, Finish(d) PROVE Goal
  BY <1>25, UpReturn DEF Finish, Return, Goal
<1>26. ASSUME NEW t \in tasks, TaskStep(t) PROVE Goal
  <2>1. UNCHANGED <<tracked, deploy>> /\ tracked # Untracked
    BY <1>26, <1>a DEF TaskStep, Drained, StopOld, RemoveOld, RenameNew, Known
  <2>2. Spares(t.old)
    <3>1. CASE RenameNew(t)
      <4>1. ASSUME NEW c \in Ids PROVE docker'[c].status = docker[c].status
        <5>1. CASE UNCHANGED docker
          BY <5>1
        <5>2. CASE Exists(t.new) /\ docker' = [docker EXCEPT ![t.new].name = "canonical"]
          <6>1. CASE c = t.new
            <7>1. docker[c] \in Containers
              BY <5>2, <6>1, <1>a, ExistingContainer DEF TypeOK, DockerType
            <7>2. docker' = [docker EXCEPT ![c] = [docker[c] EXCEPT !.name = "canonical"]]
              BY <5>2, <6>1
            <7> QED
              BY <7>1, <7>2, <1>a DEF TypeOK, Containers
          <6>2. CASE c # t.new
            BY <5>2, <6>2, <1>a DEF TypeOK
          <6> QED
            BY <6>1, <6>2
        <5> QED
          BY <3>1, <5>1, <5>2 DEF RenameNew
      <4> QED
        BY <4>1 DEF Spares, Up
    <3>2. CASE Drained(t)
      BY <3>2 DEF Drained, Spares, Up
    <3>3. CASE StopOld(t) \/ RemoveOld(t)
      BY <3>3, <1>a, StopSpares DEF StopOld, RemoveOld
    <3> QED
      BY <1>26, <3>1, <3>2, <3>3 DEF TaskStep
  <2>3. Running'
    BY <1>a, <2>1, <2>2, RunningKept DEF SpareTask
  <2>4. ASSUME NEW e \in Deployers PROVE UpCall(e)'
    BY <1>a, <2>1, <2>2, <2>4, UpKept DEF Spare
  <2> QED
    BY <2>3, <2>4, <1>e
<1>27. ASSUME NEW o \in Operators,
              SyncList(o) \/ SyncStore(o) \/ RestartCall(o) \/ RestartContainer(o)
       PROVE Goal
  <2>1. operator[o].at = "idle"
    BY <1>a DEF NoFreeCalls, IdleOperator
  <2> QED
    BY <1>27, <2>1 DEF SyncList, SyncStore, RestartCall, RestartContainer
<1>28. ASSUME UNCHANGED <<docker, tracked, deploy>> PROVE Goal
  BY <1>28, <1>a DEF Running, TrackedIsUp, NoneRestarting, UpCall, Up, Goal
<1>29. ASSUME MonitorStep PROVE Goal
  <2>1. UNCHANGED <<tracked, deploy>>
    BY <1>29 DEF MonitorStep, MonitorSnapshot, MonitorInspect, MonitorSkip,
       MonitorVerify, MonitorAct
  <2>2. CASE UNCHANGED docker
    BY <2>1, <2>2, <1>28
  <2>3. CASE MonitorAct /\ Exists(monitor.id) /\ SetStatus(monitor.id, "running")
    <3>1. tracked # Untracked
      BY <2>3, <1>a DEF MonitorAct, Known
    <3>2. \A x \in Ids : /\ Up(x) => Up(x)'
                         /\ docker'[x].status = "restarting" => docker[x].status = "restarting"
      <4>1. CASE monitor.id \in Ids
        BY <2>3, <4>1, <1>a, StatusSet DEF Up, Statuses
      <4>2. CASE monitor.id \notin Ids
        BY <2>3, <4>2, <1>a DEF SetStatus, TypeOK, Up
      <4> QED
        BY <4>1, <4>2
    <3>3. Spares(-1)
      BY <3>2 DEF Spares
    <3>4. \A record \in Records : record.id # -1
      BY RecordIds
    <3>5. Running'
      BY <1>c, <2>1, <3>3, <3>4, RunningKept
    <3>6. ASSUME NEW e \in Deployers PROVE UpCall(e)'
      <4>1. deploy'[e] = deploy[e] /\ -1 # deploy[e].existing.id
        BY <1>c, <2>1, <3>4
      <4>2. -1 # deploy[e].new \/ deploy[e].at \notin LatePlaces
        BY <1>a, EarlyNew, RecordIds
      <4> QED
        BY <3>1, <3>3, <4>1, <4>2, UpKept
    <3> QED
      BY <3>5, <3>6, <1>e
  <2> QED
    BY <1>29, <2>2, <2>3 DEF MonitorStep, MonitorSnapshot, MonitorInspect, MonitorSkip,
       MonitorVerify, MonitorAct
<1>30. ASSUME NEW c \in Ids,
              ContainerCrashes(c) \/ RuntimeRestarts(c) \/ StoppedExternally(c)
       PROVE Goal
  BY <1>30, <1>a, <1>f DEF ContainerCrashes, RuntimeRestarts, StoppedExternally,
     NoneRestarting
<1>31. ASSUME ProcessDies PROVE Goal
  BY <1>31, <1>a DEF ProcessDies, Running, TrackedIsUp, NoneRestarting, UpCall, IdleDeploy,
     Goal
<1>32. ASSUME UNCHANGED vars PROVE Goal
  <2>1. UNCHANGED <<docker, tracked, deploy>>
    BY <1>32 DEF vars
  <2> QED
    BY <2>1, <1>28
<1>33. Goal
  BY <1>1, <1>2, <1>3, <1>4, <1>5, <1>6, <1>7, <1>8, <1>9, <1>10, <1>11, <1>12,
     <1>13, <1>14, <1>15, <1>16, <1>17, <1>18, <1>19, <1>20, <1>21, <1>22, <1>23,
     <1>24, <1>25, <1>26, <1>27, <1>29, <1>30, <1>31, <1>32 DEF Next, DeployStep
<1> QED
  BY <1>33 DEF Goal

LEMMA UpInvariant ==
  ASSUME Calls = {}, Reconcilers = {}, ProgramsLive
  PROVE  Spec => []UpInv
<1>1. Init => UpInv
  BY TypeInit, LockInit, CurrentInit, SparesInit, UpInit
     DEF UpInv, SparesInv, CurrentInv, Running
<1>2. UpInv /\ [Next]_vars => UpInv'
  BY TypeNext, LockNext, CurrentNext, SparesNext, UpNext
     DEF UpInv, SparesInv, CurrentInv, Running
<1> QED
  BY <1>1, <1>2, PTL DEF Spec

\* What the map says serves is running at every moment of every deploy and of the
\* clean-up behind it, unless a program dies in its container, the runtime does not
\* answer an inspection, or somebody changes the map or the runtime behind the lock.
THEOREM TrackedStaysUp ==
  Calls = {} /\ Reconcilers = {} /\ ProgramsLive => (Spec => []TrackedIsUp)
<1> SUFFICES ASSUME Calls = {}, Reconcilers = {}, ProgramsLive
             PROVE  Spec => []TrackedIsUp
  OBVIOUS
<1>1. UpInv => TrackedIsUp
  BY DEF UpInv
<1> QED
  BY <1>1, UpInvariant, PTL
-----------------------------------------------------------------------------
(* Something that serves goes on serving                                   *)

\* The container the map names is up and is nobody's candidate.
LEMMA TrackedServes == UpInv /\ tracked # Untracked => Serving
<1> SUFFICES ASSUME UpInv, tracked # Untracked PROVE Serving
  OBVIOUS
<1>1. tracked.id \in Ids /\ Up(tracked.id)
  BY RecordIds DEF UpInv, TrackedIsUp, SparesInv, CurrentInv, TypeOK
<1>2. ASSUME NEW d \in Deployers, deploy[d].at \in {"start", "ready", "activate"}
      PROVE  deploy[d].new # tracked.id
  BY <1>2 DEF UpInv, SparesInv, CurrentInv, Current, Spare, LatePlaces
<1> QED
  BY <1>1, <1>2 DEF Serving, Candidate

LEMMA TrackedServesNext == (UpInv /\ tracked # Untracked => Serving)'
BY TrackedServes, PTL

\* While nothing is tracked, what is up and no candidate stays so: clean-ups are after
\* containers that do not run, a failed deploy removes its own candidate.
LEMMA ServerStays ==
  ASSUME Calls = {}, Reconcilers = {}, ProgramsLive, UpInv, Next,
         tracked = Untracked, tracked' = Untracked,
         NEW c \in Ids, Up(c), ~ Candidate(c)
  PROVE  Up(c)' /\ ~ \E d \in Deployers :
                        deploy'[d].new = c /\ deploy'[d].at \in {"start", "ready", "activate"}
<1> DEFINE Goal == Up(c)' /\ ~ \E d \in Deployers :
                        deploy'[d].new = c /\ deploy'[d].at \in {"start", "ready", "activate"}
<1>a. /\ TypeOK /\ NoFreeCalls /\ Known /\ (\A d \in Deployers : Current(d))
      /\ (\A d \in Deployers : Spare(d)) /\ (\A d \in Deployers : UpCall(d))
      /\ NoneRestarting
  BY DEF UpInv, SparesInv, CurrentInv
<1>f. "crash" \notin Faults /\ "flaky" \notin Faults /\ "external" \notin Faults
      /\ "inspect" \notin Faults
  BY DEF ProgramsLive
<1>n. \A d \in Deployers : deploy[d].at \in {"start", "ready", "activate"} => deploy[d].new # c
  BY DEF Candidate
<1>u. ASSUME UNCHANGED docker PROVE Up(c)'
  BY <1>u DEF Up
\* A step of one call that does not make c its candidate.
<1>s. ASSUME NEW d \in Deployers, Others(d), Up(c)',
             deploy'[d].at \in {"start", "ready", "activate"} => deploy'[d].new # c
      PROVE  Goal
  BY <1>n, <1>s DEF Others
<1> HIDE DEF Goal
<1>1. ASSUME NEW d \in Deployers, CallDeploy(d) PROVE Goal
  <2>1. deploy'[d].at = "lock" /\ Others(d)
    BY <1>1, <1>a, CallDeployFields
  <2> QED
    BY <1>1, <2>1, <1>s, <1>u DEF CallDeploy
<1>2. ASSUME NEW d \in Deployers, GiveUpWaiting(d) PROVE Goal
  <2>1. deploy'[d].at = "idle" /\ Others(d)
    BY <1>2, <1>a, ReturnFields DEF GiveUpWaiting, Return
  <2> QED
    BY <1>2, <2>1, <1>s, <1>u DEF GiveUpWaiting
<1>3. ASSUME NEW d \in Deployers, AcquireLock(d) PROVE Goal
  <2>1. deploy'[d].at \in {"resolve", "finish", "stabilize"} /\ Others(d)
    BY <1>3, <1>a, GotoFields DEF AcquireLock
  <2> QED
    BY <1>3, <2>1, <1>s, <1>u DEF AcquireLock
<1>4. ASSUME NEW d \in Deployers, ResolveTracked(d) PROVE Goal
  BY <1>4 DEF ResolveTracked
<1>5. ASSUME NEW d \in Deployers, ResolveFromRuntime(d) PROVE Goal
  <2>1. CASE Goto(d, "orphans")
    <3>1. deploy'[d].at = "orphans" /\ Others(d)
      BY <1>a, <2>1, GotoFields
    <3> QED
      BY <1>5, <3>1, <1>s, <1>u DEF ResolveFromRuntime
  <2>2. ASSUME NEW x \in Ids,
               deploy' = [deploy EXCEPT ![d].at = "adopt", ![d].existing = Seen(x)]
        PROVE  Goal
    <3> DEFINE seen == Seen(x)
    <3>1. deploy' = [deploy EXCEPT ![d] =
                        [deploy[d] EXCEPT !.at = "adopt", !.existing = seen]]
      BY <2>2
    <3> HIDE DEF seen
    <3>2. deploy'[d] = [deploy[d] EXCEPT !.at = "adopt", !.existing = seen] /\ Others(d)
      BY <3>1, <1>a, CallBecomes
    <3>3. deploy'[d].at = "adopt"
      BY <3>2, <1>a, CallShape DEF AnyCalls
    <3> QED
      BY <1>5, <3>2, <3>3, <1>s, <1>u DEF ResolveFromRuntime
  <2> QED
    BY <1>5, <2>1, <2>2 DEF ResolveFromRuntime
<1>6. ASSUME NEW d \in Deployers, Adopt(d) PROVE Goal
  <2>1. deploy'[d].at = "orphans" /\ Others(d)
    BY <1>6, <1>a, GotoFields DEF Adopt
  <2> QED
    BY <1>6, <2>1, <1>s, <1>u DEF Adopt
<1>7. ASSUME NEW d \in Deployers, ListOrphans(d) PROVE Goal
  <2>1. deploy'[d].at = "clean" /\ Others(d)
    BY <1>7, <1>a, ListFields
  <2> QED
    BY <1>7, <2>1, <1>s, <1>u DEF ListOrphans
<1>8. ASSUME NEW d \in Deployers, CleanOrphan(d) PROVE Goal
  <2>1. PICK x \in deploy[d].todo :
          StopAndRemove(x) /\ deploy' = [deploy EXCEPT ![d].todo = @ \ {x}]
    BY <1>8 DEF CleanOrphan
  <2>2. deploy'[d].at = "clean" /\ Others(d)
    BY <1>8, <2>1, <1>a, CleanFields DEF CleanOrphan
  <2>3. deploy[d].existing = Untracked
    BY <1>8, <1>a DEF CleanOrphan, Current
  <2>4. x # c
    BY <2>1, <2>3, <1>a DEF UpCall
  <2>5. Spares(x)
    BY <2>1, <1>a, StopSpares
  <2>6. Up(c)'
    BY <2>4, <2>5 DEF Spares
  <2> QED
    BY <2>2, <2>6, <1>s
<1>9. ASSUME NEW d \in Deployers, PrepareFails(d) PROVE Goal
  <2>1. deploy'[d].at = "idle" /\ Others(d)
    BY <1>9, <1>a, ReturnFields DEF PrepareFails, Return
  <2> QED
    BY <1>9, <2>1, <1>s, <1>u DEF PrepareFails
<1>10. ASSUME NEW d \in Deployers, SkipRedundantDeploy(d) PROVE Goal
  <2>1. deploy'[d].at = "idle" /\ Others(d)
    BY <1>10, <1>a, ReturnFields DEF SkipRedundantDeploy, Return
  <2> QED
    BY <1>10, <2>1, <1>s, <1>u DEF SkipRedundantDeploy
<1>11. ASSUME NEW d \in Deployers, CreateContainer(d) PROVE Goal
  <2>1. deploy'[d].new = born + 1 /\ Others(d)
    BY <1>11, <1>a, CreateFields
  <2>2. c # born + 1
    <3>1. c <= born /\ born \in Nat /\ c \in Nat
      BY <1>a, DeployAssumption, RecordIds DEF Known, Exists, Up, TypeOK
    <3> QED
      BY <3>1
  <2>3. Up(c)'
    BY <1>11, <1>a, <2>2 DEF CreateContainer, Up, TypeOK
  <2> QED
    BY <2>1, <2>2, <2>3, <1>s
<1>12. ASSUME NEW d \in Deployers, CreateFails(d) PROVE Goal
  <2>1. deploy'[d].at = "idle" /\ Others(d)
    BY <1>12, <1>a, ReturnFields DEF CreateFails, Return
  <2> QED
    BY <1>12, <2>1, <1>s, <1>u DEF CreateFails
<1>13. ASSUME NEW d \in Deployers, StartContainer(d) PROVE Goal
  <2>1. deploy'[d].new = deploy[d].new /\ Others(d)
    BY <1>13, <1>a, GotoFields DEF StartContainer
  <2>2. deploy[d].new # c /\ deploy[d].new \in Ids
    BY <1>13, <1>a, <1>n, EarlyNew DEF StartContainer, LatePlaces
  <2>3. Spares(0)
    BY <1>13, <1>a, <2>2, RunningSpares DEF StartContainer
  <2>4. Up(c)'
    BY <2>3, RecordIds DEF Spares
  <2> QED
    BY <2>1, <2>2, <2>4, <1>s
<1>14. ASSUME NEW d \in Deployers, StartFails(d) PROVE Goal
  <2>1. deploy'[d].at = "idle" /\ Others(d)
    BY <1>14, <1>a, ReturnFields DEF StartFails, Return
  <2>2. deploy[d].new # c
    BY <1>14, <1>n DEF StartFails
  <2>3. Spares(deploy[d].new)
    BY <1>14, <1>a, StopSpares DEF StartFails
  <2>4. Up(c)'
    BY <2>2, <2>3 DEF Spares
  <2> QED
    BY <2>1, <2>4, <1>s
<1>15. ASSUME NEW d \in Deployers, BecomeReady(d) PROVE Goal
  <2>1. deploy'[d].new = deploy[d].new /\ Others(d)
    BY <1>15, <1>a, GotoFields DEF BecomeReady
  <2>2. deploy[d].new # c
    BY <1>15, <1>n DEF BecomeReady
  <2> QED
    BY <1>15, <2>1, <2>2, <1>s, <1>u DEF BecomeReady
<1>16. ASSUME NEW d \in Deployers, ReadinessFails(d) PROVE Goal
  <2>1. deploy'[d].at = "idle" /\ Others(d)
    BY <1>16, <1>a, ReturnFields DEF ReadinessFails, Return
  <2>2. deploy[d].new # c
    BY <1>16, <1>n DEF ReadinessFails
  <2>3. Spares(deploy[d].new)
    BY <1>16, <1>a, StopSpares DEF ReadinessFails
  <2>4. Up(c)'
    BY <2>2, <2>3 DEF Spares
  <2> QED
    BY <2>1, <2>4, <1>s
<1>17. ASSUME NEW d \in Deployers, Activate(d) PROVE Goal
  <2>1. deploy'[d].at = "invalidate" /\ Others(d)
    BY <1>17, <1>a, GotoFields DEF Activate
  <2> QED
    BY <1>17, <2>1, <1>s, <1>u DEF Activate
<1>18. ASSUME NEW d \in Deployers, InvalidateTarget(d) PROVE Goal
  <2>1. deploy'[d].at \in {"resolve", "finish", "stabilize"} /\ Others(d)
    BY <1>18, <1>a, GotoFields DEF InvalidateTarget
  <2> QED
    BY <1>18, <2>1, <1>s, <1>u DEF InvalidateTarget
<1>19. ASSUME NEW d \in Deployers, Stabilized(d) PROVE Goal
  <2>1. deploy'[d].at \in {"resolve", "finish", "stabilize"} /\ Others(d)
    BY <1>19, <1>a, GotoFields DEF Stabilized
  <2> QED
    BY <1>19, <2>1, <1>s, <1>u DEF Stabilized
<1>20. ASSUME NEW d \in Deployers, CrashedEarly(d) PROVE Goal
  BY <1>20, <1>a, <1>f DEF CrashedEarly, UpCall
<1>21. ASSUME NEW d \in Deployers, RestoreOld(d) PROVE Goal
  BY <1>21, <1>a DEF RestoreOld, UpCall
<1>22. ASSUME NEW d \in Deployers, Reinvalidate(d) PROVE Goal
  BY <1>22, <1>a DEF Reinvalidate, UpCall
<1>23. ASSUME NEW d \in Deployers, DropNew(d) PROVE Goal
  BY <1>23, <1>a DEF DropNew, UpCall
<1>24. ASSUME NEW d \in Deployers, BothDead(d) PROVE Goal
  BY <1>24, <1>a DEF BothDead, UpCall
<1>25. ASSUME NEW d \in Deployers, Finish(d) PROVE Goal
  <2>1. deploy'[d].at = "idle" /\ Others(d)
    BY <1>25, <1>a, ReturnFields DEF Finish, Return
  <2> QED
    BY <1>25, <2>1, <1>s, <1>u DEF Finish
<1>26. ASSUME NEW t \in tasks PROVE Goal
  BY <1>26, <1>a DEF Known
<1>27. ASSUME NEW o \in Operators,
              SyncList(o) \/ SyncStore(o) \/ RestartCall(o) \/ RestartContainer(o)
       PROVE Goal
  <2>1. operator[o].at = "idle"
    BY <1>a DEF NoFreeCalls, IdleOperator
  <2> QED
    BY <1>27, <2>1 DEF SyncList, SyncStore, RestartCall, RestartContainer
<1>28. ASSUME MonitorStep PROVE Goal
  <2>1. monitor.at = "idle"
    BY <1>a DEF Known
  <2> QED
    BY <1>28, <2>1 DEF MonitorStep, MonitorSnapshot, MonitorInspect, MonitorSkip,
       MonitorVerify, MonitorAct
<1>29. ASSUME NEW x \in Ids,
              ContainerCrashes(x) \/ RuntimeRestarts(x) \/ StoppedExternally(x)
       PROVE Goal
  BY <1>29, <1>a, <1>f DEF ContainerCrashes, RuntimeRestarts, StoppedExternally,
     NoneRestarting
<1>30. ASSUME ProcessDies PROVE Goal
  BY <1>30, <1>u DEF ProcessDies, IdleDeploy, Goal
<1>31. Goal
  BY <1>1, <1>2, <1>3, <1>4, <1>5, <1>6, <1>7, <1>8, <1>9, <1>10, <1>11, <1>12,
     <1>13, <1>14, <1>15, <1>16, <1>17, <1>18, <1>19, <1>20, <1>21, <1>22, <1>23,
     <1>24, <1>25, <1>26, <1>27, <1>28, <1>29, <1>30 DEF Next, DeployStep
<1> QED
  BY <1>31 DEF Goal

\* The map does not become empty again, but with the process.
LEMMA MapIsKept ==
  ASSUME Calls = {}, Reconcilers = {}, UpInv, Next, ~ ProcessDies, tracked # Untracked
  PROVE  tracked' # Untracked
<1>a. TypeOK /\ NoFreeCalls /\ \A d \in Deployers : UpCall(d)
  BY DEF UpInv, SparesInv, CurrentInv
<1>1. CASE tracked' = tracked
  BY <1>1
<1>2. ASSUME NEW d \in Deployers, Adopt(d) PROVE tracked' # Untracked
  BY <1>2 DEF Adopt, UpInv, SparesInv, CurrentInv, Current
<1>3. ASSUME NEW d \in Deployers, Activate(d) PROVE tracked' # Untracked
  <2>1. tracked'.id = deploy[d].new /\ deploy[d].new \in Ids
    BY <1>3, <1>a, EarlyNew DEF Activate, Track, LatePlaces
  <2> QED
    BY <2>1, RecordIds DEF Untracked
<1>4. ASSUME NEW d \in Deployers, RestoreOld(d) PROVE tracked' # Untracked
  BY <1>4, <1>a DEF RestoreOld, UpCall
<1>5. ASSUME NEW o \in Operators,
             SyncList(o) \/ SyncStore(o) \/ RestartCall(o) \/ RestartContainer(o)
      PROVE tracked' # Untracked
  <2>1. operator[o].at = "idle"
    BY <1>a DEF NoFreeCalls, IdleOperator
  <2> QED
    BY <1>5, <2>1 DEF SyncList, SyncStore, RestartCall, RestartContainer
<1>6. ASSUME NEW d \in Deployers, DeployStep(d) PROVE tracked' # Untracked
  BY <1>1, <1>2, <1>3, <1>4, <1>6 DEF DeployStep, ResolveTracked, ResolveFromRuntime,
     ListOrphans, CleanOrphan, PrepareFails, SkipRedundantDeploy, CreateContainer,
     CreateFails, StartContainer, StartFails, BecomeReady, ReadinessFails,
     InvalidateTarget, Stabilized, CrashedEarly, Reinvalidate, DropNew, BothDead, Finish
<1>7. ASSUME NEW d \in Deployers, CallDeploy(d) \/ GiveUpWaiting(d) \/ AcquireLock(d)
      PROVE tracked' # Untracked
  BY <1>1, <1>7 DEF CallDeploy, GiveUpWaiting, AcquireLock
<1>8. ASSUME NEW t \in tasks, TaskStep(t) PROVE tracked' # Untracked
  BY <1>1, <1>8 DEF TaskStep, Drained, StopOld, RemoveOld, RenameNew
<1>9. ASSUME MonitorStep PROVE tracked' # Untracked
  BY <1>1, <1>9 DEF MonitorStep, MonitorSnapshot, MonitorInspect, MonitorSkip,
     MonitorVerify, MonitorAct
<1>10. ASSUME NEW c \in Ids,
              ContainerCrashes(c) \/ RuntimeRestarts(c) \/ StoppedExternally(c)
       PROVE tracked' # Untracked
  BY <1>1, <1>10 DEF ContainerCrashes, RuntimeRestarts, StoppedExternally
<1> QED
  BY <1>5, <1>6, <1>7, <1>8, <1>9, <1>10 DEF Next

LEMMA ServingNext ==
  ASSUME Calls = {}, Reconcilers = {}, ProgramsLive, UpInv, UpInv', Next, Serving
  PROVE  Serving'
<1>1. CASE tracked' # Untracked
  BY <1>1, TrackedServesNext DEF Untracked
<1>2. CASE tracked' = Untracked /\ tracked = Untracked
  <2>1. PICK c \in Ids : Up(c) /\ ~ Candidate(c)
    BY DEF Serving
  <2>2. Up(c)' /\ ~ \E d \in Deployers :
           deploy'[d].new = c /\ deploy'[d].at \in {"start", "ready", "activate"}
    BY <1>2, <2>1, ServerStays
  <2> QED
    BY <2>2 DEF Serving, Candidate
<1>3. CASE ProcessDies
  <2>1. PICK c \in Ids : Up(c)
    BY DEF Serving
  <2>2. UNCHANGED docker /\ \A d \in Deployers : deploy'[d] = IdleDeploy
    BY <1>3 DEF ProcessDies
  <2> QED
    BY <2>1, <2>2 DEF Serving, Candidate, Up, IdleDeploy
<1>4. CASE tracked # Untracked /\ ~ ProcessDies
  <2>1. tracked' # Untracked
    BY <1>4, MapIsKept
  <2> QED
    BY <1>1, <2>1
<1> QED
  BY <1>1, <1>2, <1>3, <1>4

\* Whatever the process was doing when it died, and whatever failed: as long as the
\* programs in the containers live, one that serves is followed by one that serves.
THEOREM ServiceIsNeverDown ==
  Calls = {} /\ Reconcilers = {} /\ ProgramsLive => (Spec => NeverDown)
<1> SUFFICES ASSUME Calls = {}, Reconcilers = {}, ProgramsLive PROVE Spec => NeverDown
  OBVIOUS
<1>1. UpInv /\ UpInv' /\ [Next]_vars => [Serving => Serving']_vars
  <2> SUFFICES ASSUME UpInv, UpInv', Next, Serving PROVE Serving'
    OBVIOUS
  <2> QED
    BY ServingNext
<1> QED
  BY <1>1, UpInvariant, PTL DEF Spec, NeverDown

-----------------------------------------------------------------------------
(* The monitor and what the service has stopped *)

\* The monitor looks at containers that were tracked, which nobody is about to start.  One
\* it would start is down, and will not be tracked any more: what is tracked is up.
MonitorIsStale ==
    /\ monitor.at # "act"
    /\ monitor.at \in {"inspect", "verify"} =>
          /\ monitor.id \in Ids /\ monitor.id <= born
          /\ \A d \in Deployers : deploy[d].at = "start" => deploy[d].new # monitor.id
    /\ monitor.at = "verify" => ~ Up(monitor.id)

WakesNobody == \A c \in Ids : Up(c)' => Up(c)

LEMMA StaleKept ==
  ASSUME UpInv, MonitorIsStale, UNCHANGED <<born, monitor>>,
         \A c \in Ids : c = monitor.id /\ Up(c)' => Up(c),
         \A d \in Deployers : deploy'[d].at = "start" =>
             deploy'[d].new = deploy[d].new /\ deploy[d].at = "start"
  PROVE  MonitorIsStale'
  BY DEF MonitorIsStale, Up

LEMMA StaleNext ==
  ASSUME Calls = {}, Reconcilers = {}, ProgramsLive, "unhealthy" \notin Faults, UpInv,
         MonitorIsStale, [Next]_vars
  PROVE  MonitorIsStale'
<1>a. /\ TypeOK /\ NoFreeCalls /\ Known /\ (\A d \in Deployers : Current(d))
      /\ (\A d \in Deployers : Spare(d)) /\ (\A d \in Deployers : UpCall(d))
      /\ NoneRestarting /\ TrackedIsUp
  BY DEF UpInv, SparesInv, CurrentInv
<1>f. "crash" \notin Faults /\ "flaky" \notin Faults /\ "external" \notin Faults
      /\ "inspect" \notin Faults
  BY DEF ProgramsLive
<1>u. ASSUME UNCHANGED docker PROVE WakesNobody
  BY <1>u DEF WakesNobody, Up
\* A step of one call that is not about to start anything afterwards.
<1>s. ASSUME NEW d \in Deployers, Others(d), deploy'[d].at # "start", WakesNobody,
             UNCHANGED <<born, monitor>>
      PROVE  MonitorIsStale'
  BY <1>s, StaleKept DEF Others, WakesNobody
<1>1. ASSUME NEW d \in Deployers, CallDeploy(d) PROVE MonitorIsStale'
  <2>1. deploy'[d].at = "lock" /\ Others(d)
    BY <1>1, <1>a, CallDeployFields DEF CallDeploy
  <2> QED
    BY <1>1, <2>1, <1>s, <1>u DEF CallDeploy
<1>2. ASSUME NEW d \in Deployers, GiveUpWaiting(d) PROVE MonitorIsStale'
  <2>1. deploy'[d].at = "idle" /\ Others(d)
    BY <1>2, <1>a, ReturnFields DEF GiveUpWaiting
  <2> QED
    BY <1>2, <2>1, <1>s, <1>u DEF GiveUpWaiting
<1>3. ASSUME NEW d \in Deployers, AcquireLock(d) PROVE MonitorIsStale'
  <2>1. deploy'[d].at = "resolve" /\ Others(d)
    BY <1>3, <1>a, GotoFields DEF AcquireLock
  <2> QED
    BY <1>3, <2>1, <1>s, <1>u DEF AcquireLock
<1>4. ASSUME NEW d \in Deployers, ResolveTracked(d) PROVE MonitorIsStale'
  <2>1. deploy' = [deploy EXCEPT ![d] =
                      [deploy[d] EXCEPT !.at = "orphans", !.existing = tracked]]
    BY <1>4 DEF ResolveTracked
  <2>2. deploy'[d].at = "orphans" /\ Others(d)
    BY <2>1, <1>a, ResolveFields
  <2> QED
    BY <1>4, <2>2, <1>s, <1>u DEF ResolveTracked
<1>5. ASSUME NEW d \in Deployers, ResolveFromRuntime(d) PROVE MonitorIsStale'
  <2>1. CASE Goto(d, "orphans")
    <3>1. deploy'[d].at = "orphans" /\ Others(d)
      BY <1>a, <2>1, GotoFields
    <3> QED
      BY <1>5, <3>1, <1>s, <1>u DEF ResolveFromRuntime
  <2>2. ASSUME NEW x \in Ids,
               deploy' = [deploy EXCEPT ![d].at = "adopt", ![d].existing = Seen(x)]
        PROVE  MonitorIsStale'
    <3> DEFINE seen == Seen(x)
    <3>1. deploy' = [deploy EXCEPT ![d] =
                        [deploy[d] EXCEPT !.at = "adopt", !.existing = seen]]
      BY <2>2
    <3> HIDE DEF seen
    <3>2. deploy'[d].at = "adopt" /\ Others(d)
      BY <3>1, <1>a, ResolveFields
    <3> QED
      BY <1>5, <3>2, <1>s, <1>u DEF ResolveFromRuntime
  <2> QED
    BY <1>5, <2>1, <2>2 DEF ResolveFromRuntime
<1>6. ASSUME NEW d \in Deployers, Adopt(d) PROVE MonitorIsStale'
  <2>1. deploy'[d].at = "orphans" /\ Others(d)
    BY <1>6, <1>a, GotoFields DEF Adopt
  <2> QED
    BY <1>6, <2>1, <1>s, <1>u DEF Adopt
<1>7. ASSUME NEW d \in Deployers, ListOrphans(d) PROVE MonitorIsStale'
  <2>1. deploy'[d].at = "clean" /\ Others(d)
    BY <1>7, <1>a, ListFields DEF ListOrphans
  <2> QED
    BY <1>7, <2>1, <1>s, <1>u DEF ListOrphans
<1>8. ASSUME NEW d \in Deployers, CleanOrphan(d) PROVE MonitorIsStale'
  <2>1. PICK x \in deploy[d].todo :
          StopAndRemove(x) /\ deploy' = [deploy EXCEPT ![d].todo = @ \ {x}]
    BY <1>8 DEF CleanOrphan
  <2>2. deploy'[d].at = "clean" /\ Others(d)
    BY <1>8, <2>1, <1>a, CleanFields DEF CleanOrphan
  <2>3. WakesNobody
    BY <2>1, <1>a, StopSpares DEF WakesNobody
  <2> QED
    BY <1>8, <2>2, <2>3, <1>s DEF CleanOrphan
<1>9. ASSUME NEW d \in Deployers, PrepareFails(d) PROVE MonitorIsStale'
  <2>1. deploy'[d].at = "idle" /\ Others(d)
    BY <1>9, <1>a, ReturnFields DEF PrepareFails, Return
  <2> QED
    BY <1>9, <2>1, <1>s, <1>u DEF PrepareFails
<1>10. ASSUME NEW d \in Deployers, SkipRedundantDeploy(d) PROVE MonitorIsStale'
  <2>1. deploy'[d].at = "idle" /\ Others(d)
    BY <1>10, <1>a, ReturnFields DEF SkipRedundantDeploy, Return
  <2> QED
    BY <1>10, <2>1, <1>s, <1>u DEF SkipRedundantDeploy
<1>11. ASSUME NEW d \in Deployers, CreateContainer(d) PROVE MonitorIsStale'
  <2>1. deploy'[d].new = born + 1 /\ Others(d)
    BY <1>11, <1>a, CreateFields
  <2>2. born \in Nat /\ born' = born + 1 /\ UNCHANGED monitor
    BY <1>11, <1>a, DeployAssumption DEF CreateContainer, TypeOK
  <2>3. CASE monitor.at \in {"inspect", "verify"}
    <3>1. monitor.id \in Ids /\ monitor.id \in Nat /\ monitor.id <= born
      BY <2>3, RecordIds DEF MonitorIsStale
    <3>2. monitor.id # born + 1 /\ monitor.id <= born'
      BY <2>2, <3>1
    <3>3. docker'[monitor.id] = docker[monitor.id]
      BY <1>11, <1>a, <3>2 DEF CreateContainer, TypeOK
    <3> QED
      BY <2>1, <2>2, <3>1, <3>2, <3>3 DEF MonitorIsStale, Others, Up
  <2>4. CASE monitor.at \notin {"inspect", "verify"}
    BY <2>2, <2>4 DEF MonitorIsStale
  <2> QED
    BY <2>3, <2>4
<1>12. ASSUME NEW d \in Deployers, CreateFails(d) PROVE MonitorIsStale'
  <2>1. deploy'[d].at = "idle" /\ Others(d)
    BY <1>12, <1>a, ReturnFields DEF CreateFails, Return
  <2> QED
    BY <1>12, <2>1, <1>s, <1>u DEF CreateFails
<1>13. ASSUME NEW d \in Deployers, StartContainer(d) PROVE MonitorIsStale'
  <2>1. deploy'[d].at = "ready" /\ Others(d)
    BY <1>13, <1>a, GotoFields DEF StartContainer
  <2>2. /\ deploy[d].new \in Ids /\ Exists(deploy[d].new)
        /\ SetStatus(deploy[d].new, "running") /\ UNCHANGED <<born, monitor>>
    BY <1>13, <1>a, EarlyNew DEF StartContainer, LatePlaces
  <2>3. \A x \in Ids : x # deploy[d].new => docker'[x] = docker[x]
    BY <2>2, <1>a, StatusSet DEF Statuses
  <2>4. monitor.at \in {"inspect", "verify"} => monitor.id # deploy[d].new
    BY <1>13 DEF StartContainer, MonitorIsStale
  <2>5. \A e \in Deployers : deploy'[e].at = "start" =>
             deploy'[e].new = deploy[e].new /\ deploy[e].at = "start"
    BY <2>1 DEF Others
  <2> QED
    BY <2>2, <2>3, <2>4, <2>5 DEF MonitorIsStale, Up
<1>14. ASSUME NEW d \in Deployers, StartFails(d) PROVE MonitorIsStale'
  <2>1. deploy'[d].at = "idle" /\ Others(d)
    BY <1>14, <1>a, ReturnFields DEF StartFails, Return
  <2>2. WakesNobody
    BY <1>14, <1>a, StopSpares DEF StartFails, WakesNobody
  <2> QED
    BY <1>14, <2>1, <2>2, <1>s DEF StartFails
<1>15. ASSUME NEW d \in Deployers, BecomeReady(d) PROVE MonitorIsStale'
  <2>1. deploy'[d].at = "activate" /\ Others(d)
    BY <1>15, <1>a, GotoFields DEF BecomeReady
  <2> QED
    BY <1>15, <2>1, <1>s, <1>u DEF BecomeReady
<1>16. ASSUME NEW d \in Deployers, ReadinessFails(d) PROVE MonitorIsStale'
  <2>1. deploy'[d].at = "idle" /\ Others(d)
    BY <1>16, <1>a, ReturnFields DEF ReadinessFails, Return
  <2>2. WakesNobody
    BY <1>16, <1>a, StopSpares DEF ReadinessFails, WakesNobody
  <2> QED
    BY <1>16, <2>1, <2>2, <1>s DEF ReadinessFails
<1>17. ASSUME NEW d \in Deployers, Activate(d) PROVE MonitorIsStale'
  <2>1. deploy'[d].at = "invalidate" /\ Others(d)
    BY <1>17, <1>a, GotoFields DEF Activate
  <2> QED
    BY <1>17, <2>1, <1>s, <1>u DEF Activate
<1>18. ASSUME NEW d \in Deployers, InvalidateTarget(d) PROVE MonitorIsStale'
  <2>1. deploy'[d].at \in {"finish", "stabilize"} /\ Others(d)
    BY <1>18, <1>a, GotoFields DEF InvalidateTarget
  <2> QED
    BY <1>18, <2>1, <1>s, <1>u DEF InvalidateTarget
<1>19. ASSUME NEW d \in Deployers, Stabilized(d) PROVE MonitorIsStale'
  <2>1. deploy'[d].at = "finish" /\ Others(d)
    BY <1>19, <1>a, GotoFields DEF Stabilized
  <2> QED
    BY <1>19, <2>1, <1>s, <1>u DEF Stabilized
<1>20. ASSUME NEW d \in Deployers,
              \/ CrashedEarly(d) \/ RestoreOld(d) \/ Reinvalidate(d) \/ DropNew(d)
              \/ BothDead(d)
       PROVE MonitorIsStale'
  BY <1>20, <1>a, <1>f DEF CrashedEarly, RestoreOld, Reinvalidate, DropNew, BothDead, UpCall
<1>21. ASSUME NEW d \in Deployers, Finish(d) PROVE MonitorIsStale'
  <2>1. deploy'[d].at = "idle" /\ Others(d)
    BY <1>21, <1>a, ReturnFields DEF Finish, Return
  <2> QED
    BY <1>21, <2>1, <1>s, <1>u DEF Finish
<1>22. ASSUME NEW t \in tasks, TaskStep(t) PROVE MonitorIsStale'
  <2>1. UNCHANGED <<born, monitor, deploy>>
    BY <1>22 DEF TaskStep, Drained, StopOld, RemoveOld, RenameNew
  <2>2. WakesNobody
    <3>1. CASE Stop(t.old) \/ Remove(t.old)
      BY <3>1, <1>a, StopSpares DEF WakesNobody
    <3>2. ASSUME docker' = [docker EXCEPT ![t.new].name = "canonical"] PROVE WakesNobody
      <4> SUFFICES ASSUME NEW x \in Ids PROVE docker'[x].status = docker[x].status
        BY DEF WakesNobody, Up
      <4>1. docker' = [docker EXCEPT ![t.new] = [docker[t.new] EXCEPT !.name = "canonical"]]
        BY <3>2
      <4>2. docker[x] \in Containers \cup {Absent}
        BY <1>a DEF TypeOK
      <4> QED
        BY <4>1, <4>2, <1>a DEF TypeOK, Containers, Absent
    <3> QED
      BY <1>22, <3>1, <3>2, <1>u DEF TaskStep, Drained, StopOld, RemoveOld, RenameNew
  <2> QED
    BY <2>1, <2>2, StaleKept DEF WakesNobody
<1>23. ASSUME NEW o \in Operators,
              SyncList(o) \/ SyncStore(o) \/ RestartCall(o) \/ RestartContainer(o)
       PROVE MonitorIsStale'
  <2>1. operator[o].at = "idle"
    BY <1>a DEF NoFreeCalls, IdleOperator
  <2> QED
    BY <1>23, <2>1 DEF SyncList, SyncStore, RestartCall, RestartContainer
<1>24. ASSUME MonitorSnapshot PROVE MonitorIsStale'
  <2>1. tracked # Untracked /\ tracked.id \in Ids /\ tracked.id <= born
    BY <1>24, <1>a, RecordIds DEF MonitorSnapshot, Known, TypeOK
  <2>2. /\ monitor' = [at |-> "inspect", id |-> tracked.id, action |-> "-"]
        /\ UNCHANGED <<born, deploy>>
    BY <1>24 DEF MonitorSnapshot
  <2>3. ASSUME NEW d \in Deployers, deploy[d].at = "start" PROVE deploy[d].new # tracked.id
    BY <2>3, <1>a DEF Current, Spare, LatePlaces
  <2> QED
    BY <2>1, <2>2, <2>3 DEF MonitorIsStale
<1>25. ASSUME MonitorInspect PROVE MonitorIsStale'
  <2>1. ~ Up(monitor.id)
    BY <1>25 DEF MonitorInspect, Remedy, Up
  <2>2. /\ monitor.at = "inspect" /\ monitor'.at = "verify" /\ monitor'.id = monitor.id
        /\ UNCHANGED <<docker, born, deploy>>
    BY <1>25, <1>a DEF MonitorInspect, TypeOK, MonitorChecks
  <2> QED
    BY <2>1, <2>2 DEF MonitorIsStale, Up
<1>26. ASSUME MonitorSkip PROVE MonitorIsStale'
  BY <1>26 DEF MonitorSkip, MonitorIsStale, IdleMonitor
<1>27. ASSUME MonitorVerify PROVE MonitorIsStale'
  <2>1. monitor.id \in Ids /\ ~ Up(monitor.id)
    BY <1>27 DEF MonitorVerify, MonitorIsStale
  <2>2. tracked.id # monitor.id
    BY <2>1, <1>a, RecordIds DEF TrackedIsUp, Untracked, TypeOK
  <2>3. monitor' = IdleMonitor
    BY <1>27, <2>2 DEF MonitorVerify
  <2> QED
    BY <2>3 DEF MonitorIsStale, IdleMonitor
<1>28. ASSUME MonitorAct PROVE MonitorIsStale'
  BY <1>28 DEF MonitorAct, MonitorIsStale
<1>29. ASSUME NEW x \in Ids,
              ContainerCrashes(x) \/ RuntimeRestarts(x) \/ StoppedExternally(x)
       PROVE MonitorIsStale'
  BY <1>29, <1>a, <1>f DEF ContainerCrashes, RuntimeRestarts, StoppedExternally,
     NoneRestarting
<1>30. ASSUME ProcessDies PROVE MonitorIsStale'
  BY <1>30 DEF ProcessDies, MonitorIsStale, IdleMonitor
<1>31. ASSUME UNCHANGED vars PROVE MonitorIsStale'
  BY <1>31 DEF vars, MonitorIsStale, Up
<1> QED
  BY <1>1, <1>2, <1>3, <1>4, <1>5, <1>6, <1>7, <1>8, <1>9, <1>10, <1>11, <1>12,
     <1>13, <1>14, <1>15, <1>16, <1>17, <1>18, <1>19, <1>20, <1>21, <1>22, <1>23,
     <1>24, <1>25, <1>26, <1>27, <1>28, <1>29, <1>30, <1>31
     DEF Next, DeployStep, MonitorStep

\* The monitor does not take for a crash what the service has stopped, however long ago it
\* took its snapshot: what it finds down is no longer tracked when it looks at the map
\* again, whatever was deployed, cleaned up or interrupted in between.  Where programs die
\* or are unhealthy this does not hold: the monitor then acts on a tracked container, which
\* a deploy may replace and stop before it does.
THEOREM MonitorLeavesStopped ==
  Calls = {} /\ Reconcilers = {} /\ ProgramsLive /\ "unhealthy" \notin Faults
      => (Spec => MonitorRespectsStop)
<1> SUFFICES ASSUME Calls = {}, Reconcilers = {}, ProgramsLive, "unhealthy" \notin Faults
             PROVE  Spec => MonitorRespectsStop
  OBVIOUS
<1>1. Init => MonitorIsStale
  BY DEF Init, MonitorIsStale, IdleMonitor
<1>2. UpInv /\ MonitorIsStale /\ [Next]_vars => MonitorIsStale'
  BY StaleNext
<1>3. MonitorIsStale /\ [Next]_vars =>
         [\A c \in Ids : MonitorAct /\ docker[c].status = "stopped"
                             => docker'[c].status = "stopped"]_vars
  BY DEF MonitorIsStale, MonitorAct
<1> QED
  BY <1>1, <1>2, <1>3, UpInvariant, PTL DEF Spec, MonitorRespectsStop
=============================================================================
