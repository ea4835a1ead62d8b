------------------------------- MODULE Deploy -------------------------------
(***************************************************************************)
(* The container service's handling of one route domain                    *)
(* (usecase/container/service.go): zero-downtime deploys under the         *)
(* per-domain lock, the background cleanup of the replaced container,      *)
(* route removal, the API calls that take no lock, the crash monitor, and  *)
(* the loss of the whole process.                                          *)
(*                                                                         *)
(* Domains only share the mutex s.mu, so one domain is modelled; tracked   *)
(* is its entry in s.containers.  A step is one call to the container      *)
(* runtime or one critical section of s.mu.  Image pull, networks,         *)
(* attachments, environment and volumes are one step that may fail.        *)
(***************************************************************************)
EXTENDS Integers, FiniteSets

CONSTANTS Deployers,      \* goroutines that call Deploy (event handlers, API, boot)
          Reconcilers,    \* goroutines that call ReconcileRemovedRoute
          Operators,      \* goroutines that make the lock-free calls
          Calls,          \* which of those calls: "sync" "restart"
          Monitoring,     \* whether the monitor runs
          Images,         \* image and environment pairs a route may ask for
          Faults,         \* what may go wrong: the runtime calls "list" "prepare"
                          \* "create" "start" "ready" "inspect" "remove", the waits that
                          \* a "cancel" ends, and "crash" "flaky" "external" "unhealthy"
          MaxContainers,  \* bound: containers ever created
          MaxCrashes      \* bound: times the gordon process dies

ASSUME DeployAssumption ==
    /\ MaxContainers \in Nat \ {0}
    /\ MaxCrashes \in Nat
    /\ Monitoring \in BOOLEAN
    /\ Deployers \cap Reconcilers = {}
    /\ 0 \notin Deployers \cup Reconcilers
    /\ "-" \notin Images

VARIABLES
    docker,        \* the runtime: status, name and image of every container
    born,          \* how many containers have been created
    tracked,       \* s.containers[domain]: the container as it was inspected
    managedCount,  \* s.managedCount, restricted to the domain
    lock,          \* who holds the deploy lock of the domain
    deploy,        \* the Deploy calls
    tasks,         \* the goroutines behind cleanupWg: finalizePreviousContainer
    recon,         \* the ReconcileRemovedRoute calls
    operator,      \* the calls that take no lock
    monitor,       \* the monitor's check of the domain
    crashes        \* how many times the process died

vars == <<docker, born, tracked, managedCount, lock, deploy, tasks, recon,
          operator, monitor, crashes>>

Ids      == 1..MaxContainers
Names    == {"canonical", "new", "next"}
\* The runtime reports "exited" and "stopped" alike: "stopped" marks the containers
\* that this service stopped itself.
Statuses == {"absent", "created", "running", "restarting", "exited", "stopped"}

Absent    == [status |-> "absent", name |-> "-", image |-> "-"]
Untracked == [id |-> 0, name |-> "-", image |-> "-"]
Free      == 0

Up(c)      == docker[c].status = "running"
Active(c)  == docker[c].status \in {"running", "restarting"}
Exists(c)  == docker[c].status # "absent"
NameTaken(n) == \E c \in Ids : docker[c].name = n

\* What an inspect or a list returns about a container.
Seen(c) == [id |-> c, name |-> docker[c].name, image |-> docker[c].image]

Containers  == [status : Statuses \ {"absent"}, name : Names, image : Images]
Records     == [id : Ids, name : Names, image : Images] \cup {Untracked}
IdleDeploy  == [at |-> "idle", existing |-> Untracked, image |-> "-", new |-> 0,
                skip |-> FALSE, todo |-> {}]
EarlyPlaces == {"lock", "resolve", "adopt", "orphans", "clean"}
LatePlaces  == {"start", "ready", "activate", "invalidate", "stabilize", "rollback",
                "reinvalidate", "dropnew", "finish"}
InSection(d) == deploy[d].at \notin {"idle", "lock"}
IdleRecon    == [at |-> "idle", todo |-> {}, running |-> {}]
IdleOperator == [at |-> "idle", id |-> 0, seen |-> Untracked, again |-> FALSE]
IdleMonitor  == [at |-> "idle", id |-> 0, action |-> "-"]

EarlyCalls    == [at : EarlyPlaces, existing : Records, image : Images, new : {0},
                  skip : BOOLEAN, todo : SUBSET Ids]
LateCalls     == [at : LatePlaces, existing : Records, image : Images, new : Ids,
                  skip : BOOLEAN, todo : SUBSET Ids]
DeployCalls   == {IdleDeploy} \cup EarlyCalls \cup LateCalls
CleanupTasks  == [old : Ids \cup {0}, new : Ids \cup {0},
                  at : {"drain", "stop", "remove", "rename"}]
ReconCalls    == [at : {"idle", "lock", "clear", "invalidate", "remove"},
                  todo : SUBSET Ids, running : SUBSET Ids]
OperatorCalls == [at : {"idle", "store", "restart", "again"}, id : Ids \cup {0},
                  seen : Records, again : BOOLEAN]
MonitorChecks == [at : {"idle", "inspect", "verify", "act"}, id : Ids \cup {0},
                  action : {"-", "start", "restart"}]

TypeOK ==
    /\ docker \in [Ids -> Containers \cup {Absent}]
    /\ born \in 0..MaxContainers
    /\ tracked \in Records
    /\ managedCount \in Int
    /\ lock \in {Free} \cup Deployers \cup Reconcilers
    /\ deploy \in [Deployers -> DeployCalls]
    /\ tasks \subseteq CleanupTasks
    /\ recon \in [Reconcilers -> ReconCalls]
    /\ operator \in [Operators -> OperatorCalls]
    /\ monitor \in MonitorChecks
    /\ crashes \in 0..MaxCrashes

Init ==
    /\ docker = [c \in Ids |-> Absent]
    /\ born = 0
    /\ tracked = Untracked
    /\ managedCount = 0
    /\ lock = Free
    /\ deploy = [d \in Deployers |-> IdleDeploy]
    /\ tasks = {}
    /\ recon = [r \in Reconcilers |-> IdleRecon]
    /\ operator = [o \in Operators |-> IdleOperator]
    /\ monitor = IdleMonitor
    /\ crashes = 0

-----------------------------------------------------------------------------
(* The container runtime                                                   *)

SetStatus(c, s) == docker' = [docker EXCEPT ![c].status = s]

Stop(c) == IF Exists(c) THEN SetStatus(c, "stopped") ELSE UNCHANGED docker

\* StopContainer and then RemoveContainer with force; a removal that fails is
\* logged and the container stays, stopped.
StopAndRemove(c) ==
    \/ docker' = [docker EXCEPT ![c] = Absent]
    \/ "remove" \in Faults /\ Stop(c)

Remove(c) ==
    \/ docker' = [docker EXCEPT ![c] = Absent]
    \/ "remove" \in Faults /\ UNCHANGED docker

-----------------------------------------------------------------------------
(* The entry of the domain in s.containers, always under s.mu              *)

Track(record) ==
    /\ tracked' = record
    /\ managedCount' = IF tracked = Untracked THEN managedCount + 1 ELSE managedCount

-----------------------------------------------------------------------------
(* Deploy                                                                  *)

Goto(d, place) == deploy' = [deploy EXCEPT ![d].at = place]

\* The deferred unlock, with the return of Deploy.
Return(d) ==
    /\ lock' = Free
    /\ deploy' = [deploy EXCEPT ![d] = IdleDeploy]

CallDeploy(d) ==
    /\ deploy[d].at = "idle"
    /\ \E image \in Images, skip \in BOOLEAN :
          deploy' = [deploy EXCEPT ![d] = [IdleDeploy EXCEPT !.at = "lock",
                                           !.image = image, !.skip = skip]]
    /\ UNCHANGED <<docker, born, tracked, managedCount, lock, tasks, recon,
                   operator, monitor, crashes>>

\* The context is cancelled while the call waits for the lock.
GiveUpWaiting(d) ==
    /\ deploy[d].at = "lock"
    /\ "cancel" \in Faults
    /\ deploy' = [deploy EXCEPT ![d] = IdleDeploy]
    /\ UNCHANGED <<docker, born, tracked, managedCount, lock, tasks, recon,
                   operator, monitor, crashes>>

AcquireLock(d) ==
    /\ deploy[d].at = "lock"
    /\ lock = Free
    /\ lock' = d
    /\ Goto(d, "resolve")
    /\ UNCHANGED <<docker, born, tracked, managedCount, tasks, recon, operator,
                   monitor, crashes>>

ResolveTracked(d) ==
    /\ deploy[d].at = "resolve"
    /\ tracked # Untracked
    /\ deploy' = [deploy EXCEPT ![d].at = "orphans", ![d].existing = tracked]
    /\ UNCHANGED <<docker, born, tracked, managedCount, lock, tasks, recon,
                   operator, monitor, crashes>>

\* The runtime lists what is active in no promised order; the canonical name wins.
Preferred(c) ==
    /\ Active(c)
    /\ docker[c].name = "canonical" \/ \A o \in Ids : Active(o) => docker[o].name # "canonical"

ResolveFromRuntime(d) ==
    /\ deploy[d].at = "resolve"
    /\ tracked = Untracked
    /\ \/ \E c \in Ids :
            /\ Preferred(c)
            /\ deploy' = [deploy EXCEPT ![d].at = "adopt", ![d].existing = Seen(c)]
       \/ /\ "list" \in Faults \/ ~ \E c \in Ids : Active(c)
          /\ Goto(d, "orphans")
    /\ UNCHANGED <<docker, born, tracked, managedCount, lock, tasks, recon,
                   operator, monitor, crashes>>

Adopt(d) ==
    /\ deploy[d].at = "adopt"
    /\ Track(deploy[d].existing)
    /\ Goto(d, "orphans")
    /\ UNCHANGED <<docker, born, lock, tasks, recon, operator, monitor, crashes>>

OrphanTracked(c, keep) ==      \* the mistake: the serving container is not excepted
    /\ Exists(c)
    /\ Active(c) => keep # 0 /\ docker[c].name # "canonical"

\* An active container is kept when nothing is known to serve, or when it has the
\* canonical name.
Orphan(c, keep) ==
    /\ Exists(c)
    /\ c # keep
    /\ Active(c) => keep # 0 /\ docker[c].name # "canonical"

ListOrphans(d) ==
    /\ deploy[d].at = "orphans"
    /\ \/ deploy' = [deploy EXCEPT ![d].at = "clean",
                        ![d].todo = {c \in Ids : Orphan(c, deploy[d].existing.id)}]
       \/ "list" \in Faults /\ Goto(d, "clean")
    /\ UNCHANGED <<docker, born, tracked, managedCount, lock, tasks, recon,
                   operator, monitor, crashes>>

CleanOrphan(d) ==
    /\ deploy[d].at = "clean"
    /\ \E c \in deploy[d].todo :
          /\ StopAndRemove(c)
          /\ deploy' = [deploy EXCEPT ![d].todo = @ \ {c}]
    /\ UNCHANGED <<born, tracked, managedCount, lock, tasks, recon, operator,
                   monitor, crashes>>

PrepareFails(d) ==
    /\ deploy[d].at = "clean"
    /\ deploy[d].todo = {}
    /\ "prepare" \in Faults
    /\ Return(d)
    /\ UNCHANGED <<docker, born, tracked, managedCount, tasks, recon, operator,
                   monitor, crashes>>

Redundant(d) ==
    LET existing == deploy[d].existing IN
    /\ existing # Untracked
    /\ existing.image = deploy[d].image
    /\ existing.id \in Ids /\ Up(existing.id)

SkipRedundantDeploy(d) ==
    /\ deploy[d].at = "clean"
    /\ deploy[d].todo = {}
    /\ Redundant(d)
    /\ Return(d)
    /\ UNCHANGED <<docker, born, tracked, managedCount, tasks, recon, operator,
                   monitor, crashes>>

NewNameFixed(existing) ==      \* the mistake: one temporary name only
    IF existing = Untracked THEN "canonical" ELSE "new"

\* The name alternates between the two temporary ones while the tracked container
\* is known under one of them; the name known is the one it was inspected with.
NewName(existing) ==
    IF existing = Untracked THEN "canonical"
    ELSE IF existing.name = "new" THEN "next" ELSE "new"

CreateContainerUnlocks(d) ==      \* the mistake: the lock covers the preparation only
    LET name == NewName(deploy[d].existing) IN
    /\ deploy[d].at = "clean"
    /\ deploy[d].todo = {}
    /\ ~ Redundant(d) \/ "inspect" \in Faults
    /\ ~ NameTaken(name)
    /\ born < MaxContainers
    /\ born' = born + 1
    /\ docker' = [docker EXCEPT ![born + 1] =
                     [status |-> "created", name |-> name, image |-> deploy[d].image]]
    /\ deploy' = [deploy EXCEPT ![d].at = "start", ![d].new = born + 1]
    /\ lock' = Free
    /\ UNCHANGED <<tracked, managedCount, tasks, recon, operator, monitor, crashes>>

CreateContainer(d) ==
    LET name == NewName(deploy[d].existing) IN
    /\ deploy[d].at = "clean"
    /\ deploy[d].todo = {}
    /\ ~ Redundant(d) \/ "inspect" \in Faults
    /\ ~ NameTaken(name)
    /\ born < MaxContainers
    /\ born' = born + 1
    /\ docker' = [docker EXCEPT ![born + 1] =
                     [status |-> "created", name |-> name, image |-> deploy[d].image]]
    /\ deploy' = [deploy EXCEPT ![d].at = "start", ![d].new = born + 1]
    /\ UNCHANGED <<tracked, managedCount, lock, tasks, recon, operator, monitor, crashes>>

\* The runtime refuses a name in use.
CreateFails(d) ==
    /\ deploy[d].at = "clean"
    /\ deploy[d].todo = {}
    /\ ~ Redundant(d)
    /\ NameTaken(NewName(deploy[d].existing)) \/ "create" \in Faults \/ born = MaxContainers
    /\ Return(d)
    /\ UNCHANGED <<docker, born, tracked, managedCount, tasks, recon, operator,
                   monitor, crashes>>

StartContainer(d) ==
    /\ deploy[d].at = "start"
    /\ Exists(deploy[d].new)
    /\ SetStatus(deploy[d].new, "running")
    /\ Goto(d, "ready")
    /\ UNCHANGED <<born, tracked, managedCount, lock, tasks, recon, operator,
                   monitor, crashes>>

StartFailsLeaks(d) ==      \* the mistake: an error return without the unlock
    /\ deploy[d].at = "start"
    /\ "start" \in Faults \/ ~ Exists(deploy[d].new)
    /\ Remove(deploy[d].new)
    /\ deploy' = [deploy EXCEPT ![d] = IdleDeploy]
    /\ UNCHANGED <<born, tracked, managedCount, lock, tasks, recon, operator,
                   monitor, crashes>>

StartFails(d) ==
    /\ deploy[d].at = "start"
    /\ "start" \in Faults \/ ~ Exists(deploy[d].new)
    /\ Remove(deploy[d].new)
    /\ Return(d)
    /\ UNCHANGED <<born, tracked, managedCount, tasks, recon, operator, monitor, crashes>>

\* waitForReady, skipped for a deploy at boot, and the inspect that follows it.
BecomeReady(d) ==
    /\ deploy[d].at = "ready"
    /\ Exists(deploy[d].new)
    /\ deploy[d].skip \/ Up(deploy[d].new)
    /\ Goto(d, "activate")
    /\ UNCHANGED <<docker, born, tracked, managedCount, lock, tasks, recon,
                   operator, monitor, crashes>>

\* cleanupFailedContainer runs with a context of its own.
ReadinessFails(d) ==
    /\ deploy[d].at = "ready"
    /\ \/ "ready" \in Faults
       \/ ~ Exists(deploy[d].new)
       \/ ~ deploy[d].skip /\ ~ Up(deploy[d].new)
    /\ StopAndRemove(deploy[d].new)
    /\ Return(d)
    /\ UNCHANGED <<born, tracked, managedCount, tasks, recon, operator, monitor, crashes>>

ActivateCreated(d) ==      \* the mistake: the container as created, without its name
    /\ deploy[d].at = "activate"
    /\ Track([id |-> deploy[d].new, name |-> "-", image |-> deploy[d].image])
    /\ Goto(d, "invalidate")
    /\ UNCHANGED <<docker, born, lock, tasks, recon, operator, monitor, crashes>>

\* activateDeployedContainer: the map first, then the cache of the proxy.
Activate(d) ==
    /\ deploy[d].at = "activate"
    /\ Track([id |-> deploy[d].new, name |-> NewName(deploy[d].existing),
              image |-> deploy[d].image])
    /\ Goto(d, "invalidate")
    /\ UNCHANGED <<docker, born, lock, tasks, recon, operator, monitor, crashes>>

InvalidateTarget(d) ==
    /\ deploy[d].at = "invalidate"
    /\ Goto(d, IF deploy[d].existing = Untracked THEN "finish" ELSE "stabilize")
    /\ UNCHANGED <<docker, born, tracked, managedCount, lock, tasks, recon,
                   operator, monitor, crashes>>

\* A cancelled context ends the wait as a success.
Stabilized(d) ==
    /\ deploy[d].at = "stabilize"
    /\ Up(deploy[d].new) \/ "cancel" \in Faults
    /\ Goto(d, "finish")
    /\ UNCHANGED <<docker, born, tracked, managedCount, lock, tasks, recon,
                   operator, monitor, crashes>>

CrashedEarly(d) ==
    /\ deploy[d].at = "stabilize"
    /\ ~ Up(deploy[d].new) \/ "inspect" \in Faults
    /\ Goto(d, "rollback")
    /\ UNCHANGED <<docker, born, tracked, managedCount, lock, tasks, recon,
                   operator, monitor, crashes>>

OldIsUp(d) == deploy[d].existing.id \in Ids /\ Up(deploy[d].existing.id)

RestoreOldQuietly(d) ==      \* the mistake: the proxy is not told of the rollback
    /\ deploy[d].at = "rollback"
    /\ OldIsUp(d)
    /\ tracked' = deploy[d].existing
    /\ Goto(d, "dropnew")
    /\ UNCHANGED <<docker, born, managedCount, lock, tasks, recon, operator,
                   monitor, crashes>>

\* The rollback writes the map and leaves managedCount alone.
RestoreOld(d) ==
    /\ deploy[d].at = "rollback"
    /\ OldIsUp(d)
    /\ tracked' = deploy[d].existing
    /\ Goto(d, "reinvalidate")
    /\ UNCHANGED <<docker, born, managedCount, lock, tasks, recon, operator,
                   monitor, crashes>>

Reinvalidate(d) ==
    /\ deploy[d].at = "reinvalidate"
    /\ Goto(d, "dropnew")
    /\ UNCHANGED <<docker, born, tracked, managedCount, lock, tasks, recon,
                   operator, monitor, crashes>>

DropNew(d) ==
    /\ deploy[d].at = "dropnew"
    /\ StopAndRemove(deploy[d].new)
    /\ Return(d)
    /\ UNCHANGED <<born, tracked, managedCount, tasks, recon, operator, monitor, crashes>>

\* Both containers are dead: the new one is removed, the map is left as it is.
BothDead(d) ==
    /\ deploy[d].at = "rollback"
    /\ ~ OldIsUp(d) \/ "inspect" \in Faults
    /\ StopAndRemove(deploy[d].new)
    /\ Return(d)
    /\ UNCHANGED <<born, tracked, managedCount, tasks, recon, operator, monitor, crashes>>

FinishKeepsOld(d) ==      \* the mistake: nobody finalizes the old container
    /\ deploy[d].at = "finish"
    /\ Return(d)
    /\ UNCHANGED <<docker, born, tracked, managedCount, tasks, recon, operator,
                   monitor, crashes>>

\* The old container is finalized by a goroutine that outlives the lock.
Finish(d) ==
    /\ deploy[d].at = "finish"
    /\ tasks' = IF deploy[d].existing = Untracked THEN tasks
                ELSE tasks \cup {[old |-> deploy[d].existing.id, new |-> deploy[d].new,
                                  at |-> "drain"]}
    /\ Return(d)
    /\ UNCHANGED <<docker, born, tracked, managedCount, recon, operator, monitor, crashes>>

DeployStep(d) ==
    \/ ResolveTracked(d) \/ ResolveFromRuntime(d) \/ Adopt(d) \/ ListOrphans(d)
    \/ CleanOrphan(d) \/ PrepareFails(d) \/ SkipRedundantDeploy(d)
    \/ CreateContainer(d) \/ CreateFails(d) \/ StartContainer(d) \/ StartFails(d)
    \/ BecomeReady(d) \/ ReadinessFails(d) \/ Activate(d) \/ InvalidateTarget(d)
    \/ Stabilized(d) \/ CrashedEarly(d) \/ RestoreOld(d) \/ Reinvalidate(d)
    \/ DropNew(d) \/ BothDead(d) \/ Finish(d)

-----------------------------------------------------------------------------
(* finalizePreviousContainer: drain, then cleanupOldContainer              *)

Advance(t, place) == tasks' = (tasks \ {t}) \cup {[t EXCEPT !.at = place]}

\* The drain is over, or its timeout is.
Drained(t) ==
    /\ t.at = "drain"
    /\ Advance(t, "stop")
    /\ UNCHANGED <<docker, born, tracked, managedCount, lock, deploy, recon,
                   operator, monitor, crashes>>

StopOldSwapped(t) ==      \* the mistake: the two ids are swapped
    /\ t.at = "stop"
    /\ Stop(t.new)
    /\ Advance(t, "remove")
    /\ UNCHANGED <<born, tracked, managedCount, lock, deploy, recon, operator,
                   monitor, crashes>>

StopOld(t) ==
    /\ t.at = "stop"
    /\ Stop(t.old)
    /\ Advance(t, "remove")
    /\ UNCHANGED <<born, tracked, managedCount, lock, deploy, recon, operator,
                   monitor, crashes>>

RemoveOld(t) ==
    /\ t.at = "remove"
    /\ Remove(t.old)
    /\ Advance(t, "rename")
    /\ UNCHANGED <<born, tracked, managedCount, lock, deploy, recon, operator,
                   monitor, crashes>>

RenameNew(t) ==
    /\ t.at = "rename"
    /\ docker' = IF Exists(t.new) /\ ~ NameTaken("canonical")
                 THEN [docker EXCEPT ![t.new].name = "canonical"]
                 ELSE docker
    /\ tasks' = tasks \ {t}
    /\ UNCHANGED <<born, tracked, managedCount, lock, deploy, recon, operator,
                   monitor, crashes>>

TaskStep(t) == Drained(t) \/ StopOld(t) \/ RemoveOld(t) \/ RenameNew(t)

-----------------------------------------------------------------------------
(* ReconcileRemovedRoute                                                   *)

ReconReturn(r) ==
    /\ lock' = Free
    /\ recon' = [recon EXCEPT ![r] = IdleRecon]

CallReconcile(r) ==
    /\ recon[r].at = "idle"
    /\ recon' = [recon EXCEPT ![r].at = "lock"]
    /\ UNCHANGED <<docker, born, tracked, managedCount, lock, deploy, tasks,
                   operator, monitor, crashes>>

GiveUpReconcile(r) ==
    /\ recon[r].at = "lock"
    /\ "cancel" \in Faults
    /\ recon' = [recon EXCEPT ![r] = IdleRecon]
    /\ UNCHANGED <<docker, born, tracked, managedCount, lock, deploy, tasks,
                   operator, monitor, crashes>>

ReconcileLock(r) ==
    /\ recon[r].at = "lock"
    /\ lock = Free
    /\ lock' = r
    /\ recon' = [recon EXCEPT ![r].at = "clear"]
    /\ UNCHANGED <<docker, born, tracked, managedCount, deploy, tasks, operator,
                   monitor, crashes>>

\* The containers are listed, then the tracking is dropped before any is stopped.
ReconcileClear(r) ==
    /\ recon[r].at = "clear"
    /\ recon' = [recon EXCEPT ![r] = [at |-> "invalidate",
                                      todo |-> {c \in Ids : Exists(c)},
                                      running |-> {c \in Ids : Up(c)}]]
    /\ tracked' = Untracked
    /\ managedCount' = IF tracked # Untracked /\ managedCount > 0
                       THEN managedCount - 1 ELSE managedCount
    /\ UNCHANGED <<docker, born, lock, deploy, tasks, operator, monitor, crashes>>

ReconcileListFails(r) ==
    /\ recon[r].at = "clear"
    /\ "list" \in Faults
    /\ ReconReturn(r)
    /\ UNCHANGED <<docker, born, tracked, managedCount, deploy, tasks, operator,
                   monitor, crashes>>

ReconcileInvalidate(r) ==
    /\ recon[r].at = "invalidate"
    /\ recon' = [recon EXCEPT ![r].at = "remove"]
    /\ UNCHANGED <<docker, born, tracked, managedCount, lock, deploy, tasks,
                   operator, monitor, crashes>>

\* Only what was listed as running is stopped before it is removed.
ReconcileRemove(r) ==
    /\ recon[r].at = "remove"
    /\ \E c \in recon[r].todo :
          /\ IF c \in recon[r].running THEN StopAndRemove(c) ELSE Remove(c)
          /\ recon' = [recon EXCEPT ![r].todo = @ \ {c}]
    /\ UNCHANGED <<born, tracked, managedCount, lock, deploy, tasks, operator,
                   monitor, crashes>>

ReconcileDoneEarly(r) ==      \* the mistake: the first removal ends the loop
    /\ recon[r].at = "remove"
    /\ ReconReturn(r)
    /\ UNCHANGED <<docker, born, tracked, managedCount, deploy, tasks, operator,
                   monitor, crashes>>

ReconcileDone(r) ==
    /\ recon[r].at = "remove"
    /\ recon[r].todo = {}
    /\ ReconReturn(r)
    /\ UNCHANGED <<docker, born, tracked, managedCount, deploy, tasks, operator,
                   monitor, crashes>>

ReconcileStep(r) ==
    \/ ReconcileClear(r) \/ ReconcileListFails(r) \/ ReconcileInvalidate(r)
    \/ ReconcileRemove(r) \/ ReconcileDone(r)

-----------------------------------------------------------------------------
(* The calls that take no deploy lock                                      *)

\* What a SyncContainers that lists now would track: its map takes the last active
\* container listed, and the runtime promises no order.
Listed ==
    IF \E c \in Ids : Active(c) THEN {Seen(c) : c \in {c \in Ids : Active(c)}}
    ELSE {Untracked}

\* SyncContainers, called on its own or by a Restart that did not find its container.
SyncList(o) ==
    /\ \/ operator[o].at = "idle" /\ "sync" \in Calls
       \/ operator[o].at = "restart" /\ ~ operator[o].again /\ ~ Exists(operator[o].id)
    /\ \E seen \in Listed :
          operator' = [operator EXCEPT ![o] =
              [at |-> "store", id |-> 0, seen |-> seen,
               again |-> operator[o].at = "restart"]]
    /\ UNCHANGED <<docker, born, tracked, managedCount, lock, deploy, tasks,
                   recon, monitor, crashes>>

SyncStore(o) ==
    /\ operator[o].at = "store"
    /\ tracked' = operator[o].seen
    /\ managedCount' = IF operator[o].seen = Untracked THEN 0 ELSE 1
    /\ operator' = [operator EXCEPT ![o] = IF @.again
                        THEN [IdleOperator EXCEPT !.at = "again"] ELSE IdleOperator]
    /\ UNCHANGED <<docker, born, lock, deploy, tasks, recon, monitor, crashes>>

RestartCall(o) ==
    /\ \/ operator[o].at = "idle" /\ "restart" \in Calls
       \/ operator[o].at = "again"
    /\ operator' = [operator EXCEPT ![o] =
           IF tracked = Untracked THEN IdleOperator
           ELSE [IdleOperator EXCEPT !.at = "restart", !.id = tracked.id,
                                     !.again = operator[o].at = "again"]]
    /\ UNCHANGED <<docker, born, tracked, managedCount, lock, deploy, tasks,
                   recon, monitor, crashes>>

RestartContainer(o) ==
    /\ operator[o].at = "restart"
    /\ IF Exists(operator[o].id) THEN SetStatus(operator[o].id, "running")
       ELSE operator[o].again /\ UNCHANGED docker
    /\ operator' = [operator EXCEPT ![o] = IdleOperator]
    /\ UNCHANGED <<born, tracked, managedCount, lock, deploy, tasks, recon,
                   monitor, crashes>>

OperatorStep(o) == \/ SyncStore(o) \/ RestartContainer(o)
                   \/ operator[o].at = "again" /\ RestartCall(o)
                   \/ operator[o].at = "restart" /\ SyncList(o)

-----------------------------------------------------------------------------
(* The crash monitor                                                       *)

MonitorSnapshot ==
    /\ Monitoring
    /\ monitor.at = "idle"
    /\ tracked # Untracked
    /\ monitor' = [at |-> "inspect", id |-> tracked.id, action |-> "-"]
    /\ UNCHANGED <<docker, born, tracked, managedCount, lock, deploy, tasks,
                   recon, operator, crashes>>

RemedyUnhealthy(c) ==      \* the mistake: exited containers are left to the runtime
    IF Up(c) /\ "unhealthy" \in Faults THEN "restart" ELSE "-"

\* What the inspection calls for.
Remedy(c) ==
    IF docker[c].status \in {"exited", "stopped"} THEN "start"
    ELSE IF Up(c) /\ "unhealthy" \in Faults THEN "restart" ELSE "-"

MonitorInspect ==
    /\ monitor.at = "inspect"
    /\ Remedy(monitor.id) # "-"
    /\ monitor' = [monitor EXCEPT !.at = "verify", !.action = Remedy(monitor.id)]
    /\ UNCHANGED <<docker, born, tracked, managedCount, lock, deploy, tasks,
                   recon, operator, crashes>>

\* The container is healthy, unknown, exited with code 0, or in a crash-loop backoff.
MonitorSkip ==
    /\ monitor.at = "inspect"
    /\ monitor' = IdleMonitor
    /\ UNCHANGED <<docker, born, tracked, managedCount, lock, deploy, tasks,
                   recon, operator, crashes>>

MonitorVerifyNothing ==      \* the mistake: the snapshot is taken as current
    /\ monitor.at = "verify"
    /\ monitor' = [monitor EXCEPT !.at = "act"]
    /\ UNCHANGED <<docker, born, tracked, managedCount, lock, deploy, tasks,
                   recon, operator, crashes>>

MonitorVerify ==
    /\ monitor.at = "verify"
    /\ monitor' = IF tracked.id = monitor.id THEN [monitor EXCEPT !.at = "act"]
                  ELSE IdleMonitor
    /\ UNCHANGED <<docker, born, tracked, managedCount, lock, deploy, tasks,
                   recon, operator, crashes>>

MonitorAct ==
    /\ monitor.at = "act"
    /\ \/ Exists(monitor.id) /\ SetStatus(monitor.id, "running")
       \/ /\ ~ Exists(monitor.id) \/ "start" \in Faults
          /\ UNCHANGED docker
    /\ monitor' = IdleMonitor
    /\ UNCHANGED <<born, tracked, managedCount, lock, deploy, tasks, recon,
                   operator, crashes>>

MonitorStep == MonitorSnapshot \/ MonitorInspect \/ MonitorSkip \/ MonitorVerify
               \/ MonitorAct

-----------------------------------------------------------------------------
(* What happens around the service                                         *)

\* The program in a container dies; the restart policy brings it back.  A "flaky" one
\* only does so while its deploy watches it settle.
ContainerCrashes(c) ==
    /\ \/ "crash" \in Faults
       \/ /\ "flaky" \in Faults
          /\ \E d \in Deployers : deploy[d].at = "stabilize" /\ deploy[d].new = c
    /\ Up(c)
    /\ SetStatus(c, "restarting")
    /\ UNCHANGED <<born, tracked, managedCount, lock, deploy, tasks, recon,
                   operator, monitor, crashes>>

RuntimeRestarts(c) ==
    /\ docker[c].status = "restarting"
    /\ SetStatus(c, "running")
    /\ UNCHANGED <<born, tracked, managedCount, lock, deploy, tasks, recon,
                   operator, monitor, crashes>>

\* Somebody ends a container with the runtime's own tools, and its program exits with
\* an error; an exit with code 0 the monitor leaves alone, as MonitorSkip may.
StoppedExternally(c) ==
    /\ "external" \in Faults
    /\ Active(c)
    /\ SetStatus(c, "exited")
    /\ UNCHANGED <<born, tracked, managedCount, lock, deploy, tasks, recon,
                   operator, monitor, crashes>>

\* The process dies and starts again: the containers live on, its memory does not.
ProcessDies ==
    /\ crashes < MaxCrashes
    /\ crashes' = crashes + 1
    /\ tracked' = Untracked
    /\ managedCount' = 0
    /\ lock' = Free
    /\ deploy' = [d \in Deployers |-> IdleDeploy]
    /\ tasks' = {}
    /\ recon' = [r \in Reconcilers |-> IdleRecon]
    /\ operator' = [o \in Operators |-> IdleOperator]
    /\ monitor' = IdleMonitor
    /\ UNCHANGED <<docker, born>>

-----------------------------------------------------------------------------
Next ==
    \/ \E d \in Deployers : CallDeploy(d) \/ GiveUpWaiting(d) \/ AcquireLock(d)
                            \/ DeployStep(d)
    \/ \E t \in tasks : TaskStep(t)
    \/ \E r \in Reconcilers : CallReconcile(r) \/ GiveUpReconcile(r)
                              \/ ReconcileLock(r) \/ ReconcileStep(r)
    \/ \E o \in Operators : SyncList(o) \/ SyncStore(o) \/ RestartCall(o)
                            \/ RestartContainer(o)
    \/ MonitorStep
    \/ \E c \in Ids : ContainerCrashes(c) \/ RuntimeRestarts(c) \/ StoppedExternally(c)
    \/ ProcessDies

Spec == Init /\ [][Next]_vars

\* The scheduler runs every goroutine; one blocked on the channel of the lock is
\* served in the order it came, so not for ever behind others; a backoff of the
\* monitor ends, and grows until it outlasts the window in which crashes are counted,
\* so it does not skip a container that exited with an error for ever.
Fairness ==
    /\ \A d \in Deployers : WF_vars(DeployStep(d)) /\ SF_vars(AcquireLock(d))
    /\ \A r \in Reconcilers : WF_vars(ReconcileStep(r)) /\ SF_vars(ReconcileLock(r))
    /\ \A o \in Operators : WF_vars(OperatorStep(o))
    /\ WF_vars(\E t \in tasks : TaskStep(t))
    /\ WF_vars(MonitorStep) /\ SF_vars(MonitorInspect)
    /\ \A c \in Ids : WF_vars(RuntimeRestarts(c))

FairSpec == Spec /\ Fairness

-----------------------------------------------------------------------------
(* Properties                                                              *)

\* At most one Deploy or ReconcileRemovedRoute of a domain is between its lock and
\* its unlock, and the lock says which: no early return leaks it, none frees it twice.
LockedSections ==
    /\ \A d \in Deployers : InSection(d) <=> lock = d
    /\ \A r \in Reconcilers : recon[r].at \notin {"idle", "lock"} <=> lock = r

\* The container a Deploy works from is still the tracked one when it uses it: as
\* long as every change of the map is made under the deploy lock (or with the
\* process), nothing a Deploy read at its start is stale at its activation.
ExistingIsCurrent ==
    \A d \in Deployers :
        /\ deploy[d].at \in {"orphans", "clean", "start", "ready", "activate"}
              => tracked = deploy[d].existing
        /\ deploy[d].at \in {"invalidate", "stabilize", "rollback", "finish"}
              => tracked.id = deploy[d].new
        /\ deploy[d].at \in {"reinvalidate", "dropnew"} => tracked = deploy[d].existing

\* No cleanup that is under way, of a replaced container in the background or of
\* orphans at the start of a Deploy, is after the container that serves.
CleanupSparesTracked ==
    /\ \A t \in tasks : t.old # tracked.id
    /\ \A d \in Deployers : tracked.id \notin deploy[d].todo

\* Zero downtime, as the proxy sees it: what the map says serves is running.
TrackedIsUp == tracked # Untracked => Up(tracked.id)

\* Between a Deploy's start and its activation a container is not yet serving.
Candidate(c) ==
    \E d \in Deployers : deploy[d].new = c /\ deploy[d].at \in {"start", "ready", "activate"}

Serving == \E c \in Ids : Up(c) /\ ~ Candidate(c)

\* Zero downtime across the loss of the process: whatever it was doing, as long as
\* the containers themselves do not die there is always one that serves.
NeverDown == [][Serving => Serving']_vars

\* "This prevents name collisions after interrupted zero-downtime deploys"
\* (deploymentContainerName): the name a Deploy is about to use is free.
NameIsFree ==
    \A d \in Deployers :
        deploy[d].at = "clean" /\ deploy[d].todo = {}
            => Redundant(d) \/ ~ NameTaken(NewName(deploy[d].existing))

\* The monitor does not take for a crash what the service stopped itself: it starts
\* no such container, however long ago it took its snapshot.
MonitorRespectsStop ==
    [][\A c \in Ids : MonitorAct /\ docker[c].status = "stopped"
                          => docker'[c].status = "stopped"]_vars

\* A route that was removed has nothing running when its reconciliation returns.
RemovedIsDown ==
    [][\A r \in Reconcilers : ReconcileDone(r) => \A c \in Ids : ~ Active(c)]_vars

\* A tracked container that exited with an error is started again, replaced or no
\* longer tracked.
MonitorRevives ==
    \A c \in Ids : tracked.id = c /\ docker[c].status = "exited"
                      ~> tracked.id # c \/ docker[c].status # "exited"

\* Once nobody deploys any more, the tracked container is the only one left running.
Converges ==
    <>[](\A d \in Deployers : deploy[d].at = "idle")
        => <>[](\A c \in Ids : Up(c) <=> c = tracked.id)
=============================================================================
