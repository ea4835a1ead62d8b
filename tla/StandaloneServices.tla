-------------------------- MODULE StandaloneServices --------------------------
(***************************************************************************)
(* The containers of the standalone services                               *)
(* (usecase/services/service.go): Reconcile lists what runs, makes each    *)
(* configured service match its configuration, one after the other, and    *)
(* cleans up after those that are gone, and the first call that fails ends *)
(* it.  It runs at the start of the process, in its goroutine, and in      *)
(* every reload of the configuration, which may come before the start has  *)
(* finished (app/run.go).                                                  *)
(*                                                                         *)
(* A service has one container, because its name has, and one managed      *)
(* volume.  The hash of its configuration is what it is made from: the     *)
(* image, which stands for environment, ports and readiness too, and the   *)
(* cleanup.  Services are numbers in the order of the configuration.       *)
(***************************************************************************)
EXTENDS Naturals

CONSTANTS ServiceCount,    \* how many services a configuration may have
          ServiceOptions,  \* what may be configured for one
          MaxConfigs,      \* bound: changes of the configuration
          MaxBoxes,        \* bound: containers ever created
          MaxFaults        \* bound: calls that fail and deaths of the process

ASSUME ServicesAssumption ==
    /\ ServiceCount \in Nat \ {0}
    /\ ServiceOptions \subseteq [enabled : BOOLEAN, image : {o.image : o \in ServiceOptions},
                                cleanup : {"remove", "keep", "drop"}]
    /\ MaxConfigs \in Nat /\ MaxBoxes \in Nat /\ MaxFaults \in Nat

VARIABLES
    configured, \* the options of each service, or Absent
    box,        \* its container, or NoBox
    volume,     \* whether its volume exists
    server,     \* whether the process runs
    reconciler, \* a Reconcile: its step, its configuration and what it has listed
    spent       \* the bounded counters

serviceVars == <<configured, box, volume, server, reconciler, spent>>

Services    == 1..ServiceCount
Reconcilers == {"start", "reload"}

\* cleanup: "remove" the container and keep its volumes, which is the default, "keep"
\* both, or remove the container and "drop" the volumes.
Absent == [enabled |-> FALSE, image |-> "none", cleanup |-> "remove"]
NoBox  == [id |-> 0, image |-> "none", cleanup |-> "remove", status |-> "none"]
AtRest == [at |-> "idle", config |-> [s \in Services |-> Absent],
           listed |-> [s \in Services |-> NoBox], left |-> {}, service |-> 1, found |-> NoBox,
           alone |-> FALSE]

ServicesInit ==
    /\ configured \in [Services -> ServiceOptions]
    /\ box = [s \in Services |-> NoBox]
    /\ volume = [s \in Services |-> FALSE]
    /\ server = FALSE
    /\ reconciler = [r \in Reconcilers |-> AtRest]
    /\ spent = [configs |-> 0, boxes |-> 0, faults |-> 0]

Configs == [Services -> ServiceOptions]
Boxes   == [id : 0..MaxBoxes, image : {o.image : o \in ServiceOptions \cup {NoBox}},
            cleanup : {"remove", "keep", "drop"},
            status : {"none", "created", "running", "restarting", "exited"}]

Reconciles == [at : {"idle", "lists", "picks", "stops", "removes", "unmounts", "creates",
                     "starts", "waits"},
               config : [Services -> ServiceOptions \cup {Absent}], listed : [Services -> Boxes],
               left : SUBSET Services, service : Services, found : Boxes, alone : BOOLEAN]

ServicesTypeOK ==
    /\ configured \in Configs
    /\ box \in [Services -> Boxes]
    /\ volume \in [Services -> BOOLEAN]
    /\ server \in BOOLEAN
    /\ reconciler \in [Reconcilers -> Reconciles]
    /\ spent \in [configs : 0..MaxConfigs, boxes : 0..MaxBoxes, faults : 0..MaxFaults]

Spends(c, bound) == spent[c] < bound /\ spent' = [spent EXCEPT ![c] = @ + 1]

-----------------------------------------------------------------------------
(* Reconcile                                                               *)

\* What was found is forgotten once no call is about it, the service when it is done.
Concerned(at, found) == IF at \in {"stops", "removes", "starts"} THEN found ELSE NoBox

Goes(r, at) ==
    reconciler' = [reconciler EXCEPT ![r].at = at,
                       ![r].service = IF at = "picks" THEN 1 ELSE @,
                       ![r].found = Concerned(at, @)]

\* The error of a reload is logged, the error of the start ends the process.
ReportsError(r) ==
    /\ reconciler' = [q \in Reconcilers |->
                         IF q = r \/ r = "start" THEN AtRest ELSE reconciler[q]]
    /\ server' = (r # "start")

\* A call cannot do what it should, or fails though it could.
CallFails(r, can) ==
    /\ ReportsError(r)
    /\ IF can THEN Spends("faults", MaxFaults) ELSE UNCHANGED spent
    /\ UNCHANGED <<configured, box, volume>>

\* The configuration is read at the start of the process and at the start of a reload; a
\* Reconcile is alone until another one begins.
Begins(r) ==
    /\ reconciler' = [q \in Reconcilers |->
            IF q = r
            THEN [AtRest EXCEPT !.at = "lists", !.config = configured,
                      !.alone = \A p \in Reconcilers : reconciler[p].at = "idle"]
            ELSE [reconciler[q] EXCEPT !.alone = FALSE]]
    /\ UNCHANGED <<configured, box, volume, spent>>

ServerStarts ==
    /\ ~ server
    /\ server' = TRUE
    /\ Begins("start")

\* Reloads exclude each other, but not the start.
ReloadStarts ==
    /\ server
    /\ reconciler["reload"].at = "idle"
    /\ Begins("reload")
    /\ UNCHANGED server

\* ListContainers: the services to visit are those configured and those found.
ListsServices(r) ==
    /\ reconciler[r].at = "lists"
    /\ \/ /\ reconciler' = [reconciler EXCEPT ![r].at = "picks", ![r].listed = box,
                  ![r].left = {s \in Services :
                                  reconciler[r].config[s] # Absent \/ box[s] # NoBox}]
          /\ UNCHANGED <<configured, box, volume, server, spent>>
       \/ CallFails(r, TRUE)

\* What a container carries in its labels: the hash it was made with.
Matches(found, option) == found.image = option.image /\ found.cleanup = option.cleanup

\* cleanupFromLabels, if the service is no longer configured at all.
Cleanup(config, found) == IF config = Absent THEN found.cleanup ELSE config.cleanup

Replaces(config) == config.enabled

\* Once its container is stopped: what recreate and cleanupContainer do next.
AfterStop(config, found) ==
    IF Cleanup(config, found) # "keep" THEN "removes"
    ELSE IF Replaces(config) THEN "creates" ELSE "picks"

\* Mutated: a container with the right configuration is taken to run.
FirstStepTrusting(config, found) ==
    IF found = NoBox THEN IF config.enabled THEN "creates" ELSE "picks"
    ELSE IF config.enabled /\ Matches(found, config) THEN "waits"
    ELSE IF found.status = "running" THEN "stops" ELSE AfterStop(config, found)

\* reconcileOne, stopDisabled and stopRemoved: the first call for what was listed.
FirstStep(config, found) ==
    IF found = NoBox THEN IF config.enabled THEN "creates" ELSE "picks"
    ELSE IF config.enabled /\ Matches(found, config)
         THEN IF found.status = "running" THEN "waits" ELSE "starts"
    ELSE IF found.status = "running" THEN "stops" ELSE AfterStop(config, found)

\* The configured services in their order, then the others in the order of a map.
PicksService(r) ==
    LET me    == reconciler[r]
        named == {s \in me.left : me.config[s] # Absent}
    IN
    /\ me.at = "picks"
    /\ \E s \in me.left :
       LET first == FirstStep(me.config[s], me.listed[s]) IN
       /\ \A t \in named : s \in named /\ s <= t
       /\ reconciler' = [reconciler EXCEPT ![r].at = first,
                             ![r].service = IF first = "picks" THEN 1 ELSE s,
                             ![r].found = Concerned(first, me.listed[s]),
                             ![r].listed[s] = NoBox, ![r].left = @ \ {s}]
    /\ UNCHANGED <<configured, box, volume, server, spent>>

\* The service at hand, its configuration, and the container a call of r is about.
Picked(r)   == reconciler[r].service
Wanted(r)   == reconciler[r].config[Picked(r)]
Found(r)    == reconciler[r].found
SameBox(r)  == box[Picked(r)].id = Found(r).id

StopsService(r) ==
    /\ reconciler[r].at = "stops"
    /\ \/ /\ SameBox(r)
          /\ box' = [box EXCEPT ![Picked(r)].status = "exited"]
          /\ Goes(r, AfterStop(Wanted(r), Found(r)))
          /\ UNCHANGED <<configured, volume, server, spent>>
       \/ CallFails(r, SameBox(r))

\* By force, so in any state.  Volumes are only dropped with a service that goes.
RemovesService(r) ==
    /\ reconciler[r].at = "removes"
    /\ \/ /\ SameBox(r)
          /\ box' = [box EXCEPT ![Picked(r)] = NoBox]
          /\ Goes(r, IF Replaces(Wanted(r)) THEN "creates"
                     ELSE IF Cleanup(Wanted(r), Found(r)) = "drop" THEN "unmounts" ELSE "picks")
          /\ UNCHANGED <<configured, volume, server, spent>>
       \/ CallFails(r, SameBox(r))

\* removeManagedVolumes: a volume in use cannot be removed.
DropsVolumes(r) ==
    /\ reconciler[r].at = "unmounts"
    /\ \/ /\ box[Picked(r)] = NoBox
          /\ volume' = [volume EXCEPT ![Picked(r)] = FALSE]
          /\ Goes(r, "picks")
          /\ UNCHANGED <<configured, box, server, spent>>
       \/ CallFails(r, box[Picked(r)] = NoBox)

\* CreateContainer fails while another container has the name.
CreatesService(r) ==
    LET made == [id |-> spent.boxes + 1, image |-> Wanted(r).image,
                 cleanup |-> Wanted(r).cleanup, status |-> "created"]
    IN
    /\ reconciler[r].at = "creates"
    /\ \/ /\ box[Picked(r)] = NoBox
          /\ Spends("boxes", MaxBoxes)
          /\ box' = [box EXCEPT ![Picked(r)] = made]
          /\ volume' = [volume EXCEPT ![Picked(r)] = TRUE]
          /\ reconciler' = [reconciler EXCEPT ![r].at = "starts", ![r].found = made]
          /\ UNCHANGED <<configured, server>>
       \/ CallFails(r, box[Picked(r)] = NoBox)

\* StartContainer does nothing to a container that runs or is about to.
StartsService(r) ==
    /\ reconciler[r].at = "starts"
    /\ \/ /\ SameBox(r)
          /\ box' = IF box[Picked(r)].status = "restarting" THEN box
                    ELSE [box EXCEPT ![Picked(r)].status = "running"]
          /\ Goes(r, "waits")
          /\ UNCHANGED <<configured, volume, server, spent>>
       \/ CallFails(r, SameBox(r))

\* waitReadiness: a port that answers or a line in a log, whosever it is.
AwaitsService(r) ==
    /\ reconciler[r].at = "waits"
    /\ \/ /\ Goes(r, "picks")
          /\ UNCHANGED <<configured, box, volume, server, spent>>
       \/ CallFails(r, TRUE)

ReconcileReturns(r) ==
    /\ reconciler[r].at = "picks"
    /\ reconciler[r].left = {}
    /\ reconciler' = [reconciler EXCEPT ![r] = AtRest]
    /\ UNCHANGED <<configured, box, volume, server, spent>>

-----------------------------------------------------------------------------
(* Around it                                                               *)

\* [[services]] is edited.
EditsServices(s) ==
    /\ Spends("configs", MaxConfigs)
    /\ \E o \in ServiceOptions : configured' = [configured EXCEPT ![s] = o]
    /\ UNCHANGED <<box, volume, server, reconciler>>

\* RestartPolicyAlways: the runtime starts again what ends by itself, after a while.
EndsByItself(s) ==
    /\ box[s].status = "running"
    /\ box' = [box EXCEPT ![s].status = "restarting"]
    /\ UNCHANGED <<configured, volume, server, reconciler, spent>>

IsRestarted(s) ==
    /\ box[s].status = "restarting"
    /\ box' = [box EXCEPT ![s].status = "running"]
    /\ UNCHANGED <<configured, volume, server, reconciler, spent>>

ServerEnds ==
    /\ server
    /\ Spends("faults", MaxFaults)
    /\ server' = FALSE
    /\ reconciler' = [r \in Reconcilers |-> AtRest]
    /\ UNCHANGED <<configured, box, volume>>

ReconcileStep(r) ==
    \/ ListsServices(r) \/ PicksService(r) \/ StopsService(r) \/ RemovesService(r)
    \/ DropsVolumes(r) \/ CreatesService(r) \/ StartsService(r) \/ AwaitsService(r)
    \/ ReconcileReturns(r)

ServicesNext ==
    \/ ServerStarts \/ ReloadStarts \/ ServerEnds
    \/ \E r \in Reconcilers : ReconcileStep(r)
    \/ \E s \in Services : EditsServices(s) \/ EndsByItself(s) \/ IsRestarted(s)

ServicesSpec == ServicesInit /\ [][ServicesNext]_serviceVars

-----------------------------------------------------------------------------
(* Correctness                                                             *)

\* What Reconcile promises of a service.
Settled(r, s) ==
    LET config == reconciler[r].config[s] IN
    IF config.enabled
    THEN /\ Matches(box[s], config)
         /\ box[s].status \in {"running", "restarting"}
         /\ volume[s]
    ELSE box[s] = NoBox \/ Cleanup(config, box[s]) = "keep"

\* Wherever an earlier Reconcile was cut off, by an error, a death or another one beside
\* it, and however the configuration has changed since: one that no other overlaps and
\* that reports no error leaves each enabled service in a container made from its
\* configuration, started and with its volume, and no container of a service that is
\* disabled or gone, unless it is to be kept (Service.Reconcile).
ReconcileSettles ==
    [][\A r \in Reconcilers : (ReconcileReturns(r) /\ reconciler[r].alone) =>
          \A s \in Services : Settled(r, s)]_serviceVars
=============================================================================
