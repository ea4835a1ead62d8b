----------------------------- MODULE Attachments -----------------------------
(***************************************************************************)
(* The attachments of a route (usecase/container/service.go): before its   *)
(* container is deployed, its network is made if need be and each          *)
(* configured attachment is found, replaced or created, in order.  The     *)
(* first that fails ends the deploy and rolls back.  The clean-up of       *)
(* orphaned attachments, SyncContainers and a Restart with attachments     *)
(* take no deploy lock.                                                    *)
(*                                                                         *)
(* One route: routes share their group's network and nothing else.  An     *)
(* attachment has one container name, so at most one container; its        *)
(* version is the configured image, to which the hash of the environment   *)
(* is one more reason to drift.  The services are numbers in the order in  *)
(* which they are configured.                                              *)
(***************************************************************************)
EXTENDS Naturals, Sequences, SequencesExt, Enumerations

CONSTANTS AttachmentCount,  \* how many attachments the route may have
          AttachmentImages, \* the images of one service, numbers above 0
          MaxReconfigs,     \* bound: changes of the configuration
          MaxIds,           \* bound: containers ever created
          MaxFailing        \* bound: failing calls, stops from outside, deaths

ASSUME AttachmentAssumption ==
    /\ AttachmentCount \in Nat
    /\ MaxReconfigs \in Nat
    /\ MaxIds \in Nat
    /\ MaxFailing \in Nat

VARIABLES
    wanted,     \* the configured version of each service, 0 when there is none
    network,    \* whether the group's network exists
    attachment, \* the container of each service, or NoBox
    born,       \* containers ever created
    tracked,    \* Service.attachments: the ids known for the route
    routeDeploy,\* the deploy of the route, which its lock keeps alone
    orphans,    \* what a CleanupOrphanedAttachments has still to remove
    listing,    \* what a SyncContainers has listed, and whether a Restart waits for it
    relied,     \* history: the ids the last successful deploy was made with
    misses      \* the bounded counters

attachmentVars == <<wanted, network, attachment, born, tracked, routeDeploy, orphans,
                    listing, relied, misses>>

Services == 1..AttachmentCount
Ids      == 1..MaxIds
NoBox    == [id |-> 0, version |-> 0, status |-> "none"]
NoDeploy == [at |-> "idle", todo |-> <<>>, id |-> 0, deployed |-> <<>>]
NoList   == [at |-> "idle", seen |-> <<>>, restart |-> FALSE]

\* The first service is configured from the start, or none is.
AttachmentsInit ==
    /\ wanted \in {[s \in Services |-> IF s = 1 THEN v ELSE 0] :
                      v \in {0} \cup AttachmentImages}
    /\ network = FALSE
    /\ attachment = [s \in Services |-> NoBox]
    /\ born = 0
    /\ tracked = <<>>
    /\ routeDeploy = NoDeploy
    /\ orphans = {}
    /\ listing = NoList
    /\ relied = {}
    /\ misses = [faults |-> 0, reconfigs |-> 0]

Places == {"idle", "network", "connects", "resolves", "finds", "stops", "removes",
           "creates", "starts", "waits", "undoes", "runs"}

AttachmentsTypeOK ==
    /\ wanted \in [Services -> {0} \cup AttachmentImages]
    /\ network \in BOOLEAN
    /\ attachment \in [Services -> {NoBox} \cup
                [id : Ids, version : AttachmentImages, status : {"stopped", "running"}]]
    /\ born \in 0..MaxIds
    /\ ToSet(tracked) \subseteq 1..born
    /\ routeDeploy.at \in Places
    /\ \A i \in DOMAIN routeDeploy.todo :
          routeDeploy.todo[i] \in [service : Services, version : AttachmentImages]
    /\ routeDeploy.at \in {"stops", "removes", "starts", "waits"} =>
          routeDeploy.id \in 1..born /\ routeDeploy.todo # <<>>
    /\ ToSet(routeDeploy.deployed) \cup orphans \cup relied \subseteq 1..born
    /\ listing.at \in {"idle", "stores", "restarts"}
    /\ misses \in [faults : 0..MaxFailing, reconfigs : 0..MaxReconfigs]

Spends(c, bound) == misses[c] < bound /\ misses' = [misses EXCEPT ![c] = @ + 1]
CallFails == Spends("faults", MaxFailing)

-----------------------------------------------------------------------------
(* The calls of the runtime                                                *)

Exists(id) == \E s \in Services : attachment[s].id = id
Runs(id)   == \E s \in Services : attachment[s].id = id /\ attachment[s].status = "running"

\* A container that no longer exists is changed by no call.
SetStatus(ids, status) ==
    attachment' = [s \in Services |->
        IF attachment[s].id \in ids THEN [attachment[s] EXCEPT !.status = status]
        ELSE attachment[s]]
RemoveContainer(ids) ==
    attachment' = [s \in Services |->
        IF attachment[s].id \in ids THEN NoBox ELSE attachment[s]]

\* A call works on a container that exists, unless it fails, and CallFails counts that.
Works(can)   == can /\ UNCHANGED misses
DoesNot(can) == IF can THEN CallFails ELSE UNCHANGED misses

\* The removal after an error may fail in turn.
Discards(id) == RemoveContainer({id}) \/ SetStatus({id}, "stopped")

-----------------------------------------------------------------------------
(* A deploy                                                                *)

DeployGoes(at) == routeDeploy' = [routeDeploy EXCEPT !.at = at]
Wanted   == routeDeploy.todo[1]
Rest     == Tail(routeDeploy.todo)
Found    == attachment[Wanted.service]
Own      == routeDeploy.id

\* What resolveAttachmentsForDomain returns: the route's own, then the group's.
Configured ==
    LET used == InOrder({s \in Services : wanted[s] # 0}) IN
    [k \in DOMAIN used |-> [service |-> used[k], version |-> wanted[used[k]]]]

\* deployAttachments takes the last id tracked for the one just deployed, also when the
\* attachment was running and none was deployed.
Advances(ids) ==
    routeDeploy' = [routeDeploy EXCEPT
        !.at = IF Rest = <<>> THEN "runs" ELSE "finds",
        !.todo = Rest,
        !.deployed = IF ids = <<>> THEN @ ELSE Append(@, Last(ids))]

CallDeploy ==
    /\ routeDeploy.at = "idle"
    /\ DeployGoes("network")
    /\ UNCHANGED <<wanted, network, attachment, born, tracked, orphans, listing, relied,
                   misses>>

FindsNetwork ==
    /\ routeDeploy.at = "network"
    /\ \/ DeployGoes(IF network THEN "resolves" ELSE "connects") /\ UNCHANGED misses
       \/ routeDeploy' = NoDeploy /\ CallFails
    /\ UNCHANGED <<wanted, network, attachment, born, tracked, orphans, listing, relied>>

\* The runtime refuses a second network of the same name.
MakesNetwork ==
    /\ routeDeploy.at = "connects"
    /\ \/ Works(~ network) /\ network' = TRUE /\ DeployGoes("resolves")
       \/ DoesNot(~ network) /\ routeDeploy' = NoDeploy /\ UNCHANGED network
    /\ UNCHANGED <<wanted, attachment, born, tracked, orphans, listing, relied>>

ResolvesAttachments ==
    /\ routeDeploy.at = "resolves"
    /\ routeDeploy' = [routeDeploy EXCEPT !.todo = Configured,
                      !.at = IF Configured = <<>> THEN "runs" ELSE "finds"]
    /\ UNCHANGED <<wanted, network, attachment, born, tracked, orphans, listing, relied,
                   misses>>

\* Mutated: a stopped container is left to the runtime's restart policy.
HandledRunning(found, version) ==
    IF found.status # "running" THEN "creates"
    ELSE IF found.version # version THEN "stops" ELSE "skips"

\* What handleRunningAttachment and removeStoppedAttachment do next with what was found.
Handled(found, version) ==
    IF found = NoBox THEN "creates"
    ELSE IF found.status = "stopped" THEN "removes"
    ELSE IF found.status = "running" /\ found.version # version THEN "stops" ELSE "skips"

\* Mutated: what was found is replaced without its id being kept.
FindsUnnamed ==
    LET step == Handled(Found, Wanted.version)
    IN  /\ routeDeploy.at = "finds"
        /\ IF step = "skips" THEN Advances(tracked) ELSE DeployGoes(step)
        /\ UNCHANGED <<wanted, network, attachment, born, tracked, orphans, listing, relied,
                       misses>>

\* A listing that fails finds nothing; an environment that cannot be read is an error.
FindsAttachment ==
    LET step == Handled(Found, Wanted.version)
    IN  /\ routeDeploy.at = "finds"
        /\ \/ step = "skips" /\ Advances(tracked) /\ UNCHANGED misses
           \/ /\ step # "skips"
              /\ routeDeploy' = [routeDeploy EXCEPT !.at = step, !.id = Found.id]
              /\ UNCHANGED misses
           \/ routeDeploy' = [routeDeploy EXCEPT !.at = "creates", !.id = 0] /\ CallFails
           \/ Found.status = "running" /\ DeployGoes("undoes") /\ CallFails
        /\ UNCHANGED <<wanted, network, attachment, born, tracked, orphans, listing, relied>>

StopsDrifted ==
    /\ routeDeploy.at = "stops"
    /\ \/ Works(Exists(Own)) /\ SetStatus({Own}, "stopped") /\ DeployGoes("removes")
       \/ DoesNot(Exists(Own)) /\ DeployGoes("undoes") /\ UNCHANGED attachment
    /\ UNCHANGED <<wanted, network, born, tracked, orphans, listing, relied>>

RemovesFound ==
    /\ routeDeploy.at = "removes"
    /\ \/ Works(Exists(Own)) /\ RemoveContainer({Own}) /\ DeployGoes("creates")
       \/ DoesNot(Exists(Own)) /\ DeployGoes("undoes") /\ UNCHANGED attachment
    /\ UNCHANGED <<wanted, network, born, tracked, orphans, listing, relied>>

Created ==
    /\ born < MaxIds
    /\ born' = born + 1
    /\ attachment' = [attachment EXCEPT ![Wanted.service] =
                         [id |-> born', version |-> Wanted.version, status |-> "stopped"]]

\* The name may be taken, the image may not be had, and a container that was created but
\* cannot be inspected is an error that leaves it there.
CreatesAttachment ==
    /\ routeDeploy.at = "creates"
    /\ \/ /\ Works(Found = NoBox)
          /\ Created
          /\ routeDeploy' = [routeDeploy EXCEPT !.at = "starts", !.id = born']
       \/ DoesNot(Found = NoBox) /\ DeployGoes("undoes") /\ UNCHANGED <<attachment, born>>
       \/ Found = NoBox /\ Created /\ DeployGoes("undoes") /\ CallFails
    /\ UNCHANGED <<wanted, network, tracked, orphans, listing, relied>>

StartsAttachment ==
    /\ routeDeploy.at = "starts"
    /\ \/ Works(Exists(Own)) /\ SetStatus({Own}, "running") /\ DeployGoes("waits")
       \/ DoesNot(Exists(Own)) /\ Discards(Own) /\ DeployGoes("undoes")
    /\ UNCHANGED <<wanted, network, born, tracked, orphans, listing, relied>>

\* waitForAttachmentReady: running, then healthy or probed or waited for, as configured,
\* which may fail; what is ready is tracked.
AwaitsAttachment ==
    /\ routeDeploy.at = "waits"
    /\ \/ /\ Works(Runs(Own))
          /\ tracked' = Append(tracked, Own)
          /\ Advances(tracked')
          /\ UNCHANGED attachment
       \/ /\ DoesNot(Runs(Own))
          /\ Discards(Own)
          /\ DeployGoes("undoes")
          /\ UNCHANGED tracked
    /\ UNCHANGED <<wanted, network, born, orphans, listing, relied>>

\* The rollback: what was collected is stopped and removed, as far as that works, and is
\* tracked no longer.
RollsBack ==
    LET ids == ToSet(routeDeploy.deployed)
    IN  /\ routeDeploy.at = "undoes"
        /\ \/ RemoveContainer(ids) /\ UNCHANGED misses
           \/ (\E left \in ids : RemoveContainer(ids \ {left})) /\ CallFails
        /\ tracked' = Dropping(tracked, ids)
        /\ routeDeploy' = NoDeploy
        /\ UNCHANGED <<wanted, network, born, orphans, listing, relied>>

\* The rest of the deploy, which touches no attachment and may fail.
RunsRoute ==
    /\ routeDeploy.at = "runs"
    /\ routeDeploy' = NoDeploy
    /\ \/ relied' = {attachment[s].id : s \in Services} \ {0} /\ UNCHANGED misses
       \/ CallFails /\ UNCHANGED relied
    /\ UNCHANGED <<wanted, network, attachment, born, tracked, orphans, listing>>

DeployStep ==
    \/ CallDeploy \/ FindsNetwork \/ MakesNetwork \/ ResolvesAttachments
    \/ FindsAttachment \/ StopsDrifted \/ RemovesFound \/ CreatesAttachment
    \/ StartsAttachment \/ AwaitsAttachment \/ RollsBack \/ RunsRoute

-----------------------------------------------------------------------------
(* The calls without the deploy lock                                       *)

\* CleanupOrphanedAttachments: what is listed and not configured with that very image.
ListsOrphans ==
    /\ orphans = {}
    /\ orphans' = {attachment[s].id : s \in
                      {s \in Services : attachment[s].version # wanted[s]}} \ {0}
    /\ orphans' # {}
    /\ UNCHANGED <<wanted, network, attachment, born, tracked, routeDeploy, listing, relied,
                   misses>>

RemovesOrphan(id) ==
    /\ orphans' = orphans \ {id}
    /\ \/ /\ Works(Exists(id))
          /\ RemoveContainer({id})
          /\ tracked' = Dropping(tracked, {id})
       \/ DoesNot(Exists(id)) /\ SetStatus({id}, "stopped") /\ UNCHANGED tracked
    /\ UNCHANGED <<wanted, network, born, routeDeploy, listing, relied>>

\* SyncContainers, on its own or in a Restart with attachments.  The runtime lists in any
\* order.
ListsAttachments ==
    /\ listing.at = "idle"
    /\ \E restart \in BOOLEAN,
          seen \in SetToSeqs({id \in Ids : Runs(id)}) :
             listing' = [at |-> "stores", seen |-> seen, restart |-> restart]
    /\ UNCHANGED <<wanted, network, attachment, born, tracked, routeDeploy, orphans, relied,
                   misses>>

StoresAttachments ==
    /\ listing.at = "stores"
    /\ tracked' = listing.seen
    /\ listing' = IF listing.restart THEN [NoList EXCEPT !.at = "restarts"] ELSE NoList
    /\ UNCHANGED <<wanted, network, attachment, born, routeDeploy, orphans, relied, misses>>

\* Restart gives up when fewer are tracked than configured.
RestartsAttachments ==
    /\ listing.at = "restarts"
    /\ listing' = NoList
    /\ IF Len(tracked) < Len(Configured) THEN UNCHANGED attachment
       ELSE SetStatus(ToSet(tracked), "running")
    /\ UNCHANGED <<wanted, network, born, tracked, routeDeploy, orphans, relied, misses>>

-----------------------------------------------------------------------------
(* The operator, the runtime, the process                                  *)

Reconfigures(s) ==
    /\ \E v \in {0} \cup AttachmentImages : wanted' = [wanted EXCEPT ![s] = v]
    /\ Spends("reconfigs", MaxReconfigs)
    /\ UNCHANGED <<network, attachment, born, tracked, routeDeploy, orphans, listing,
                   relied>>

\* Another route of the group is deployed.
GroupMakesNetwork ==
    /\ ~ network
    /\ network' = TRUE
    /\ UNCHANGED <<wanted, attachment, born, tracked, routeDeploy, orphans, listing, relied,
                   misses>>

StopsOutside(s) ==
    /\ attachment[s].status = "running"
    /\ SetStatus({attachment[s].id}, "stopped")
    /\ CallFails
    /\ UNCHANGED <<wanted, network, born, tracked, routeDeploy, orphans, listing, relied>>

ProcessEnds ==
    /\ CallFails
    /\ tracked' = <<>>
    /\ routeDeploy' = NoDeploy
    /\ orphans' = {}
    /\ listing' = NoList
    /\ UNCHANGED <<wanted, network, attachment, born, relied>>

AttachmentsNext ==
    \/ DeployStep
    \/ ListsOrphans \/ (\E id \in orphans : RemovesOrphan(id))
    \/ ListsAttachments \/ StoresAttachments \/ RestartsAttachments
    \/ \E s \in Services : Reconfigures(s) \/ StopsOutside(s)
    \/ GroupMakesNetwork \/ ProcessEnds

-----------------------------------------------------------------------------
(* Properties                                                              *)

\* When the route is deployed again and again, every configured attachment ends up
\* running with its configured image, whatever has failed, been stopped or reconfigured:
\* no leftover of the same name, rollback, clean-up beside a deploy or id of a container
\* that is gone keeps later deploys from it.
DeploysSettle ==
    <>[](\A s \in Services :
            wanted[s] # 0 =>
                attachment[s].status = "running" /\ attachment[s].version = wanted[s])

\* A deploy's rollback leaves alone an attachment that runs as configured and with
\* which the last successful deploy was made.
AttachmentsPersist ==
    [][\A s \in Services :
          (/\ attachment[s].id \in relied
           /\ attachment[s].status = "running"
           /\ attachment[s].version = wanted[s]
           /\ RollsBack)
          => attachment'[s] = attachment[s]]_attachmentVars
=============================================================================
