------------------------------- MODULE CliPush -------------------------------
(***************************************************************************)
(* "gordon push" against the server: adapters/in/cli/push.go registers a   *)
(* deploy intent, pushes the image with pkg/registrypush under two tags    *)
(* and asks for a deploy of its own.  The intent suppresses the image.     *)
(* pushed events of the registry, usecase/registry/service.go, until that  *)
(* deploy clears it or a timer of two minutes does.  A docker push is one  *)
(* whose intent fails and that leaves without a deploy.                    *)
(*                                                                         *)
(* One image and one route, which runs the tag "latest".  An image is the  *)
(* number of the push that stored it; the push of the version's tag, which *)
(* no route names, is left out.  A deploy is what Deploy promises: under   *)
(* the route's lock it starts what the tag holds by then, or fails.        *)
(***************************************************************************)
EXTENDS Naturals

CONSTANTS Clients,     \* runs of gordon push
          MaxAttempts, \* retryMaxAttempts of the client
          Server       \* the event loop, as a caller of Deploy

ASSUME PushAssumption ==
    /\ MaxAttempts \in Nat
    /\ Server \notin Clients \X (1..MaxAttempts)

VARIABLES
    client,     \* the pushes
    suppressed, \* suppressedImages: the image's timer, or None
    expiry,     \* the timers, one per intent
    latest,     \* the push whose image the tag "latest" names
    events,     \* image.pushed events for the tag "latest" that wait for the loop
    job,        \* the deploys: one per attempt of a client, one of the event loop
    deployLock, \* who holds the route's lock: one caller or none
    running     \* the push whose image runs

pushVars == <<client, suppressed, expiry, latest, events, job, deployLock, running>>

None     == "none"
Attempts == Clients \X (1..MaxAttempts)
Callers  == Attempts \cup {Server}

PushInit ==
    /\ client = [c \in Clients |->
                    [at |-> "intent", stamp |-> 0, attempt |-> 0, old |-> None]]
    /\ suppressed = None
    /\ expiry = [c \in Clients |-> "unmade"]
    /\ latest = 0
    /\ events = 0
    /\ job = [j \in Callers |-> [at |-> "idle", image |-> 0]]
    /\ deployLock = {}
    /\ running = 0

PushTypeOK ==
    /\ client \in [Clients -> [at : {"intent", "replace", "push", "announce", "pushed", "wait",
                                    "retry", "done", "deployed"},
                              stamp : Nat, attempt : 0..MaxAttempts,
                              old : Clients \cup {None}]]
    /\ suppressed \in Clients \cup {None}
    /\ expiry \in [Clients -> {"unmade", "armed", "fired", "deletes", "over"}]
    /\ events \in Nat /\ latest \in Nat
    /\ job \in [Callers -> [at : {"idle", "waits", "deploys", "clears", "deployed", "failed"},
                           image : Nat]]
    /\ deployLock \subseteq Callers
    /\ \A j \in deployLock : job[j].at = "deploys"
    /\ running \in 0..latest

Goes(c, at) == client' = [client EXCEPT ![c].at = at]

\* The command returns, and forgets what it knew.
Ends(c, at) ==
    client' = [client EXCEPT ![c] = [at |-> at, stamp |-> 0, attempt |-> 0, old |-> None]]

-----------------------------------------------------------------------------
(* The intent                                                              *)

\* The server refuses: the client leaves the deploy to it.  Any other error is ignored.
IntentFails(c) ==
    /\ client[c].at = "intent"
    /\ Goes(c, "push")
    /\ UNCHANGED <<suppressed, expiry, latest, events, job, deployLock, running>>

\* SuppressDeployEvent: the timer runs before LoadOrStore.
Suppress(c) ==
    /\ client[c].at = "intent"
    /\ expiry' = [expiry EXCEPT ![c] = "armed"]
    /\ client' = [client EXCEPT ![c].old = suppressed,
                               ![c].at = IF suppressed = None THEN "push" ELSE "replace"]
    /\ suppressed' = IF suppressed = None THEN c ELSE suppressed
    /\ UNCHANGED <<latest, events, job, deployLock, running>>

StopTimer(t) == IF expiry[t] = "armed" THEN [expiry EXCEPT ![t] = "over"] ELSE expiry

\* Mutated: the old timer is stopped, and the new one is not stored.
SuppressKeepsOld(c) ==
    /\ client[c].at = "replace"
    /\ expiry' = StopTimer(client[c].old)
    /\ Goes(c, "push")
    /\ UNCHANGED <<suppressed, latest, events, job, deployLock, running>>

\* An entry was there: its timer is stopped and replaced.
SuppressReplaces(c) ==
    /\ client[c].at = "replace"
    /\ expiry' = StopTimer(client[c].old)
    /\ suppressed' = c
    /\ client' = [client EXCEPT ![c].at = "push", ![c].old = None]
    /\ UNCHANGED <<latest, events, job, deployLock, running>>

\* Two minutes later: the calls that made the timer are long over.
Expires(t) ==
    /\ expiry[t] = "armed"
    /\ client[t].at # "replace"
    /\ expiry' = [expiry EXCEPT ![t] = "fired"]
    /\ UNCHANGED <<client, suppressed, latest, events, job, deployLock, running>>

ExpiryChecks(t) ==
    /\ expiry[t] = "fired"
    /\ expiry' = [expiry EXCEPT ![t] = IF suppressed = t THEN "deletes" ELSE "over"]
    /\ UNCHANGED <<client, suppressed, latest, events, job, deployLock, running>>

\* The check is over by now: whatever is in the map goes.
ExpiryDeletes(t) ==
    /\ expiry[t] = "deletes"
    /\ expiry' = [expiry EXCEPT ![t] = "over"]
    /\ suppressed' = None
    /\ UNCHANGED <<client, latest, events, job, deployLock, running>>

-----------------------------------------------------------------------------
(* The push                                                                *)

\* The build, a layer or the manifest fails, and the intent stays until it expires.
PushGivesUp(c) ==
    /\ client[c].at = "push"
    /\ Ends(c, "done")
    /\ UNCHANGED <<suppressed, expiry, latest, events, job, deployLock, running>>

\* The layers are up, and PutManifest stores the manifest ...
StoreImage(c) ==
    /\ client[c].at = "push"
    /\ latest' = latest + 1
    /\ client' = [client EXCEPT ![c].at = "announce", ![c].stamp = latest + 1]
    /\ UNCHANGED <<suppressed, expiry, events, job, deployLock, running>>

\* ... and publishes the event, unless one is suppressed.
Announce(c) ==
    /\ client[c].at = "announce"
    /\ events' = IF suppressed = None THEN events + 1 ELSE events
    /\ Goes(c, "pushed")
    /\ UNCHANGED <<suppressed, expiry, latest, job, deployLock, running>>

\* --no-deploy, a token without the scope, or the answer to "Deploy now?".
Leave(c) ==
    /\ client[c].at = "pushed"
    /\ Ends(c, "done")
    /\ UNCHANGED <<suppressed, expiry, latest, events, job, deployLock, running>>

AskForDeploy(c) ==
    /\ client[c].at \in {"pushed", "retry"}
    /\ client' = [client EXCEPT ![c].at = "wait", ![c].attempt = @ + 1]
    /\ job' = [job EXCEPT ![<<c, client[c].attempt + 1>>].at = "waits"]
    /\ UNCHANGED <<suppressed, expiry, latest, events, deployLock, running>>

\* The attempt a client waits for, and the answers there are.
Asked(c) == <<c, client[c].attempt>>
Answers  == {"deployed", "failed"}

\* A gateway gives up on the answer; requestWithRetry asks again while the first deploy
\* still goes on.
AnswerLost(c) ==
    /\ client[c].at = "wait"
    /\ IF client[c].attempt < MaxAttempts THEN Goes(c, "retry") ELSE Ends(c, "done")
    /\ job' = [job EXCEPT ![Asked(c)].at = IF @ \in Answers THEN "idle" ELSE @]
    /\ UNCHANGED <<suppressed, expiry, latest, events, deployLock, running>>

Answer(c) ==
    /\ client[c].at = "wait"
    /\ \/ job[Asked(c)].at = "deployed" /\ Ends(c, "deployed")
       \/ job[Asked(c)].at = "failed" /\ Ends(c, "done")
    /\ job' = [job EXCEPT ![Asked(c)].at = "idle"]
    /\ UNCHANGED <<suppressed, expiry, latest, events, deployLock, running>>

-----------------------------------------------------------------------------
(* The server                                                              *)

\* ImagePushedHandler: one event at a time.
TakeEvent ==
    /\ events > 0
    /\ job[Server].at = "idle"
    /\ events' = events - 1
    /\ job' = [job EXCEPT ![Server] = [at |-> "waits", image |-> 0]]
    /\ UNCHANGED <<client, suppressed, expiry, latest, deployLock, running>>

\* The handler's result: an answer, if a client still waits for it.
Outcome(j, answer) ==
    IF \E c \in Clients : client[c].at = "wait" /\ Asked(c) = j THEN answer ELSE "idle"

\* Mutated: the route has no lock.
DeployBeginsUnlocked(j) ==
    /\ job[j].at = "waits"
    /\ job' = [job EXCEPT ![j] = [at |-> "deploys", image |-> latest]]
    /\ UNCHANGED <<client, suppressed, expiry, latest, events, deployLock, running>>

DeployBegins(j) ==
    /\ job[j].at = "waits"
    /\ deployLock = {}
    /\ deployLock' = {j}
    /\ job' = [job EXCEPT ![j] = [at |-> "deploys", image |-> latest]]
    /\ UNCHANGED <<client, suppressed, expiry, latest, events, running>>

DeploySucceeds(j) ==
    /\ job[j].at = "deploys"
    /\ running' = job[j].image
    /\ deployLock' = {}
    /\ job' = [job EXCEPT ![j] = [at |-> IF j = Server THEN "idle" ELSE "clears",
                                  image |-> 0]]
    /\ UNCHANGED <<client, suppressed, expiry, latest, events>>

DeployFails(j) ==
    /\ job[j].at = "deploys"
    /\ deployLock' = {}
    /\ job' = [job EXCEPT ![j] = [at |-> Outcome(j, "failed"), image |-> 0]]
    /\ UNCHANGED <<client, suppressed, expiry, latest, events, running>>

\* ClearDeployEventSuppression, whoever registered the intent.
Clear(j) ==
    /\ job[j].at = "clears"
    /\ suppressed' = None
    /\ expiry' = IF suppressed = None THEN expiry ELSE StopTimer(suppressed)
    /\ job' = [job EXCEPT ![j].at = Outcome(j, "deployed")]
    /\ UNCHANGED <<client, latest, events, deployLock, running>>

ExpiryStep(t) == Expires(t) \/ ExpiryChecks(t) \/ ExpiryDeletes(t)

DeployStep(j) == DeployBegins(j) \/ DeploySucceeds(j) \/ DeployFails(j) \/ Clear(j)

ClientStep(c) ==
    \/ IntentFails(c) \/ Suppress(c) \/ SuppressReplaces(c)
    \/ AskForDeploy(c) \/ AnswerLost(c) \/ Answer(c)

ClientPushes(c) == PushGivesUp(c) \/ StoreImage(c) \/ Announce(c) \/ Leave(c)

PushNext ==
    \/ \E c \in Clients : ClientStep(c) \/ ClientPushes(c) \/ ExpiryStep(c)
    \/ TakeEvent
    \/ \E j \in Callers : DeployStep(j)

PushSpec == PushInit /\ [][PushNext]_pushVars

-----------------------------------------------------------------------------
(* Correctness                                                             *)

\* A suppression ends: whatever intents, expiries and deploys meet, the entry of the map
\* is one whose own timer still runs and will remove it (registry/service.go:67-68,
\* "auto-expires after 2 minutes to prevent leaks").
EntryHasTimer == suppressed # None => expiry[suppressed] \in {"armed", "fired", "deletes"}

\* A client that is told "Deployed" has its image running, or a newer one, although the
\* event loop, other clients and its own lost attempts deploy the route as well.
DeployedIsPushed ==
    [][\A c \in Clients : client[c].at # "deployed" /\ client'[c].at = "deployed"
                             => running >= client[c].stamp]_pushVars
=============================================================================
