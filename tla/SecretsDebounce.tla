--------------------------- MODULE SecretsDebounce ---------------------------
(***************************************************************************)
(* The handler of secrets.changed events, usecase/container/secrets_       *)
(* handler.go: every change of a domain's secrets replaces the domain's    *)
(* timer, and the timer that fires last deploys the route.  A timer that   *)
(* has fired runs in a goroutine of its own, which a later change cannot   *)
(* stop any more; a generation tells it apart, but the counter starts      *)
(* again whenever a deploy claims the domain.                              *)
(*                                                                         *)
(* The domains have timers of their own, so one is modelled.               *)
(***************************************************************************)
EXTENDS Naturals

CONSTANT MaxChanges   \* bound: changes of the domain's secrets

ASSUME DebounceAssumption == MaxChanges \in Nat

VARIABLES
    changes,    \* how often the secrets changed
    deployed,   \* how many of the changes the last deploy has read
    events,     \* secrets.changed events the bus has not delivered yet
    current,    \* h.timers: the domain's timer, 0 for none
    generation, \* h.generations: the domain's generation, 0 for none
    timer,      \* every timer that was made: where it is, and its generation
    handler,    \* "runs", "cancelled" by Stop, "stopped"
    failed      \* whether the last deploy failed, or found no route

debounceVars == <<changes, deployed, events, current, generation, timer, handler, failed>>

Timers == 1..MaxChanges

DebounceInit ==
    /\ changes = 0
    /\ deployed = 0
    /\ events = 0
    /\ current = 0
    /\ generation = 0
    /\ timer = [t \in Timers |-> [at |-> "unmade", gen |-> 0]]
    /\ handler = "runs"
    /\ failed = FALSE

DebounceTypeOK ==
    /\ changes \in 0..MaxChanges
    /\ deployed \in 0..changes
    /\ events \in 0..MaxChanges
    /\ current \in 0..MaxChanges
    /\ generation \in 0..MaxChanges
    /\ timer \in [Timers -> [at : {"unmade", "armed", "fired", "waits", "claimed",
                                   "deploys", "over"},
                             gen : 0..MaxChanges]]
    /\ handler \in {"runs", "cancelled", "stopped"}
    /\ failed \in BOOLEAN

Moves(t, at) == timer' = [timer EXCEPT ![t].at = at]

\* The secret is stored before its event is published.
SecretsChange ==
    /\ changes < MaxChanges
    /\ changes' = changes + 1
    /\ events' = events + 1
    /\ UNCHANGED <<deployed, current, generation, timer, handler, failed>>

\* Handle and resetTimer, under the handler's mutex.  Stop on a timer that has fired
\* already does nothing.
Handle ==
    /\ events > 0
    /\ events' = events - 1
    /\ generation' = generation + 1
    /\ \E t \in Timers :
          /\ timer[t].at = "unmade"
          /\ \A s \in Timers : s < t => timer[s].at # "unmade"
          /\ current' = t
          /\ timer' = [s \in Timers |->
                IF s = t THEN [at |-> "armed", gen |-> generation + 1]
                ELSE IF s = current /\ timer[s].at = "armed"
                     THEN [timer[s] EXCEPT !.at = "over"]
                     ELSE timer[s]]
    /\ UNCHANGED <<changes, deployed, handler, failed>>

\* The domain has been quiet for the whole delay.
TimerFires(t) ==
    /\ timer[t].at = "armed"
    /\ Moves(t, "fired")
    /\ UNCHANGED <<changes, deployed, events, current, generation, handler, failed>>

\* fireDeploy gives up once the handler has been cancelled.
ChecksContext(t) ==
    /\ timer[t].at = "fired"
    /\ Moves(t, IF handler = "runs" THEN "waits" ELSE "over")
    /\ UNCHANGED <<changes, deployed, events, current, generation, handler, failed>>

\* Under the mutex: only the current generation claims the domain.
Claims(t) ==
    /\ timer[t].at = "waits"
    /\ IF timer[t].gen = generation
       THEN /\ current' = 0
            /\ generation' = 0
            /\ Moves(t, "claimed")
       ELSE Moves(t, "over") /\ UNCHANGED <<current, generation>>
    /\ UNCHANGED <<changes, deployed, events, handler, failed>>

\* GetRoute finds nothing, or is given a cancelled context.
NoRoute(t) ==
    /\ timer[t].at = "claimed"
    /\ failed' = TRUE
    /\ Moves(t, "over")
    /\ UNCHANGED <<changes, deployed, events, current, generation, handler>>

\* The deploy loads the secrets as they are by then.
DeployReadsSecrets(t) ==
    /\ timer[t].at = "claimed"
    /\ deployed' = changes
    /\ failed' = FALSE
    /\ Moves(t, "deploys")
    /\ UNCHANGED <<changes, events, current, generation, handler>>

\* Mutated: the entries of the domain are cleared when the deploy is over.
DeployEndsAndClears(t) ==
    /\ timer[t].at = "deploys"
    /\ current' = 0
    /\ generation' = 0
    /\ Moves(t, "over")
    /\ UNCHANGED <<changes, deployed, events, handler, failed>>

DeployEnds(t) ==
    /\ timer[t].at = "deploys"
    /\ \E fails \in BOOLEAN : failed' = (failed \/ fails)
    /\ Moves(t, "over")
    /\ UNCHANGED <<changes, deployed, events, current, generation, handler>>

StopCancels ==
    /\ handler = "runs"
    /\ handler' = "cancelled"
    /\ UNCHANGED <<changes, deployed, events, current, generation, timer, failed>>

StopClears ==
    /\ handler = "cancelled"
    /\ handler' = "stopped"
    /\ timer' = [t \in Timers |-> IF t = current /\ timer[t].at = "armed"
                                  THEN [timer[t] EXCEPT !.at = "over"] ELSE timer[t]]
    /\ current' = 0
    /\ generation' = 0
    /\ UNCHANGED <<changes, deployed, events, failed>>

TimerStep(t) ==
    \/ TimerFires(t) \/ ChecksContext(t) \/ Claims(t)
    \/ NoRoute(t) \/ DeployReadsSecrets(t) \/ DeployEnds(t)

DebounceNext ==
    \/ SecretsChange \/ Handle
    \/ \E t \in Timers : TimerStep(t)
    \/ StopCancels \/ StopClears

\* The bus delivers, timers fire, and the runtime schedules their goroutines.
DebounceFairness ==
    /\ WF_debounceVars(Handle)
    /\ \A t \in Timers : WF_debounceVars(TimerStep(t))

DebounceSpec == DebounceInit /\ [][DebounceNext]_debounceVars /\ DebounceFairness

-----------------------------------------------------------------------------
(* Correctness                                                             *)

\* Every change of the secrets reaches a deploy that reads it, whatever timers meet
\* whatever changes, unless the handler is stopped or the route is gone
\* (resetTimer and fireDeploy, whose generations start again after every claim).
ChangeIsDeployed ==
    (deployed < changes) ~> (deployed = changes \/ handler # "runs" \/ failed)
=============================================================================
