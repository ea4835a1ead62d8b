----------------------------- MODULE MCEventBus -----------------------------
(* The bus and what keeps time of its own: the timers of secrets.changed, the     *)
(* environments of pushed previews and the connections of a TCP entry point.      *)
(* They share no state, so a behaviour is one of theirs: "part" says whose.       *)
(*                                                                                *)
(* Two event kinds; one handler accepts one of them, the other handler both.      *)
EXTENDS EventBus, SecretsDebounce, Previews, TcpConnections

CONSTANTS deploy, both, imagePushed, configReload

MCAccepts == deploy :> {imagePushed} @@ both :> {imagePushed, configReload}

VARIABLE part

allVars == <<part, vars, debounceVars, previewVars, tcpVars>>

EventsInit ==
    /\ part \in {"bus", "secrets", "previews", "connections"}
    /\ Init
    /\ DebounceInit
    /\ PreviewInit
    /\ TcpInit

EventsNext ==
    \/ /\ part = "bus"
       /\ Next
       /\ UNCHANGED <<part, debounceVars, previewVars, tcpVars>>
    \/ /\ part = "secrets"
       /\ DebounceNext
       /\ UNCHANGED <<part, vars, previewVars, tcpVars>>
    \/ /\ part = "previews"
       /\ PreviewNext
       /\ UNCHANGED <<part, vars, debounceVars, tcpVars>>
    \/ /\ part = "connections"
       /\ TcpNext
       /\ UNCHANGED <<part, vars, debounceVars, previewVars>>

\* Nothing of a part that is not running is enabled, but for the ticker of the
\* previews.
EventsSpec ==
    /\ EventsInit
    /\ [][EventsNext]_allVars
    /\ Fairness
    /\ DebounceFairness
    /\ WF_previewVars(RecordExpires)
    /\ WF_previewVars(ContainerAges)
    /\ WF_previewVars(part = "previews" /\ SweepStep)
    /\ TcpFairness

\* What does not run stays as Init has left it.
EventsTypeOK ==
    /\ part = "bus" => TypeOK
    /\ part = "secrets" => DebounceTypeOK
    /\ part = "previews" => PreviewTypeOK
    /\ part = "connections" => TcpTypeOK
=============================================================================
