------------------------------ MODULE Lifecycle ------------------------------
(***************************************************************************)
(* The life of the server process, app/run.go, and what the CLI asks of it *)
(* by signals: SIGUSR1 for a reload, SIGUSR2 for a deploy whose domain is   *)
(* in a file of fixed name.  The CLI finds the process by its PID file.     *)
(* From its start to signal.Notify, and again after signal.Stop, nobody in *)
(* the process asks for them, and the Go runtime lets them pass.           *)
(*                                                                         *)
(* What a start-up or a shutdown does with containers, listeners and       *)
(* certificates is in the modules about them; here either may fail.        *)
(***************************************************************************)
EXTENDS Naturals

CONSTANTS DeployCalls,   \* gordon deploy, each for a domain of its own
          ReloadCalls,   \* gordon reload
          MaxStarts,     \* bound: how often the server is started
          MaxKills       \* bound: how often a process is killed from outside

Absent == "absent"
Empty  == "empty"

ASSUME LifeAssumption ==
    /\ DeployCalls \cap (ReloadCalls \cup {Absent, Empty}) = {}
    /\ MaxStarts \in Nat /\ MaxKills \in Nat

VARIABLES
    server,      \* how far the process is, and the number of its start
    pid,         \* the PID file: the number of a start, 0 when there is none
    deployChan,  \* a SIGUSR2 waits in its channel, which has room for one
    reloadChan,  \* likewise a SIGUSR1
    request,     \* the request file: absent, empty, or whose domain is in it
    taken,       \* what the loop has read from it
    cli,         \* the calls of the CLI, and the PID they have read
    due,         \* calls that were told that they succeeded, until they are served
    stranded,    \* whether a request file was left behind with nobody to serve it
    kills

lifeVars == <<server, pid, deployChan, reloadChan, request, taken, cli, due, stranded, kills>>

Calls == DeployCalls \cup ReloadCalls

LifeInit ==
    /\ server = [at |-> "down", start |-> 0]
    /\ pid = 0
    /\ deployChan = FALSE
    /\ reloadChan = FALSE
    /\ request = Absent
    /\ taken = Absent
    /\ cli = [c \in Calls |-> [at |-> "idle", pid |-> 0]]
    /\ due = {}
    /\ stranded = FALSE
    /\ kills = 0

Uncaught == {"starts", "boots", "leaves"}
Loop     == {"waits", "reloads", "reads", "publishes"}
Caught   == {"binds", "shuts"} \cup Loop

LifeTypeOK ==
    /\ server \in [at : {"down"} \cup Uncaught \cup Caught, start : 0..MaxStarts]
    /\ pid \in 0..MaxStarts
    /\ deployChan \in BOOLEAN /\ reloadChan \in BOOLEAN
    /\ request \in {Absent, Empty} \cup DeployCalls
    /\ taken \in {Absent, Empty} \cup DeployCalls
    /\ cli \in [Calls -> [at : {"idle", "opens", "writes", "finds", "checks", "signals",
                                "withdraws"}, pid : 0..MaxStarts]]
    /\ due \subseteq Calls
    /\ stranded \in BOOLEAN
    /\ kills \in 0..MaxKills

Alive(start) == server.at # "down" /\ server.start = start

Becomes(at) == server' = [server EXCEPT !.at = at]

\* The channels are the process's; whoever was to be served no longer will be.
Ends ==
    /\ Becomes("down")
    /\ deployChan' = FALSE
    /\ reloadChan' = FALSE
    /\ taken' = Absent
    /\ due' = {}
    /\ stranded' = (stranded \/ request \in due)

-----------------------------------------------------------------------------
(* The process                                                             *)

\* Logger and telemetry come before the PID file.
StartsUp ==
    /\ server.at = "down"
    /\ server.start < MaxStarts
    /\ server' = [at |-> "starts", start |-> server.start + 1]
    /\ UNCHANGED <<pid, deployChan, reloadChan, request, taken, cli, due, stranded, kills>>

CreatesPidFile ==
    /\ server.at = "starts"
    /\ pid' = server.start
    /\ Becomes("boots")
    /\ UNCHANGED <<deployChan, reloadChan, request, taken, cli, due, stranded, kills>>

\* The services are there, and signals are caught.
Catches ==
    /\ server.at = "boots"
    /\ Becomes("binds")
    /\ UNCHANGED <<pid, deployChan, reloadChan, request, taken, cli, due, stranded, kills>>

\* The servers listen and the routes have been recovered: the loop begins.
EntersLoop ==
    /\ server.at = "binds"
    /\ Becomes("waits")
    /\ UNCHANGED <<pid, deployChan, reloadChan, request, taken, cli, due, stranded, kills>>

FailsToBoot ==
    /\ server.at = "boots"
    /\ Becomes("leaves")
    /\ UNCHANGED <<pid, deployChan, reloadChan, request, taken, cli, due, stranded, kills>>

\* The end is asked for, or a server cannot listen any more.
Shuts ==
    /\ server.at \in {"binds", "waits"}
    /\ Becomes("shuts")
    /\ UNCHANGED <<pid, deployChan, reloadChan, request, taken, cli, due, stranded, kills>>

\* gracefulShutdown is over; the deferred calls stop catching signals first.
StopsCatching ==
    /\ server.at = "shuts"
    /\ Becomes("leaves")
    /\ UNCHANGED <<pid, deployChan, reloadChan, request, taken, cli, due, stranded, kills>>

RemovesPidFile ==
    /\ server.at = "leaves"
    /\ pid' = 0
    /\ Ends
    /\ UNCHANGED <<request, cli, kills>>

KillsServer ==
    /\ server.at # "down"
    /\ kills < MaxKills
    /\ kills' = kills + 1
    /\ Ends
    /\ UNCHANGED <<pid, request, cli>>

-----------------------------------------------------------------------------
(* waitForShutdown                                                         *)

Reloads ==
    /\ server.at = "waits"
    /\ reloadChan
    /\ reloadChan' = FALSE
    /\ due' = due \ ReloadCalls
    /\ Becomes("reloads")
    /\ UNCHANGED <<pid, deployChan, request, taken, cli, stranded, kills>>

Reloaded ==
    /\ server.at = "reloads"
    /\ Becomes("waits")
    /\ UNCHANGED <<pid, deployChan, reloadChan, request, taken, cli, due, stranded, kills>>

TakesSignal ==
    /\ server.at = "waits"
    /\ deployChan
    /\ deployChan' = FALSE
    /\ Becomes("reads")
    /\ UNCHANGED <<pid, reloadChan, request, taken, cli, due, stranded, kills>>

\* The rename frees the name for the next request.
readDeployRequest ==
    /\ server.at = "reads"
    /\ request' = Absent
    /\ taken' = request
    /\ Becomes(IF request = Absent THEN "waits" ELSE "publishes")
    /\ UNCHANGED <<pid, deployChan, reloadChan, cli, due, stranded, kills>>

\* The bus takes the event, or refuses it after a while and the loop goes on.
Publishes ==
    /\ server.at = "publishes"
    /\ due' = due \ {taken}
    /\ taken' = Absent
    /\ Becomes("waits")
    /\ UNCHANGED <<pid, deployChan, reloadChan, request, cli, stranded, kills>>

-----------------------------------------------------------------------------
(* The CLI                                                                 *)

Goes(c, at) == cli' = [cli EXCEPT ![c].at = at]
CliOnly == UNCHANGED <<server, deployChan, reloadChan, taken, stranded, kills>>

\* A call is made again only after it was served.
CallsCli(c) ==
    /\ cli[c].at = "idle"
    /\ c \notin due
    /\ Goes(c, IF c \in DeployCalls THEN "opens" ELSE "finds")
    /\ UNCHANGED <<pid, request, due>>
    /\ CliOnly

\* O_EXCL, tried again for a while.
Opens(c) ==
    /\ cli[c].at = "opens"
    /\ \/ request = Absent /\ request' = Empty /\ Goes(c, "writes")
       \/ request # Absent /\ Goes(c, "idle") /\ UNCHANGED request
    /\ UNCHANGED <<pid, due>>
    /\ CliOnly

Writes(c) ==
    /\ cli[c].at = "writes"
    /\ request' = c
    /\ Goes(c, "finds")
    /\ UNCHANGED <<pid, due>>
    /\ CliOnly

GivesUp(c) == Goes(c, IF c \in DeployCalls THEN "withdraws" ELSE "idle")

Finds(c) ==
    /\ cli[c].at = "finds"
    /\ IF pid = 0 THEN GivesUp(c) ELSE cli' = [cli EXCEPT ![c] = [at |-> "checks", pid |-> pid]]
    /\ UNCHANGED <<pid, request, due>>
    /\ CliOnly

\* A file that names no living process is removed - by its name, whatever it names now.
Checks(c) ==
    /\ cli[c].at = "checks"
    /\ IF Alive(cli[c].pid) THEN Goes(c, "signals") /\ UNCHANGED pid
                            ELSE GivesUp(c) /\ pid' = 0
    /\ UNCHANGED <<request, due>>
    /\ CliOnly

\* Mutated: the channels have no room, so a signal counts only while the loop waits for it.
SignalsUnbuffered(c) ==
    /\ cli[c].at = "signals"
    /\ Alive(cli[c].pid) /\ server.at \in Caught
    /\ due' = due \cup {c}
    /\ IF server.at = "waits"
       THEN /\ deployChan' = (deployChan \/ c \in DeployCalls)
            /\ reloadChan' = (reloadChan \/ c \in ReloadCalls)
       ELSE UNCHANGED <<deployChan, reloadChan>>
    /\ Goes(c, "idle")
    /\ UNCHANGED <<server, pid, request, taken, stranded, kills>>

\* A signal that finds the channel full is dropped.
Signals(c) ==
    /\ cli[c].at = "signals"
    /\ Alive(cli[c].pid) /\ server.at \in Caught
    /\ due' = due \cup {c}
    /\ deployChan' = (deployChan \/ c \in DeployCalls)
    /\ reloadChan' = (reloadChan \/ c \in ReloadCalls)
    /\ Goes(c, "idle")
    /\ UNCHANGED <<server, pid, request, taken, stranded, kills>>

\* The call succeeds, and nobody has heard it.
SignalPasses(c) ==
    /\ cli[c].at = "signals"
    /\ Alive(cli[c].pid) /\ server.at \in Uncaught
    /\ stranded' = (stranded \/ c \in DeployCalls)
    /\ Goes(c, "idle")
    /\ UNCHANGED <<server, pid, deployChan, reloadChan, request, taken, due, kills>>

FindsNobody(c) ==
    /\ cli[c].at = "signals"
    /\ ~ Alive(cli[c].pid)
    /\ GivesUp(c)
    /\ UNCHANGED <<pid, request, due>>
    /\ CliOnly

\* Removed by its name, like the PID file.
Withdraws(c) ==
    /\ cli[c].at = "withdraws"
    /\ request' = Absent
    /\ Goes(c, "idle")
    /\ UNCHANGED <<pid, due>>
    /\ CliOnly

KillsCli(c) ==
    /\ cli[c].at # "idle"
    /\ kills < MaxKills
    /\ kills' = kills + 1
    /\ stranded' = (stranded \/ request = c \/ cli[c].at = "writes")
    /\ Goes(c, "idle")
    /\ UNCHANGED <<server, pid, deployChan, reloadChan, request, taken, due>>

-----------------------------------------------------------------------------
CliStep(c) ==
    \/ Opens(c) \/ Writes(c) \/ Finds(c) \/ Checks(c) \/ Signals(c) \/ SignalPasses(c)
    \/ FindsNobody(c) \/ Withdraws(c)

LifeNext ==
    \/ StartsUp \/ CreatesPidFile \/ Catches \/ EntersLoop
    \/ FailsToBoot \/ Shuts \/ StopsCatching \/ RemovesPidFile \/ KillsServer
    \/ Reloads \/ Reloaded \/ TakesSignal \/ readDeployRequest \/ Publishes
    \/ \E c \in Calls : CallsCli(c) \/ CliStep(c) \/ KillsCli(c)

LifeSpec == LifeInit /\ [][LifeNext]_lifeVars

-----------------------------------------------------------------------------
(* Properties                                                              *)

\* What the CLI was told had succeeded is on its way, if the process caught its signal,
\* until the reload begins, the domain of the deploy is offered to the bus, or the process
\* ends: neither a channel with room for one, nor a file of one name, nor callers that
\* withdraw lose it.  The loop reads what a caller has written, whole.  And a request that
\* is in the way of all others was left by a process or a caller that has ended, or by a
\* signal that nobody caught.
SignalIsHeard ==
    /\ taken # Empty
    /\ due \cap ReloadCalls # {} => reloadChan
    /\ \A c \in due \cap DeployCalls :
          \/ request = c /\ (deployChan \/ server.at = "reads")
          \/ taken = c
    /\ \A c \in DeployCalls :
          request = c /\ cli[c].at = "idle" /\ ~ stranded => c \in due
=============================================================================
