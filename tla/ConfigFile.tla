------------------------------ MODULE ConfigFile ------------------------------
(***************************************************************************)
(* The configuration file: the calls that change a route and persist it    *)
(* (usecase/config/service.go), the operator who edits it, the watcher     *)
(* that loads it and the reload coordinator of app/run.go that applies it. *)
(* The service keeps the routes in memory and the rest of the settings in  *)
(* viper; saving reads the file, replaces its routes by those of the       *)
(* memory, and verifies that no setting changed.                           *)
(*                                                                         *)
(* A route is the number of times its call changed it, the settings are    *)
(* the number of the operator's edit.  ReadInConfig of viper reads the     *)
(* file and then sets its map, without a lock.                             *)
(***************************************************************************)
EXTENDS Naturals

CONSTANTS Changers,      \* concurrent callers of AddRoute and UpdateRoute, one domain each
          MaxChanges,    \* bound: changes of a route
          MaxEdits,      \* bound: edits by the operator
          MaxTriggers,   \* bound: gordon reload
          MaxConfigMishaps \* bound: failed writes, failed applications, crashes

ASSUME ConfigAssumption ==
    /\ Changers \cap {"watcher", "trigger"} = {}
    /\ MaxChanges \in Nat /\ MaxEdits \in Nat /\ MaxTriggers \in Nat
    /\ MaxConfigMishaps \in Nat

VARIABLES
    file,     \* the file: routes and settings, and whether it is whole
    backup,   \* what the call under way has put in its .bak file
    viper,    \* what viper holds
    memory,   \* s.config.Routes
    change,   \* the calls: their step and what they remember
    locked,   \* s.mu: the caller that holds it, if any
    watcher,  \* viper's goroutine and the callback of Watch
    trigger,  \* reloadCoordinator.Trigger
    notice,   \* whether fsnotify has a write to report
    windows,  \* the 500 ms after a save, and after a reload
    claims,   \* history: what the calls were told is stored
    spoiled,  \* history: two ReadInConfig overlapped, or a restore was cut off
    bounds    \* edits, triggers and mishaps left

configVars == <<file, backup, viper, memory, change, locked, watcher, trigger,
                notice, windows, claims, spoiled, bounds>>

Empty  == [routes |-> [c \in Changers |-> 0], settings |-> 0]
Whole  == [routes |-> file.routes, settings |-> file.settings]
Rests  == [at |-> "idle", snapshot |-> 0, bytes |-> Empty]
IdleWatcher == [at |-> "idle", bytes |-> Empty]

ConfigInit ==
    /\ file = [routes |-> Empty.routes, settings |-> 0, whole |-> TRUE]
    /\ backup = Empty
    /\ viper = Empty
    /\ memory = Empty.routes
    /\ change = [c \in Changers |-> Rests]
    /\ locked = {}
    /\ watcher = IdleWatcher
    /\ trigger = IdleWatcher
    /\ notice = FALSE
    /\ windows = [save |-> FALSE, reload |-> FALSE]
    /\ claims = Empty.routes
    /\ spoiled = FALSE
    /\ bounds = [edits |-> MaxEdits, triggers |-> MaxTriggers, mishaps |-> MaxConfigMishaps]

Routings == [Changers -> 0..MaxChanges]

Contents == [routes : Routings, settings : 0..MaxEdits]

CallRecord ==
    [at : {"idle", "backup", "read", "rename", "reread", "assign", "verify", "restore",
           "restored", "reassign"},
     snapshot : 0..MaxEdits, bytes : Contents]
FileRecord == [routes : Routings, settings : 0..MaxEdits, whole : BOOLEAN]
WatcherRecord == [at : {"idle", "assign", "read", "reassign", "load", "apply"}, bytes : Contents]
TriggerRecord == [at : {"idle", "assign", "load", "apply"}, bytes : Contents]
BoundsLeft == [edits : 0..MaxEdits, triggers : 0..MaxTriggers, mishaps : 0..MaxConfigMishaps]

ConfigTypeOK ==
    /\ file \in FileRecord
    /\ backup \in Contents
    /\ viper \in Contents
    /\ memory \in Routings
    /\ change \in [Changers -> CallRecord]
    /\ locked \subseteq Changers
    /\ watcher \in WatcherRecord
    /\ trigger \in TriggerRecord
    /\ notice \in BOOLEAN
    /\ windows \in [save : BOOLEAN, reload : BOOLEAN]
    /\ claims \in Routings
    /\ spoiled \in BOOLEAN
    /\ bounds \in BoundsLeft

ConfigMishap == bounds.mishaps > 0 /\ bounds' = [bounds EXCEPT !.mishaps = @ - 1]

\* Whether another caller is between the two halves of ReadInConfig.
Reading(me) ==
    \/ \E c \in Changers \ {me} : change[c].at = "assign"
    \/ me # "watcher" /\ watcher.at \in {"assign", "reassign"}
    \/ me # "trigger" /\ trigger.at = "assign"

-----------------------------------------------------------------------------
(* AddRoute, UpdateRoute, RemoveRoute: persistConfig under s.mu            *)

\* What was read is forgotten once it is used.
ChangeGoes(c, at) == change' = [change EXCEPT ![c].at = at, ![c].bytes = Empty]
Changed(c)        == [memory EXCEPT ![c] = @ + 1]

\* The call returns: s.mu is free, and nobody reads its backup again.
Ends(c) ==
    /\ locked' = {}
    /\ backup' = Empty
    /\ change' = [change EXCEPT ![c] = Rests]

BeginsChange(c) ==
    /\ change[c].at = "idle"
    /\ locked = {}
    /\ memory[c] < MaxChanges
    /\ locked' = {c}
    /\ ChangeGoes(c, "backup")
    /\ UNCHANGED <<file, backup, viper, memory, watcher, trigger, notice, windows,
                   claims, spoiled, bounds>>

\* backupConfigFile, then snapshotCriticalFields.
BacksUpFile(c) ==
    /\ change[c].at = "backup"
    /\ backup' = Whole
    /\ change' = [change EXCEPT ![c].at = "read", ![c].snapshot = viper.settings]
    /\ UNCHANGED <<file, viper, memory, locked, watcher, trigger, notice, windows,
                   claims, spoiled, bounds>>

\* writeConfigSurgical reads the file ...
ReadsFile(c) ==
    /\ change[c].at = "read"
    /\ change' = [change EXCEPT ![c].at = "rename", ![c].bytes = Whole]
    /\ UNCHANGED <<file, backup, viper, memory, locked, watcher, trigger, notice,
                   windows, claims, spoiled, bounds>>

\* Mutated: the routes of the memory are written as they are before the change.
RenamesOld(c) ==
    /\ change[c].at = "rename"
    /\ file' = [file EXCEPT !.routes = memory, !.settings = change[c].bytes.settings]
    /\ notice' = TRUE
    /\ windows' = [windows EXCEPT !.save = TRUE]
    /\ ChangeGoes(c, "reread")
    /\ UNCHANGED <<backup, viper, memory, locked, watcher, trigger, claims, spoiled,
                   bounds>>

\* ... and renames a temporary one over it, with the routes of the memory.
Renames(c) ==
    /\ change[c].at = "rename"
    /\ file' = [file EXCEPT !.routes = Changed(c), !.settings = change[c].bytes.settings]
    /\ notice' = TRUE
    /\ windows' = [windows EXCEPT !.save = TRUE]
    /\ ChangeGoes(c, "reread")
    /\ UNCHANGED <<backup, viper, memory, locked, watcher, trigger, claims, spoiled,
                   bounds>>

\* The temporary file cannot be written: an error, nothing changed.
RenameFails(c) ==
    /\ change[c].at = "rename"
    /\ ConfigMishap
    /\ Ends(c)
    /\ UNCHANGED <<file, viper, memory, watcher, trigger, notice, windows, claims,
                   spoiled>>

Rereads(c) ==
    /\ change[c].at \in {"reread", "restored"}
    /\ change' = [change EXCEPT ![c].bytes = Whole,
                     ![c].at = IF @ = "reread" THEN "assign" ELSE "reassign"]
    /\ UNCHANGED <<file, backup, viper, memory, locked, watcher, trigger, notice,
                   windows, claims, spoiled, bounds>>

Assigns(c) ==
    /\ change[c].at = "assign"
    /\ viper' = change[c].bytes
    /\ spoiled' = (spoiled \/ Reading(c))
    /\ ChangeGoes(c, "verify")
    /\ UNCHANGED <<file, backup, memory, locked, watcher, trigger, notice, windows,
                   claims, bounds>>

\* verifyCriticalFields: the routes of the memory follow, and the caller is told.
Verifies(c) ==
    /\ change[c].at = "verify"
    /\ viper.settings = change[c].snapshot
    /\ memory' = Changed(c)
    /\ claims' = Changed(c)
    /\ Ends(c)
    /\ UNCHANGED <<file, viper, watcher, trigger, notice, windows, spoiled, bounds>>

\* A setting changed: os.WriteFile truncates the file ...
RestoreTruncates(c) ==
    /\ change[c].at = "verify"
    /\ viper.settings # change[c].snapshot
    /\ file' = [file EXCEPT !.whole = FALSE]
    /\ change' = [change EXCEPT ![c] = [Rests EXCEPT !.at = "restore"]]
    /\ UNCHANGED <<backup, viper, memory, locked, watcher, trigger, notice, windows,
                   claims, spoiled, bounds>>

\* ... and writes the backup.
RestoreWrites(c) ==
    /\ change[c].at = "restore"
    /\ file' = [routes |-> backup.routes, settings |-> backup.settings, whole |-> TRUE]
    /\ notice' = TRUE
    /\ backup' = Empty
    /\ ChangeGoes(c, "restored")
    /\ UNCHANGED <<viper, memory, locked, watcher, trigger, windows,
                   claims, spoiled, bounds>>

\* The call returns the error of the verification.
RestoreLoads(c) ==
    /\ change[c].at = "reassign"
    /\ viper' = change[c].bytes
    /\ spoiled' = (spoiled \/ Reading(c))
    /\ Ends(c)
    /\ UNCHANGED <<file, memory, watcher, trigger, notice, windows, claims,
                   bounds>>

-----------------------------------------------------------------------------
(* The operator, the watcher and the coordinator                           *)

Edit ==
    /\ bounds.edits > 0
    /\ file.whole
    /\ file' = [file EXCEPT !.settings = MaxEdits - bounds.edits + 1]
    /\ notice' = TRUE
    /\ bounds' = [bounds EXCEPT !.edits = @ - 1]
    /\ UNCHANGED <<backup, viper, memory, change, locked, watcher, trigger,
                   windows, claims, spoiled>>

\* WatchConfig reads the file, then calls the callback of Watch.
Notices ==
    /\ watcher.at = "idle"
    /\ notice
    /\ file.whole
    /\ notice' = FALSE
    /\ watcher' = [at |-> "assign", bytes |-> Whole]
    /\ UNCHANGED <<file, backup, viper, memory, change, locked, trigger, windows,
                   claims, spoiled, bounds>>

\* The callback skips what it takes for the service's own save.
WatcherAssigns ==
    /\ watcher.at = "assign"
    /\ viper' = watcher.bytes
    /\ spoiled' = (spoiled \/ Reading("watcher"))
    /\ watcher' = IF windows.save THEN IdleWatcher ELSE [watcher EXCEPT !.at = "read"]
    /\ UNCHANGED <<file, backup, memory, change, locked, trigger, notice, windows,
                   claims, bounds>>

WatcherReads ==
    /\ watcher.at = "read"
    /\ watcher' = IF file.whole THEN [at |-> "reassign", bytes |-> Whole] ELSE IdleWatcher
    /\ UNCHANGED <<file, backup, viper, memory, change, locked, trigger, notice,
                   windows, claims, spoiled, bounds>>

WatcherReassigns ==
    /\ watcher.at = "reassign"
    /\ viper' = watcher.bytes
    /\ spoiled' = (spoiled \/ Reading("watcher"))
    /\ watcher' = [at |-> "load", bytes |-> Empty]
    /\ UNCHANGED <<file, backup, memory, change, locked, trigger, notice, windows,
                   claims, bounds>>

\* Load takes s.mu, and what viper holds by then.
WatcherLoads ==
    /\ watcher.at = "load"
    /\ locked = {}
    /\ memory' = viper.routes
    /\ watcher' = [watcher EXCEPT !.at = "apply"]
    /\ UNCHANGED <<file, backup, viper, change, locked, trigger, notice, windows,
                   claims, spoiled, bounds>>

\* applyLoadedConfig: containers, traffic, services, limits and the event, or an error.
Applies ==
    \/ windows' = [windows EXCEPT !.reload = TRUE] /\ UNCHANGED bounds
    \/ ConfigMishap /\ UNCHANGED windows

\* ApplyLoadedConfig: within 500 ms of a reload nothing is applied.
WatcherApplies ==
    /\ watcher.at = "apply"
    /\ trigger.at = "idle"
    /\ IF windows.reload THEN UNCHANGED <<windows, bounds>> ELSE Applies
    /\ watcher' = IdleWatcher
    /\ UNCHANGED <<file, backup, viper, memory, change, locked, trigger, notice, claims,
                   spoiled>>

\* gordon reload holds the coordinator's mutex; within the 500 ms it succeeds at once.
Triggers ==
    /\ trigger.at = "idle"
    /\ bounds.triggers > 0
    /\ bounds' = [bounds EXCEPT !.triggers = @ - 1]
    /\ IF windows.reload \/ ~file.whole THEN UNCHANGED trigger
       ELSE trigger' = [at |-> "assign", bytes |-> Whole]
    /\ UNCHANGED <<file, backup, viper, memory, change, locked, watcher, notice,
                   windows, claims, spoiled>>

TriggerAssigns ==
    /\ trigger.at = "assign"
    /\ viper' = trigger.bytes
    /\ spoiled' = (spoiled \/ Reading("trigger"))
    /\ trigger' = [at |-> "load", bytes |-> Empty]
    /\ UNCHANGED <<file, backup, memory, change, locked, watcher, notice, windows,
                   claims, bounds>>

TriggerLoads ==
    /\ trigger.at = "load"
    /\ locked = {}
    /\ memory' = viper.routes
    /\ trigger' = [trigger EXCEPT !.at = "apply"]
    /\ UNCHANGED <<file, backup, viper, change, locked, watcher, notice, windows,
                   claims, spoiled, bounds>>

TriggerApplies ==
    /\ trigger.at = "apply"
    /\ Applies
    /\ trigger' = IdleWatcher
    /\ UNCHANGED <<file, backup, viper, memory, change, locked, watcher, notice, claims,
                   spoiled>>

SaveWindowEnds ==
    /\ windows.save
    /\ windows' = [windows EXCEPT !.save = FALSE]
    /\ UNCHANGED <<file, backup, viper, memory, change, locked, watcher, trigger,
                   notice, claims, spoiled, bounds>>

ReloadWindowEnds ==
    /\ windows.reload
    /\ windows' = [windows EXCEPT !.reload = FALSE]
    /\ UNCHANGED <<file, backup, viper, memory, change, locked, watcher, trigger,
                   notice, claims, spoiled, bounds>>

\* The server dies and starts from the file, which is empty when a restore was cut off.
ConfigCrash ==
    /\ ConfigMishap
    /\ file' = IF file.whole THEN file
               ELSE [routes |-> Empty.routes, settings |-> 0, whole |-> TRUE]
    /\ viper' = [routes |-> file'.routes, settings |-> file'.settings]
    /\ memory' = file'.routes
    /\ spoiled' = (spoiled \/ ~file.whole)
    /\ backup' = Empty
    /\ change' = [c \in Changers |-> Rests]
    /\ locked' = {}
    /\ watcher' = IdleWatcher
    /\ trigger' = IdleWatcher
    /\ notice' = FALSE
    /\ windows' = [save |-> FALSE, reload |-> FALSE]
    /\ UNCHANGED claims

ChangeStep(c) ==
    \/ BeginsChange(c) \/ BacksUpFile(c) \/ ReadsFile(c) \/ Renames(c) \/ RenameFails(c)
    \/ Rereads(c) \/ Assigns(c) \/ Verifies(c)
    \/ RestoreTruncates(c) \/ RestoreWrites(c) \/ RestoreLoads(c)

WatcherStep ==
    \/ Notices \/ WatcherAssigns \/ WatcherReads \/ WatcherReassigns
    \/ WatcherLoads \/ WatcherApplies

TriggerStep == TriggerAssigns \/ TriggerLoads \/ TriggerApplies

ConfigNext ==
    \/ \E c \in Changers : ChangeStep(c)
    \/ Edit \/ WatcherStep \/ Triggers \/ TriggerStep
    \/ SaveWindowEnds \/ ReloadWindowEnds \/ ConfigCrash

ConfigSpec == ConfigInit /\ [][ConfigNext]_configVars

-----------------------------------------------------------------------------
(* Correctness                                                             *)

\* A route change that was acknowledged stays in the file and in the memory, whatever the
\* operator edits, the watcher loads, the verification restores and wherever the server
\* dies - unless two unsynchronised reads of viper overlapped, or the server died between
\* the two halves of a restore (AddRoute, "adds a new route
\* to the configuration and persists it").
AcknowledgedIsKept ==
    \A c \in Changers :
       spoiled \/ ~file.whole \/ (file.routes[c] >= claims[c] /\ memory[c] >= claims[c])
=============================================================================
