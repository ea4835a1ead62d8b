---------------------------- MODULE DomainSecrets ----------------------------
(***************************************************************************)
(* The secrets of one domain or of one attachment (usecase/secrets,        *)
(* adapters/out/domainsecrets), kept in one of three ways: in pass, where  *)
(* each key is an entry of its own beside a manifest of the keys, with     *)
(* discovery of what the manifest misses ("domain") or without             *)
(* ("attachment"), or in an environment file that is read, changed and     *)
(* replaced ("file").  Calls take no lock.  A start moves the secrets of a *)
(* plaintext file into pass before the server is up.                       *)
(*                                                                         *)
(* Keys and values are numbers, and 0 is no value.                         *)
(***************************************************************************)
EXTENDS Naturals, FiniteSets

CONSTANTS SecretCallers,  \* concurrent calls of the admin API and of deploys
          KeyCount,       \* how many keys there are
          ValueCount,     \* how many values
          Scopes,         \* the ways of keeping secrets to look at
          MaxLosses       \* bound: commands that fail, deaths of the process

ASSUME SecretsAssumption ==
    /\ IsFiniteSet(SecretCallers) /\ "start" \notin SecretCallers
    /\ KeyCount \in Nat /\ ValueCount \in Nat \ {0} /\ MaxLosses \in Nat
    /\ Scopes \subseteq {"domain", "attachment", "file"}

VARIABLES
    scope,     \* how the secrets are kept
    plain,     \* whether the plaintext file that is to be moved into pass exists
    entry,     \* the entries in pass
    manifest,  \* the keys in the manifest, which is absent when there is none
    env,       \* the environment file and its temporary one: inodes, 0 when there is none
    inode,     \* what the inodes hold
    call,      \* the calls, and the start's own
    up,        \* whether the server is up
    settled,   \* history: what the last call naming a key has left, or Unknown
    losses     \* the bounded counter

secretVars == <<scope, plain, entry, manifest, env, inode, call, up, settled,
                losses>>

SecretKeys    == 1..KeyCount
Values  == 1..ValueCount
Unknown == ValueCount + 1
Start   == "start"
Actors  == SecretCallers \cup {Start}
None    == [k \in SecretKeys |-> 0]
NoCall  == [at |-> "idle", op |-> "get", named |-> None, known |-> {}, todo |-> {},
            fresh |-> {}, seen |-> None, file |-> 0, expect |-> [k \in SecretKeys |-> Unknown],
            alone |-> TRUE]

\* The plaintext file has a value for every key.
Plain == [k \in SecretKeys |-> 1]

Inodes == 1..(Cardinality(SecretCallers) + 2)
EmptyInode  == [whole |-> TRUE, content |-> None]

SecretsInit ==
    /\ scope \in Scopes
    /\ plain \in (IF scope = "file" THEN {FALSE} ELSE BOOLEAN)
    /\ entry = None
    /\ manifest = {}
    /\ env = [final |-> 0, temp |-> 0]
    /\ inode = [i \in Inodes |-> EmptyInode]
    /\ call = [c \in Actors |-> NoCall]
    /\ up = FALSE
    /\ settled = [k \in SecretKeys |-> IF plain THEN Unknown ELSE 0]
    /\ losses = 0

SecretPlaces ==
    {"idle", "removes", "lists", "discovers", "heals", "inserts", "writes", "undoes", "shows",
     "answers", "reads", "opens", "fills", "renames", "stats", "makes", "unlinks", "compares",
     "rolls"}
Maps == [SecretKeys -> 0..ValueCount]

SecretCall ==
    [at : SecretPlaces, op : {"get", "set", "delete", "create", "move"}, named : Maps,
     known : SUBSET SecretKeys, todo : SUBSET SecretKeys, fresh : SUBSET SecretKeys,
     seen : Maps, file : {0} \cup Inodes, expect : [SecretKeys -> 0..Unknown], alone : BOOLEAN]

SecretsTypeOK ==
    /\ scope \in Scopes
    /\ plain \in BOOLEAN
    /\ entry \in Maps
    /\ manifest \subseteq SecretKeys
    /\ env \in [final : {0} \cup Inodes, temp : {0} \cup Inodes]
    /\ inode \in [Inodes -> [whole : BOOLEAN, content : Maps]]
    /\ env.final # 0 => env.final # env.temp
    /\ call \in [Actors -> SecretCall]
    /\ \A c \in Actors : call[c].at # "undoes" => call[c].fresh \cap call[c].known = {}
    /\ up \in BOOLEAN
    /\ settled \in [SecretKeys -> 0..Unknown]
    /\ losses \in 0..MaxLosses

Fails == losses < MaxLosses /\ losses' = losses + 1

-----------------------------------------------------------------------------
(* Calls and what they disturb                                             *)

Names(c)  == {k \in SecretKeys : call[c].named[k] # 0}
Active    == {c \in Actors : call[c].at # "idle"}
Changing  == {c \in Active : call[c].op \in {"set", "delete", "create"}}

\* Only in the entries of a domain do calls that name different keys not meet.
Meets(keys) == {d \in Changing : scope # "domain" \/ Names(d) \cap keys # {}}

\* What becomes unknown when a change of these keys begins.
Disturbed(keys) == IF scope # "domain" /\ Meets(keys) # {} THEN SecretKeys ELSE keys

To(c, at) == call' = [call EXCEPT ![c].at = at]

BeginsChange(c, op, named, at) ==
    LET keys == {k \in SecretKeys : named[k] # 0}
    IN  /\ call[c] = NoCall
        /\ settled' = [k \in SecretKeys |-> IF k \in Disturbed(keys) THEN Unknown ELSE settled[k]]
        /\ call' = [d \in Actors |->
              IF d = c THEN [NoCall EXCEPT !.at = at, !.op = op, !.named = named,
                                           !.alone = Meets(keys) = {}]
              ELSE [call[d] EXCEPT
                      !.alone = @ /\ d \notin Meets(keys),
                      !.expect = [k \in SecretKeys |-> IF k \in Disturbed(keys) THEN Unknown
                                                 ELSE @[k]]]]

\* A call that succeeded without another in its way has settled its keys.
Succeeds(c) ==
    /\ settled' = [k \in SecretKeys |->
          IF call[c].alone /\ k \in Names(c)
          THEN IF call[c].op = "delete" THEN 0 ELSE call[c].named[k]
          ELSE settled[k]]
    /\ call' = [call EXCEPT ![c] = NoCall]
Returns(c) == call' = [call EXCEPT ![c] = NoCall] /\ UNCHANGED settled

\* Service.Set, SetAttachment, Delete, DeleteAttachment and GetAll.
CallSet(c) ==
    /\ up
    /\ \E named \in Maps \ {None} :
          BeginsChange(c, "set", named, IF scope = "file" THEN "reads" ELSE "lists")
    /\ UNCHANGED <<scope, plain, entry, manifest, env, inode, up, losses>>

CallDelete(c) ==
    /\ up
    /\ \E k \in SecretKeys :
          BeginsChange(c, "delete", [None EXCEPT ![k] = 1],
                       IF scope = "file" THEN "reads" ELSE "removes")
    /\ UNCHANGED <<scope, plain, entry, manifest, env, inode, up, losses>>

CallGetAll(c) ==
    /\ up
    /\ call[c] = NoCall
    /\ call' = [call EXCEPT ![c] = [NoCall EXCEPT
                   !.at = IF scope = "file" THEN "reads" ELSE "lists", !.expect = settled]]
    /\ UNCHANGED <<scope, plain, entry, manifest, env, inode, up, settled, losses>>

\* A new route gets an environment file of its own.
CallCreateEnvFile(c) ==
    /\ up /\ scope = "file"
    /\ BeginsChange(c, "create", None, "stats")
    /\ UNCHANGED <<scope, plain, entry, manifest, env, inode, up, losses>>

-----------------------------------------------------------------------------
(* pass                                                                    *)

\* Where a call goes once it knows the keys, which a read only goes through.
Listed(c, known) ==
    call' = [call EXCEPT ![c].known = IF call[c].op = "get" THEN {} ELSE known,
        ![c].at = CASE call[c].op = "get" -> "shows"
                    [] call[c].op = "delete" -> "writes"
                    [] OTHER -> "inserts",
        ![c].todo = CASE call[c].op = "get" -> known
                      [] call[c].op = "delete" -> {}
                      [] OTHER -> Names(c)]

\* SetIfEmpty lists the keys twice, the second time in Set.
Refuses(c, known) == call[c].op = "move" /\ known # {}
ListsAlways(c)    == call' = [call EXCEPT ![c].op = "set", ![c].at = "lists"]

Discovering(c) == scope = "domain" \/ call[c].op = "move"

\* ListKeys and its like: the manifest, then what it misses.
ListsManifest(c) ==
    /\ call[c].at = "lists"
    /\ \/ /\ IF Discovering(c)
             THEN call' = [call EXCEPT ![c].known = manifest, ![c].at = "discovers"]
             ELSE Listed(c, manifest)
          /\ UNCHANGED <<settled, losses>>
       \/ Returns(c) /\ Fails
    /\ UNCHANGED <<scope, plain, entry, manifest, env, inode, up>>

Stored == {k \in SecretKeys : entry[k] # 0}

\* Mutated: the manifest is trusted.
DiscoversNothing(c) ==
    /\ call[c].at = "discovers"
    /\ Listed(c, call[c].known)
    /\ UNCHANGED <<scope, plain, entry, manifest, env, inode, up, settled, losses>>

DiscoversKeys(c) ==
    LET merged == call[c].known \cup Stored
    IN  /\ call[c].at = "discovers"
        /\ \/ /\ merged # call[c].known
              /\ call' = [call EXCEPT ![c].known = merged, ![c].at = "heals"]
              /\ UNCHANGED <<settled, losses>>
           \/ /\ merged = call[c].known
              /\ IF Refuses(c, merged) THEN Returns(c)
                 ELSE /\ IF call[c].op = "move" THEN ListsAlways(c) ELSE Listed(c, merged)
                      /\ UNCHANGED settled
              /\ UNCHANGED losses
           \/ Returns(c) /\ Fails
        /\ UNCHANGED <<scope, plain, entry, manifest, env, inode, up>>

\* A manifest that cannot be healed is only logged.
HealsManifest(c) ==
    /\ call[c].at = "heals"
    /\ \/ manifest' = call[c].known /\ UNCHANGED losses
       \/ UNCHANGED manifest /\ Fails
    /\ IF Refuses(c, call[c].known) THEN Returns(c)
       ELSE Listed(c, call[c].known) /\ UNCHANGED settled
    /\ UNCHANGED <<scope, plain, entry, env, inode, up>>

\* Where a Set goes whose command has failed: the keys it added are removed.
GivesUpSet(c) ==
    IF call[c].fresh = {} THEN Returns(c)
    ELSE /\ call' = [call EXCEPT ![c].at = "undoes", ![c].known = {}, ![c].todo = {}]
         /\ UNCHANGED settled

\* A map has no order.  A command that fails may have stored the value.
InsertsKey(c, k) ==
    /\ call[c].at = "inserts"
    /\ k \in call[c].todo
    /\ \/ /\ entry' = [entry EXCEPT ![k] = call[c].named[k]]
          /\ call' = [call EXCEPT ![c].todo = @ \ {k},
                         ![c].fresh = IF k \in call[c].known THEN @ ELSE @ \cup {k},
                         ![c].at = IF call[c].todo = {k} THEN "writes" ELSE @]
          /\ UNCHANGED <<settled, losses>>
       \/ /\ entry' \in {entry, [entry EXCEPT ![k] = call[c].named[k]]}
          /\ GivesUpSet(c)
          /\ Fails
    /\ UNCHANGED <<scope, plain, manifest, env, inode, up>>

\* cleanupInsertedPaths
UndoesInsert(c, k) ==
    /\ call[c].at = "undoes"
    /\ k \in call[c].fresh
    /\ \/ entry' = [entry EXCEPT ![k] = 0] /\ UNCHANGED losses
       \/ UNCHANGED entry /\ Fails
    /\ IF call[c].fresh = {k} THEN Returns(c)
       ELSE call' = [call EXCEPT ![c].fresh = @ \ {k}] /\ UNCHANGED settled
    /\ UNCHANGED <<scope, plain, manifest, env, inode, up>>

\* The manifest that a Set or a Delete leaves.
Rewritten(c) == IF call[c].op = "delete" THEN call[c].known \ Names(c)
                ELSE call[c].known \cup Names(c)

WritesManifest(c) ==
    /\ call[c].at = "writes"
    /\ \/ /\ manifest' = Rewritten(c)
          /\ IF c = Start THEN To(c, "unlinks") /\ UNCHANGED settled ELSE Succeeds(c)
          /\ UNCHANGED losses
       \/ UNCHANGED manifest /\ GivesUpSet(c) /\ Fails
    /\ UNCHANGED <<scope, plain, entry, env, inode, up>>

\* Delete removes the entry first.
RemovesKey(c) ==
    /\ call[c].at = "removes"
    /\ \/ /\ entry' = [k \in SecretKeys |-> IF k \in Names(c) THEN 0 ELSE entry[k]]
          /\ To(c, "lists")
          /\ UNCHANGED <<settled, losses>>
       \/ UNCHANGED entry /\ Returns(c) /\ Fails
    /\ UNCHANGED <<scope, plain, manifest, env, inode, up>>

\* GetAll skips a key that has no entry.
ShowsKeys(c) ==
    /\ call[c].at = "shows"
    /\ \/ /\ call[c].todo = {}
          /\ To(c, "answers")
          /\ UNCHANGED <<settled, losses>>
       \/ \E k \in call[c].todo :
             /\ call' = [call EXCEPT ![c].todo = @ \ {k}, ![c].seen[k] = entry[k]]
             /\ UNCHANGED <<settled, losses>>
       \/ call[c].todo # {} /\ Returns(c) /\ Fails
    /\ UNCHANGED <<scope, plain, entry, manifest, env, inode, up>>

AnswersRead(c) ==
    /\ call[c].at = "answers"
    /\ Returns(c)
    /\ UNCHANGED <<scope, plain, entry, manifest, env, inode, up, losses>>

-----------------------------------------------------------------------------
(* The environment file                                                    *)

\* An inode into which two have written may read as anything.
Reads(i) == IF i = 0 THEN {None} ELSE IF inode[i].whole THEN {inode[i].content} ELSE Maps

\* A change goes on with the whole content, a read returns it.
ReadsFile(c) ==
    /\ call[c].at = "reads"
    /\ \/ /\ \E content \in Reads(env.final) :
                call' = [call EXCEPT
                    ![c].seen = [k \in SecretKeys |->
                        IF k \notin Names(c) THEN content[k]
                        ELSE IF call[c].op = "delete" THEN 0 ELSE call[c].named[k]],
                    ![c].at = IF call[c].op = "get" THEN "answers" ELSE "opens"]
          /\ UNCHANGED <<settled, losses>>
       \/ /\ env.final # 0 /\ ~ inode[env.final].whole
          /\ Returns(c)
          /\ UNCHANGED losses
       \/ Returns(c) /\ Fails
    /\ UNCHANGED <<scope, plain, entry, manifest, env, inode, up>>

InUse == {env.final, env.temp} \cup {call[c].file : c \in SecretCallers}

\* Without a name and a writer an inode is gone.
Holds(content) == inode' = [i \in Inodes |-> IF i \in InUse' THEN content[i] ELSE EmptyInode]

\* Opening truncates the temporary file of another, or the one a death has left.
OpensTemp(c) ==
    /\ call[c].at = "opens"
    /\ \/ /\ LET i == IF env.temp # 0 THEN env.temp
                      ELSE CHOOSE i \in Inodes : i \notin InUse
             IN  /\ env' = [env EXCEPT !.temp = i]
                 /\ inode' = [inode EXCEPT ![i] = [whole |-> FALSE, content |-> None]]
                 /\ call' = [call EXCEPT ![c].at = "fills", ![c].file = i]
          /\ UNCHANGED <<settled, losses>>
       \/ UNCHANGED <<env, inode>> /\ Returns(c) /\ Fails
    /\ UNCHANGED <<scope, plain, entry, manifest, up>>

\* Whether another writes, or has written, the same inode since this call truncated it.
Shared(c) ==
    LET i == call[c].file
    IN  \/ inode[i].whole
        \/ \E d \in SecretCallers \ {c} : call[d].at = "fills" /\ call[d].file = i

RemovesTemp == env' = [env EXCEPT !.temp = 0]

\* The inode may have its final name already, through another's rename.
FillsTemp(c) ==
    /\ call[c].at = "fills"
    /\ \/ /\ call' = [call EXCEPT ![c].at = "renames", ![c].seen = None, ![c].file = 0]
          /\ UNCHANGED <<env, settled, losses>>
          /\ Holds([inode EXCEPT ![call[c].file] =
                       IF Shared(c) THEN [whole |-> FALSE, content |-> None]
                       ELSE [whole |-> TRUE, content |-> call[c].seen]])
       \/ RemovesTemp /\ Returns(c) /\ Fails /\ Holds(inode)
    /\ UNCHANGED <<scope, plain, entry, manifest, up>>

\* There may be no temporary file any more, or another's.
RenamesTemp(c) ==
    /\ call[c].at = "renames"
    /\ \/ /\ env.temp # 0
          /\ env' = [final |-> env.temp, temp |-> 0]
          /\ Succeeds(c)
          /\ UNCHANGED losses
       \/ /\ RemovesTemp
          /\ Returns(c)
          /\ IF env.temp # 0 THEN Fails ELSE UNCHANGED losses
    /\ Holds(inode)
    /\ UNCHANGED <<scope, plain, entry, manifest, up>>

\* CreateEnvFile writes over what has come since it looked.
StatsFile(c) ==
    /\ call[c].at = "stats"
    /\ IF env.final # 0 THEN Succeeds(c) ELSE To(c, "makes") /\ UNCHANGED settled
    /\ UNCHANGED <<scope, plain, entry, manifest, env, inode, up, losses>>

MakesFile(c) ==
    /\ call[c].at = "makes"
    /\ \/ /\ LET i == IF env.final # 0 THEN env.final
                      ELSE CHOOSE i \in Inodes : i \notin InUse
             IN  /\ env' = [env EXCEPT !.final = i]
                 /\ inode' = [inode EXCEPT ![i] = EmptyInode]
          /\ Succeeds(c)
          /\ UNCHANGED losses
       \/ UNCHANGED <<env, inode>> /\ Returns(c) /\ Fails
    /\ UNCHANGED <<scope, plain, entry, manifest, up>>

-----------------------------------------------------------------------------
(* The start                                                               *)

Starts ==
    /\ ~ up
    /\ call[Start] = NoCall
    /\ IF plain
       THEN call' = [call EXCEPT ![Start] = [NoCall EXCEPT
                        !.at = "lists", !.op = "move", !.named = Plain]] /\ UNCHANGED up
       ELSE up' = TRUE /\ UNCHANGED call
    /\ UNCHANGED <<scope, plain, entry, manifest, env, inode, settled, losses>>

Moved ==
    /\ up' = TRUE
    /\ settled' = Plain
    /\ call' = [call EXCEPT ![Start] = NoCall]

RemovesPlain ==
    /\ call[Start].at = "unlinks"
    /\ \/ plain' = FALSE /\ Moved /\ UNCHANGED losses
       \/ /\ UNCHANGED <<plain, up, settled>>
          /\ To(Start, "compares")
          /\ Fails
    /\ UNCHANGED <<scope, entry, manifest, env, inode>>

\* A file that cannot be removed is left when the secrets read back as they are in it.
\* Otherwise, as when reading fails, they are deleted again and the start fails.
ComparesStored ==
    /\ call[Start].at = "compares"
    /\ \/ /\ entry = Plain /\ (scope = "domain" \/ manifest = SecretKeys)
          /\ Moved
          /\ UNCHANGED losses
       \/ /\ call' = [call EXCEPT ![Start].at = "rolls", ![Start].todo = SecretKeys]
          /\ UNCHANGED <<up, settled>>
          /\ Fails
    /\ UNCHANGED <<scope, plain, entry, manifest, env, inode>>

\* A Delete of each, which nobody meets.
RollsBackKey(k) ==
    /\ call[Start].at = "rolls"
    /\ k \in call[Start].todo
    /\ \/ /\ entry' = [entry EXCEPT ![k] = 0]
          /\ manifest' = (IF scope = "domain" THEN manifest \cup Stored ELSE manifest) \ {k}
          /\ UNCHANGED losses
       \/ entry' \in {entry, [entry EXCEPT ![k] = 0]} /\ UNCHANGED manifest /\ Fails
    /\ call' = [call EXCEPT ![Start] =
                    IF call[Start].todo = {k} THEN NoCall
                    ELSE [call[Start] EXCEPT !.todo = @ \ {k}]]
    /\ UNCHANGED <<scope, plain, env, inode, up, settled>>

ServerEnds ==
    /\ Fails
    /\ up' = FALSE
    /\ call' = [c \in Actors |-> NoCall]
    /\ UNCHANGED <<scope, plain, entry, manifest, env, settled>>
    /\ Holds(inode)

SecretStep(c) ==
    \/ ListsManifest(c) \/ DiscoversKeys(c) \/ HealsManifest(c)
    \/ \E k \in SecretKeys : InsertsKey(c, k) \/ UndoesInsert(c, k)
    \/ WritesManifest(c)

SecretsNext ==
    \/ \E c \in Actors : SecretStep(c)
    \/ \E c \in SecretCallers :
          \/ CallSet(c) \/ CallDelete(c) \/ CallGetAll(c) \/ CallCreateEnvFile(c)
          \/ RemovesKey(c) \/ ShowsKeys(c) \/ AnswersRead(c)
          \/ ReadsFile(c) \/ OpensTemp(c) \/ FillsTemp(c) \/ RenamesTemp(c)
          \/ StatsFile(c) \/ MakesFile(c)
    \/ Starts \/ RemovesPlain \/ ComparesStored \/ (\E k \in SecretKeys : RollsBackKey(k)) \/ ServerEnds

SecretsSpec == SecretsInit /\ [][SecretsNext]_secretVars

-----------------------------------------------------------------------------
(* Properties                                                              *)

\* A read returns every secret as the last call that named it has left it, if no other call
\* was in the way of that one: whatever has failed, died, been undone or been written to the
\* manifest by others since, and through the move from the plaintext file.
ReadsAreComplete ==
    \A c \in SecretCallers : call[c].at = "answers" =>
        \A k \in SecretKeys : call[c].expect[k] \in {Unknown, call[c].seen[k]}
=============================================================================
