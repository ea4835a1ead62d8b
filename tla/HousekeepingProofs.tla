-------------------------- MODULE HousekeepingProofs --------------------------
(***************************************************************************)
(* Proofs about what the server keeps beside its containers, for any       *)
(* number of calls, processes, handshakes, starts and ticks: what becomes  *)
(* of a signal of the CLI (Lifecycle), of the trust in the internal        *)
(* authority (InternalCa), and of the secrets that calls change and read   *)
(* without a lock (DomainSecrets); which goroutine orders certificates     *)
(* (Certificates) and which ids a deploy remembers (Attachments); and that *)
(* all of it stays within its types.                                       *)
(***************************************************************************)
EXTENDS MCHousekeeping, FiniteSetTheorems, SequenceTheorems, TLAPS

-----------------------------------------------------------------------------
(* The process and the CLI                                                 *)

\* Until it is withdrawn or read, the request file is the one of a deploy call, alone: it
\* is empty while that call writes, and holds its domain from then on.
Holding == {"finds", "checks", "signals", "withdraws"}

RequestIsOwned ==
    /\ \A c \in Calls \ DeployCalls : cli[c].at \notin {"opens", "writes", "withdraws"}
    /\ \A c \in DeployCalls :
          /\ cli[c].at = "writes" => request = Empty
          /\ cli[c].at \in Holding => request = c
          /\ \A d \in DeployCalls : cli[c].at = "writes" /\ cli[d].at = "writes" => c = d

\* What the loop has read was asked for, and it has read once for each signal.
LoopIsAsked ==
    /\ deployChan \/ server.at = "reads" => request \in due \cap DeployCalls
    /\ ~ (deployChan /\ server.at = "reads")
    /\ taken # Absent => /\ server.at = "publishes"
                         /\ taken \in due \cap DeployCalls
                         /\ request # taken

\* A call that was told of success is over, and its signal or its request is on its way.
DueIsServed ==
    /\ \A c \in due : cli[c].at = "idle"
    /\ due \cap ReloadCalls # {} => reloadChan
    /\ \A c \in due \cap DeployCalls :
          \/ request = c /\ (deployChan \/ server.at = "reads")
          \/ taken = c

LeftBehind ==
    \A c \in DeployCalls :
       request = c /\ cli[c].at \in {"idle", "opens"} /\ ~ stranded => c \in due

LifeInv == RequestIsOwned /\ LoopIsAsked /\ DueIsServed /\ LeftBehind

LEMMA LifeInitTypes ==
  ASSUME LifeInit
  PROVE  LifeTypeOK
<1>0. /\ MaxStarts \in Nat /\ MaxKills \in Nat
  BY LifeAssumption
<1>1. server \in [at : {"down"} \cup Uncaught \cup Caught, start : 0..MaxStarts]
  BY <1>0 DEF LifeInit
<1>2. cli \in [Calls -> [at : {"idle", "opens", "writes", "finds", "checks", "signals",
                              "withdraws"}, pid : 0..MaxStarts]]
  BY <1>0 DEF LifeInit
<1>3. deployChan \in BOOLEAN /\ reloadChan \in BOOLEAN /\ stranded \in BOOLEAN
  BY Zenon DEF LifeInit
<1>4. request \in {Absent} /\ taken \in {Absent} /\ due \subseteq Calls /\ pid = 0 /\ kills = 0
  BY DEF LifeInit
<1> QED
  BY <1>0, <1>1, <1>2, <1>3, <1>4 DEF LifeTypeOK

LEMMA LifeTypesStep ==
  ASSUME LifeTypeOK, LifeInv, [LifeNext]_lifeVars
  PROVE  LifeTypeOK'
<1> USE LifeAssumption DEF LifeTypeOK, Uncaught, Loop, Caught
<1>1. CASE StartsUp
  BY <1>1 DEF StartsUp
<1>2. CASE CreatesPidFile
  BY <1>2 DEF CreatesPidFile, Becomes
<1>3. CASE Catches \/ EntersLoop \/ FailsToBoot \/ Shuts \/ StopsCatching
  BY <1>3 DEF Catches, EntersLoop, FailsToBoot, Shuts, StopsCatching, Becomes
<1>4. CASE RemovesPidFile \/ KillsServer
  <2>1. stranded' \in BOOLEAN /\ deployChan' \in BOOLEAN /\ reloadChan' \in BOOLEAN
    BY <1>4, Zenon DEF RemovesPidFile, KillsServer, Ends
  <2>2. /\ Becomes("down") /\ pid' \in {pid, 0} /\ kills' \in 0..MaxKills
        /\ taken' = Absent /\ due' = {} /\ UNCHANGED <<request, cli>>
    BY <1>4 DEF RemovesPidFile, KillsServer, Ends
  <2> QED
    BY <2>1, <2>2 DEF Becomes
<1>5. CASE Reloads \/ Reloaded \/ TakesSignal
  BY <1>5 DEF Reloads, Reloaded, TakesSignal, Becomes
<1>6. CASE readDeployRequest \/ Publishes
  BY <1>6 DEF readDeployRequest, Publishes, Becomes
<1>7. ASSUME NEW c \in Calls, CallsCli(c) \/ CliStep(c) \/ KillsCli(c)
      PROVE  LifeTypeOK'
  <2> DEFINE Ats == {"idle", "opens", "writes", "finds", "checks", "signals", "withdraws"}
  <2>1. /\ \A at \in Ats : Goes(c, at) => cli' \in [Calls -> [at : Ats, pid : 0..MaxStarts]]
        /\ GivesUp(c) => cli' \in [Calls -> [at : Ats, pid : 0..MaxStarts]]
    BY DEF Goes, GivesUp
  <2>2. CASE CallsCli(c) \/ Opens(c) \/ Writes(c)
    <3>1. Writes(c) => c \in DeployCalls
      BY DEF Writes, LifeInv, RequestIsOwned
    <3> QED
      BY <2>1, <2>2, <3>1 DEF CallsCli, Opens, Writes, CliOnly
  <2>3. CASE Finds(c) \/ Checks(c)
    BY <2>1, <2>3 DEF Finds, Checks, CliOnly
  <2>4. CASE Signals(c) \/ SignalPasses(c)
    <3>1. stranded' \in BOOLEAN /\ deployChan' \in BOOLEAN /\ reloadChan' \in BOOLEAN
      BY <2>4, Zenon DEF Signals, SignalPasses
    <3>2. /\ Goes(c, "idle") /\ due' \subseteq due \cup {c}
          /\ UNCHANGED <<server, pid, request, taken, kills>>
      BY <2>4 DEF Signals, SignalPasses
    <3> QED
      BY <2>1, <3>1, <3>2
  <2>5. CASE FindsNobody(c) \/ Withdraws(c)
    BY <2>1, <2>5 DEF FindsNobody, Withdraws, CliOnly
  <2>6. CASE KillsCli(c)
    <3>1. stranded' \in BOOLEAN
      BY <2>6, Zenon DEF KillsCli
    <3>2. /\ Goes(c, "idle") /\ kills' \in 0..MaxKills
          /\ UNCHANGED <<server, pid, deployChan, reloadChan, request, taken, due>>
      BY <2>6 DEF KillsCli
    <3> QED
      BY <2>1, <3>1, <3>2
  <2> QED
    BY <1>7, <2>2, <2>3, <2>4, <2>5, <2>6 DEF CliStep
<1>8. CASE UNCHANGED lifeVars
  BY <1>8 DEF lifeVars
<1> QED
  BY <1>1, <1>2, <1>3, <1>4, <1>5, <1>6, <1>7, <1>8 DEF LifeNext

\* A step of the CLI is one of a single call.
Steers(c, at) == cli'[c].at = at /\ \A e \in Calls \ {c} : cli'[e] = cli[e]

LEMMA GoesSteers ==
  ASSUME LifeTypeOK, NEW c \in Calls
  PROVE  /\ \A at : Goes(c, at) => Steers(c, at)
         /\ GivesUp(c) => Steers(c, IF c \in DeployCalls THEN "withdraws" ELSE "idle")
<1>1. cli \in [Calls -> [at : {"idle", "opens", "writes", "finds", "checks", "signals",
                              "withdraws"}, pid : 0..MaxStarts]]
  BY DEF LifeTypeOK
<1> QED
  BY <1>1 DEF Goes, GivesUp, Steers

LEMMA LifeInvStep ==
  ASSUME LifeTypeOK, LifeInv, [LifeNext]_lifeVars
  PROVE  LifeInv'
<1>0. Absent # Empty /\ Absent \notin DeployCalls /\ Empty \notin DeployCalls
  BY LifeAssumption DEF Absent, Empty
<1> USE <1>0, LifeAssumption DEF LifeTypeOK, LifeInv, RequestIsOwned, LoopIsAsked, DueIsServed,
        LeftBehind, Holding, Calls
<1>1. CASE StartsUp \/ CreatesPidFile
  BY <1>1 DEF StartsUp, CreatesPidFile, Becomes
<1>2. CASE Catches \/ EntersLoop \/ FailsToBoot \/ Shuts \/ StopsCatching
  BY <1>2 DEF Catches, EntersLoop, FailsToBoot, Shuts, StopsCatching, Becomes
<1>3. CASE RemovesPidFile \/ KillsServer
  BY <1>3 DEF RemovesPidFile, KillsServer, Ends, Becomes
<1>4. CASE Reloads \/ Reloaded \/ TakesSignal
  BY <1>4 DEF Reloads, Reloaded, TakesSignal, Becomes
<1>5. CASE readDeployRequest
  BY <1>5 DEF readDeployRequest, Becomes
<1>6. CASE Publishes
  BY <1>6 DEF Publishes, Becomes
<1>7. ASSUME NEW c \in Calls, CallsCli(c) \/ CliStep(c) \/ KillsCli(c)
      PROVE  LifeInv'
  <2>0. /\ \A at : Goes(c, at) => Steers(c, at)
        /\ GivesUp(c) => Steers(c, IF c \in DeployCalls THEN "withdraws" ELSE "idle")
    BY GoesSteers
  <2>1. CASE CallsCli(c)
    BY <2>0, <2>1 DEF CallsCli, Steers, CliOnly
  <2>2. CASE Opens(c)
    <3>1. CASE request = Absent /\ request' = Empty /\ Steers(c, "writes")
      BY <2>2, <3>1 DEF Opens, Steers, CliOnly
    <3>2. CASE UNCHANGED request /\ Steers(c, "idle")
      BY <2>2, <3>2 DEF Opens, Steers, CliOnly
    <3> QED
      BY <2>0, <2>2, <3>1, <3>2 DEF Opens
  <2>3. CASE Writes(c)
    BY <2>0, <2>3 DEF Writes, Steers, CliOnly
  <2>4. CASE Finds(c)
    BY <2>0, <2>4 DEF Finds, Steers, CliOnly
  <2>5. CASE Checks(c)
    BY <2>0, <2>5 DEF Checks, Steers, CliOnly
  <2>6. CASE Signals(c)
    <3>1. /\ deployChan' <=> deployChan \/ c \in DeployCalls
          /\ reloadChan' <=> reloadChan \/ c \in ReloadCalls
      BY <2>6, Zenon DEF Signals
    <3>2. /\ cli[c].at = "signals" /\ due' = due \cup {c} /\ Steers(c, "idle")
          /\ UNCHANGED <<server, request, taken, stranded>>
      BY <2>0, <2>6 DEF Signals
    <3> QED
      BY <3>1, <3>2 DEF Steers
  <2>7. CASE SignalPasses(c)
    <3>1. stranded' <=> stranded \/ c \in DeployCalls
      BY <2>7, Zenon DEF SignalPasses
    <3>2. /\ cli[c].at = "signals" /\ Steers(c, "idle")
          /\ UNCHANGED <<server, deployChan, reloadChan, request, taken, due>>
      BY <2>0, <2>7 DEF SignalPasses
    <3> QED
      BY <3>1, <3>2 DEF Steers
  <2>8. CASE FindsNobody(c)
    BY <2>0, <2>8 DEF FindsNobody, Steers, CliOnly
  <2>9. CASE Withdraws(c)
    BY <2>0, <2>9 DEF Withdraws, Steers, CliOnly
  <2>10. CASE KillsCli(c)
    <3>1. stranded' <=> stranded \/ request = c \/ cli[c].at = "writes"
      BY <2>10, Zenon DEF KillsCli
    <3>2. /\ cli[c].at # "idle" /\ Steers(c, "idle")
          /\ UNCHANGED <<server, deployChan, reloadChan, request, taken, due>>
      BY <2>0, <2>10 DEF KillsCli
    <3> QED
      BY <3>1, <3>2 DEF Steers
  <2> QED
    BY <1>7, <2>1, <2>2, <2>3, <2>4, <2>5, <2>6, <2>7, <2>8, <2>9, <2>10 DEF CliStep
<1>8. CASE UNCHANGED lifeVars
  BY <1>8 DEF lifeVars
<1> QED
  BY <1>1, <1>2, <1>3, <1>4, <1>5, <1>6, <1>7, <1>8 DEF LifeNext

LEMMA LifeInvInit == LifeInit => LifeTypeOK /\ LifeInv
<1>1. LifeInit => LifeInv
  BY LifeAssumption DEF LifeInit, LifeInv, RequestIsOwned, LoopIsAsked, DueIsServed,
                        LeftBehind, Holding, Calls
<1> QED
  BY <1>1, LifeInitTypes

\* What the CLI was told had succeeded is served or still on its way (app/run.go,
\* waitForShutdown and readDeployRequest; the CLI's deploy and reload), for any number of
\* calls, starts and kills: a domain and a signal are lost with the process only, and a
\* request file without a call that was told of success was left by a death or by a signal
\* nobody caught.
THEOREM SignalsAreHeard == LifeSpec => [](LifeTypeOK /\ SignalIsHeard)
<1>1. LifeInit => LifeTypeOK /\ LifeInv
  BY LifeInvInit
<1>2. LifeTypeOK /\ LifeInv /\ [LifeNext]_lifeVars => (LifeTypeOK /\ LifeInv)'
  BY LifeTypesStep, LifeInvStep
<1>3. LifeTypeOK /\ LifeInv => SignalIsHeard
  BY LifeAssumption DEF LifeTypeOK, LifeInv, LoopIsAsked, DueIsServed, LeftBehind,
                        SignalIsHeard, Calls, Absent, Empty
<1> QED
  BY <1>1, <1>2, <1>3, PTL DEF LifeSpec

-----------------------------------------------------------------------------
(* The authority                                                           *)

HasRoot == rootFiles.cert # 0

Seeking == {"rootCert", "rootKey"}
Storing == {"storesRootKey", "storesRootCert"}

\* One process makes the root, and nobody is past it before.
OneRoot ==
    /\ ~ HasRoot =>
          /\ \A p, q \in Openers :
                opener[p].at \in RootPlaces /\ opener[q].at \in RootPlaces => p = q
          /\ \A p \in Openers : opener[p].at \notin InterPlaces
    /\ HasRoot => rootFiles.key = rootFiles.cert

\* An intermediate that was made, or found usable.
Sound(pair) == pair.key = pair.cert.id /\ pair.cert.root = rootFiles.cert /\ HasRoot

OpenersAgree ==
    \A p \in Openers :
       /\ opener[p].at \in {"rootKey"} \cup InterPlaces => opener[p].root = rootFiles.cert
       /\ opener[p].at \in Storing => ~ HasRoot
       /\ opener[p].at = "storesRootKey" => rootFiles.key = 0
       /\ opener[p].at = "storesRootCert" => rootFiles.key = opener[p].root
       /\ opener[p].at = "refused" =>
             /\ ~ HasRoot /\ rootFiles.key # 0
             /\ \A q \in Openers : opener[q].at \notin Storing
       /\ opener[p].at \in {"storesKey", "storesCert"} => Sound(opener[p].pair)

IssuerIsSound == issuer = NoPair \/ Sound(issuer)

Signed(leaf) ==
    \/ leaf = NoLeaf
    \/ Sound([key |-> leaf.key, cert |-> leaf.cert]) /\ leaf.until <= leaf.cert.until

LeavesAreSound ==
    /\ Signed(cache)
    /\ Signed(flight.leaf)
    /\ flight.at = "stores" => Valid(flight.leaf)
    /\ flight.at # "idle" => \E h \in Handshakes : handshake[h].at = "waits"
    /\ \A h \in Handshakes :
          /\ Signed(handshake[h].leaf)
          /\ handshake[h].at \in {"hit", "served"} => Valid(handshake[h].leaf)
          /\ handshake[h].at = "answered" =>
                handshake[h].leaf = NoLeaf \/ Valid(handshake[h].leaf)

ExportedIsRoot == exported \subseteq {rootFiles.cert} \ {0}

OpenersInv == OneRoot /\ OpenersAgree /\ ExportedIsRoot

CaInv == OpenersInv /\ IssuerIsSound /\ LeavesAreSound

\* Whether or not two processes have made a root at once.
RootsAreMade ==
    \A p \in Openers : opener[p].at \in Storing \cup InterPlaces => opener[p].root # 0

CaIInv == contended \/ CaInv

\* What a step makes of one of the openers, and that it leaves the others alone.
Turns(p, at, root, pair) ==
    /\ opener' \in [Openers -> OpenerRecord]
    /\ opener'[p].at = at /\ opener'[p].root = root /\ opener'[p].pair = pair
    /\ \A q \in Openers \ {p} : opener'[q] = opener[q]

LEMMA Turned ==
  ASSUME CaTypeOK, NEW p \in Openers, NEW record \in OpenerRecord,
         opener' = [opener EXCEPT ![p] = record]
  PROVE  Turns(p, record.at, record.root, record.pair)
<1>1. opener \in [Openers -> OpenerRecord]
  BY DEF CaTypeOK
<1> QED
  BY <1>1 DEF Turns

LEMMA MovesTurns ==
  ASSUME CaTypeOK, NEW p \in Openers, NEW at \in RootPlaces \cup InterPlaces, Moves(p, at)
  PROVE  Turns(p, at, opener[p].root, opener[p].pair)
<1>1. opener' = [opener EXCEPT ![p] = [opener[p] EXCEPT !.at = at]]
  BY DEF Moves
<1>2. opener[p] \in OpenerRecord
  BY DEF CaTypeOK
<1>3. /\ [opener[p] EXCEPT !.at = at] \in OpenerRecord
      /\ [opener[p] EXCEPT !.at = at].at = at
      /\ [opener[p] EXCEPT !.at = at].root = opener[p].root
      /\ [opener[p] EXCEPT !.at = at].pair = opener[p].pair
  BY <1>2 DEF OpenerRecord
<1> QED
  BY <1>1, <1>3, Turned

LEMMA NothingTyped ==
  /\ NoPair \in Pairs /\ NoLeaf \in Leaves
  /\ NoPair.key = 0 /\ NoPair.cert = NoCert /\ NoCert.until = 0 /\ NoCert.id = 0
  BY CaAssumption DEF NoPair, NoLeaf, NoCert, Pairs, Leaves, Certs, Keys, Times

LEMMA ClosesTurns ==
  ASSUME CaTypeOK, NEW p \in Openers, NEW at \in {"closed", "refused"}, Closes(p, at)
  PROVE  Turns(p, at, 0, NoPair)
<1>1. opener' = [opener EXCEPT ![p] = [Closed EXCEPT !.at = at]]
  BY DEF Closes
<1>2. Closed \in OpenerRecord /\ Closed.root = 0 /\ Closed.pair = NoPair
  BY NothingTyped, CaAssumption DEF Closed, OpenerRecord, Keys
<1>3. /\ [Closed EXCEPT !.at = at] \in OpenerRecord
      /\ [Closed EXCEPT !.at = at].at = at
      /\ [Closed EXCEPT !.at = at].root = 0
      /\ [Closed EXCEPT !.at = at].pair = NoPair
  BY <1>2 DEF OpenerRecord
<1> QED
  BY <1>1, <1>3, Turned

LEMMA SpendsOne ==
  ASSUME CaTypeOK, Spend("keys", MaxKeys)
  PROVE  /\ spentOn.keys \in Nat /\ spentOn.keys < MaxKeys
         /\ spentOn'.keys = spentOn.keys + 1
         /\ spentOn' \in [keys : Keys, errors : 0..MaxErrors]
<1>1. spentOn \in [keys : Keys, errors : 0..MaxErrors]
  BY DEF CaTypeOK
<1>2. spentOn.keys < MaxKeys /\ spentOn' = [spentOn EXCEPT !.keys = @ + 1]
  BY DEF Spend
<1>3. spentOn.keys \in Nat /\ spentOn.keys + 1 \in Keys
  BY <1>1, <1>2, CaAssumption DEF Keys
<1> QED
  BY <1>1, <1>2, <1>3

LEMMA ErrsTypes ==
  ASSUME CaTypeOK, Errs
  PROVE  spentOn' \in [keys : Keys, errors : 0..MaxErrors]
<1>1. spentOn \in [keys : Keys, errors : 0..MaxErrors]
  BY DEF CaTypeOK
<1>2. spentOn.errors < MaxErrors /\ spentOn' = [spentOn EXCEPT !.errors = @ + 1]
  BY DEF Errs, Spend
<1>3. spentOn.errors + 1 \in 0..MaxErrors
  BY <1>1, <1>2, CaAssumption
<1> QED
  BY <1>1, <1>2, <1>3

\* The pair of an intermediate that was just made.
NewPair(root) ==
    [key  |-> spentOn'.keys,
     cert |-> [id |-> spentOn'.keys, root |-> root, until |-> clock + InterLife]]

LEMMA MakesPairTurns ==
  ASSUME CaTypeOK, NEW p \in Openers, NEW at \in InterPlaces, MakesPair(p, at)
  PROVE  /\ NewPair(opener[p].root) \in Pairs
         /\ Turns(p, at, opener[p].root, NewPair(opener[p].root))
         /\ spentOn' \in [keys : Keys, errors : 0..MaxErrors]
<1> DEFINE pair == NewPair(opener[p].root)
<1>1. opener[p] \in OpenerRecord
  BY DEF CaTypeOK
<1>2. /\ spentOn' \in [keys : Keys, errors : 0..MaxErrors]
  BY SpendsOne DEF MakesPair
<1>3. clock + InterLife \in Times
  BY CaAssumption DEF CaTypeOK, Times
<1>4. pair \in Pairs
  BY <1>1, <1>2, <1>3 DEF NewPair, Pairs, Certs, OpenerRecord
<1>5. opener' = [opener EXCEPT ![p] = [[opener[p] EXCEPT !.at = at] EXCEPT !.pair = pair]]
  BY DEF MakesPair, NewPair
<1> HIDE DEF pair
<1> DEFINE record == [[opener[p] EXCEPT !.at = at] EXCEPT !.pair = pair]
<1>6. /\ record \in OpenerRecord
      /\ record.at = at /\ record.root = opener[p].root /\ record.pair = pair
  BY <1>1, <1>4 DEF OpenerRecord
<1>7. opener' = [opener EXCEPT ![p] = record]
  BY <1>5
<1> HIDE DEF record
<1>8. Turns(p, at, opener[p].root, pair)
  BY <1>6, <1>7, Turned
<1> QED
  BY <1>2, <1>4, <1>8 DEF pair

LEMMA ReadsRootCertTurns ==
  ASSUME CaTypeOK, NEW p \in Openers, ReadsRootCert(p)
  PROVE  Turns(p, "rootKey", rootFiles.cert, opener[p].pair)
<1> DEFINE record == [[opener[p] EXCEPT !.at = "rootKey"] EXCEPT !.root = rootFiles.cert]
<1>1. opener[p] \in OpenerRecord /\ rootFiles.cert \in Keys
  BY DEF CaTypeOK
<1>2. /\ record \in OpenerRecord
      /\ record.at = "rootKey" /\ record.root = rootFiles.cert
      /\ record.pair = opener[p].pair
  BY <1>1 DEF OpenerRecord, RootPlaces
<1>3. opener' = [opener EXCEPT ![p] = record]
  BY DEF ReadsRootCert
<1> HIDE DEF record
<1> QED
  BY <1>2, <1>3, Turned

LEMMA ReadsRootKeyTurns ==
  ASSUME CaTypeOK, NEW p \in Openers, ReadsRootKey(p)
  PROVE  \/ /\ opener[p].root = 0 /\ rootFiles.key = 0
            /\ Turns(p, "storesRootKey", spentOn.keys + 1, opener[p].pair)
            /\ spentOn.keys \in Nat
            /\ spentOn' \in [keys : Keys, errors : 0..MaxErrors]
            /\ UNCHANGED <<issuer, cache, flight, handshake>>
         \/ /\ opener[p].root # 0 /\ opener[p].root = rootFiles.key
            /\ Turns(p, "interCert", opener[p].root, opener[p].pair)
            /\ UNCHANGED <<issuer, cache, flight, handshake, spentOn>>
         \/ /\ ~ (opener[p].root = 0 /\ rootFiles.key = 0)
            /\ ~ (opener[p].root # 0 /\ opener[p].root = rootFiles.key)
            /\ Turns(p, "refused", 0, NoPair)
            /\ Closes(p, "refused")
            /\ UNCHANGED spentOn
<1>1. opener[p] \in OpenerRecord
  BY DEF CaTypeOK
<1>2. CASE opener[p].root = 0 /\ rootFiles.key = 0
  <2> DEFINE record == [[opener[p] EXCEPT !.at = "storesRootKey"] EXCEPT !.root = spentOn'.keys]
  <2>1. /\ Spend("keys", MaxKeys)
        /\ opener' = [opener EXCEPT ![p].at = "storesRootKey", ![p].root = spentOn'.keys]
        /\ UNCHANGED <<issuer, cache, flight, handshake>>
    BY <1>2 DEF ReadsRootKey
  <2>2. /\ spentOn.keys \in Nat /\ spentOn'.keys = spentOn.keys + 1
        /\ spentOn'.keys \in Keys /\ spentOn' \in [keys : Keys, errors : 0..MaxErrors]
    BY <2>1, SpendsOne
  <2>3. /\ record \in OpenerRecord
        /\ record.at = "storesRootKey" /\ record.root = spentOn'.keys
        /\ record.pair = opener[p].pair
    BY <1>1, <2>2 DEF OpenerRecord, RootPlaces
  <2>4. opener' = [opener EXCEPT ![p] = record]
    BY <2>1
  <2> HIDE DEF record
  <2>5. Turns(p, "storesRootKey", spentOn'.keys, opener[p].pair)
    BY <2>3, <2>4, Turned
  <2> QED
    BY <1>2, <2>1, <2>2, <2>5
<1>3. CASE opener[p].root # 0 /\ opener[p].root = rootFiles.key
  <2>1. Moves(p, "interCert") /\ UNCHANGED <<issuer, cache, flight, handshake, spentOn>>
    BY <1>3 DEF ReadsRootKey
  <2> QED
    BY <1>3, <2>1, MovesTurns DEF InterPlaces
<1>4. CASE /\ ~ (opener[p].root = 0 /\ rootFiles.key = 0)
           /\ ~ (opener[p].root # 0 /\ opener[p].root = rootFiles.key)
  <2>1. Closes(p, "refused") /\ UNCHANGED spentOn
    BY <1>4 DEF ReadsRootKey
  <2> QED
    BY <1>4, <2>1, ClosesTurns
<1> QED
  BY <1>2, <1>3, <1>4

LEMMA ReadsInterCertTurns ==
  ASSUME CaTypeOK, NEW p \in Openers, ReadsInterCert(p)
  PROVE  \E pair \in Pairs : Turns(p, "interKey", opener[p].root, pair)
<1> DEFINE pair == [opener[p].pair EXCEPT !.cert = interFiles.cert]
<1>1. opener[p] \in OpenerRecord /\ opener[p].pair \in Pairs /\ interFiles \in Pairs
  BY DEF CaTypeOK, OpenerRecord
<1>2. pair \in Pairs
  BY <1>1 DEF Pairs
<1>3. opener' = [opener EXCEPT
                    ![p] = [[opener[p] EXCEPT !.at = "interKey"] EXCEPT !.pair = pair]]
  BY DEF ReadsInterCert
<1> HIDE DEF pair
<1> DEFINE record == [[opener[p] EXCEPT !.at = "interKey"] EXCEPT !.pair = pair]
<1>4. /\ record \in OpenerRecord
      /\ record.at = "interKey" /\ record.root = opener[p].root /\ record.pair = pair
  BY <1>1, <1>2 DEF OpenerRecord, InterPlaces
<1>5. opener' = [opener EXCEPT ![p] = record]
  BY <1>3
<1> HIDE DEF record
<1> QED
  BY <1>2, <1>4, <1>5, Turned

LEMMA ReadsInterKeyTurns ==
  ASSUME CaTypeOK, NEW p \in Openers, ReadsInterKey(p)
  PROVE  \/ /\ Turns(p, Loaded(p), opener[p].root, NoPair)
            /\ \E pair \in Pairs : Usable(pair, opener[p].root) /\ Ready(p, pair)
            /\ UNCHANGED spentOn
         \/ /\ MakesPair(p, "storesKey")
            /\ UNCHANGED issuer
<1> DEFINE pair == [opener[p].pair EXCEPT !.key = interFiles.key]
<1>1. opener[p] \in OpenerRecord /\ opener[p].pair \in Pairs /\ interFiles \in Pairs
  BY DEF CaTypeOK, OpenerRecord
<1>2. pair \in Pairs
  BY <1>1 DEF Pairs
<1>3. IF Usable(pair, opener[p].root)
      THEN /\ opener' = [opener EXCEPT ![p].at = Loaded(p), ![p].pair = NoPair]
           /\ Ready(p, pair)
           /\ UNCHANGED spentOn
      ELSE MakesPair(p, "storesKey") /\ UNCHANGED issuer
  BY DEF ReadsInterKey
<1> HIDE DEF pair
<1>4. CASE Usable(pair, opener[p].root)
  <2> DEFINE record == [[opener[p] EXCEPT !.at = Loaded(p)] EXCEPT !.pair = NoPair]
  <2>1. Loaded(p) \in InterPlaces
    BY DEF Loaded, InterPlaces
  <2>2. /\ record \in OpenerRecord
        /\ record.at = Loaded(p) /\ record.root = opener[p].root /\ record.pair = NoPair
    BY <1>1, <2>1, NothingTyped DEF OpenerRecord
  <2>3. opener' = [opener EXCEPT ![p] = record]
    BY <1>3, <1>4
  <2> HIDE DEF record
  <2> QED
    BY <1>2, <1>3, <1>4, <2>2, <2>3, Turned
<1>5. CASE ~ Usable(pair, opener[p].root)
  BY <1>3, <1>5
<1> QED
  BY <1>4, <1>5

LEMMA StoresCertTurns ==
  ASSUME CaTypeOK, NEW p \in Openers, StoresCert(p)
  PROVE  \E at \in {"open", "checks"} : Turns(p, at, opener[p].root, NoPair)
<1> DEFINE place == IF Renewing(p) THEN "open" ELSE Loaded(p)
<1> DEFINE serves == opener[p].serves \/ Renewing(p)
<1>1. opener[p] \in OpenerRecord
  BY DEF CaTypeOK
<1>2. place \in {"open", "checks"}
  BY DEF Loaded
<1>3. serves \in BOOLEAN
  BY Zenon
<1>4. opener' = [opener EXCEPT ![p] =
          [[[opener[p] EXCEPT !.pair = NoPair] EXCEPT !.at = place] EXCEPT !.serves = serves]]
  BY DEF StoresCert
<1> HIDE DEF place, serves
<1> DEFINE record ==
      [[[opener[p] EXCEPT !.pair = NoPair] EXCEPT !.at = place] EXCEPT !.serves = serves]
<1>5. /\ record \in OpenerRecord
      /\ record.at = place /\ record.root = opener[p].root /\ record.pair = NoPair
  BY <1>1, <1>2, <1>3, NothingTyped DEF OpenerRecord, InterPlaces
<1>6. opener' = [opener EXCEPT ![p] = record]
  BY <1>4
<1> HIDE DEF record
<1> QED
  BY <1>2, <1>5, <1>6, Turned

LEMMA RenewalFailsTurns ==
  ASSUME CaTypeOK, NEW p \in Openers, RenewalFails(p)
  PROVE  Turns(p, "open", opener[p].root, NoPair)
<1> DEFINE record ==
      [[[opener[p] EXCEPT !.at = "open"] EXCEPT !.pair = NoPair] EXCEPT !.serves = TRUE]
<1>1. opener[p] \in OpenerRecord
  BY DEF CaTypeOK
<1>2. /\ record \in OpenerRecord
      /\ record.at = "open" /\ record.root = opener[p].root /\ record.pair = NoPair
  BY <1>1, NothingTyped DEF OpenerRecord, InterPlaces
<1>3. opener' = [opener EXCEPT ![p] = record]
  BY DEF RenewalFails
<1> HIDE DEF record
<1> QED
  BY <1>2, <1>3, Turned

LEMMA ChecksRenewalTurns ==
  ASSUME CaTypeOK, ChecksRenewal
  PROVE  \/ MakesPair("server", "storesKey")
         \/ /\ Turns("server", "open", opener["server"].root, opener["server"].pair)
            /\ UNCHANGED spentOn
<1> DEFINE record == [[opener["server"] EXCEPT !.at = "open"] EXCEPT !.serves = TRUE]
<1>1. "server" \in Openers /\ opener["server"] \in OpenerRecord
  BY DEF CaTypeOK, Openers
<1>2. /\ record \in OpenerRecord
      /\ record.at = "open" /\ record.root = opener["server"].root
      /\ record.pair = opener["server"].pair
  BY <1>1 DEF OpenerRecord, InterPlaces
<1>3. \/ MakesPair("server", "storesKey")
      \/ opener' = [opener EXCEPT !["server"] = record] /\ UNCHANGED spentOn
  BY DEF ChecksRenewal
<1> HIDE DEF record
<1> QED
  BY <1>1, <1>2, <1>3, Turned

LEMMA ClosesService ==
  ASSUME NEW p, NEW at, Closes(p, at)
  PROVE  \/ /\ issuer' = NoPair /\ cache' = NoLeaf /\ flight' = Idle
            /\ handshake' = [h \in Handshakes |-> Idle]
         \/ UNCHANGED <<issuer, cache, flight, handshake>>
  BY DEF Closes

-----------------------------------------------------------------------------
(* Types                                                                   *)

ServiceTypes ==
    /\ issuer \in Pairs /\ cache \in Leaves /\ flight \in FlightRecord
    /\ handshake \in [Handshakes -> HandshakeRecord]

LEMMA ClosesTypes ==
  ASSUME CaTypeOK, NEW p, NEW at, Closes(p, at)
  PROVE  ServiceTypes'
<1>1. Idle \in FlightRecord /\ Idle \in HandshakeRecord
  BY NothingTyped DEF Idle, FlightRecord, HandshakeRecord
<1> QED
  BY <1>1, ClosesService, NothingTyped DEF CaTypeOK, ServiceTypes

LEMMA CaInitTypes ==
  ASSUME CaInit
  PROVE  CaTypeOK /\ RootsAreMade
<1>1. /\ Idle \in FlightRecord /\ Idle \in HandshakeRecord /\ Closed \in OpenerRecord
      /\ Closed.at = "closed"
  BY NothingTyped, CaAssumption
     DEF Idle, FlightRecord, HandshakeRecord, Closed, OpenerRecord, Keys
<1>2. opener \in [Openers -> OpenerRecord] /\ \A p \in Openers : opener[p].at = "closed"
  BY <1>1 DEF CaInit
<1>3. RootsAreMade
  BY <1>2 DEF RootsAreMade, Storing, InterPlaces
<1>4. contended \in BOOLEAN
  BY Zenon DEF CaInit
<1>5. /\ rootFiles \in [key : Keys, cert : Keys]
      /\ spentOn \in [keys : Keys, errors : 0..MaxErrors]
  BY CaAssumption DEF CaInit, Keys
<1>6. /\ interFiles \in Pairs /\ issuer \in Pairs /\ cache \in Leaves
      /\ flight \in FlightRecord /\ handshake \in [Handshakes -> HandshakeRecord]
      /\ exported = {} /\ clock = 0
  BY <1>1, NothingTyped DEF CaInit
<1> QED
  BY <1>2, <1>3, <1>4, <1>5, <1>6, CaAssumption DEF CaTypeOK

LEMMA OpenerTypes ==
  ASSUME CaTypeOK, RootsAreMade, NEW p \in Openers, OpenerStep(p) \/ ChecksRenewal
  PROVE  CaTypeOK' /\ RootsAreMade'
<1>a. opener[p] \in OpenerRecord
  BY DEF CaTypeOK
<1>b. ASSUME NEW q \in Openers, NEW at, NEW root, NEW pair, Turns(q, at, root, pair),
             at \in Storing \cup InterPlaces => root # 0
      PROVE  opener' \in [Openers -> OpenerRecord] /\ RootsAreMade'
  BY <1>b DEF Turns, RootsAreMade
<1>1. CASE OpensAuthority(p)
  <2>1. Turns(p, "rootCert", opener[p].root, opener[p].pair)
    BY <1>1, MovesTurns DEF OpensAuthority, RootPlaces
  <2>2. opener' \in [Openers -> OpenerRecord] /\ RootsAreMade'
    BY <2>1, <1>b DEF Storing, InterPlaces
  <2>3. contended' \in BOOLEAN
    BY <1>1, Zenon DEF OpensAuthority
  <2> QED
    BY <1>1, <2>2, <2>3 DEF OpensAuthority, CaTypeOK, serviceState
<1>2. CASE ReadsRootCert(p)
  <2>1. opener' \in [Openers -> OpenerRecord] /\ RootsAreMade'
    BY <1>2, ReadsRootCertTurns, <1>b DEF Storing, InterPlaces
  <2> QED
    BY <1>2, <2>1 DEF ReadsRootCert, CaTypeOK, serviceState
<1>3. CASE ReadsRootKey(p)
  <2>1. \A n \in Nat : n + 1 # 0
    OBVIOUS
  <2>2. opener' \in [Openers -> OpenerRecord] /\ RootsAreMade'
    BY <1>3, <2>1, ReadsRootKeyTurns, <1>b DEF Storing, InterPlaces
  <2>3. spentOn' \in [keys : Keys, errors : 0..MaxErrors]
    BY <1>3, ReadsRootKeyTurns DEF CaTypeOK
  <2>4. ServiceTypes'
    BY <1>3, ReadsRootKeyTurns, ClosesTypes DEF CaTypeOK, ServiceTypes
  <2> QED
    BY <1>3, <2>2, <2>3, <2>4 DEF ReadsRootKey, CaTypeOK, ServiceTypes
<1>4. CASE StoresRootKey(p) \/ StoresRootCert(p)
  <2>1. \E at \in {"storesRootCert", "interCert"} : Turns(p, at, opener[p].root, opener[p].pair)
    BY <1>4, MovesTurns DEF StoresRootKey, StoresRootCert, RootPlaces, InterPlaces
  <2>2. opener[p].root # 0
    BY <1>4 DEF StoresRootKey, StoresRootCert, RootsAreMade, Storing
  <2>3. opener' \in [Openers -> OpenerRecord] /\ RootsAreMade'
    BY <2>1, <2>2, <1>b
  <2>4. rootFiles' \in [key : Keys, cert : Keys]
    BY <1>a, <1>4 DEF StoresRootKey, StoresRootCert, CaTypeOK, OpenerRecord
  <2> QED
    BY <1>4, <2>3, <2>4 DEF StoresRootKey, StoresRootCert, CaTypeOK, serviceState
<1>5. CASE ReadsInterCert(p)
  <2>1. opener[p].root # 0
    BY <1>5 DEF ReadsInterCert, RootsAreMade, InterPlaces
  <2>2. opener' \in [Openers -> OpenerRecord] /\ RootsAreMade'
    BY <1>5, <2>1, ReadsInterCertTurns, <1>b
  <2> QED
    BY <1>5, <2>2 DEF ReadsInterCert, CaTypeOK, serviceState
<1>6. CASE ReadsInterKey(p)
  <2>1. opener[p].root # 0
    BY <1>6 DEF ReadsInterKey, RootsAreMade, InterPlaces
  <2>2. /\ opener' \in [Openers -> OpenerRecord] /\ RootsAreMade'
        /\ spentOn' \in [keys : Keys, errors : 0..MaxErrors]
        /\ issuer' \in Pairs
    <3>1. CASE MakesPair(p, "storesKey") /\ UNCHANGED issuer
      BY <3>1, <2>1, MakesPairTurns, <1>b DEF InterPlaces, CaTypeOK
    <3>2. CASE /\ Turns(p, Loaded(p), opener[p].root, NoPair)
               /\ \E pair \in Pairs : Usable(pair, opener[p].root) /\ Ready(p, pair)
               /\ UNCHANGED spentOn
      BY <3>2, <2>1, <1>b DEF CaTypeOK, Ready
    <3> QED
      BY <1>6, <3>1, <3>2, ReadsInterKeyTurns
  <2> QED
    BY <1>6, <2>2 DEF ReadsInterKey, CaTypeOK, serviceState
<1>7. CASE StoresKey(p)
  <2>1. opener[p].root # 0 /\ opener[p].pair \in Pairs
    BY <1>7, <1>a DEF StoresKey, RootsAreMade, InterPlaces, OpenerRecord
  <2>2. opener' \in [Openers -> OpenerRecord] /\ RootsAreMade'
    BY <1>7, <2>1, MovesTurns, <1>b DEF StoresKey, InterPlaces
  <2>3. interFiles' \in Pairs
    BY <1>7, <2>1 DEF StoresKey, CaTypeOK, Pairs
  <2> QED
    BY <1>7, <2>2, <2>3 DEF StoresKey, CaTypeOK, serviceState
<1>8. CASE StoresCert(p)
  <2>1. opener[p].root # 0 /\ opener[p].pair \in Pairs
    BY <1>8, <1>a DEF StoresCert, RootsAreMade, InterPlaces, OpenerRecord
  <2>2. opener' \in [Openers -> OpenerRecord] /\ RootsAreMade'
    BY <1>8, <2>1, StoresCertTurns, <1>b
  <2>3. interFiles' \in Pairs
    BY <1>8, <2>1 DEF StoresCert, CaTypeOK, Pairs
  <2>4. issuer' \in Pairs
    BY <1>8, <2>1 DEF StoresCert, Ready, CaTypeOK
  <2> QED
    BY <1>8, <2>2, <2>3, <2>4 DEF StoresCert, CaTypeOK, serviceState
<1>9. CASE RenewalFails(p)
  <2>1. opener[p].root # 0
    BY <1>9 DEF RenewalFails, RootsAreMade, InterPlaces
  <2>2. opener' \in [Openers -> OpenerRecord] /\ RootsAreMade'
    BY <1>9, <2>1, RenewalFailsTurns, <1>b
  <2>3. spentOn' \in [keys : Keys, errors : 0..MaxErrors]
    BY <1>9, ErrsTypes DEF RenewalFails
  <2> QED
    BY <1>9, <2>2, <2>3 DEF RenewalFails, CaTypeOK, serviceState
<1>10. CASE Exports(p)
  <2>1. opener[p].root # 0 /\ opener[p].root \in Keys
    BY <1>10, <1>a DEF Exports, RootsAreMade, InterPlaces, OpenerRecord
  <2>2. exported' \subseteq 1..MaxKeys
    <3>1. opener[p].root \in 1..MaxKeys
      BY <2>1, CaAssumption DEF Keys
    <3> QED
      BY <1>10, <3>1 DEF Exports, CaTypeOK
  <2>3. Closed \in OpenerRecord /\ Closed.at = "closed"
    BY NothingTyped, CaAssumption DEF Closed, OpenerRecord, Keys
  <2>4. opener' \in [Openers -> OpenerRecord] /\ RootsAreMade'
    <3>1. CASE UNCHANGED opener
      BY <3>1 DEF CaTypeOK, RootsAreMade
    <3>2. CASE opener' = [opener EXCEPT ![p] = Closed]
      <4>1. Turns(p, Closed.at, Closed.root, Closed.pair)
        BY <3>2, <2>3, Turned
      <4> QED
        BY <4>1, <2>3, <1>b DEF Storing, InterPlaces
    <3> QED
      BY <1>10, <3>1, <3>2 DEF Exports
  <2> QED
    BY <1>10, <2>2, <2>4 DEF Exports, CaTypeOK, serviceState
<1>11. CASE CaDeath(p)
  <2>1. Closes(p, "closed")
    BY <1>11 DEF CaDeath
  <2>2. opener' \in [Openers -> OpenerRecord] /\ RootsAreMade'
    BY <2>1, ClosesTurns, <1>b DEF Storing, InterPlaces
  <2>3. spentOn' \in [keys : Keys, errors : 0..MaxErrors]
    BY <1>11, ErrsTypes DEF CaDeath
  <2>4. ServiceTypes'
    BY <2>1, ClosesTypes
  <2> QED
    BY <1>11, <2>2, <2>3, <2>4 DEF CaDeath, CaTypeOK, ServiceTypes
<1>12. CASE ChecksRenewal
  <2>1. "server" \in Openers
    BY DEF Openers
  <2>2. opener["server"].root # 0
    BY <1>12, <2>1 DEF ChecksRenewal, RootsAreMade, InterPlaces
  <2>3. /\ opener' \in [Openers -> OpenerRecord] /\ RootsAreMade'
        /\ spentOn' \in [keys : Keys, errors : 0..MaxErrors]
    <3>1. CASE MakesPair("server", "storesKey")
      BY <3>1, <2>1, <2>2, MakesPairTurns, <1>b DEF InterPlaces
    <3>2. CASE /\ Turns("server", "open", opener["server"].root, opener["server"].pair)
               /\ UNCHANGED spentOn
      BY <3>2, <2>1, <2>2, <1>b DEF CaTypeOK
    <3> QED
      BY <1>12, <3>1, <3>2, ChecksRenewalTurns
  <2> QED
    BY <1>12, <2>3 DEF ChecksRenewal, CaTypeOK, serviceState
<1> QED
  BY <1>1, <1>2, <1>3, <1>4, <1>5, <1>6, <1>7, <1>8, <1>9, <1>10, <1>11, <1>12
     DEF OpenerStep

\* What a step makes of one of the handshakes, and that it leaves the others alone.
Stepped(h, at, leaf) ==
    /\ handshake' \in [Handshakes -> HandshakeRecord]
    /\ handshake'[h].at = at /\ handshake'[h].leaf = leaf
    /\ \A g \in Handshakes \ {h} : handshake'[g] = handshake[g]

LEMMA StepsStepped ==
  ASSUME CaTypeOK, NEW h \in Handshakes, NEW leaf \in Leaves,
         NEW at \in {"idle", "hit", "missed", "joins", "waits", "answered", "served"},
         Steps(h, at, leaf)
  PROVE  Stepped(h, at, leaf)
  BY DEF CaTypeOK, Steps, Stepped, HandshakeRecord

LEMMA LandsTypes ==
  ASSUME CaTypeOK, NEW leaf \in Leaves, Lands(leaf)
  PROVE  /\ handshake' \in [Handshakes -> HandshakeRecord]
         /\ flight' = Idle
         /\ \A h \in Handshakes : \/ handshake[h].at # "waits" /\ handshake'[h] = handshake[h]
                                  \/ /\ handshake'[h].at = "answered"
                                     /\ handshake'[h].leaf = leaf
<1>1. [at |-> "answered", leaf |-> leaf] \in HandshakeRecord
  BY DEF HandshakeRecord
<1> QED
  BY <1>1 DEF CaTypeOK, Lands

LEMMA IdleTyped == Idle \in FlightRecord /\ Idle.at = "idle" /\ Idle.leaf = NoLeaf
  BY NothingTyped DEF Idle, FlightRecord

LEMMA SignedTypes ==
  ASSUME CaTypeOK, NEW until,
         until = IF clock + LeafLife > issuer.cert.until THEN issuer.cert.until
                 ELSE clock + LeafLife
  PROVE  /\ until <= issuer.cert.until
         /\ [key |-> issuer.key, cert |-> issuer.cert, until |-> until] \in Leaves
<1>1. /\ issuer.key \in Keys /\ issuer.cert \in Certs
      /\ issuer.cert.until \in 0..MaxClock + InterLife
  BY DEF CaTypeOK, Pairs, Certs, Times
<1>2. clock \in Nat
  BY DEF CaTypeOK
<1>3. until \in 0..MaxClock + InterLife /\ until <= issuer.cert.until
  BY <1>1, <1>2, CaAssumption
<1> QED
  BY <1>1, <1>3 DEF Leaves, Times

LEMMA HandshakeTypes ==
  ASSUME CaTypeOK, NEW h \in Handshakes, HandshakeStep(h)
  PROVE  CaTypeOK'
<1>a. handshake[h] \in HandshakeRecord /\ handshake[h].leaf \in Leaves
  BY DEF CaTypeOK, HandshakeRecord
<1>1. CASE LooksUp(h)
  <2>1. handshake' \in [Handshakes -> HandshakeRecord] /\ cache' \in Leaves
    BY <1>1, NothingTyped, StepsStepped DEF LooksUp, Stepped, CaTypeOK
  <2> QED
    BY <1>1, <2>1 DEF LooksUp, CaTypeOK, authority
<1>2. CASE AnswersHit(h) \/ AnswersIssued(h)
  <2>1. handshake' \in [Handshakes -> HandshakeRecord] /\ cache' \in Leaves
    BY <1>2, <1>a, NothingTyped, StepsStepped
       DEF AnswersHit, AnswersIssued, Answers, Stepped, CaTypeOK
  <2> QED
    BY <1>2, <2>1 DEF AnswersHit, AnswersIssued, Answers, CaTypeOK, authority
<1>3. CASE ChecksMiss(h) \/ EndsHandshake(h)
  <2>1. handshake' \in [Handshakes -> HandshakeRecord]
    BY <1>3, NothingTyped, StepsStepped DEF ChecksMiss, EndsHandshake, Stepped
  <2> QED
    BY <1>3, <2>1 DEF ChecksMiss, EndsHandshake, CaTypeOK, authority
<1>4. CASE Joins(h)
  <2>1. handshake' \in [Handshakes -> HandshakeRecord]
    BY <1>4, NothingTyped, StepsStepped DEF Joins, Stepped
  <2>2. flight' \in FlightRecord
    BY <1>4, IdleTyped DEF Joins, CaTypeOK, FlightRecord
  <2> QED
    BY <1>4, <2>1, <2>2 DEF Joins, CaTypeOK, authority
<1> QED
  BY <1>1, <1>2, <1>3, <1>4 DEF HandshakeStep

LEMMA IssueTypes ==
  ASSUME CaTypeOK, StartsIssue \/ SignsLeaf \/ StoresLeaf \/ Evicts \/ Tick
  PROVE  CaTypeOK'
<1>1. CASE StartsIssue
  <2>1. cache \in Leaves /\ NoLeaf \in Leaves
    BY NothingTyped DEF CaTypeOK
  <2>2. flight' \in FlightRecord /\ handshake' \in [Handshakes -> HandshakeRecord]
    BY <1>1, <2>1, LandsTypes, IdleTyped DEF StartsIssue, FlightRecord, CaTypeOK
  <2>3. cache' \in Leaves
    BY <1>1, <2>1 DEF StartsIssue
  <2> QED
    BY <1>1, <2>2, <2>3 DEF StartsIssue, CaTypeOK, authority
<1>2. CASE SignsLeaf
  <2>1. flight' \in FlightRecord /\ handshake' \in [Handshakes -> HandshakeRecord]
    BY <1>2, NothingTyped, LandsTypes, IdleTyped, SignedTypes
       DEF SignsLeaf, FlightRecord, CaTypeOK
  <2> QED
    BY <1>2, <2>1 DEF SignsLeaf, CaTypeOK, authority
<1>3. CASE StoresLeaf
  <2>1. flight.leaf \in Leaves
    BY DEF CaTypeOK, FlightRecord
  <2>2. flight' \in FlightRecord /\ handshake' \in [Handshakes -> HandshakeRecord]
    BY <1>3, <2>1, NothingTyped, LandsTypes, IdleTyped DEF StoresLeaf
  <2>3. cache' \in Leaves
    BY <1>3, <2>1 DEF StoresLeaf, CaTypeOK
  <2> QED
    BY <1>3, <2>2, <2>3 DEF StoresLeaf, CaTypeOK, authority
<1>4. CASE Evicts
  BY <1>4, NothingTyped DEF Evicts, CaTypeOK, authority
<1>5. CASE Tick
  <2>1. clock' \in 0..MaxClock
    BY <1>5, CaAssumption DEF Tick, CaTypeOK
  <2> QED
    BY <1>5, <2>1 DEF Tick, CaTypeOK, serviceState
<1> QED
  BY <1>1, <1>2, <1>3, <1>4, <1>5

LEMMA CaTypesStep ==
  ASSUME CaTypeOK, RootsAreMade, [CaNext]_caVars
  PROVE  CaTypeOK' /\ RootsAreMade'
<1>1. ASSUME UNCHANGED opener
      PROVE  RootsAreMade'
  BY <1>1 DEF RootsAreMade
<1>2. CASE \E p \in Openers : OpenerStep(p)
  BY <1>2, OpenerTypes
<1>3. CASE ChecksRenewal
  <2>1. "server" \in Openers
    BY DEF Openers
  <2> QED
    BY <1>3, <2>1, OpenerTypes
<1>4. CASE \E h \in Handshakes : HandshakeStep(h)
  <2>1. UNCHANGED opener
    BY <1>4 DEF HandshakeStep, LooksUp, AnswersHit, AnswersIssued, Answers, ChecksMiss, Joins,
                EndsHandshake, authority
  <2> QED
    BY <1>4, <2>1, <1>1, HandshakeTypes
<1>5. CASE StartsIssue \/ SignsLeaf \/ StoresLeaf \/ Evicts \/ Tick
  <2>1. UNCHANGED opener
    BY <1>5 DEF StartsIssue, SignsLeaf, StoresLeaf, Evicts, Tick, authority
  <2> QED
    BY <1>5, <2>1, <1>1, IssueTypes
<1>6. CASE UNCHANGED caVars
  <2>1. CaTypeOK'
    BY <1>6 DEF caVars, CaTypeOK
  <2>2. UNCHANGED opener
    BY <1>6 DEF caVars
  <2> QED
    BY <2>1, <2>2, <1>1
<1> QED
  BY <1>2, <1>3, <1>4, <1>5, <1>6 DEF CaNext

-----------------------------------------------------------------------------
(* Trust                                                                   *)

\* What the leaves say of the authority stays true while its root does, and before there
\* is a root there are no leaves.
LEMMA LeavesKeep ==
  ASSUME LeavesAreSound, UNCHANGED <<cache, flight, handshake, clock>>,
         rootFiles'.cert = rootFiles.cert \/ ~ HasRoot
  PROVE  LeavesAreSound'
<1>1. ASSUME NEW leaf, Signed(leaf)
      PROVE  \/ leaf = NoLeaf
             \/ /\ leaf.key = leaf.cert.id /\ leaf.cert.root = rootFiles'.cert
                /\ rootFiles'.cert # 0 /\ leaf.until <= leaf.cert.until
  BY <1>1 DEF Signed, Sound, HasRoot
<1> QED
  BY <1>1 DEF LeavesAreSound, Signed, Sound, HasRoot, Valid

LEMMA IssuerKeeps ==
  ASSUME IssuerIsSound, UNCHANGED issuer,
         rootFiles'.cert = rootFiles.cert \/ ~ HasRoot
  PROVE  IssuerIsSound'
  BY DEF IssuerIsSound, Sound, HasRoot

LEMMA LeavesClose ==
  ASSUME CaTypeOK, LeavesAreSound, UNCHANGED <<rootFiles, clock>>, NEW p, NEW at, Closes(p, at)
  PROVE  LeavesAreSound'
<1>1. CASE /\ cache' = NoLeaf /\ flight' = Idle
           /\ handshake' = [h \in Handshakes |-> Idle]
  BY <1>1, IdleTyped DEF LeavesAreSound, Signed
<1>2. CASE UNCHANGED <<cache, flight, handshake>>
  BY <1>2, LeavesKeep
<1> QED
  BY <1>1, <1>2, ClosesService

LEMMA IssuerCloses ==
  ASSUME IssuerIsSound, UNCHANGED rootFiles, NEW p, NEW at, Closes(p, at)
  PROVE  IssuerIsSound'
<1>1. issuer' = NoPair \/ UNCHANGED issuer
  BY ClosesService
<1> QED
  BY <1>1, IssuerKeeps DEF IssuerIsSound

\* A step that leaves the root alone and takes an opener to a place past the root.
LEMMA PastTheRoot ==
  ASSUME OpenersInv, NEW p \in Openers, NEW at \in InterPlaces, NEW pair,
         Turns(p, at, opener[p].root, pair), UNCHANGED <<rootFiles, exported>>,
         opener[p].root = rootFiles.cert, HasRoot,
         at \in {"storesKey", "storesCert"} => Sound(pair)
  PROVE  OpenersInv'
  BY DEF OpenersInv, OneRoot, OpenersAgree, ExportedIsRoot, Turns, Sound, HasRoot, RootPlaces,
         InterPlaces, Storing

\* And one that takes it out, or to the beginning while there is a root.
LEMMA OutOfTheWay ==
  ASSUME OpenersInv, NEW p \in Openers, NEW root, NEW pair,
         Turns(p, "closed", root, pair), UNCHANGED <<rootFiles, exported>>
  PROVE  OpenersInv'
  BY DEF OpenersInv, OneRoot, OpenersAgree, ExportedIsRoot, Turns, Sound, HasRoot, RootPlaces,
         InterPlaces, Storing

\* Where an opener is past the root, there is one.
LEMMA PastHasRoot ==
  ASSUME OpenersInv, NEW p \in Openers, opener[p].at \in InterPlaces
  PROVE  opener[p].root = rootFiles.cert /\ HasRoot
  BY DEF OpenersInv, OneRoot, OpenersAgree

LEMMA SeeksRootKeeps ==
  ASSUME CaTypeOK, RootsAreMade, OpenersInv, ~ contended, NEW p \in Openers,
         OpensAuthority(p) \/ ReadsRootCert(p) \/ ReadsRootKey(p)
  PROVE  contended' \/ OpenersInv'
<1>1. CASE OpensAuthority(p)
  <2>1. Turns(p, "rootCert", opener[p].root, opener[p].pair)
    BY <1>1, MovesTurns DEF OpensAuthority, RootPlaces
  <2>2. UNCHANGED <<rootFiles, exported>>
    BY <1>1 DEF OpensAuthority
  <2>3. contended' \/ HasRoot \/ \A q \in Openers \ {p} : opener[q].at \notin RootPlaces
    BY <1>1, Zenon DEF OpensAuthority, HasRoot
  <2> QED
    BY <2>1, <2>2, <2>3
       DEF OpenersInv, OneRoot, OpenersAgree, ExportedIsRoot, Turns, Sound, HasRoot,
           RootPlaces, InterPlaces, Storing
<1>2. CASE ReadsRootCert(p)
  <2>1. Turns(p, "rootKey", rootFiles.cert, opener[p].pair)
    BY <1>2, ReadsRootCertTurns
  <2>2. UNCHANGED <<rootFiles, exported>> /\ opener[p].at = "rootCert"
    BY <1>2 DEF ReadsRootCert
  <2> QED
    BY <2>1, <2>2
       DEF OpenersInv, OneRoot, OpenersAgree, ExportedIsRoot, Turns, Sound, HasRoot,
           RootPlaces, InterPlaces, Storing
<1>3. CASE ReadsRootKey(p)
  <2>1. UNCHANGED <<rootFiles, exported>> /\ opener[p].at = "rootKey"
    BY <1>3 DEF ReadsRootKey
  <2>2. opener[p].root = rootFiles.cert
    BY <2>1 DEF OpenersInv, OpenersAgree
  <2>3. CASE \E root : /\ opener[p].root = 0 /\ rootFiles.key = 0
                       /\ Turns(p, "storesRootKey", root, opener[p].pair)
    BY <2>1, <2>2, <2>3
       DEF OpenersInv, OneRoot, OpenersAgree, ExportedIsRoot, Turns, Sound, HasRoot,
           RootPlaces, InterPlaces, Storing
  <2>4. CASE /\ opener[p].root # 0 /\ opener[p].root = rootFiles.key
             /\ Turns(p, "interCert", opener[p].root, opener[p].pair)
    BY <2>1, <2>2, <2>4, PastTheRoot DEF HasRoot, InterPlaces
  <2>5. CASE /\ ~ (opener[p].root = 0 /\ rootFiles.key = 0)
             /\ ~ (opener[p].root # 0 /\ opener[p].root = rootFiles.key)
             /\ Turns(p, "refused", 0, NoPair)
    BY <2>1, <2>2, <2>5
       DEF OpenersInv, OneRoot, OpenersAgree, ExportedIsRoot, Turns, Sound, HasRoot,
           RootPlaces, InterPlaces, Storing
  <2> QED
    BY <1>3, <2>3, <2>4, <2>5, ReadsRootKeyTurns
<1> QED
  BY <1>1, <1>2, <1>3

LEMMA StoresRootKeeps ==
  ASSUME CaTypeOK, RootsAreMade, OpenersInv, NEW p \in Openers,
         StoresRootKey(p) \/ StoresRootCert(p)
  PROVE  OpenersInv' /\ (rootFiles'.cert = rootFiles.cert \/ ~ HasRoot)
<1>a. opener[p].root # 0 /\ rootFiles \in [key : Keys, cert : Keys]
  BY DEF StoresRootKey, StoresRootCert, RootsAreMade, Storing, CaTypeOK
<1>1. CASE StoresRootKey(p)
  <2>1. Turns(p, "storesRootCert", opener[p].root, opener[p].pair)
    BY <1>1, MovesTurns DEF StoresRootKey, RootPlaces
  <2>2. /\ opener[p].at = "storesRootKey" /\ UNCHANGED exported
        /\ rootFiles'.key = opener[p].root /\ rootFiles'.cert = rootFiles.cert
    BY <1>1, <1>a DEF StoresRootKey
  <2> QED
    BY <2>1, <2>2, <1>a
       DEF OpenersInv, OneRoot, OpenersAgree, ExportedIsRoot, Turns, Sound, HasRoot,
           RootPlaces, InterPlaces, Storing
<1>2. CASE StoresRootCert(p)
  <2>1. Turns(p, "interCert", opener[p].root, opener[p].pair)
    BY <1>2, MovesTurns DEF StoresRootCert, InterPlaces
  <2>2. /\ opener[p].at = "storesRootCert" /\ UNCHANGED exported
        /\ rootFiles'.cert = opener[p].root /\ rootFiles'.key = rootFiles.key
    BY <1>2, <1>a DEF StoresRootCert
  <2> QED
    BY <2>1, <2>2, <1>a
       DEF OpenersInv, OneRoot, OpenersAgree, ExportedIsRoot, Turns, Sound, HasRoot,
           RootPlaces, InterPlaces, Storing
<1> QED
  BY <1>1, <1>2

LEMMA MakesPairKeeps ==
  ASSUME CaTypeOK, OpenersInv, NEW p \in Openers, opener[p].at \in InterPlaces,
         MakesPair(p, "storesKey"), UNCHANGED <<rootFiles, exported>>
  PROVE  OpenersInv'
<1> DEFINE pair == NewPair(opener[p].root)
<1>1. opener[p].root = rootFiles.cert /\ HasRoot
  BY PastHasRoot
<1>2. Turns(p, "storesKey", opener[p].root, pair)
  BY MakesPairTurns DEF InterPlaces
<1>3. Sound(pair)
  BY <1>1 DEF NewPair, Sound
<1> HIDE DEF pair
<1> QED
  BY <1>1, <1>2, <1>3, PastTheRoot DEF InterPlaces

LEMMA OpenerKeeps ==
  ASSUME CaTypeOK, RootsAreMade, CaInv, ~ contended, NEW p \in Openers,
         OpenerStep(p) \/ ChecksRenewal
  PROVE  contended' \/ CaInv'
<1>a. OpenersInv /\ IssuerIsSound /\ LeavesAreSound
  BY DEF CaInv
<1>1. CASE OpensAuthority(p) \/ ReadsRootCert(p)
  <2>1. contended' \/ OpenersInv'
    BY <1>a, <1>1, SeeksRootKeeps
  <2>2. UNCHANGED <<rootFiles, issuer, cache, flight, handshake, clock>>
    BY <1>1 DEF OpensAuthority, ReadsRootCert, serviceState
  <2> QED
    BY <1>a, <2>1, <2>2, LeavesKeep, IssuerKeeps DEF CaInv
<1>2. CASE ReadsRootKey(p)
  <2>1. contended' \/ OpenersInv'
    BY <1>a, <1>2, SeeksRootKeeps
  <2>2. UNCHANGED <<rootFiles, clock>>
    BY <1>2 DEF ReadsRootKey
  <2>3. CASE UNCHANGED <<issuer, cache, flight, handshake>>
    BY <1>a, <2>1, <2>2, <2>3, LeavesKeep, IssuerKeeps DEF CaInv
  <2>4. CASE Closes(p, "refused")
    BY <1>a, <2>1, <2>2, <2>4, LeavesClose, IssuerCloses DEF CaInv
  <2> QED
    BY <1>2, <2>3, <2>4, ReadsRootKeyTurns
<1>3. CASE StoresRootKey(p) \/ StoresRootCert(p)
  <2>1. OpenersInv' /\ (rootFiles'.cert = rootFiles.cert \/ ~ HasRoot)
    BY <1>a, <1>3, StoresRootKeeps
  <2>2. UNCHANGED <<issuer, cache, flight, handshake, clock>>
    BY <1>3 DEF StoresRootKey, StoresRootCert, serviceState
  <2> QED
    BY <1>a, <2>1, <2>2, LeavesKeep, IssuerKeeps DEF CaInv
<1>4. CASE ReadsInterCert(p)
  <2>1. opener[p].at \in InterPlaces /\ UNCHANGED <<rootFiles, exported>>
    BY <1>4 DEF ReadsInterCert, InterPlaces
  <2>2. OpenersInv'
    BY <1>a, <1>4, <2>1, ReadsInterCertTurns, PastHasRoot, PastTheRoot DEF InterPlaces
  <2>3. UNCHANGED <<rootFiles, issuer, cache, flight, handshake, clock>>
    BY <1>4 DEF ReadsInterCert, serviceState
  <2> QED
    BY <1>a, <2>2, <2>3, LeavesKeep, IssuerKeeps DEF CaInv
<1>5. CASE ReadsInterKey(p)
  <2>1. opener[p].at \in InterPlaces /\ UNCHANGED <<rootFiles, exported>>
    BY <1>5 DEF ReadsInterKey, InterPlaces
  <2>2. opener[p].root = rootFiles.cert /\ HasRoot
    BY <1>a, <2>1, PastHasRoot
  <2>3. CASE /\ Turns(p, Loaded(p), opener[p].root, NoPair)
             /\ \E pair \in Pairs : Usable(pair, opener[p].root) /\ Ready(p, pair)
    <3>1. Loaded(p) \in {"checks", "open"}
      BY DEF Loaded
    <3>2. OpenersInv'
      BY <1>a, <2>1, <2>2, <2>3, <3>1, PastTheRoot DEF InterPlaces
    <3>3. IssuerIsSound'
      BY <1>a, <2>1, <2>2, <2>3, IssuerKeeps DEF Ready, Usable, IssuerIsSound, Sound, HasRoot
    <3>4. LeavesAreSound'
      BY <1>a, <1>5, LeavesKeep DEF ReadsInterKey, serviceState
    <3> QED
      BY <3>2, <3>3, <3>4 DEF CaInv
  <2>4. LeavesAreSound'
    BY <1>a, <1>5, LeavesKeep DEF ReadsInterKey, serviceState
  <2>5. CASE MakesPair(p, "storesKey") /\ UNCHANGED issuer
    BY <1>a, <2>1, <2>4, <2>5, MakesPairKeeps, IssuerKeeps DEF CaInv
  <2> QED
    BY <1>5, <2>3, <2>5, ReadsInterKeyTurns
<1>6. CASE StoresKey(p)
  <2>1. opener[p].at = "storesKey" /\ UNCHANGED <<rootFiles, exported>>
    BY <1>6 DEF StoresKey
  <2>2. opener[p].root = rootFiles.cert /\ HasRoot /\ Sound(opener[p].pair)
    BY <1>a, <2>1, PastHasRoot DEF InterPlaces, OpenersInv, OpenersAgree
  <2>3. Turns(p, "storesCert", opener[p].root, opener[p].pair)
    BY <1>6, MovesTurns DEF StoresKey, InterPlaces
  <2>4. OpenersInv'
    BY <1>a, <2>1, <2>2, <2>3, PastTheRoot DEF InterPlaces
  <2>5. UNCHANGED <<rootFiles, issuer, cache, flight, handshake, clock>>
    BY <1>6 DEF StoresKey, serviceState
  <2> QED
    BY <1>a, <2>4, <2>5, LeavesKeep, IssuerKeeps DEF CaInv
<1>7. CASE StoresCert(p)
  <2>1. /\ opener[p].at = "storesCert" /\ UNCHANGED <<rootFiles, exported>>
        /\ Ready(p, opener[p].pair)
    BY <1>7 DEF StoresCert
  <2>2. opener[p].root = rootFiles.cert /\ HasRoot /\ Sound(opener[p].pair)
    BY <1>a, <2>1, PastHasRoot DEF InterPlaces, OpenersInv, OpenersAgree
  <2>3. OpenersInv'
    BY <1>a, <1>7, <2>1, <2>2, StoresCertTurns, PastTheRoot DEF InterPlaces
  <2>4. IssuerIsSound'
    BY <1>a, <2>1, <2>2, IssuerKeeps DEF Ready, IssuerIsSound, Sound, HasRoot
  <2>5. LeavesAreSound'
    BY <1>a, <1>7, LeavesKeep DEF StoresCert, serviceState
  <2> QED
    BY <2>3, <2>4, <2>5 DEF CaInv
<1>8. CASE RenewalFails(p)
  <2>1. opener[p].at \in InterPlaces /\ UNCHANGED <<rootFiles, exported>>
    BY <1>8 DEF RenewalFails, InterPlaces
  <2>2. OpenersInv'
    BY <1>a, <1>8, <2>1, RenewalFailsTurns, PastHasRoot, PastTheRoot DEF InterPlaces
  <2>3. UNCHANGED <<rootFiles, issuer, cache, flight, handshake, clock>>
    BY <1>8 DEF RenewalFails, serviceState
  <2> QED
    BY <1>a, <2>2, <2>3, LeavesKeep, IssuerKeeps DEF CaInv
<1>9. CASE Exports(p)
  <2>1. opener[p].at \in InterPlaces /\ UNCHANGED rootFiles
    BY <1>9 DEF Exports, InterPlaces
  <2>2. opener[p].root = rootFiles.cert /\ HasRoot
    BY <1>a, <2>1, PastHasRoot
  <2>3. ExportedIsRoot'
    BY <1>a, <1>9, <2>2 DEF Exports, OpenersInv, ExportedIsRoot, HasRoot
  <2>4. OneRoot' /\ OpenersAgree'
    <3>1. CASE UNCHANGED opener
      BY <1>a, <2>1, <3>1 DEF OpenersInv, OneRoot, OpenersAgree, Sound, HasRoot
    <3>2. CASE opener' = [opener EXCEPT ![p] = Closed]
      <4>1. Closed \in OpenerRecord /\ Closed.at = "closed"
        BY NothingTyped, CaAssumption DEF Closed, OpenerRecord, Keys
      <4>2. Turns(p, "closed", Closed.root, Closed.pair)
        BY <3>2, <4>1, Turned
      <4> QED
        BY <1>a, <2>1, <4>2
           DEF OpenersInv, OneRoot, OpenersAgree, Turns, Sound, HasRoot, RootPlaces,
               InterPlaces, Storing
    <3> QED
      BY <1>9, <3>1, <3>2 DEF Exports
  <2>5. UNCHANGED <<rootFiles, issuer, cache, flight, handshake, clock>>
    BY <1>9 DEF Exports, serviceState
  <2> QED
    BY <1>a, <2>3, <2>4, <2>5, LeavesKeep, IssuerKeeps DEF CaInv, OpenersInv
<1>10. CASE CaDeath(p)
  <2>1. Closes(p, "closed") /\ UNCHANGED <<rootFiles, exported, clock>>
    BY <1>10 DEF CaDeath
  <2>2. OpenersInv'
    BY <1>a, <2>1, ClosesTurns, OutOfTheWay
  <2> QED
    BY <1>a, <2>1, <2>2, LeavesClose, IssuerCloses DEF CaInv
<1>11. CASE ChecksRenewal
  <2>1. /\ "server" \in Openers /\ opener["server"].at \in {"checks", "open"}
        /\ UNCHANGED <<rootFiles, exported>>
    BY <1>11 DEF ChecksRenewal, Openers
  <2>2. OpenersInv'
    <3>1. CASE MakesPair("server", "storesKey")
      BY <1>a, <2>1, <3>1, MakesPairKeeps DEF InterPlaces
    <3>2. CASE Turns("server", "open", opener["server"].root, opener["server"].pair)
      BY <1>a, <2>1, <3>2, PastHasRoot, PastTheRoot DEF InterPlaces
    <3> QED
      BY <1>11, <3>1, <3>2, ChecksRenewalTurns
  <2>3. UNCHANGED <<rootFiles, issuer, cache, flight, handshake, clock>>
    BY <1>11 DEF ChecksRenewal, serviceState
  <2> QED
    BY <1>a, <2>2, <2>3, LeavesKeep, IssuerKeeps DEF CaInv
<1> QED
  BY <1>1, <1>2, <1>3, <1>4, <1>5, <1>6, <1>7, <1>8, <1>9, <1>10, <1>11 DEF OpenerStep

LEMMA LandsKeeps ==
  ASSUME CaTypeOK, LeavesAreSound, UNCHANGED <<rootFiles, clock>>, Signed(cache)',
         NEW leaf \in Leaves, Signed(leaf), leaf = NoLeaf \/ Valid(leaf), Lands(leaf)
  PROVE  LeavesAreSound'
<1>1. /\ flight'.at = "idle" /\ flight'.leaf = NoLeaf
      /\ \A h \in Handshakes : \/ handshake'[h] = handshake[h]
                               \/ /\ handshake'[h].at = "answered"
                                  /\ handshake'[h].leaf = leaf
  BY LandsTypes, IdleTyped
<1>2. \A l : Signed(l) <=> Signed(l)'
  BY DEF Signed, Sound, HasRoot
<1> QED
  BY <1>1, <1>2 DEF LeavesAreSound, Signed, Valid

LEMMA SteppedKeeps ==
  ASSUME LeavesAreSound, UNCHANGED <<rootFiles, clock>>, Signed(cache)', UNCHANGED flight,
         NEW h \in Handshakes, NEW leaf, NEW at, Stepped(h, at, leaf),
         handshake[h].at # "waits", Signed(leaf),
         at \in {"hit", "served"} => Valid(leaf), at # "answered"
  PROVE  LeavesAreSound'
<1>1. \A l : Signed(l) <=> Signed(l)'
  BY DEF Signed, Sound, HasRoot
<1>2. flight.at # "idle" => \E g \in Handshakes : handshake'[g].at = "waits"
  BY DEF LeavesAreSound, Stepped
<1> QED
  BY <1>1, <1>2 DEF LeavesAreSound, Stepped, Valid

LEMMA NoLeafSigned == Signed(NoLeaf) /\ ~ (clock \in Nat /\ Valid(NoLeaf))
<1>1. NoLeaf.until = 0
  BY DEF NoLeaf
<1> QED
  BY <1>1 DEF Signed, Valid

LEMMA HandshakeKeeps ==
  ASSUME CaTypeOK, CaInv, NEW h \in Handshakes, HandshakeStep(h)
  PROVE  CaInv' /\ UNCHANGED contended
<1>a. LeavesAreSound /\ handshake[h].leaf \in Leaves /\ cache \in Leaves /\ NoLeaf \in Leaves
  BY NothingTyped DEF CaInv, CaTypeOK, HandshakeRecord
<1>b. Signed(NoLeaf) /\ Signed(NoLeaf)'
  BY DEF Signed
<1>c. UNCHANGED authority
  BY DEF HandshakeStep, LooksUp, AnswersHit, AnswersIssued, Answers, ChecksMiss, Joins,
         EndsHandshake
<1>d. UNCHANGED <<rootFiles, opener, issuer, exported, clock, contended>>
  BY <1>c DEF authority
<1>e. Signed(cache) => Signed(cache)' \/ cache' # cache
  BY <1>d DEF Signed, Sound, HasRoot
<1>f. SUFFICES LeavesAreSound'
  BY <1>d
     DEF CaInv, OpenersInv, OneRoot, OpenersAgree, ExportedIsRoot, IssuerIsSound, Sound, HasRoot
<1>1. CASE LooksUp(h)
  <2>1. CASE Valid(cache) /\ Steps(h, "hit", cache) /\ UNCHANGED cache
    <3>1. Stepped(h, "hit", cache)
      BY <1>a, <2>1, StepsStepped
    <3> QED
      BY <1>1, <1>a, <1>d, <1>e, <2>1, <3>1, SteppedKeeps DEF LooksUp, LeavesAreSound
  <2>2. CASE Steps(h, "missed", NoLeaf) /\ cache' = NoLeaf
    <3>1. Stepped(h, "missed", NoLeaf)
      BY <1>a, <2>2, StepsStepped
    <3> QED
      BY <1>1, <1>b, <1>d, <1>a, <2>2, <3>1, SteppedKeeps DEF LooksUp
  <2> QED
    BY <1>1, <2>1, <2>2 DEF LooksUp
<1>2. CASE AnswersHit(h) \/ AnswersIssued(h)
  <2>1. /\ handshake[h].at \in {"hit", "answered"} /\ UNCHANGED flight
        /\ \/ /\ handshake[h].leaf # NoLeaf
              /\ Steps(h, "served", handshake[h].leaf)
              /\ UNCHANGED cache
           \/ Steps(h, "idle", NoLeaf) /\ cache' = NoLeaf
    BY <1>2 DEF AnswersHit, AnswersIssued, Answers
  <2>2. CASE /\ handshake[h].leaf # NoLeaf
             /\ Steps(h, "served", handshake[h].leaf)
             /\ UNCHANGED cache
    <3>1. Stepped(h, "served", handshake[h].leaf)
      BY <1>a, <2>2, StepsStepped
    <3>2. Valid(handshake[h].leaf) /\ Signed(handshake[h].leaf)
      BY <1>a, <2>1, <2>2 DEF LeavesAreSound
    <3> QED
      BY <1>a, <1>d, <1>e, <2>1, <2>2, <3>1, <3>2, SteppedKeeps DEF LeavesAreSound
  <2>3. CASE Steps(h, "idle", NoLeaf) /\ cache' = NoLeaf
    <3>1. Stepped(h, "idle", NoLeaf)
      BY <1>a, <2>3, StepsStepped
    <3> QED
      BY <1>a, <1>b, <1>d, <2>1, <2>3, <3>1, SteppedKeeps
  <2> QED
    BY <2>1, <2>2, <2>3
<1>3. CASE ChecksMiss(h) \/ EndsHandshake(h)
  <2>1. Stepped(h, "joins", NoLeaf) \/ Stepped(h, "idle", NoLeaf)
    BY <1>3, <1>a, StepsStepped DEF ChecksMiss, EndsHandshake
  <2>2. handshake[h].at # "waits" /\ UNCHANGED <<cache, flight>>
    BY <1>3 DEF ChecksMiss, EndsHandshake
  <2> QED
    BY <1>a, <1>b, <1>d, <1>e, <2>1, <2>2, SteppedKeeps DEF LeavesAreSound
<1>4. CASE Joins(h)
  <2>1. Stepped(h, "waits", NoLeaf) /\ UNCHANGED cache
    BY <1>4, <1>a, StepsStepped DEF Joins
  <2>2. \/ UNCHANGED flight
        \/ flight'.at = "starts" /\ flight'.leaf = NoLeaf
    BY <1>4, IdleTyped DEF Joins, FlightRecord
  <2>3. \A l : Signed(l) <=> Signed(l)'
    BY <1>d DEF Signed, Sound, HasRoot
  <2> QED
    BY <1>a, <1>b, <1>d, <2>1, <2>2, <2>3 DEF LeavesAreSound, Stepped, Valid, Signed
<1> QED
  BY <1>1, <1>2, <1>3, <1>4 DEF HandshakeStep

LEMMA IssueKeeps ==
  ASSUME CaTypeOK, CaInv, StartsIssue \/ SignsLeaf \/ StoresLeaf \/ Evicts \/ Tick
  PROVE  CaInv' /\ UNCHANGED contended
<1>a. LeavesAreSound /\ cache \in Leaves /\ flight.leaf \in Leaves /\ NoLeaf \in Leaves
  BY NothingTyped DEF CaInv, CaTypeOK, FlightRecord
<1>b. Signed(NoLeaf) /\ Signed(NoLeaf)'
  BY DEF Signed
<1>d. /\ UNCHANGED <<rootFiles, opener, issuer, exported, contended>>
      /\ ~ Tick => UNCHANGED clock
  BY DEF StartsIssue, SignsLeaf, StoresLeaf, Evicts, Tick, authority
<1>e. \A l : Signed(l) <=> Signed(l)'
  BY <1>d DEF Signed, Sound, HasRoot
<1>f. SUFFICES LeavesAreSound'
  BY <1>d
     DEF CaInv, OpenersInv, OneRoot, OpenersAgree, ExportedIsRoot, IssuerIsSound, Sound, HasRoot
<1>1. CASE StartsIssue
  <2>0. UNCHANGED <<rootFiles, clock>>
    BY <1>1 DEF StartsIssue, authority
  <2>1. CASE Lands(NoLeaf) /\ UNCHANGED cache
    BY <1>a, <1>b, <1>e, <2>0, <2>1, LandsKeeps DEF LeavesAreSound, Signed
  <2>2. CASE Valid(cache) /\ Lands(cache) /\ UNCHANGED cache
    BY <1>a, <1>b, <1>e, <2>0, <2>2, LandsKeeps DEF LeavesAreSound, Signed
  <2>3. CASE flight' = [Idle EXCEPT !.at = "signs"] /\ cache' = NoLeaf /\ UNCHANGED handshake
    <3>1. flight'.at = "signs" /\ flight'.leaf = NoLeaf /\ flight.at = "starts"
      BY <1>1, <2>3, IdleTyped DEF FlightRecord, StartsIssue
    <3> QED
      BY <1>a, <1>b, <1>e, <2>0, <2>3, <3>1 DEF LeavesAreSound, Valid, Signed
  <2> QED
    BY <1>1, <2>1, <2>2, <2>3 DEF StartsIssue
<1>2. CASE SignsLeaf
  <2>0. UNCHANGED <<rootFiles, clock, cache>> /\ flight.at = "signs"
    BY <1>2 DEF SignsLeaf, authority
  <2>1. PICK until : until = IF clock + LeafLife > issuer.cert.until THEN issuer.cert.until
                             ELSE clock + LeafLife
    OBVIOUS
  <2>2. IF clock < until
        THEN /\ flight' = [at |-> "stores",
                           leaf |-> [key |-> issuer.key, cert |-> issuer.cert, until |-> until]]
             /\ UNCHANGED handshake
        ELSE Lands(NoLeaf)
    BY <1>2, <2>1 DEF SignsLeaf
  <2>3. CASE clock < until
    <3>1. until <= issuer.cert.until /\ clock \in Nat /\ issuer.cert.until \in Nat
      BY <2>1, SignedTypes, CaAssumption DEF CaTypeOK, Pairs, Certs, Times
    <3>2. issuer # NoPair
      <4>1. until \in Nat
        BY <2>1, <3>1, CaAssumption
      <4> QED
        BY <2>3, <3>1, <4>1, NothingTyped
    <3>3. Sound(issuer)
      BY <3>2 DEF CaInv, IssuerIsSound
    <3>4. /\ Signed([key |-> issuer.key, cert |-> issuer.cert, until |-> until])
          /\ Valid([key |-> issuer.key, cert |-> issuer.cert, until |-> until])
      BY <2>3, <3>1, <3>3 DEF Signed, Sound, Valid
    <3>5. /\ flight'.at = "stores" /\ UNCHANGED handshake
          /\ flight'.leaf = [key |-> issuer.key, cert |-> issuer.cert, until |-> until]
      BY <2>2, <2>3
    <3> QED
      BY <1>a, <1>e, <2>0, <3>4, <3>5 DEF LeavesAreSound, Valid
  <2>4. CASE ~ (clock < until)
    BY <1>a, <1>b, <1>e, <2>0, <2>2, <2>4, LandsKeeps DEF LeavesAreSound, Signed
  <2> QED
    BY <2>3, <2>4
<1>3. CASE StoresLeaf
  <2>0. UNCHANGED <<rootFiles, clock>> /\ flight.at = "stores"
    BY <1>3 DEF StoresLeaf, authority
  <2>1. Signed(flight.leaf) /\ Valid(flight.leaf)
    BY <1>a, <2>0 DEF LeavesAreSound
  <2>2. CASE cache' = flight.leaf /\ Lands(flight.leaf)
    <3>1. Signed(cache)'
      BY <1>e, <2>1, <2>2 DEF Signed, Sound, HasRoot
    <3> QED
      BY <1>a, <2>0, <2>1, <2>2, <3>1, LandsKeeps
  <2>3. CASE UNCHANGED cache /\ Lands(NoLeaf)
    BY <1>a, <1>b, <1>e, <2>0, <2>3, LandsKeeps DEF LeavesAreSound, Signed
  <2> QED
    BY <1>3, <2>2, <2>3 DEF StoresLeaf
<1>4. CASE Evicts
  BY <1>4, <1>a, <1>b, <1>e DEF Evicts, authority, LeavesAreSound, Valid, Signed
<1>5. CASE Tick
  BY <1>5, <1>a, <1>b, <1>e DEF Tick, serviceState, LeavesAreSound, Valid, Signed
<1> QED
  BY <1>1, <1>2, <1>3, <1>4, <1>5

LEMMA CaInvStep ==
  ASSUME CaTypeOK, RootsAreMade, CaIInv, [CaNext]_caVars
  PROVE  CaIInv'
<1>1. CASE contended
  <2>1. contended'
    <3>1. CASE \E p \in Openers : OpensAuthority(p)
      BY <1>1, <3>1, Zenon DEF OpensAuthority
    <3>2. CASE UNCHANGED contended
      BY <1>1, <3>2
    <3>3. ASSUME NEW p \in Openers, OpenerStep(p), ~ OpensAuthority(p)
          PROVE  UNCHANGED contended
      BY <3>3 DEF OpenerStep, ReadsRootCert, ReadsRootKey, StoresRootKey, StoresRootCert,
                  ReadsInterCert, ReadsInterKey, StoresKey, StoresCert, RenewalFails, Exports,
                  CaDeath
    <3>4. ASSUME NEW h \in Handshakes, HandshakeStep(h)
          PROVE  UNCHANGED contended
      BY <3>4 DEF HandshakeStep, LooksUp, AnswersHit, AnswersIssued, Answers, ChecksMiss, Joins,
                  EndsHandshake, authority
    <3>5. CASE StartsIssue \/ SignsLeaf \/ StoresLeaf \/ ChecksRenewal \/ Evicts \/ Tick
      <4>1. UNCHANGED contended
        BY <3>5 DEF StartsIssue, SignsLeaf, StoresLeaf, ChecksRenewal, Evicts, Tick, authority
      <4> QED
        BY <4>1, <3>2
    <3>6. CASE UNCHANGED caVars
      BY <3>2, <3>6 DEF caVars
    <3> QED
      BY <3>1, <3>2, <3>3, <3>4, <3>5, <3>6 DEF CaNext
  <2> QED
    BY <2>1 DEF CaIInv
<1>2. CASE ~ contended
  <2>0. CaInv
    BY <1>2 DEF CaIInv
  <2>1. CASE \E p \in Openers : OpenerStep(p)
    BY <1>2, <2>0, <2>1, OpenerKeeps DEF CaIInv
  <2>2. CASE ChecksRenewal
    <3>1. "server" \in Openers
      BY DEF Openers
    <3> QED
      BY <1>2, <2>0, <2>2, <3>1, OpenerKeeps DEF CaIInv
  <2>3. CASE \E h \in Handshakes : HandshakeStep(h)
    BY <2>0, <2>3, HandshakeKeeps DEF CaIInv
  <2>4. CASE StartsIssue \/ SignsLeaf \/ StoresLeaf \/ Evicts \/ Tick
    BY <2>0, <2>4, IssueKeeps DEF CaIInv
  <2>5. CASE UNCHANGED caVars
    BY <2>0, <2>5
       DEF caVars, CaIInv, CaInv, OpenersInv, OneRoot, OpenersAgree, ExportedIsRoot,
           IssuerIsSound, LeavesAreSound, Signed, Valid, Sound, HasRoot
  <2> QED
    BY <2>1, <2>2, <2>3, <2>4, <2>5 DEF CaNext
<1> QED
  BY <1>1, <1>2

LEMMA CaInvInit == CaInit => CaTypeOK /\ RootsAreMade /\ CaIInv
<1>1. CaInit => CaInv
  <2>1. Closed.at = "closed" /\ Idle.leaf = NoLeaf /\ Idle.at = "idle"
    BY IdleTyped DEF Closed
  <2> QED
    BY <2>1
       DEF CaInit, CaInv, OpenersInv, OneRoot, OpenersAgree, ExportedIsRoot, IssuerIsSound,
           LeavesAreSound, Signed, HasRoot, RootPlaces, InterPlaces, Storing
<1> QED
  BY <1>1, CaInitTypes DEF CaIInv

\* Every chain that the server serves verifies with every root that a client was given, and
\* a start is refused only where there is no root (NewCA, loadOrGenerateRoot, GetCertificate),
\* for any number of commands, handshakes, deaths, renewals and ticks, unless two processes
\* have made a root at once.
THEOREM TrustIsKept == CaSpec => [](CaTypeOK /\ TrustSurvives)
<1>1. CaInit => CaTypeOK /\ RootsAreMade /\ CaIInv
  BY CaInvInit
<1>2. CaTypeOK /\ RootsAreMade /\ CaIInv /\ [CaNext]_caVars
         => (CaTypeOK /\ RootsAreMade /\ CaIInv)'
  BY CaTypesStep, CaInvStep
<1>3. CaTypeOK /\ CaIInv => TrustSurvives
  <2>1. ASSUME CaTypeOK, CaInv, NEW h \in Handshakes, handshake[h].at = "served"
        PROVE  Verifies(handshake[h].leaf)
    <3>1. Valid(handshake[h].leaf) /\ Signed(handshake[h].leaf)
      BY <2>1 DEF CaInv, LeavesAreSound
    <3>2. handshake[h].leaf # NoLeaf
      BY <2>1, <3>1, NoLeafSigned DEF CaTypeOK
    <3>3. /\ clock \in Nat /\ handshake[h].leaf.until \in Nat
          /\ handshake[h].leaf.cert.until \in Nat
      BY <2>1, CaAssumption DEF CaTypeOK, HandshakeRecord, Leaves, Certs, Times
    <3> QED
      BY <2>1, <3>1, <3>2, <3>3
         DEF Verifies, Valid, Signed, Sound, CaInv, OpenersInv, ExportedIsRoot
  <2>2. ASSUME CaInv, NEW p \in Openers, opener[p].at = "refused"
        PROVE  rootFiles.cert = 0
    BY <2>2 DEF CaInv, OpenersInv, OpenersAgree, HasRoot
  <2> QED
    BY <2>1, <2>2 DEF CaIInv, TrustSurvives
<1> QED
  BY <1>1, <1>2, <1>3, PTL DEF CaSpec

-----------------------------------------------------------------------------
(* DomainSecrets: what calls are, and where they overlap                   *)

IsChanging(c) == call[c].at # "idle" /\ call[c].op \in {"set", "delete", "create"}

\* What a call of the server is at each of its places.
CallIsFormed(c) ==
    /\ call[c].at = "idle" => call[c] = NoCall
    /\ call[c].at \in (IF scope = "file"
                       THEN {"idle", "reads", "opens", "fills", "renames", "stats", "makes", "answers"}
                       ELSE {"idle", "removes", "lists", "inserts", "writes", "undoes", "shows",
                             "answers"}
                            \cup (IF scope = "domain" THEN {"discovers", "heals"} ELSE {}))
    /\ call[c].op # "move"
    /\ call[c].op \in {"get", "create"} => call[c].named = None
    /\ call[c].at \in {"shows", "answers"} => call[c].op = "get"
    /\ call[c].at \in {"inserts", "undoes"} => call[c].op = "set"
    /\ call[c].at = "removes" => call[c].op = "delete"
    /\ call[c].at \in {"writes", "opens", "fills", "renames"} => call[c].op \in {"set", "delete"}
    /\ call[c].at \in {"stats", "makes"} <=> call[c].op = "create"
    /\ call[c].fresh \subseteq (IF call[c].op = "set" THEN Names(c) ELSE {})
    /\ call[c].op # "get" => call[c].todo \subseteq Names(c)
    /\ call[c].file # 0 => call[c].at = "fills"

\* What was inserted anew is kept from the first insertion on.
FreshIsNew ==
    \A c \in Actors : call[c].at \in {"removes", "lists", "discovers", "heals"} => call[c].fresh = {}

\* The start is alone with a plaintext file that it moves into pass.
StartIsFormed ==
    /\ up => call[Start] = NoCall
    /\ ~ up => \A c \in SecretCallers : call[c] = NoCall
    /\ plain => scope # "file"
    /\ call[Start].at = "idle" => call[Start] = NoCall
    /\ call[Start].at # "idle" =>
          /\ plain
          /\ call[Start].named = Plain
          /\ call[Start].op \in {"move", "set"}
          /\ call[Start].at \in {"lists", "discovers", "heals", "inserts", "writes", "undoes",
                                 "unlinks", "compares", "rolls"}
          /\ call[Start].op = "move" => call[Start].at \in {"lists", "discovers", "heals"}
          /\ call[Start].at = "heals" => call[Start].known # {}

\* Two changes that meet are not alone, and as long as one of them lasts nothing is known
\* of what they name.
OverlapsAreSeen ==
    /\ \A c \in SecretCallers : IsChanging(c) => \A k \in Names(c) : settled[k] = Unknown
    /\ \A c, d \in SecretCallers :
          (c # d /\ IsChanging(c) /\ IsChanging(d)
             /\ (scope # "domain" \/ Names(c) \cap Names(d) # {})) => ~ call[c].alone
    /\ \A c \in SecretCallers :
          (scope # "domain" /\ IsChanging(c) /\ ~ call[c].alone) =>
              \A k \in SecretKeys : settled[k] = Unknown

\* What a read expects is what is settled still.
ExpectsSettled ==
    \A c \in SecretCallers, k \in SecretKeys : call[c].expect[k] \in {Unknown, settled[k]}

-----------------------------------------------------------------------------
(* DomainSecrets: what is stored                                           *)

\* A read that begins now and that nobody disturbs shows this value.
ShownAs(k, v) ==
    CASE scope = "domain" -> entry[k] = v
      [] scope = "attachment" -> v = IF k \in manifest THEN entry[k] ELSE 0
      [] scope = "file" -> \A content \in Reads(env.final) : content[k] = v

SettledIsStored ==
    up \/ ~ plain => \A k \in SecretKeys : settled[k] # Unknown => ShownAs(k, settled[k])

\* What a change makes of a key it names.
Target(c, k) == IF call[c].op = "delete" THEN 0 ELSE call[c].named[k]

\* An undisturbed change in pass: the entries it is done with have their values, and the
\* manifest it has read is the one there is.
EntriesAreSet(c) ==
    /\ call[c].op = "set" /\ call[c].at = "inserts" =>
          \A k \in Names(c) \ call[c].todo : entry[k] = call[c].named[k]
    /\ call[c].op = "set" /\ call[c].at \in {"writes", "unlinks"} =>
          \A k \in Names(c) : entry[k] = call[c].named[k]
    /\ call[c].op = "delete" /\ call[c].at \in {"lists", "discovers", "heals", "writes"} =>
          \A k \in Names(c) : entry[k] = 0
    /\ c # Start /\ scope = "attachment" /\ call[c].at \in {"inserts", "writes"} =>
          call[c].known = manifest
    /\ scope = "attachment" /\ call[c].at = "unlinks" => manifest = SecretKeys

\* What an undisturbed change of the environment file is to put in place.
Fits(c, content) ==
    \A k \in SecretKeys :
       /\ k \in Names(c) => content[k] = Target(c, k)
       /\ k \notin Names(c) /\ settled[k] # Unknown => content[k] = settled[k]

FileIsPrepared(c) ==
    /\ call[c].at \in {"opens", "fills"} => Fits(c, call[c].seen)
    /\ call[c].at = "fills" =>
          /\ env.temp # 0 /\ call[c].file = env.temp
          /\ ~ inode[env.temp].whole
    /\ call[c].at = "renames" =>
          /\ env.temp # 0 /\ inode[env.temp].whole
          /\ Fits(c, inode[env.temp].content)
    /\ call[c].at = "makes" => env.final = 0

ChangesProgress ==
    /\ \A c \in SecretCallers :
          IsChanging(c) /\ call[c].alone =>
              IF scope = "file" THEN FileIsPrepared(c) ELSE EntriesAreSet(c)
    /\ EntriesAreSet(Start)

\* A read: what it has shown, or is still to show, is what it expects.
ReadIsRight(c) ==
    /\ call[c].at \in {"lists", "discovers", "heals"} => call[c].seen = None
    /\ \A k \in SecretKeys : call[c].expect[k] # Unknown =>
          /\ call[c].at = "heals" /\ k \notin call[c].known => call[c].expect[k] = 0
          /\ call[c].at = "shows" =>
                /\ k \notin call[c].todo => call[c].seen[k] = call[c].expect[k]
                /\ scope = "attachment" /\ k \in call[c].todo => k \in manifest
          /\ call[c].at = "answers" => call[c].seen[k] = call[c].expect[k]

ReadsAreRight == \A c \in SecretCallers : call[c].op = "get" => ReadIsRight(c)

SecretsInv ==
    /\ SecretsTypeOK
    /\ FreshIsNew
    /\ \A c \in SecretCallers : CallIsFormed(c)
    /\ StartIsFormed
    /\ OverlapsAreSeen
    /\ ExpectsSettled
    /\ SettledIsStored
    /\ ChangesProgress
    /\ ReadsAreRight

-----------------------------------------------------------------------------
(* DomainSecrets: the records of the calls                                 *)

LEMMA SecretConstants ==
  /\ NoCall \in SecretCall /\ Plain \in Maps /\ None \in Maps
  /\ NoCall.at = "idle" /\ NoCall.op = "get" /\ NoCall.named = None /\ NoCall.known = {}
  /\ NoCall.todo = {} /\ NoCall.fresh = {} /\ NoCall.seen = None /\ NoCall.file = 0
  /\ NoCall.alone = TRUE /\ NoCall.expect \in [SecretKeys -> 0..Unknown]
  /\ \A k \in SecretKeys : NoCall.expect[k] = Unknown /\ None[k] = 0 /\ Plain[k] = 1
  /\ Unknown \in Nat /\ Unknown \notin 0..ValueCount /\ 0..ValueCount \subseteq 0..Unknown
  /\ Start \notin SecretCallers /\ Start \in Actors /\ SecretCallers \subseteq Actors
<1>1. None \in Maps /\ Plain \in Maps /\ 0 \in {0} \cup Inodes
  BY SecretsAssumption DEF None, Plain, Maps
<1>2. [k \in SecretKeys |-> Unknown] \in [SecretKeys -> 0..Unknown]
  BY SecretsAssumption DEF Unknown
<1>3. NoCall \in SecretCall
  BY <1>1, <1>2 DEF NoCall, SecretCall, SecretPlaces
<1>4. /\ NoCall.at = "idle" /\ NoCall.op = "get" /\ NoCall.named = None /\ NoCall.known = {}
      /\ NoCall.todo = {} /\ NoCall.fresh = {} /\ NoCall.seen = None /\ NoCall.file = 0
      /\ NoCall.alone = TRUE /\ NoCall.expect = [k \in SecretKeys |-> Unknown]
  BY DEF NoCall
<1>5. Unknown \in Nat /\ Unknown \notin 0..ValueCount /\ 0..ValueCount \subseteq 0..Unknown
  BY SecretsAssumption DEF Unknown
<1>6. \A k \in SecretKeys : None[k] = 0 /\ Plain[k] = 1
  BY DEF None, Plain
<1>7. Start \notin SecretCallers /\ Start \in Actors /\ SecretCallers \subseteq Actors
  BY SecretsAssumption DEF Start, Actors
<1> QED
  BY <1>1, <1>2, <1>3, <1>4, <1>5, <1>6, <1>7

\* The fields of a call have their types.
LEMMA CallFields ==
  ASSUME SecretsTypeOK, NEW c \in Actors
  PROVE  /\ call[c] \in SecretCall
         /\ call[c].at \in SecretPlaces /\ call[c].named \in Maps
         /\ call[c].op \in {"get", "set", "delete", "create", "move"}
         /\ call[c].known \subseteq SecretKeys /\ call[c].todo \subseteq SecretKeys
         /\ call[c].fresh \subseteq SecretKeys /\ call[c].seen \in Maps
         /\ call[c].file \in {0} \cup Inodes
         /\ call[c].expect \in [SecretKeys -> 0..Unknown] /\ call[c].alone \in BOOLEAN
         /\ Names(c) \subseteq SecretKeys
<1>1. call[c] \in SecretCall
  BY DEF SecretsTypeOK
<1> QED
  BY <1>1 DEF SecretCall, Names

\* A step of one call, which takes the place of the record it had.
OneCall(c) == call' \in [Actors -> SecretCall] /\ \A d \in Actors \ {c} : call'[d] = call[d]

\* What most steps of a call leave as it was.
SameCall(c) ==
    /\ call'[c].op = call[c].op /\ call'[c].named = call[c].named
    /\ call'[c].expect = call[c].expect /\ call'[c].alone = call[c].alone

LEMMA NewCall ==
  ASSUME SecretsTypeOK, NEW c \in Actors, NEW new \in SecretCall,
         call' = [call EXCEPT ![c] = new]
  PROVE  OneCall(c) /\ call'[c] = new
BY DEF SecretsTypeOK, OneCall

LEMMA CallReturns ==
  ASSUME SecretsTypeOK, NEW c \in Actors, call' = [call EXCEPT ![c] = NoCall]
  PROVE  OneCall(c) /\ call'[c] = NoCall
BY NewCall, SecretConstants

LEMMA CallGoesTo ==
  ASSUME SecretsTypeOK, NEW c \in Actors, NEW at \in SecretPlaces, To(c, at)
  PROVE  /\ OneCall(c) /\ SameCall(c) /\ call'[c].at = at
         /\ call'[c].known = call[c].known /\ call'[c].todo = call[c].todo
         /\ call'[c].fresh = call[c].fresh /\ call'[c].seen = call[c].seen
         /\ call'[c].file = call[c].file
<1> DEFINE new == [call[c] EXCEPT !.at = at]
<1>1. call[c] \in SecretCall
  BY CallFields
<1>2. call' = [call EXCEPT ![c] = new]
  BY <1>1 DEF To, SecretsTypeOK
<1>3. /\ new \in SecretCall /\ new.at = at /\ new.op = call[c].op /\ new.named = call[c].named
      /\ new.expect = call[c].expect /\ new.alone = call[c].alone /\ new.known = call[c].known
      /\ new.todo = call[c].todo /\ new.fresh = call[c].fresh /\ new.seen = call[c].seen
      /\ new.file = call[c].file
  BY <1>1 DEF SecretCall
<1> HIDE DEF new
<1> QED
  BY <1>2, <1>3, NewCall DEF SameCall

LEMMA CallLists ==
  ASSUME SecretsTypeOK, NEW c \in Actors, NEW known \in SUBSET SecretKeys, Listed(c, known)
  PROVE  /\ OneCall(c) /\ SameCall(c) /\ call'[c].fresh = call[c].fresh
         /\ call'[c].seen = call[c].seen /\ call'[c].file = call[c].file
         /\ call[c].op = "get" =>
               call'[c].at = "shows" /\ call'[c].todo = known /\ call'[c].known = {}
         /\ call[c].op = "delete" =>
               call'[c].at = "writes" /\ call'[c].todo = {} /\ call'[c].known = known
         /\ call[c].op \notin {"get", "delete"} =>
               call'[c].at = "inserts" /\ call'[c].todo = Names(c) /\ call'[c].known = known
<1> DEFINE at == IF call[c].op = "get" THEN "shows"
                 ELSE IF call[c].op = "delete" THEN "writes" ELSE "inserts"
           todo == IF call[c].op = "get" THEN known
                   ELSE IF call[c].op = "delete" THEN {} ELSE Names(c)
           kept == IF call[c].op = "get" THEN {} ELSE known
           new == [call[c] EXCEPT !.known = kept, !.at = at, !.todo = todo]
<1>1. call[c] \in SecretCall /\ Names(c) \subseteq SecretKeys
  BY CallFields
<1>2. call' = [call EXCEPT ![c] = new]
  BY <1>1 DEF Listed, SecretsTypeOK
<1>3. at \in SecretPlaces /\ todo \subseteq SecretKeys /\ kept \subseteq SecretKeys
  BY <1>1 DEF SecretPlaces
<1> HIDE DEF at, todo, kept
<1>4. /\ new \in SecretCall /\ new.at = at /\ new.op = call[c].op /\ new.named = call[c].named
      /\ new.expect = call[c].expect /\ new.alone = call[c].alone /\ new.known = kept
      /\ new.todo = todo /\ new.fresh = call[c].fresh /\ new.seen = call[c].seen
      /\ new.file = call[c].file
  BY <1>1, <1>3 DEF SecretCall
<1> HIDE DEF new
<1>5. OneCall(c) /\ call'[c] = new
  BY <1>2, <1>4, NewCall
<1> QED
  BY <1>4, <1>5 DEF SameCall, at, todo, kept
LEMMA CallDiscovers ==
  ASSUME SecretsTypeOK, NEW c \in Actors, NEW at \in SecretPlaces, NEW known \in SUBSET SecretKeys,
         call' = [call EXCEPT ![c].known = known, ![c].at = at]
  PROVE  /\ OneCall(c)
         /\ SameCall(c)
         /\ call'[c].at = at
         /\ call'[c].known = known
         /\ call'[c].todo = call[c].todo
         /\ call'[c].fresh = call[c].fresh
         /\ call'[c].seen = call[c].seen
         /\ call'[c].file = call[c].file
<1> DEFINE nknown == known
           nat == at
           new == [call[c] EXCEPT !.known = nknown, !.at = nat]
<1>1. call[c] \in SecretCall
  BY CallFields
<1>2. call' = [call EXCEPT ![c] = new]
  BY <1>1 DEF SecretsTypeOK
<1>3. nknown \subseteq SecretKeys
  BY CallFields, SecretConstants DEF SecretPlaces
<1>4. nat \in SecretPlaces
  BY CallFields, SecretConstants DEF SecretPlaces
<1> HIDE DEF nknown, nat
<1>5. /\ new \in SecretCall
      /\ new.at = nat
      /\ new.op = call[c].op
      /\ new.named = call[c].named
      /\ new.known = nknown
      /\ new.todo = call[c].todo
      /\ new.fresh = call[c].fresh
      /\ new.seen = call[c].seen
      /\ new.file = call[c].file
      /\ new.expect = call[c].expect
      /\ new.alone = call[c].alone
  BY <1>1, <1>3, <1>4 DEF SecretCall
<1> HIDE DEF new
<1>6. OneCall(c) /\ call'[c] = new
  BY <1>2, <1>5, NewCall
<1> QED
  BY <1>5, <1>6 DEF SameCall, nknown, nat

LEMMA CallInserts ==
  ASSUME SecretsTypeOK, NEW c \in Actors, NEW k \in SecretKeys,
         call' = [call EXCEPT ![c].todo = @ \ {k},
                        ![c].fresh = IF k \in call[c].known THEN @ ELSE @ \cup {k},
                        ![c].at = IF call[c].todo = {k} THEN "writes" ELSE @]
  PROVE  /\ OneCall(c)
         /\ SameCall(c)
         /\ call'[c].at = (IF call[c].todo = {k} THEN "writes" ELSE call[c].at)
         /\ call'[c].known = call[c].known
         /\ call'[c].todo = call[c].todo \ {k}
         /\ call'[c].fresh = (IF k \in call[c].known THEN call[c].fresh ELSE call[c].fresh \cup {k})
         /\ call'[c].seen = call[c].seen
         /\ call'[c].file = call[c].file
<1> DEFINE ntodo == call[c].todo \ {k}
           nfresh == (IF k \in call[c].known THEN call[c].fresh ELSE call[c].fresh \cup {k})
           nat == (IF call[c].todo = {k} THEN "writes" ELSE call[c].at)
           new == [call[c] EXCEPT !.todo = ntodo, !.fresh = nfresh, !.at = nat]
<1>1. call[c] \in SecretCall
  BY CallFields
<1>2. call' = [call EXCEPT ![c] = new]
  BY <1>1 DEF SecretsTypeOK
<1>3. ntodo \subseteq SecretKeys
  BY CallFields, SecretConstants DEF SecretPlaces
<1>4. nfresh \subseteq SecretKeys
  BY CallFields, SecretConstants DEF SecretPlaces
<1>5. nat \in SecretPlaces
  BY CallFields, SecretConstants DEF SecretPlaces
<1> HIDE DEF ntodo, nfresh, nat
<1>6. /\ new \in SecretCall
      /\ new.at = nat
      /\ new.op = call[c].op
      /\ new.named = call[c].named
      /\ new.known = call[c].known
      /\ new.todo = ntodo
      /\ new.fresh = nfresh
      /\ new.seen = call[c].seen
      /\ new.file = call[c].file
      /\ new.expect = call[c].expect
      /\ new.alone = call[c].alone
  BY <1>1, <1>3, <1>4, <1>5 DEF SecretCall
<1> HIDE DEF new
<1>7. OneCall(c) /\ call'[c] = new
  BY <1>2, <1>6, NewCall
<1> QED
  BY <1>6, <1>7 DEF SameCall, ntodo, nfresh, nat

LEMMA CallUndoes ==
  ASSUME SecretsTypeOK, NEW c \in Actors,
         call' = [call EXCEPT ![c].at = "undoes", ![c].known = {}, ![c].todo = {}]
  PROVE  /\ OneCall(c)
         /\ SameCall(c)
         /\ call'[c].at = "undoes"
         /\ call'[c].known = {}
         /\ call'[c].todo = {}
         /\ call'[c].fresh = call[c].fresh
         /\ call'[c].seen = call[c].seen
         /\ call'[c].file = call[c].file
<1> DEFINE nat == "undoes"
           nknown == {}
           ntodo == {}
           new == [call[c] EXCEPT !.at = nat, !.known = nknown, !.todo = ntodo]
<1>1. call[c] \in SecretCall
  BY CallFields
<1>2. call' = [call EXCEPT ![c] = new]
  BY <1>1 DEF SecretsTypeOK
<1>3. nat \in SecretPlaces
  BY CallFields, SecretConstants DEF SecretPlaces
<1>4. nknown \subseteq SecretKeys
  BY CallFields, SecretConstants DEF SecretPlaces
<1>5. ntodo \subseteq SecretKeys
  BY CallFields, SecretConstants DEF SecretPlaces
<1> HIDE DEF nat, nknown, ntodo
<1>6. /\ new \in SecretCall
      /\ new.at = nat
      /\ new.op = call[c].op
      /\ new.named = call[c].named
      /\ new.known = nknown
      /\ new.todo = ntodo
      /\ new.fresh = call[c].fresh
      /\ new.seen = call[c].seen
      /\ new.file = call[c].file
      /\ new.expect = call[c].expect
      /\ new.alone = call[c].alone
  BY <1>1, <1>3, <1>4, <1>5 DEF SecretCall
<1> HIDE DEF new
<1>7. OneCall(c) /\ call'[c] = new
  BY <1>2, <1>6, NewCall
<1> QED
  BY <1>6, <1>7 DEF SameCall, nat, nknown, ntodo

LEMMA CallUndid ==
  ASSUME SecretsTypeOK, NEW c \in Actors, NEW k \in SecretKeys,
         call' = [call EXCEPT ![c].fresh = @ \ {k}]
  PROVE  /\ OneCall(c)
         /\ SameCall(c)
         /\ call'[c].at = call[c].at
         /\ call'[c].known = call[c].known
         /\ call'[c].todo = call[c].todo
         /\ call'[c].fresh = call[c].fresh \ {k}
         /\ call'[c].seen = call[c].seen
         /\ call'[c].file = call[c].file
<1> DEFINE nfresh == call[c].fresh \ {k}
           new == [call[c] EXCEPT !.fresh = nfresh]
<1>1. call[c] \in SecretCall
  BY CallFields
<1>2. call' = [call EXCEPT ![c] = new]
  BY <1>1 DEF SecretsTypeOK
<1>3. nfresh \subseteq SecretKeys
  BY CallFields, SecretConstants DEF SecretPlaces
<1> HIDE DEF nfresh
<1>4. /\ new \in SecretCall
      /\ new.at = call[c].at
      /\ new.op = call[c].op
      /\ new.named = call[c].named
      /\ new.known = call[c].known
      /\ new.todo = call[c].todo
      /\ new.fresh = nfresh
      /\ new.seen = call[c].seen
      /\ new.file = call[c].file
      /\ new.expect = call[c].expect
      /\ new.alone = call[c].alone
  BY <1>1, <1>3 DEF SecretCall
<1> HIDE DEF new
<1>5. OneCall(c) /\ call'[c] = new
  BY <1>2, <1>4, NewCall
<1> QED
  BY <1>4, <1>5 DEF SameCall, nfresh

LEMMA CallShows ==
  ASSUME SecretsTypeOK, NEW c \in Actors, NEW k \in SecretKeys,
         call' = [call EXCEPT ![c].todo = @ \ {k}, ![c].seen[k] = entry[k]]
  PROVE  /\ OneCall(c)
         /\ SameCall(c)
         /\ call'[c].at = call[c].at
         /\ call'[c].known = call[c].known
         /\ call'[c].todo = call[c].todo \ {k}
         /\ call'[c].fresh = call[c].fresh
         /\ call'[c].seen = [call[c].seen EXCEPT ![k] = entry[k]]
         /\ call'[c].file = call[c].file
<1> DEFINE ntodo == call[c].todo \ {k}
           nseen == [call[c].seen EXCEPT ![k] = entry[k]]
           new == [call[c] EXCEPT !.todo = ntodo, !.seen = nseen]
<1>1. call[c] \in SecretCall
  BY CallFields
<1>2. call' = [call EXCEPT ![c] = new]
  BY <1>1 DEF SecretsTypeOK
<1>3. ntodo \subseteq SecretKeys
  BY CallFields, SecretConstants DEF SecretPlaces, Maps
<1>4. nseen \in Maps
  BY CallFields DEF SecretsTypeOK, Maps
<1> HIDE DEF ntodo, nseen
<1>5. /\ new \in SecretCall
      /\ new.at = call[c].at
      /\ new.op = call[c].op
      /\ new.named = call[c].named
      /\ new.known = call[c].known
      /\ new.todo = ntodo
      /\ new.fresh = call[c].fresh
      /\ new.seen = nseen
      /\ new.file = call[c].file
      /\ new.expect = call[c].expect
      /\ new.alone = call[c].alone
  BY <1>1, <1>3, <1>4 DEF SecretCall
<1> HIDE DEF new
<1>6. OneCall(c) /\ call'[c] = new
  BY <1>2, <1>5, NewCall
<1> QED
  BY <1>5, <1>6 DEF SameCall, ntodo, nseen

LEMMA CallReads ==
  ASSUME SecretsTypeOK, NEW c \in Actors, NEW seen \in Maps, NEW at \in SecretPlaces,
         call' = [call EXCEPT ![c].seen = seen, ![c].at = at]
  PROVE  /\ OneCall(c)
         /\ SameCall(c)
         /\ call'[c].at = at
         /\ call'[c].known = call[c].known
         /\ call'[c].todo = call[c].todo
         /\ call'[c].fresh = call[c].fresh
         /\ call'[c].seen = seen
         /\ call'[c].file = call[c].file
<1> DEFINE nseen == seen
           nat == at
           new == [call[c] EXCEPT !.seen = nseen, !.at = nat]
<1>1. call[c] \in SecretCall
  BY CallFields
<1>2. call' = [call EXCEPT ![c] = new]
  BY <1>1 DEF SecretsTypeOK
<1>3. nseen \in Maps
  BY CallFields, SecretConstants DEF SecretPlaces
<1>4. nat \in SecretPlaces
  BY CallFields, SecretConstants DEF SecretPlaces
<1> HIDE DEF nseen, nat
<1>5. /\ new \in SecretCall
      /\ new.at = nat
      /\ new.op = call[c].op
      /\ new.named = call[c].named
      /\ new.known = call[c].known
      /\ new.todo = call[c].todo
      /\ new.fresh = call[c].fresh
      /\ new.seen = nseen
      /\ new.file = call[c].file
      /\ new.expect = call[c].expect
      /\ new.alone = call[c].alone
  BY <1>1, <1>3, <1>4 DEF SecretCall
<1> HIDE DEF new
<1>6. OneCall(c) /\ call'[c] = new
  BY <1>2, <1>5, NewCall
<1> QED
  BY <1>5, <1>6 DEF SameCall, nseen, nat

LEMMA CallOpens ==
  ASSUME SecretsTypeOK, NEW c \in Actors, NEW i \in Inodes,
         call' = [call EXCEPT ![c].at = "fills", ![c].file = i]
  PROVE  /\ OneCall(c)
         /\ SameCall(c)
         /\ call'[c].at = "fills"
         /\ call'[c].known = call[c].known
         /\ call'[c].todo = call[c].todo
         /\ call'[c].fresh = call[c].fresh
         /\ call'[c].seen = call[c].seen
         /\ call'[c].file = i
<1> DEFINE nat == "fills"
           nfile == i
           new == [call[c] EXCEPT !.at = nat, !.file = nfile]
<1>1. call[c] \in SecretCall
  BY CallFields
<1>2. call' = [call EXCEPT ![c] = new]
  BY <1>1 DEF SecretsTypeOK
<1>3. nat \in SecretPlaces
  BY CallFields, SecretConstants DEF SecretPlaces
<1>4. nfile \in {0} \cup Inodes
  BY CallFields, SecretConstants DEF SecretPlaces
<1> HIDE DEF nat, nfile
<1>5. /\ new \in SecretCall
      /\ new.at = nat
      /\ new.op = call[c].op
      /\ new.named = call[c].named
      /\ new.known = call[c].known
      /\ new.todo = call[c].todo
      /\ new.fresh = call[c].fresh
      /\ new.seen = call[c].seen
      /\ new.file = nfile
      /\ new.expect = call[c].expect
      /\ new.alone = call[c].alone
  BY <1>1, <1>3, <1>4 DEF SecretCall
<1> HIDE DEF new
<1>6. OneCall(c) /\ call'[c] = new
  BY <1>2, <1>5, NewCall
<1> QED
  BY <1>5, <1>6 DEF SameCall, nat, nfile

LEMMA CallFills ==
  ASSUME SecretsTypeOK, NEW c \in Actors,
         call' = [call EXCEPT ![c].at = "renames", ![c].seen = None, ![c].file = 0]
  PROVE  /\ OneCall(c)
         /\ SameCall(c)
         /\ call'[c].at = "renames"
         /\ call'[c].known = call[c].known
         /\ call'[c].todo = call[c].todo
         /\ call'[c].fresh = call[c].fresh
         /\ call'[c].seen = None
         /\ call'[c].file = 0
<1> DEFINE nat == "renames"
           nseen == None
           nfile == 0
           new == [call[c] EXCEPT !.at = nat, !.seen = nseen, !.file = nfile]
<1>1. call[c] \in SecretCall
  BY CallFields
<1>2. call' = [call EXCEPT ![c] = new]
  BY <1>1 DEF SecretsTypeOK
<1>3. nat \in SecretPlaces
  BY CallFields, SecretConstants DEF SecretPlaces
<1>4. nseen \in Maps
  BY CallFields, SecretConstants DEF SecretPlaces
<1>5. nfile \in {0} \cup Inodes
  BY CallFields, SecretConstants DEF SecretPlaces
<1> HIDE DEF nat, nseen, nfile
<1>6. /\ new \in SecretCall
      /\ new.at = nat
      /\ new.op = call[c].op
      /\ new.named = call[c].named
      /\ new.known = call[c].known
      /\ new.todo = call[c].todo
      /\ new.fresh = call[c].fresh
      /\ new.seen = nseen
      /\ new.file = nfile
      /\ new.expect = call[c].expect
      /\ new.alone = call[c].alone
  BY <1>1, <1>3, <1>4, <1>5 DEF SecretCall
<1> HIDE DEF new
<1>7. OneCall(c) /\ call'[c] = new
  BY <1>2, <1>6, NewCall
<1> QED
  BY <1>6, <1>7 DEF SameCall, nat, nseen, nfile

LEMMA CallSetsAlways ==
  ASSUME SecretsTypeOK, NEW c \in Actors,
         ListsAlways(c)
  PROVE  /\ OneCall(c)
         /\ call'[c].at = "lists"
         /\ call'[c].op = "set"
         /\ call'[c].named = call[c].named
         /\ call'[c].known = call[c].known
         /\ call'[c].todo = call[c].todo
         /\ call'[c].fresh = call[c].fresh
         /\ call'[c].seen = call[c].seen
         /\ call'[c].file = call[c].file
         /\ call'[c].expect = call[c].expect
         /\ call'[c].alone = call[c].alone
<1> DEFINE nop == "set"
           nat == "lists"
           new == [call[c] EXCEPT !.op = nop, !.at = nat]
<1>1. call[c] \in SecretCall
  BY CallFields
<1>2. call' = [call EXCEPT ![c] = new]
  BY <1>1 DEF SecretsTypeOK, ListsAlways
<1>3. nop \in {"get", "set", "delete", "create", "move"}
  BY CallFields, SecretConstants DEF SecretPlaces
<1>4. nat \in SecretPlaces
  BY CallFields, SecretConstants DEF SecretPlaces
<1> HIDE DEF nop, nat
<1>5. /\ new \in SecretCall
      /\ new.at = nat
      /\ new.op = nop
      /\ new.named = call[c].named
      /\ new.known = call[c].known
      /\ new.todo = call[c].todo
      /\ new.fresh = call[c].fresh
      /\ new.seen = call[c].seen
      /\ new.file = call[c].file
      /\ new.expect = call[c].expect
      /\ new.alone = call[c].alone
  BY <1>1, <1>3, <1>4 DEF SecretCall
<1> HIDE DEF new
<1>6. OneCall(c) /\ call'[c] = new
  BY <1>2, <1>5, NewCall
<1> QED
  BY <1>5, <1>6 DEF SameCall, nop, nat

LEMMA CallRolls ==
  ASSUME SecretsTypeOK, NEW c \in Actors, NEW at \in SecretPlaces, NEW todo \in SUBSET SecretKeys,
         call' = [call EXCEPT ![c].at = at, ![c].todo = todo]
  PROVE  /\ OneCall(c)
         /\ SameCall(c)
         /\ call'[c].at = at
         /\ call'[c].known = call[c].known
         /\ call'[c].todo = todo
         /\ call'[c].fresh = call[c].fresh
         /\ call'[c].seen = call[c].seen
         /\ call'[c].file = call[c].file
<1> DEFINE nat == at
           ntodo == todo
           new == [call[c] EXCEPT !.at = nat, !.todo = ntodo]
<1>1. call[c] \in SecretCall
  BY CallFields
<1>2. call' = [call EXCEPT ![c] = new]
  BY <1>1 DEF SecretsTypeOK
<1>3. nat \in SecretPlaces
  BY CallFields, SecretConstants DEF SecretPlaces
<1>4. ntodo \subseteq SecretKeys
  BY CallFields, SecretConstants DEF SecretPlaces
<1> HIDE DEF nat, ntodo
<1>5. /\ new \in SecretCall
      /\ new.at = nat
      /\ new.op = call[c].op
      /\ new.named = call[c].named
      /\ new.known = call[c].known
      /\ new.todo = ntodo
      /\ new.fresh = call[c].fresh
      /\ new.seen = call[c].seen
      /\ new.file = call[c].file
      /\ new.expect = call[c].expect
      /\ new.alone = call[c].alone
  BY <1>1, <1>3, <1>4 DEF SecretCall
<1> HIDE DEF new
<1>6. OneCall(c) /\ call'[c] = new
  BY <1>2, <1>5, NewCall
<1> QED
  BY <1>5, <1>6 DEF SameCall, nat, ntodo

LEMMA CallRolledBack ==
  ASSUME SecretsTypeOK, NEW c \in Actors, NEW k \in SecretKeys,
         call' = [call EXCEPT ![c] = [call[c] EXCEPT !.todo = @ \ {k}]]
  PROVE  /\ OneCall(c)
         /\ SameCall(c)
         /\ call'[c].at = call[c].at
         /\ call'[c].known = call[c].known
         /\ call'[c].todo = call[c].todo \ {k}
         /\ call'[c].fresh = call[c].fresh
         /\ call'[c].seen = call[c].seen
         /\ call'[c].file = call[c].file
<1> DEFINE ntodo == call[c].todo \ {k}
           new == [call[c] EXCEPT !.todo = ntodo]
<1>1. call[c] \in SecretCall
  BY CallFields
<1>2. call' = [call EXCEPT ![c] = new]
  BY <1>1 DEF SecretsTypeOK
<1>3. ntodo \subseteq SecretKeys
  BY CallFields, SecretConstants DEF SecretPlaces
<1> HIDE DEF ntodo
<1>4. /\ new \in SecretCall
      /\ new.at = call[c].at
      /\ new.op = call[c].op
      /\ new.named = call[c].named
      /\ new.known = call[c].known
      /\ new.todo = ntodo
      /\ new.fresh = call[c].fresh
      /\ new.seen = call[c].seen
      /\ new.file = call[c].file
      /\ new.expect = call[c].expect
      /\ new.alone = call[c].alone
  BY <1>1, <1>3 DEF SecretCall
<1> HIDE DEF new
<1>5. OneCall(c) /\ call'[c] = new
  BY <1>2, <1>4, NewCall
<1> QED
  BY <1>4, <1>5 DEF SameCall, ntodo

-----------------------------------------------------------------------------
(* DomainSecrets: a step of one call, and what it leaves to the others     *)

\* What the invariant says of one call of the server, wherever it is.
OwnIsRight(c) ==
    /\ CallIsFormed(c)
    /\ call[c].at # "undoes" => call[c].fresh \cap call[c].known = {}
    /\ call[c].at \in {"removes", "lists", "discovers", "heals"} => call[c].fresh = {}
    /\ IsChanging(c) /\ call[c].alone =>
          IF scope = "file" THEN FileIsPrepared(c) ELSE EntriesAreSet(c)
    /\ call[c].op = "get" => ReadIsRight(c)

LEMMA NoCallIsRight ==
  ASSUME NEW c \in SecretCallers, call'[c] = NoCall
  PROVE  OwnIsRight(c)'
<1>1. /\ call'[c].at = "idle" /\ call'[c].op = "get" /\ call'[c].named = None
      /\ call'[c].fresh = {} /\ call'[c].file = 0
      /\ \A k \in SecretKeys : call'[c].expect[k] = Unknown
  BY SecretConstants
<1>2. CallIsFormed(c)'
  BY <1>1 DEF CallIsFormed
<1>3. ReadIsRight(c)'
  BY <1>1 DEF ReadIsRight
<1> QED
  BY <1>1, <1>2, <1>3 DEF OwnIsRight, IsChanging

\* A step of a call of the server that goes on, or is over, and has settled nothing.
CallStep(c) ==
    /\ call[c].at # "idle"
    /\ OneCall(c)
    /\ call'[c] = NoCall \/ SameCall(c)
    /\ UNCHANGED <<scope, plain, up, settled>>

\* A step that may have settled something, and the rest of what it keeps.
LEMMA OthersAreKept ==
  ASSUME SecretsInv, NEW c \in SecretCallers, call[c].at # "idle", OneCall(c),
         UNCHANGED <<scope, plain, up>>, OwnIsRight(c)'
  PROVE  /\ FreshIsNew' /\ (\A d \in SecretCallers : CallIsFormed(d)') /\ StartIsFormed'
         /\ (\A d \in Actors : call[d].at # "undoes" => call[d].fresh \cap call[d].known = {})'
         /\ up /\ call[Start] = NoCall /\ call'[Start] = NoCall
<1>1. c \in Actors /\ Start # c /\ Start \in Actors /\ SecretCallers \subseteq Actors
  BY SecretConstants
<1>2. \A d \in Actors \ {c} : call'[d] = call[d]
  BY DEF OneCall
<1>3. up
  BY SecretConstants DEF SecretsInv, StartIsFormed
<1>4. call[Start] = NoCall /\ call'[Start] = NoCall
  BY <1>1, <1>2, <1>3 DEF SecretsInv, StartIsFormed
<1>5. StartIsFormed'
  BY <1>3, <1>4, SecretConstants DEF SecretsInv, StartIsFormed
<1>6. FreshIsNew'
  BY <1>2 DEF SecretsInv, FreshIsNew, OwnIsRight
<1>7. (\A d \in Actors : call[d].at # "undoes" => call[d].fresh \cap call[d].known = {})'
  BY <1>2 DEF SecretsInv, SecretsTypeOK, OwnIsRight
<1>8. ASSUME NEW d \in SecretCallers PROVE CallIsFormed(d)'
  <2>1. CASE d = c
    BY <2>1 DEF OwnIsRight
  <2>2. CASE d # c
    <3>1. call'[d] = call[d] /\ CallIsFormed(d) /\ scope' = scope
      BY <2>2, <1>1, <1>2 DEF SecretsInv
    <3> QED
      BY <3>1 DEF CallIsFormed, Names
  <2> QED
    BY <2>1, <2>2
<1> QED
  BY <1>3, <1>4, <1>5, <1>6, <1>7, <1>8

LEMMA OverlapsAreKept ==
  ASSUME SecretsInv, NEW c \in SecretCallers, CallStep(c)
  PROVE  OverlapsAreSeen' /\ ExpectsSettled'
<1>1. \A d \in Actors \ {c} : call'[d] = call[d]
  BY DEF CallStep, OneCall
<1>2. ASSUME NEW d \in SecretCallers
      PROVE  /\ IsChanging(d)' => /\ IsChanging(d) /\ Names(d)' = Names(d)
                                  /\ call'[d].alone = call[d].alone
             /\ \A k \in SecretKeys : call'[d].expect[k] \in {Unknown, call[d].expect[k]}
  <2>1. d \in Actors
    BY SecretConstants
  <2>2. CASE d # c \/ SameCall(c)
    BY <2>1, <2>2, <1>1 DEF SameCall, IsChanging, Names, CallStep
  <2>3. CASE d = c /\ call'[c] = NoCall
    BY <2>3, SecretConstants DEF IsChanging
  <2> QED
    BY <2>2, <2>3 DEF CallStep
<1>3. scope' = scope /\ settled' = settled
  BY DEF CallStep
<1>4. OverlapsAreSeen'
  BY <1>2, <1>3 DEF SecretsInv, OverlapsAreSeen
<1>5. ExpectsSettled'
  BY <1>2, <1>3 DEF SecretsInv, ExpectsSettled
<1> QED
  BY <1>4, <1>5

\* Another change has its way to itself only if this one is elsewhere.
LEMMA OtherChanges ==
  ASSUME SecretsInv, NEW c \in SecretCallers, NEW d \in SecretCallers, c # d,
         IsChanging(c), IsChanging(d), call[c].alone \/ call[d].alone
  PROVE  scope = "domain" /\ Names(c) \cap Names(d) = {}
<1>1. OverlapsAreSeen
  BY DEF SecretsInv
<1> QED
  BY <1>1 DEF OverlapsAreSeen

\* A step in pass, where a change touches what it names only, and a manifest that no keys
\* are discovered for changes only by who has it to himself, or knows nothing to be settled.
PassCallStep(c) ==
    /\ CallStep(c)
    /\ UNCHANGED <<env, inode>>
    /\ entry' \in Maps /\ manifest' \subseteq SecretKeys /\ losses' \in 0..MaxLosses
    /\ \A k \in SecretKeys : entry'[k] = entry[k] \/ (IsChanging(c) /\ k \in Names(c))
    /\ scope = "attachment" =>
          \/ manifest' = manifest
          \/ IsChanging(c) /\ (call[c].alone =>
                \A k \in SecretKeys \ Names(c) : k \in manifest' <=> k \in manifest)

LEMMA PassStepKeepsStored ==
  ASSUME SecretsInv, NEW c \in SecretCallers, PassCallStep(c), scope # "file"
  PROVE  \A k \in SecretKeys : settled[k] # Unknown =>
            /\ entry'[k] = entry[k]
            /\ scope = "attachment" => (k \in manifest' <=> k \in manifest)
<1> SUFFICES ASSUME NEW k \in SecretKeys, settled[k] # Unknown
             PROVE  /\ entry'[k] = entry[k]
                    /\ scope = "attachment" => (k \in manifest' <=> k \in manifest)
  OBVIOUS
<1>1. IsChanging(c) => k \notin Names(c)
  BY DEF SecretsInv, OverlapsAreSeen
<1>2. IsChanging(c) /\ scope = "attachment" => call[c].alone
  BY DEF SecretsInv, OverlapsAreSeen
<1> QED
  BY <1>1, <1>2 DEF PassCallStep

LEMMA PassStepIsRight ==
  ASSUME SecretsInv, NEW c \in SecretCallers, PassCallStep(c), scope # "file", OwnIsRight(c)'
  PROVE  SecretsInv'
<1>1. /\ call[c].at # "idle" /\ OneCall(c) /\ CallStep(c) /\ settled' = settled
      /\ UNCHANGED <<scope, plain, up, env, inode>>
  BY DEF PassCallStep, CallStep
<1>2. /\ FreshIsNew' /\ (\A d \in SecretCallers : CallIsFormed(d)') /\ StartIsFormed'
      /\ (\A d \in Actors : call[d].at # "undoes" => call[d].fresh \cap call[d].known = {})'
      /\ up /\ call'[Start] = NoCall
  BY <1>1, OthersAreKept
<1>3. OverlapsAreSeen' /\ ExpectsSettled'
  BY <1>1, OverlapsAreKept
<1>4. SecretsTypeOK'
  <2>1. SecretsTypeOK
    BY DEF SecretsInv
  <2>2. call' \in [Actors -> SecretCall]
    BY <1>1 DEF OneCall
  <2> QED
    BY <1>1, <1>2, <2>1, <2>2 DEF SecretsTypeOK, PassCallStep
<1>5. \A k \in SecretKeys : settled[k] # Unknown =>
            /\ entry'[k] = entry[k]
            /\ scope = "attachment" => (k \in manifest' <=> k \in manifest)
  BY PassStepKeepsStored
<1>6. \A d \in SecretCallers \ {c} : call'[d] = call[d]
  BY <1>1, SecretConstants DEF OneCall
<1>7. SettledIsStored'
  <2> SUFFICES ASSUME NEW k \in SecretKeys, settled[k] # Unknown
               PROVE  ShownAs(k, settled[k])'
    BY <1>1 DEF SettledIsStored
  <2>1. ShownAs(k, settled[k])
    BY <1>2 DEF SecretsInv, SettledIsStored
  <2>2. scope \in {"domain", "attachment"}
    BY SecretsAssumption DEF SecretsInv, SecretsTypeOK
  <2>3. CASE scope = "domain"
    BY <1>1, <1>5, <2>1, <2>3 DEF ShownAs
  <2>4. CASE scope = "attachment"
    BY <1>1, <1>5, <2>1, <2>4 DEF ShownAs
  <2> QED
    BY <2>2, <2>3, <2>4
<1>8. ChangesProgress'
  <2>1. EntriesAreSet(Start)'
    BY <1>2, SecretConstants DEF EntriesAreSet
  <2>2. ASSUME NEW d \in SecretCallers, IsChanging(d)', call'[d].alone
        PROVE  EntriesAreSet(d)'
    <3>1. CASE d = c
      BY <1>1, <2>2, <3>1 DEF OwnIsRight
    <3>2. CASE d # c
      <4>1. call'[d] = call[d] /\ Names(d)' = Names(d) /\ IsChanging(d) /\ call[d].alone
        BY <1>6, <2>2, <3>2 DEF Names, IsChanging
      <4>2. EntriesAreSet(d)
        BY <4>1 DEF SecretsInv, ChangesProgress
      <4>3. \A k \in Names(d) : entry'[k] = entry[k]
        BY <3>2, <4>1, OtherChanges, CallFields, SecretConstants DEF PassCallStep, Names
      <4>4. scope = "attachment" => manifest' = manifest
        BY <3>2, <4>1, OtherChanges DEF PassCallStep
      <4> QED
        BY <1>1, <4>1, <4>2, <4>3, <4>4 DEF EntriesAreSet
    <3> QED
      BY <3>1, <3>2
  <2> QED
    BY <1>1, <2>1, <2>2 DEF ChangesProgress
<1>9. ReadsAreRight'
  <2> SUFFICES ASSUME NEW d \in SecretCallers, call'[d].op = "get"
               PROVE  ReadIsRight(d)'
    BY DEF ReadsAreRight
  <2>1. CASE d = c
    BY <2>1 DEF OwnIsRight
  <2>2. CASE d # c
    <3>1. call'[d] = call[d] /\ ReadIsRight(d)
      BY <1>6, <2>2 DEF SecretsInv, ReadsAreRight
    <3>2. \A k \in SecretKeys : call[d].expect[k] # Unknown => settled[k] # Unknown
      BY DEF SecretsInv, ExpectsSettled
    <3> QED
      BY <1>1, <1>5, <3>1, <3>2 DEF ReadIsRight
  <2> QED
    BY <2>1, <2>2
<1> QED
  BY <1>2, <1>3, <1>4, <1>7, <1>8, <1>9 DEF SecretsInv

-----------------------------------------------------------------------------
(* DomainSecrets: the steps in pass                                        *)

\* Unprimed, the invariant says it of each call.
LEMMA OwnWasRight ==
  ASSUME SecretsInv, NEW c \in SecretCallers
  PROVE  OwnIsRight(c) /\ SecretsTypeOK /\ c \in Actors
BY SecretConstants DEF SecretsInv, OwnIsRight, SecretsTypeOK, FreshIsNew, ChangesProgress,
   ReadsAreRight

\* A call that gives up, or that fails at once, leaves nothing of its own to be right.
LEMMA ReturnsInPass ==
  ASSUME SecretsInv, NEW c \in SecretCallers, call[c].at # "idle", scope # "file", Returns(c),
         UNCHANGED <<scope, plain, up, env, inode>>,
         entry' \in Maps, manifest' \subseteq SecretKeys, losses' \in 0..MaxLosses,
         \A k \in SecretKeys : entry'[k] = entry[k] \/ (IsChanging(c) /\ k \in Names(c)),
         scope = "attachment" => manifest' = manifest
  PROVE  SecretsInv'
<1>1. SecretsTypeOK /\ c \in Actors
  BY OwnWasRight
<1>2. OneCall(c) /\ call'[c] = NoCall /\ settled' = settled
  BY <1>1, CallReturns DEF Returns
<1>3. OwnIsRight(c)'
  BY <1>2, NoCallIsRight
<1>4. PassCallStep(c)
  BY <1>2 DEF PassCallStep, CallStep
<1> QED
  BY <1>3, <1>4, PassStepIsRight

LEMMA LossesAreBounded ==
  ASSUME SecretsTypeOK, Fails \/ UNCHANGED losses
  PROVE  losses' \in 0..MaxLosses
<1>1. losses \in 0..MaxLosses /\ MaxLosses \in Nat
  BY SecretsAssumption DEF SecretsTypeOK
<1> QED
  BY <1>1 DEF Fails

\* What a call in pass is.
LEMMA FormedInPass ==
  ASSUME SecretsInv, NEW c \in SecretCallers, call[c].at # "idle", scope # "file"
  PROVE  /\ SecretsTypeOK /\ c \in Actors /\ OwnIsRight(c) /\ up
         /\ scope \in {"domain", "attachment"} /\ call[c].op \in {"get", "set", "delete"}
         /\ call[c].file = 0 /\ Names(c) \subseteq SecretKeys
         /\ call[c].op = "get" => call[c].named = None
         /\ call[c].op # "get" => call[c].todo \subseteq Names(c) /\ IsChanging(c)
         /\ call[c].fresh \subseteq (IF call[c].op = "set" THEN Names(c) ELSE {})
         /\ call[c].at \in {"removes", "lists", "inserts", "writes", "undoes", "shows", "answers"}
               \/ (scope = "domain" /\ call[c].at \in {"discovers", "heals"})
<1>1. OwnIsRight(c) /\ SecretsTypeOK /\ c \in Actors
  BY OwnWasRight
<1>2. up
  BY SecretConstants DEF SecretsInv, StartIsFormed
<1>3. CallIsFormed(c) /\ call[c].op \in {"get", "set", "delete", "create", "move"}
  BY <1>1, CallFields DEF OwnIsRight
<1>4. scope \in {"domain", "attachment"}
  BY <1>1, SecretsAssumption DEF SecretsTypeOK
<1>5. call[c].op \in {"get", "set", "delete"} /\ call[c].file = 0
  BY <1>3 DEF CallIsFormed
<1>6. /\ call[c].op = "get" => call[c].named = None
      /\ call[c].op # "get" => call[c].todo \subseteq Names(c)
      /\ call[c].fresh \subseteq (IF call[c].op = "set" THEN Names(c) ELSE {})
      /\ call[c].at \in {"removes", "lists", "inserts", "writes", "undoes", "shows", "answers"}
               \/ (scope = "domain" /\ call[c].at \in {"discovers", "heals"})
  BY <1>3, <1>4 DEF CallIsFormed
<1>7. call[c].op # "get" => IsChanging(c)
  BY <1>5 DEF IsChanging
<1>8. Names(c) \subseteq SecretKeys
  BY DEF Names
<1> QED
  BY <1>1, <1>2, <1>4, <1>5, <1>6, <1>7, <1>8

\* A call in pass that goes on.
LEMMA GoesOnInPass ==
  ASSUME SecretsInv, NEW c \in SecretCallers, scope # "file", PassCallStep(c), SameCall(c),
         call'[c].file = 0,
         call'[c].at \in {"lists", "inserts", "writes", "undoes", "shows", "answers"}
            \/ (scope = "domain" /\ call'[c].at \in {"discovers", "heals"}),
         call'[c].at \in {"shows", "answers"} => call[c].op = "get",
         call'[c].at \in {"inserts", "undoes"} => call[c].op = "set",
         call'[c].at = "writes" => call[c].op \in {"set", "delete"},
         call[c].op # "get" => call'[c].todo \subseteq Names(c),
         call'[c].fresh \subseteq (IF call[c].op = "set" THEN Names(c) ELSE {}),
         call'[c].at \in {"lists", "discovers", "heals"} => call'[c].fresh = {},
         call'[c].at # "undoes" => call'[c].fresh \cap call'[c].known = {},
         call[c].op # "get" /\ call[c].alone => EntriesAreSet(c)',
         call[c].op = "get" => ReadIsRight(c)'
  PROVE  SecretsInv'
<1>1. CallStep(c)
  BY DEF PassCallStep
<1>2. Names(c)' = Names(c) /\ scope' = scope
  BY <1>1 DEF CallStep, SameCall, Names
<1>3. /\ call[c].op \in {"get", "set", "delete"}
      /\ call[c].op = "get" => call[c].named = None
  BY <1>1, FormedInPass DEF CallStep
<1>4. CallIsFormed(c)'
  BY <1>2, <1>3 DEF CallIsFormed, SameCall
<1>5. OwnIsRight(c)'
  BY <1>2, <1>3, <1>4 DEF OwnIsRight, SameCall, IsChanging
<1> QED
  BY <1>5, PassStepIsRight

\* A call that has the keys: what a read expects of the others is that they have no value.
LEMMA ListedIsRight ==
  ASSUME SecretsInv, NEW c \in SecretCallers, scope # "file",
         call[c].at \in {"lists", "discovers", "heals"},
         NEW known \in SUBSET SecretKeys, Listed(c, known),
         UNCHANGED <<scope, plain, entry, env, inode, up, settled>>,
         manifest' \subseteq SecretKeys, losses' \in 0..MaxLosses,
         scope = "attachment" => manifest' = manifest /\ known = manifest,
         call[c].op = "get" =>
            \A k \in SecretKeys : call[c].expect[k] # Unknown /\ k \notin known =>
               call[c].expect[k] = 0
  PROVE  SecretsInv'
<1>1. /\ SecretsTypeOK /\ c \in Actors /\ OwnIsRight(c) /\ call[c].file = 0
      /\ scope \in {"domain", "attachment"} /\ call[c].op \in {"get", "set", "delete"}
      /\ call[c].op # "get" => IsChanging(c)
  BY FormedInPass
<1>2. call[c].fresh = {} /\ (call[c].op = "get" => call[c].seen = None)
  BY <1>1 DEF OwnIsRight, ReadIsRight
<1>3. call[c].op = "delete" /\ call[c].alone => \A k \in Names(c) : entry[k] = 0
  BY <1>1 DEF OwnIsRight, EntriesAreSet
<1>4. OneCall(c) /\ SameCall(c) /\ call'[c].fresh = {} /\ call'[c].file = 0
  BY <1>1, <1>2, CallLists
<1>5. /\ call[c].op = "get" =>
            call'[c].at = "shows" /\ call'[c].todo = known /\ call'[c].seen = None
      /\ call[c].op = "delete" =>
            call'[c].at = "writes" /\ call'[c].todo = {} /\ call'[c].known = known
      /\ call[c].op = "set" =>
            call'[c].at = "inserts" /\ call'[c].todo = Names(c) /\ call'[c].known = known
  BY <1>1, <1>2, CallLists
<1>6. entry \in Maps
  BY <1>1 DEF SecretsTypeOK
<1>7. PassCallStep(c)
  BY <1>4, <1>6 DEF PassCallStep, CallStep
<1>8. call[c].op = "get" => ReadIsRight(c)'
  BY <1>4, <1>5, SecretConstants DEF ReadIsRight, SameCall
<1>9. call[c].op # "get" /\ call[c].alone => EntriesAreSet(c)'
  BY <1>1, <1>3, <1>4, <1>5, SecretConstants DEF EntriesAreSet, SameCall, Names
<1> QED
  BY <1>1, <1>4, <1>5, <1>7, <1>8, <1>9, GoesOnInPass

LEMMA ListsManifestIsRight ==
  ASSUME SecretsInv, NEW c \in SecretCallers, ListsManifest(c)
  PROVE  SecretsInv'
<1>1. call[c].at = "lists" /\ SecretsTypeOK
  BY OwnWasRight DEF ListsManifest
<1>2. scope # "file"
  BY <1>1, OwnWasRight DEF OwnIsRight, CallIsFormed
<1>3. /\ UNCHANGED <<scope, plain, entry, manifest, env, inode, up>>
      /\ losses' \in 0..MaxLosses /\ entry \in Maps /\ manifest \subseteq SecretKeys
  BY <1>1, LossesAreBounded DEF ListsManifest, SecretsTypeOK
<1>4. /\ c \in Actors /\ OwnIsRight(c) /\ up /\ call[c].file = 0
      /\ scope \in {"domain", "attachment"} /\ call[c].op \in {"get", "set", "delete"}
      /\ call[c].op # "get" => call[c].todo \subseteq Names(c) /\ IsChanging(c)
  BY <1>1, <1>2, FormedInPass
<1>5. call[c].fresh = {} /\ (call[c].op = "get" => call[c].seen = None)
  BY <1>1, <1>4 DEF OwnIsRight, ReadIsRight
<1>6. CASE Returns(c)
  BY <1>1, <1>2, <1>3, <1>6, ReturnsInPass
<1>7. ASSUME call' = [call EXCEPT ![c].known = manifest, ![c].at = "discovers"],
             scope = "domain", settled' = settled
      PROVE  SecretsInv'
  <2>1. /\ OneCall(c) /\ SameCall(c) /\ call'[c].at = "discovers" /\ call'[c].known = manifest
        /\ call'[c].todo = call[c].todo /\ call'[c].fresh = {} /\ call'[c].seen = call[c].seen
        /\ call'[c].file = 0
    <3>1. manifest \in SUBSET SecretKeys /\ "discovers" \in SecretPlaces
      BY <1>3 DEF SecretPlaces
    <3>2. c \in Actors /\ call[c].file = 0 /\ call[c].fresh = {}
      BY <1>4, <1>5
    <3> QED
      BY <1>1, <1>7, <3>1, <3>2, CallDiscovers
  <2>2. PassCallStep(c)
    BY <1>1, <1>3, <1>7, <2>1 DEF PassCallStep, CallStep
  <2>3. call[c].op = "get" => ReadIsRight(c)'
    BY <1>5, <2>1 DEF ReadIsRight
  <2>4. call[c].op # "get" /\ call[c].alone => EntriesAreSet(c)'
    <3>1. call[c].op = "delete" /\ call[c].alone => \A k \in Names(c) : entry[k] = 0
      BY <1>1, <1>2, <1>4 DEF OwnIsRight, EntriesAreSet
    <3> QED
      BY <1>3, <1>7, <2>1, <3>1 DEF EntriesAreSet, SameCall, Names
  <2> QED
    BY <1>2, <1>4, <1>7, <2>1, <2>2, <2>3, <2>4, GoesOnInPass
<1>8. ASSUME Listed(c, manifest), scope = "attachment", settled' = settled
      PROVE  SecretsInv'
  <2>1. \A k \in SecretKeys : call[c].expect[k] # Unknown => ShownAs(k, call[c].expect[k])
    BY <1>4 DEF SecretsInv, ExpectsSettled, SettledIsStored
  <2>2. \A k \in SecretKeys : call[c].expect[k] # Unknown /\ k \notin manifest =>
               call[c].expect[k] = 0
    BY <1>8, <2>1 DEF ShownAs
  <2> QED
    BY <1>1, <1>3, <1>8, <2>2, ListedIsRight
<1> QED
  BY <1>4, <1>6, <1>7, <1>8 DEF ListsManifest, Discovering

LEMMA DiscoversKeysIsRight ==
  ASSUME SecretsInv, NEW c \in SecretCallers, DiscoversKeys(c)
  PROVE  SecretsInv'
<1> DEFINE merged == call[c].known \cup Stored
<1>1. call[c].at = "discovers" /\ SecretsTypeOK
  BY OwnWasRight DEF DiscoversKeys
<1>2. scope = "domain"
  BY <1>1, OwnWasRight DEF OwnIsRight, CallIsFormed
<1>3. /\ UNCHANGED <<scope, plain, entry, manifest, env, inode, up>>
      /\ losses' \in 0..MaxLosses /\ entry \in Maps /\ manifest \subseteq SecretKeys
  BY <1>1, LossesAreBounded DEF DiscoversKeys, SecretsTypeOK
<1>4. /\ c \in Actors /\ OwnIsRight(c) /\ up /\ call[c].file = 0
      /\ call[c].op \in {"get", "set", "delete"}
      /\ call[c].op # "get" => call[c].todo \subseteq Names(c) /\ IsChanging(c)
  BY <1>1, <1>2, FormedInPass
<1>5. call[c].fresh = {} /\ (call[c].op = "get" => call[c].seen = None)
  BY <1>1, <1>4 DEF OwnIsRight, ReadIsRight
<1>6. merged \in SUBSET SecretKeys /\ merged \subseteq SecretKeys
  BY <1>1, <1>4, CallFields DEF Stored
<1>7. \A k \in SecretKeys : call[c].expect[k] # Unknown /\ k \notin merged =>
            call[c].expect[k] = 0
  <2>1. \A k \in SecretKeys : call[c].expect[k] # Unknown => ShownAs(k, call[c].expect[k])
    BY <1>4 DEF SecretsInv, ExpectsSettled, SettledIsStored
  <2> QED
    BY <1>2, <2>1 DEF ShownAs, Stored
<1> HIDE DEF merged
<1>8. CASE Returns(c)
  BY <1>1, <1>2, <1>3, <1>8, ReturnsInPass
<1>9. ASSUME call' = [call EXCEPT ![c].known = merged, ![c].at = "heals"], settled' = settled
      PROVE  SecretsInv'
  <2>1. /\ OneCall(c) /\ SameCall(c) /\ call'[c].at = "heals" /\ call'[c].known = merged
        /\ call'[c].todo = call[c].todo /\ call'[c].fresh = {} /\ call'[c].seen = call[c].seen
        /\ call'[c].file = 0
    <3>1. "heals" \in SecretPlaces
      BY DEF SecretPlaces
    <3>2. c \in Actors /\ call[c].file = 0 /\ call[c].fresh = {}
      BY <1>4, <1>5
    <3> QED
      BY <1>1, <1>6, <1>9, <3>1, <3>2, CallDiscovers
  <2>2. PassCallStep(c)
    BY <1>1, <1>3, <1>9, <2>1 DEF PassCallStep, CallStep
  <2>3. call[c].op = "get" => ReadIsRight(c)'
    BY <1>5, <1>7, <2>1 DEF ReadIsRight, SameCall
  <2>4. call[c].op # "get" /\ call[c].alone => EntriesAreSet(c)'
    <3>1. call[c].op = "delete" /\ call[c].alone => \A k \in Names(c) : entry[k] = 0
      BY <1>1, <1>2, <1>4 DEF OwnIsRight, EntriesAreSet
    <3> QED
      BY <1>2, <1>3, <2>1, <3>1 DEF EntriesAreSet, SameCall, Names
  <2> QED
    BY <1>2, <1>4, <2>1, <2>2, <2>3, <2>4, GoesOnInPass
<1>10. ASSUME Listed(c, merged), settled' = settled
       PROVE  SecretsInv'
  BY <1>1, <1>2, <1>3, <1>6, <1>7, <1>10, ListedIsRight
<1> QED
  BY <1>4, <1>8, <1>9, <1>10 DEF DiscoversKeys, merged

LEMMA HealsManifestIsRight ==
  ASSUME SecretsInv, NEW c \in SecretCallers, HealsManifest(c)
  PROVE  SecretsInv'
<1>1. call[c].at = "heals" /\ SecretsTypeOK
  BY OwnWasRight DEF HealsManifest
<1>2. scope = "domain"
  BY <1>1, OwnWasRight DEF OwnIsRight, CallIsFormed
<1>3. /\ c \in Actors /\ OwnIsRight(c) /\ call[c].op \in {"get", "set", "delete"}
      /\ call[c].known \subseteq SecretKeys
  BY <1>1, <1>2, FormedInPass, CallFields
<1>4. /\ UNCHANGED <<scope, plain, entry, env, inode, up, settled>>
      /\ losses' \in 0..MaxLosses /\ manifest' \subseteq SecretKeys /\ Listed(c, call[c].known)
  BY <1>1, <1>3, LossesAreBounded DEF HealsManifest, SecretsTypeOK, Refuses
<1>5. call[c].op = "get" =>
         \A k \in SecretKeys : call[c].expect[k] # Unknown /\ k \notin call[c].known =>
            call[c].expect[k] = 0
  BY <1>1, <1>3 DEF OwnIsRight, ReadIsRight
<1> QED
  BY <1>1, <1>2, <1>3, <1>4, <1>5, ListedIsRight

\* What a change in pass is at, and what it has done.
LEMMA ChangesInPass ==
  ASSUME SecretsInv, NEW c \in SecretCallers, call[c].at \in {"inserts", "writes", "undoes", "removes"}
  PROVE  /\ SecretsTypeOK /\ c \in Actors /\ scope \in {"domain", "attachment"} /\ IsChanging(c)
         /\ call[c].file = 0 /\ call[c].named \in Maps /\ call[c].known \subseteq SecretKeys
         /\ call[c].todo \subseteq Names(c) /\ Names(c) \subseteq SecretKeys
         /\ call[c].fresh \subseteq Names(c) /\ call[c].op \in {"set", "delete"}
         /\ call[c].op # "set" => call[c].fresh = {}
         /\ call[c].at \in {"inserts", "undoes"} => call[c].op = "set"
         /\ call[c].at = "removes" => call[c].op = "delete" /\ call[c].fresh = {}
         /\ call[c].at # "undoes" => call[c].fresh \cap call[c].known = {}
         /\ call[c].alone => EntriesAreSet(c)
<1>1. OwnIsRight(c) /\ SecretsTypeOK /\ c \in Actors
  BY OwnWasRight
<1>2. scope # "file" /\ call[c].op \in {"set", "delete"}
  BY <1>1 DEF OwnIsRight, CallIsFormed
<1>3. /\ scope \in {"domain", "attachment"} /\ call[c].file = 0 /\ Names(c) \subseteq SecretKeys
      /\ call[c].todo \subseteq Names(c) /\ IsChanging(c)
      /\ call[c].fresh \subseteq (IF call[c].op = "set" THEN Names(c) ELSE {})
  BY <1>2, FormedInPass
<1>4. call[c].named \in Maps /\ call[c].known \subseteq SecretKeys
  BY <1>1, CallFields
<1>5. /\ call[c].at \in {"inserts", "undoes"} => call[c].op = "set"
      /\ call[c].at = "removes" => call[c].op = "delete" /\ call[c].fresh = {}
  BY <1>1 DEF OwnIsRight, CallIsFormed
<1>6. /\ call[c].at # "undoes" => call[c].fresh \cap call[c].known = {}
      /\ call[c].alone => EntriesAreSet(c)
  BY <1>1, <1>3 DEF OwnIsRight
<1> QED
  BY <1>1, <1>2, <1>3, <1>4, <1>5, <1>6

\* A change in pass that gives up.
LEMMA GivesUpIsRight ==
  ASSUME SecretsInv, NEW c \in SecretCallers, call[c].at \in {"inserts", "writes"}, GivesUpSet(c),
         Fails, UNCHANGED <<scope, plain, manifest, env, inode, up>>, entry' \in Maps,
         \A k \in SecretKeys : entry'[k] = entry[k] \/ k \in Names(c)
  PROVE  SecretsInv'
<1>1. /\ SecretsTypeOK /\ c \in Actors /\ scope \in {"domain", "attachment"} /\ IsChanging(c)
      /\ call[c].file = 0 /\ call[c].fresh \subseteq Names(c) /\ call[c].op \in {"set", "delete"}
      /\ call[c].op # "set" => call[c].fresh = {}
  BY ChangesInPass
<1>2. losses' \in 0..MaxLosses /\ manifest' \subseteq SecretKeys
  BY <1>1, LossesAreBounded DEF SecretsTypeOK
<1>3. CASE call[c].fresh = {}
  <2>1. Returns(c)
    BY <1>3 DEF GivesUpSet
  <2> QED
    BY <1>1, <1>2, <2>1, ReturnsInPass
<1>4. CASE call[c].fresh # {}
  <2>1. call' = [call EXCEPT ![c].at = "undoes", ![c].known = {}, ![c].todo = {}]
    BY <1>4 DEF GivesUpSet
  <2>2. settled' = settled
    BY <1>4 DEF GivesUpSet
  <2>3. /\ OneCall(c) /\ SameCall(c) /\ call'[c].at = "undoes" /\ call'[c].known = {}
        /\ call'[c].todo = {} /\ call'[c].fresh = call[c].fresh /\ call'[c].file = 0
    BY <1>1, <2>1, CallUndoes
  <2>4. PassCallStep(c)
    BY <1>1, <1>2, <2>2, <2>3 DEF PassCallStep, CallStep
  <2>5. EntriesAreSet(c)'
    BY <2>3 DEF EntriesAreSet
  <2> QED
    BY <1>1, <1>4, <2>3, <2>4, <2>5, GoesOnInPass
<1> QED
  BY <1>3, <1>4

LEMMA InsertsKeyIsRight ==
  ASSUME SecretsInv, NEW c \in SecretCallers, NEW k \in SecretKeys, InsertsKey(c, k)
  PROVE  SecretsInv'
<1> DEFINE put == [entry EXCEPT ![k] = call[c].named[k]]
           added == IF k \in call[c].known THEN call[c].fresh ELSE call[c].fresh \cup {k}
           next == IF call[c].todo = {k} THEN "writes" ELSE call[c].at
<1>1. call[c].at = "inserts" /\ k \in call[c].todo
  BY DEF InsertsKey
<1>2. /\ SecretsTypeOK /\ c \in Actors /\ scope \in {"domain", "attachment"} /\ IsChanging(c)
      /\ call[c].file = 0 /\ call[c].named \in Maps /\ call[c].known \subseteq SecretKeys
      /\ call[c].todo \subseteq Names(c) /\ Names(c) \subseteq SecretKeys
      /\ call[c].fresh \subseteq Names(c) /\ call[c].op = "set"
      /\ call[c].fresh \cap call[c].known = {} /\ (call[c].alone => EntriesAreSet(c))
  BY <1>1, ChangesInPass
<1>3. entry \in Maps /\ put \in Maps /\ \A j \in SecretKeys \ {k} : put[j] = entry[j]
  BY <1>2 DEF SecretsTypeOK, Maps
<1>4. put[k] = call[c].named[k]
  BY <1>3 DEF Maps
<1> HIDE DEF put
<1>5. ASSUME entry' = put, settled' = settled, UNCHANGED losses,
             UNCHANGED <<scope, plain, manifest, env, inode, up>>,
             call' = [call EXCEPT ![c].todo = @ \ {k},
                         ![c].fresh = IF k \in call[c].known THEN @ ELSE @ \cup {k},
                         ![c].at = IF call[c].todo = {k} THEN "writes" ELSE @]
      PROVE  SecretsInv'
  <2>1. /\ OneCall(c) /\ SameCall(c) /\ call'[c].at = next /\ call'[c].known = call[c].known
        /\ call'[c].todo = call[c].todo \ {k} /\ call'[c].fresh = added /\ call'[c].file = 0
    BY <1>2, <1>5, CallInserts
  <2>2. losses' \in 0..MaxLosses /\ manifest' \subseteq SecretKeys
    BY <1>2, <1>5, LossesAreBounded DEF SecretsTypeOK
  <2>3. PassCallStep(c)
    BY <1>1, <1>2, <1>3, <1>5, <2>1, <2>2 DEF PassCallStep, CallStep
  <2>4. call[c].alone => EntriesAreSet(c)'
    <3> SUFFICES ASSUME call[c].alone PROVE EntriesAreSet(c)'
      OBVIOUS
    <3>1. \A j \in Names(c) \ call[c].todo : entry[j] = call[c].named[j]
      BY <1>1, <1>2 DEF EntriesAreSet
    <3>2. \A j \in Names(c) \ (call[c].todo \ {k}) : entry'[j] = call[c].named[j]
      BY <1>2, <1>3, <1>4, <1>5, <3>1
    <3>3. c # Start /\ scope = "attachment" => call[c].known = manifest
      BY <1>1, <1>2 DEF EntriesAreSet
    <3>4. next \in {"inserts", "writes"} /\ (next = "writes" => call[c].todo \ {k} = {})
      BY <1>1
    <3>5. /\ call'[c].at = next /\ call'[c].op = "set" /\ call'[c].named = call[c].named
          /\ Names(c)' = Names(c) /\ call'[c].todo = call[c].todo \ {k}
          /\ call'[c].known = call[c].known /\ UNCHANGED <<scope, manifest>>
      BY <1>2, <1>5, <2>1 DEF SameCall, Names
    <3> HIDE DEF next
    <3>6. Names(c) \ {} = Names(c)
      OBVIOUS
    <3> QED
      BY <3>2, <3>3, <3>4, <3>5, <3>6 DEF EntriesAreSet
  <2>5. /\ next \in {"inserts", "writes"} /\ added \subseteq Names(c)
        /\ added \cap call[c].known = {}
    BY <1>1, <1>2
  <2> HIDE DEF next, added
  <2> QED
    BY <1>2, <2>1, <2>3, <2>4, <2>5, GoesOnInPass
<1>6. ASSUME entry' \in {entry, put}, GivesUpSet(c), Fails,
             UNCHANGED <<scope, plain, manifest, env, inode, up>>
      PROVE  SecretsInv'
  <2>1. entry' \in Maps /\ \A j \in SecretKeys : entry'[j] = entry[j] \/ j \in Names(c)
    BY <1>1, <1>2, <1>3, <1>6
  <2> QED
    BY <1>1, <1>6, <2>1, GivesUpIsRight
<1> QED
  BY <1>5, <1>6 DEF InsertsKey, put

LEMMA UndoesInsertIsRight ==
  ASSUME SecretsInv, NEW c \in SecretCallers, NEW k \in SecretKeys, UndoesInsert(c, k)
  PROVE  SecretsInv'
<1>1. call[c].at = "undoes" /\ k \in call[c].fresh
  BY DEF UndoesInsert
<1>2. /\ SecretsTypeOK /\ c \in Actors /\ scope \in {"domain", "attachment"} /\ IsChanging(c)
      /\ call[c].file = 0 /\ call[c].todo \subseteq Names(c)
      /\ call[c].fresh \subseteq Names(c) /\ call[c].op = "set"
  BY <1>1, ChangesInPass
<1>3. /\ UNCHANGED <<scope, plain, manifest, env, inode, up>> /\ manifest' \subseteq SecretKeys
      /\ losses' \in 0..MaxLosses
  BY <1>2, LossesAreBounded DEF UndoesInsert, SecretsTypeOK
<1>4. entry' \in Maps /\ \A j \in SecretKeys : entry'[j] = entry[j] \/ j \in Names(c)
  <2>1. entry \in Maps /\ 0 \in 0..ValueCount /\ k \in Names(c)
    BY <1>1, <1>2, SecretsAssumption DEF SecretsTypeOK
  <2>2. entry' = entry \/ entry' = [entry EXCEPT ![k] = 0]
    BY DEF UndoesInsert
  <2> QED
    BY <2>1, <2>2 DEF Maps
<1>5. CASE Returns(c)
  BY <1>1, <1>2, <1>3, <1>4, <1>5, ReturnsInPass
<1>6. ASSUME call' = [call EXCEPT ![c].fresh = @ \ {k}], settled' = settled
      PROVE  SecretsInv'
  <2>1. /\ OneCall(c) /\ SameCall(c) /\ call'[c].at = "undoes" /\ call'[c].todo = call[c].todo
        /\ call'[c].fresh = call[c].fresh \ {k} /\ call'[c].file = 0
    BY <1>1, <1>2, <1>6, CallUndid
  <2>2. PassCallStep(c)
    BY <1>1, <1>2, <1>3, <1>4, <1>6, <2>1 DEF PassCallStep, CallStep
  <2>3. EntriesAreSet(c)'
    BY <2>1 DEF EntriesAreSet
  <2> QED
    BY <1>2, <2>1, <2>2, <2>3, GoesOnInPass
<1> QED
  BY <1>5, <1>6 DEF UndoesInsert

LEMMA RemovesKeyIsRight ==
  ASSUME SecretsInv, NEW c \in SecretCallers, RemovesKey(c)
  PROVE  SecretsInv'
<1>1. call[c].at = "removes"
  BY DEF RemovesKey
<1>2. /\ SecretsTypeOK /\ c \in Actors /\ scope \in {"domain", "attachment"} /\ IsChanging(c)
      /\ call[c].file = 0 /\ call[c].todo \subseteq Names(c) /\ call[c].op = "delete"
      /\ call[c].fresh = {} /\ Names(c) \subseteq SecretKeys
  BY <1>1, ChangesInPass
<1>3. /\ UNCHANGED <<scope, plain, manifest, env, inode, up>> /\ manifest' \subseteq SecretKeys
      /\ losses' \in 0..MaxLosses /\ entry \in Maps
  BY <1>2, LossesAreBounded DEF RemovesKey, SecretsTypeOK
<1>4. CASE UNCHANGED entry /\ Returns(c)
  BY <1>1, <1>2, <1>3, <1>4, ReturnsInPass
<1>5. ASSUME entry' = [k \in SecretKeys |-> IF k \in Names(c) THEN 0 ELSE entry[k]],
             To(c, "lists"), settled' = settled
      PROVE  SecretsInv'
  <2>1. "lists" \in SecretPlaces
    BY DEF SecretPlaces
  <2>2. /\ OneCall(c) /\ SameCall(c) /\ call'[c].at = "lists" /\ call'[c].todo = call[c].todo
        /\ call'[c].fresh = {} /\ call'[c].file = 0
    BY <1>2, <1>5, <2>1, CallGoesTo
  <2>3. entry' \in Maps
    BY <1>3, <1>5, SecretsAssumption DEF Maps
  <2>4. PassCallStep(c)
    BY <1>1, <1>2, <1>3, <1>5, <2>2, <2>3 DEF PassCallStep, CallStep
  <2>5. EntriesAreSet(c)'
    <3>1. \A k \in Names(c) : entry'[k] = 0
      BY <1>2, <1>5
    <3> QED
      BY <1>2, <2>2, <3>1 DEF EntriesAreSet, SameCall, Names
  <2> QED
    BY <1>2, <2>2, <2>4, <2>5, GoesOnInPass
<1> QED
  BY <1>4, <1>5 DEF RemovesKey

\* A read of pass.
LEMMA ReadsInPass ==
  ASSUME SecretsInv, NEW c \in SecretCallers, call[c].at = "shows"
  PROVE  /\ SecretsTypeOK /\ c \in Actors /\ scope \in {"domain", "attachment"} /\ up
         /\ call[c].op = "get" /\ call[c].file = 0 /\ call[c].fresh = {}
         /\ ReadIsRight(c) /\ call[c].todo \subseteq SecretKeys
<1>1. OwnIsRight(c) /\ SecretsTypeOK /\ c \in Actors
  BY OwnWasRight
<1>2. scope # "file" /\ call[c].op = "get"
  BY <1>1 DEF OwnIsRight, CallIsFormed
<1>3. /\ scope \in {"domain", "attachment"} /\ call[c].file = 0 /\ up
      /\ call[c].fresh \subseteq (IF call[c].op = "set" THEN Names(c) ELSE {})
  BY <1>2, FormedInPass
<1>4. ReadIsRight(c) /\ call[c].todo \subseteq SecretKeys /\ call[c].fresh = {}
  BY <1>1, <1>2, <1>3, CallFields DEF OwnIsRight
<1> QED
  BY <1>1, <1>2, <1>3, <1>4

LEMMA ShowsKeysIsRight ==
  ASSUME SecretsInv, NEW c \in SecretCallers, ShowsKeys(c)
  PROVE  SecretsInv'
<1>1. call[c].at = "shows"
  BY DEF ShowsKeys
<1>2. /\ SecretsTypeOK /\ c \in Actors /\ scope \in {"domain", "attachment"} /\ up
      /\ call[c].op = "get" /\ call[c].file = 0 /\ call[c].fresh = {}
      /\ ReadIsRight(c) /\ call[c].todo \subseteq SecretKeys
  BY <1>1, ReadsInPass
<1>3. /\ UNCHANGED <<scope, plain, entry, manifest, env, inode, up>> /\ manifest' \subseteq SecretKeys
      /\ losses' \in 0..MaxLosses /\ entry \in Maps
  BY <1>2, LossesAreBounded DEF ShowsKeys, SecretsTypeOK
<1>4. CASE Returns(c)
  BY <1>1, <1>2, <1>3, <1>4, ReturnsInPass
<1>5. ASSUME call[c].todo = {}, To(c, "answers"), settled' = settled
      PROVE  SecretsInv'
  <2>1. "answers" \in SecretPlaces
    BY DEF SecretPlaces
  <2>2. /\ OneCall(c) /\ SameCall(c) /\ call'[c].at = "answers" /\ call'[c].fresh = {}
        /\ call'[c].file = 0 /\ call'[c].seen = call[c].seen
    BY <1>2, <1>5, <2>1, CallGoesTo
  <2>3. PassCallStep(c)
    BY <1>1, <1>3, <1>5, <2>2 DEF PassCallStep, CallStep
  <2>4. ReadIsRight(c)'
    BY <1>1, <1>2, <1>5, <2>2 DEF ReadIsRight, SameCall
  <2> QED
    BY <1>2, <2>2, <2>3, <2>4, GoesOnInPass
<1>6. ASSUME NEW k \in call[c].todo, settled' = settled,
             call' = [call EXCEPT ![c].todo = @ \ {k}, ![c].seen[k] = entry[k]]
      PROVE  SecretsInv'
  <2>1. k \in SecretKeys /\ entry[k] \in 0..ValueCount /\ call[c].seen \in Maps
    BY <1>2, <1>3, CallFields DEF Maps
  <2>2. /\ OneCall(c) /\ SameCall(c) /\ call'[c].at = "shows" /\ call'[c].fresh = {}
        /\ call'[c].file = 0 /\ call'[c].seen = [call[c].seen EXCEPT ![k] = entry[k]]
        /\ call'[c].todo = call[c].todo \ {k}
    <3>1. c \in Actors /\ call[c].fresh = {} /\ call[c].file = 0
      BY <1>2
    <3> QED
      BY <1>1, <1>2, <1>6, <2>1, <3>1, CallShows
  <2>3. PassCallStep(c)
    BY <1>1, <1>3, <1>6, <2>2 DEF PassCallStep, CallStep
  <2>4. call[c].expect[k] # Unknown => ShownAs(k, call[c].expect[k])
    BY <1>2, <2>1 DEF SecretsInv, ExpectsSettled, SettledIsStored
  <2>5. call[c].expect[k] # Unknown => entry[k] = call[c].expect[k]
    BY <1>1, <1>2, <2>1, <2>4 DEF ShownAs, ReadIsRight
  <2>6. /\ \A j \in SecretKeys \ {k} : call'[c].seen[j] = call[c].seen[j]
        /\ call'[c].seen[k] = entry[k]
    BY <2>1, <2>2 DEF Maps
  <2>7. \A j \in SecretKeys : call[c].expect[j] # Unknown =>
            /\ j \notin call[c].todo => call[c].seen[j] = call[c].expect[j]
            /\ scope = "attachment" /\ j \in call[c].todo => j \in manifest
    BY <1>1, <1>2 DEF ReadIsRight
  <2>8. ReadIsRight(c)'
    BY <1>3, <2>2, <2>5, <2>6, <2>7 DEF ReadIsRight, SameCall
  <2> QED
    BY <1>2, <2>2, <2>3, <2>8, GoesOnInPass
<1> QED
  BY <1>4, <1>5, <1>6 DEF ShowsKeys

LEMMA AnswersReadIsRight ==
  ASSUME SecretsInv, NEW c \in SecretCallers, AnswersRead(c), scope # "file"
  PROVE  SecretsInv'
<1>1. SecretsTypeOK /\ call[c].at # "idle" /\ losses' \in 0..MaxLosses
  BY OwnWasRight, LossesAreBounded DEF AnswersRead
<1>2. entry' \in Maps /\ manifest' \subseteq SecretKeys /\ entry' = entry /\ manifest' = manifest
  BY <1>1 DEF AnswersRead, SecretsTypeOK
<1> QED
  BY <1>1, <1>2, ReturnsInPass DEF AnswersRead

\* A change that has settled its keys, when it was alone.
LEMMA SucceedsSettles ==
  ASSUME SecretsInv, NEW c \in SecretCallers, IsChanging(c), Succeeds(c),
         UNCHANGED <<scope, plain, up>>
  PROVE  /\ OneCall(c) /\ call'[c] = NoCall /\ OwnIsRight(c)'
         /\ settled' \in [SecretKeys -> 0..Unknown]
         /\ \A k \in SecretKeys :
               settled'[k] = IF call[c].alone /\ k \in Names(c) THEN Target(c, k) ELSE settled[k]
         /\ OverlapsAreSeen' /\ ExpectsSettled'
<1>1. SecretsTypeOK /\ c \in Actors /\ SecretCallers \subseteq Actors
  BY OwnWasRight, SecretConstants
<1>2. OneCall(c) /\ call'[c] = NoCall
  BY <1>1, CallReturns DEF Succeeds
<1>3. OwnIsRight(c)'
  BY <1>2, NoCallIsRight
<1>4. \A k \in SecretKeys :
         settled'[k] = IF call[c].alone /\ k \in Names(c) THEN Target(c, k) ELSE settled[k]
  BY DEF Succeeds, Target
<1>5. settled' \in [SecretKeys -> 0..Unknown]
  <2>1. call[c].named \in Maps /\ settled \in [SecretKeys -> 0..Unknown]
    BY <1>1, CallFields DEF SecretsTypeOK
  <2>2. \A k \in SecretKeys : Target(c, k) \in 0..Unknown
    BY <2>1, SecretsAssumption DEF Target, Maps, Unknown
  <2>3. settled' = [k \in SecretKeys |-> settled'[k]]
    BY DEF Succeeds
  <2> QED
    BY <1>4, <2>1, <2>2, <2>3
<1>6. \A d \in SecretCallers \ {c} : call'[d] = call[d] /\ Names(d)' = Names(d)
  BY <1>1, <1>2 DEF OneCall, Names
<1>7. ~ IsChanging(c)'
  BY <1>2, SecretConstants DEF IsChanging
<1>8. ASSUME NEW d \in SecretCallers, IsChanging(d)'
      PROVE  /\ d # c /\ call'[d] = call[d] /\ Names(d)' = Names(d) /\ IsChanging(d)
             /\ \A k \in Names(d) : settled'[k] = Unknown
             /\ scope # "domain" => settled' = settled
  <2>1. d # c /\ call'[d] = call[d] /\ Names(d)' = Names(d) /\ IsChanging(d)
    BY <1>6, <1>7, <1>8 DEF IsChanging
  <2>2. \A k \in Names(d) : settled[k] = Unknown
    BY <2>1 DEF SecretsInv, OverlapsAreSeen
  <2>3. call[c].alone => scope = "domain" /\ Names(c) \cap Names(d) = {}
    BY <2>1, OtherChanges
  <2>4. \A k \in Names(d) : settled'[k] = Unknown
    BY <1>4, <2>2, <2>3 DEF Names
  <2>5. ASSUME ~ call[c].alone PROVE settled' = settled
    <3>1. settled \in [SecretKeys -> 0..Unknown]
      BY <1>1 DEF SecretsTypeOK
    <3> QED
      BY <1>4, <1>5, <2>5, <3>1
  <2> QED
    BY <2>1, <2>3, <2>4, <2>5
<1>9. OverlapsAreSeen'
  BY <1>8 DEF SecretsInv, OverlapsAreSeen
<1>10. ExpectsSettled'
  <2>1. \A k \in Names(c) : settled[k] = Unknown
    BY DEF SecretsInv, OverlapsAreSeen
  <2> SUFFICES ASSUME NEW d \in SecretCallers, NEW k \in SecretKeys
               PROVE  call'[d].expect[k] \in {Unknown, settled'[k]}
    BY DEF ExpectsSettled
  <2>2. call[d].expect[k] \in {Unknown, settled[k]}
    BY DEF SecretsInv, ExpectsSettled
  <2>3. CASE d = c
    BY <1>2, <2>3, SecretConstants
  <2>4. CASE d # c
    BY <1>4, <1>6, <2>1, <2>2, <2>4
  <2> QED
    BY <2>3, <2>4
<1> QED
  BY <1>2, <1>3, <1>4, <1>5, <1>9, <1>10

LEMMA WritesManifestIsRight ==
  ASSUME SecretsInv, NEW c \in SecretCallers, WritesManifest(c)
  PROVE  SecretsInv'
<1>1. call[c].at = "writes" /\ c # Start
  BY SecretConstants DEF WritesManifest
<1>2. /\ SecretsTypeOK /\ c \in Actors /\ scope \in {"domain", "attachment"} /\ IsChanging(c)
      /\ call[c].known \subseteq SecretKeys /\ Names(c) \subseteq SecretKeys
      /\ call[c].op \in {"set", "delete"} /\ (call[c].alone => EntriesAreSet(c))
  BY <1>1, ChangesInPass
<1>3. UNCHANGED <<scope, plain, entry, env, inode, up>> /\ entry \in Maps
  BY <1>2 DEF WritesManifest, SecretsTypeOK
<1>4. ASSUME UNCHANGED manifest, GivesUpSet(c), Fails PROVE SecretsInv'
  BY <1>1, <1>3, <1>4, GivesUpIsRight
<1>5. ASSUME manifest' = Rewritten(c), Succeeds(c), UNCHANGED losses PROVE SecretsInv'
  <2>1. /\ OneCall(c) /\ call'[c] = NoCall /\ OwnIsRight(c)'
        /\ settled' \in [SecretKeys -> 0..Unknown]
        /\ OverlapsAreSeen' /\ ExpectsSettled'
    BY <1>2, <1>3, <1>5, SucceedsSettles
  <2>2. \A k \in SecretKeys :
           settled'[k] = IF call[c].alone /\ k \in Names(c) THEN Target(c, k) ELSE settled[k]
    BY <1>2, <1>3, <1>5, SucceedsSettles
  <2>3. /\ FreshIsNew' /\ (\A d \in SecretCallers : CallIsFormed(d)') /\ StartIsFormed'
        /\ (\A d \in Actors : call[d].at # "undoes" => call[d].fresh \cap call[d].known = {})'
        /\ up /\ call'[Start] = NoCall
    BY <1>1, <1>3, <2>1, OthersAreKept
  <2>4. manifest' \subseteq SecretKeys
    BY <1>2, <1>5 DEF Rewritten
  <2>5. SecretsTypeOK'
    <3>1. call' \in [Actors -> SecretCall]
      BY <2>1 DEF OneCall
    <3> QED
      BY <1>2, <1>3, <1>5, <2>1, <2>3, <2>4, <3>1 DEF SecretsTypeOK
  <2>6. \A d \in SecretCallers \ {c} : call'[d] = call[d] /\ Names(d)' = Names(d)
    BY <2>1, SecretConstants DEF OneCall, Names
  <2>7. IsChanging(c) /\ scope = "attachment" /\ ~ call[c].alone =>
           \A k \in SecretKeys : settled[k] = Unknown
    BY DEF SecretsInv, OverlapsAreSeen
  <2>8. scope = "attachment" /\ call[c].alone => call[c].known = manifest
    BY <1>1, <1>2 DEF EntriesAreSet
  <2>9. SettledIsStored'
    <3> SUFFICES ASSUME NEW k \in SecretKeys, settled'[k] # Unknown
                 PROVE  ShownAs(k, settled[k])'
      BY DEF SettledIsStored
    <3>1. CASE call[c].alone /\ k \in Names(c)
      <4>1. settled'[k] = Target(c, k)
        BY <2>2, <3>1
      <4>2. entry[k] = Target(c, k)
        BY <1>1, <1>2, <3>1 DEF EntriesAreSet, Target
      <4>3. scope = "attachment" =>
               settled'[k] = IF k \in manifest' THEN entry[k] ELSE 0
        BY <1>2, <1>5, <3>1, <4>1, <4>2 DEF Rewritten, Target
      <4> QED
        BY <1>2, <1>3, <4>1, <4>2, <4>3 DEF ShownAs
    <3>2. CASE ~ (call[c].alone /\ k \in Names(c))
      <4>1. settled'[k] = settled[k]
        BY <2>2, <3>2
      <4>2. ShownAs(k, settled[k])
        BY <2>3, <4>1 DEF SecretsInv, SettledIsStored
      <4>3. scope = "attachment" => call[c].alone /\ k \notin Names(c)
        BY <1>2, <2>7, <3>2, <4>1
      <4>4. scope = "attachment" => (k \in manifest' <=> k \in manifest)
        BY <1>2, <1>5, <2>8, <4>3 DEF Rewritten
      <4>5. CASE scope = "domain"
        BY <1>3, <4>1, <4>2, <4>5 DEF ShownAs
      <4>6. CASE scope = "attachment"
        BY <1>3, <4>1, <4>2, <4>4, <4>6 DEF ShownAs
      <4> QED
        BY <1>2, <4>5, <4>6
    <3> QED
      BY <3>1, <3>2
  <2>10. ChangesProgress'
    <3>1. EntriesAreSet(Start)'
      BY <2>3, SecretConstants DEF EntriesAreSet
    <3>2. ASSUME NEW d \in SecretCallers, IsChanging(d)', call'[d].alone
          PROVE  EntriesAreSet(d)'
      <4>1. d # c
        BY <2>1, <3>2, SecretConstants DEF IsChanging
      <4>2. call'[d] = call[d] /\ Names(d)' = Names(d) /\ IsChanging(d) /\ call[d].alone
        BY <2>6, <3>2, <4>1 DEF IsChanging
      <4>3. EntriesAreSet(d) /\ scope = "domain"
        BY <1>2, <4>1, <4>2, OtherChanges DEF SecretsInv, ChangesProgress
      <4> QED
        BY <1>3, <4>2, <4>3 DEF EntriesAreSet
    <3> QED
      BY <1>2, <1>3, <3>1, <3>2 DEF ChangesProgress
  <2>11. ReadsAreRight'
    <3> SUFFICES ASSUME NEW d \in SecretCallers, call'[d].op = "get"
                 PROVE  ReadIsRight(d)'
      BY DEF ReadsAreRight
    <3>1. CASE d = c
      BY <2>1, <3>1 DEF OwnIsRight
    <3>2. CASE d # c
      <4>1. call'[d] = call[d] /\ ReadIsRight(d)
        BY <2>6, <3>2 DEF SecretsInv, ReadsAreRight
      <4>2. \A k \in SecretKeys : call[d].expect[k] # Unknown => settled[k] # Unknown
        BY DEF SecretsInv, ExpectsSettled
      <4>3. \A k \in Names(c) : settled[k] = Unknown
        BY <1>2 DEF SecretsInv, OverlapsAreSeen
      <4>4. \A k \in SecretKeys : scope = "attachment" /\ settled[k] # Unknown =>
               (k \in manifest' <=> k \in manifest)
        BY <1>2, <1>5, <2>7, <2>8, <4>3 DEF Rewritten
      <4> QED
        BY <1>3, <4>1, <4>2, <4>4 DEF ReadIsRight
    <3> QED
      BY <3>1, <3>2
  <2> QED
    BY <2>1, <2>3, <2>5, <2>9, <2>10, <2>11 DEF SecretsInv
<1> QED
  BY <1>1, <1>4, <1>5 DEF WritesManifest

-----------------------------------------------------------------------------
(* DomainSecrets: the steps in the environment file                        *)

\* There are inodes enough for a new one.
LEMMA FreeInode ==
  ASSUME env.temp = 0 \/ env.final = 0
  PROVE  (CHOOSE i \in Inodes : i \notin InUse) \in Inodes \ InUse
<1> DEFINE n == Cardinality(SecretCallers)
           files == {call[c].file : c \in SecretCallers}
           x == IF env.temp = 0 THEN env.final ELSE env.temp
<1>1. n \in Nat
  BY SecretsAssumption, FS_CardinalityType
<1>2. IsFiniteSet(files) /\ Cardinality(files) <= n
  <2> DEFINE f == [c \in SecretCallers |-> call[c].file]
  <2>1. f \in Surjection(SecretCallers, files)
    BY DEF Surjection
  <2> HIDE DEF f
  <2> QED
    BY <2>1, SecretsAssumption, FS_Surjection
<1>3. Cardinality(files) \in Nat
  BY <1>2, FS_CardinalityType
<1>4. IsFiniteSet(files \cup {x}) /\ Cardinality(files \cup {x}) <= n + 1
  <2> HIDE DEF n, files, x
  <2>1. /\ IsFiniteSet(files \cup {x})
        /\ Cardinality(files \cup {x}) =
              IF x \in files THEN Cardinality(files) ELSE Cardinality(files) + 1
    BY <1>2, FS_AddElement
  <2> QED
    BY <1>1, <1>2, <1>3, <2>1
<1>5. Cardinality(Inodes) = n + 2 /\ Inodes = 1..(n + 2)
  BY <1>1, FS_Interval DEF Inodes
<1>6. \E i \in Inodes : i \notin files \cup {x}
  <2> SUFFICES ASSUME Inodes \subseteq files \cup {x} PROVE FALSE
    OBVIOUS
  <2>1. Cardinality(Inodes) <= Cardinality(files \cup {x})
    BY <1>4, FS_Subset
  <2>2. Cardinality(files \cup {x}) \in Nat
    BY <1>4, FS_CardinalityType
  <2> QED
    BY <1>1, <1>4, <1>5, <2>1, <2>2
<1>7. \A i \in Inodes : i # 0
  BY <1>1, <1>5
<1>8. InUse \subseteq files \cup {x, 0}
  BY DEF InUse
<1>9. \E i \in Inodes : i \notin InUse
  BY <1>6, <1>7, <1>8
<1> QED
  BY <1>9

\* What a call on the environment file is.
LEMMA FormedInFile ==
  ASSUME SecretsInv, NEW c \in SecretCallers, call[c].at # "idle", scope = "file"
  PROVE  /\ SecretsTypeOK /\ c \in Actors /\ OwnIsRight(c) /\ up /\ ~ plain
         /\ call[c].op \in {"get", "set", "delete", "create"}
         /\ call[c].op \in {"get", "create"} => call[c].named = None
         /\ call[c].op # "get" => call[c].todo \subseteq Names(c) /\ IsChanging(c)
         /\ call[c].fresh \subseteq (IF call[c].op = "set" THEN Names(c) ELSE {})
         /\ call[c].fresh \cap call[c].known = {}
         /\ call[c].file # 0 => call[c].at = "fills"
         /\ call[c].at = "answers" => call[c].op = "get"
         /\ call[c].at \in {"opens", "fills", "renames"} => call[c].op \in {"set", "delete"}
         /\ call[c].at \in {"stats", "makes"} <=> call[c].op = "create"
<1>1. OwnIsRight(c) /\ SecretsTypeOK /\ c \in Actors
  BY OwnWasRight
<1>2. up /\ ~ plain
  BY SecretConstants DEF SecretsInv, StartIsFormed
<1>3. CallIsFormed(c) /\ call[c].op \in {"get", "set", "delete", "create", "move"}
  BY <1>1, CallFields DEF OwnIsRight
<1>4. /\ call[c].op \in {"get", "set", "delete", "create"}
      /\ call[c].op \in {"get", "create"} => call[c].named = None
      /\ call[c].op # "get" => call[c].todo \subseteq Names(c)
      /\ call[c].file # 0 => call[c].at = "fills"
      /\ call[c].at = "answers" => call[c].op = "get"
      /\ call[c].at \in {"opens", "fills", "renames"} => call[c].op \in {"set", "delete"}
      /\ call[c].at \in {"stats", "makes"} <=> call[c].op = "create"
  BY <1>3 DEF CallIsFormed
<1>5. call[c].fresh \subseteq (IF call[c].op = "set" THEN Names(c) ELSE {})
  BY <1>3 DEF CallIsFormed
<1>6. call[c].at # "undoes"
  BY <1>3 DEF CallIsFormed
<1>7. call[c].fresh \cap call[c].known = {}
  BY <1>1, <1>6 DEF OwnIsRight
<1>8. call[c].op # "get" => IsChanging(c)
  BY <1>4 DEF IsChanging
<1> QED
  BY <1>1, <1>2, <1>4, <1>5, <1>7, <1>8

\* A step on the environment file: who is not alone knows nothing to be settled.
FileStep(c) ==
    /\ CallStep(c)
    /\ UNCHANGED <<entry, manifest>> /\ losses' \in 0..MaxLosses
    /\ env' \in [final : {0} \cup Inodes, temp : {0} \cup Inodes]
    /\ inode' \in [Inodes -> [whole : BOOLEAN, content : Maps]]
    /\ env'.final # 0 => env'.final # env'.temp
    /\ IsChanging(c) \/ UNCHANGED <<env, inode>>
    /\ (IsChanging(c) /\ ~ call[c].alone) \/ Reads(env.final)' \subseteq Reads(env.final)

LEMMA FileStepIsRight ==
  ASSUME SecretsInv, NEW c \in SecretCallers, FileStep(c), scope = "file", OwnIsRight(c)'
  PROVE  SecretsInv'
<1>1. /\ call[c].at # "idle" /\ OneCall(c) /\ CallStep(c) /\ settled' = settled
      /\ UNCHANGED <<scope, plain, up, entry, manifest>>
  BY DEF FileStep, CallStep
<1>2. /\ FreshIsNew' /\ (\A d \in SecretCallers : CallIsFormed(d)') /\ StartIsFormed'
      /\ (\A d \in Actors : call[d].at # "undoes" => call[d].fresh \cap call[d].known = {})'
      /\ up /\ call'[Start] = NoCall
  BY <1>1, OthersAreKept
<1>3. OverlapsAreSeen' /\ ExpectsSettled'
  BY <1>1, OverlapsAreKept
<1>4. SecretsTypeOK'
  <2>1. SecretsTypeOK
    BY DEF SecretsInv
  <2>2. call' \in [Actors -> SecretCall]
    BY <1>1 DEF OneCall
  <2> QED
    BY <1>1, <1>2, <2>1, <2>2 DEF SecretsTypeOK, FileStep
<1>5. \A d \in SecretCallers \ {c} : call'[d] = call[d]
  BY <1>1, SecretConstants DEF OneCall
<1>6. SettledIsStored'
  <2> SUFFICES ASSUME NEW k \in SecretKeys, settled[k] # Unknown
               PROVE  ShownAs(k, settled[k])'
    BY <1>1 DEF SettledIsStored
  <2>1. ShownAs(k, settled[k])
    BY <1>2 DEF SecretsInv, SettledIsStored
  <2>2. ~ (IsChanging(c) /\ ~ call[c].alone)
    BY DEF SecretsInv, OverlapsAreSeen
  <2>3. Reads(env.final)' \subseteq Reads(env.final)
    BY <2>2 DEF FileStep
  <2> QED
    BY <1>1, <2>1, <2>3 DEF ShownAs
<1>7. ChangesProgress'
  <2>1. EntriesAreSet(Start)'
    BY <1>2, SecretConstants DEF EntriesAreSet
  <2>2. ASSUME NEW d \in SecretCallers, IsChanging(d)', call'[d].alone
        PROVE  FileIsPrepared(d)'
    <3>1. CASE d = c
      BY <1>1, <2>2, <3>1 DEF OwnIsRight
    <3>2. CASE d # c
      <4>1. call'[d] = call[d] /\ Names(d)' = Names(d) /\ IsChanging(d) /\ call[d].alone
        BY <1>5, <2>2, <3>2 DEF Names, IsChanging
      <4>2. FileIsPrepared(d)
        BY <4>1 DEF SecretsInv, ChangesProgress
      <4>3. UNCHANGED <<env, inode>>
        BY <3>2, <4>1, OtherChanges DEF FileStep
      <4> QED
        BY <1>1, <4>1, <4>2, <4>3 DEF FileIsPrepared, Fits, Target
    <3> QED
      BY <3>1, <3>2
  <2> QED
    BY <1>1, <2>1, <2>2 DEF ChangesProgress
<1>8. ReadsAreRight'
  <2> SUFFICES ASSUME NEW d \in SecretCallers, call'[d].op = "get"
               PROVE  ReadIsRight(d)'
    BY DEF ReadsAreRight
  <2>1. CASE d = c
    BY <2>1 DEF OwnIsRight
  <2>2. CASE d # c
    <3>1. call'[d] = call[d] /\ ReadIsRight(d)
      BY <1>5, <2>2 DEF SecretsInv, ReadsAreRight
    <3> QED
      BY <1>1, <3>1 DEF ReadIsRight
  <2> QED
    BY <2>1, <2>2
<1> QED
  BY <1>2, <1>3, <1>4, <1>6, <1>7, <1>8 DEF SecretsInv

LEMMA GoesOnInFile ==
  ASSUME SecretsInv, NEW c \in SecretCallers, scope = "file", FileStep(c), SameCall(c),
         call'[c].known = call[c].known, call'[c].todo = call[c].todo,
         call'[c].fresh = call[c].fresh,
         call'[c].at \in {"opens", "fills", "renames", "makes", "answers"},
         call'[c].at = "answers" => call[c].op = "get",
         call'[c].at \in {"opens", "fills", "renames"} => call[c].op \in {"set", "delete"},
         call'[c].at = "makes" <=> call[c].op = "create",
         call'[c].file # 0 => call'[c].at = "fills",
         call[c].op # "get" /\ call[c].alone => FileIsPrepared(c)',
         call[c].op = "get" => ReadIsRight(c)'
  PROVE  SecretsInv'
<1>1. CallStep(c) /\ call[c].at # "idle"
  BY DEF FileStep, CallStep
<1>2. Names(c)' = Names(c) /\ scope' = scope
  BY <1>1 DEF CallStep, SameCall, Names
<1>3. /\ call[c].op \in {"get", "set", "delete", "create"}
      /\ call[c].op \in {"get", "create"} => call[c].named = None
      /\ call[c].op # "get" => call[c].todo \subseteq Names(c)
      /\ call[c].fresh \subseteq (IF call[c].op = "set" THEN Names(c) ELSE {})
      /\ call[c].fresh \cap call[c].known = {}
  BY <1>1, FormedInFile
<1>4. CallIsFormed(c)'
  BY <1>2, <1>3 DEF CallIsFormed, SameCall
<1>5. OwnIsRight(c)'
  BY <1>2, <1>3, <1>4 DEF OwnIsRight, SameCall, IsChanging
<1> QED
  BY <1>5, FileStepIsRight

LEMMA ReturnsInFile ==
  ASSUME SecretsInv, NEW c \in SecretCallers, call[c].at # "idle", scope = "file", Returns(c),
         UNCHANGED <<scope, plain, up, entry, manifest>>, losses' \in 0..MaxLosses,
         env' \in [final : {0} \cup Inodes, temp : {0} \cup Inodes],
         inode' \in [Inodes -> [whole : BOOLEAN, content : Maps]],
         env'.final # 0 => env'.final # env'.temp,
         IsChanging(c) \/ UNCHANGED <<env, inode>>,
         (IsChanging(c) /\ ~ call[c].alone) \/ Reads(env.final)' \subseteq Reads(env.final)
  PROVE  SecretsInv'
<1>1. SecretsTypeOK /\ c \in Actors
  BY OwnWasRight
<1>2. OneCall(c) /\ call'[c] = NoCall /\ settled' = settled
  BY <1>1, CallReturns DEF Returns
<1>3. OwnIsRight(c)'
  BY <1>2, NoCallIsRight
<1>4. FileStep(c)
  BY <1>2 DEF FileStep, CallStep
<1> QED
  BY <1>3, <1>4, FileStepIsRight

\* The environment file and its temporary one are in use, so that they keep what they hold.
LEMMA HoldsInUse ==
  ASSUME NEW content \in [Inodes -> [whole : BOOLEAN, content : Maps]], Holds(content)
  PROVE  /\ inode' \in [Inodes -> [whole : BOOLEAN, content : Maps]]
         /\ \A i \in Inodes : i \in {env'.final, env'.temp} => inode'[i] = content[i]
<1>1. EmptyInode \in [whole : BOOLEAN, content : Maps]
  BY SecretConstants DEF EmptyInode
<1>2. inode' = [i \in Inodes |-> IF i \in InUse' THEN content[i] ELSE EmptyInode]
  BY DEF Holds
<1>3. {env'.final, env'.temp} \subseteq InUse'
  BY DEF InUse
<1> QED
  BY <1>1, <1>2, <1>3

LEMMA SecretFiles ==
  ASSUME SecretsTypeOK
  PROVE  /\ env \in [final : {0} \cup Inodes, temp : {0} \cup Inodes]
         /\ env.final \in {0} \cup Inodes /\ env.temp \in {0} \cup Inodes
         /\ inode \in [Inodes -> [whole : BOOLEAN, content : Maps]]
         /\ env.final # 0 => env.final # env.temp
         /\ entry \in Maps /\ manifest \subseteq SecretKeys
         /\ 0 \notin Inodes
<1>1. /\ env \in [final : {0} \cup Inodes, temp : {0} \cup Inodes]
      /\ inode \in [Inodes -> [whole : BOOLEAN, content : Maps]]
      /\ env.final # 0 => env.final # env.temp
      /\ entry \in Maps /\ manifest \subseteq SecretKeys
  BY DEF SecretsTypeOK
<1>2. 0 \notin Inodes
  BY SecretsAssumption, FS_CardinalityType DEF Inodes
<1> QED
  BY <1>1, <1>2

LEMMA ReadsFileIsRight ==
  ASSUME SecretsInv, NEW c \in SecretCallers, ReadsFile(c)
  PROVE  SecretsInv'
<1>1. call[c].at = "reads" /\ SecretsTypeOK
  BY OwnWasRight DEF ReadsFile
<1>2. scope = "file"
  BY <1>1, OwnWasRight DEF OwnIsRight, CallIsFormed
<1>3. /\ c \in Actors /\ OwnIsRight(c) /\ up /\ call[c].op \in {"get", "set", "delete"}
      /\ call[c].op = "get" => call[c].named = None
      /\ call[c].op # "get" => IsChanging(c)
      /\ call[c].file = 0
  BY <1>1, <1>2, FormedInFile
<1>4. /\ UNCHANGED <<scope, plain, entry, manifest, env, inode, up>>
      /\ losses' \in 0..MaxLosses
  BY <1>1, LossesAreBounded DEF ReadsFile
<1>5. /\ env \in [final : {0} \cup Inodes, temp : {0} \cup Inodes]
      /\ inode \in [Inodes -> [whole : BOOLEAN, content : Maps]]
      /\ env.final # 0 => env.final # env.temp
      /\ env.final \in {0} \cup Inodes
  BY <1>1, SecretFiles
<1>6. Reads(env.final)' = Reads(env.final)
  BY <1>4 DEF Reads
<1>7. CASE Returns(c)
  BY <1>1, <1>2, <1>4, <1>5, <1>6, <1>7, ReturnsInFile
<1>8. ASSUME NEW content \in Reads(env.final), settled' = settled,
             call' = [call EXCEPT
                    ![c].seen = [k \in SecretKeys |->
                        IF k \notin Names(c) THEN content[k]
                        ELSE IF call[c].op = "delete" THEN 0 ELSE call[c].named[k]],
                    ![c].at = IF call[c].op = "get" THEN "answers" ELSE "opens"]
      PROVE  SecretsInv'
  <2> DEFINE seen == [k \in SecretKeys |->
                        IF k \notin Names(c) THEN content[k]
                        ELSE IF call[c].op = "delete" THEN 0 ELSE call[c].named[k]]
             at == IF call[c].op = "get" THEN "answers" ELSE "opens"
  <2>1. content \in Maps
    BY <1>5, SecretConstants DEF Reads
  <2>2. seen \in Maps /\ at \in SecretPlaces
    <3>1. call[c].named \in Maps /\ 0 \in 0..ValueCount
      BY <1>1, <1>3, CallFields, SecretsAssumption
    <3> QED
      BY <2>1, <3>1 DEF Maps, SecretPlaces
  <2>3. \A k \in SecretKeys : seen[k] = IF k \notin Names(c) THEN content[k] ELSE Target(c, k)
    BY DEF Target
  <2>4. call' = [call EXCEPT ![c].seen = seen, ![c].at = at]
    BY <1>8
  <2>5. /\ at = "answers" <=> call[c].op = "get"
        /\ at = "opens" <=> call[c].op # "get"
    OBVIOUS
  <2> HIDE DEF seen, at
  <2>6. /\ OneCall(c) /\ SameCall(c) /\ call'[c].at = at /\ call'[c].known = call[c].known
        /\ call'[c].todo = call[c].todo /\ call'[c].fresh = call[c].fresh
        /\ call'[c].seen = seen /\ call'[c].file = 0
    BY <1>1, <1>3, <2>2, <2>4, CallReads
  <2>7. FileStep(c)
    BY <1>1, <1>4, <1>5, <1>6, <1>8, <2>6 DEF FileStep, CallStep
  <2>8. \A k \in SecretKeys : settled[k] # Unknown => content[k] = settled[k]
    BY <1>2, <1>3 DEF SecretsInv, SettledIsStored, ShownAs
  <2>9. FileIsPrepared(c)' \/ call[c].op = "get"
    <3> SUFFICES ASSUME call[c].op # "get" PROVE FileIsPrepared(c)'
      OBVIOUS
    <3>1. \A k \in SecretKeys : Target(c, k)' = Target(c, k)
      BY <2>6 DEF SameCall, Target
    <3>2. Names(c)' = Names(c)
      BY <2>6 DEF SameCall, Names
    <3>3. Fits(c, call[c].seen)'
      BY <1>8, <2>3, <2>6, <2>8, <3>1, <3>2 DEF Fits
    <3> QED
      BY <2>5, <2>6, <3>3 DEF FileIsPrepared
  <2>10. call[c].op = "get" => ReadIsRight(c)'
    <3> SUFFICES ASSUME call[c].op = "get" PROVE ReadIsRight(c)'
      OBVIOUS
    <3>1. Names(c) = {}
      BY <1>3, SecretConstants DEF Names
    <3>2. \A k \in SecretKeys : call[c].expect[k] # Unknown => seen[k] = call[c].expect[k]
      BY <2>3, <2>8, <3>1 DEF SecretsInv, ExpectsSettled
    <3> QED
      BY <2>5, <2>6, <3>2 DEF ReadIsRight, SameCall
  <2> QED
    BY <1>2, <1>3, <2>5, <2>6, <2>7, <2>9, <2>10, GoesOnInFile
<1> QED
  BY <1>7, <1>8 DEF ReadsFile

LEMMA AnswersFileIsRight ==
  ASSUME SecretsInv, NEW c \in SecretCallers, AnswersRead(c), scope = "file"
  PROVE  SecretsInv'
<1>1. SecretsTypeOK /\ call[c].at # "idle" /\ losses' \in 0..MaxLosses
  BY OwnWasRight, LossesAreBounded DEF AnswersRead
<1>2. UNCHANGED <<scope, plain, entry, manifest, env, inode, up>> /\ Returns(c)
  BY DEF AnswersRead
<1>3. Reads(env.final)' = Reads(env.final)
  BY <1>2 DEF Reads
<1>4. /\ env \in [final : {0} \cup Inodes, temp : {0} \cup Inodes]
      /\ inode \in [Inodes -> [whole : BOOLEAN, content : Maps]]
      /\ env.final # 0 => env.final # env.temp
  BY <1>1, SecretFiles
<1> QED
  BY <1>1, <1>2, <1>3, <1>4, ReturnsInFile

\* A change of the environment file, and what it has prepared.
LEMMA ChangesInFile ==
  ASSUME SecretsInv, NEW c \in SecretCallers,
         call[c].at \in {"opens", "fills", "renames", "stats", "makes"}
  PROVE  /\ SecretsTypeOK /\ c \in Actors /\ scope = "file" /\ IsChanging(c)
         /\ call[c].op \in {"set", "delete", "create"}
         /\ call[c].at \in {"opens", "fills", "renames"} => call[c].op \in {"set", "delete"}
         /\ call[c].at \in {"stats", "makes"} => call[c].op = "create" /\ Names(c) = {}
         /\ call[c].file # 0 => call[c].at = "fills"
         /\ call[c].alone => FileIsPrepared(c)
<1>1. OwnIsRight(c) /\ SecretsTypeOK /\ c \in Actors
  BY OwnWasRight
<1>2. scope = "file"
  BY <1>1 DEF OwnIsRight, CallIsFormed
<1>3. /\ call[c].op \in {"get", "set", "delete", "create"}
      /\ call[c].op \in {"get", "create"} => call[c].named = None
      /\ call[c].op # "get" => IsChanging(c)
      /\ call[c].file # 0 => call[c].at = "fills"
      /\ call[c].at \in {"opens", "fills", "renames"} => call[c].op \in {"set", "delete"}
      /\ call[c].at \in {"stats", "makes"} <=> call[c].op = "create"
  BY <1>2, FormedInFile
<1>4. call[c].op = "create" => Names(c) = {}
  BY <1>3, SecretConstants DEF Names
<1>5. IsChanging(c) /\ call[c].alone => FileIsPrepared(c)
  BY <1>1, <1>2 DEF OwnIsRight
<1> QED
  BY <1>1, <1>2, <1>3, <1>4, <1>5

LEMMA FinalIsRead ==
  ASSUME env'.final = env.final, env.final # 0 => inode'[env.final] = inode[env.final]
  PROVE  Reads(env.final)' = Reads(env.final)
BY DEF Reads

LEMMA OpensTempIsRight ==
  ASSUME SecretsInv, NEW c \in SecretCallers, OpensTemp(c)
  PROVE  SecretsInv'
<1> DEFINE i == IF env.temp # 0 THEN env.temp ELSE CHOOSE j \in Inodes : j \notin InUse
<1>1. call[c].at = "opens"
  BY DEF OpensTemp
<1>2. /\ SecretsTypeOK /\ c \in Actors /\ scope = "file" /\ IsChanging(c)
      /\ call[c].op \in {"set", "delete"} /\ call[c].file = 0
      /\ call[c].alone => FileIsPrepared(c)
  BY <1>1, ChangesInFile
<1>3. UNCHANGED <<scope, plain, entry, manifest, up>> /\ losses' \in 0..MaxLosses
  BY <1>2, LossesAreBounded DEF OpensTemp
<1>4. /\ env \in [final : {0} \cup Inodes, temp : {0} \cup Inodes]
      /\ env.final \in {0} \cup Inodes /\ env.temp \in {0} \cup Inodes
      /\ inode \in [Inodes -> [whole : BOOLEAN, content : Maps]]
      /\ env.final # 0 => env.final # env.temp
      /\ 0 \notin Inodes
  BY <1>2, SecretFiles
<1>5. i \in Inodes /\ i # env.final
  <2>1. CASE env.temp # 0
    BY <1>4, <2>1
  <2>2. CASE env.temp = 0
    BY <2>2, FreeInode DEF InUse
  <2> QED
    BY <2>1, <2>2
<1>6. ASSUME UNCHANGED <<env, inode>>, Returns(c) PROVE SecretsInv'
  <2>1. Reads(env.final)' = Reads(env.final)
    BY <1>6 DEF Reads
  <2> QED
    BY <1>1, <1>2, <1>3, <1>4, <1>6, <2>1, ReturnsInFile
<1> HIDE DEF i
<1>7. ASSUME env' = [env EXCEPT !.temp = i],
             inode' = [inode EXCEPT ![i] = [whole |-> FALSE, content |-> None]],
             call' = [call EXCEPT ![c].at = "fills", ![c].file = i], settled' = settled
      PROVE  SecretsInv'
  <2>1. /\ OneCall(c) /\ SameCall(c) /\ call'[c].at = "fills" /\ call'[c].known = call[c].known
        /\ call'[c].todo = call[c].todo /\ call'[c].fresh = call[c].fresh
        /\ call'[c].seen = call[c].seen /\ call'[c].file = i
    BY <1>2, <1>5, <1>7, CallOpens
  <2>2. /\ env' \in [final : {0} \cup Inodes, temp : {0} \cup Inodes]
        /\ env'.final = env.final /\ env'.temp = i
    BY <1>4, <1>5, <1>7
  <2>3. /\ inode' \in [Inodes -> [whole : BOOLEAN, content : Maps]]
        /\ \A j \in Inodes \ {i} : inode'[j] = inode[j]
        /\ ~ inode'[i].whole
    <3>1. [whole |-> FALSE, content |-> None] \in [whole : BOOLEAN, content : Maps]
      BY SecretConstants
    <3> QED
      BY <1>4, <1>5, <1>7, <3>1
  <2>4. Reads(env.final)' = Reads(env.final)
    BY <1>4, <1>5, <2>2, <2>3, FinalIsRead
  <2>5. FileStep(c)
    BY <1>1, <1>2, <1>3, <1>5, <1>7, <2>1, <2>2, <2>3, <2>4 DEF FileStep, CallStep
  <2>6. call[c].alone => FileIsPrepared(c)'
    <3> SUFFICES ASSUME call[c].alone PROVE FileIsPrepared(c)'
      OBVIOUS
    <3>1. Fits(c, call[c].seen)
      BY <1>1, <1>2 DEF FileIsPrepared
    <3>2. Fits(c, call[c].seen)'
      BY <1>7, <2>1, <3>1 DEF Fits, Target, SameCall, Names
    <3> QED
      BY <1>4, <1>5, <2>1, <2>2, <2>3, <3>2 DEF FileIsPrepared
  <2> QED
    BY <1>2, <2>1, <2>5, <2>6, GoesOnInFile
<1> QED
  BY <1>6, <1>7 DEF OpensTemp, i

LEMMA FillsTempIsRight ==
  ASSUME SecretsInv, NEW c \in SecretCallers, FillsTemp(c)
  PROVE  SecretsInv'
<1>1. call[c].at = "fills"
  BY DEF FillsTemp
<1>2. /\ SecretsTypeOK /\ c \in Actors /\ scope = "file" /\ IsChanging(c)
      /\ call[c].op \in {"set", "delete"}
      /\ call[c].alone => FileIsPrepared(c)
  BY <1>1, ChangesInFile
<1>3. UNCHANGED <<scope, plain, entry, manifest, up>> /\ losses' \in 0..MaxLosses
  BY <1>2, LossesAreBounded DEF FillsTemp
<1>4. /\ env \in [final : {0} \cup Inodes, temp : {0} \cup Inodes]
      /\ env.final \in {0} \cup Inodes /\ env.temp \in {0} \cup Inodes
      /\ inode \in [Inodes -> [whole : BOOLEAN, content : Maps]]
      /\ env.final # 0 => env.final # env.temp
      /\ 0 \notin Inodes
  BY <1>2, SecretFiles
<1>5. ASSUME RemovesTemp, Returns(c), Holds(inode) PROVE SecretsInv'
  <2>1. /\ env' \in [final : {0} \cup Inodes, temp : {0} \cup Inodes]
        /\ env'.final = env.final /\ env'.temp = 0
    BY <1>4, <1>5 DEF RemovesTemp
  <2>2. /\ inode' \in [Inodes -> [whole : BOOLEAN, content : Maps]]
        /\ env.final # 0 => inode'[env.final] = inode[env.final]
    BY <1>4, <1>5, <2>1, HoldsInUse
  <2>3. Reads(env.final)' = Reads(env.final)
    BY <2>1, <2>2, FinalIsRead
  <2> QED
    BY <1>1, <1>2, <1>3, <1>5, <2>1, <2>2, <2>3, ReturnsInFile
<1>6. ASSUME call' = [call EXCEPT ![c].at = "renames", ![c].seen = None, ![c].file = 0],
             UNCHANGED <<env, settled>>,
             Holds([inode EXCEPT ![call[c].file] =
                       IF Shared(c) THEN [whole |-> FALSE, content |-> None]
                       ELSE [whole |-> TRUE, content |-> call[c].seen]])
      PROVE  SecretsInv'
  <2> DEFINE filled == IF Shared(c) THEN [whole |-> FALSE, content |-> None]
                       ELSE [whole |-> TRUE, content |-> call[c].seen]
             content == [inode EXCEPT ![call[c].file] = filled]
  <2>1. /\ OneCall(c) /\ SameCall(c) /\ call'[c].at = "renames"
        /\ call'[c].known = call[c].known /\ call'[c].todo = call[c].todo
        /\ call'[c].fresh = call[c].fresh /\ call'[c].file = 0
    BY <1>2, <1>6, CallFills
  <2>2. filled \in [whole : BOOLEAN, content : Maps]
    BY <1>2, CallFields, SecretConstants
  <2>3. content \in [Inodes -> [whole : BOOLEAN, content : Maps]]
    <3> HIDE DEF filled
    <3> QED
      BY <1>4, <2>2
  <2>4. /\ inode' \in [Inodes -> [whole : BOOLEAN, content : Maps]]
        /\ \A i \in Inodes : i \in {env'.final, env'.temp} => inode'[i] = content[i]
    <3>1. Holds(content)
      BY <1>6
    <3> HIDE DEF content
    <3> QED
      BY <2>3, <3>1, HoldsInUse
  <2>5. call[c].alone =>
          /\ env.temp # 0 /\ call[c].file = env.temp /\ ~ inode[env.temp].whole
          /\ Fits(c, call[c].seen)
    BY <1>1, <1>2 DEF FileIsPrepared
  <2>6. call[c].alone => Reads(env.final)' = Reads(env.final)
    <3> SUFFICES ASSUME call[c].alone PROVE Reads(env.final)' = Reads(env.final)
      OBVIOUS
    <3>1. env.final # 0 => content[env.final] = inode[env.final]
      BY <1>4, <2>5
    <3>2. env.final # 0 => inode'[env.final] = inode[env.final]
      BY <1>4, <1>6, <2>4, <3>1
    <3> QED
      BY <1>6, <3>2, FinalIsRead
  <2>7. FileStep(c)
    BY <1>1, <1>2, <1>3, <1>4, <1>6, <2>1, <2>4, <2>6 DEF FileStep, CallStep
  <2>8. call[c].alone => ~ Shared(c)
    <3> SUFFICES ASSUME call[c].alone, NEW d \in SecretCallers \ {c}, call[d].at = "fills"
                 PROVE  FALSE
      BY <2>5 DEF Shared
    <3>1. IsChanging(d) /\ scope # "domain"
      BY <1>2, ChangesInFile
    <3> QED
      BY <1>2, <3>1, OtherChanges
  <2>9. call[c].alone => FileIsPrepared(c)'
    <3> SUFFICES ASSUME call[c].alone PROVE FileIsPrepared(c)'
      OBVIOUS
    <3>1. filled = [whole |-> TRUE, content |-> call[c].seen]
      BY <2>8
    <3>2. env.temp \in Inodes /\ content[env.temp] = filled
      BY <1>4, <2>5
    <3>3. inode'[env.temp] = filled
      BY <1>6, <2>4, <3>2
    <3>4. inode'[env.temp].whole /\ inode'[env.temp].content = call[c].seen
      BY <3>1, <3>3
    <3>5. env' = env
      BY <1>6
    <3>6. Fits(c, inode[env.temp].content)'
      BY <1>6, <2>1, <2>5, <3>4, <3>5 DEF Fits, Target, SameCall, Names
    <3> QED
      BY <2>1, <2>5, <3>4, <3>5, <3>6 DEF FileIsPrepared
  <2> QED
    BY <1>2, <2>1, <2>7, <2>9, GoesOnInFile
<1> QED
  BY <1>5, <1>6 DEF FillsTemp

\* A call that names no key settles nothing when it succeeds.
LEMMA SucceedsOfNothing ==
  ASSUME SecretsTypeOK, NEW c \in Actors, Names(c) = {}, Succeeds(c)
  PROVE  Returns(c)
<1>1. settled \in [SecretKeys -> 0..Unknown]
  BY DEF SecretsTypeOK
<1>2. settled' = [k \in SecretKeys |-> settled[k]]
  BY DEF Succeeds
<1> QED
  BY <1>1, <1>2 DEF Succeeds, Returns

LEMMA StatsFileIsRight ==
  ASSUME SecretsInv, NEW c \in SecretCallers, StatsFile(c)
  PROVE  SecretsInv'
<1>1. call[c].at = "stats"
  BY DEF StatsFile
<1>2. /\ SecretsTypeOK /\ c \in Actors /\ scope = "file" /\ IsChanging(c)
      /\ call[c].op = "create" /\ Names(c) = {} /\ call[c].file = 0
  BY <1>1, ChangesInFile
<1>3. /\ UNCHANGED <<scope, plain, entry, manifest, env, inode, up>>
      /\ losses' \in 0..MaxLosses
  BY <1>2, LossesAreBounded DEF StatsFile
<1>4. /\ env \in [final : {0} \cup Inodes, temp : {0} \cup Inodes]
      /\ inode \in [Inodes -> [whole : BOOLEAN, content : Maps]]
      /\ env.final # 0 => env.final # env.temp
  BY <1>2, SecretFiles
<1>5. Reads(env.final)' = Reads(env.final)
  BY <1>3 DEF Reads
<1>6. CASE env.final # 0
  <2>1. Returns(c)
    BY <1>2, <1>6, SucceedsOfNothing DEF StatsFile
  <2> QED
    BY <1>1, <1>2, <1>3, <1>4, <1>5, <2>1, ReturnsInFile
<1>7. CASE env.final = 0
  <2>1. To(c, "makes") /\ settled' = settled /\ "makes" \in SecretPlaces
    BY <1>7 DEF StatsFile, SecretPlaces
  <2>2. /\ OneCall(c) /\ SameCall(c) /\ call'[c].at = "makes" /\ call'[c].known = call[c].known
        /\ call'[c].todo = call[c].todo /\ call'[c].fresh = call[c].fresh
        /\ call'[c].file = 0
    BY <1>2, <2>1, CallGoesTo
  <2>3. FileStep(c)
    BY <1>1, <1>2, <1>3, <1>4, <1>5, <2>1, <2>2 DEF FileStep, CallStep
  <2>4. FileIsPrepared(c)'
    BY <1>3, <1>7, <2>2 DEF FileIsPrepared
  <2> QED
    BY <1>2, <2>2, <2>3, <2>4, GoesOnInFile
<1> QED
  BY <1>6, <1>7

LEMMA MakesFileIsRight ==
  ASSUME SecretsInv, NEW c \in SecretCallers, MakesFile(c)
  PROVE  SecretsInv'
<1> DEFINE i == IF env.final # 0 THEN env.final ELSE CHOOSE j \in Inodes : j \notin InUse
<1>1. call[c].at = "makes"
  BY DEF MakesFile
<1>2. /\ SecretsTypeOK /\ c \in Actors /\ scope = "file" /\ IsChanging(c)
      /\ call[c].op = "create" /\ Names(c) = {} /\ call[c].file = 0
      /\ call[c].alone => FileIsPrepared(c)
  BY <1>1, ChangesInFile
<1>3. UNCHANGED <<scope, plain, entry, manifest, up>> /\ losses' \in 0..MaxLosses
  BY <1>2, LossesAreBounded DEF MakesFile
<1>4. /\ env \in [final : {0} \cup Inodes, temp : {0} \cup Inodes]
      /\ env.final \in {0} \cup Inodes /\ env.temp \in {0} \cup Inodes
      /\ inode \in [Inodes -> [whole : BOOLEAN, content : Maps]]
      /\ env.final # 0 => env.final # env.temp
      /\ 0 \notin Inodes
  BY <1>2, SecretFiles
<1>5. i \in Inodes /\ i # env.temp
  <2>1. CASE env.final # 0
    BY <1>4, <2>1
  <2>2. CASE env.final = 0
    BY <2>2, FreeInode DEF InUse
  <2> QED
    BY <2>1, <2>2
<1>6. ASSUME UNCHANGED <<env, inode>>, Returns(c) PROVE SecretsInv'
  <2>1. Reads(env.final)' = Reads(env.final)
    BY <1>6 DEF Reads
  <2> QED
    BY <1>1, <1>2, <1>3, <1>4, <1>6, <2>1, ReturnsInFile
<1>7. call[c].alone => env.final = 0
  BY <1>1, <1>2 DEF FileIsPrepared
<1> HIDE DEF i
<1>8. ASSUME env' = [env EXCEPT !.final = i], inode' = [inode EXCEPT ![i] = EmptyInode],
             Succeeds(c)
      PROVE  SecretsInv'
  <2>1. Returns(c)
    BY <1>2, <1>8, SucceedsOfNothing
  <2>2. /\ env' \in [final : {0} \cup Inodes, temp : {0} \cup Inodes]
        /\ env'.final = i /\ env'.temp = env.temp
    BY <1>4, <1>5, <1>8
  <2>3. EmptyInode \in [whole : BOOLEAN, content : Maps] /\ EmptyInode.whole
        /\ EmptyInode.content = None
    BY SecretConstants DEF EmptyInode
  <2>4. inode' \in [Inodes -> [whole : BOOLEAN, content : Maps]] /\ inode'[i] = EmptyInode
    BY <1>4, <1>5, <1>8, <2>3
  <2>5. call[c].alone => Reads(env.final)' \subseteq Reads(env.final)
    BY <1>4, <1>5, <1>7, <2>2, <2>3, <2>4 DEF Reads
  <2> QED
    BY <1>1, <1>2, <1>3, <1>5, <2>1, <2>2, <2>4, <2>5, ReturnsInFile
<1> QED
  BY <1>6, <1>8 DEF MakesFile, i

LEMMA RenamesTempIsRight ==
  ASSUME SecretsInv, NEW c \in SecretCallers, RenamesTemp(c)
  PROVE  SecretsInv'
<1>1. call[c].at = "renames"
  BY DEF RenamesTemp
<1>2. /\ SecretsTypeOK /\ c \in Actors /\ scope = "file" /\ IsChanging(c)
      /\ call[c].op \in {"set", "delete"}
      /\ call[c].alone => FileIsPrepared(c)
  BY <1>1, ChangesInFile
<1>3. /\ UNCHANGED <<scope, plain, entry, manifest, up>> /\ losses' \in 0..MaxLosses
      /\ Holds(inode)
  BY <1>2, LossesAreBounded DEF RenamesTemp
<1>4. /\ env \in [final : {0} \cup Inodes, temp : {0} \cup Inodes]
      /\ env.final \in {0} \cup Inodes /\ env.temp \in {0} \cup Inodes
      /\ inode \in [Inodes -> [whole : BOOLEAN, content : Maps]]
      /\ env.final # 0 => env.final # env.temp
      /\ entry \in Maps /\ manifest \subseteq SecretKeys
      /\ 0 \notin Inodes
  BY <1>2, SecretFiles
<1>5. /\ inode' \in [Inodes -> [whole : BOOLEAN, content : Maps]]
      /\ \A i \in Inodes : i \in {env'.final, env'.temp} => inode'[i] = inode[i]
  BY <1>3, <1>4, HoldsInUse
<1>6. ASSUME RemovesTemp, Returns(c) PROVE SecretsInv'
  <2>1. /\ env' \in [final : {0} \cup Inodes, temp : {0} \cup Inodes]
        /\ env'.final = env.final /\ env'.temp = 0
    BY <1>4, <1>6 DEF RemovesTemp
  <2>2. Reads(env.final)' = Reads(env.final)
    BY <1>4, <1>5, <2>1, FinalIsRead
  <2> QED
    BY <1>1, <1>2, <1>3, <1>5, <1>6, <2>1, <2>2, ReturnsInFile
<1>7. ASSUME env.temp # 0, env' = [final |-> env.temp, temp |-> 0], Succeeds(c)
      PROVE  SecretsInv'
  <2>1. /\ OneCall(c) /\ call'[c] = NoCall /\ OwnIsRight(c)'
        /\ settled' \in [SecretKeys -> 0..Unknown]
        /\ OverlapsAreSeen' /\ ExpectsSettled'
    BY <1>2, <1>3, <1>7, SucceedsSettles
  <2>2. \A k \in SecretKeys :
           settled'[k] = IF call[c].alone /\ k \in Names(c) THEN Target(c, k) ELSE settled[k]
    BY <1>2, <1>3, <1>7, SucceedsSettles
  <2>3. /\ FreshIsNew' /\ (\A d \in SecretCallers : CallIsFormed(d)') /\ StartIsFormed'
        /\ (\A d \in Actors : call[d].at # "undoes" => call[d].fresh \cap call[d].known = {})'
        /\ up /\ call'[Start] = NoCall
    BY <1>1, <1>3, <2>1, OthersAreKept
  <2>4. /\ env' \in [final : {0} \cup Inodes, temp : {0} \cup Inodes]
        /\ env'.final = env.temp /\ env'.temp = 0 /\ env'.final # env'.temp
    BY <1>4, <1>7
  <2>5. SecretsTypeOK'
    <3>1. call' \in [Actors -> SecretCall]
      BY <2>1 DEF OneCall
    <3> QED
      BY <1>2, <1>3, <1>5, <2>1, <2>3, <2>4, <3>1 DEF SecretsTypeOK
  <2>6. \A d \in SecretCallers \ {c} : call'[d] = call[d] /\ Names(d)' = Names(d)
    BY <2>1, SecretConstants DEF OneCall, Names
  <2>7. ~ call[c].alone => \A k \in SecretKeys : settled[k] = Unknown
    BY <1>2 DEF SecretsInv, OverlapsAreSeen
  <2>8. call[c].alone => inode[env.temp].whole /\ Fits(c, inode[env.temp].content)
    BY <1>1, <1>2 DEF FileIsPrepared
  <2>9. SettledIsStored'
    <3> SUFFICES ASSUME NEW k \in SecretKeys, settled'[k] # Unknown
                 PROVE  ShownAs(k, settled[k])'
      BY DEF SettledIsStored
    <3>1. call[c].alone
      BY <2>2, <2>7
    <3>2. settled'[k] = inode[env.temp].content[k]
      BY <2>2, <2>8, <3>1 DEF Fits
    <3>3. env'.final # 0 /\ inode'[env'.final] = inode[env.temp]
      BY <1>4, <1>5, <1>7, <2>4
    <3>4. Reads(env.final)' = {inode[env.temp].content}
      BY <2>8, <3>1, <3>3 DEF Reads
    <3> QED
      BY <1>2, <1>3, <3>2, <3>4 DEF ShownAs
  <2>10. ChangesProgress'
    <3>1. EntriesAreSet(Start)'
      BY <2>3, SecretConstants DEF EntriesAreSet
    <3>2. ASSUME NEW d \in SecretCallers, IsChanging(d)', call'[d].alone
          PROVE  FALSE
      <4>1. d # c
        BY <2>1, <3>2, SecretConstants DEF IsChanging
      <4>2. IsChanging(d) /\ call[d].alone
        BY <2>6, <3>2, <4>1 DEF IsChanging
      <4> QED
        BY <1>2, <4>1, <4>2, OtherChanges
    <3> QED
      BY <3>1, <3>2 DEF ChangesProgress
  <2>11. ReadsAreRight'
    <3> SUFFICES ASSUME NEW d \in SecretCallers, call'[d].op = "get"
                 PROVE  ReadIsRight(d)'
      BY DEF ReadsAreRight
    <3>1. CASE d = c
      BY <2>1, <3>1 DEF OwnIsRight
    <3>2. CASE d # c
      <4>1. call'[d] = call[d] /\ ReadIsRight(d)
        BY <2>6, <3>2 DEF SecretsInv, ReadsAreRight
      <4> QED
        BY <1>2, <1>3, <4>1 DEF ReadIsRight
    <3> QED
      BY <3>1, <3>2
  <2> QED
    BY <2>1, <2>3, <2>5, <2>9, <2>10, <2>11 DEF SecretsInv
<1> QED
  BY <1>6, <1>7 DEF RenamesTemp

-----------------------------------------------------------------------------
(* DomainSecrets: calls that begin                                         *)

\* Who was there before, when a change begins.
LEMMA OthersAtBegin ==
  ASSUME SecretsInv, NEW c \in SecretCallers, NEW op, NEW named, NEW at,
         BeginsChange(c, op, named, at), NEW d \in Actors \ {c}
  PROVE  LET keys == {k \in SecretKeys : named[k] # 0}
         IN  /\ call'[d] \in SecretCall
             /\ call'[d].at = call[d].at /\ call'[d].op = call[d].op
             /\ call'[d].named = call[d].named /\ call'[d].known = call[d].known
             /\ call'[d].todo = call[d].todo /\ call'[d].fresh = call[d].fresh
             /\ call'[d].seen = call[d].seen /\ call'[d].file = call[d].file
             /\ call'[d].alone <=> call[d].alone /\ d \notin Meets(keys)
             /\ \A k \in SecretKeys : call'[d].expect[k] =
                   IF k \in Disturbed(keys) THEN Unknown ELSE call[d].expect[k]
             /\ call[d] = NoCall => call'[d] = NoCall
<1> DEFINE keys == {k \in SecretKeys : named[k] # 0}
           alone == call[d].alone /\ d \notin Meets(keys)
           expect == [k \in SecretKeys |-> IF k \in Disturbed(keys) THEN Unknown
                                           ELSE call[d].expect[k]]
           new == [call[d] EXCEPT !.alone = alone, !.expect = expect]
<1>1. call[d] \in SecretCall /\ call[d].expect \in [SecretKeys -> 0..Unknown]
  BY OwnWasRight, CallFields
<1>2. call'[d] = new
  BY <1>1 DEF BeginsChange
<1>3. alone \in BOOLEAN /\ expect \in [SecretKeys -> 0..Unknown]
  BY <1>1, SecretsAssumption DEF Unknown
<1>4. \A k \in SecretKeys : expect[k] = IF k \in Disturbed(keys) THEN Unknown
                                        ELSE call[d].expect[k]
  OBVIOUS
<1>5. call[d] = NoCall => alone = TRUE /\ expect = NoCall.expect
  <2> SUFFICES ASSUME call[d] = NoCall PROVE alone = TRUE /\ expect = NoCall.expect
    OBVIOUS
  <2>1. d \notin Meets(keys) /\ call[d].alone = TRUE
    BY SecretConstants DEF Meets, Changing, Active
  <2>2. \A k \in SecretKeys : expect[k] = NoCall.expect[k]
    BY <1>4, SecretConstants
  <2> QED
    BY <1>1, <1>3, <2>1, <2>2
<1> HIDE DEF alone, expect
<1>6. /\ new \in SecretCall /\ new.at = call[d].at /\ new.op = call[d].op
      /\ new.named = call[d].named /\ new.known = call[d].known /\ new.todo = call[d].todo
      /\ new.fresh = call[d].fresh /\ new.seen = call[d].seen /\ new.file = call[d].file
      /\ new.alone = alone /\ new.expect = expect
  BY <1>1, <1>3 DEF SecretCall
<1>7. call[d] = NoCall => new = NoCall
  <2> SUFFICES ASSUME call[d] = NoCall PROVE new = NoCall
    OBVIOUS
  <2>1. NoCall = [NoCall EXCEPT !.alone = NoCall.alone, !.expect = NoCall.expect]
    BY SecretConstants DEF SecretCall
  <2> QED
    BY <1>5, <2>1, SecretConstants
<1> HIDE DEF new
<1> QED
  BY <1>2, <1>4, <1>6, <1>7 DEF alone

LEMMA BeginsChangeIsRight ==
  ASSUME SecretsInv, NEW c \in SecretCallers, up,
         NEW op \in {"set", "delete", "create"}, NEW named \in Maps, NEW at,
         op = "set" => at = (IF scope = "file" THEN "reads" ELSE "lists"),
         op = "delete" => at = (IF scope = "file" THEN "reads" ELSE "removes"),
         op = "create" => at = "stats" /\ scope = "file" /\ named = None,
         BeginsChange(c, op, named, at),
         UNCHANGED <<scope, plain, entry, manifest, env, inode, up, losses>>
  PROVE  SecretsInv'
<1> DEFINE keys == {k \in SecretKeys : named[k] # 0}
           M == Meets(keys)
           D == Disturbed(keys)
           single == M = {}
           new == [NoCall EXCEPT !.at = at, !.op = op, !.named = named, !.alone = single]
<1>1. SecretsTypeOK /\ c \in Actors /\ SecretCallers \subseteq Actors /\ Start # c
      /\ Start \in Actors
  BY OwnWasRight, SecretConstants
<1>2. at \in SecretPlaces \ {"idle"}
  BY DEF SecretPlaces
<1>3. /\ new \in SecretCall /\ new.at = at /\ new.op = op /\ new.named = named
      /\ new.alone <=> M = {}
      /\ new.known = {} /\ new.todo = {} /\ new.fresh = {}
      /\ new.seen = None /\ new.file = 0 /\ new.expect = NoCall.expect
  <2>1. single \in BOOLEAN /\ at \in SecretPlaces /\ (single <=> M = {})
        /\ op \in {"get", "set", "delete", "create", "move"}
    BY <1>2
  <2> HIDE DEF single
  <2>2. /\ new \in SecretCall /\ new.at = at /\ new.op = op /\ new.named = named
        /\ new.alone = single /\ new.known = {} /\ new.todo = {} /\ new.fresh = {}
        /\ new.seen = None /\ new.file = 0 /\ new.expect = NoCall.expect
    BY <2>1, SecretConstants DEF SecretCall
  <2> HIDE DEF new
  <2> QED
    BY <2>1, <2>2
<1>4. call'[c] = new /\ call[c] = NoCall
  BY <1>1 DEF BeginsChange
<1> HIDE DEF new
<1>5. \A d \in Actors \ {c} :
         /\ call'[d] \in SecretCall
         /\ call'[d].at = call[d].at /\ call'[d].op = call[d].op
         /\ call'[d].named = call[d].named /\ call'[d].known = call[d].known
         /\ call'[d].todo = call[d].todo /\ call'[d].fresh = call[d].fresh
         /\ call'[d].seen = call[d].seen /\ call'[d].file = call[d].file
         /\ call'[d].alone <=> call[d].alone /\ d \notin M
         /\ \A k \in SecretKeys : call'[d].expect[k] =
                   IF k \in D THEN Unknown ELSE call[d].expect[k]
         /\ call[d] = NoCall => call'[d] = NoCall
  BY OthersAtBegin
<1>6. \A k \in SecretKeys : settled'[k] = IF k \in D THEN Unknown ELSE settled[k]
  BY DEF BeginsChange
<1>7. \A k \in SecretKeys : k \in keys => k \in D
  BY DEF Disturbed
<1>8. scope # "domain" /\ M # {} => \A k \in SecretKeys : k \in D
  BY DEF Disturbed
<1>9. \A d \in Actors : d \in M <=> IsChanging(d) /\ (scope # "domain" \/ Names(d) \cap keys # {})
  BY DEF Meets, Changing, Active, IsChanging
<1>10. Names(c)' = keys
  BY <1>3, <1>4 DEF Names
<1>11. \A d \in Actors \ {c} : Names(d)' = Names(d) /\ (IsChanging(d)' <=> IsChanging(d))
  BY <1>5 DEF Names, IsChanging
<1>12. SecretsTypeOK'
  <2>1. call' \in [Actors -> SecretCall]
    <3>1. \A d \in Actors : call'[d] \in SecretCall
      BY <1>3, <1>4, <1>5
    <3>2. call' = [d \in Actors |-> call'[d]]
      BY DEF BeginsChange
    <3> QED
      BY <3>1, <3>2
  <2>2. settled' \in [SecretKeys -> 0..Unknown]
    <3>1. settled \in [SecretKeys -> 0..Unknown] /\ Unknown \in 0..Unknown
      BY <1>1, SecretsAssumption DEF SecretsTypeOK, Unknown
    <3>2. \A k \in SecretKeys : settled'[k] \in 0..Unknown
      BY <1>6, <3>1
    <3>3. settled' = [k \in SecretKeys |-> settled'[k]]
      BY DEF BeginsChange
    <3> QED
      BY <3>2, <3>3
  <2>3. (\A d \in Actors : call[d].at # "undoes" => call[d].fresh \cap call[d].known = {})'
    <3> SUFFICES ASSUME NEW d \in Actors, call'[d].at # "undoes"
                 PROVE  call'[d].fresh \cap call'[d].known = {}
      OBVIOUS
    <3>1. CASE d = c
      BY <1>3, <1>4, <3>1
    <3>2. CASE d # c
      <4>1. call[d].at # "undoes" => call[d].fresh \cap call[d].known = {}
        BY <1>1 DEF SecretsTypeOK
      <4> QED
        BY <1>5, <3>2, <4>1
    <3> QED
      BY <3>1, <3>2
  <2> QED
    BY <1>1, <2>1, <2>2, <2>3 DEF SecretsTypeOK
<1>13. FreshIsNew'
  BY <1>3, <1>4, <1>5 DEF SecretsInv, FreshIsNew
<1>14. ASSUME NEW d \in SecretCallers PROVE CallIsFormed(d)'
  <2>1. CASE d = c
    <3>1. named = None => keys = {}
      BY SecretConstants
    <3> QED
      BY <1>2, <1>3, <1>4, <1>10, <2>1, <3>1 DEF CallIsFormed
  <2>2. CASE d # c
    <3>1. CallIsFormed(d)
      BY DEF SecretsInv
    <3>2. /\ call'[d].at = call[d].at /\ call'[d].op = call[d].op
          /\ call'[d].named = call[d].named /\ call'[d].todo = call[d].todo
          /\ call'[d].fresh = call[d].fresh /\ call'[d].file = call[d].file
          /\ call[d] = NoCall => call'[d] = NoCall
          /\ Names(d)' = Names(d) /\ scope' = scope
      BY <1>1, <1>5, <1>11, <2>2
    <3> QED
      BY <3>1, <3>2 DEF CallIsFormed
  <2> QED
    BY <2>1, <2>2
<1>15. StartIsFormed'
  BY <1>1, <1>5, SecretConstants DEF SecretsInv, StartIsFormed
<1>16. OverlapsAreSeen'
  <2>1. ASSUME NEW d \in SecretCallers, IsChanging(d)', NEW k \in Names(d)'
        PROVE  settled'[k] = Unknown
    <3>1. CASE d = c
      BY <1>6, <1>7, <1>10, <2>1, <3>1
    <3>2. CASE d # c
      <4>1. IsChanging(d) /\ k \in Names(d)
        BY <1>1, <1>11, <2>1, <3>2
      <4>2. settled[k] = Unknown /\ k \in SecretKeys
        BY <4>1 DEF SecretsInv, OverlapsAreSeen, Names
      <4> QED
        BY <1>6, <4>2
    <3> QED
      BY <3>1, <3>2
  <2>2. ASSUME NEW d \in SecretCallers, NEW e \in SecretCallers, d # e, IsChanging(d)',
               IsChanging(e)', scope # "domain" \/ Names(d)' \cap Names(e)' # {}
        PROVE  ~ call'[d].alone
    <3>1. CASE d = c
      <4>1. e \in M
        BY <1>1, <1>9, <1>10, <1>11, <2>2, <3>1
      <4> QED
        BY <1>3, <1>4, <3>1, <4>1
    <3>2. CASE e = c
      <4>1. d \in M
        BY <1>1, <1>9, <1>10, <1>11, <2>2, <3>2
      <4> QED
        BY <1>1, <1>5, <2>2, <3>2, <4>1
    <3>3. CASE d # c /\ e # c
      <4>1. ~ call[d].alone
        BY <1>1, <1>11, <2>2, <3>3 DEF SecretsInv, OverlapsAreSeen
      <4> QED
        BY <1>1, <1>5, <3>3, <4>1
    <3> QED
      BY <3>1, <3>2, <3>3
  <2>3. ASSUME NEW d \in SecretCallers, scope # "domain", IsChanging(d)', ~ call'[d].alone,
               NEW k \in SecretKeys
        PROVE  settled'[k] = Unknown
    <3>1. CASE M # {}
      BY <1>6, <1>8, <2>3, <3>1
    <3>2. CASE M = {}
      <4>1. d # c
        BY <1>3, <1>4, <2>3, <3>2
      <4>2. IsChanging(d) /\ ~ call[d].alone
        BY <1>1, <1>5, <1>11, <2>3, <3>2, <4>1
      <4>3. settled[k] = Unknown
        BY <2>3, <4>2 DEF SecretsInv, OverlapsAreSeen
      <4> QED
        BY <1>6, <4>3
    <3> QED
      BY <3>1, <3>2
  <2> QED
    BY <2>1, <2>2, <2>3 DEF OverlapsAreSeen
<1>17. ExpectsSettled'
  <2> SUFFICES ASSUME NEW d \in SecretCallers, NEW k \in SecretKeys
               PROVE  call'[d].expect[k] \in {Unknown, settled'[k]}
    BY DEF ExpectsSettled
  <2>1. CASE d = c
    BY <1>3, <1>4, <2>1, SecretConstants
  <2>2. CASE d # c
    <3>1. call[d].expect[k] \in {Unknown, settled[k]}
      BY DEF SecretsInv, ExpectsSettled
    <3> QED
      BY <1>1, <1>5, <1>6, <2>2, <3>1
  <2> QED
    BY <2>1, <2>2
<1>18. \A k \in SecretKeys : settled'[k] # Unknown => settled'[k] = settled[k]
  BY <1>6
<1>19. SettledIsStored'
  <2> SUFFICES ASSUME NEW k \in SecretKeys, settled'[k] # Unknown
               PROVE  ShownAs(k, settled[k])'
    BY DEF SettledIsStored
  <2>1. settled'[k] = settled[k] /\ settled[k] # Unknown
    BY <1>18
  <2>2. ShownAs(k, settled[k])
    BY <2>1 DEF SecretsInv, SettledIsStored
  <2> QED
    BY <2>1, <2>2 DEF ShownAs, Reads
<1>20. ChangesProgress'
  <2>1. EntriesAreSet(Start)'
    <3>1. call'[Start] = NoCall
      BY <1>1, <1>5 DEF SecretsInv, StartIsFormed
    <3> QED
      BY <3>1, SecretConstants DEF EntriesAreSet
  <2>2. ASSUME NEW d \in SecretCallers, IsChanging(d)', call'[d].alone
        PROVE  IF scope = "file" THEN FileIsPrepared(d)' ELSE EntriesAreSet(d)'
    <3>1. CASE d = c
      <4>1. FileIsPrepared(c)' /\ EntriesAreSet(c)'
        BY <1>3, <1>4 DEF FileIsPrepared, EntriesAreSet
      <4> QED
        BY <3>1, <4>1
    <3>2. CASE d # c
      <4>1. /\ call'[d].at = call[d].at /\ call'[d].op = call[d].op
            /\ call'[d].named = call[d].named /\ call'[d].todo = call[d].todo
            /\ call'[d].known = call[d].known
            /\ call'[d].seen = call[d].seen /\ call'[d].file = call[d].file
            /\ Names(d)' = Names(d) /\ IsChanging(d) /\ call[d].alone
        BY <1>1, <1>5, <1>11, <2>2, <3>2
      <4>2. IF scope = "file" THEN FileIsPrepared(d) ELSE EntriesAreSet(d)
        BY <4>1 DEF SecretsInv, ChangesProgress
      <4>3. ASSUME EntriesAreSet(d) PROVE EntriesAreSet(d)'
        BY <4>1, <4>3 DEF EntriesAreSet
      <4>4. ASSUME FileIsPrepared(d) PROVE FileIsPrepared(d)'
        <5>1. \A k \in SecretKeys : Target(d, k)' = Target(d, k)
          BY <4>1 DEF Target
        <5>2. Fits(d, call[d].seen) => Fits(d, call[d].seen)'
          BY <1>18, <4>1, <5>1 DEF Fits
        <5>3. Fits(d, inode[env.temp].content) => Fits(d, inode[env.temp].content)'
          BY <1>18, <4>1, <5>1 DEF Fits
        <5> QED
          BY <4>1, <4>4, <5>2, <5>3 DEF FileIsPrepared
      <4> QED
        BY <4>2, <4>3, <4>4
    <3> QED
      BY <3>1, <3>2
  <2> QED
    BY <2>1, <2>2 DEF ChangesProgress
<1>21. ReadsAreRight'
  <2> SUFFICES ASSUME NEW d \in SecretCallers, call'[d].op = "get"
               PROVE  ReadIsRight(d)'
    BY DEF ReadsAreRight
  <2>1. d # c
    BY <1>3, <1>4
  <2>2. /\ call'[d].at = call[d].at /\ call'[d].op = call[d].op
        /\ call'[d].todo = call[d].todo /\ call'[d].known = call[d].known
        /\ call'[d].seen = call[d].seen
        /\ \A k \in SecretKeys : call'[d].expect[k] # Unknown =>
              call'[d].expect[k] = call[d].expect[k]
    BY <1>1, <1>5, <2>1
  <2>3. ReadIsRight(d)
    BY <2>2 DEF SecretsInv, ReadsAreRight
  <2> QED
    BY <2>2, <2>3 DEF ReadIsRight
<1> QED
  BY <1>12, <1>13, <1>14, <1>15, <1>16, <1>17, <1>19, <1>20, <1>21 DEF SecretsInv

LEMMA CallGetAllIsRight ==
  ASSUME SecretsInv, NEW c \in SecretCallers, CallGetAll(c)
  PROVE  SecretsInv'
<1> DEFINE at == IF scope = "file" THEN "reads" ELSE "lists"
           new == [NoCall EXCEPT !.at = at, !.expect = settled]
<1>1. /\ SecretsTypeOK /\ c \in Actors /\ SecretCallers \subseteq Actors /\ Start # c
      /\ Start \in Actors
  BY OwnWasRight, SecretConstants
<1>2. /\ UNCHANGED <<scope, plain, entry, manifest, env, inode, up, settled, losses>>
      /\ call' = [call EXCEPT ![c] = new] /\ up
  BY DEF CallGetAll
<1>3. /\ new \in SecretCall /\ new.at = at /\ new.op = "get" /\ new.named = None
      /\ new.alone = TRUE /\ new.known = {} /\ new.todo = {} /\ new.fresh = {}
      /\ new.seen = None /\ new.file = 0 /\ new.expect = settled
  <2>1. at \in SecretPlaces /\ settled \in [SecretKeys -> 0..Unknown]
    BY <1>1 DEF SecretPlaces, SecretsTypeOK
  <2> HIDE DEF at
  <2> QED
    BY <2>1, SecretConstants DEF SecretCall
<1> HIDE DEF new
<1>4. OneCall(c) /\ call'[c] = new
  BY <1>1, <1>2, <1>3, NewCall
<1>5. \A d \in Actors \ {c} : call'[d] = call[d] /\ Names(d)' = Names(d)
  BY <1>4 DEF OneCall, Names
<1>6. CallIsFormed(c)'
  BY <1>2, <1>3, <1>4 DEF CallIsFormed
<1>7. ASSUME NEW d \in SecretCallers, d # c PROVE CallIsFormed(d)'
  <2>1. call'[d] = call[d] /\ Names(d)' = Names(d) /\ scope' = scope
    BY <1>1, <1>2, <1>5, <1>7
  <2>2. CallIsFormed(d)
    BY DEF SecretsInv
  <2> QED
    BY <2>1, <2>2 DEF CallIsFormed
<1>8. StartIsFormed'
  BY <1>1, <1>2, <1>5, SecretConstants DEF SecretsInv, StartIsFormed
<1>9. SecretsTypeOK'
  <2>1. call' \in [Actors -> SecretCall]
    BY <1>4 DEF OneCall
  <2>2. (\A d \in Actors : call[d].at # "undoes" => call[d].fresh \cap call[d].known = {})'
    BY <1>1, <1>3, <1>4, <1>5 DEF SecretsTypeOK
  <2> QED
    BY <1>1, <1>2, <2>1, <2>2 DEF SecretsTypeOK
<1>10. FreshIsNew'
  BY <1>3, <1>4, <1>5 DEF SecretsInv, FreshIsNew
<1>11. \A d \in SecretCallers : IsChanging(d)' => d # c /\ IsChanging(d)
  BY <1>1, <1>3, <1>4, <1>5 DEF IsChanging
<1>12. OverlapsAreSeen'
  BY <1>1, <1>2, <1>5, <1>11 DEF SecretsInv, OverlapsAreSeen
<1>13. ExpectsSettled'
  BY <1>1, <1>2, <1>3, <1>4, <1>5 DEF SecretsInv, ExpectsSettled
<1>14. SettledIsStored'
  BY <1>2 DEF SecretsInv, SettledIsStored, ShownAs, Reads
<1>15. ChangesProgress'
  <2>1. EntriesAreSet(Start)'
    <3>1. EntriesAreSet(Start) /\ call'[Start] = call[Start] /\ Names(Start)' = Names(Start)
      BY <1>1, <1>5 DEF SecretsInv, ChangesProgress
    <3> QED
      BY <1>2, <3>1 DEF EntriesAreSet
  <2>2. ASSUME NEW d \in SecretCallers, IsChanging(d)', call'[d].alone
        PROVE  IF scope = "file" THEN FileIsPrepared(d)' ELSE EntriesAreSet(d)'
    <3>1. call'[d] = call[d] /\ Names(d)' = Names(d) /\ IsChanging(d) /\ call[d].alone
      BY <1>1, <1>5, <1>11, <2>2
    <3>2. IF scope = "file" THEN FileIsPrepared(d) ELSE EntriesAreSet(d)
      BY <3>1 DEF SecretsInv, ChangesProgress
    <3>3. EntriesAreSet(d) => EntriesAreSet(d)'
      BY <1>2, <3>1 DEF EntriesAreSet
    <3>4. FileIsPrepared(d) => FileIsPrepared(d)'
      BY <1>2, <3>1 DEF FileIsPrepared, Fits, Target
    <3> QED
      BY <3>2, <3>3, <3>4
  <2> QED
    BY <1>2, <2>1, <2>2 DEF ChangesProgress
<1>16. ReadsAreRight'
  <2> SUFFICES ASSUME NEW d \in SecretCallers, call'[d].op = "get"
               PROVE  ReadIsRight(d)'
    BY DEF ReadsAreRight
  <2>1. CASE d = c
    BY <1>3, <1>4, <2>1 DEF ReadIsRight
  <2>2. CASE d # c
    <3>1. call'[d] = call[d] /\ ReadIsRight(d)
      BY <1>1, <1>5, <2>2 DEF SecretsInv, ReadsAreRight
    <3> QED
      BY <1>2, <3>1 DEF ReadIsRight
  <2> QED
    BY <2>1, <2>2
<1> QED
  BY <1>6, <1>7, <1>8, <1>9, <1>10, <1>12, <1>13, <1>14, <1>15, <1>16 DEF SecretsInv

LEMMA CallBeginsIsRight ==
  ASSUME SecretsInv, NEW c \in SecretCallers,
         CallSet(c) \/ CallDelete(c) \/ CallCreateEnvFile(c)
  PROVE  SecretsInv'
<1>1. None \in Maps /\ \A k \in SecretKeys : [None EXCEPT ![k] = 1] \in Maps
  BY SecretConstants, SecretsAssumption DEF Maps
<1>2. CASE CallSet(c)
  <2>1. PICK named \in Maps :
           BeginsChange(c, "set", named, IF scope = "file" THEN "reads" ELSE "lists")
    BY <1>2 DEF CallSet
  <2> QED
    BY <1>2, <2>1, BeginsChangeIsRight DEF CallSet
<1>3. CASE CallDelete(c)
  <2>1. PICK k \in SecretKeys :
           BeginsChange(c, "delete", [None EXCEPT ![k] = 1],
                        IF scope = "file" THEN "reads" ELSE "removes")
    BY <1>3 DEF CallDelete
  <2> QED
    BY <1>1, <1>3, <2>1, BeginsChangeIsRight DEF CallDelete
<1>4. CASE CallCreateEnvFile(c)
  BY <1>1, <1>4, BeginsChangeIsRight DEF CallCreateEnvFile
<1> QED
  BY <1>2, <1>3, <1>4

-----------------------------------------------------------------------------
(* DomainSecrets: the start                                                *)

\* A start that moves the plaintext file is alone.
LEMMA StartIsAlone ==
  ASSUME SecretsInv, call[Start].at # "idle"
  PROVE  /\ SecretsTypeOK /\ Start \in Actors /\ ~ up /\ plain
         /\ scope \in {"domain", "attachment"}
         /\ \A c \in SecretCallers : call[c] = NoCall
         /\ call[Start].named = Plain /\ call[Start].op \in {"move", "set"}
         /\ call[Start].at \in {"lists", "discovers", "heals", "inserts", "writes", "undoes",
                                "unlinks", "compares", "rolls"}
         /\ call[Start].op = "move" => call[Start].at \in {"lists", "discovers", "heals"}
         /\ call[Start].at = "heals" => call[Start].known # {}
         /\ Names(Start) = SecretKeys
         /\ call[Start].at \in {"lists", "discovers", "heals"} => call[Start].fresh = {}
         /\ call[Start].at # "undoes" => call[Start].fresh \cap call[Start].known = {}
         /\ EntriesAreSet(Start)
<1>1. SecretsTypeOK /\ Start \in Actors
  BY SecretConstants DEF SecretsInv
<1>2. StartIsFormed /\ EntriesAreSet(Start)
  BY DEF SecretsInv, ChangesProgress
<1>3. ~ up
  BY <1>2, SecretConstants DEF StartIsFormed
<1>4. /\ plain /\ (\A c \in SecretCallers : call[c] = NoCall) /\ scope # "file"
      /\ call[Start].named = Plain /\ call[Start].op \in {"move", "set"}
      /\ call[Start].at \in {"lists", "discovers", "heals", "inserts", "writes", "undoes",
                                "unlinks", "compares", "rolls"}
      /\ call[Start].op = "move" => call[Start].at \in {"lists", "discovers", "heals"}
      /\ call[Start].at = "heals" => call[Start].known # {}
  BY <1>2, <1>3 DEF StartIsFormed
<1>5. scope \in {"domain", "attachment"}
  BY <1>1, <1>4, SecretsAssumption DEF SecretsTypeOK
<1>6. Names(Start) = SecretKeys
  BY <1>4, SecretConstants DEF Names
<1>7. call[Start].at \in {"lists", "discovers", "heals"} => call[Start].fresh = {}
  BY <1>1 DEF SecretsInv, FreshIsNew
<1>8. call[Start].at # "undoes" => call[Start].fresh \cap call[Start].known = {}
  BY <1>1 DEF SecretsTypeOK
<1> QED
  BY <1>1, <1>2, <1>3, <1>4, <1>5, <1>6, <1>7, <1>8

\* What the invariant says of the start while it moves the file.
MoveIsRight ==
    /\ call[Start].at = "idle" => call[Start] = NoCall
    /\ call[Start].at # "idle" =>
          /\ call[Start].named = Plain
          /\ call[Start].op \in {"move", "set"}
          /\ call[Start].at \in {"lists", "discovers", "heals", "inserts", "writes", "undoes",
                                 "unlinks", "compares", "rolls"}
          /\ call[Start].op = "move" => call[Start].at \in {"lists", "discovers", "heals"}
          /\ call[Start].at = "heals" => call[Start].known # {}
          /\ call[Start].at \in {"lists", "discovers", "heals"} => call[Start].fresh = {}
          /\ call[Start].at # "undoes" => call[Start].fresh \cap call[Start].known = {}
          /\ EntriesAreSet(Start)

\* A step of the start before the server is up.
MoveStep ==
    /\ call[Start].at # "idle" \/ (~ up /\ plain /\ call[Start] = NoCall)
    /\ OneCall(Start)
    /\ UNCHANGED <<scope, plain, up, settled, env, inode>>
    /\ entry' \in Maps /\ manifest' \subseteq SecretKeys /\ losses' \in 0..MaxLosses

LEMMA MoveStepIsRight ==
  ASSUME SecretsInv, MoveStep, MoveIsRight'
  PROVE  SecretsInv'
<1>1. /\ SecretsTypeOK /\ Start \in Actors /\ ~ up /\ plain /\ scope # "file"
      /\ \A c \in SecretCallers : call[c] = NoCall
  BY StartIsAlone, SecretConstants DEF MoveStep, SecretsInv, StartIsFormed
<1>2. /\ call' \in [Actors -> SecretCall] /\ UNCHANGED <<scope, plain, up, settled, env, inode>>
      /\ entry' \in Maps /\ manifest' \subseteq SecretKeys /\ losses' \in 0..MaxLosses
      /\ \A c \in Actors \ {Start} : call'[c] = call[c]
  BY DEF MoveStep, OneCall
<1>3. \A c \in SecretCallers : call'[c] = NoCall /\ c # Start /\ c \in Actors
  BY <1>1, <1>2, SecretConstants
<1>4. call'[Start].fresh = {} \/ call'[Start].at # "idle"
  BY SecretConstants DEF MoveIsRight
<1>5. SecretsTypeOK'
  <2>1. (\A d \in Actors : call[d].at # "undoes" => call[d].fresh \cap call[d].known = {})'
    BY <1>1, <1>2, <1>4 DEF SecretsTypeOK, MoveIsRight
  <2> QED
    BY <1>1, <1>2, <2>1 DEF SecretsTypeOK
<1>6. FreshIsNew'
  BY <1>2, <1>4 DEF SecretsInv, FreshIsNew, MoveIsRight
<1>7. ASSUME NEW c \in SecretCallers PROVE CallIsFormed(c)'
  BY <1>3, NoCallIsRight DEF OwnIsRight
<1>8. StartIsFormed'
  BY <1>1, <1>2, <1>3 DEF StartIsFormed, MoveIsRight
<1>9. \A c \in SecretCallers :
         ~ IsChanging(c)' /\ \A k \in SecretKeys : call'[c].expect[k] = Unknown
  BY <1>3, SecretConstants DEF IsChanging
<1>10. OverlapsAreSeen' /\ ExpectsSettled'
  BY <1>9 DEF OverlapsAreSeen, ExpectsSettled
<1>11. SettledIsStored'
  BY <1>1, <1>2 DEF SettledIsStored
<1>12. ChangesProgress'
  <2>1. EntriesAreSet(Start)'
    <3>1. CASE call'[Start].at = "idle"
      BY <3>1 DEF EntriesAreSet
    <3>2. CASE call'[Start].at # "idle"
      BY <3>2 DEF MoveIsRight
    <3> QED
      BY <3>1, <3>2
  <2> QED
    BY <1>9, <2>1 DEF ChangesProgress
<1>13. ReadsAreRight'
  BY <1>3, NoCallIsRight, SecretConstants DEF ReadsAreRight, OwnIsRight
<1> QED
  BY <1>5, <1>6, <1>7, <1>8, <1>10, <1>11, <1>12, <1>13 DEF SecretsInv

LEMMA MoveReturns ==
  ASSUME SecretsInv, call[Start].at # "idle", call' = [call EXCEPT ![Start] = NoCall],
         UNCHANGED <<scope, plain, up, settled, env, inode>>, entry' \in Maps,
         manifest' \subseteq SecretKeys, losses' \in 0..MaxLosses
  PROVE  SecretsInv'
<1>1. OneCall(Start) /\ call'[Start] = NoCall
  BY StartIsAlone, CallReturns
<1>2. MoveStep
  BY <1>1 DEF MoveStep
<1>3. MoveIsRight'
  BY <1>1, SecretConstants DEF MoveIsRight
<1> QED
  BY <1>2, <1>3, MoveStepIsRight

\* The start goes on: with the same keys in the same way, or, after SetIfEmpty, always.
LEMMA MoveGoesOn ==
  ASSUME SecretsInv, call[Start].at # "idle", OneCall(Start),
         call'[Start].named = call[Start].named, call'[Start].op \in {"move", "set"},
         UNCHANGED <<scope, plain, up, settled, env, inode>>, entry' \in Maps,
         manifest' \subseteq SecretKeys, losses' \in 0..MaxLosses,
         call'[Start].at \in {"lists", "discovers", "heals", "inserts", "writes", "undoes",
                              "unlinks", "compares", "rolls"},
         call'[Start].op = "move" => call'[Start].at \in {"lists", "discovers", "heals"},
         call'[Start].at = "heals" => call'[Start].known # {},
         call'[Start].at \in {"lists", "discovers", "heals"} => call'[Start].fresh = {},
         call'[Start].at # "undoes" => call'[Start].fresh \cap call'[Start].known = {},
         call'[Start].at = "inserts" =>
            \A k \in SecretKeys \ call'[Start].todo : entry'[k] = Plain[k],
         call'[Start].at \in {"writes", "unlinks"} => \A k \in SecretKeys : entry'[k] = Plain[k],
         call'[Start].at = "unlinks" => manifest' = SecretKeys
  PROVE  SecretsInv'
<1>1. call[Start].named = Plain
  BY StartIsAlone
<1>2. MoveStep
  BY DEF MoveStep
<1>3. Names(Start)' \subseteq SecretKeys
  BY DEF Names
<1>4. EntriesAreSet(Start)'
  BY <1>1, <1>3 DEF EntriesAreSet
<1>5. MoveIsRight'
  BY <1>1, <1>4 DEF MoveIsRight
<1> QED
  BY <1>2, <1>5, MoveStepIsRight

\* What the start makes of its keys is what is in the file.
LEMMA MoveEntries ==
  ASSUME SecretsInv, call[Start].at # "idle"
  PROVE  /\ call[Start].at = "inserts" =>
               \A k \in SecretKeys \ call[Start].todo : entry[k] = Plain[k]
         /\ call[Start].at \in {"writes", "unlinks"} => \A k \in SecretKeys : entry[k] = Plain[k]
         /\ scope = "attachment" /\ call[Start].at = "unlinks" => manifest = SecretKeys
<1>1. /\ call[Start].named = Plain /\ call[Start].op \in {"move", "set"}
      /\ call[Start].op = "move" => call[Start].at \in {"lists", "discovers", "heals"}
      /\ Names(Start) = SecretKeys /\ EntriesAreSet(Start)
  BY StartIsAlone
<1> QED
  BY <1>1 DEF EntriesAreSet

\* Once the start has the keys, it stores them all.
LEMMA MoveLists ==
  ASSUME SecretsInv, call[Start].at \in {"lists", "discovers", "heals"}, call[Start].op = "set",
         NEW known \in SUBSET SecretKeys, Listed(Start, known),
         UNCHANGED <<scope, plain, up, settled, env, inode, entry>>,
         manifest' \subseteq SecretKeys, losses' \in 0..MaxLosses
  PROVE  SecretsInv'
<1>1. /\ SecretsTypeOK /\ Start \in Actors /\ call[Start].fresh = {}
      /\ Names(Start) = SecretKeys
  BY StartIsAlone
<1>2. /\ OneCall(Start) /\ SameCall(Start) /\ call'[Start].fresh = {}
      /\ call'[Start].at = "inserts" /\ call'[Start].todo = SecretKeys
  BY <1>1, CallLists
<1>3. entry' \in Maps
  BY <1>1 DEF SecretsTypeOK
<1> QED
  BY <1>2, <1>3, MoveGoesOn DEF SameCall

LEMMA MoveListsManifest ==
  ASSUME SecretsInv, ListsManifest(Start)
  PROVE  SecretsInv'
<1>1. call[Start].at = "lists"
  BY DEF ListsManifest
<1>2. /\ SecretsTypeOK /\ Start \in Actors /\ scope \in {"domain", "attachment"}
      /\ call[Start].op \in {"move", "set"} /\ call[Start].fresh = {}
  BY <1>1, StartIsAlone
<1>3. /\ UNCHANGED <<scope, plain, entry, manifest, env, inode, up>>
      /\ losses' \in 0..MaxLosses /\ entry' \in Maps /\ manifest' \subseteq SecretKeys
      /\ manifest \in SUBSET SecretKeys
  BY <1>2, LossesAreBounded DEF ListsManifest, SecretsTypeOK
<1>4. CASE Returns(Start)
  BY <1>1, <1>3, <1>4, MoveReturns DEF Returns
<1>5. ASSUME call' = [call EXCEPT ![Start].known = manifest, ![Start].at = "discovers"],
             settled' = settled
      PROVE  SecretsInv'
  <2>1. "discovers" \in SecretPlaces
    BY DEF SecretPlaces
  <2>2. /\ OneCall(Start) /\ SameCall(Start) /\ call'[Start].at = "discovers"
        /\ call'[Start].fresh = {}
    BY <1>2, <1>3, <1>5, <2>1, CallDiscovers
  <2> QED
    BY <1>1, <1>2, <1>3, <1>5, <2>2, MoveGoesOn DEF SameCall
<1>6. ASSUME Listed(Start, manifest), ~ Discovering(Start), settled' = settled
      PROVE  SecretsInv'
  <2>1. call[Start].op = "set"
    BY <1>2, <1>6 DEF Discovering
  <2> QED
    BY <1>1, <1>3, <1>6, <2>1, MoveLists
<1> QED
  BY <1>4, <1>5, <1>6 DEF ListsManifest

LEMMA MoveDiscoversKeys ==
  ASSUME SecretsInv, DiscoversKeys(Start)
  PROVE  SecretsInv'
<1> DEFINE merged == call[Start].known \cup Stored
<1>1. call[Start].at = "discovers"
  BY DEF DiscoversKeys
<1>2. /\ SecretsTypeOK /\ Start \in Actors /\ call[Start].op \in {"move", "set"}
      /\ call[Start].fresh = {}
  BY <1>1, StartIsAlone
<1>3. /\ UNCHANGED <<scope, plain, entry, manifest, env, inode, up>>
      /\ losses' \in 0..MaxLosses /\ entry' \in Maps /\ manifest' \subseteq SecretKeys
  BY <1>2, LossesAreBounded DEF DiscoversKeys, SecretsTypeOK
<1>4. merged \in SUBSET SecretKeys
  BY <1>2, CallFields DEF Stored
<1>5. merged # call[Start].known => merged # {}
  OBVIOUS
<1> HIDE DEF merged
<1>6. CASE Returns(Start)
  BY <1>1, <1>3, <1>6, MoveReturns DEF Returns
<1>7. ASSUME merged # call[Start].known, settled' = settled,
             call' = [call EXCEPT ![Start].known = merged, ![Start].at = "heals"]
      PROVE  SecretsInv'
  <2>1. "heals" \in SecretPlaces
    BY DEF SecretPlaces
  <2>2. /\ OneCall(Start) /\ SameCall(Start) /\ call'[Start].at = "heals"
        /\ call'[Start].fresh = {} /\ call'[Start].known = merged
    BY <1>2, <1>4, <1>7, <2>1, CallDiscovers
  <2> QED
    BY <1>1, <1>2, <1>3, <1>5, <1>7, <2>2, MoveGoesOn DEF SameCall
<1>8. ASSUME ListsAlways(Start), settled' = settled
      PROVE  SecretsInv'
  <2>1. /\ OneCall(Start) /\ call'[Start].at = "lists" /\ call'[Start].op = "set"
        /\ call'[Start].fresh = {} /\ call'[Start].named = call[Start].named
    BY <1>2, <1>8, CallSetsAlways
  <2> QED
    BY <1>1, <1>3, <1>8, <2>1, MoveGoesOn
<1>9. ASSUME Listed(Start, merged), call[Start].op # "move", settled' = settled
      PROVE  SecretsInv'
  BY <1>1, <1>2, <1>3, <1>4, <1>9, MoveLists
<1> QED
  BY <1>6, <1>7, <1>8, <1>9 DEF DiscoversKeys, merged

LEMMA MoveHealsManifest ==
  ASSUME SecretsInv, HealsManifest(Start)
  PROVE  SecretsInv'
<1>1. call[Start].at = "heals"
  BY DEF HealsManifest
<1>2. /\ SecretsTypeOK /\ Start \in Actors /\ call[Start].op \in {"move", "set"}
      /\ call[Start].known # {}
  BY <1>1, StartIsAlone
<1>3. call[Start].known \in SUBSET SecretKeys
  BY <1>2, CallFields
<1>4. /\ UNCHANGED <<scope, plain, entry, env, inode, up>>
      /\ losses' \in 0..MaxLosses /\ entry' \in Maps /\ manifest' \subseteq SecretKeys
  BY <1>2, <1>3, LossesAreBounded DEF HealsManifest, SecretsTypeOK
<1>5. CASE Returns(Start)
  BY <1>1, <1>4, <1>5, MoveReturns DEF Returns
<1>6. CASE Listed(Start, call[Start].known) /\ settled' = settled /\ call[Start].op = "set"
  BY <1>1, <1>3, <1>4, <1>6, MoveLists
<1> QED
  BY <1>2, <1>5, <1>6 DEF HealsManifest, Refuses

LEMMA MoveGivesUp ==
  ASSUME SecretsInv, call[Start].at \in {"inserts", "writes"}, GivesUpSet(Start),
         Fails, UNCHANGED <<scope, plain, manifest, env, inode, up>>, entry' \in Maps
  PROVE  SecretsInv'
<1>1. /\ SecretsTypeOK /\ Start \in Actors /\ call[Start].op \in {"move", "set"}
      /\ call[Start].op = "move" => call[Start].at \in {"lists", "discovers", "heals"}
  BY StartIsAlone
<1>2. losses' \in 0..MaxLosses /\ manifest' \subseteq SecretKeys
  BY <1>1, LossesAreBounded DEF SecretsTypeOK
<1>3. CASE call[Start].fresh = {}
  BY <1>2, <1>3, MoveReturns DEF GivesUpSet, Returns
<1>4. CASE call[Start].fresh # {}
  <2>1. call' = [call EXCEPT ![Start].at = "undoes", ![Start].known = {}, ![Start].todo = {}]
    BY <1>4 DEF GivesUpSet
  <2>2. settled' = settled
    BY <1>4 DEF GivesUpSet
  <2>3. OneCall(Start) /\ SameCall(Start) /\ call'[Start].at = "undoes"
    BY <1>1, <2>1, CallUndoes
  <2> QED
    BY <1>1, <1>2, <2>2, <2>3, MoveGoesOn DEF SameCall
<1> QED
  BY <1>3, <1>4

LEMMA MoveInsertsKey ==
  ASSUME SecretsInv, NEW k \in SecretKeys, InsertsKey(Start, k)
  PROVE  SecretsInv'
<1> DEFINE put == [entry EXCEPT ![k] = call[Start].named[k]]
           added == IF k \in call[Start].known THEN call[Start].fresh
                    ELSE call[Start].fresh \cup {k}
           next == IF call[Start].todo = {k} THEN "writes" ELSE call[Start].at
<1>1. call[Start].at = "inserts" /\ k \in call[Start].todo
  BY DEF InsertsKey
<1>2. /\ SecretsTypeOK /\ Start \in Actors /\ call[Start].op = "set"
      /\ call[Start].named = Plain /\ call[Start].fresh \cap call[Start].known = {}
  BY <1>1, StartIsAlone
<1>3. \A j \in SecretKeys \ call[Start].todo : entry[j] = Plain[j]
  BY <1>1, MoveEntries
<1>4. /\ entry \in Maps /\ put \in Maps /\ put[k] = Plain[k]
      /\ \A j \in SecretKeys \ {k} : put[j] = entry[j]
  BY <1>2, SecretConstants DEF SecretsTypeOK, Maps
<1> HIDE DEF put
<1>5. ASSUME entry' = put, settled' = settled, UNCHANGED losses,
             UNCHANGED <<scope, plain, manifest, env, inode, up>>,
             call' = [call EXCEPT ![Start].todo = @ \ {k},
                         ![Start].fresh = IF k \in call[Start].known THEN @ ELSE @ \cup {k},
                         ![Start].at = IF call[Start].todo = {k} THEN "writes" ELSE @]
      PROVE  SecretsInv'
  <2>1. /\ OneCall(Start) /\ SameCall(Start) /\ call'[Start].at = next
        /\ call'[Start].known = call[Start].known /\ call'[Start].fresh = added
        /\ call'[Start].todo = call[Start].todo \ {k}
    BY <1>2, <1>5, CallInserts
  <2>2. losses' \in 0..MaxLosses /\ manifest' \subseteq SecretKeys
    BY <1>2, <1>5, LossesAreBounded DEF SecretsTypeOK
  <2>3. \A j \in SecretKeys \ (call[Start].todo \ {k}) : entry'[j] = Plain[j]
    BY <1>3, <1>4, <1>5
  <2>4. /\ next \in {"inserts", "writes"} /\ (next = "writes" => call[Start].todo \ {k} = {})
        /\ added \cap call[Start].known = {}
    BY <1>1, <1>2
  <2> HIDE DEF next, added
  <2>5. next = "writes" => \A j \in SecretKeys : entry'[j] = Plain[j]
    BY <2>3, <2>4
  <2> QED
    BY <1>1, <1>2, <1>4, <1>5, <2>1, <2>2, <2>3, <2>4, <2>5, MoveGoesOn DEF SameCall
<1>6. ASSUME entry' \in {entry, put}, GivesUpSet(Start), Fails,
             UNCHANGED <<scope, plain, manifest, env, inode, up>>
      PROVE  SecretsInv'
  BY <1>1, <1>4, <1>6, MoveGivesUp
<1> QED
  BY <1>5, <1>6 DEF InsertsKey, put

LEMMA MoveUndoesInsert ==
  ASSUME SecretsInv, NEW k \in SecretKeys, UndoesInsert(Start, k)
  PROVE  SecretsInv'
<1>1. call[Start].at = "undoes"
  BY DEF UndoesInsert
<1>2. SecretsTypeOK /\ Start \in Actors /\ call[Start].op = "set"
  BY <1>1, StartIsAlone
<1>3. /\ UNCHANGED <<scope, plain, manifest, env, inode, up>> /\ manifest' \subseteq SecretKeys
      /\ losses' \in 0..MaxLosses
  BY <1>2, LossesAreBounded DEF UndoesInsert, SecretsTypeOK
<1>4. entry' \in Maps
  BY <1>2, SecretsAssumption DEF UndoesInsert, SecretsTypeOK, Maps
<1>5. CASE Returns(Start)
  BY <1>1, <1>3, <1>4, <1>5, MoveReturns DEF Returns
<1>6. ASSUME call' = [call EXCEPT ![Start].fresh = @ \ {k}], settled' = settled
      PROVE  SecretsInv'
  <2>1. OneCall(Start) /\ SameCall(Start) /\ call'[Start].at = "undoes"
    BY <1>1, <1>2, <1>6, CallUndid
  <2> QED
    BY <1>1, <1>2, <1>3, <1>4, <1>6, <2>1, MoveGoesOn DEF SameCall
<1> QED
  BY <1>5, <1>6 DEF UndoesInsert

LEMMA MoveWritesManifest ==
  ASSUME SecretsInv, WritesManifest(Start)
  PROVE  SecretsInv'
<1>1. call[Start].at = "writes"
  BY DEF WritesManifest
<1>2. /\ SecretsTypeOK /\ Start \in Actors /\ call[Start].op = "set"
      /\ call[Start].fresh \cap call[Start].known = {} /\ Names(Start) = SecretKeys
  BY <1>1, StartIsAlone
<1>3. UNCHANGED <<scope, plain, entry, env, inode, up>> /\ entry' \in Maps
  BY <1>2 DEF WritesManifest, SecretsTypeOK
<1>4. ASSUME UNCHANGED manifest, GivesUpSet(Start), Fails PROVE SecretsInv'
  BY <1>1, <1>3, <1>4, MoveGivesUp
<1>5. ASSUME manifest' = Rewritten(Start), To(Start, "unlinks"), settled' = settled,
             UNCHANGED losses
      PROVE  SecretsInv'
  <2>1. "unlinks" \in SecretPlaces
    BY DEF SecretPlaces
  <2>2. /\ OneCall(Start) /\ SameCall(Start) /\ call'[Start].at = "unlinks"
        /\ call'[Start].known = call[Start].known /\ call'[Start].fresh = call[Start].fresh
    BY <1>2, <1>5, <2>1, CallGoesTo
  <2>3. call[Start].known \subseteq SecretKeys
    BY <1>2, CallFields
  <2>4. manifest' = SecretKeys
    BY <1>2, <1>5, <2>3 DEF Rewritten
  <2>5. \A k \in SecretKeys : entry'[k] = Plain[k]
    BY <1>1, <1>3, MoveEntries
  <2>6. losses' \in 0..MaxLosses
    BY <1>2, <1>5, LossesAreBounded
  <2> QED
    BY <1>1, <1>2, <1>3, <1>5, <2>2, <2>4, <2>5, <2>6, MoveGoesOn DEF SameCall
<1> QED
  BY <1>4, <1>5 DEF WritesManifest

\* The move is over, and what was in the file is in pass.
LEMMA MovedIsRight ==
  ASSUME SecretsInv, call[Start].at # "idle", Moved, plain' \in BOOLEAN,
         plain' => plain, UNCHANGED <<scope, entry, manifest, env, inode>>,
         losses' \in 0..MaxLosses,
         \A k \in SecretKeys : entry[k] = Plain[k],
         scope = "attachment" => manifest = SecretKeys
  PROVE  SecretsInv'
<1>1. /\ SecretsTypeOK /\ Start \in Actors /\ scope \in {"domain", "attachment"}
      /\ \A c \in SecretCallers : call[c] = NoCall
  BY StartIsAlone
<1>2. OneCall(Start) /\ call'[Start] = NoCall
  BY <1>1, CallReturns DEF Moved
<1>3. /\ \A c \in SecretCallers : call'[c] = NoCall
      /\ \A d \in Actors : call'[d] = NoCall
  BY <1>1, <1>2, SecretConstants DEF OneCall, Actors
<1>4. settled' = Plain /\ up' = TRUE /\ \A k \in SecretKeys : Plain[k] = 1
  BY SecretConstants DEF Moved
<1>5. SecretsTypeOK'
  <2>1. settled' \in [SecretKeys -> 0..Unknown]
    BY <1>4, SecretConstants, SecretsAssumption DEF Maps, Unknown, Plain
  <2>2. call' \in [Actors -> SecretCall]
    BY <1>2 DEF OneCall
  <2>3. (\A d \in Actors : call[d].at # "undoes" => call[d].fresh \cap call[d].known = {})'
    BY <1>3, SecretConstants
  <2> QED
    BY <1>1, <1>4, <2>1, <2>2, <2>3 DEF SecretsTypeOK
<1>6. FreshIsNew'
  BY <1>3, SecretConstants DEF FreshIsNew
<1>7. ASSUME NEW c \in SecretCallers PROVE CallIsFormed(c)'
  BY <1>3, NoCallIsRight DEF OwnIsRight
<1>8. StartIsFormed'
  BY <1>1, <1>2, <1>4, SecretConstants DEF StartIsFormed
<1>9. \A c \in SecretCallers :
         ~ IsChanging(c)' /\ \A k \in SecretKeys : call'[c].expect[k] = Unknown
  BY <1>3, SecretConstants DEF IsChanging
<1>10. OverlapsAreSeen' /\ ExpectsSettled'
  BY <1>9 DEF OverlapsAreSeen, ExpectsSettled
<1>11. SettledIsStored'
  <2> SUFFICES ASSUME NEW k \in SecretKeys PROVE ShownAs(k, Plain[k])'
    BY <1>4 DEF SettledIsStored, Plain
  <2>1. CASE scope = "domain"
    BY <2>1 DEF ShownAs, Plain
  <2>2. CASE scope = "attachment"
    BY <2>2 DEF ShownAs, Plain
  <2> QED
    BY <1>1, <2>1, <2>2
<1>12. ChangesProgress'
  <2>1. EntriesAreSet(Start)'
    BY <1>2, SecretConstants DEF EntriesAreSet
  <2> QED
    BY <1>9, <2>1 DEF ChangesProgress
<1>13. ReadsAreRight'
  BY <1>3, NoCallIsRight, SecretConstants DEF ReadsAreRight, OwnIsRight
<1> QED
  BY <1>5, <1>6, <1>7, <1>8, <1>10, <1>11, <1>12, <1>13 DEF SecretsInv

LEMMA RemovesPlainIsRight ==
  ASSUME SecretsInv, RemovesPlain
  PROVE  SecretsInv'
<1>1. call[Start].at = "unlinks"
  BY DEF RemovesPlain
<1>2. SecretsTypeOK /\ Start \in Actors /\ call[Start].op = "set" /\ plain
      /\ call[Start].fresh \cap call[Start].known = {}
  BY <1>1, StartIsAlone
<1>3. /\ UNCHANGED <<scope, entry, manifest, env, inode>> /\ manifest' \subseteq SecretKeys
      /\ losses' \in 0..MaxLosses /\ entry' \in Maps
  BY <1>2, LossesAreBounded DEF RemovesPlain, SecretsTypeOK
<1>4. /\ \A k \in SecretKeys : entry[k] = Plain[k]
      /\ scope = "attachment" => manifest = SecretKeys
  BY <1>1, MoveEntries
<1>5. CASE plain' = FALSE /\ Moved
  BY <1>1, <1>2, <1>3, <1>4, <1>5, MovedIsRight
<1>6. CASE UNCHANGED <<plain, up, settled>> /\ To(Start, "compares")
  <2>1. "compares" \in SecretPlaces
    BY DEF SecretPlaces
  <2>2. /\ OneCall(Start) /\ SameCall(Start) /\ call'[Start].at = "compares"
        /\ call'[Start].known = call[Start].known /\ call'[Start].fresh = call[Start].fresh
    BY <1>2, <1>6, <2>1, CallGoesTo
  <2> QED
    BY <1>1, <1>2, <1>3, <1>6, <2>2, MoveGoesOn DEF SameCall
<1> QED
  BY <1>5, <1>6 DEF RemovesPlain

LEMMA ComparesStoredIsRight ==
  ASSUME SecretsInv, ComparesStored
  PROVE  SecretsInv'
<1>1. call[Start].at = "compares"
  BY DEF ComparesStored
<1>2. SecretsTypeOK /\ Start \in Actors /\ call[Start].op = "set" /\ plain
      /\ call[Start].fresh \cap call[Start].known = {}
      /\ scope \in {"domain", "attachment"}
  BY <1>1, StartIsAlone
<1>3. /\ UNCHANGED <<scope, plain, entry, manifest, env, inode>> /\ manifest' \subseteq SecretKeys
      /\ losses' \in 0..MaxLosses /\ entry' \in Maps
  BY <1>2, LossesAreBounded DEF ComparesStored, SecretsTypeOK
<1>4. ASSUME entry = Plain, scope = "domain" \/ manifest = SecretKeys, Moved
      PROVE  SecretsInv'
  BY <1>1, <1>2, <1>3, <1>4, MovedIsRight DEF SecretsTypeOK
<1>5. ASSUME call' = [call EXCEPT ![Start].at = "rolls", ![Start].todo = SecretKeys],
             UNCHANGED <<up, settled>>
      PROVE  SecretsInv'
  <2>1. "rolls" \in SecretPlaces /\ SecretKeys \in SUBSET SecretKeys
    BY DEF SecretPlaces
  <2>2. /\ OneCall(Start) /\ SameCall(Start) /\ call'[Start].at = "rolls"
        /\ call'[Start].known = call[Start].known /\ call'[Start].fresh = call[Start].fresh
    BY <1>2, <1>5, <2>1, CallRolls
  <2> QED
    BY <1>1, <1>2, <1>3, <1>5, <2>2, MoveGoesOn DEF SameCall
<1> QED
  BY <1>4, <1>5 DEF ComparesStored

LEMMA RollsBackKeyIsRight ==
  ASSUME SecretsInv, NEW k \in SecretKeys, RollsBackKey(k)
  PROVE  SecretsInv'
<1>1. call[Start].at = "rolls"
  BY DEF RollsBackKey
<1>2. SecretsTypeOK /\ Start \in Actors /\ call[Start].op = "set"
      /\ call[Start].fresh \cap call[Start].known = {}
  BY <1>1, StartIsAlone
<1>3. UNCHANGED <<scope, plain, env, inode, up, settled>> /\ losses' \in 0..MaxLosses
  BY <1>2, LossesAreBounded DEF RollsBackKey
<1>4. entry' \in Maps
  <2>1. entry \in Maps /\ 0 \in 0..ValueCount
    BY <1>2, SecretsAssumption DEF SecretsTypeOK
  <2>2. entry' = entry \/ entry' = [entry EXCEPT ![k] = 0]
    BY DEF RollsBackKey
  <2> QED
    BY <2>1, <2>2 DEF Maps
<1>5. manifest' \subseteq SecretKeys
  BY <1>2 DEF RollsBackKey, SecretsTypeOK, Stored
<1>6. CASE call' = [call EXCEPT ![Start] = NoCall]
  BY <1>1, <1>3, <1>4, <1>5, <1>6, MoveReturns
<1>7. CASE call' = [call EXCEPT ![Start] = [call[Start] EXCEPT !.todo = @ \ {k}]]
  <2>1. /\ OneCall(Start) /\ SameCall(Start) /\ call'[Start].at = "rolls"
        /\ call'[Start].known = call[Start].known /\ call'[Start].fresh = call[Start].fresh
    BY <1>1, <1>2, <1>7, CallRolledBack
  <2> QED
    BY <1>1, <1>2, <1>3, <1>4, <1>5, <2>1, MoveGoesOn DEF SameCall
<1> QED
  BY <1>6, <1>7 DEF RollsBackKey

LEMMA StartsIsRight ==
  ASSUME SecretsInv, Starts
  PROVE  SecretsInv'
<1>1. SecretsTypeOK /\ Start \in Actors /\ ~ up /\ call[Start] = NoCall
      /\ \A c \in SecretCallers : call[c] = NoCall
  BY SecretConstants DEF SecretsInv, Starts, StartIsFormed
<1>2. /\ UNCHANGED <<scope, plain, entry, manifest, env, inode, settled, losses>>
      /\ entry \in Maps /\ manifest \subseteq SecretKeys /\ losses \in 0..MaxLosses
  BY <1>1 DEF Starts, SecretsTypeOK
<1>3. CASE plain
  <2> DEFINE new == [NoCall EXCEPT !.at = "lists", !.op = "move", !.named = Plain]
  <2>1. call' = [call EXCEPT ![Start] = new] /\ up' = up
    BY <1>3 DEF Starts
  <2>2. /\ new \in SecretCall /\ new.at = "lists" /\ new.op = "move" /\ new.named = Plain
        /\ new.fresh = {}
    BY SecretConstants DEF SecretCall, SecretPlaces
  <2> HIDE DEF new
  <2>3. OneCall(Start) /\ call'[Start] = new
    BY <1>1, <2>1, <2>2, NewCall
  <2>4. MoveStep
    BY <1>1, <1>2, <1>3, <2>1, <2>3 DEF MoveStep
  <2>5. MoveIsRight'
    BY <2>2, <2>3 DEF MoveIsRight, EntriesAreSet
  <2> QED
    BY <2>4, <2>5, MoveStepIsRight
<1>4. CASE ~ plain
  <2>1. up' = TRUE /\ call' = call
    BY <1>4 DEF Starts
  <2>2. SecretsTypeOK'
    BY <1>1, <1>2, <2>1 DEF SecretsTypeOK
  <2>3. FreshIsNew' /\ OverlapsAreSeen' /\ ExpectsSettled'
    BY <1>2, <2>1 DEF SecretsInv, FreshIsNew, OverlapsAreSeen, ExpectsSettled, IsChanging, Names
  <2>4. \A c \in SecretCallers : CallIsFormed(c)'
    BY <1>2, <2>1 DEF SecretsInv, CallIsFormed, Names
  <2>5. StartIsFormed'
    BY <1>1, <1>2, <1>4, <2>1, SecretConstants DEF SecretsInv, StartIsFormed
  <2>6. SettledIsStored'
    BY <1>2, <1>4 DEF SecretsInv, SettledIsStored, ShownAs, Reads
  <2>7. ChangesProgress'
    <3>1. \A c \in SecretCallers : ~ IsChanging(c)'
      BY <1>1, <2>1, SecretConstants DEF IsChanging
    <3>2. EntriesAreSet(Start)'
      BY <1>1, <2>1, SecretConstants DEF EntriesAreSet
    <3> QED
      BY <3>1, <3>2 DEF ChangesProgress
  <2>8. ReadsAreRight'
    BY <1>2, <2>1 DEF SecretsInv, ReadsAreRight, ReadIsRight
  <2> QED
    BY <2>2, <2>3, <2>4, <2>5, <2>6, <2>7, <2>8 DEF SecretsInv
<1> QED
  BY <1>3, <1>4

\* What is said of the calls holds when there are none.
LEMMA NoCallsAreRight ==
  ASSUME call' = [c \in Actors |-> NoCall], ~ up', plain' => scope' # "file"
  PROVE  /\ call' \in [Actors -> SecretCall]
         /\ (\A d \in Actors : call[d].at # "undoes" => call[d].fresh \cap call[d].known = {})'
         /\ FreshIsNew' /\ (\A c \in SecretCallers : CallIsFormed(c)') /\ StartIsFormed'
         /\ OverlapsAreSeen' /\ ExpectsSettled' /\ ChangesProgress' /\ ReadsAreRight'
<1>1. \A c \in Actors : call'[c] = NoCall
  OBVIOUS
<1>2. SecretCallers \subseteq Actors /\ Start \in Actors
  BY SecretConstants
<1>3. call' \in [Actors -> SecretCall]
  BY SecretConstants
<1>4. (\A d \in Actors : call[d].at # "undoes" => call[d].fresh \cap call[d].known = {})'
  BY <1>1, SecretConstants
<1>5. FreshIsNew'
  BY <1>1, SecretConstants DEF FreshIsNew
<1>6. ASSUME NEW c \in SecretCallers PROVE CallIsFormed(c)'
  BY <1>1, <1>2, NoCallIsRight DEF OwnIsRight
<1>7. StartIsFormed'
  BY <1>1, <1>2, SecretConstants DEF StartIsFormed
<1>8. \A c \in SecretCallers :
         ~ IsChanging(c)' /\ \A k \in SecretKeys : call'[c].expect[k] = Unknown
  BY <1>1, <1>2, SecretConstants DEF IsChanging
<1>9. OverlapsAreSeen' /\ ExpectsSettled'
  BY <1>8 DEF OverlapsAreSeen, ExpectsSettled
<1>10. ChangesProgress'
  <2>1. EntriesAreSet(Start)'
    BY <1>1, <1>2, SecretConstants DEF EntriesAreSet
  <2> QED
    BY <1>8, <2>1 DEF ChangesProgress
<1>11. ReadsAreRight'
  BY <1>1, <1>2, NoCallIsRight, SecretConstants DEF ReadsAreRight, OwnIsRight
<1> QED
  BY <1>3, <1>4, <1>5, <1>6, <1>7, <1>9, <1>10, <1>11

LEMMA ServerEndsIsRight ==
  ASSUME SecretsInv, ServerEnds
  PROVE  SecretsInv'
<1>1. SecretsTypeOK
  BY DEF SecretsInv
<1>2. /\ call' = [c \in Actors |-> NoCall] /\ up' = FALSE /\ losses' \in 0..MaxLosses
      /\ UNCHANGED <<scope, plain, entry, manifest, env, settled>> /\ Holds(inode)
  BY <1>1, LossesAreBounded DEF ServerEnds
<1>3. plain => scope # "file"
  BY DEF SecretsInv, StartIsFormed
<1>4. /\ call' \in [Actors -> SecretCall]
      /\ (\A d \in Actors : call[d].at # "undoes" => call[d].fresh \cap call[d].known = {})'
      /\ FreshIsNew' /\ (\A c \in SecretCallers : CallIsFormed(c)') /\ StartIsFormed'
      /\ OverlapsAreSeen' /\ ExpectsSettled' /\ ChangesProgress' /\ ReadsAreRight'
  BY <1>2, <1>3, NoCallsAreRight
<1>5. /\ env.final \in {0} \cup Inodes
      /\ inode \in [Inodes -> [whole : BOOLEAN, content : Maps]]
  BY <1>1, SecretFiles
<1>6. /\ inode' \in [Inodes -> [whole : BOOLEAN, content : Maps]]
      /\ env.final # 0 => inode'[env.final] = inode[env.final]
  BY <1>2, <1>5, HoldsInUse
<1>7. SecretsTypeOK'
  BY <1>1, <1>2, <1>4, <1>6 DEF SecretsTypeOK
<1>8. SettledIsStored'
  <2>1. Reads(env.final)' = Reads(env.final)
    BY <1>2, <1>6, FinalIsRead
  <2> SUFFICES ASSUME NEW k \in SecretKeys, ~ plain, settled[k] # Unknown
               PROVE  ShownAs(k, settled[k])'
    BY <1>2 DEF SettledIsStored
  <2>2. ShownAs(k, settled[k])
    BY DEF SecretsInv, SettledIsStored
  <2> QED
    BY <1>2, <2>1, <2>2 DEF ShownAs
<1> QED
  BY <1>4, <1>7, <1>8 DEF SecretsInv

-----------------------------------------------------------------------------
(* DomainSecrets: what the reads return                                    *)

LEMMA SecretsInitInv ==
  ASSUME SecretsInit
  PROVE  SecretsInv
<1>1. /\ scope \in Scopes /\ plain \in BOOLEAN /\ (plain => scope # "file")
      /\ entry = None /\ manifest = {} /\ env = [final |-> 0, temp |-> 0]
      /\ inode = [i \in Inodes |-> EmptyInode] /\ call = [c \in Actors |-> NoCall]
      /\ up = FALSE /\ losses = 0
      /\ settled = [k \in SecretKeys |-> IF plain THEN Unknown ELSE 0]
  BY DEF SecretsInit
<1>2. \A c \in Actors : call[c] = NoCall
  BY <1>1
<1>3. SecretCallers \subseteq Actors /\ Start \in Actors
  BY SecretConstants
<1>4. SecretsTypeOK
  <2>1. settled \in [SecretKeys -> 0..Unknown]
    BY <1>1, SecretsAssumption DEF Unknown
  <2>2. EmptyInode \in [whole : BOOLEAN, content : Maps]
    BY SecretConstants DEF EmptyInode
  <2>3. inode \in [Inodes -> [whole : BOOLEAN, content : Maps]]
    BY <1>1, <2>2
  <2>4. call \in [Actors -> SecretCall]
    BY <1>1, SecretConstants
  <2>5. env \in [final : {0} \cup Inodes, temp : {0} \cup Inodes] /\ env.final = 0
    BY <1>1
  <2>6. \A c \in Actors : call[c].fresh \cap call[c].known = {}
    BY <1>2, SecretConstants
  <2>7. losses \in 0..MaxLosses
    BY <1>1, SecretsAssumption
  <2> QED
    BY <1>1, <2>1, <2>3, <2>4, <2>5, <2>6, <2>7, SecretConstants DEF SecretsTypeOK
<1>5. FreshIsNew
  BY <1>2, SecretConstants DEF FreshIsNew
<1>6. ASSUME NEW c \in SecretCallers PROVE CallIsFormed(c)
  <2>1. call[c] = NoCall /\ Names(c) = {}
    BY <1>2, <1>3, SecretConstants DEF Names
  <2> QED
    BY <2>1, SecretConstants DEF CallIsFormed
<1>7. StartIsFormed
  BY <1>1, <1>2, <1>3, SecretConstants DEF StartIsFormed
<1>8. \A c \in SecretCallers :
         ~ IsChanging(c) /\ \A k \in SecretKeys : call[c].expect[k] = Unknown
  BY <1>2, <1>3, SecretConstants DEF IsChanging
<1>9. OverlapsAreSeen /\ ExpectsSettled
  BY <1>8 DEF OverlapsAreSeen, ExpectsSettled
<1>10. SettledIsStored
  <2> SUFFICES ASSUME NEW k \in SecretKeys, ~ plain PROVE ShownAs(k, 0)
    BY <1>1 DEF SettledIsStored
  <2> QED
    BY <1>1, SecretsAssumption, SecretConstants DEF ShownAs, Reads
<1>11. ChangesProgress
  <2>1. EntriesAreSet(Start)
    BY <1>2, <1>3, SecretConstants DEF EntriesAreSet
  <2> QED
    BY <1>8, <2>1 DEF ChangesProgress
<1>12. ReadsAreRight
  BY <1>2, <1>3, <1>8, SecretConstants DEF ReadsAreRight, ReadIsRight
<1> QED
  BY <1>4, <1>5, <1>6, <1>7, <1>9, <1>10, <1>11, <1>12 DEF SecretsInv

LEMMA SecretsNextInv ==
  ASSUME SecretsInv, [SecretsNext]_secretVars
  PROVE  SecretsInv'
<1>1. ASSUME NEW c \in SecretCallers, SecretStep(c) PROVE SecretsInv'
  BY <1>1, ListsManifestIsRight, DiscoversKeysIsRight, HealsManifestIsRight, InsertsKeyIsRight,
     UndoesInsertIsRight, WritesManifestIsRight DEF SecretStep
<1>2. ASSUME SecretStep(Start) PROVE SecretsInv'
  BY <1>2, MoveListsManifest, MoveDiscoversKeys, MoveHealsManifest, MoveInsertsKey,
     MoveUndoesInsert, MoveWritesManifest DEF SecretStep
<1>3. ASSUME NEW c \in SecretCallers, CallSet(c) \/ CallDelete(c) \/ CallCreateEnvFile(c)
      PROVE  SecretsInv'
  BY <1>3, CallBeginsIsRight
<1>4. ASSUME NEW c \in SecretCallers,
             CallGetAll(c) \/ RemovesKey(c) \/ ShowsKeys(c) \/ AnswersRead(c)
      PROVE  SecretsInv'
  BY <1>4, CallGetAllIsRight, RemovesKeyIsRight, ShowsKeysIsRight, AnswersReadIsRight,
     AnswersFileIsRight
<1>5. ASSUME NEW c \in SecretCallers,
             \/ ReadsFile(c) \/ OpensTemp(c) \/ FillsTemp(c) \/ RenamesTemp(c)
             \/ StatsFile(c) \/ MakesFile(c)
      PROVE  SecretsInv'
  BY <1>5, ReadsFileIsRight, OpensTempIsRight, FillsTempIsRight, RenamesTempIsRight,
     StatsFileIsRight, MakesFileIsRight
<1>6. ASSUME Starts \/ RemovesPlain \/ ComparesStored
             \/ (\E k \in SecretKeys : RollsBackKey(k)) \/ ServerEnds
      PROVE  SecretsInv'
  BY <1>6, StartsIsRight, RemovesPlainIsRight, ComparesStoredIsRight, RollsBackKeyIsRight,
     ServerEndsIsRight
<1>7. CASE UNCHANGED secretVars
  <2>1. UNCHANGED <<scope, plain, entry, manifest, env, inode, call, up, settled, losses>>
    BY <1>7 DEF secretVars
  <2>2. SecretsTypeOK'
    BY <2>1 DEF SecretsInv, SecretsTypeOK
  <2>3. FreshIsNew' /\ OverlapsAreSeen' /\ ExpectsSettled'
    BY <2>1 DEF SecretsInv, FreshIsNew, OverlapsAreSeen, ExpectsSettled, IsChanging, Names
  <2>4. \A c \in SecretCallers : CallIsFormed(c)'
    BY <2>1 DEF SecretsInv, CallIsFormed, Names
  <2>5. StartIsFormed'
    BY <2>1 DEF SecretsInv, StartIsFormed
  <2>6. SettledIsStored'
    BY <2>1 DEF SecretsInv, SettledIsStored, ShownAs, Reads
  <2>7. ChangesProgress'
    BY <2>1 DEF SecretsInv, ChangesProgress, EntriesAreSet, FileIsPrepared, Fits, Target,
       IsChanging, Names
  <2>8. ReadsAreRight'
    BY <2>1 DEF SecretsInv, ReadsAreRight, ReadIsRight
  <2> QED
    BY <2>2, <2>3, <2>4, <2>5, <2>6, <2>7, <2>8 DEF SecretsInv
<1> QED
  BY <1>1, <1>2, <1>3, <1>4, <1>5, <1>6, <1>7 DEF SecretsNext, Actors

\* A read returns every secret as the last call that named it has left it, if no other call
\* was in the way of that one: for any number of calls, keys and values, in pass with and
\* without discovery and in an environment file, whatever has failed, died, been undone or
\* been written to the manifest by others since, and through the move from the plaintext file.
THEOREM SecretsAreRead == SecretsSpec => []ReadsAreComplete
<1>1. SecretsInv => ReadsAreComplete
  <2> SUFFICES ASSUME SecretsInv, NEW c \in SecretCallers, call[c].at = "answers",
                      NEW k \in SecretKeys, call[c].expect[k] # Unknown
               PROVE  call[c].expect[k] = call[c].seen[k]
    BY DEF ReadsAreComplete
  <2>1. call[c].op = "get"
    BY DEF SecretsInv, CallIsFormed
  <2>2. ReadIsRight(c)
    BY <2>1 DEF SecretsInv, ReadsAreRight
  <2> QED
    BY <2>2 DEF ReadIsRight
<1>2. SecretsInit => SecretsInv
  BY SecretsInitInv
<1>3. SecretsInv /\ [SecretsNext]_secretVars => SecretsInv'
  BY SecretsNextInv
<1> QED
  BY <1>1, <1>2, <1>3, PTL DEF SecretsSpec

-----------------------------------------------------------------------------
(* What is in order                                                        *)

\* A finite set of numbers has as many places as members, and a member at each: counting
\* what is below is one to one, and so it reaches every number below the cardinality.
LEMMA InOrderTyped ==
  ASSUME NEW S, IsFiniteSet(S), S \subseteq Nat
  PROVE  /\ InOrder(S) \in Seq(S)
         /\ Cardinality(S) \in Nat /\ Len(InOrder(S)) = Cardinality(S)
         /\ DOMAIN InOrder(S) = 1..Cardinality(S)
<1> DEFINE Below(n) == {m \in S : m < n}
           rank     == [n \in S |-> Cardinality(Below(n))]
           N        == Cardinality(S)
<1>1. N \in Nat
  BY FS_CardinalityType
<1>2. ASSUME NEW n \in S PROVE IsFiniteSet(Below(n)) /\ Cardinality(Below(n)) \in Nat
  <2>1. Below(n) \in SUBSET S
    OBVIOUS
  <2> QED
    BY <2>1, FS_Subset, FS_CardinalityType
<1>3. ASSUME NEW n \in S, NEW U, U \subseteq S, Below(n) \subseteq U, n \in U
      PROVE  Cardinality(Below(n)) < Cardinality(U)
  <2>1. IsFiniteSet(U) /\ Cardinality(U) \in Nat
    BY <1>3, FS_Subset, FS_CardinalityType
  <2>2. n \notin Below(n)
    BY <1>3
  <2>3. Cardinality(Below(n) \cup {n}) = Cardinality(Below(n)) + 1
    BY <1>2, <2>2, FS_AddElement
  <2>4. Below(n) \cup {n} \in SUBSET U
    BY <1>3
  <2>5. Cardinality(Below(n) \cup {n}) <= Cardinality(U)
    BY <2>1, <2>4, FS_Subset
  <2> QED
    BY <1>2, <2>1, <2>3, <2>5
<1>4. ASSUME NEW n \in S, NEW m \in S, m < n
      PROVE  Cardinality(Below(m)) < Cardinality(Below(n))
  <2>0. n \in Nat /\ m \in Nat /\ \A x \in S : x \in Nat
    OBVIOUS
  <2>1. Below(n) \subseteq S /\ m \in Below(n)
    BY <1>4
  <2>2. \A x \in S : x < m => x < n
    BY <1>4, <2>0
  <2>3. Below(m) \subseteq Below(n)
    BY <2>2
  <2> QED
    BY <1>3, <2>1, <2>3
<1>5. \A n \in S : Cardinality(Below(n)) \in 0..N - 1
  <2>1. ASSUME NEW n \in S PROVE Cardinality(Below(n)) < N
    <3>1. Below(n) \subseteq S
      OBVIOUS
    <3> QED
      BY <1>3, <3>1
  <2> QED
    BY <1>1, <1>2, <2>1
<1>6. \A m, n \in S : m # n => Cardinality(Below(m)) # Cardinality(Below(n))
  <2>1. \A m, n \in S : m < n => Cardinality(Below(m)) # Cardinality(Below(n))
    BY <1>2, <1>4
  <2> QED
    BY <2>1
<1>7. rank \in Injection(S, 0..N - 1)
  BY <1>5, <1>6 DEF Injection, IsInjective
<1>8. IsFiniteSet(0..N - 1) /\ Cardinality(0..N - 1) = N
  <2> HIDE DEF N
  <2>1. 0 \in Int /\ N - 1 \in Int
    BY <1>1
  <2>2. /\ IsFiniteSet(0..N - 1)
        /\ Cardinality(0..N - 1) = IF 0 > N - 1 THEN 0 ELSE (N - 1) - 0 + 1
    BY <2>1, FS_Interval
  <2> QED
    BY <1>1, <2>2
<1>9. rank \in Surjection(S, 0..N - 1)
  BY <1>7, <1>8, FS_Injection
<1>10. \A k \in 1..N : \E n \in S : Cardinality(Below(n)) = k - 1
  <2>1. \A j \in 0..N - 1 : \E n \in S : rank[n] = j
    BY <1>9 DEF Surjection
  <2>2. \A k \in 1..N : k - 1 \in 0..N - 1
    BY <1>1
  <2> QED
    BY <2>1, <2>2
<1>11. \A k \in 1..N : InOrder(S)[k] \in S
  BY <1>10 DEF InOrder
<1>12. InOrder(S) \in [1..N -> S] /\ DOMAIN InOrder(S) = 1..N
  BY <1>11 DEF InOrder
<1> HIDE DEF N
<1> QED
  BY <1>1, <1>12 DEF N

\* What is left of a sequence has its members only.
LEMMA DroppingTyped ==
  ASSUME NEW T, NEW s \in Seq(T), NEW gone
  PROVE  Dropping(s, gone) \in Seq(T)
<1> DEFINE left == {i \in DOMAIN s : s[i] \notin gone}
<1>1. left \in SUBSET (1..Len(s)) /\ Len(s) \in Nat
  OBVIOUS
<1>2. IsFiniteSet(left) /\ left \subseteq Nat
  <2>1. 1 \in Int /\ Len(s) \in Int
    BY <1>1
  <2>2. IsFiniteSet(1..Len(s))
    BY <2>1, FS_Interval
  <2> QED
    BY <1>1, <2>2, FS_Subset
<1>3. InOrder(left) \in Seq(left) /\ DOMAIN InOrder(left) = 1..Cardinality(left)
      /\ Cardinality(left) \in Nat
  BY <1>2, InOrderTyped
<1>4. \A k \in DOMAIN InOrder(left) : InOrder(left)[k] \in left
  BY <1>3
<1>5. \A i \in left : s[i] \in T
  OBVIOUS
<1> HIDE DEF left
<1>6. Dropping(s, gone) = [k \in DOMAIN InOrder(left) |-> s[InOrder(left)[k]]]
  BY DEF Dropping, left
<1>7. Dropping(s, gone) \in [1..Cardinality(left) -> T]
  BY <1>3, <1>4, <1>5, <1>6
<1> QED
  BY <1>3, <1>7

-----------------------------------------------------------------------------
(* Certificates: types, and that passes exclude each other                 *)

PassPlaces == {"loads", "idle", "hosts", "starts", "derives", "selects", "persists", "orders",
               "saves", "publishes", "collects"}
PassRecord == [at : PassPlaces, hosts : SUBSET Hosts, todo : Seq(Targets),
               next : 0..TargetCount - 1, renews : BOOLEAN]

\* One target is in work, and who orders and does not renew has reconcileMu.
Ordering(g) ==
    /\ Len(pass[g].todo) <= TargetCount
    /\ pass[g].at \in {"derives", "selects", "persists"} => holder = g
    /\ pass[g].at \in {"orders", "saves", "publishes"} /\ ~ pass[g].renews => holder = g
    /\ pass[g].at \in {"saves", "publishes"} => pass[g].todo # <<>>

CertInv ==
    /\ routing \subseteq Hosts /\ required \subseteq Hosts
    /\ certs \in [Targets -> States] /\ stored \in [Targets -> States]
    /\ cursor \in 0..TargetCount - 1 /\ savedCursor \in 0..TargetCount - 1
    /\ holder \in Goroutines \cup {"nobody"}
    /\ pass \in [Goroutines -> PassRecord]
    /\ upsets \in 0..MaxUpsets
    /\ \A g \in Goroutines : Ordering(g)

\* What a goroutine does leaves the others where they are, and the mutex with them.
LEMMA OnePass ==
  ASSUME CertInv, NEW g \in Goroutines, NEW x \in PassRecord,
         pass' = [pass EXCEPT ![g] = x],
         holder' = holder \/ holder \in {"nobody", g},
         holder' \in Goroutines \cup {"nobody"},
         Len(x.todo) <= TargetCount,
         x.at \in {"derives", "selects", "persists"} => holder' = g,
         x.at \in {"orders", "saves", "publishes"} /\ ~ x.renews => holder' = g,
         x.at \in {"saves", "publishes"} => x.todo # <<>>,
         routing' \subseteq Hosts, required' \subseteq Hosts,
         certs' \in [Targets -> States], stored' \in [Targets -> States],
         cursor' \in 0..TargetCount - 1, savedCursor' \in 0..TargetCount - 1,
         upsets' \in 0..MaxUpsets
  PROVE  CertInv'
<1>1. pass' \in [Goroutines -> PassRecord] /\ pass'[g] = x
  BY DEF CertInv
<1>2. \A h \in Goroutines \ {g} : pass'[h] = pass[h]
  BY DEF CertInv
<1>3. Ordering(g)'
  BY <1>1 DEF Ordering
<1>4. ASSUME NEW h \in Goroutines \ {g} PROVE Ordering(h)'
  <2>1. Ordering(h) /\ pass'[h] = pass[h] /\ h \notin {"nobody", g}
    BY <1>2 DEF CertInv, Goroutines
  <2> QED
    BY <2>1 DEF Ordering
<1> QED
  BY <1>1, <1>3, <1>4 DEF CertInv

\* Where the mutex stays, so does its holder.
LEMMA CertRest ==
  ASSUME CertInv
  PROVE  /\ routing \subseteq Hosts /\ required \subseteq Hosts
         /\ certs \in [Targets -> States] /\ stored \in [Targets -> States]
         /\ cursor \in 0..TargetCount - 1 /\ savedCursor \in 0..TargetCount - 1
         /\ holder \in Goroutines \cup {"nobody"}
         /\ upsets \in 0..MaxUpsets
         /\ 0 \in 0..TargetCount - 1
         /\ Upsets => upsets' \in 0..MaxUpsets
<1>1. 0 \in 0..TargetCount - 1
  BY CertAssumption
<1>2. Upsets => upsets' \in 0..MaxUpsets
  BY CertAssumption DEF Upsets, CertInv
<1> QED
  BY <1>1, <1>2 DEF CertInv

LEMMA NoPassTyped ==
  ASSUME NEW at \in PassPlaces
  PROVE  /\ NoPass(at) \in PassRecord /\ NoPass(at).at = at
         /\ NoPass(at).todo = <<>> /\ NoPass(at).renews = FALSE
         /\ Len(<<>>) <= TargetCount
BY CertAssumption DEF NoPass, PassRecord

\* The next place of a pass, and the rest of its targets.
LEMMA PassMoves ==
  ASSUME CertInv, NEW g \in Goroutines, NEW at \in PassPlaces
  PROVE  /\ [pass[g] EXCEPT !.at = at] \in PassRecord
         /\ [pass[g] EXCEPT !.at = at].at = at
         /\ [pass[g] EXCEPT !.at = at].todo = pass[g].todo
         /\ [pass[g] EXCEPT !.at = at].renews = pass[g].renews
         /\ PassGoes(g, at) => pass' = [pass EXCEPT ![g] = [pass[g] EXCEPT !.at = at]]
<1>1. pass[g] \in PassRecord /\ pass \in [Goroutines -> PassRecord]
  BY DEF CertInv
<1>2. /\ [pass[g] EXCEPT !.at = at] \in PassRecord
      /\ [pass[g] EXCEPT !.at = at].at = at
      /\ [pass[g] EXCEPT !.at = at].todo = pass[g].todo
      /\ [pass[g] EXCEPT !.at = at].renews = pass[g].renews
  BY <1>1 DEF PassRecord
<1>3. PassGoes(g, at) => pass' = [pass EXCEPT ![g] = [pass[g] EXCEPT !.at = at]]
  BY <1>1 DEF PassGoes
<1> QED
  BY <1>2, <1>3

LEMMA NextTyped ==
  ASSUME CertInv, NEW g \in Goroutines, NextTarget(g), pass[g].todo # <<>>
  PROVE  \E x \in PassRecord :
            /\ pass' = [pass EXCEPT ![g] = x]
            /\ x.at = "orders" /\ x.renews = pass[g].renews /\ Len(x.todo) <= TargetCount
<1> DEFINE x == [[pass[g] EXCEPT !.at = "orders"] EXCEPT !.todo = Tail(pass[g].todo)]
<1>1. /\ pass[g] \in PassRecord /\ pass \in [Goroutines -> PassRecord]
      /\ Len(pass[g].todo) <= TargetCount /\ TargetCount \in Nat
  BY CertAssumption DEF CertInv, Ordering
<1>2. pass[g].todo \in Seq(Targets)
  BY <1>1 DEF PassRecord
<1>3. /\ Tail(pass[g].todo) \in Seq(Targets)
      /\ Len(Tail(pass[g].todo)) = Len(pass[g].todo) - 1 /\ Len(pass[g].todo) \in Nat
  BY <1>2, HeadTailProperties
<1>4. "orders" \in PassPlaces
  BY DEF PassPlaces
<1>5. /\ x \in PassRecord /\ x.at = "orders" /\ x.renews = pass[g].renews
      /\ x.todo = Tail(pass[g].todo)
  BY <1>1, <1>3, <1>4 DEF PassRecord
<1>6. pass' = [pass EXCEPT ![g] = x]
  BY <1>1 DEF NextTarget
<1> HIDE DEF x
<1>7. Len(x.todo) <= TargetCount
  BY <1>1, <1>3, <1>5
<1> QED
  BY <1>5, <1>6, <1>7

\* The missing targets are targets, each once at most.
LEMMA MissingTyped ==
  ASSUME NEW hosts \in SUBSET Hosts
  PROVE  /\ MissingTargets(hosts) \in Seq(Targets)
         /\ Len(MissingTargets(hosts)) <= TargetCount
<1> DEFINE missing == {t \in {TargetOf[h] : h \in hosts} : ~ Covered(t)}
<1>1. missing \in SUBSET Targets
  BY CertAssumption DEF Targets
<1>2. IsFiniteSet(Targets) /\ Cardinality(Targets) = TargetCount /\ Targets \subseteq Nat
  <2>1. 1 \in Int /\ TargetCount \in Int /\ TargetCount >= 1
    BY CertAssumption
  <2>2. /\ IsFiniteSet(1..TargetCount)
        /\ Cardinality(1..TargetCount) = IF 1 > TargetCount THEN 0 ELSE TargetCount - 1 + 1
    BY <2>1, FS_Interval
  <2>3. 1..TargetCount \subseteq Nat
    BY <2>1
  <2> QED
    BY <2>1, <2>2, <2>3 DEF Targets
<1>3. IsFiniteSet(missing) /\ Cardinality(missing) <= TargetCount /\ missing \subseteq Nat
  BY <1>1, <1>2, FS_Subset
<1> HIDE DEF missing
<1>4. /\ InOrder(missing) \in Seq(missing) /\ Len(InOrder(missing)) = Cardinality(missing)
  BY <1>3, InOrderTyped
<1>5. InOrder(missing) \in Seq(Targets)
  BY <1>1, <1>4
<1> QED
  BY <1>3, <1>4, <1>5 DEF MissingTargets, missing

\* A batch is of what is missing, and leaves the cursor in the range of the targets.
LEMMA BatchTyped ==
  ASSUME NEW missing \in Seq(Targets), Len(missing) <= TargetCount,
         cursor \in 0..TargetCount - 1
  PROVE  /\ SelectBatch(missing).batch \in Seq(Targets)
         /\ Len(SelectBatch(missing).batch) <= TargetCount
         /\ SelectBatch(missing).next \in 0..TargetCount - 1
<1> DEFINE count == Len(missing)
           start == cursor % count
<1>1. count \in Nat /\ count <= TargetCount /\ TargetCount \in Nat \ {0} /\ BatchSize \in Nat
      /\ cursor \in Nat
  BY CertAssumption
<1>2. CASE BatchSize >= count
  BY <1>1, <1>2 DEF SelectBatch
<1>3. CASE ~ BatchSize >= count
  <2>1. count \in Nat \ {0} /\ BatchSize < count
    BY <1>1, <1>3
  <2> HIDE DEF count
  <2>m. ASSUME NEW n \in Nat PROVE n % count \in 0..count - 1
    BY <2>1
  <2>2. start \in 0..count - 1
    BY <1>1, <2>m
  <2> HIDE DEF start
  <2>3. (start + BatchSize) % count \in 0..TargetCount - 1
    <3> DEFINE n == start + BatchSize
    <3>1. n \in Nat
      BY <1>1, <2>2
    <3> HIDE DEF n
    <3>2. n % count \in 0..count - 1
      BY <2>m, <3>1
    <3>3. 0..count - 1 \subseteq 0..TargetCount - 1
      BY <1>1, <2>1
    <3>4. n % count \in 0..TargetCount - 1
      BY <3>2, <3>3
    <3> QED
      BY <3>4 DEF n
  <2>4. \A k \in 1..BatchSize : ((start + k - 1) % count) + 1 \in 1..count
    <3>1. \A k \in 1..BatchSize : start + k - 1 \in Nat
      BY <1>1, <2>2
    <3>2. \A k \in 1..BatchSize : (start + k - 1) % count \in 0..count - 1
      BY <2>m, <3>1
    <3> QED
      BY <2>1, <3>2
  <2>5. [k \in 1..BatchSize |-> missing[((start + k - 1) % count) + 1]]
           \in [1..BatchSize -> Targets]
    <3>1. \A i \in 1..count : missing[i] \in Targets
      BY DEF count
    <3> QED
      BY <2>4, <3>1
  <2>6. SelectBatch(missing) =
          [batch |-> [k \in 1..BatchSize |-> missing[((start + k - 1) % count) + 1]],
           next |-> (start + BatchSize) % count]
    BY <1>3 DEF SelectBatch, count, start
  <2> QED
    BY <1>1, <2>1, <2>3, <2>5, <2>6
<1> QED
  BY <1>2, <1>3

\* A step of a pass.
LEMMA PassStepInv ==
  ASSUME CertInv, NEW g \in Goroutines, PassStep(g)
  PROVE  CertInv'
<1>r. /\ routing \subseteq Hosts /\ required \subseteq Hosts
      /\ certs \in [Targets -> States] /\ stored \in [Targets -> States]
      /\ cursor \in 0..TargetCount - 1 /\ savedCursor \in 0..TargetCount - 1
      /\ holder \in Goroutines \cup {"nobody"}
      /\ upsets \in 0..MaxUpsets
      /\ 0 \in 0..TargetCount - 1
      /\ Upsets => upsets' \in 0..MaxUpsets
  BY CertRest
<1>p. /\ pass[g] \in PassRecord /\ pass \in [Goroutines -> PassRecord] /\ Ordering(g)
      /\ {"idle", "derives", "selects", "persists", "orders", "saves", "publishes", "collects"}
            \subseteq PassPlaces
  BY DEF CertInv, PassPlaces
<1>w. Len(pass[g].todo) <= TargetCount /\ pass[g].todo \in Seq(Targets)
      /\ pass[g].hosts \in SUBSET Hosts /\ pass[g].next \in 0..TargetCount - 1
  BY <1>p DEF Ordering, PassRecord
<1>h. Head(pass[g].todo) \in Targets \/ pass[g].todo = <<>>
  BY <1>w, HeadTailProperties
<1>1. CASE Reconcile(g)
  <2> DEFINE x == [[pass[g] EXCEPT !.at = "derives"] EXCEPT !.hosts = routing]
  <2>1. x \in PassRecord /\ x.at = "derives" /\ x.todo = pass[g].todo
    BY <1>p, <1>r DEF PassRecord
  <2>2. pass' = [pass EXCEPT ![g] = x]
    BY <1>1, <1>p DEF Reconcile
  <2> HIDE DEF x
  <2> QED
    BY <1>1, <1>r, <1>w, <2>1, <2>2, OnePass DEF Reconcile
\* A pass that ends gives the mutex back.
<1>e. ASSUME PassEnds(g), holder' = "nobody", holder = g,
             UNCHANGED <<routing, required, certs, stored, cursor, savedCursor>>,
             upsets' \in 0..MaxUpsets
      PROVE  CertInv'
  <2>1. PICK at \in {"collects", "idle"} : pass' = [pass EXCEPT ![g] = NoPass(at)]
    BY <1>e DEF PassEnds
  <2>2. /\ NoPass(at) \in PassRecord /\ NoPass(at).at = at /\ NoPass(at).todo = <<>>
        /\ Len(NoPass(at).todo) <= TargetCount
    BY <1>p, NoPassTyped
  <2> QED
    BY <1>e, <1>r, <2>1, <2>2, OnePass
<1>2. CASE DerivesTargets(g)
  <2>1. holder = g
    BY <1>2, <1>p DEF DerivesTargets, Ordering
  <2>2. CASE PassGoes(g, "selects") /\ UNCHANGED <<holder, upsets>>
    <3> DEFINE x == [pass[g] EXCEPT !.at = "selects"]
    <3>1. x \in PassRecord /\ x.at = "selects" /\ x.todo = pass[g].todo
          /\ pass' = [pass EXCEPT ![g] = x]
      BY <1>p, <2>2, PassMoves
    <3> HIDE DEF x
    <3> QED
      BY <1>2, <1>r, <1>w, <2>1, <2>2, <3>1, OnePass DEF DerivesTargets
  <2>3. CASE Upsets /\ PassEnds(g) /\ holder' = "nobody"
    BY <1>2, <1>r, <1>e, <2>1, <2>3 DEF DerivesTargets
  <2> QED
    BY <1>2, <2>2, <2>3 DEF DerivesTargets
<1>3. CASE SelectsTargets(g)
  <2> DEFINE chosen == SelectBatch(MissingTargets(pass[g].hosts))
             base(at) == NoPass(at)
             x(at)  == [[NoPass(at) EXCEPT !.todo = chosen.batch] EXCEPT !.next = chosen.next]
  <2>1. /\ chosen.batch \in Seq(Targets) /\ Len(chosen.batch) <= TargetCount
        /\ chosen.next \in 0..TargetCount - 1
    BY <1>r, <1>w, MissingTyped, BatchTyped
  <2>2. PICK at \in {"orders", "persists"} : pass' = [pass EXCEPT ![g] = x(at)]
    BY <1>3 DEF SelectsTargets
  <2> HIDE DEF chosen
  <2>3. x(at) \in PassRecord /\ x(at).at = at /\ x(at).todo = chosen.batch
    BY <1>p, <2>1, NoPassTyped DEF PassRecord
  <2>4. holder = g /\ UNCHANGED <<routing, required, certs, stored, cursor, savedCursor, holder, upsets>>
    BY <1>3, <1>p DEF SelectsTargets, Ordering
  <2> HIDE DEF x
  <2> QED
    BY <1>r, <2>1, <2>2, <2>3, <2>4, OnePass
<1>4. CASE PersistsCursor(g)
  <2> DEFINE x == [[pass[g] EXCEPT !.at = "orders"] EXCEPT !.next = 0]
  <2>1. x \in PassRecord /\ x.at = "orders" /\ x.todo = pass[g].todo
    BY <1>p, <1>r DEF PassRecord
  <2>2. pass' = [pass EXCEPT ![g] = x]
    BY <1>4, <1>p DEF PersistsCursor
  <2>3. holder = g /\ UNCHANGED <<routing, required, certs, stored, holder, upsets>>
    BY <1>4, <1>p DEF PersistsCursor, Ordering
  <2>4. cursor' \in 0..TargetCount - 1 /\ savedCursor' \in 0..TargetCount - 1
    BY <1>4, <1>r, <1>w DEF PersistsCursor
  <2> HIDE DEF x
  <2> QED
    BY <1>r, <1>w, <2>1, <2>2, <2>3, <2>4, OnePass
\* To the next target, or the next place with this one.
<1>n. ASSUME NextTarget(g), pass[g].todo # <<>>, pass[g].at \in {"orders", "saves", "publishes"},
             UNCHANGED <<routing, required, cursor, savedCursor, holder, upsets>>,
             certs' \in [Targets -> States], stored' \in [Targets -> States]
      PROVE  CertInv'
  <2>1. PICK x \in PassRecord :
            /\ pass' = [pass EXCEPT ![g] = x]
            /\ x.at = "orders" /\ x.renews = pass[g].renews /\ Len(x.todo) <= TargetCount
    BY <1>n, NextTyped
  <2>2. ~ x.renews => holder = g
    BY <1>n, <1>p, <2>1 DEF Ordering
  <2> QED
    BY <1>n, <1>r, <2>1, <2>2, OnePass
<1>g. ASSUME NEW at \in {"saves", "publishes"}, PassGoes(g, at), pass[g].todo # <<>>,
             pass[g].at \in {"orders", "saves", "publishes"},
             UNCHANGED <<routing, required, certs, cursor, savedCursor, holder, upsets>>,
             stored' \in [Targets -> States]
      PROVE  CertInv'
  <2> DEFINE x == [pass[g] EXCEPT !.at = at]
  <2>1. x \in PassRecord /\ x.at = at /\ x.todo = pass[g].todo /\ x.renews = pass[g].renews
        /\ pass' = [pass EXCEPT ![g] = x]
    BY <1>g, <1>p, PassMoves
  <2> HIDE DEF x
  <2>2. ~ x.renews => holder = g
    BY <1>g, <1>p, <2>1 DEF Ordering
  <2> QED
    BY <1>g, <1>r, <1>w, <2>1, <2>2, OnePass
<1>5. CASE OrdersCertificate(g)
  BY <1>5, <1>r, <1>n, <1>g DEF OrdersCertificate
<1>v. ASSUME pass[g].todo # <<>>
      PROVE  /\ [stored EXCEPT ![Head(pass[g].todo)] = "valid"] \in [Targets -> States]
             /\ [certs EXCEPT ![Head(pass[g].todo)] = "valid"] \in [Targets -> States]
  BY <1>r, <1>h, <1>v DEF States
<1>6. CASE SavesCertificate(g)
  <2>1. pass[g].todo # <<>> /\ stored' \in [Targets -> States]
    BY <1>6, <1>p, <1>r, <1>v DEF SavesCertificate, Ordering
  <2> QED
    BY <1>6, <1>r, <1>n, <1>g, <2>1 DEF SavesCertificate
<1>7. CASE UsesCertificate(g)
  <2>1. pass[g].todo # <<>> /\ certs' \in [Targets -> States]
    BY <1>7, <1>p, <1>v DEF UsesCertificate, Ordering
  <2> QED
    BY <1>7, <1>r, <1>n, <2>1 DEF UsesCertificate
<1>8. CASE ReconcileReturns(g)
  <2>1. holder = g
    BY <1>8, <1>p DEF ReconcileReturns, Ordering
  <2> QED
    BY <1>8, <1>r, <1>e, <2>1 DEF ReconcileReturns
<1> QED
  BY <1>1, <1>2, <1>3, <1>4, <1>5, <1>6, <1>7, <1>8 DEF PassStep

LEMMA CertInvNext ==
  ASSUME CertInv, [CertNext]_certVars
  PROVE  CertInv'
<1>r. /\ routing \subseteq Hosts /\ required \subseteq Hosts
      /\ certs \in [Targets -> States] /\ stored \in [Targets -> States]
      /\ cursor \in 0..TargetCount - 1 /\ savedCursor \in 0..TargetCount - 1
      /\ holder \in Goroutines \cup {"nobody"}
      /\ upsets \in 0..MaxUpsets
      /\ 0 \in 0..TargetCount - 1
      /\ Upsets => upsets' \in 0..MaxUpsets
  BY CertRest
<1>p. /\ pass \in [Goroutines -> PassRecord]
      /\ \A g \in Goroutines : Ordering(g) /\ pass[g] \in PassRecord
      /\ "main" \in Goroutines /\ "reload" \in Goroutines
      /\ {"loads", "idle", "hosts", "starts", "orders"} \subseteq PassPlaces
  BY DEF CertInv, PassPlaces, Goroutines
<1>w. \A g \in Goroutines : Len(pass[g].todo) <= TargetCount
  BY <1>p DEF Ordering
\* Out of the section, or into it from before.
<1>g. ASSUME NEW g \in Goroutines, NEW at \in {"idle", "hosts", "starts"}, PassGoes(g, at),
             UNCHANGED holder, routing' \subseteq Hosts, required' \subseteq Hosts,
             certs' \in [Targets -> States], stored' \in [Targets -> States],
             cursor' \in 0..TargetCount - 1, savedCursor' \in 0..TargetCount - 1,
             upsets' \in 0..MaxUpsets
      PROVE  CertInv'
  <2> DEFINE x == [pass[g] EXCEPT !.at = at]
  <2>1. x \in PassRecord /\ x.at = at /\ x.todo = pass[g].todo
        /\ pass' = [pass EXCEPT ![g] = x]
    BY <1>g, <1>p, PassMoves
  <2> HIDE DEF x
  <2> QED
    BY <1>g, <1>r, <1>w, <2>1, OnePass
<1>1. CASE LoadsStored
  <2>1. /\ required' \subseteq Hosts /\ certs' \in [Targets -> States]
        /\ cursor' \in 0..TargetCount - 1 /\ upsets' \in 0..MaxUpsets
    BY <1>1, <1>r DEF LoadsStored
  <2> QED
    BY <1>1, <1>r, <1>p, <1>g, <2>1 DEF LoadsStored
<1>2. ASSUME NEW g \in Goroutines, PassStep(g) PROVE CertInv'
  BY <1>2, PassStepInv
<1>3. CASE CollectsDue
  <2>1. PICK aged \in SetToSeqs({t \in Targets : certs[t] \in {"due", "expired"}}) :
          pass' = [pass EXCEPT !["main"] = [[NoPass("orders") EXCEPT !.todo = aged]
                                              EXCEPT !.renews = TRUE]]
    BY <1>3 DEF CollectsDue
  <2>2. aged \in Seq(Targets) /\ Len(aged) <= TargetCount
    <3> DEFINE old == {t \in Targets : certs[t] \in {"due", "expired"}}
    <3>1. aged \in [1..Cardinality(old) -> old]
      BY <2>1 DEF SetToSeqs
    <3>2. IsFiniteSet(Targets) /\ Cardinality(Targets) = TargetCount
      <4>1. 1 \in Int /\ TargetCount \in Int /\ TargetCount >= 1
        BY CertAssumption
      <4>2. /\ IsFiniteSet(1..TargetCount)
            /\ Cardinality(1..TargetCount) = IF 1 > TargetCount THEN 0
                                             ELSE TargetCount - 1 + 1
        BY <4>1, FS_Interval
      <4> QED
        BY <4>1, <4>2 DEF Targets
    <3>3. old \in SUBSET Targets
      OBVIOUS
    <3> HIDE DEF old
    <3>4. Cardinality(old) \in Nat /\ Cardinality(old) <= TargetCount
      BY <3>2, <3>3, FS_Subset, FS_CardinalityType
    <3>5. aged \in [1..Cardinality(old) -> Targets]
      BY <3>1, <3>3
    <3> QED
      BY <3>4, <3>5
  <2> DEFINE x == [[NoPass("orders") EXCEPT !.todo = aged] EXCEPT !.renews = TRUE]
  <2>3. x \in PassRecord /\ x.at = "orders" /\ x.todo = aged /\ x.renews = TRUE
    <3> DEFINE y == NoPass("orders")
    <3> DEFINE z == [y EXCEPT !.todo = aged]
    <3>1. y \in PassRecord /\ y.at = "orders"
      BY NoPassTyped DEF PassPlaces
    <3>2. x = [z EXCEPT !.renews = TRUE]
      OBVIOUS
    <3> HIDE DEF y, x
    <3>3. z \in PassRecord /\ z.at = "orders" /\ z.todo = aged
      BY <2>2, <3>1 DEF PassRecord
    <3> HIDE DEF z
    <3>4. TRUE \in BOOLEAN
      OBVIOUS
    <3> QED
      BY <3>2, <3>3, <3>4 DEF PassRecord
  <2>4. pass' = [pass EXCEPT !["main"] = x]
    BY <2>1
  <2>5. UNCHANGED <<routing, required, certs, stored, cursor, savedCursor, holder, upsets>>
    BY <1>3 DEF CollectsDue
  <2> HIDE DEF x
  <2> QED
    BY <1>p, <1>r, <2>2, <2>3, <2>4, <2>5, OnePass
<1>4. CASE RenewalsEnd
  <2>1. /\ NoPass("idle") \in PassRecord /\ NoPass("idle").at = "idle"
        /\ Len(NoPass("idle").todo) <= TargetCount
    BY <1>p, NoPassTyped
  <2> QED
    BY <1>4, <1>p, <1>r, <2>1, OnePass DEF RenewalsEnd
<1>5. CASE Ticks
  BY <1>5, <1>p, <1>r, <1>g DEF Ticks
<1>6. CASE SetAdditionalHosts
  BY <1>6, <1>p, <1>r, <1>g DEF SetAdditionalHosts
<1>7. CASE ReloadBegins
  BY <1>7, <1>p, <1>r, <1>g DEF ReloadBegins
\* Nobody goes on.
<1>s. ASSUME UNCHANGED <<pass, holder>>, routing' \subseteq Hosts, UNCHANGED required,
             certs' \in [Targets -> States], stored' \in [Targets -> States],
             UNCHANGED <<cursor, savedCursor>>, upsets' \in 0..MaxUpsets
      PROVE  CertInv'
  <2>1. \A g \in Goroutines : Ordering(g)'
    BY <1>s, <1>p DEF Ordering
  <2> QED
    BY <1>s, <1>r, <1>p, <2>1 DEF CertInv
<1>8. CASE ChangesRouting
  BY <1>8, <1>r, <1>s DEF ChangesRouting
<1>9. ASSUME NEW t \in Targets, GrowsOld(t) PROVE CertInv'
  <2>1. \A state \in States : Older(state) \in States
    BY DEF Older, States
  <2>2. certs' \in [Targets -> States] /\ stored' \in [Targets -> States]
    BY <1>9, <1>r, <2>1 DEF GrowsOld
  <2> QED
    BY <1>9, <1>r, <1>s, <2>2 DEF GrowsOld
<1>10. CASE Restarts
  <2>1. \A g \in Goroutines : \E at \in {"loads", "idle"} : pass'[g] = NoPass(at)
    BY <1>10 DEF Restarts
  <2>2. \A at \in {"loads", "idle"} :
           NoPass(at) \in PassRecord /\ NoPass(at).at = at /\ Len(NoPass(at).todo) <= TargetCount
    BY <1>p, NoPassTyped
  <2>3. \A g \in Goroutines : Ordering(g)'
    BY <2>1, <2>2 DEF Ordering
  <2>4. pass' \in [Goroutines -> PassRecord]
    BY <1>10, <2>2 DEF Restarts
  <2>5. certs' \in [Targets -> States]
    BY <1>10 DEF Restarts, States
  <2> QED
    BY <1>10, <1>r, <2>3, <2>4, <2>5 DEF Restarts, CertInv
<1>11. CASE UNCHANGED certVars
  BY <1>11, <1>r, <1>s DEF certVars
<1> QED
  BY <1>1, <1>2, <1>3, <1>4, <1>5, <1>6, <1>7, <1>8, <1>9, <1>10, <1>11, <1>p
  DEF CertNext, MainStep, ReloadStep

LEMMA CertInvInit == CertInit => CertInv
<1> SUFFICES ASSUME CertInit PROVE CertInv
  OBVIOUS
<1>1. \A at \in {"loads", "idle"} :
         NoPass(at) \in PassRecord /\ NoPass(at).at = at /\ Len(NoPass(at).todo) <= TargetCount
  BY NoPassTyped DEF PassPlaces
<1>2. \A g \in Goroutines : \E at \in {"loads", "idle"} : pass[g] = NoPass(at)
  BY DEF CertInit
<1>3. \A g \in Goroutines : Ordering(g)
  BY <1>1, <1>2 DEF Ordering
<1>4. pass \in [Goroutines -> PassRecord]
  BY <1>1 DEF CertInit
<1>5. certs \in [Targets -> States] /\ stored \in [Targets -> States]
  BY DEF CertInit, States
<1>6. /\ cursor \in 0..TargetCount - 1 /\ savedCursor \in 0..TargetCount - 1
      /\ upsets \in 0..MaxUpsets
  BY CertAssumption DEF CertInit
<1> QED
  BY <1>3, <1>4, <1>5, <1>6 DEF CertInit, CertInv

LEMMA CertTyped == CertInv => CertTypeOK
<1> SUFFICES ASSUME CertInv PROVE CertTypeOK
  OBVIOUS
<1>1. ASSUME NEW g \in Goroutines
      PROVE  /\ pass[g].at \in {"loads", "idle", "hosts", "starts", "derives", "selects",
                                "persists", "orders", "saves", "publishes", "collects"}
             /\ pass[g].hosts \subseteq Hosts
             /\ pass[g].todo \in Seq(Targets) /\ Len(pass[g].todo) <= TargetCount
             /\ pass[g].next \in 0..TargetCount - 1
             /\ pass[g].at \in {"derives", "selects", "persists"} => holder = g
  BY DEF CertInv, PassRecord, PassPlaces, Ordering
<1>2. \A g \in Goroutines : pass[g].renews \in BOOLEAN
  BY DEF CertInv, PassRecord
<1> QED
  BY <1>1, <1>2 DEF CertInv, CertTypeOK

-----------------------------------------------------------------------------
(* Attachments: types                                                      *)

AttachmentItem == [service : Services, version : AttachmentImages]
DeployRecord == [at : Places, todo : Seq(AttachmentItem), id : 0..MaxIds, deployed : Seq(Ids)]
ListRecord   == [at : {"idle", "stores", "restarts"}, seen : Seq(Ids), restart : BOOLEAN]
BoxRecord    == [id : Ids, version : AttachmentImages, status : {"stopped", "running"}]

\* A deploy has an attachment in work, with its container where it acts on one, and
\* remembers only ids that were given, of which there are n.
DeployFits(d, n) ==
    /\ d \in DeployRecord
    /\ d.deployed \in Seq(1..n)
    /\ d.at \in {"finds", "stops", "removes", "creates", "starts", "waits"} => d.todo # <<>>
    /\ d.at \in {"stops", "removes", "starts", "waits"} => d.id \in 1..n

\* There is a container of each service or none, of an id that was given.
BoxesFit(n) ==
    /\ attachment \in [Services -> {NoBox} \cup BoxRecord]
    /\ \A s \in Services : attachment[s].id <= n

\* Whatever remembers an id remembers one that was given.
RestFits(n) ==
    /\ tracked \in Seq(1..n)
    /\ listing \in ListRecord /\ listing.seen \in Seq(1..n)
    /\ orphans \subseteq 1..n
    /\ relied \subseteq 1..n

AttachmentsInv ==
    /\ wanted \in [Services -> {0} \cup AttachmentImages]
    /\ network \in BOOLEAN
    /\ born \in 0..MaxIds
    /\ misses \in [faults : 0..MaxFailing, reconfigs : 0..MaxReconfigs]
    /\ DeployFits(routeDeploy, born)
    /\ BoxesFit(born)
    /\ RestFits(born)

LEMMA AttachmentsInvInit == AttachmentsInit => AttachmentsInv
<1> SUFFICES ASSUME AttachmentsInit PROVE AttachmentsInv
  OBVIOUS
<1>1. wanted \in [Services -> {0} \cup AttachmentImages]
  BY DEF AttachmentsInit
<1>2. born \in 0..MaxIds
      /\ misses \in [faults : 0..MaxFailing, reconfigs : 0..MaxReconfigs]
  BY AttachmentAssumption DEF AttachmentsInit
<1>6. network \in BOOLEAN
  BY DEF AttachmentsInit
<1>3. DeployFits(routeDeploy, born)
  BY AttachmentAssumption DEF AttachmentsInit, DeployFits, DeployRecord, NoDeploy, Places
<1>4. BoxesFit(born)
  BY DEF AttachmentsInit, BoxesFit, NoBox
<1>5. RestFits(born)
  BY DEF AttachmentsInit, RestFits, NoList, ListRecord
<1> QED
  BY <1>1, <1>2, <1>3, <1>4, <1>5, <1>6 DEF AttachmentsInv

\* The numbers that were given stay so.
LEMMA NumbersStay ==
  ASSUME NEW n \in 0..MaxIds, NEW m \in 0..MaxIds, n <= m
  PROVE  /\ 1..n \subseteq 1..m /\ Seq(1..n) \subseteq Seq(1..m)
         /\ 1..n \subseteq Ids /\ Seq(1..n) \subseteq Seq(Ids)
<1>1. 1..n \subseteq 1..m /\ 1..n \subseteq 1..MaxIds
  BY AttachmentAssumption
<1>2. ASSUME NEW S, NEW T, S \subseteq T PROVE Seq(S) \subseteq Seq(T)
  BY <1>2
<1> QED
  BY <1>1, <1>2 DEF Ids

\* A spent counter stays within its bound.
LEMMA MissesStay ==
  ASSUME misses \in [faults : 0..MaxFailing, reconfigs : 0..MaxReconfigs]
  PROVE  /\ CallFails => misses' \in [faults : 0..MaxFailing, reconfigs : 0..MaxReconfigs]
         /\ Spends("reconfigs", MaxReconfigs) =>
               misses' \in [faults : 0..MaxFailing, reconfigs : 0..MaxReconfigs]
         /\ UNCHANGED misses =>
               misses' \in [faults : 0..MaxFailing, reconfigs : 0..MaxReconfigs]
         /\ \A can : Works(can) \/ DoesNot(can) =>
               misses' \in [faults : 0..MaxFailing, reconfigs : 0..MaxReconfigs]
<1>1. CallFails => misses' \in [faults : 0..MaxFailing, reconfigs : 0..MaxReconfigs]
  BY AttachmentAssumption DEF CallFails, Spends
<1>2. Spends("reconfigs", MaxReconfigs) =>
         misses' \in [faults : 0..MaxFailing, reconfigs : 0..MaxReconfigs]
  BY AttachmentAssumption DEF Spends
<1> QED
  BY <1>1, <1>2 DEF Works, DoesNot

\* The containers after a call that changes the status of some or removes some.
LEMMA BoxesStay ==
  ASSUME NEW n \in 0..MaxIds, BoxesFit(n), NEW ids, NEW status \in {"stopped", "running"}
  PROVE  /\ SetStatus(ids, status) /\ 0 \notin ids => BoxesFit(n)'
         /\ RemoveContainer(ids) => BoxesFit(n)'
         /\ UNCHANGED attachment => BoxesFit(n)'
<1>1. /\ \A s \in Services : attachment[s] \in {NoBox} \cup BoxRecord
      /\ \A s \in Services : attachment[s].id <= n
  BY DEF BoxesFit
<1>2. \A s \in Services : attachment[s].id # 0 => attachment[s] \in BoxRecord
  BY <1>1 DEF NoBox
<1>3. \A x \in BoxRecord : /\ [x EXCEPT !.status = status] \in BoxRecord
                           /\ [x EXCEPT !.status = status].id = x.id
  BY DEF BoxRecord
<1>4. ASSUME SetStatus(ids, status), 0 \notin ids PROVE BoxesFit(n)'
  <2>1. \A s \in Services : attachment[s].id \in ids => attachment[s] \in BoxRecord
    BY <1>2, <1>4
  <2>2. ASSUME NEW s \in Services
        PROVE  attachment'[s] \in {NoBox} \cup BoxRecord /\ attachment'[s].id <= n
    BY <1>1, <1>3, <1>4, <2>1 DEF SetStatus
  <2>3. attachment' = [s \in Services |-> attachment'[s]]
    BY <1>4 DEF SetStatus
  <2> QED
    BY <2>2, <2>3 DEF BoxesFit
<1>5. ASSUME RemoveContainer(ids) PROVE BoxesFit(n)'
  <2>1. NoBox.id <= n
    BY DEF NoBox
  <2>2. ASSUME NEW s \in Services
        PROVE  attachment'[s] \in {NoBox} \cup BoxRecord /\ attachment'[s].id <= n
    BY <1>1, <1>5, <2>1 DEF RemoveContainer
  <2>3. attachment' = [s \in Services |-> attachment'[s]]
    BY <1>5 DEF RemoveContainer
  <2> QED
    BY <2>2, <2>3 DEF BoxesFit
<1> QED
  BY <1>4, <1>5 DEF BoxesFit

\* The next place of a deploy, and the container it goes on with.
LEMMA DeployFitsOn ==
  ASSUME NEW n \in 0..MaxIds, NEW d, DeployFits(d, n), NEW at \in Places,
         at \in {"finds", "stops", "removes", "creates", "starts", "waits"} => d.todo # <<>>
  PROVE  /\ (at \in {"stops", "removes", "starts", "waits"} => d.id \in 1..n)
               => DeployFits([d EXCEPT !.at = at], n)
         /\ \A id \in 0..n :
               (at \in {"stops", "removes", "starts", "waits"} => id # 0)
               => DeployFits([d EXCEPT !.at = at, !.id = id], n)
         /\ DeployFits(NoDeploy, n)
<1>1. (at \in {"stops", "removes", "starts", "waits"} => d.id \in 1..n)
         => DeployFits([d EXCEPT !.at = at], n)
  BY DEF DeployFits, DeployRecord
<1>2. ASSUME NEW id \in 0..n, at \in {"stops", "removes", "starts", "waits"} => id # 0
      PROVE  DeployFits([d EXCEPT !.at = at, !.id = id], n)
  <2>1. id \in 0..MaxIds /\ (id # 0 => id \in 1..n)
    BY AttachmentAssumption
  <2> DEFINE y == [d EXCEPT !.at = at]
             x == [y EXCEPT !.id = id]
  <2>2. y \in DeployRecord /\ y.at = at /\ y.todo = d.todo /\ y.deployed = d.deployed
    BY DEF DeployFits, DeployRecord
  <2>3. [d EXCEPT !.at = at, !.id = id] = x
    OBVIOUS
  <2> HIDE DEF y
  <2>4. x \in DeployRecord /\ x.at = at /\ x.todo = d.todo /\ x.deployed = d.deployed
        /\ x.id = id
    BY <2>1, <2>2 DEF DeployRecord
  <2> HIDE DEF x
  <2> QED
    BY <1>2, <2>1, <2>3, <2>4 DEF DeployFits
<1>3. DeployFits(NoDeploy, n)
  BY AttachmentAssumption DEF DeployFits, DeployRecord, NoDeploy, Places
<1> QED
  BY <1>1, <1>2, <1>3

\* The deploy that goes on to the next attachment.
LEMMA AdvanceFits ==
  ASSUME NEW n \in 0..MaxIds, DeployFits(routeDeploy, n), routeDeploy.todo # <<>>,
         NEW ids \in Seq(1..n), Advances(ids)
  PROVE  DeployFits(routeDeploy', n)
<1> DEFINE at == IF Rest = <<>> THEN "runs" ELSE "finds"
           done == IF ids = <<>> THEN routeDeploy.deployed
                   ELSE Append(routeDeploy.deployed, Last(ids))
           y == [routeDeploy EXCEPT !.at = at]
           z == [y EXCEPT !.todo = Rest]
           x == [z EXCEPT !.deployed = done]
<1>1. Rest \in Seq(AttachmentItem)
  BY DEF DeployFits, DeployRecord, Rest
<1>2. done \in Seq(1..n)
  <2>1. CASE ids = <<>>
    BY <2>1 DEF DeployFits
  <2>2. CASE ids # <<>>
    <3>1. Len(ids) \in 1..Len(ids)
      BY <2>2
    <3>2. Last(ids) \in 1..n
      BY <3>1 DEF Last
    <3> QED
      BY <2>2, <3>2 DEF DeployFits
  <2> QED
    BY <2>1, <2>2
<1>3. done \in Seq(Ids)
  <2>1. n <= n
    OBVIOUS
  <2> QED
    BY <1>2, <2>1, NumbersStay
<1>4. routeDeploy' = x
  BY DEF Advances
<1>5. at \in Places /\ (at = "finds" => Rest # <<>>) /\ at \in {"runs", "finds"}
  BY DEF Places
<1> HIDE DEF at, done
<1>6. y \in DeployRecord /\ y.at = at
  BY <1>5 DEF DeployFits, DeployRecord
<1> HIDE DEF y
<1>7. z \in DeployRecord /\ z.at = at /\ z.todo = Rest
  BY <1>1, <1>6 DEF DeployRecord
<1> HIDE DEF z
<1>8. x \in DeployRecord /\ x.at = at /\ x.todo = Rest /\ x.deployed = done
  BY <1>3, <1>7 DEF DeployRecord
<1> HIDE DEF x
<1> QED
  BY <1>2, <1>4, <1>5, <1>8 DEF DeployFits

\* The configured attachments, in order.
LEMMA ConfiguredTyped ==
  ASSUME wanted \in [Services -> {0} \cup AttachmentImages]
  PROVE  Configured \in Seq(AttachmentItem)
<1> DEFINE used == InOrder({s \in Services : wanted[s] # 0})
           S == {s \in Services : wanted[s] # 0}
<1>1. IsFiniteSet(S) /\ S \subseteq Nat /\ S \subseteq Services
  <2>1. 1 \in Int /\ AttachmentCount \in Int
    BY AttachmentAssumption
  <2>2. IsFiniteSet(Services) /\ Services \subseteq Nat
    BY <2>1, FS_Interval, AttachmentAssumption DEF Services
  <2>3. S \in SUBSET Services
    OBVIOUS
  <2> QED
    BY <2>2, <2>3, FS_Subset
<1>2. used \in Seq(S) /\ DOMAIN used = 1..Cardinality(S) /\ Cardinality(S) \in Nat
  BY <1>1, InOrderTyped
<1>3. \A k \in DOMAIN used : used[k] \in Services /\ wanted[used[k]] \in AttachmentImages
  <2>1. \A k \in DOMAIN used : used[k] \in S
    BY <1>2
  <2> QED
    BY <2>1
<1> HIDE DEF used
<1>4. Configured = [k \in 1..Cardinality(S) |->
                       [service |-> used[k], version |-> wanted[used[k]]]]
  BY <1>2 DEF Configured, used
<1> HIDE DEF S
<1>5. \A k \in 1..Cardinality(S) :
         [service |-> used[k], version |-> wanted[used[k]]] \in AttachmentItem
  BY <1>2, <1>3 DEF AttachmentItem
<1> QED
  BY <1>2, <1>4, <1>5

\* A step of the deploy, every one of which keeps the remembered ids among those given.
LEMMA DeployStepInv ==
  ASSUME AttachmentsInv, DeployStep
  PROVE  AttachmentsInv'
<1>i. /\ wanted \in [Services -> {0} \cup AttachmentImages]
      /\ network \in BOOLEAN
      /\ born \in 0..MaxIds
      /\ misses \in [faults : 0..MaxFailing, reconfigs : 0..MaxReconfigs]
      /\ DeployFits(routeDeploy, born)
      /\ BoxesFit(born)
      /\ RestFits(born)
  BY DEF AttachmentsInv
\* No container is made, and nothing but the deploy remembers anything new.
<1>s. ASSUME UNCHANGED <<wanted, born>>, network' \in BOOLEAN,
             misses' \in [faults : 0..MaxFailing, reconfigs : 0..MaxReconfigs],
             DeployFits(routeDeploy', born), BoxesFit(born)', RestFits(born)'
      PROVE  AttachmentsInv'
  BY <1>i, <1>s DEF AttachmentsInv, BoxesFit, RestFits
<1>b. UNCHANGED <<attachment, born>> => BoxesFit(born)'
  BY <1>i DEF BoxesFit
<1>r. UNCHANGED <<tracked, listing, orphans, relied, born>> => RestFits(born)'
  BY <1>i DEF RestFits
<1>o. routeDeploy.at \in {"stops", "removes", "starts", "waits"} =>
         Own \in 1..born /\ routeDeploy.todo # <<>>
  BY <1>i DEF DeployFits, Own
<1>n. DeployFits(NoDeploy, born)
  BY <1>i, DeployFitsOn DEF Places
<1>a. ASSUME NEW at \in {"network", "connects", "resolves", "undoes", "runs"}
      PROVE  DeployFits([routeDeploy EXCEPT !.at = at], born)
  BY <1>i, DeployFitsOn DEF Places
<1>c. ASSUME NEW at \in {"finds", "creates"}, routeDeploy.todo # <<>>
      PROVE  DeployFits([routeDeploy EXCEPT !.at = at], born)
  BY <1>c, <1>i, DeployFitsOn DEF Places
<1>e. ASSUME NEW at \in {"stops", "removes", "starts", "waits"}, routeDeploy.todo # <<>>,
             Own \in 1..born
      PROVE  DeployFits([routeDeploy EXCEPT !.at = at], born)
  BY <1>e, <1>i, DeployFitsOn DEF Places, Own
<1>1. CASE CallDeploy
  <2>1. DeployFits(routeDeploy', born)
    BY <1>1, <1>a DEF CallDeploy, DeployGoes
  <2> QED
    BY <1>1, <1>i, <1>s, <1>b, <1>r, <2>1 DEF CallDeploy
<1>2. CASE FindsNetwork
  <2>1. DeployFits(routeDeploy', born)
    BY <1>2, <1>a, <1>n DEF FindsNetwork, DeployGoes
  <2>2. misses' \in [faults : 0..MaxFailing, reconfigs : 0..MaxReconfigs]
    BY <1>2, <1>i, MissesStay DEF FindsNetwork
  <2> QED
    BY <1>2, <1>i, <1>s, <1>b, <1>r, <2>1, <2>2 DEF FindsNetwork
<1>3. CASE MakesNetwork
  <2>1. DeployFits(routeDeploy', born)
    BY <1>3, <1>a, <1>n DEF MakesNetwork, DeployGoes
  <2>2. misses' \in [faults : 0..MaxFailing, reconfigs : 0..MaxReconfigs]
    BY <1>3, <1>i, MissesStay DEF MakesNetwork
  <2>3. network' \in BOOLEAN
    BY <1>3, <1>i DEF MakesNetwork
  <2>4. UNCHANGED <<wanted, attachment, born, tracked, orphans, listing, relied>>
    BY <1>3 DEF MakesNetwork
  <2> QED
    BY <1>s, <1>b, <1>r, <2>1, <2>2, <2>3, <2>4
<1>4. CASE ResolvesAttachments
  <2> DEFINE at == IF Configured = <<>> THEN "runs" ELSE "finds"
             y == [routeDeploy EXCEPT !.at = at]
             x == [y EXCEPT !.todo = Configured]
  <2>1. Configured \in Seq(AttachmentItem)
    BY <1>i, ConfiguredTyped
  <2>2. routeDeploy' = x
    BY <1>4 DEF ResolvesAttachments
  <2>3. at \in Places /\ at \in {"runs", "finds"} /\ (at = "finds" => Configured # <<>>)
    BY DEF Places
  <2> HIDE DEF at
  <2>4. y \in DeployRecord /\ y.at = at /\ y.deployed = routeDeploy.deployed
    BY <1>i, <2>3 DEF DeployFits, DeployRecord
  <2> HIDE DEF y
  <2>5. x \in DeployRecord /\ x.at = at /\ x.todo = Configured
        /\ x.deployed = routeDeploy.deployed
    BY <2>1, <2>4 DEF DeployRecord
  <2> HIDE DEF x
  <2>6. DeployFits(routeDeploy', born)
    BY <1>i, <2>2, <2>3, <2>5 DEF DeployFits
  <2> QED
    BY <1>4, <1>i, <1>s, <1>b, <1>r, <2>6 DEF ResolvesAttachments
<1>5. CASE FindsAttachment
  <2> DEFINE step == Handled(Found, Wanted.version)
  <2>0. routeDeploy.at = "finds" /\ routeDeploy.todo # <<>>
    BY <1>5, <1>i DEF FindsAttachment, DeployFits
  <2>1. Found \in {NoBox} \cup BoxRecord /\ Found.id \in 0..born
    <3>1. Wanted \in AttachmentItem
      BY <1>i, <2>0 DEF DeployFits, DeployRecord, Wanted
    <3>2. Wanted.service \in Services
      BY <3>1 DEF AttachmentItem
    <3>3. Found \in {NoBox} \cup BoxRecord /\ Found.id <= born
      BY <1>i, <3>2 DEF Found, BoxesFit
    <3>4. Found.id \in Nat
      BY <3>3 DEF BoxRecord, NoBox, Ids
    <3> QED
      BY <1>i, <3>3, <3>4
  <2>2. /\ step \in {"creates", "removes", "stops", "skips"}
        /\ step \in {"removes", "stops"} => Found.id # 0
    <3>1. Found # NoBox => Found.id # 0
      BY <2>1 DEF BoxRecord, Ids
    <3>2. Found = NoBox => step = "creates"
      BY DEF Handled
    <3>3. step \in {"creates", "removes", "stops", "skips"}
      BY DEF Handled
    <3> QED
      BY <3>1, <3>2, <3>3
  <2> HIDE DEF step
  <2>3. 0 \in 0..born
    BY <1>i, AttachmentAssumption
  <2>4. DeployFits(routeDeploy', born)
    <3>1. CASE step = "skips" /\ Advances(tracked)
      BY <1>i, <2>0, <3>1, AdvanceFits DEF RestFits
    <3>2. CASE step # "skips" /\ routeDeploy' = [routeDeploy EXCEPT !.at = step, !.id = Found.id]
      BY <1>i, <2>0, <2>1, <2>2, <3>2, DeployFitsOn DEF Places
    <3>3. CASE routeDeploy' = [routeDeploy EXCEPT !.at = "creates", !.id = 0]
      BY <1>i, <2>0, <2>3, <3>3, DeployFitsOn DEF Places
    <3>4. CASE DeployGoes("undoes")
      BY <1>a, <3>4 DEF DeployGoes
    <3> QED
      BY <1>5, <3>1, <3>2, <3>3, <3>4 DEF FindsAttachment, step
  <2>5. misses' \in [faults : 0..MaxFailing, reconfigs : 0..MaxReconfigs]
    BY <1>5, <1>i, MissesStay DEF FindsAttachment
  <2>6. UNCHANGED <<wanted, network, attachment, born, tracked, orphans, listing, relied>>
    BY <1>5 DEF FindsAttachment
  <2> QED
    BY <1>i, <1>s, <1>b, <1>r, <2>4, <2>5, <2>6
\* A container in work that exists is stopped, removed or started.
<1>p. UNCHANGED born => \A status \in {"stopped", "running"} :
         /\ routeDeploy.at \in {"stops", "removes", "starts", "waits"} =>
               (SetStatus({Own}, status) => BoxesFit(born)')
         /\ \A ids : RemoveContainer(ids) => BoxesFit(born)'
  <2>1. Own \in 1..born => 0 \notin {Own}
    BY <1>i
  <2> QED
    BY <1>i, <1>o, <2>1, BoxesStay DEF BoxesFit
<1>d. ASSUME UNCHANGED born, routeDeploy.at \in {"starts", "waits"}, Discards(Own)
      PROVE  BoxesFit(born)'
  BY <1>d, <1>p DEF Discards
<1>6. CASE StopsDrifted
  <2>1. DeployFits(routeDeploy', born)
    BY <1>6, <1>a, <1>e, <1>o DEF StopsDrifted, DeployGoes
  <2>2. misses' \in [faults : 0..MaxFailing, reconfigs : 0..MaxReconfigs]
    BY <1>6, <1>i, MissesStay DEF StopsDrifted
  <2>3. BoxesFit(born)'
    BY <1>6, <1>b, <1>p DEF StopsDrifted
  <2>4. UNCHANGED <<wanted, network, born, tracked, orphans, listing, relied>>
    BY <1>6 DEF StopsDrifted
  <2> QED
    BY <1>i, <1>s, <1>r, <2>1, <2>2, <2>3, <2>4
<1>7. CASE RemovesFound
  <2>1. DeployFits(routeDeploy', born)
    BY <1>7, <1>a, <1>c, <1>o DEF RemovesFound, DeployGoes
  <2>2. misses' \in [faults : 0..MaxFailing, reconfigs : 0..MaxReconfigs]
    BY <1>7, <1>i, MissesStay DEF RemovesFound
  <2>3. BoxesFit(born)'
    BY <1>7, <1>b, <1>p DEF RemovesFound
  <2>4. UNCHANGED <<wanted, network, born, tracked, orphans, listing, relied>>
    BY <1>7 DEF RemovesFound
  <2> QED
    BY <1>i, <1>s, <1>r, <2>1, <2>2, <2>3, <2>4
<1>8. CASE CreatesAttachment
  <2>0. routeDeploy.at = "creates" /\ routeDeploy.todo # <<>>
    BY <1>8, <1>i DEF CreatesAttachment, DeployFits
  <2>2. misses' \in [faults : 0..MaxFailing, reconfigs : 0..MaxReconfigs]
    BY <1>8, <1>i, MissesStay DEF CreatesAttachment
  <2>3. UNCHANGED <<wanted, network, tracked, orphans, listing, relied>>
    BY <1>8 DEF CreatesAttachment
  <2>4. CASE DeployGoes("undoes") /\ UNCHANGED <<attachment, born>>
    BY <1>a, <1>b, <1>i, <1>r, <1>s, <2>2, <2>3, <2>4 DEF DeployGoes
  <2>5. ASSUME Created,
               \/ routeDeploy' = [routeDeploy EXCEPT !.at = "starts", !.id = born']
               \/ DeployGoes("undoes")
        PROVE  AttachmentsInv'
    <3>1. born' \in 0..MaxIds /\ born < born' /\ born' \in 1..born' /\ born' \in Ids
          /\ born' \in 0..born' /\ born' # 0
      BY <1>i, <2>5, AttachmentAssumption DEF Created, Ids
    <3>2. /\ 1..born \subseteq 1..born' /\ Seq(1..born) \subseteq Seq(1..born')
          /\ born <= born'
      BY <1>i, <3>1, NumbersStay
    <3>3. DeployFits(routeDeploy, born')
      BY <1>i, <3>1, <3>2 DEF DeployFits
    <3>4. DeployFits(routeDeploy', born')
      <4>1. CASE routeDeploy' = [routeDeploy EXCEPT !.at = "starts", !.id = born']
        BY <2>0, <3>1, <3>3, <4>1, DeployFitsOn DEF Places
      <4>2. CASE DeployGoes("undoes")
        BY <3>1, <3>3, <4>2, DeployFitsOn DEF Places, DeployGoes
      <4> QED
        BY <2>5, <4>1, <4>2
    <3>5. BoxesFit(born)'
      <4> DEFINE box == [id |-> born', version |-> Wanted.version, status |-> "stopped"]
      <4>1. Wanted \in AttachmentItem
        BY <1>i, <2>0 DEF DeployFits, DeployRecord, Wanted
      <4>2. box \in BoxRecord /\ box.id = born'
        BY <3>1, <4>1 DEF BoxRecord, AttachmentItem
      <4>3. attachment' = [attachment EXCEPT ![Wanted.service] = box]
        BY <2>5 DEF Created
      <4> HIDE DEF box
      <4>4. attachment' \in [Services -> {NoBox} \cup BoxRecord]
        BY <1>i, <4>2, <4>3 DEF BoxesFit
      <4>5. \A s \in Services : attachment[s].id \in Nat
        BY <1>i DEF BoxesFit, NoBox, BoxRecord, Ids
      <4>6. \A s \in Services : attachment'[s].id <= born'
        BY <1>i, <3>1, <4>2, <4>3, <4>5 DEF BoxesFit
      <4> QED
        BY <4>4, <4>6 DEF BoxesFit
    <3>6. RestFits(born)'
      BY <1>i, <2>3, <3>2 DEF RestFits
    <3> QED
      BY <1>i, <2>2, <2>3, <3>1, <3>4, <3>5, <3>6 DEF AttachmentsInv
  <2> QED
    BY <1>8, <2>4, <2>5 DEF CreatesAttachment
<1>9. CASE StartsAttachment
  <2>1. DeployFits(routeDeploy', born)
    BY <1>9, <1>a, <1>e, <1>o DEF StartsAttachment, DeployGoes
  <2>2. misses' \in [faults : 0..MaxFailing, reconfigs : 0..MaxReconfigs]
    BY <1>9, <1>i, MissesStay DEF StartsAttachment
  <2>3. BoxesFit(born)'
    BY <1>9, <1>d, <1>p DEF StartsAttachment
  <2>4. UNCHANGED <<wanted, network, born, tracked, orphans, listing, relied>>
    BY <1>9 DEF StartsAttachment
  <2> QED
    BY <1>i, <1>s, <1>r, <2>1, <2>2, <2>3, <2>4
<1>10. CASE AwaitsAttachment
  <2>0. routeDeploy.at = "waits"
    BY <1>10 DEF AwaitsAttachment
  <2>1. tracked' \in Seq(1..born)
    <3>1. tracked \in Seq(1..born) /\ Own \in 1..born
      BY <1>i, <1>o, <2>0 DEF RestFits
    <3>2. Append(tracked, Own) \in Seq(1..born)
      BY <3>1
    <3> QED
      BY <1>10, <3>1, <3>2 DEF AwaitsAttachment
  <2>2. DeployFits(routeDeploy', born)
    <3>1. CASE Advances(tracked')
      BY <1>i, <1>o, <2>0, <2>1, <3>1, AdvanceFits
    <3>2. CASE DeployGoes("undoes")
      BY <1>a, <3>2 DEF DeployGoes
    <3> QED
      BY <1>10, <3>1, <3>2 DEF AwaitsAttachment
  <2>3. misses' \in [faults : 0..MaxFailing, reconfigs : 0..MaxReconfigs]
    BY <1>10, <1>i, MissesStay DEF AwaitsAttachment
  <2>4. BoxesFit(born)'
    BY <1>10, <1>b, <1>d, <2>0 DEF AwaitsAttachment
  <2>5. UNCHANGED <<wanted, network, born, orphans, listing, relied>>
    BY <1>10 DEF AwaitsAttachment
  <2>6. RestFits(born)'
    BY <1>i, <2>1, <2>5 DEF RestFits
  <2> QED
    BY <1>i, <1>s, <2>2, <2>3, <2>4, <2>5, <2>6
<1>11. CASE RollsBack
  <2> DEFINE ids == ToSet(routeDeploy.deployed)
  <2>1. tracked' \in Seq(1..born)
    BY <1>11, <1>i, DroppingTyped DEF RollsBack, RestFits
  <2>2. DeployFits(routeDeploy', born)
    BY <1>11, <1>n DEF RollsBack
  <2>3. misses' \in [faults : 0..MaxFailing, reconfigs : 0..MaxReconfigs]
    BY <1>11, <1>i, MissesStay DEF RollsBack
  <2>4. \E gone : RemoveContainer(gone)
    BY <1>11 DEF RollsBack
  <2>5. BoxesFit(born)'
    BY <1>11, <1>p, <2>4 DEF RollsBack
  <2>6. UNCHANGED <<wanted, network, born, orphans, listing, relied>>
    BY <1>11 DEF RollsBack
  <2>7. RestFits(born)'
    BY <1>i, <2>1, <2>6 DEF RestFits
  <2> QED
    BY <1>i, <1>s, <2>2, <2>3, <2>5, <2>6, <2>7
<1>12. CASE RunsRoute
  <2>1. relied' \subseteq 1..born
    <3>1. \A s \in Services : attachment[s].id \in Nat /\ attachment[s].id <= born
      BY <1>i DEF BoxesFit, NoBox, BoxRecord, Ids
    <3>2. \A s \in Services : attachment[s].id # 0 => attachment[s].id \in 1..born
      BY <1>i, <3>1
    <3>3. {attachment[s].id : s \in Services} \ {0} \subseteq 1..born
      BY <3>2
    <3>4. relied \subseteq 1..born
      BY <1>i DEF RestFits
    <3> QED
      BY <1>12, <3>3, <3>4 DEF RunsRoute
  <2>2. DeployFits(routeDeploy', born)
    BY <1>12, <1>n DEF RunsRoute
  <2>3. misses' \in [faults : 0..MaxFailing, reconfigs : 0..MaxReconfigs]
    BY <1>12, <1>i, MissesStay DEF RunsRoute
  <2>4. UNCHANGED <<wanted, network, attachment, born, tracked, orphans, listing>>
    BY <1>12 DEF RunsRoute
  <2>5. RestFits(born)'
    BY <1>i, <2>1, <2>4 DEF RestFits
  <2> QED
    BY <1>i, <1>b, <1>s, <2>2, <2>3, <2>4, <2>5
<1> QED
  BY <1>1, <1>2, <1>3, <1>4, <1>5, <1>6, <1>7, <1>8, <1>9, <1>10, <1>11, <1>12
  DEF DeployStep
\* The calls without the lock, the operator, and the end of the process.
LEMMA AttachmentsInvNext == AttachmentsInv /\ [AttachmentsNext]_attachmentVars => AttachmentsInv'
<1> SUFFICES ASSUME AttachmentsInv, [AttachmentsNext]_attachmentVars PROVE AttachmentsInv'
  OBVIOUS
<1>i. /\ wanted \in [Services -> {0} \cup AttachmentImages]
      /\ network \in BOOLEAN
      /\ born \in 0..MaxIds
      /\ misses \in [faults : 0..MaxFailing, reconfigs : 0..MaxReconfigs]
      /\ DeployFits(routeDeploy, born)
      /\ BoxesFit(born)
      /\ RestFits(born)
  BY DEF AttachmentsInv
<1>k. /\ tracked \in Seq(1..born)
      /\ listing \in ListRecord /\ listing.seen \in Seq(1..born)
      /\ orphans \subseteq 1..born
      /\ relied \subseteq 1..born
      /\ 1..born \subseteq Ids /\ Seq(1..born) \subseteq Seq(Ids)
  <2>1. born <= born
    BY <1>i
  <2> QED
    BY <1>i, <2>1, NumbersStay DEF RestFits
\* Nothing is created.
<1>s. ASSUME UNCHANGED <<wanted, network, born, relied>>, BoxesFit(born)',
             misses' \in [faults : 0..MaxFailing, reconfigs : 0..MaxReconfigs],
             routeDeploy' \in {routeDeploy, NoDeploy},
             tracked' \in Seq(1..born), orphans' \subseteq 1..born,
             listing' \in ListRecord, listing'.seen \in Seq(1..born)
      PROVE  AttachmentsInv'
  <2>1. DeployFits(routeDeploy', born)
    BY <1>i, <1>s, DeployFitsOn DEF Places
  <2> QED
    BY <1>i, <1>k, <1>s, <2>1 DEF AttachmentsInv, RestFits
<1>b. UNCHANGED <<attachment, born>> => BoxesFit(born)'
  BY <1>i DEF BoxesFit
<1>p. UNCHANGED born => \A status \in {"stopped", "running"} :
         \A ids : /\ SetStatus(ids, status) /\ 0 \notin ids => BoxesFit(born)'
                  /\ RemoveContainer(ids) => BoxesFit(born)'
  BY <1>i, BoxesStay DEF BoxesFit
<1>x. \A s \in Services : attachment[s].id \in Nat /\ attachment[s].id <= born
  BY <1>i DEF BoxesFit, NoBox, BoxRecord, Ids
<1>l. NoList \in ListRecord /\ NoList.seen \in Seq(1..born)
      /\ [NoList EXCEPT !.at = "restarts"] \in ListRecord
      /\ [NoList EXCEPT !.at = "restarts"].seen \in Seq(1..born)
  <2> DEFINE x == [NoList EXCEPT !.at = "restarts"]
  <2>1. <<>> \in Seq(Ids) /\ <<>> \in Seq(1..born) /\ FALSE \in BOOLEAN
    OBVIOUS
  <2>2. NoList \in ListRecord /\ NoList.seen \in Seq(1..born)
    BY <2>1 DEF NoList, ListRecord
  <2>3. x \in ListRecord /\ x.seen = NoList.seen
    BY <2>2 DEF ListRecord
  <2> QED
    BY <2>2, <2>3
<1>0. CASE UNCHANGED attachmentVars
  BY <1>0, <1>b, <1>i, <1>k, <1>s DEF attachmentVars
<1>1. CASE DeployStep
  BY <1>1, DeployStepInv
<1>2. CASE ListsOrphans
  <2>1. \A s \in Services : attachment[s].id # 0 => attachment[s].id \in 1..born
    BY <1>i, <1>x
  <2>2. orphans' \subseteq 1..born
    BY <1>2, <2>1 DEF ListsOrphans
  <2>3. UNCHANGED <<wanted, network, attachment, born, tracked, routeDeploy, listing, relied,
                    misses>>
    BY <1>2 DEF ListsOrphans
  <2> QED
    BY <1>b, <1>i, <1>k, <1>s, <2>2, <2>3
<1>3. ASSUME NEW id \in orphans, RemovesOrphan(id) PROVE AttachmentsInv'
  <2>1. UNCHANGED <<wanted, network, born, routeDeploy, listing, relied>>
        /\ orphans' \subseteq 1..born
    BY <1>3, <1>k DEF RemovesOrphan
  <2>2. 0 \notin {id}
    BY <1>3, <1>i, <1>k
  <2>3. BoxesFit(born)'
    BY <1>3, <1>p, <2>1, <2>2 DEF RemovesOrphan
  <2>4. tracked' \in Seq(1..born)
    BY <1>3, <1>k, DroppingTyped DEF RemovesOrphan
  <2>5. misses' \in [faults : 0..MaxFailing, reconfigs : 0..MaxReconfigs]
    BY <1>3, <1>i, MissesStay DEF RemovesOrphan
  <2> QED
    BY <1>k, <1>s, <2>1, <2>3, <2>4, <2>5
<1>4. CASE ListsAttachments
  <2>1. PICK restart \in BOOLEAN, seen \in SetToSeqs({id \in Ids : Runs(id)}) :
          listing' = [at |-> "stores", seen |-> seen, restart |-> restart]
    BY <1>4 DEF ListsAttachments
  <2>2. \A id \in Ids : Runs(id) => id \in 1..born
    BY <1>i, <1>x, AttachmentAssumption DEF Runs, Ids
  <2>3. seen \in Seq(1..born)
    <3> DEFINE on == {id \in Ids : Runs(id)}
    <3>1. seen \in [1..Cardinality(on) -> on]
      BY <2>1 DEF SetToSeqs
    <3>2. on \in SUBSET (1..born)
      BY <2>2
    <3>3. IsFiniteSet(1..born)
      <4>1. 1 \in Int /\ born \in Int
        BY <1>i
      <4> QED
        BY <4>1, FS_Interval
    <3> HIDE DEF on
    <3>4. Cardinality(on) \in Nat
      BY <3>2, <3>3, FS_Subset, FS_CardinalityType
    <3>5. seen \in [1..Cardinality(on) -> 1..born]
      BY <3>1, <3>2
    <3>6. ASSUME NEW n \in Nat, NEW T, NEW f \in [1..n -> T] PROVE f \in Seq(T)
      OBVIOUS
    <3> HIDE DEF Ids
    <3> QED
      BY <3>4, <3>5, <3>6
  <2>4. listing' \in ListRecord /\ listing'.seen \in Seq(1..born)
    <3>1. seen \in Seq(Ids)
      BY <1>k, <2>3
    <3> QED
      BY <2>1, <2>3, <3>1 DEF ListRecord
  <2>5. UNCHANGED <<wanted, network, attachment, born, tracked, routeDeploy, orphans, relied,
                    misses>>
    BY <1>4 DEF ListsAttachments
  <2> QED
    BY <1>b, <1>i, <1>k, <1>s, <2>4, <2>5
<1>5. CASE StoresAttachments
  <2>1. listing' \in ListRecord /\ listing'.seen \in Seq(1..born)
    BY <1>5, <1>l DEF StoresAttachments
  <2>2. tracked' \in Seq(1..born)
    BY <1>5, <1>k DEF StoresAttachments
  <2>3. UNCHANGED <<wanted, network, attachment, born, routeDeploy, orphans, relied, misses>>
    BY <1>5 DEF StoresAttachments
  <2> QED
    BY <1>b, <1>i, <1>k, <1>s, <2>1, <2>2, <2>3
<1>6. CASE RestartsAttachments
  <2>1. listing' \in ListRecord /\ listing'.seen \in Seq(1..born)
    BY <1>6, <1>l DEF RestartsAttachments
  <2>2. UNCHANGED <<wanted, network, born, tracked, routeDeploy, orphans, relied, misses>>
    BY <1>6 DEF RestartsAttachments
  <2>3. 0 \notin ToSet(tracked)
    BY <1>i, <1>k DEF ToSet
  <2>4. BoxesFit(born)'
    BY <1>6, <1>b, <1>p, <2>2, <2>3 DEF RestartsAttachments
  <2> QED
    BY <1>i, <1>k, <1>s, <2>1, <2>2, <2>4
<1>7. ASSUME NEW s \in Services, Reconfigures(s) PROVE AttachmentsInv'
  <2>1. wanted' \in [Services -> {0} \cup AttachmentImages]
    BY <1>7, <1>i DEF Reconfigures
  <2>2. misses' \in [faults : 0..MaxFailing, reconfigs : 0..MaxReconfigs]
    BY <1>7, <1>i, MissesStay DEF Reconfigures
  <2>3. UNCHANGED <<network, attachment, born, tracked, routeDeploy, orphans, listing, relied>>
    BY <1>7 DEF Reconfigures
  <2> QED
    BY <1>b, <1>i, <2>1, <2>2, <2>3 DEF AttachmentsInv, RestFits
<1>8. ASSUME NEW s \in Services, StopsOutside(s) PROVE AttachmentsInv'
  <2>1. UNCHANGED <<wanted, network, born, tracked, routeDeploy, orphans, listing, relied>>
    BY <1>8 DEF StopsOutside
  <2>2. attachment[s].id # 0
    <3>1. attachment[s] \in BoxRecord
      BY <1>8, <1>i DEF BoxesFit, StopsOutside, NoBox
    <3> QED
      BY <3>1 DEF BoxRecord, Ids
  <2>3. BoxesFit(born)'
    <3>1. 0 \notin {attachment[s].id}
      BY <2>2
    <3> QED
      BY <1>8, <1>p, <2>1, <3>1 DEF StopsOutside
  <2>4. misses' \in [faults : 0..MaxFailing, reconfigs : 0..MaxReconfigs]
    BY <1>8, <1>i, MissesStay DEF StopsOutside
  <2> QED
    BY <1>k, <1>s, <2>1, <2>3, <2>4
<1>9. CASE GroupMakesNetwork
  <2>1. network' \in BOOLEAN
    BY <1>9 DEF GroupMakesNetwork
  <2>2. UNCHANGED <<wanted, attachment, born, tracked, routeDeploy, orphans, listing, relied,
                    misses>>
    BY <1>9 DEF GroupMakesNetwork
  <2> QED
    BY <1>b, <1>i, <2>1, <2>2 DEF AttachmentsInv, RestFits
<1>10. CASE ProcessEnds
  <2>1. /\ UNCHANGED <<wanted, network, attachment, born, relied>>
        /\ tracked' = <<>> /\ orphans' = {} /\ listing' = NoList /\ routeDeploy' = NoDeploy
    BY <1>10 DEF ProcessEnds
  <2>2. misses' \in [faults : 0..MaxFailing, reconfigs : 0..MaxReconfigs]
    BY <1>10, <1>i, MissesStay DEF ProcessEnds
  <2>3. tracked' \in Seq(1..born)
    BY <2>1
  <2> QED
    BY <1>b, <1>l, <1>s, <2>1, <2>2, <2>3
<1> QED
  BY <1>0, <1>1, <1>2, <1>3, <1>4, <1>5, <1>6, <1>7, <1>8, <1>9, <1>10 DEF AttachmentsNext

LEMMA AttachmentsTyped == AttachmentsInv => AttachmentsTypeOK
<1> SUFFICES ASSUME AttachmentsInv PROVE AttachmentsTypeOK
  OBVIOUS
<1>t. ASSUME NEW T, NEW q \in Seq(T) PROVE ToSet(q) \subseteq T
  BY DEF ToSet
<1>1. /\ wanted \in [Services -> {0} \cup AttachmentImages]
      /\ born \in 0..MaxIds
      /\ misses \in [faults : 0..MaxFailing, reconfigs : 0..MaxReconfigs]
  BY DEF AttachmentsInv
<1>2. network \in BOOLEAN
  BY DEF AttachmentsInv
<1>3. attachment \in [Services -> {NoBox} \cup
                [id : Ids, version : AttachmentImages, status : {"stopped", "running"}]]
  BY DEF AttachmentsInv, BoxesFit, BoxRecord
<1>4. ToSet(tracked) \subseteq 1..born
  BY <1>t DEF AttachmentsInv, RestFits
<1>5. routeDeploy.at \in Places /\ routeDeploy.todo \in Seq(AttachmentItem)
      /\ (routeDeploy.at \in {"stops", "removes", "starts", "waits"} =>
             routeDeploy.id \in 1..born /\ routeDeploy.todo # <<>>)
      /\ routeDeploy.deployed \in Seq(1..born)
  BY DEF AttachmentsInv, DeployFits, DeployRecord
<1>6. \A i \in DOMAIN routeDeploy.todo :
         routeDeploy.todo[i] \in [service : Services, version : AttachmentImages]
  <2>1. ASSUME NEW T, NEW q \in Seq(T), NEW i \in DOMAIN q PROVE q[i] \in T
    OBVIOUS
  <2>2. \A i \in DOMAIN routeDeploy.todo : routeDeploy.todo[i] \in AttachmentItem
    BY <1>5, <2>1
  <2> QED
    BY <2>2 DEF AttachmentItem
<1>7. ToSet(routeDeploy.deployed) \cup orphans \cup relied \subseteq 1..born
  <2>1. orphans \subseteq 1..born /\ relied \subseteq 1..born
    BY DEF AttachmentsInv, RestFits
  <2>2. ToSet(routeDeploy.deployed) \subseteq 1..born
    BY <1>5, <1>t
  <2> QED
    BY <2>1, <2>2
<1>8. listing.at \in {"idle", "stores", "restarts"}
  BY DEF AttachmentsInv, RestFits, ListRecord
<1> QED
  BY <1>1, <1>2, <1>3, <1>4, <1>5, <1>6, <1>7, <1>8 DEF AttachmentsTypeOK

-----------------------------------------------------------------------------
(* Together                                                                *)

\* Whichever part runs takes a step of its own, and the others stand still.
LEMMA KeepStep ==
  ASSUME [KeepNext]_allVars
  PROVE  /\ [CertNext]_certVars /\ [AttachmentsNext]_attachmentVars
         /\ [SecretsNext]_secretVars /\ [LifeNext]_lifeVars /\ [CaNext]_caVars
BY DEF KeepNext, allVars

\* What the server keeps is of its types, for any number of targets, attachments, ids,
\* calls, processes, handshakes, starts and ticks: a certificate pass has places within
\* its targets, and whatever remembers the id of a container (the deploy, the tracked
\* ids, a clean-up, a listing) remembers one that was given to a container.
THEOREM KeepTyping == KeepSpec => []KeepTypeOK
<1> DEFINE LifeKept == LifeTypeOK /\ LifeInv
           CaKept   == CaTypeOK /\ RootsAreMade /\ CaIInv
           KeepInv  == CertInv /\ AttachmentsInv /\ SecretsInv /\ LifeKept /\ CaKept
<1>1. KeepInit => KeepInv
  <2> SUFFICES ASSUME KeepInit PROVE KeepInv
    OBVIOUS
  <2>1. CertInit /\ AttachmentsInit /\ SecretsInit /\ LifeInit /\ CaInit
    BY DEF KeepInit, Inits
  <2> QED
    BY <2>1, CertInvInit, AttachmentsInvInit, SecretsInitInv, LifeInvInit, CaInvInit
<1>2. KeepInv /\ [KeepNext]_allVars => KeepInv'
  <2> SUFFICES ASSUME CertInv, AttachmentsInv, SecretsInv, LifeTypeOK, LifeInv,
                      CaTypeOK, RootsAreMade, CaIInv, [KeepNext]_allVars
               PROVE  /\ CertInv' /\ AttachmentsInv' /\ SecretsInv' /\ LifeKept'
                      /\ CaKept'
    OBVIOUS
  <2>1. /\ [CertNext]_certVars /\ [AttachmentsNext]_attachmentVars
        /\ [SecretsNext]_secretVars /\ [LifeNext]_lifeVars /\ [CaNext]_caVars
    BY KeepStep
  <2>2. CertInv' /\ AttachmentsInv' /\ SecretsInv'
    BY <2>1, CertInvNext, AttachmentsInvNext, SecretsNextInv
  <2>3. LifeKept'
    BY <2>1, LifeTypesStep, LifeInvStep
  <2>4. CaKept'
    BY <2>1, CaTypesStep, CaInvStep
  <2> QED
    BY <2>2, <2>3, <2>4
<1>3. KeepInv => KeepTypeOK
  BY CertTyped, AttachmentsTyped DEF SecretsInv, KeepTypeOK
<1> QED
  BY <1>1, <1>2, <1>3, PTL DEF KeepSpec
=============================================================================
