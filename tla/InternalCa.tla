------------------------------ MODULE InternalCa ------------------------------
(***************************************************************************)
(* The internal certificate authority (adapters/out/pki/ca.go) and the     *)
(* service that issues from it (usecase/pki/service.go).  The root and the *)
(* intermediate are two files each, the key written before the             *)
(* certificate; whoever opens the authority loads or makes them: the       *)
(* server when it starts, and every gordon ca command, in a process of its *)
(* own.  The server renews the intermediate and caches what it issues.     *)
(*                                                                         *)
(* A key is a number, and so is the root certificate: that of its key.     *)
(* Handshakes are for one host; whether the configuration allows it is     *)
(* asked anew each time, and the answer may be any.                        *)
(***************************************************************************)
EXTENDS Naturals

CONSTANTS CaCommands,   \* gordon ca commands
          Handshakes,   \* concurrent handshakes
          InterLife, LeafLife, RenewalWindow,  \* in ticks of the clock
          MaxClock,     \* bound: ticks
          MaxKeys,      \* bound: keys ever made
          MaxErrors     \* bound: files that cannot be read or written, deaths

ASSUME CaAssumption ==
    /\ InterLife \in Nat /\ LeafLife \in Nat /\ RenewalWindow \in Nat
    /\ MaxClock \in Nat /\ MaxKeys \in Nat /\ MaxErrors \in Nat

VARIABLES
    rootFiles,   \* root.key and root.crt, 0 when missing
    interFiles,  \* intermediate.key and intermediate.crt
    opener,      \* the processes that open the authority
    issuer,      \* the server's interKey and interCert
    cache,       \* the leaf the server has cached
    flight,      \* the call that singleflight lets through
    handshake,   \* GetCertificate
    exported,    \* history: the roots handed out to clients
    contended,   \* history: two processes have opened an authority without a root
    clock,
    spentOn      \* the bounded counters

caVars == <<rootFiles, interFiles, opener, issuer, cache, flight, handshake, exported, contended, clock, spentOn>>

Openers == {"server"} \cup CaCommands
NoCert  == [id |-> 0, root |-> 0, until |-> 0]
NoPair  == [key |-> 0, cert |-> NoCert]
NoLeaf  == [key |-> 0, cert |-> NoCert, until |-> 0]
Closed  == [at |-> "closed", root |-> 0, pair |-> NoPair, serves |-> FALSE]
Idle    == [at |-> "idle", leaf |-> NoLeaf]

CaInit ==
    /\ rootFiles = [key |-> 0, cert |-> 0]
    /\ interFiles = NoPair
    /\ opener = [p \in Openers |-> Closed]
    /\ issuer = NoPair
    /\ cache = NoLeaf
    /\ flight = Idle
    /\ handshake = [h \in Handshakes |-> Idle]
    /\ exported = {}
    /\ contended = FALSE
    /\ clock = 0
    /\ spentOn = [keys |-> 0, errors |-> 0]

Keys   == 0..MaxKeys
Times  == 0..MaxClock + InterLife
Certs  == [id : Keys, root : Keys, until : Times]
Pairs  == [key : Keys, cert : Certs]
Leaves == [key : Keys, cert : Certs, until : Times]

RootPlaces  == {"rootCert", "rootKey", "storesRootKey", "storesRootCert"}
InterPlaces == {"interCert", "interKey", "storesKey", "storesCert", "checks", "open"}

OpenerRecord    == [at : {"closed", "refused"} \cup RootPlaces \cup InterPlaces,
                    root : Keys, pair : Pairs, serves : BOOLEAN]
FlightRecord    == [at : {"idle", "starts", "signs", "stores"}, leaf : Leaves]
HandshakeRecord == [at : {"idle", "hit", "missed", "joins", "waits", "answered", "served"},
                    leaf : Leaves]

CaTypeOK ==
    /\ rootFiles \in [key : Keys, cert : Keys]
    /\ interFiles \in Pairs
    /\ opener \in [Openers -> OpenerRecord]
    /\ issuer \in Pairs
    /\ cache \in Leaves
    /\ flight \in FlightRecord
    /\ handshake \in [Handshakes -> HandshakeRecord]
    /\ exported \subseteq 1..MaxKeys
    /\ contended \in BOOLEAN
    /\ clock \in 0..MaxClock
    /\ spentOn \in [keys : Keys, errors : 0..MaxErrors]

Spend(c, bound) == spentOn[c] < bound /\ spentOn' = [spentOn EXCEPT ![c] = @ + 1]
Errs == Spend("errors", MaxErrors)

serviceState == <<cache, flight, handshake>>

-----------------------------------------------------------------------------
(* Opening the authority: NewCA                                            *)

Moves(p, at) == opener' = [opener EXCEPT ![p].at = at]

\* What it has read or made is gone, and with the server what it has issued.
Closes(p, at) ==
    /\ opener' = [opener EXCEPT ![p] = [Closed EXCEPT !.at = at]]
    /\ IF p = "server"
       THEN /\ issuer' = NoPair /\ cache' = NoLeaf /\ flight' = Idle
            /\ handshake' = [h \in Handshakes |-> Idle]
       ELSE UNCHANGED <<issuer, cache, flight, handshake>>

OpensAuthority(p) ==
    /\ opener[p].at \in {"closed", "refused"}
    /\ Moves(p, "rootCert")
    /\ contended' = (contended \/ (rootFiles.cert = 0
                        /\ \E q \in Openers \ {p} : opener[q].at \in RootPlaces))
    /\ UNCHANGED <<rootFiles, interFiles, issuer, exported, clock, spentOn, serviceState>>

\* loadOrGenerateRoot reads the certificate ...
ReadsRootCert(p) ==
    /\ opener[p].at = "rootCert"
    /\ opener' = [opener EXCEPT ![p].at = "rootKey", ![p].root = rootFiles.cert]
    /\ UNCHANGED <<rootFiles, interFiles, issuer, exported, contended, clock, spentOn,
                   serviceState>>

\* ... and then the key, and makes a root only if both are missing.
ReadsRootKey(p) ==
    LET cert == opener[p].root
        key  == rootFiles.key
    IN
    /\ opener[p].at = "rootKey"
    /\ CASE cert = 0 /\ key = 0 ->
               /\ Spend("keys", MaxKeys)
               /\ opener' = [opener EXCEPT ![p].at = "storesRootKey",
                                           ![p].root = spentOn'.keys]
               /\ UNCHANGED <<issuer, cache, flight, handshake>>
         [] cert # 0 /\ cert = key ->
               Moves(p, "interCert") /\ UNCHANGED <<issuer, cache, flight, handshake, spentOn>>
         [] OTHER ->
               Closes(p, "refused") /\ UNCHANGED spentOn
    /\ UNCHANGED <<rootFiles, interFiles, exported, contended, clock>>

\* bootstrapRoot writes the key first.
StoresRootKey(p) ==
    /\ opener[p].at = "storesRootKey"
    /\ rootFiles' = [rootFiles EXCEPT !.key = opener[p].root]
    /\ Moves(p, "storesRootCert")
    /\ UNCHANGED <<interFiles, issuer, exported, contended, clock, spentOn, serviceState>>

StoresRootCert(p) ==
    /\ opener[p].at = "storesRootCert"
    /\ rootFiles' = [rootFiles EXCEPT !.cert = opener[p].root]
    /\ Moves(p, "interCert")
    /\ UNCHANGED <<interFiles, issuer, exported, contended, clock, spentOn, serviceState>>

ReadsInterCert(p) ==
    /\ opener[p].at = "interCert"
    /\ opener' = [opener EXCEPT ![p].at = "interKey", ![p].pair.cert = interFiles.cert]
    /\ UNCHANGED <<rootFiles, interFiles, issuer, exported, contended, clock, spentOn,
                   serviceState>>

\* generateIntermediate
MakesPair(p, at) ==
    /\ Spend("keys", MaxKeys)
    /\ opener' = [opener EXCEPT ![p].at = at,
                     ![p].pair = [key  |-> spentOn'.keys,
                                  cert |-> [id |-> spentOn'.keys, root |-> opener[p].root,
                                            until |-> clock + InterLife]]]

\* Whether there is an authority to issue from now: the service is made once NewCA returns.
Ready(p, pair) == IF p = "server" THEN issuer' = pair ELSE UNCHANGED issuer
Loaded(p)      == IF p = "server" THEN "checks" ELSE "open"

\* Mutated: the key is not compared with the certificate.
UsableUnpaired(pair, root) ==
    pair.key # 0 /\ pair.cert.root = root /\ clock < pair.cert.until

\* validateLoadedIntermediate; a missing file is no error.
Usable(pair, root) ==
    pair.key = pair.cert.id /\ pair.cert.root = root /\ clock < pair.cert.until

ReadsInterKey(p) ==
    LET pair == [opener[p].pair EXCEPT !.key = interFiles.key]
    IN
    /\ opener[p].at = "interKey"
    /\ IF Usable(pair, opener[p].root)
       THEN /\ opener' = [opener EXCEPT ![p].at = Loaded(p), ![p].pair = NoPair]
            /\ Ready(p, pair)
            /\ UNCHANGED spentOn
       ELSE MakesPair(p, "storesKey") /\ UNCHANGED issuer
    /\ UNCHANGED <<rootFiles, interFiles, exported, contended, clock, serviceState>>

\* storeIntermediate, when the authority is opened and when the server renews it: a
\* failure ends the former and is only logged by the latter.
Renewing(p)  == issuer # NoPair /\ p = "server"

StoresKey(p) ==
    /\ opener[p].at = "storesKey"
    /\ interFiles' = [interFiles EXCEPT !.key = opener[p].pair.key]
    /\ Moves(p, "storesCert")
    /\ UNCHANGED <<rootFiles, issuer, exported, contended, clock, spentOn, serviceState>>

StoresCert(p) ==
    /\ opener[p].at = "storesCert"
    /\ interFiles' = [interFiles EXCEPT !.cert = opener[p].pair.cert]
    /\ opener' = [opener EXCEPT ![p].pair = NoPair,
                     ![p].at = IF Renewing(p) THEN "open" ELSE Loaded(p),
                     ![p].serves = @ \/ Renewing(p)]
    /\ Ready(p, opener[p].pair)
    /\ UNCHANGED <<rootFiles, exported, contended, clock, spentOn, serviceState>>

RenewalFails(p) ==
    /\ opener[p].at \in {"storesKey", "storesCert"}
    /\ Renewing(p)
    /\ Errs
    /\ opener' = [opener EXCEPT ![p].at = "open", ![p].pair = NoPair, ![p].serves = TRUE]
    /\ UNCHANGED <<rootFiles, interFiles, issuer, exported, contended, clock, serviceState>>

\* renewIntermediateIfNeeded, before the first handshake and on every tick of the
\* maintenance loop.
ChecksRenewal ==
    LET due == issuer.cert.until < clock + RenewalWindow
    IN
    /\ \/ opener["server"].at = "checks"
       \/ opener["server"].at = "open" /\ due
    /\ IF due THEN MakesPair("server", "storesKey")
       ELSE /\ opener' = [opener EXCEPT !["server"].at = "open", !["server"].serves = TRUE]
            /\ UNCHANGED spentOn
    /\ UNCHANGED <<rootFiles, interFiles, issuer, exported, contended, clock, serviceState>>

\* gordon ca export and install, and the pages of the server that hand it out.
Exports(p) ==
    /\ opener[p].at = "open"
    /\ exported' = exported \cup {opener[p].root}
    /\ IF p = "server" THEN UNCHANGED opener ELSE opener' = [opener EXCEPT ![p] = Closed]
    /\ UNCHANGED <<rootFiles, interFiles, issuer, contended, clock, spentOn, serviceState>>

-----------------------------------------------------------------------------
(* A handshake: Service.GetCertificate                                     *)

Valid(leaf) == clock < leaf.until

Steps(h, at, leaf) == handshake' = [handshake EXCEPT ![h] = [at |-> at, leaf |-> leaf]]
authority == <<rootFiles, interFiles, opener, issuer, exported, contended, clock>>

\* validCachedCertificate drops what has expired.
LooksUp(h) ==
    /\ handshake[h].at = "idle"
    /\ opener["server"].serves
    /\ IF Valid(cache) THEN Steps(h, "hit", cache) /\ UNCHANGED cache
       ELSE Steps(h, "missed", NoLeaf) /\ cache' = NoLeaf
    /\ UNCHANGED <<authority, flight, spentOn>>

\* What is not allowed any more is not served, and leaves the cache.
Answers(h, at) ==
    /\ handshake[h].at = at
    /\ \/ /\ handshake[h].leaf # NoLeaf
          /\ Steps(h, "served", handshake[h].leaf)
          /\ UNCHANGED cache
       \/ Steps(h, "idle", NoLeaf) /\ cache' = NoLeaf
    /\ UNCHANGED <<authority, flight, spentOn>>

AnswersHit(h)    == Answers(h, "hit")
AnswersIssued(h) == Answers(h, "answered")

ChecksMiss(h) ==
    /\ handshake[h].at = "missed"
    /\ Steps(h, "joins", NoLeaf) \/ Steps(h, "idle", NoLeaf)
    /\ UNCHANGED <<authority, cache, flight, spentOn>>

\* singleflight: the first one starts the call, the others wait for it.
Joins(h) ==
    /\ handshake[h].at = "joins"
    /\ Steps(h, "waits", NoLeaf)
    /\ flight' = IF flight.at = "idle" THEN [Idle EXCEPT !.at = "starts"] ELSE flight
    /\ UNCHANGED <<authority, cache, spentOn>>

\* All that wait get what the call returns, nothing for an error as well.
Lands(leaf) ==
    /\ flight' = Idle
    /\ handshake' = [h \in Handshakes |->
          IF handshake[h].at = "waits" THEN [at |-> "answered", leaf |-> leaf]
          ELSE handshake[h]]

\* issueCertificate looks again.
StartsIssue ==
    /\ flight.at = "starts"
    /\ \/ Lands(NoLeaf) /\ UNCHANGED cache
       \/ Valid(cache) /\ Lands(cache) /\ UNCHANGED cache
       \/ /\ ~ Valid(cache)
          /\ flight' = [Idle EXCEPT !.at = "signs"]
          /\ cache' = NoLeaf
          /\ UNCHANGED handshake
    /\ UNCHANGED <<authority, spentOn>>

\* IssueCertificate: a leaf ends before its intermediate, or is not issued.
SignsLeaf ==
    LET until == IF clock + LeafLife > issuer.cert.until THEN issuer.cert.until
                 ELSE clock + LeafLife
    IN
    /\ flight.at = "signs"
    /\ IF clock < until
       THEN /\ flight' = [at |-> "stores",
                          leaf |-> [key |-> issuer.key, cert |-> issuer.cert, until |-> until]]
            /\ UNCHANGED handshake
       ELSE Lands(NoLeaf)
    /\ UNCHANGED <<authority, cache, spentOn>>

StoresLeaf ==
    /\ flight.at = "stores"
    /\ \/ cache' = flight.leaf /\ Lands(flight.leaf)
       \/ UNCHANGED cache /\ Lands(NoLeaf)
    /\ UNCHANGED <<authority, spentOn>>

EndsHandshake(h) ==
    /\ handshake[h].at = "served"
    /\ Steps(h, "idle", NoLeaf)
    /\ UNCHANGED <<authority, cache, flight, spentOn>>

-----------------------------------------------------------------------------
(* Around it                                                               *)

\* SetAdditionalDomains and sweepExpiredCerts: it has expired, or is not allowed any more.
Evicts ==
    /\ cache # NoLeaf
    /\ cache' = NoLeaf
    /\ UNCHANGED <<authority, flight, handshake, spentOn>>

\* A tick is hours: no handshake and no opening takes that long.
Tick ==
    /\ clock < MaxClock
    /\ \A h \in Handshakes : handshake[h].at = "idle"
    /\ \A p \in Openers : opener[p].at \in {"closed", "refused", "open"}
    /\ clock' = clock + 1
    /\ UNCHANGED <<rootFiles, interFiles, opener, issuer, exported, contended, spentOn,
                   serviceState>>

\* The process dies, or cannot read or write a file: the start of the server, or the
\* command, ends with the error.
CaDeath(p) ==
    /\ opener[p].at # "closed"
    /\ Errs
    /\ Closes(p, "closed")
    /\ UNCHANGED <<rootFiles, interFiles, exported, contended, clock>>

OpenerStep(p) ==
    \/ OpensAuthority(p) \/ ReadsRootCert(p) \/ ReadsRootKey(p) \/ StoresRootKey(p) \/ StoresRootCert(p)
    \/ ReadsInterCert(p) \/ ReadsInterKey(p) \/ StoresKey(p) \/ StoresCert(p)
    \/ RenewalFails(p) \/ Exports(p) \/ CaDeath(p)

HandshakeStep(h) ==
    \/ LooksUp(h) \/ AnswersHit(h) \/ ChecksMiss(h) \/ Joins(h) \/ AnswersIssued(h) \/ EndsHandshake(h)

CaNext ==
    \/ \E p \in Openers : OpenerStep(p)
    \/ \E h \in Handshakes : HandshakeStep(h)
    \/ StartsIssue \/ SignsLeaf \/ StoresLeaf
    \/ ChecksRenewal \/ Evicts \/ Tick

CaSpec == CaInit /\ [][CaNext]_caVars

-----------------------------------------------------------------------------
(* Correctness                                                             *)

\* The chain of a leaf verifies, with every root that clients were given.
Verifies(leaf) ==
    /\ leaf.key = leaf.cert.id
    /\ clock < leaf.until /\ clock < leaf.cert.until
    /\ exported \subseteq {leaf.cert.root}

\* Whatever was half written when a process died or failed, and whoever renewed the
\* intermediate meanwhile: every chain the server serves verifies with the root that the
\* clients have, and the authority opens again - unless two processes made a root at
\* once, or one died between the two files of the root: that, and only that, refuses
\* every later start (loadOrGenerateRoot).
TrustSurvives ==
    \/ contended
    \/ /\ \A h \in Handshakes :
             handshake[h].at = "served" => Verifies(handshake[h].leaf)
       /\ \A p \in Openers : opener[p].at = "refused" => rootFiles.cert = 0
=============================================================================
