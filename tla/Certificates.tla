----------------------------- MODULE Certificates -----------------------------
(***************************************************************************)
(* Which certificates the server orders and when                           *)
(* (usecase/publictls/service.go, renewal.go, targets.go).  A reconcile    *)
(* pass orders at most BatchSize of the certificates that are missing,     *)
(* from a cursor that is kept on disk; between two passes the main         *)
(* goroutine renews what is due.  A reload runs a pass of its own.  Passes *)
(* exclude each other, renewals exclude nobody.                            *)
(*                                                                         *)
(* A target is one certificate: a host of its own under HTTP-01, the       *)
(* wildcard of a zone with every host below it under DNS-01; targets are   *)
(* numbers in the order of their ids.  Save is one step that may fail, see *)
(* CertificateStore for what it does.                                      *)
(***************************************************************************)
EXTENDS Naturals, Sequences, SequencesExt, Enumerations

CONSTANTS Hosts,       \* hosts a configuration may have
          TargetCount, \* how many targets they make
          TargetOf,    \* the target of a host
          BatchSize,   \* tls.acme.obtain_batch_size
          MaxUpsets    \* bound: changes of the configuration, certificates that grow old,
                       \* failed zone lookups and reads of the disk, deaths of the process

ASSUME CertAssumption ==
    /\ TargetCount \in Nat \ {0}
    /\ \A h \in Hosts : TargetOf[h] \in 1..TargetCount
    /\ BatchSize \in Nat
    /\ MaxUpsets \in Nat

VARIABLES
    routing,   \* the hosts of the configuration, the management host included
    required,  \* the hosts that must be covered
    certs,     \* the state of the certificate in memory, by target
    stored,    \* the same on disk
    cursor,    \* the next missing target, by its place among the missing ones
    savedCursor,
    holder,    \* who holds reconcileMu, or "nobody"
    pass,      \* what each goroutine does
    upsets     \* how many upsets there were

certVars == <<routing, required, certs, stored, cursor, savedCursor, holder, pass, upsets>>

Targets    == 1..TargetCount
Goroutines == {"main", "reload"}
States     == {"none", "valid", "due", "expired"}

\* hosts: what the pass has read; todo: the targets it is at; next: the cursor after it.
NoPass(at) == [at |-> at, hosts |-> {}, todo |-> <<>>, next |-> 0, renews |-> FALSE]

\* What earlier processes have left on disk.
CertInit ==
    /\ routing = Hosts
    /\ required = {}
    /\ certs = [t \in Targets |-> "none"]
    /\ stored \in [Targets -> {"none", "valid"}]
    /\ cursor = 0
    /\ savedCursor \in 0..TargetCount - 1
    /\ holder = "nobody"
    /\ pass = [g \in Goroutines |-> NoPass(IF g = "main" THEN "loads" ELSE "idle")]
    /\ upsets = 0

CertTypeOK ==
    /\ routing \subseteq Hosts
    /\ required \subseteq Hosts
    /\ certs \in [Targets -> States]
    /\ stored \in [Targets -> States]
    /\ cursor \in 0..TargetCount - 1
    /\ savedCursor \in 0..TargetCount - 1
    /\ holder \in Goroutines \cup {"nobody"}
    /\ \A g \in Goroutines :
          /\ pass[g].at \in {"loads", "idle", "hosts", "starts", "derives", "selects",
                             "persists", "orders", "saves", "publishes",
                             "collects"}
          /\ pass[g].hosts \subseteq Hosts
          /\ pass[g].todo \in Seq(Targets) /\ Len(pass[g].todo) <= TargetCount
          /\ pass[g].next \in 0..TargetCount - 1
          /\ pass[g].renews \in BOOLEAN
          /\ pass[g].at \in {"derives", "selects", "persists"} => holder = g
    /\ upsets \in 0..MaxUpsets

Upsets == upsets < MaxUpsets /\ upsets' = upsets + 1

PassGoes(g, at) == pass' = [pass EXCEPT ![g].at = at]

\* certificateExistsLocked
Covered(t) == certs[t] \in {"valid", "due"}

-----------------------------------------------------------------------------
(* Reconcile                                                               *)

\* SetAdditionalHosts, the first step of a reload: what is no longer configured is no
\* longer served.  Load has read the disk before there is a reload, and what comes between
\* this step and the pass may fail and end it.
SetAdditionalHosts ==
    /\ pass["reload"].at = "hosts"
    /\ pass["main"].at # "loads"
    /\ holder = "nobody"
    /\ required' = routing
    /\ PassGoes("reload", "starts") \/ PassGoes("reload", "idle")
    /\ UNCHANGED <<routing, certs, stored, cursor, savedCursor, holder, upsets>>

\* Under reconcileMu the routes are read and required before anything can fail ...
Reconcile(g) ==
    /\ pass[g].at = "starts"
    /\ holder = "nobody"
    /\ holder' = g
    /\ required' = routing
    /\ pass' = [pass EXCEPT ![g].at = "derives", ![g].hosts = routing]
    /\ UNCHANGED <<routing, certs, stored, cursor, savedCursor, upsets>>

\* The main goroutine renews after its pass, a reload is over.
PassEnds(g) == pass' = [pass EXCEPT ![g] = NoPass(IF g = "main" THEN "collects" ELSE "idle")]

\* ... DeriveCertificateTargets asks for the zones, and may fail ...
DerivesTargets(g) ==
    /\ pass[g].at = "derives"
    /\ \/ /\ PassGoes(g, "selects")
          /\ UNCHANGED <<holder, upsets>>
       \/ /\ Upsets
          /\ PassEnds(g)
          /\ holder' = "nobody"
    /\ UNCHANGED <<routing, required, certs, stored, cursor, savedCursor>>

\* The targets of these hosts that no certificate covers, in order.
MissingTargets(hosts) ==
    InOrder({t \in {TargetOf[h] : h \in hosts} : ~ Covered(t)})

\* Mutated: the batch always starts with the first missing target.
SelectFromStart(missing) ==
    IF BatchSize >= Len(missing) THEN [batch |-> missing, next |-> 0]
    ELSE [batch |-> SubSeq(missing, 1, BatchSize), next |-> 0]

\* selectMissingTargetsLocked: all of them if they fit, else from the cursor around.
SelectBatch(missing) ==
    LET count == Len(missing)
        start == cursor % count
    IN IF BatchSize >= count THEN [batch |-> missing, next |-> 0]
       ELSE [batch |-> [k \in 1..BatchSize |-> missing[((start + k - 1) % count) + 1]],
             next |-> (start + BatchSize) % count]

\* ... and the missing ones are chosen, with the cursor of the next pass.
SelectsTargets(g) ==
    LET chosen == SelectBatch(MissingTargets(pass[g].hosts)) IN
    /\ pass[g].at = "selects"
    /\ pass' = [pass EXCEPT ![g] = [NoPass(IF chosen.next = cursor THEN "orders" ELSE "persists")
                    EXCEPT !.todo = chosen.batch, !.next = chosen.next]]
    /\ UNCHANGED <<routing, required, certs, stored, cursor, savedCursor, holder, upsets>>

\* The cursor is moved before anything is ordered; on disk it may stay behind.
PersistsCursor(g) ==
    /\ pass[g].at = "persists"
    /\ savedCursor' \in {savedCursor, pass[g].next}
    /\ cursor' = pass[g].next
    /\ pass' = [pass EXCEPT ![g].at = "orders", ![g].next = 0]
    /\ UNCHANGED <<routing, required, certs, stored, holder, upsets>>

-----------------------------------------------------------------------------
(* Ordering: reconcileMissingTargets and renewDueCertificates alike        *)

NextTarget(g) == pass' = [pass EXCEPT ![g].at = "orders", ![g].todo = Tail(@)]

\* Issuer.Obtain or Issuer.Renew: no lock is held but, in a pass, reconcileMu.
OrdersCertificate(g) ==
    /\ pass[g].at = "orders"
    /\ pass[g].todo # <<>>
    /\ PassGoes(g, "saves") \/ NextTarget(g)
    /\ UNCHANGED <<routing, required, certs, stored, cursor, savedCursor, holder, upsets>>

\* Save, unless the other goroutine holds the lock of the store or the disk fails.
SavesCertificate(g) ==
    /\ pass[g].at = "saves"
    /\ \/ /\ stored' = [stored EXCEPT ![Head(pass[g].todo)] = "valid"]
          /\ PassGoes(g, "publishes")
       \/ /\ NextTarget(g)
          /\ UNCHANGED stored
    /\ UNCHANGED <<routing, required, certs, cursor, savedCursor, holder, upsets>>

UsesCertificate(g) ==
    /\ pass[g].at = "publishes"
    /\ certs' = [certs EXCEPT ![Head(pass[g].todo)] = "valid"]
    /\ NextTarget(g)
    /\ UNCHANGED <<routing, required, stored, cursor, savedCursor, holder, upsets>>

ReconcileReturns(g) ==
    /\ pass[g].at = "orders"
    /\ ~ pass[g].renews
    /\ pass[g].todo = <<>>
    /\ holder' = "nobody"
    /\ PassEnds(g)
    /\ UNCHANGED <<routing, required, certs, stored, cursor, savedCursor, upsets>>

\* Every certificate in memory, of hosts no longer configured too, in the order of a map.
CollectsDue ==
    /\ pass["main"].at = "collects"
    /\ \E due \in SetToSeqs({t \in Targets : certs[t] \in {"due", "expired"}}) :
          pass' = [pass EXCEPT !["main"] =
                      [NoPass("orders") EXCEPT !.todo = due, !.renews = TRUE]]
    /\ UNCHANGED <<routing, required, certs, stored, cursor, savedCursor, holder, upsets>>

RenewalsEnd ==
    /\ pass["main"].at = "orders"
    /\ pass["main"].renews
    /\ pass["main"].todo = <<>>
    /\ pass' = [pass EXCEPT !["main"] = NoPass("idle")]
    /\ UNCHANGED <<routing, required, certs, stored, cursor, savedCursor, holder, upsets>>

-----------------------------------------------------------------------------
(* The process and its surroundings                                        *)

\* Load: without its state it starts with the first target, and the server survives that
\* nothing could be loaded.
LoadsStored ==
    /\ pass["main"].at = "loads"
    /\ \/ /\ certs' = stored
          /\ required' = routing
          /\ \/ cursor' = savedCursor /\ UNCHANGED upsets
             \/ cursor' = 0 /\ Upsets
       \/ /\ Upsets
          /\ UNCHANGED <<certs, cursor, required>>
    /\ PassGoes("main", "starts")
    /\ UNCHANGED <<routing, stored, savedCursor, holder>>

\* The ticker of the loop.
Ticks ==
    /\ pass["main"].at = "idle"
    /\ PassGoes("main", "starts")
    /\ UNCHANGED <<routing, required, certs, stored, cursor, savedCursor, holder, upsets>>

\* The configuration is read again, whether it has changed or not.
ReloadBegins ==
    /\ pass["reload"].at = "idle"
    /\ pass["main"].at # "loads"
    /\ PassGoes("reload", "hosts")
    /\ UNCHANGED <<routing, required, certs, stored, cursor, savedCursor, holder, upsets>>

ChangesRouting ==
    /\ Upsets
    /\ routing' \in SUBSET Hosts
    /\ UNCHANGED <<required, certs, stored, cursor, savedCursor, holder, pass>>

Older(state) == IF state = "valid" THEN "due" ELSE IF state = "due" THEN "expired" ELSE state

GrowsOld(t) ==
    /\ Upsets
    /\ certs' = [certs EXCEPT ![t] = Older(@)]
    /\ stored' = [stored EXCEPT ![t] = Older(@)]
    /\ UNCHANGED <<routing, required, cursor, savedCursor, holder, pass>>

Restarts ==
    /\ Upsets
    /\ required' = {}
    /\ certs' = [t \in Targets |-> "none"]
    /\ cursor' = 0
    /\ holder' = "nobody"
    /\ pass' = [g \in Goroutines |-> NoPass(IF g = "main" THEN "loads" ELSE "idle")]
    /\ UNCHANGED <<routing, stored, savedCursor>>

PassStep(g) ==
    \/ Reconcile(g) \/ DerivesTargets(g) \/ SelectsTargets(g) \/ PersistsCursor(g)
    \/ OrdersCertificate(g) \/ SavesCertificate(g) \/ UsesCertificate(g) \/ ReconcileReturns(g)

MainStep   == LoadsStored \/ PassStep("main") \/ CollectsDue \/ RenewalsEnd \/ Ticks
ReloadStep == SetAdditionalHosts \/ PassStep("reload")

CertNext ==
    \/ MainStep
    \/ ReloadStep
    \/ ReloadBegins
    \/ ChangesRouting
    \/ \E t \in Targets : GrowsOld(t)
    \/ Restarts

CertSpec == CertInit /\ [][CertNext]_certVars

\* Goroutines are scheduled, the ticker ticks, and an order ends, one way or the other.
CertFairness == WF_certVars(MainStep) /\ WF_certVars(ReloadStep)

-----------------------------------------------------------------------------
(* Correctness                                                             *)

\* However often the orders of other hosts fail, and wherever routes, certificates that
\* came or grew old and restarts have left the cursor among what is missing by now: a host
\* that stays configured is required, and has a certificate or is ordered one, again and
\* again ("one repeatedly failing target cannot indefinitely block later targets",
\* service.go:272).
ServedOrTried ==
    \A h \in Hosts :
        h \in routing ~>
            \/ h \notin routing
            \/ /\ h \in required
               /\ \/ Covered(TargetOf[h])
                  \/ \E g \in Goroutines : /\ pass[g].at = "orders"
                                           /\ pass[g].todo # <<>>
                                           /\ Head(pass[g].todo) = TargetOf[h]
=============================================================================
