---------------------------- MODULE RegistryProofs ----------------------------
(***************************************************************************)
(* Proofs about the registry.  About Registry: what a prune deletes no     *)
(* list of tags needs, and no tag is left without its manifest, for any    *)
(* clients, prunes, tags and blobs, and whatever fails in any step.  About *)
(* CliPush, for any clients, attempts, events and timers: a suppression    *)
(* always has a timer that ends it, and a client that is told "Deployed"   *)
(* has its image running, or a newer one.  About Uploads, for any          *)
(* requests, uploads, bodies and limits: blobs are intact.  And about      *)
(* MCRegistry, which is the three: its types.                              *)
(***************************************************************************)
EXTENDS MCRegistry, FiniteSetTheorems, SequenceTheorems, TLAPS

-----------------------------------------------------------------------------
(* The newest                                                              *)

Above(S, stamp, t) == {o \in S : stamp[o] > stamp[t]}

LEMMA AboveFinite ==
  ASSUME NEW S, IsFiniteSet(S), NEW stamp, NEW t
  PROVE  IsFiniteSet(Above(S, stamp, t)) /\ Cardinality(Above(S, stamp, t)) \in Nat
<1>1. Above(S, stamp, t) \in SUBSET S
  BY DEF Above
<1> QED
  BY <1>1, FS_Subset, FS_CardinalityType

\* What is older has more above it.
LEMMA OlderHasMore ==
  ASSUME NEW S, IsFiniteSet(S), NEW stamp, \A x \in S : stamp[x] \in Nat,
         NEW x \in S, NEW y \in S, stamp[x] > stamp[y]
  PROVE  Cardinality(Above(S, stamp, x)) < Cardinality(Above(S, stamp, y))
<1> DEFINE A == Above(S, stamp, x)
           B == Above(S, stamp, y)
<1>1. A \cup {x} \in SUBSET B /\ x \notin A
  BY DEF Above
<1>2. IsFiniteSet(A) /\ IsFiniteSet(B) /\ Cardinality(A) \in Nat /\ Cardinality(B) \in Nat
  BY AboveFinite
<1> HIDE DEF A, B
<1>3. Cardinality(A \cup {x}) = Cardinality(A) + 1
  BY <1>1, <1>2, FS_AddElement
<1>4. Cardinality(A \cup {x}) <= Cardinality(B)
  BY <1>1, <1>2, FS_Subset
<1>5. Cardinality(A) < Cardinality(B)
  BY <1>2, <1>3, <1>4
<1> QED
  BY <1>5 DEF A, B

LEMMA FewerAbove ==
  ASSUME NEW S, IsFiniteSet(S), NEW stamp, NEW x \in S
  PROVE  Cardinality(Above(S, stamp, x)) <= Cardinality(S)
<1>1. Above(S, stamp, x) \in SUBSET S
  BY DEF Above
<1> QED
  BY <1>1, FS_Subset

\* Of k things with different stamps or more, at least k have fewer than k above them.
LEMMA NewestCount ==
  ASSUME NEW S, IsFiniteSet(S), NEW stamp, \A x \in S : stamp[x] \in Nat,
         \A x, y \in S : stamp[x] = stamp[y] => x = y,
         NEW k \in Nat, k <= Cardinality(S)
  PROVE  k <= Cardinality({x \in S : Cardinality(Above(S, stamp, x)) < k})
<1> DEFINE n == Cardinality(S)
           rank(x) == Cardinality(Above(S, stamp, x))
           Old == {x \in S : ~ rank(x) < k}
           f == [x \in Old |-> rank(x)]
<1>0. n \in Nat
  BY FS_CardinalityType
<1>1. \A x \in S : rank(x) \in Nat
  BY AboveFinite
<1>2. \A x \in S : rank(x) < n
  <2> SUFFICES ASSUME NEW x \in S PROVE rank(x) < n
    OBVIOUS
  <2>1. Above(S, stamp, x) \in SUBSET S /\ x \notin Above(S, stamp, x)
    BY DEF Above
  <2>2. rank(x) <= n /\ (n = rank(x) => S = Above(S, stamp, x))
    BY <2>1, FS_Subset
  <2> QED
    BY <1>0, <1>1, <2>1, <2>2
<1>3. \A x, y \in S : rank(x) = rank(y) => x = y
  <2> SUFFICES ASSUME NEW x \in S, NEW y \in S, x # y PROVE rank(x) # rank(y)
    OBVIOUS
  <2>1. stamp[x] > stamp[y] \/ stamp[y] > stamp[x]
    OBVIOUS
  <2>2. rank(x) < rank(y) \/ rank(y) < rank(x)
    BY <2>1, OlderHasMore
  <2> QED
    BY <1>1, <2>2
<1>4. Old \in SUBSET S /\ IsFiniteSet(Old)
  BY FS_Subset
<1> HIDE DEF n, rank
<1>5. f \in Injection(Old, k..(n - 1))
  BY <1>0, <1>1, <1>2, <1>3 DEF Injection, IsInjective
<1>6. IsFiniteSet(k..(n - 1)) /\ Cardinality(k..(n - 1)) = n - k
  <2>1. k <= n
    BY DEF n
  <2> QED
    BY <1>0, <2>1, FS_Interval
<1> HIDE DEF Old, f
<1>7. Cardinality(Old) <= n - k /\ Cardinality(Old) \in Nat
  BY <1>4, <1>5, <1>6, FS_Injection, FS_CardinalityType
<1>8. IsFiniteSet(S \ Old) /\ Cardinality(S \ Old) = n - Cardinality(Old)
  <2>1. S \cap Old = Old
    BY <1>4
  <2> QED
    BY <2>1, FS_Difference DEF n
<1>9. k <= Cardinality(S \ Old)
  BY <1>0, <1>7, <1>8
<1>10. S \ Old = {x \in S : rank(x) < k}
  BY DEF Old
<1> QED
  BY <1>9, <1>10 DEF rank

-----------------------------------------------------------------------------
(* Types, and who holds the mutex                                          *)

Reading(p) == push[p].at \in {"write", "list", "save", "fill", "publish"}
Writing(q) == prune[q].at \in {"load", "drop", "untag", "fill", "sweep"}

\* The pushes that read-lock and the prune that locks are the ones inside their section.
Exclusion ==
    /\ mutex.readers = {p \in Pushers : Reading(p)}
    /\ mutex.writer = {q \in Pruners : Writing(q)}
    /\ \A q, r \in Pruners : Writing(q) /\ Writing(r) => q = r

Safe == TypeOK /\ Exclusion

PushRecords ==
    [at : {"idle", "check", "lock", "write", "list", "save", "fill", "publish"},
     tag : Tags, refs : SUBSET Blobs, check : SUBSET Blobs, upload : SUBSET Blobs,
     uploaded : SUBSET Blobs, list : SUBSET Tags]
PruneRecords ==
    [at : {"idle", "lock", "load", "drop", "untag", "fill", "sweep"},
     drop : SUBSET Tags, tag : Tags, kept : SUBSET Tags, garbage : SUBSET Blobs]

LEMMA NoPushType == NoPush \in PushRecords /\ NoPush.at = "idle"
BY RegistryAssumption DEF NoPush, PushRecords

LEMMA NoPruneType == NoPrune \in PruneRecords /\ NoPrune.at = "idle"
BY RegistryAssumption DEF NoPrune, PruneRecords

\* While a prune writes no push reads, and it is the only one that writes.
LEMMA Excludes ==
  ASSUME Safe, NEW q \in Pruners, Writing(q)
  PROVE  (\A p \in Pushers : ~ Reading(p)) /\ \A r \in Pruners : Writing(r) => r = q
BY DEF Safe, TypeOK, Exclusion

\* What a step makes of one push, and leaves of the others.
PushBecomes(p, record) ==
    /\ push' = [push EXCEPT ![p] = record]
    /\ UNCHANGED prune

PruneBecomes(q, record) ==
    /\ prune' = [prune EXCEPT ![q] = record]
    /\ UNCHANGED push

LEMMA PushFields ==
  ASSUME Safe, NEW p \in Pushers, NEW record \in PushRecords, PushBecomes(p, record)
  PROVE  /\ push' \in [Pushers -> PushRecords] /\ prune' \in [Pruners -> PruneRecords]
         /\ push'[p] = record
         /\ \A r \in Pushers : r # p => push'[r] = push[r]
         /\ \A q \in Pruners : prune'[q] = prune[q]
BY DEF Safe, TypeOK, PushRecords, PruneRecords, PushBecomes

LEMMA PruneFields ==
  ASSUME Safe, NEW q \in Pruners, NEW record \in PruneRecords, PruneBecomes(q, record)
  PROVE  /\ push' \in [Pushers -> PushRecords] /\ prune' \in [Pruners -> PruneRecords]
         /\ prune'[q] = record
         /\ \A r \in Pruners : r # q => prune'[r] = prune[r]
         /\ \A p \in Pushers : push'[p] = push[p]
BY DEF Safe, TypeOK, PushRecords, PruneRecords, PruneBecomes

\* The types of the files.
FilesType ==
    /\ blobs \subseteq Blobs
    /\ manifests \in [Tags -> [refs : SUBSET Blobs, stamp : Nat]]
    /\ tagsFile \in [readable : BOOLEAN, tags : SUBSET Tags]
    /\ pending \subseteq Blobs
    /\ clock \in Nat
    /\ accidents \in 0..MaxAccidents

MutexType ==
    /\ mutex \in [readers : SUBSET Pushers, writer : SUBSET Pruners,
                  waiting : SUBSET Pruners]
    /\ mutex.readers = {} \/ mutex.writer = {}

LEMMA TypeParts ==
  TypeOK <=> /\ FilesType /\ MutexType
             /\ push \in [Pushers -> PushRecords] /\ prune \in [Pruners -> PruneRecords]
BY DEF TypeOK, FilesType, MutexType, PushRecords, PruneRecords

\* A push that stays inside its section, or outside it.
LEMMA SafePush ==
  ASSUME Safe, FilesType', NEW p \in Pushers, NEW record \in PushRecords,
         PushBecomes(p, record), UNCHANGED mutex,
         record.at \in {"write", "list", "save", "fill", "publish"} <=> Reading(p)
  PROVE  Safe'
<1>1. /\ push' \in [Pushers -> PushRecords] /\ prune' \in [Pruners -> PruneRecords]
      /\ push'[p] = record
      /\ \A r \in Pushers : r # p => push'[r] = push[r]
      /\ \A q \in Pruners : prune'[q] = prune[q]
  BY PushFields
<1>2. \A r \in Pushers : Reading(r)' <=> Reading(r)
  BY <1>1 DEF Reading
<1>3. \A q \in Pruners : Writing(q)' <=> Writing(q)
  BY <1>1 DEF Writing
<1>4. Exclusion'
  BY <1>2, <1>3 DEF Safe, Exclusion
<1>5. MutexType'
  BY DEF Safe, TypeOK, MutexType
<1>6. TypeOK'
  BY <1>1, <1>5 DEF TypeOK, FilesType, MutexType, PushRecords, PruneRecords
<1> QED
  BY <1>4, <1>6 DEF Safe

\* A push that leaves its section.
LEMMA SafeReturn ==
  ASSUME Safe, FilesType', NEW p \in Pushers, PushBecomes(p, NoPush),
         mutex' = [mutex EXCEPT !.readers = @ \ {p}]
  PROVE  Safe'
<1>1. /\ push' \in [Pushers -> PushRecords] /\ prune' \in [Pruners -> PruneRecords]
      /\ push'[p].at = "idle"
      /\ \A r \in Pushers : r # p => push'[r] = push[r]
      /\ \A q \in Pruners : prune'[q] = prune[q]
  BY PushFields, NoPushType
<1>2. ~ Reading(p)' /\ \A r \in Pushers : r # p => (Reading(r)' <=> Reading(r))
  BY <1>1 DEF Reading
<1>3. \A q \in Pruners : Writing(q)' <=> Writing(q)
  BY <1>1 DEF Writing
<1>4. MutexType' /\ mutex'.readers = mutex.readers \ {p} /\ mutex'.writer = mutex.writer
  BY DEF Safe, TypeOK, MutexType
<1>5. Exclusion'
  BY <1>2, <1>3, <1>4 DEF Safe, Exclusion
<1>6. TypeOK'
  BY <1>1, <1>4 DEF TypeOK, FilesType, MutexType, PushRecords, PruneRecords
<1> QED
  BY <1>5, <1>6 DEF Safe

LEMMA SafePrune ==
  ASSUME Safe, FilesType', MutexType', NEW q \in Pruners, NEW record \in PruneRecords,
         PruneBecomes(q, record),
         mutex'.readers = mutex.readers, mutex'.writer = mutex.writer,
         record.at \in {"load", "drop", "untag", "fill", "sweep"} <=> Writing(q)
  PROVE  Safe'
<1>1. /\ push' \in [Pushers -> PushRecords] /\ prune' \in [Pruners -> PruneRecords]
      /\ prune'[q] = record
      /\ \A r \in Pruners : r # q => prune'[r] = prune[r]
      /\ \A p \in Pushers : push'[p] = push[p]
  BY PruneFields
<1>2. \A p \in Pushers : Reading(p)' <=> Reading(p)
  BY <1>1 DEF Reading
<1>3. \A r \in Pruners : Writing(r)' <=> Writing(r)
  BY <1>1 DEF Writing
<1>4. Exclusion'
  BY <1>2, <1>3 DEF Safe, Exclusion
<1>5. TypeOK'
  BY <1>1 DEF TypeOK, FilesType, MutexType, PushRecords, PruneRecords
<1> QED
  BY <1>4, <1>5 DEF Safe

\* The unlock of a prune lets in the pushes that wait.
LEMMA SafeUnlock ==
  ASSUME Safe, FilesType', NEW q \in Pruners, Writing(q), Unlock(q)
  PROVE  Safe'
<1> DEFINE Blocked == {p \in Pushers : push[p].at = "lock"}
<1>0. /\ mutex \in [readers : SUBSET Pushers, writer : SUBSET Pruners,
                    waiting : SUBSET Pruners]
      /\ push \in [Pushers -> PushRecords] /\ prune \in [Pruners -> PruneRecords]
  BY DEF Safe, TypeOK, PushRecords, PruneRecords
<1>1. /\ prune' \in [Pruners -> PruneRecords]
      /\ prune'[q].at = "idle"
      /\ \A r \in Pruners : r # q => prune'[r] = prune[r]
  BY <1>0, NoPruneType DEF Unlock
<1>2. \A p \in Pushers : /\ push'[p] = IF p \in Blocked THEN [push[p] EXCEPT !.at = "write"]
                                       ELSE push[p]
  BY DEF Unlock
<1>3. push' = [p \in Pushers |-> push'[p]]
  BY DEF Unlock
<1>4. \A p \in Pushers : push'[p] \in PushRecords
  <2> SUFFICES ASSUME NEW p \in Pushers PROVE push'[p] \in PushRecords
    OBVIOUS
  <2>1. push[p] \in PushRecords /\ [push[p] EXCEPT !.at = "write"] \in PushRecords
    BY <1>0 DEF PushRecords
  <2> QED
    BY <1>2, <2>1
<1>5. \A p \in Pushers : Reading(p)' <=> Reading(p) \/ p \in Blocked
  BY <1>0, <1>2 DEF Reading, PushRecords
<1>6. \A r \in Pruners : ~ Writing(r)'
  <2>1. \A r \in Pruners : r # q => ~ Writing(r)
    BY Excludes
  <2> QED
    BY <1>1, <2>1 DEF Writing
<1>7. mutex'.writer = {} /\ mutex'.readers = mutex.readers \cup Blocked /\ MutexType'
  BY <1>0 DEF Unlock, MutexType
<1>8. Exclusion'
  BY <1>5, <1>6, <1>7 DEF Safe, Exclusion
<1>9. TypeOK'
  BY <1>1, <1>3, <1>4, <1>7 DEF TypeOK, FilesType, MutexType, PushRecords, PruneRecords
<1> QED
  BY <1>8, <1>9 DEF Safe

LEMMA SafeInit == Init => Safe
<1> SUFFICES ASSUME Init PROVE Safe
  OBVIOUS
<1> USE DEF Init
<1>1. FilesType
  BY RegistryAssumption DEF FilesType, NoManifest
<1>2. MutexType
  BY DEF MutexType, Unheld
<1>3. push \in [Pushers -> PushRecords] /\ prune \in [Pruners -> PruneRecords]
  BY NoPushType, NoPruneType
<1>4. Exclusion
  BY NoPushType, NoPruneType DEF Exclusion, Reading, Writing, Unheld
<1> QED
  BY <1>1, <1>2, <1>3, <1>4, TypeParts DEF Safe

LEMMA SafeNext == Safe /\ [Next]_vars => Safe'
<1> SUFFICES ASSUME Safe, [Next]_vars PROVE Safe'
  OBVIOUS
<1>t. /\ FilesType /\ MutexType
      /\ push \in [Pushers -> PushRecords] /\ prune \in [Pruners -> PruneRecords]
  BY TypeParts DEF Safe
<1>1. ASSUME NEW p \in Pushers, StartPush(p) PROVE Safe'
  <2>0. PICK tag \in Tags, refs \in Contents :
          push' = [push EXCEPT ![p] = [NoPush EXCEPT !.at = "check", !.tag = tag,
                                                     !.refs = refs, !.check = refs]]
    BY <1>1 DEF StartPush
  <2> DEFINE record == [NoPush EXCEPT !.at = "check", !.tag = tag, !.refs = refs, !.check = refs]
  <2>1. PushBecomes(p, record) /\ UNCHANGED mutex
    BY <1>1, <2>0 DEF StartPush, PushBecomes
  <2>2. record \in PushRecords /\ record.at \in {"check"}
    BY <1>1, <2>0, <1>t, NoPushType, RegistryAssumption DEF StartPush, PushRecords
  <2>3. FilesType'
    BY <1>1, <2>0, <1>t DEF StartPush, FilesType
  <2>4. Reading(p) <=> record.at \in {"write", "list", "save", "fill", "publish"}
    BY <1>1, <2>0, <2>2 DEF StartPush, Reading
  <2> HIDE DEF record
  <2> QED
    BY <2>1, <2>2, <2>3, <2>4, SafePush
<1>2. ASSUME NEW p \in Pushers, CheckBlob(p) PROVE Safe'
  <2>a. PICK b \in push[p].check :
          push' = [push EXCEPT ![p].check = @ \ {b},
                               ![p].upload = IF Found(b) THEN @ ELSE @ \cup {b}]
    BY <1>2 DEF CheckBlob
  <2>0. PICK upload : /\ push' = [push EXCEPT ![p] = [push[p] EXCEPT !.check = @ \ {b},
                                                                   !.upload = upload]]
                      /\ upload \in {push[p].upload, push[p].upload \cup {b}}
    BY <2>a
  <2> DEFINE record == [push[p] EXCEPT !.check = @ \ {b}, !.upload = upload]
  <2>1. PushBecomes(p, record) /\ UNCHANGED mutex
    BY <1>2, <2>0 DEF CheckBlob, PushBecomes
  <2>2. record \in PushRecords /\ record.at \in {"check"}
    BY <1>2, <2>0, <1>t DEF CheckBlob, PushRecords
  <2>3. FilesType'
    BY <1>2, <2>0, <1>t DEF CheckBlob, FilesType
  <2>4. Reading(p) <=> record.at \in {"write", "list", "save", "fill", "publish"}
    BY <1>2, <2>0, <2>2 DEF CheckBlob, Reading
  <2> HIDE DEF record
  <2> QED
    BY <2>1, <2>2, <2>3, <2>4, SafePush
<1>3. ASSUME NEW p \in Pushers, FinishUpload(p) PROVE Safe'
  <2>0. PICK b \in push[p].upload : Uploaded(p, b)
    BY <1>3 DEF FinishUpload
  <2> DEFINE record == [push[p] EXCEPT !.upload = @ \ {b}, !.uploaded = @ \cup {b}]
  <2>1. PushBecomes(p, record) /\ UNCHANGED mutex
    BY <1>3, <2>0 DEF FinishUpload, PushBecomes, Uploaded
  <2>2. record \in PushRecords /\ record.at \in {"check"}
    BY <1>3, <2>0, <1>t DEF FinishUpload, PushRecords
  <2>3. b \in Blobs
    BY <2>0, <1>t DEF PushRecords
  <2>4. FilesType'
    BY <1>3, <2>0, <2>3, <1>t DEF FinishUpload, FilesType, Uploaded
  <2>5. Reading(p) <=> record.at \in {"write", "list", "save", "fill", "publish"}
    BY <1>3, <2>0, <2>2 DEF FinishUpload, Reading
  <2> HIDE DEF record
  <2> QED
    BY <2>1, <2>2, <2>4, <2>5, SafePush
<1>4. ASSUME NEW p \in Pushers, PutBlob(p) PROVE Safe'
  <2>0. PICK b \in push[p].upload : Uploaded(p, b) /\ pending' = pending \cup {b}
    BY <1>4 DEF PutBlob
  <2> DEFINE record == [push[p] EXCEPT !.upload = @ \ {b}, !.uploaded = @ \cup {b}]
  <2>1. PushBecomes(p, record) /\ UNCHANGED mutex
    BY <1>4, <2>0 DEF PutBlob, PushBecomes, Uploaded
  <2>2. record \in PushRecords /\ record.at \in {"check"}
    BY <1>4, <2>0, <1>t DEF PutBlob, PushRecords
  <2>3. b \in Blobs
    BY <2>0, <1>t DEF PushRecords
  <2>4. FilesType'
    BY <1>4, <2>0, <2>3, <1>t DEF PutBlob, FilesType, Uploaded
  <2>5. Reading(p) <=> record.at \in {"write", "list", "save", "fill", "publish"}
    BY <1>4, <2>0, <2>2 DEF PutBlob, Reading
  <2> HIDE DEF record
  <2> QED
    BY <2>1, <2>2, <2>4, <2>5, SafePush
<1>5. ASSUME NEW p \in Pushers, PutManifest(p) PROVE Safe'
  <2> DEFINE record == [push[p] EXCEPT !.at = "lock"]
  <2>1. PushBecomes(p, record) /\ UNCHANGED mutex
    BY <1>5 DEF PutManifest, PushBecomes
  <2>2. record \in PushRecords /\ record.at \in {"lock"}
    BY <1>5, <1>t DEF PutManifest, PushRecords
  <2>3. FilesType'
    BY <1>5, <1>t DEF PutManifest, FilesType
  <2>4. Reading(p) <=> record.at \in {"write", "list", "save", "fill", "publish"}
    BY <1>5, <2>2 DEF PutManifest, Reading
  <2> HIDE DEF record
  <2> QED
    BY <2>1, <2>2, <2>3, <2>4, SafePush
<1>6. ASSUME NEW p \in Pushers, RLock(p) PROVE Safe'
  <2> DEFINE record == [push[p] EXCEPT !.at = "write"]
  <2>1. PushBecomes(p, record) /\ record \in PushRecords /\ record.at = "write"
    BY <1>6, <1>t DEF RLock, PushBecomes, PushRecords
  <2>2. FilesType'
    BY <1>6, <1>t DEF RLock, FilesType
  <2>3. /\ mutex'.readers = mutex.readers \cup {p} /\ mutex'.writer = mutex.writer
        /\ mutex.writer = {} /\ MutexType'
    BY <1>6, <1>t DEF RLock, MutexType
  <2> HIDE DEF record
  <2>4. /\ push' \in [Pushers -> PushRecords] /\ prune' \in [Pruners -> PruneRecords]
        /\ push'[p].at = "write"
        /\ \A r \in Pushers : r # p => push'[r] = push[r]
        /\ \A q \in Pruners : prune'[q] = prune[q]
    BY <2>1, PushFields
  <2>5. Reading(p)' /\ \A r \in Pushers : r # p => (Reading(r)' <=> Reading(r))
    BY <2>4 DEF Reading
  <2>6. \A q \in Pruners : Writing(q)' <=> Writing(q)
    BY <2>4 DEF Writing
  <2>7. Exclusion'
    BY <2>3, <2>5, <2>6 DEF Safe, Exclusion
  <2>8. TypeOK'
    BY <2>2, <2>3, <2>4 DEF TypeOK, FilesType, MutexType, PushRecords, PruneRecords
  <2> QED
    BY <2>7, <2>8 DEF Safe
<1>7. ASSUME NEW p \in Pushers, WriteManifest(p) PROVE Safe'
  <2> DEFINE record == [push[p] EXCEPT !.at = "list"]
  <2>1. PushBecomes(p, record) /\ UNCHANGED mutex
    BY <1>7 DEF WriteManifest, PushBecomes
  <2>2. record \in PushRecords /\ record.at \in {"list"}
    BY <1>7, <1>t DEF WriteManifest, PushRecords
  <2>3. FilesType'
    BY <1>7, <1>t DEF WriteManifest, FilesType, PushRecords
  <2>4. Reading(p) <=> record.at \in {"write", "list", "save", "fill", "publish"}
    BY <1>7, <2>2 DEF WriteManifest, Reading
  <2> HIDE DEF record
  <2> QED
    BY <2>1, <2>2, <2>3, <2>4, SafePush
<1>8. ASSUME NEW p \in Pushers, ReadTags(p) PROVE Safe'
  <2> DEFINE record == [push[p] EXCEPT !.list = Listed,
                       !.at = IF tagsFile.readable /\ push[p].tag \notin tagsFile.tags
                              THEN "save" ELSE "publish"]
  <2>1. PushBecomes(p, record) /\ UNCHANGED mutex
    BY <1>8 DEF ReadTags, PushBecomes
  <2>2. record \in PushRecords /\ record.at \in {"save", "publish"}
    BY <1>8, <1>t DEF ReadTags, PushRecords, Listed, FilesType
  <2>3. FilesType'
    BY <1>8, <1>t DEF ReadTags, FilesType
  <2>4. Reading(p) <=> record.at \in {"write", "list", "save", "fill", "publish"}
    BY <1>8, <2>2 DEF ReadTags, Reading
  <2> HIDE DEF record
  <2> QED
    BY <2>1, <2>2, <2>3, <2>4, SafePush
<1>9. ASSUME NEW p \in Pushers, TruncateTags(p) PROVE Safe'
  <2> DEFINE record == [push[p] EXCEPT !.at = "fill"]
  <2>1. PushBecomes(p, record) /\ UNCHANGED mutex
    BY <1>9 DEF TruncateTags, PushBecomes
  <2>2. record \in PushRecords /\ record.at \in {"fill"}
    BY <1>9, <1>t DEF TruncateTags, PushRecords
  <2>3. FilesType'
    BY <1>9, <1>t DEF TruncateTags, FilesType
  <2>4. Reading(p) <=> record.at \in {"write", "list", "save", "fill", "publish"}
    BY <1>9, <2>2 DEF TruncateTags, Reading
  <2> HIDE DEF record
  <2> QED
    BY <2>1, <2>2, <2>3, <2>4, SafePush
<1>10. ASSUME NEW p \in Pushers, SaveTags(p) PROVE Safe'
  <2> DEFINE record == [push[p] EXCEPT !.at = "publish"]
  <2>1. PushBecomes(p, record) /\ UNCHANGED mutex
    BY <1>10 DEF SaveTags, PushBecomes
  <2>2. record \in PushRecords /\ record.at \in {"publish"}
    BY <1>10, <1>t DEF SaveTags, PushRecords
  <2>3. FilesType'
    BY <1>10, <1>t DEF SaveTags, FilesType, PushRecords
  <2>4. Reading(p) <=> record.at \in {"write", "list", "save", "fill", "publish"}
    BY <1>10, <2>2 DEF SaveTags, Reading
  <2> HIDE DEF record
  <2> QED
    BY <2>1, <2>2, <2>3, <2>4, SafePush
<1>11. ASSUME NEW p \in Pushers, SaveFails(p) PROVE Safe'
  <2> DEFINE record == [push[p] EXCEPT !.at = "publish"]
  <2>1. PushBecomes(p, record) /\ UNCHANGED mutex
    BY <1>11 DEF SaveFails, PushBecomes
  <2>2. record \in PushRecords /\ record.at \in {"publish"}
    BY <1>11, <1>t DEF SaveFails, PushRecords
  <2>3. FilesType'
    BY <1>11, <1>t, RegistryAssumption DEF SaveFails, FilesType, Accident
  <2>4. Reading(p) <=> record.at \in {"write", "list", "save", "fill", "publish"}
    BY <1>11, <2>2 DEF SaveFails, Reading
  <2> HIDE DEF record
  <2> QED
    BY <2>1, <2>2, <2>3, <2>4, SafePush
<1>12. ASSUME NEW p \in Pushers, PushFails(p) PROVE Safe'
  <2>1. PushBecomes(p, NoPush) /\ mutex' = [mutex EXCEPT !.readers = @ \ {p}]
    BY <1>12 DEF PushFails, PushBecomes
  <2>2. FilesType'
    BY <1>12, <1>t DEF PushFails, FilesType
  <2> QED
    BY <2>1, <2>2, SafeReturn
<1>13. ASSUME NEW p \in Pushers, MarkPublished(p) PROVE Safe'
  <2>1. PushBecomes(p, NoPush) /\ mutex' = [mutex EXCEPT !.readers = @ \ {p}]
    BY <1>13 DEF MarkPublished, PushBecomes
  <2>2. FilesType'
    BY <1>13, <1>t DEF MarkPublished, FilesType
  <2> QED
    BY <2>1, <2>2, SafeReturn
<1>14. ASSUME NEW q \in Pruners, CallPrune(q) PROVE Safe'
  <2> DEFINE record == [prune[q] EXCEPT !.at = "lock"]
  <2>1. PruneBecomes(q, record)
    BY <1>14 DEF CallPrune, PruneBecomes
  <2>2. record \in PruneRecords /\ record.at = "lock"
    BY <1>14, <1>t DEF CallPrune, PruneRecords
  <2>3. FilesType'
    BY <1>14, <1>t DEF CallPrune, FilesType
  <2>4. MutexType' /\ mutex'.readers = mutex.readers /\ mutex'.writer = mutex.writer
    BY <1>14, <1>t DEF CallPrune, MutexType
  <2>5. Writing(q) <=> record.at \in {"load", "drop", "untag", "fill", "sweep"}
    BY <1>14, <2>2 DEF CallPrune, Writing
  <2> HIDE DEF record
  <2> QED
    BY <2>1, <2>2, <2>3, <2>4, <2>5, SafePrune
<1>15. ASSUME NEW q \in Pruners, Lock(q) PROVE Safe'
  <2> DEFINE record == [prune[q] EXCEPT !.at = "load"]
  <2>1. PruneBecomes(q, record) /\ record \in PruneRecords /\ record.at = "load"
    BY <1>15, <1>t DEF Lock, PruneBecomes, PruneRecords
  <2>2. FilesType'
    BY <1>15, <1>t DEF Lock, FilesType
  <2>3. /\ mutex'.readers = mutex.readers /\ mutex'.writer = {q}
        /\ mutex.readers = {} /\ mutex.writer = {} /\ MutexType'
    BY <1>15, <1>t DEF Lock, MutexType
  <2> HIDE DEF record
  <2>4. /\ push' \in [Pushers -> PushRecords] /\ prune' \in [Pruners -> PruneRecords]
        /\ prune'[q].at = "load"
        /\ \A r \in Pruners : r # q => prune'[r] = prune[r]
        /\ \A p \in Pushers : push'[p] = push[p]
    BY <2>1, PruneFields
  <2>5. \A p \in Pushers : Reading(p)' <=> Reading(p)
    BY <2>4 DEF Reading
  <2>6. Writing(q)' /\ \A r \in Pruners : r # q => ~ Writing(r)'
    BY <2>3, <2>4 DEF Safe, Exclusion, Writing
  <2>7. Exclusion'
    BY <2>3, <2>5, <2>6 DEF Safe, Exclusion
  <2>8. TypeOK'
    BY <2>2, <2>3, <2>4 DEF TypeOK, FilesType, MutexType, PushRecords, PruneRecords
  <2> QED
    BY <2>7, <2>8 DEF Safe
<1>16. ASSUME NEW q \in Pruners, LoadTags(q) PROVE Safe'
  <2> DEFINE record == [prune[q] EXCEPT !.at = "drop", !.drop = {t \in Listed : ~ Kept(t)},
                                     !.kept = {t \in Listed : Kept(t)}]
  <2>1. PruneBecomes(q, record)
    BY <1>16 DEF LoadTags, PruneBecomes
  <2>2. record \in PruneRecords /\ record.at = "drop"
    BY <1>16, <1>t DEF LoadTags, PruneRecords, Listed, FilesType
  <2>3. FilesType'
    BY <1>16, <1>t DEF LoadTags, FilesType
  <2>4. MutexType' /\ mutex'.readers = mutex.readers /\ mutex'.writer = mutex.writer
    BY <1>16, <1>t DEF LoadTags, MutexType
  <2>5. Writing(q) <=> record.at \in {"load", "drop", "untag", "fill", "sweep"}
    BY <1>16, <2>2 DEF LoadTags, Writing
  <2> HIDE DEF record
  <2> QED
    BY <2>1, <2>2, <2>3, <2>4, <2>5, SafePrune
<1>17. ASSUME NEW q \in Pruners, DropManifest(q) PROVE Safe'
  <2>0. PICK t \in prune[q].drop :
          /\ manifests' = [manifests EXCEPT ![t] = NoManifest]
          /\ prune' = [prune EXCEPT ![q].at = "untag", ![q].tag = t, ![q].drop = @ \ {t}]
    BY <1>17 DEF DropManifest
  <2> DEFINE record == [prune[q] EXCEPT !.at = "untag", !.tag = t, !.drop = @ \ {t}]
  <2>1. PruneBecomes(q, record)
    BY <1>17, <2>0 DEF DropManifest, PruneBecomes
  <2>2. record \in PruneRecords /\ record.at = "untag"
    BY <1>17, <2>0, <1>t DEF DropManifest, PruneRecords
  <2>3. FilesType'
    BY <1>17, <2>0, <1>t DEF DropManifest, FilesType, NoManifest
  <2>4. MutexType' /\ mutex'.readers = mutex.readers /\ mutex'.writer = mutex.writer
    BY <1>17, <2>0, <1>t DEF DropManifest, MutexType
  <2>5. Writing(q) <=> record.at \in {"load", "drop", "untag", "fill", "sweep"}
    BY <1>17, <2>0, <2>2 DEF DropManifest, Writing
  <2> HIDE DEF record
  <2> QED
    BY <2>1, <2>2, <2>3, <2>4, <2>5, SafePrune
<1>18. ASSUME NEW q \in Pruners, TruncateUntag(q) PROVE Safe'
  <2> DEFINE record == [prune[q] EXCEPT !.at = "fill"]
  <2>1. PruneBecomes(q, record)
    BY <1>18 DEF TruncateUntag, PruneBecomes
  <2>2. record \in PruneRecords /\ record.at = "fill"
    BY <1>18, <1>t DEF TruncateUntag, PruneRecords
  <2>3. FilesType'
    BY <1>18, <1>t DEF TruncateUntag, FilesType
  <2>4. MutexType' /\ mutex'.readers = mutex.readers /\ mutex'.writer = mutex.writer
    BY <1>18, <1>t DEF TruncateUntag, MutexType
  <2>5. Writing(q) <=> record.at \in {"load", "drop", "untag", "fill", "sweep"}
    BY <1>18, <2>2 DEF TruncateUntag, Writing
  <2> HIDE DEF record
  <2> QED
    BY <2>1, <2>2, <2>3, <2>4, <2>5, SafePrune
<1>19. ASSUME NEW q \in Pruners, Untag(q) PROVE Safe'
  <2> DEFINE record == [prune[q] EXCEPT !.at = "drop"]
  <2>1. PruneBecomes(q, record)
    BY <1>19 DEF Untag, PruneBecomes
  <2>2. record \in PruneRecords /\ record.at = "drop"
    BY <1>19, <1>t DEF Untag, PruneRecords
  <2>3. FilesType'
    BY <1>19, <1>t DEF Untag, FilesType
  <2>4. MutexType' /\ mutex'.readers = mutex.readers /\ mutex'.writer = mutex.writer
    BY <1>19, <1>t DEF Untag, MutexType
  <2>5. Writing(q) <=> record.at \in {"load", "drop", "untag", "fill", "sweep"}
    BY <1>19, <2>2 DEF Untag, Writing
  <2> HIDE DEF record
  <2> QED
    BY <2>1, <2>2, <2>3, <2>4, <2>5, SafePrune
<1>20. ASSUME NEW q \in Pruners, UntagFails(q) PROVE Safe'
  <2> DEFINE record == [prune[q] EXCEPT !.at = "drop"]
  <2>1. PruneBecomes(q, record)
    BY <1>20 DEF UntagFails, PruneBecomes
  <2>2. record \in PruneRecords /\ record.at = "drop"
    BY <1>20, <1>t DEF UntagFails, PruneRecords
  <2>3. FilesType'
    BY <1>20, <1>t, RegistryAssumption DEF UntagFails, FilesType, Accident
  <2>4. MutexType' /\ mutex'.readers = mutex.readers /\ mutex'.writer = mutex.writer
    BY <1>20, <1>t DEF UntagFails, MutexType
  <2>5. Writing(q) <=> record.at \in {"load", "drop", "untag", "fill", "sweep"}
    BY <1>20, <2>2 DEF UntagFails, Writing
  <2> HIDE DEF record
  <2> QED
    BY <2>1, <2>2, <2>3, <2>4, <2>5, SafePrune
<1>21. ASSUME NEW q \in Pruners, Collect(q) PROVE Safe'
  <2> DEFINE record == [prune[q] EXCEPT !.at = "sweep",
           !.garbage = (blobs \ pending) \ UNION {manifests[t].refs : t \in prune[q].kept}]
  <2>1. PruneBecomes(q, record)
    BY <1>21 DEF Collect, PruneBecomes
  <2>2. record \in PruneRecords /\ record.at = "sweep"
    BY <1>21, <1>t DEF Collect, PruneRecords, FilesType
  <2>3. FilesType'
    BY <1>21, <1>t DEF Collect, FilesType
  <2>4. MutexType' /\ mutex'.readers = mutex.readers /\ mutex'.writer = mutex.writer
    BY <1>21, <1>t DEF Collect, MutexType
  <2>5. Writing(q) <=> record.at \in {"load", "drop", "untag", "fill", "sweep"}
    BY <1>21, <2>2 DEF Collect, Writing
  <2> HIDE DEF record
  <2> QED
    BY <2>1, <2>2, <2>3, <2>4, <2>5, SafePrune
<1>22. ASSUME NEW q \in Pruners, DeleteBlob(q) PROVE Safe'
  <2>0. PICK b \in prune[q].garbage :
          /\ blobs' = blobs \ {b}
          /\ prune' = [prune EXCEPT ![q].garbage = @ \ {b}]
    BY <1>22 DEF DeleteBlob
  <2> DEFINE record == [prune[q] EXCEPT !.garbage = @ \ {b}]
  <2>1. PruneBecomes(q, record)
    BY <1>22, <2>0 DEF DeleteBlob, PruneBecomes
  <2>2. record \in PruneRecords /\ record.at = "sweep"
    BY <1>22, <2>0, <1>t DEF DeleteBlob, PruneRecords
  <2>3. FilesType'
    BY <1>22, <2>0, <1>t DEF DeleteBlob, FilesType
  <2>4. MutexType' /\ mutex'.readers = mutex.readers /\ mutex'.writer = mutex.writer
    BY <1>22, <2>0, <1>t DEF DeleteBlob, MutexType
  <2>5. Writing(q) <=> record.at \in {"load", "drop", "untag", "fill", "sweep"}
    BY <1>22, <2>0, <2>2 DEF DeleteBlob, Writing
  <2> HIDE DEF record
  <2> QED
    BY <2>1, <2>2, <2>3, <2>4, <2>5, SafePrune
<1>23. ASSUME NEW q \in Pruners, PruneFails(q) PROVE Safe'
  <2>1. Writing(q) /\ Unlock(q)
    BY <1>23 DEF PruneFails, Writing
  <2>2. FilesType'
    BY <1>23, <1>t DEF PruneFails, FilesType
  <2> QED
    BY <2>1, <2>2, SafeUnlock
<1>24. ASSUME NEW q \in Pruners, PruneDone(q) PROVE Safe'
  <2>1. Writing(q) /\ Unlock(q)
    BY <1>24 DEF PruneDone, Writing
  <2>2. FilesType'
    BY <1>24, <1>t DEF PruneDone, FilesType
  <2> QED
    BY <2>1, <2>2, SafeUnlock
<1>25. ASSUME NEW b \in Blobs, Expire(b) PROVE Safe'
  <2>1. FilesType' /\ UNCHANGED <<mutex, push, prune>>
    BY <1>25, <1>t DEF Expire, FilesType
  <2> QED
    BY <1>t, <2>1 DEF Safe, TypeOK, FilesType, Exclusion, Reading, Writing
<1>26. CASE ProcessDies
  <2>1. FilesType'
    BY <1>26, <1>t, RegistryAssumption DEF ProcessDies, Accident, FilesType
  <2>2. MutexType'
    BY <1>26 DEF ProcessDies, MutexType, Unheld
  <2>3. push' \in [Pushers -> PushRecords] /\ prune' \in [Pruners -> PruneRecords]
    BY <1>26, NoPushType, NoPruneType DEF ProcessDies
  <2>4. Exclusion'
    BY <1>26, NoPushType, NoPruneType DEF ProcessDies, Exclusion, Reading, Writing, Unheld
  <2> QED
    BY <2>1, <2>2, <2>3, <2>4
       DEF Safe, TypeOK, FilesType, MutexType, PushRecords, PruneRecords
<1>27. CASE UNCHANGED vars
  BY <1>27 DEF vars, Safe, TypeOK, Exclusion, Reading, Writing
<1> QED
  BY <1>1, <1>2, <1>3, <1>4, <1>5, <1>6, <1>7, <1>8, <1>9, <1>10, <1>11, <1>12,
     <1>13, <1>14, <1>15, <1>16, <1>17, <1>18, <1>19, <1>20, <1>21, <1>22, <1>23,
     <1>24, <1>25, <1>26, <1>27 DEF Next, PushStep, PruneStep

\* Every variable keeps its type, the mutex is never held by a reader and a writer, and
\* who is inside a section holds it (MutationMu of registrystate, whatever fails or dies).
THEOREM Typing == Spec => [](TypeOK /\ Exclusion)
<1> QED
  BY SafeInit, SafeNext, PTL DEF Spec, Safe

-----------------------------------------------------------------------------
(* The list of tags, the manifests, and what a prune plans                 *)

\* Every manifest was written at a time of its own.
Stamped ==
    /\ \A t \in Tags : manifests[t].stamp <= clock
    /\ \A t, u \in Tags : Stored(t) /\ manifests[t].stamp = manifests[u].stamp => t = u

\* What a push is about to list has a manifest.
Pushed(p) ==
    /\ push[p].at \in {"list", "save", "fill"} => Stored(push[p].tag)
    /\ push[p].at \in {"save", "fill"} /\ accidents = 0 => \A t \in push[p].list : Stored(t)

\* A listed tag without its manifest is the one a prune is about to take off the list.
Tagged ==
    accidents = 0 =>
        \A t \in tagsFile.tags :
            Stored(t) \/ \E q \in Pruners : prune[q].at \in {"untag", "fill"} /\ prune[q].tag = t

\* A prune's plan stays right until its end: a listed tag is kept, or still to be
\* dropped, or has nothing left; what is to be dropped has KeepLast newer ones among
\* what is kept; and no kept tag needs what is swept.
Planned(q) ==
    LET call == prune[q] IN
    /\ call.at = "fill" => ~ tagsFile.readable
    /\ call.at \in {"drop", "untag", "fill", "sweep"} =>
          /\ \A t \in tagsFile.tags :
                t \in call.kept \/ t \in call.drop \/ manifests[t] = NoManifest
          /\ call.kept \cap call.drop = {}
          /\ \A t \in call.drop :
                /\ t # Latest
                /\ KeepLast <= Cardinality({o \in call.kept \ {Latest} :
                                                manifests[o].stamp > manifests[t].stamp})
    /\ call.at = "sweep" =>
          /\ call.drop = {}
          /\ \A t \in call.kept : manifests[t].refs \cap call.garbage = {}

RegistryInv ==
    /\ Safe
    /\ Stamped
    /\ Tagged
    /\ \A p \in Pushers : Pushed(p)
    /\ \A q \in Pruners : Planned(q)

LEMMA PlanInit == Init => RegistryInv
<1> SUFFICES ASSUME Init PROVE RegistryInv
  OBVIOUS
<1>1. Stamped /\ Tagged
  BY DEF Init, Stamped, Tagged, Stored, NoManifest
<1>2. (\A p \in Pushers : Pushed(p)) /\ \A q \in Pruners : Planned(q)
  BY DEF Init, Pushed, Planned, NoPush, NoPrune
<1> QED
  BY <1>1, <1>2, SafeInit DEF RegistryInv

FilesKept == UNCHANGED <<manifests, tagsFile, clock>> /\ (accidents' = 0 => accidents = 0)

\* A step of a push that writes neither a manifest nor the list.
LEMMA PushStill ==
  ASSUME RegistryInv, NEW p \in Pushers, FilesKept, UNCHANGED prune,
         \A r \in Pushers : r # p => push'[r] = push[r], Pushed(p)'
  PROVE  /\ Stamped' /\ Tagged'
         /\ (\A r \in Pushers : Pushed(r)') /\ \A q \in Pruners : Planned(q)'
<1>1. Stamped' /\ Tagged'
  BY DEF RegistryInv, FilesKept, Stamped, Tagged, Stored
<1>2. ASSUME NEW r \in Pushers, r # p PROVE Pushed(r)'
  BY <1>2 DEF RegistryInv, FilesKept, Pushed, Stored
<1>3. \A q \in Pruners : Planned(q)'
  BY DEF RegistryInv, FilesKept, Planned
<1> QED
  BY <1>1, <1>2, <1>3

\* While a push reads, no prune has a plan.
LEMMA NonePlans ==
  ASSUME RegistryInv, NEW p \in Pushers, Reading(p), UNCHANGED prune
  PROVE  \A q \in Pruners : Planned(q)' /\ ~ Writing(q)
<1> SUFFICES ASSUME NEW q \in Pruners PROVE Planned(q)' /\ ~ Writing(q)
  OBVIOUS
<1>1. ~ Writing(q)
  BY Excludes DEF RegistryInv
<1> QED
  BY <1>1 DEF Planned, Writing

\* While a prune writes, nobody else plans, and no push is about to list.
LEMMA OthersWait ==
  ASSUME RegistryInv, NEW q \in Pruners, Writing(q),
         \A p \in Pushers : push'[p] = push[p],
         \A r \in Pruners : r # q => prune'[r] = prune[r]
  PROVE  (\A p \in Pushers : Pushed(p)') /\ \A r \in Pruners : r # q => Planned(r)'
<1>1. (\A p \in Pushers : ~ Reading(p)) /\ \A r \in Pruners : r # q => ~ Writing(r)
  BY Excludes DEF RegistryInv
<1> QED
  BY <1>1 DEF Pushed, Planned, Reading, Writing

\* What LoadTags plans to drop has KeepLast newer tags among what it keeps.
LEMMA PlanIsRight ==
  ASSUME RegistryInv, \A t \in Listed : Stored(t), NEW t \in Listed, ~ Kept(t)
  PROVE  /\ t # Latest
         /\ KeepLast <= Cardinality({o \in {u \in Listed : Kept(u)} \ {Latest} :
                                        manifests[o].stamp > manifests[t].stamp})
<1> DEFINE S == Listed \ {Latest}
           stamp == [u \in Tags |-> manifests[u].stamp]
           T == {x \in S : Cardinality(Above(S, stamp, x)) < KeepLast}
           R == {o \in {u \in Listed : Kept(u)} \ {Latest} :
                    manifests[o].stamp > manifests[t].stamp}
<1>1. Listed \subseteq Tags /\ KeepLast \in Nat /\ \A u \in Tags : manifests[u].stamp \in Nat
  BY RegistryAssumption DEF RegistryInv, Safe, TypeOK, Listed
<1>2. t # Latest /\ t \in S
  BY DEF Kept
<1>3. S \in SUBSET Tags /\ IsFiniteSet(S) /\ Cardinality(S) \in Nat
  BY <1>1, RegistryAssumption, FS_Subset, FS_CardinalityType
<1>4. /\ \A x \in S : stamp[x] \in Nat /\ stamp[x] = manifests[x].stamp
      /\ \A x, y \in S : stamp[x] = stamp[y] => x = y
  BY <1>1, <1>3 DEF RegistryInv, Stamped
<1> HIDE DEF S, stamp
<1>5. \A x \in S : Newer(x) = Above(S, stamp, x)
  BY <1>1, <1>4 DEF Newer, Above, S
<1>6. KeepLast <= Cardinality(Above(S, stamp, t))
  <2>1. ~ Cardinality(Above(S, stamp, t)) < KeepLast
    BY <1>2, <1>5 DEF Kept
  <2>2. Cardinality(Above(S, stamp, t)) \in Nat
    BY <1>3, AboveFinite
  <2> QED
    BY <1>1, <2>1, <2>2
<1>7. KeepLast <= Cardinality(S)
  <2>1. Cardinality(Above(S, stamp, t)) <= Cardinality(S)
    BY <1>2, <1>3, FewerAbove
  <2>2. Cardinality(Above(S, stamp, t)) \in Nat
    BY <1>3, AboveFinite
  <2> QED
    BY <1>1, <1>3, <1>6, <2>1, <2>2
<1>8. KeepLast <= Cardinality(T)
  BY <1>1, <1>3, <1>4, <1>7, NewestCount
<1>9. T \subseteq R
  <2> SUFFICES ASSUME NEW x \in S, Cardinality(Above(S, stamp, x)) < KeepLast PROVE x \in R
    OBVIOUS
  <2>1. x \in Listed /\ x # Latest /\ Kept(x)
    BY <1>5 DEF S, Kept
  <2>2. Cardinality(Above(S, stamp, x)) \in Nat /\ Cardinality(Above(S, stamp, t)) \in Nat
    BY <1>3, AboveFinite
  <2>3. ~ stamp[t] > stamp[x]
    <3>1. stamp[t] > stamp[x]
             => Cardinality(Above(S, stamp, t)) < Cardinality(Above(S, stamp, x))
      BY <1>2, <1>3, <1>4, OlderHasMore
    <3> QED
      BY <1>1, <1>6, <2>2, <3>1
  <2>4. stamp[x] # stamp[t]
    BY <1>2, <1>4, <2>1
  <2>5. stamp[x] > stamp[t]
    BY <1>2, <1>4, <2>3, <2>4
  <2> QED
    BY <1>2, <1>4, <2>1, <2>5
<1>10. IsFiniteSet(R) /\ Cardinality(R) \in Nat /\ Cardinality(T) \in Nat
  <2>1. R \in SUBSET S
    BY DEF S
  <2>2. T \in SUBSET S
    OBVIOUS
  <2> QED
    BY <1>3, <2>1, <2>2, FS_Subset, FS_CardinalityType
<1> HIDE DEF T, R
<1>11. Cardinality(T) <= Cardinality(R)
  BY <1>9, <1>10, FS_Subset
<1>12. KeepLast <= Cardinality(R)
  BY <1>1, <1>8, <1>10, <1>11
<1> QED
  BY <1>2, <1>12 DEF R

LEMMA UnlockKeeps ==
  ASSUME RegistryInv, NEW q \in Pruners, Unlock(q), prune[q].at \in {"load", "drop", "sweep"},
         UNCHANGED <<manifests, tagsFile, clock, accidents>>
  PROVE  /\ Stamped' /\ Tagged'
         /\ (\A p \in Pushers : Pushed(p)') /\ \A r \in Pruners : Planned(r)'
<1>1. /\ push \in [Pushers -> PushRecords] /\ prune \in [Pruners -> PruneRecords]
      /\ \A r \in Pruners : Writing(r) => r = q
  BY Excludes DEF RegistryInv, Safe, TypeOK, PushRecords, PruneRecords, Writing
<1>2. prune'[q].at = "idle" /\ \A r \in Pruners : r # q => prune'[r] = prune[r]
  BY <1>1 DEF Unlock, NoPrune
<1>3. \A p \in Pushers : push'[p] = push[p] \/ push'[p].at = "write"
  BY <1>1 DEF Unlock, PushRecords
<1>4. Stamped'
  BY DEF RegistryInv, Stamped, Stored
<1>5. Tagged'
  <2>1. \A r \in Pruners : prune[r].at \notin {"untag", "fill"}
    BY <1>1 DEF Writing
  <2> QED
    BY <2>1 DEF RegistryInv, Tagged, Stored
<1>6. \A p \in Pushers : Pushed(p)'
  BY <1>3 DEF RegistryInv, Pushed, Stored
<1>7. \A r \in Pruners : Planned(r)'
  BY <1>1, <1>2 DEF Planned, Writing
<1> QED
  BY <1>4, <1>5, <1>6, <1>7

LEMMA PlanNext ==
  ASSUME RegistryInv, [Next]_vars
  PROVE  /\ Stamped' /\ Tagged'
         /\ (\A p \in Pushers : Pushed(p)') /\ \A q \in Pruners : Planned(q)'
<1> DEFINE Goal == /\ Stamped' /\ Tagged'
                   /\ (\A p \in Pushers : Pushed(p)') /\ \A q \in Pruners : Planned(q)'
<1>t. /\ push \in [Pushers -> PushRecords] /\ prune \in [Pruners -> PruneRecords]
      /\ manifests \in [Tags -> [refs : SUBSET Blobs, stamp : Nat]]
      /\ tagsFile \in [readable : BOOLEAN, tags : SUBSET Tags]
      /\ clock \in Nat /\ accidents \in Nat
  BY RegistryAssumption DEF RegistryInv, Safe, TypeOK, PushRecords, PruneRecords
<1>i. /\ Safe /\ Stamped /\ Tagged
      /\ (\A p \in Pushers : Pushed(p)) /\ \A q \in Pruners : Planned(q)
  BY DEF RegistryInv
<1>g. Stamped' /\ Tagged' /\ (\A p \in Pushers : Pushed(p)') /\ (\A q \in Pruners : Planned(q)')
         => Goal
  OBVIOUS
<1> HIDE DEF Goal
<1>1. ASSUME NEW p \in Pushers, StartPush(p) PROVE Goal
  <2>1. FilesKept /\ UNCHANGED prune
    BY <1>1, <1>t DEF StartPush, FilesKept, NoPush
  <2>2. push'[p].at = "check" /\ \A r \in Pushers : r # p => push'[r] = push[r]
    BY <1>1, <1>t DEF StartPush, PushRecords, NoPush
  <2>3. Pushed(p)'
    BY <2>2 DEF Pushed
  <2> QED
    BY <2>1, <2>2, <2>3, PushStill DEF Goal
<1>2. ASSUME NEW p \in Pushers, CheckBlob(p) PROVE Goal
  <2>1. FilesKept /\ UNCHANGED prune
    BY <1>2, <1>t DEF CheckBlob, FilesKept
  <2>2. push'[p].at = "check" /\ \A r \in Pushers : r # p => push'[r] = push[r]
    BY <1>2, <1>t DEF CheckBlob, PushRecords
  <2>3. Pushed(p)'
    BY <2>2 DEF Pushed
  <2> QED
    BY <2>1, <2>2, <2>3, PushStill DEF Goal
<1>3. ASSUME NEW p \in Pushers, FinishUpload(p) PROVE Goal
  <2>1. FilesKept /\ UNCHANGED prune
    BY <1>3, <1>t DEF FinishUpload, FilesKept, Uploaded
  <2>2. push'[p].at = "check" /\ \A r \in Pushers : r # p => push'[r] = push[r]
    BY <1>3, <1>t DEF FinishUpload, PushRecords, Uploaded
  <2>3. Pushed(p)'
    BY <2>2 DEF Pushed
  <2> QED
    BY <2>1, <2>2, <2>3, PushStill DEF Goal
<1>4. ASSUME NEW p \in Pushers, PutBlob(p) PROVE Goal
  <2>1. FilesKept /\ UNCHANGED prune
    BY <1>4, <1>t DEF PutBlob, FilesKept, Uploaded
  <2>2. push'[p].at = "check" /\ \A r \in Pushers : r # p => push'[r] = push[r]
    BY <1>4, <1>t DEF PutBlob, PushRecords, Uploaded
  <2>3. Pushed(p)'
    BY <2>2 DEF Pushed
  <2> QED
    BY <2>1, <2>2, <2>3, PushStill DEF Goal
<1>5. ASSUME NEW p \in Pushers, PutManifest(p) PROVE Goal
  <2>1. FilesKept /\ UNCHANGED prune
    BY <1>5, <1>t DEF PutManifest, FilesKept
  <2>2. push'[p].at = "lock" /\ \A r \in Pushers : r # p => push'[r] = push[r]
    BY <1>5, <1>t DEF PutManifest, PushRecords
  <2>3. Pushed(p)'
    BY <2>2 DEF Pushed
  <2> QED
    BY <2>1, <2>2, <2>3, PushStill DEF Goal
<1>6. ASSUME NEW p \in Pushers, RLock(p) PROVE Goal
  <2>1. FilesKept /\ UNCHANGED prune
    BY <1>6, <1>t DEF RLock, FilesKept
  <2>2. push'[p].at = "write" /\ \A r \in Pushers : r # p => push'[r] = push[r]
    BY <1>6, <1>t DEF RLock, PushRecords
  <2>3. Pushed(p)'
    BY <2>2 DEF Pushed
  <2> QED
    BY <2>1, <2>2, <2>3, PushStill DEF Goal
<1>7. ASSUME NEW p \in Pushers, MarkPublished(p) PROVE Goal
  <2>1. FilesKept /\ UNCHANGED prune
    BY <1>7, <1>t DEF MarkPublished, FilesKept, NoPush
  <2>2. push'[p].at = "idle" /\ \A r \in Pushers : r # p => push'[r] = push[r]
    BY <1>7, <1>t DEF MarkPublished, PushRecords, NoPush
  <2>3. Pushed(p)'
    BY <2>2 DEF Pushed
  <2> QED
    BY <2>1, <2>2, <2>3, PushStill DEF Goal
<1>8. ASSUME NEW p \in Pushers, PushFails(p) PROVE Goal
  <2>1. FilesKept /\ UNCHANGED prune
    BY <1>8, <1>t DEF PushFails, FilesKept, NoPush
  <2>2. push'[p].at = "idle" /\ \A r \in Pushers : r # p => push'[r] = push[r]
    BY <1>8, <1>t DEF PushFails, PushRecords, NoPush
  <2>3. Pushed(p)'
    BY <2>2 DEF Pushed
  <2> QED
    BY <2>1, <2>2, <2>3, PushStill DEF Goal
<1>9. ASSUME NEW p \in Pushers, SaveFails(p) PROVE Goal
  <2>1. FilesKept /\ UNCHANGED prune
    BY <1>9, <1>t DEF SaveFails, FilesKept, Accident
  <2>2. push'[p].at = "publish" /\ \A r \in Pushers : r # p => push'[r] = push[r]
    BY <1>9, <1>t DEF SaveFails, PushRecords, Accident
  <2>3. Pushed(p)'
    BY <2>2 DEF Pushed
  <2> QED
    BY <2>1, <2>2, <2>3, PushStill DEF Goal
<1>10. ASSUME NEW p \in Pushers, WriteManifest(p) PROVE Goal
  <2>1. /\ clock' = clock + 1 /\ UNCHANGED <<tagsFile, prune, accidents>>
        /\ push'[p] = [push[p] EXCEPT !.at = "list"]
        /\ \A r \in Pushers : r # p => push'[r] = push[r]
        /\ push[p].tag \in Tags
    BY <1>10, <1>t DEF WriteManifest, PushRecords
  <2>2. \A t \in Tags : manifests'[t] = IF t = push[p].tag
                                        THEN [refs |-> push[p].refs, stamp |-> clock + 1]
                                        ELSE manifests[t]
    BY <1>10, <1>t DEF WriteManifest
  <2>3. \A t \in Tags : Stored(t)' <=> Stored(t) \/ t = push[p].tag
    BY <2>2, <1>t DEF Stored
  <2>4. Stamped'
    BY <2>1, <2>2, <1>t, <1>i DEF Stamped, Stored
  <2>5. Tagged'
    BY <2>1, <2>3, <1>t, <1>i DEF Tagged
  <2>6. \A r \in Pushers : push[r].tag \in Tags /\ push[r].list \subseteq Tags
    BY <1>t DEF PushRecords
  <2>7. \A r \in Pushers : Pushed(r)'
    <3>1. Pushed(p)'
      <4>1. push'[p].at = "list" /\ push'[p].tag = push[p].tag
        BY <2>1, <1>t DEF PushRecords
      <4> QED
        BY <2>1, <2>3, <4>1 DEF Pushed
    <3>2. ASSUME NEW r \in Pushers, r # p PROVE Pushed(r)'
      BY <2>1, <2>3, <2>6, <3>2, <1>i DEF Pushed
    <3> QED
      BY <3>1, <3>2
  <2>8. \A q \in Pruners : Planned(q)'
    BY <1>10, <2>1, NonePlans DEF WriteManifest, Reading
  <2> QED
    BY <2>4, <2>5, <2>7, <2>8, <1>g
<1>11. ASSUME NEW p \in Pushers, ReadTags(p) PROVE Goal
  <2>1. FilesKept /\ UNCHANGED <<prune, manifests, tagsFile, accidents>>
    BY <1>11 DEF ReadTags, FilesKept
  <2>2. /\ push'[p].at \in {"save", "publish"} /\ push'[p].list = Listed
        /\ push'[p].tag = push[p].tag
        /\ \A r \in Pushers : r # p => push'[r] = push[r]
    BY <1>11, <1>t DEF ReadTags, PushRecords
  <2>3. Stored(push[p].tag)
    BY <1>11, <1>i DEF ReadTags, Pushed
  <2>4. accidents = 0 => \A t \in Listed : Stored(t)
    <3>1. \A q \in Pruners : prune[q].at \notin {"untag", "fill"}
      BY <1>11, <2>1, NonePlans DEF ReadTags, Reading, Writing
    <3> QED
      BY <3>1, <1>i DEF Tagged, Listed
  <2>5. Pushed(p)'
    BY <2>1, <2>2, <2>3, <2>4 DEF Pushed, Stored
  <2> QED
    BY <2>1, <2>2, <2>5, PushStill DEF Goal
<1>12. ASSUME NEW p \in Pushers, TruncateTags(p) PROVE Goal
  <2>1. /\ UNCHANGED <<manifests, clock, prune, accidents>>
        /\ tagsFile'.tags = tagsFile.tags
        /\ push'[p].at = "fill" /\ push'[p].tag = push[p].tag /\ push'[p].list = push[p].list
        /\ \A r \in Pushers : r # p => push'[r] = push[r]
    BY <1>12, <1>t DEF TruncateTags, PushRecords
  <2>2. Stamped'
    BY <2>1, <1>i DEF Stamped, Stored
  <2>3. Tagged'
    BY <1>12, <2>1, <1>i DEF TruncateTags, Tagged, Stored
  <2>4. Pushed(p)'
    BY <1>12, <2>1, <1>i DEF TruncateTags, Pushed, Stored
  <2>5. \A r \in Pushers : r # p => Pushed(r)'
    BY <2>1, <1>i DEF Pushed, Stored
  <2>6. \A q \in Pruners : Planned(q)'
    BY <1>12, <2>1, NonePlans DEF TruncateTags, Reading
  <2> QED
    BY <2>2, <2>3, <2>4, <2>5, <2>6, <1>g
<1>13. ASSUME NEW p \in Pushers, SaveTags(p) PROVE Goal
  <2>1. /\ UNCHANGED <<manifests, clock, prune, accidents>>
        /\ tagsFile'.tags = push[p].list \cup {push[p].tag}
        /\ push'[p].at = "publish" /\ push'[p].tag = push[p].tag /\ push'[p].list = push[p].list
        /\ \A r \in Pushers : r # p => push'[r] = push[r]
    BY <1>13, <1>t DEF SaveTags, PushRecords
  <2>2. Stamped'
    BY <2>1, <1>i DEF Stamped, Stored
  <2>3. Tagged'
    BY <1>13, <2>1, <1>i DEF SaveTags, Tagged, Stored, Pushed
  <2>4. Pushed(p)'
    BY <1>13, <2>1, <1>i DEF SaveTags, Pushed, Stored
  <2>5. \A r \in Pushers : r # p => Pushed(r)'
    BY <2>1, <1>i DEF Pushed, Stored
  <2>6. \A q \in Pruners : Planned(q)'
    BY <1>13, <2>1, NonePlans DEF SaveTags, Reading
  <2> QED
    BY <2>2, <2>3, <2>4, <2>5, <2>6, <1>g
<1>14. ASSUME NEW q \in Pruners, CallPrune(q) PROVE Goal
  <2>1. /\ UNCHANGED <<manifests, tagsFile, clock, push, accidents>>
        /\ prune'[q].at = "lock" /\ prune[q].at \in {"idle", "lock"}
        /\ \A r \in Pruners : r # q => prune'[r] = prune[r]
    BY <1>14, <1>t DEF CallPrune, PruneRecords
  <2>2. Stamped' /\ \A p \in Pushers : Pushed(p)'
    BY <2>1, <1>i DEF Stamped, Stored, Pushed
  <2>3. Tagged'
    BY <2>1, <1>i DEF Tagged, Stored
  <2>4. Planned(q)'
    BY <2>1 DEF Planned
  <2>5. \A r \in Pruners : r # q => Planned(r)'
    BY <2>1, <1>i DEF Planned
  <2> QED
    BY <2>2, <2>3, <2>4, <2>5, <1>g
<1>15. ASSUME NEW q \in Pruners, Lock(q) PROVE Goal
  <2>1. /\ UNCHANGED <<manifests, tagsFile, clock, push, accidents>>
        /\ prune'[q].at = "load" /\ prune[q].at \in {"idle", "lock"}
        /\ \A r \in Pruners : r # q => prune'[r] = prune[r]
    BY <1>15, <1>t DEF Lock, PruneRecords
  <2>2. Stamped' /\ \A p \in Pushers : Pushed(p)'
    BY <2>1, <1>i DEF Stamped, Stored, Pushed
  <2>3. Tagged'
    BY <2>1, <1>i DEF Tagged, Stored
  <2>4. Planned(q)'
    BY <2>1 DEF Planned
  <2>5. \A r \in Pruners : r # q => Planned(r)'
    BY <2>1, <1>i DEF Planned
  <2> QED
    BY <2>2, <2>3, <2>4, <2>5, <1>g
<1>16. ASSUME NEW q \in Pruners, LoadTags(q) PROVE Goal
  <2>1. Writing(q) /\ UNCHANGED push /\ \A r \in Pruners : r # q => prune'[r] = prune[r]
    BY <1>16, <1>t DEF LoadTags, Writing
  <2>2. (\A p \in Pushers : Pushed(p)') /\ \A r \in Pruners : r # q => Planned(r)'
    BY <2>1, OthersWait
  <2>3. /\ UNCHANGED <<manifests, tagsFile, clock, accidents>>
        /\ prune'[q].at = "drop" /\ prune[q].at = "load" /\ Listed = tagsFile.tags
        /\ prune'[q].drop = {t \in Listed : ~ Kept(t)}
        /\ prune'[q].kept = {t \in Listed : Kept(t)}
        /\ \A t \in Listed : Stored(t)
    BY <1>16, <1>t DEF LoadTags, PruneRecords, Listed
  <2>a. Stamped'
    BY <2>3, <1>i DEF Stamped, Stored
  <2>b. Tagged'
    BY <2>3 DEF Tagged, Stored
  <2>4. ASSUME NEW t \in Listed, ~ Kept(t)
        PROVE /\ t # Latest
              /\ KeepLast <= Cardinality({o \in prune'[q].kept \ {Latest} :
                                              manifests[o].stamp > manifests[t].stamp})
    BY <2>3, <2>4, PlanIsRight
  <2>c. Planned(q)'
    BY <2>3, <2>4 DEF Planned
  <2> QED
    BY <2>2, <2>a, <2>b, <2>c, <1>g
<1>17. ASSUME NEW q \in Pruners, DropManifest(q) PROVE Goal
  <2>1. Writing(q) /\ UNCHANGED push /\ \A r \in Pruners : r # q => prune'[r] = prune[r]
    BY <1>17, <1>t DEF DropManifest, Writing
  <2>2. (\A p \in Pushers : Pushed(p)') /\ \A r \in Pruners : r # q => Planned(r)'
    BY <2>1, OthersWait
  <2>3. PICK t \in prune[q].drop :
          /\ manifests' = [manifests EXCEPT ![t] = NoManifest]
          /\ prune' = [prune EXCEPT ![q] = [prune[q] EXCEPT !.at = "untag", !.tag = t,
                                                          !.drop = prune[q].drop \ {t}]]
    BY <1>17 DEF DropManifest
  <2>4. /\ prune'[q].at = "untag" /\ prune'[q].tag = t /\ prune[q].at = "drop"
        /\ prune'[q].drop = prune[q].drop \ {t} /\ prune'[q].kept = prune[q].kept
        /\ prune[q].drop \subseteq Tags /\ prune[q].kept \subseteq Tags /\ t \in Tags
        /\ UNCHANGED <<tagsFile, clock, accidents>>
    BY <1>17, <2>3, <1>t DEF DropManifest, PruneRecords
  <2>5. manifests'[t] = NoManifest /\ \A u \in Tags : u # t => manifests'[u] = manifests[u]
    BY <2>3, <2>4, <1>t
  <2>a. Stamped'
    BY <2>4, <2>5, <1>t, <1>i DEF Stamped, Stored, NoManifest
  <2>b. Tagged'
    <3>1. \A r \in Pruners : prune[r].at \notin {"untag", "fill"}
      <4>1. \A r \in Pruners : Writing(r) => r = q
        BY <2>1, <1>i, Excludes
      <4> QED
        BY <2>4, <4>1 DEF Writing
    <3>2. ASSUME accidents' = 0, NEW u \in tagsFile.tags, u # t PROVE Stored(u)'
      BY <2>4, <2>5, <3>1, <3>2, <1>t, <1>i DEF Tagged, Stored
    <3> QED
      BY <2>4, <3>2 DEF Tagged
  <2>6. Planned(q)
    BY <1>i
  <2>7. ASSUME NEW u \in prune'[q].drop
        PROVE /\ u # Latest
              /\ KeepLast <= Cardinality({o \in prune'[q].kept \ {Latest} :
                                              manifests'[o].stamp > manifests'[u].stamp})
    <3>1. u \in prune[q].drop /\ u # t /\ t \notin prune[q].kept
      BY <2>4, <2>6, <2>7 DEF Planned
    <3>2. {o \in prune'[q].kept \ {Latest} : manifests'[o].stamp > manifests'[u].stamp}
             = {o \in prune[q].kept \ {Latest} : manifests[o].stamp > manifests[u].stamp}
      BY <2>4, <2>5, <3>1
    <3> QED
      BY <2>4, <2>6, <3>1, <3>2 DEF Planned
  <2>8. ASSUME NEW u \in tagsFile'.tags
        PROVE u \in prune'[q].kept \/ u \in prune'[q].drop \/ manifests'[u] = NoManifest
    BY <2>4, <2>5, <2>6, <1>t, <2>8 DEF Planned
  <2>9. prune'[q].kept \cap prune'[q].drop = {}
    BY <2>4, <2>6 DEF Planned
  <2>c. Planned(q)'
    BY <2>4, <2>7, <2>8, <2>9 DEF Planned
  <2> QED
    BY <2>2, <2>a, <2>b, <2>c, <1>g
<1>18. ASSUME NEW q \in Pruners, TruncateUntag(q) PROVE Goal
  <2>1. Writing(q) /\ UNCHANGED push /\ \A r \in Pruners : r # q => prune'[r] = prune[r]
    BY <1>18, <1>t DEF TruncateUntag, Writing
  <2>2. (\A p \in Pushers : Pushed(p)') /\ \A r \in Pruners : r # q => Planned(r)'
    BY <2>1, OthersWait
  <2>3. /\ UNCHANGED <<manifests, clock, accidents>> /\ tagsFile'.tags = tagsFile.tags
        /\ prune[q].at \in {"untag"} /\ prune'[q].at = "fill" /\ prune'[q].tag = prune[q].tag
        /\ prune'[q].drop = prune[q].drop /\ prune'[q].kept = prune[q].kept
    BY <1>18, <1>t DEF TruncateUntag, PruneRecords
  <2>a. Stamped'
    BY <2>3, <1>i DEF Stamped, Stored
  <2>b. Tagged'
    BY <2>3, <2>1, <1>i DEF Tagged, Stored
  <2>5. ~ tagsFile'.readable
    BY <1>18, <1>t DEF TruncateUntag
  <2>c. Planned(q)'
    BY <2>3, <2>5, <1>i DEF Planned
  <2> QED
    BY <2>2, <2>a, <2>b, <2>c, <1>g
<1>19. ASSUME NEW q \in Pruners, Untag(q) PROVE Goal
  <2>1. Writing(q) /\ UNCHANGED push /\ \A r \in Pruners : r # q => prune'[r] = prune[r]
    BY <1>19, <1>t DEF Untag, Writing
  <2>2. (\A p \in Pushers : Pushed(p)') /\ \A r \in Pruners : r # q => Planned(r)'
    BY <2>1, OthersWait
  <2>3. /\ UNCHANGED <<manifests, clock, accidents>> /\ tagsFile'.tags = tagsFile.tags \ {prune[q].tag}
        /\ prune[q].at \in {"fill"} /\ prune'[q].at = "drop" /\ prune'[q].tag = prune[q].tag
        /\ prune'[q].drop = prune[q].drop /\ prune'[q].kept = prune[q].kept
    BY <1>19, <1>t DEF Untag, PruneRecords
  <2>a. Stamped'
    BY <2>3, <1>i DEF Stamped, Stored
  <2>4. \A r \in Pruners : Writing(r) => r = q
    BY <2>1, <1>i, Excludes
  <2>b. Tagged'
    BY <2>3, <2>4, <1>i DEF Tagged, Stored, Writing
  <2>c. Planned(q)'
    BY <2>3, <1>i DEF Planned
  <2> QED
    BY <2>2, <2>a, <2>b, <2>c, <1>g
<1>20. ASSUME NEW q \in Pruners, UntagFails(q) PROVE Goal
  <2>1. Writing(q) /\ UNCHANGED push /\ \A r \in Pruners : r # q => prune'[r] = prune[r]
    BY <1>20, <1>t DEF UntagFails, Writing
  <2>2. (\A p \in Pushers : Pushed(p)') /\ \A r \in Pruners : r # q => Planned(r)'
    BY <2>1, OthersWait
  <2>3. /\ UNCHANGED <<manifests, clock>> /\ tagsFile'.tags = tagsFile.tags
        /\ prune[q].at \in {"untag", "fill"} /\ prune'[q].at = "drop" /\ prune'[q].tag = prune[q].tag
        /\ prune'[q].drop = prune[q].drop /\ prune'[q].kept = prune[q].kept
    BY <1>20, <1>t DEF UntagFails, PruneRecords
  <2>a. Stamped'
    BY <2>3, <1>i DEF Stamped, Stored
  <2>b. Tagged'
    BY <1>20, <1>t DEF UntagFails, Accident, Tagged
  <2>c. Planned(q)'
    BY <2>3, <1>i DEF Planned
  <2> QED
    BY <2>2, <2>a, <2>b, <2>c, <1>g
<1>21. ASSUME NEW q \in Pruners, Collect(q) PROVE Goal
  <2>1. Writing(q) /\ UNCHANGED push /\ \A r \in Pruners : r # q => prune'[r] = prune[r]
    BY <1>21, <1>t DEF Collect, Writing
  <2>2. (\A p \in Pushers : Pushed(p)') /\ \A r \in Pruners : r # q => Planned(r)'
    BY <2>1, OthersWait
  <2>3. /\ UNCHANGED <<manifests, tagsFile, clock, accidents>> /\ prune'[q].at = "sweep"
        /\ prune[q].at \in {"drop", "sweep"}
        /\ prune'[q].drop = prune[q].drop /\ prune'[q].kept = prune[q].kept
    BY <1>21, <1>t DEF Collect, PruneRecords
  <2>a. Stamped'
    BY <2>3, <1>i DEF Stamped, Stored
  <2>4. prune[q].at \notin {"untag", "fill"}
    BY <2>3
  <2>b. Tagged'
    BY <2>1, <2>3, <1>i DEF Tagged, Stored
  <2>5. /\ prune'[q].garbage
               = (blobs \ pending) \ UNION {manifests[t].refs : t \in prune[q].kept}
        /\ prune[q].drop = {}
    BY <1>21, <1>t DEF Collect, PruneRecords
  <2>6. \A t \in prune[q].kept : manifests[t].refs \cap prune'[q].garbage = {}
    BY <2>5
  <2>c. Planned(q)'
    BY <2>3, <2>5, <2>6, <1>i DEF Planned
  <2> QED
    BY <2>2, <2>a, <2>b, <2>c, <1>g
<1>22. ASSUME NEW q \in Pruners, DeleteBlob(q) PROVE Goal
  <2>1. Writing(q) /\ UNCHANGED push /\ \A r \in Pruners : r # q => prune'[r] = prune[r]
    BY <1>22, <1>t DEF DeleteBlob, Writing
  <2>2. (\A p \in Pushers : Pushed(p)') /\ \A r \in Pruners : r # q => Planned(r)'
    BY <2>1, OthersWait
  <2>3. /\ UNCHANGED <<manifests, tagsFile, clock, accidents>> /\ prune'[q].at = "sweep"
        /\ prune[q].at \in {"drop", "sweep"}
        /\ prune'[q].drop = prune[q].drop /\ prune'[q].kept = prune[q].kept
    BY <1>22, <1>t DEF DeleteBlob, PruneRecords
  <2>a. Stamped'
    BY <2>3, <1>i DEF Stamped, Stored
  <2>4. prune[q].at \notin {"untag", "fill"}
    BY <2>3
  <2>b. Tagged'
    BY <2>1, <2>3, <1>i DEF Tagged, Stored
  <2>5. prune'[q].garbage \subseteq prune[q].garbage /\ prune[q].at = "sweep"
    BY <1>22, <1>t DEF DeleteBlob, PruneRecords
  <2>c. Planned(q)'
    BY <2>3, <2>5, <1>i DEF Planned
  <2> QED
    BY <2>2, <2>a, <2>b, <2>c, <1>g
<1>23. ASSUME NEW q \in Pruners, PruneFails(q) PROVE Goal
  <2>1. /\ Unlock(q) /\ UNCHANGED <<manifests, tagsFile, clock, accidents>>
        /\ prune[q].at \in {"load", "drop", "sweep"}
    BY <1>23 DEF PruneFails
  <2> QED
    BY <2>1, UnlockKeeps DEF Goal
<1>24. ASSUME NEW q \in Pruners, PruneDone(q) PROVE Goal
  <2>1. /\ Unlock(q) /\ UNCHANGED <<manifests, tagsFile, clock, accidents>>
        /\ prune[q].at \in {"load", "drop", "sweep"}
    BY <1>24 DEF PruneDone
  <2> QED
    BY <2>1, UnlockKeeps DEF Goal
<1>25. ASSUME NEW b \in Blobs, Expire(b) PROVE Goal
  <2>1. UNCHANGED <<manifests, tagsFile, clock, push, prune, accidents>>
    BY <1>25 DEF Expire
  <2> QED
    BY <2>1, <1>i DEF Goal, Stamped, Tagged, Stored, Pushed, Planned
<1>26. ASSUME ProcessDies PROVE Goal
  <2>1. accidents' # 0 /\ UNCHANGED <<manifests, clock>>
    BY <1>26, <1>t DEF ProcessDies, Accident
  <2>2. /\ \A p \in Pushers : push'[p].at = "idle"
        /\ \A q \in Pruners : prune'[q].at = "idle"
    BY <1>26 DEF ProcessDies, NoPush, NoPrune
  <2> QED
    BY <2>1, <2>2, <1>i DEF Goal, Stamped, Tagged, Stored, Pushed, Planned
<1>27. CASE UNCHANGED vars
  BY <1>27, <1>i DEF vars, Goal, Stamped, Tagged, Stored, Pushed, Planned
<1>28. ASSUME NEW p \in Pushers, PushStep(p) PROVE Goal
  BY <1>2, <1>3, <1>4, <1>5, <1>10, <1>11, <1>12, <1>13, <1>8, <1>9, <1>7, <1>28 DEF
     PushStep
<1>29. ASSUME NEW q \in Pruners, PruneStep(q) PROVE Goal
  BY <1>16, <1>23, <1>17, <1>18, <1>19, <1>20, <1>21, <1>22, <1>24, <1>29 DEF PruneStep
<1>30. ASSUME Next PROVE Goal
  <2>1. CASE \E p \in Pushers : StartPush(p) \/ RLock(p) \/ PushStep(p)
    BY <2>1, <1>1, <1>6, <1>28
  <2>2. CASE \E q \in Pruners : CallPrune(q) \/ Lock(q) \/ PruneStep(q)
    BY <2>2, <1>14, <1>15, <1>29
  <2>3. CASE \E b \in Blobs : Expire(b)
    BY <2>3, <1>25
  <2> QED
    BY <2>1, <2>2, <2>3, <1>26, <1>30 DEF Next
<1> QED
  BY <1>27, <1>30 DEF Goal

LEMMA PlanInvariant == Spec => []RegistryInv
<1>1. RegistryInv /\ [Next]_vars => RegistryInv'
  BY SafeNext, PlanNext DEF RegistryInv
<1> QED
  BY <1>1, PlanInit, PTL DEF Spec

\* As long as no write of the list fails and the process lives, no tag is listed without
\* its manifest but by the prune that is dropping it: for any pushes and prunes at once
\* (PutManifest and PruneRegistry under MutationMu).
THEOREM TagsHaveManifests == Spec => []NoDanglingTag
<1>1. RegistryInv => NoDanglingTag
  <2> SUFFICES ASSUME RegistryInv, accidents = 0, NEW t \in Listed, ~ Stored(t)
               PROVE  \E q \in Pruners : prune[q].at = "untag" /\ prune[q].tag = t
    BY DEF NoDanglingTag
  <2>1. tagsFile.readable /\ t \in tagsFile.tags
    BY DEF Listed
  <2>2. PICK q \in Pruners : prune[q].at \in {"untag", "fill"} /\ prune[q].tag = t
    BY <2>1 DEF RegistryInv, Tagged
  <2>3. prune[q].at # "fill"
    BY <2>1 DEF RegistryInv, Planned
  <2> QED
    BY <2>2, <2>3
<1> QED
  BY <1>1, PlanInvariant, PTL

\* What a prune deletes no listed tag needs, and what it drops is neither "latest" nor
\* among the KeepLast newest: whatever is pushed meanwhile, and whatever failed or died
\* before (cleanup of usecase/images/service.go).
THEOREM PruneSpares == Spec => PruneSparesImages
<1> DEFINE Spares ==
             \A q \in Pruners, t \in Tags :
                /\ DeleteBlob(q) /\ t \in Listed
                      => manifests[t].refs \cap blobs \subseteq blobs'
                /\ DropManifest(q) /\ Stored(t) /\ ~ Stored(t)' => ~ Newest(t)
<1>1. ASSUME RegistryInv, NEW q \in Pruners, NEW t \in Tags,
             DeleteBlob(q), t \in Listed
      PROVE  manifests[t].refs \cap blobs \subseteq blobs'
  <2>1. PICK b \in prune[q].garbage : blobs' = blobs \ {b}
    BY <1>1 DEF DeleteBlob
  <2>2. prune[q].at = "sweep" /\ t \in tagsFile.tags /\ Planned(q)
    BY <1>1 DEF DeleteBlob, Listed, RegistryInv
  <2>3. t \in prune[q].kept \/ manifests[t] = NoManifest
    BY <2>2 DEF Planned
  <2>4. b \notin manifests[t].refs
    BY <2>2, <2>3 DEF Planned, NoManifest
  <2> QED
    BY <2>1, <2>4
<1>2. ASSUME RegistryInv, NEW q \in Pruners, NEW t \in Tags,
             DropManifest(q), Stored(t), ~ Stored(t)'
      PROVE  ~ Newest(t)
  <2> DEFINE KeptAbove == {o \in prune[q].kept \ {Latest} :
                              manifests[o].stamp > manifests[t].stamp}
             AllAbove == {o \in Tags \ {Latest} : manifests[o].stamp > manifests[t].stamp}
  <2>1. PICK u \in prune[q].drop : manifests' = [manifests EXCEPT ![u] = NoManifest]
    BY <1>2 DEF DropManifest
  <2>2. manifests \in [Tags -> [refs : SUBSET Blobs, stamp : Nat]] /\ KeepLast \in Nat
        /\ prune[q].kept \subseteq Tags
    BY <1>2, RegistryAssumption DEF RegistryInv, Safe, TypeOK
  <2>3. t = u
    BY <1>2, <2>1, <2>2 DEF Stored
  <2>a. prune[q].at = "drop" /\ Planned(q) /\ t \in prune[q].drop
    BY <1>2, <2>1, <2>3 DEF DropManifest, RegistryInv
  <2>4. t # Latest /\ KeepLast <= Cardinality(KeptAbove)
    BY <2>a DEF Planned
  <2>5. KeptAbove \subseteq AllAbove /\ AllAbove \subseteq Tags
    BY <2>2
  <2> HIDE DEF KeptAbove, AllAbove
  <2>6. IsFiniteSet(AllAbove) /\ Cardinality(AllAbove) \in Nat
    BY <2>5, RegistryAssumption, FS_Subset, FS_CardinalityType
  <2>7. Cardinality(KeptAbove) <= Cardinality(AllAbove) /\ Cardinality(KeptAbove) \in Nat
    BY <2>5, <2>6, FS_Subset, FS_CardinalityType
  <2>8. ~ Cardinality(AllAbove) < KeepLast
    BY <2>2, <2>4, <2>6, <2>7
  <2> QED
    BY <2>4, <2>8 DEF Newest, AllAbove
<1>3. RegistryInv => Spares
  BY <1>1, <1>2
<1> HIDE DEF Spares
<1>4. Spec => [][Spares]_vars
  BY <1>3, PlanInvariant, PTL DEF Spec
<1> QED
  BY <1>4 DEF PruneSparesImages, Spares

-----------------------------------------------------------------------------
(* The suppression and its timers                                          *)

\* A client registers an intent once, so that its timer is its own until the intent is
\* in the map: until then no other client has seen it and none can stop it.
Timed ==
    /\ EntryHasTimer
    /\ suppressed # None => client[suppressed].at \notin {"intent", "replace"}
    /\ \A c \in Clients : client[c].at = "replace" =>
          /\ expiry[c] = "armed"
          /\ client[c].old \in Clients
          /\ client[client[c].old].at \notin {"intent", "replace"}

-----------------------------------------------------------------------------
(* The deploys                                                             *)

\* A client that asks again asks for an attempt of its own; before it asks there is none.
Attempted ==
    \A c \in Clients, k \in 1..MaxAttempts :
        /\ client[c].at \in {"intent", "replace", "push", "announce", "pushed"} =>
              client[c].attempt = 0 /\ job[<<c, k>>].at = "idle"
        /\ client[c].at \in {"wait", "retry"} /\ k > client[c].attempt =>
              job[<<c, k>>].at = "idle"

Waiting ==
    \A c \in Clients :
        /\ client[c].stamp <= latest
        /\ client[c].at = "wait" => client[c].attempt \in 1..MaxAttempts
        /\ client[c].at = "retry" => client[c].attempt < MaxAttempts

\* The lock of the route makes the deploys follow each other, so that what runs never
\* gets older; and a deploy that was asked for takes the image of its client or a later.
Ordered ==
    /\ \A i, j \in Callers : job[i].at = "deploys" /\ job[j].at = "deploys" => i = j
    /\ \A j \in Callers : job[j].at = "deploys" =>
          /\ j \in deployLock
          /\ running <= job[j].image /\ job[j].image <= latest
    /\ \A c \in Clients, k \in 1..MaxAttempts :
          /\ job[<<c, k>>].at = "deploys" => client[c].stamp <= job[<<c, k>>].image
          /\ job[<<c, k>>].at \in {"clears", "deployed"} => client[c].stamp <= running

PushInv == PushTypeOK /\ Timed /\ Attempted /\ Waiting /\ Ordered
-----------------------------------------------------------------------------
(* That they are kept                                                      *)

\* A job is a client's attempt or the event loop's, and which attempt says whose.
LEMMA Jobs ==
  /\ Server \in Callers
  /\ \A c \in Clients, k \in 1..MaxAttempts : <<c, k>> \in Callers /\ <<c, k>> # Server
  /\ \A j \in Callers : j = Server \/ \E c \in Clients, k \in 1..MaxAttempts : j = <<c, k>>
BY PushAssumption DEF Callers, Attempts

ClientRecords == [at : {"intent", "replace", "push", "announce", "pushed", "wait", "retry",
                        "done", "deployed"},
                  stamp : Nat, attempt : 0..MaxAttempts, old : Clients \cup {None}]
JobRecords == [at : {"idle", "waits", "deploys", "clears", "deployed", "failed"}, image : Nat]

\* Types.
LEMMA TypeNext ==
  ASSUME PushInv, [PushNext]_pushVars
  PROVE  PushTypeOK'
<1>t. PushTypeOK
  BY DEF PushInv
<1>1. ASSUME NEW c \in Clients, IntentFails(c) PROVE PushTypeOK'
  BY <1>1, <1>t DEF IntentFails, Goes, PushTypeOK
<1>2. ASSUME NEW c \in Clients, Suppress(c) PROVE PushTypeOK'
  BY <1>2, <1>t DEF Suppress, PushTypeOK
<1>3. ASSUME NEW c \in Clients, SuppressReplaces(c) PROVE PushTypeOK'
  <2>1. client[c].old \in Clients
    BY <1>3 DEF SuppressReplaces, PushInv, Timed
  <2>2. client' = [client EXCEPT ![c] = [client[c] EXCEPT !.at = "push", !.old = None]]
    BY <1>3, <1>t DEF SuppressReplaces, PushTypeOK
  <2>3. client' \in [Clients -> ClientRecords]
    <3>1. client[c] \in ClientRecords
      BY <1>t DEF PushTypeOK, ClientRecords
    <3>2. [client[c] EXCEPT !.at = "push", !.old = None] \in ClientRecords
      BY <3>1 DEF ClientRecords
    <3> QED
      BY <2>2, <3>2, <1>t DEF PushTypeOK, ClientRecords
  <2>4. expiry' \in [Clients -> {"unmade", "armed", "fired", "deletes", "over"}]
    BY <1>3, <2>1, <1>t DEF SuppressReplaces, StopTimer, PushTypeOK
  <2> QED
    BY <1>3, <2>3, <2>4, <1>t DEF SuppressReplaces, PushTypeOK, ClientRecords
<1>4. ASSUME NEW c \in Clients, AskForDeploy(c) PROVE PushTypeOK'
  BY <1>4, <1>t, Jobs, PushAssumption DEF AskForDeploy, PushTypeOK
<1>5. ASSUME NEW c \in Clients, AnswerLost(c) PROVE PushTypeOK'
  <2>1. client[c].attempt \in 1..MaxAttempts
    BY <1>5 DEF AnswerLost, PushInv, Waiting
  <2>2. Asked(c) \in Callers
    BY <2>1, Jobs DEF Asked
  <2>3. \A j \in deployLock : job'[j].at = "deploys"
    BY <1>5, <1>t, <2>2 DEF AnswerLost, Answers, PushTypeOK
  <2>4. client' \in [Clients -> ClientRecords] /\ job' \in [Callers -> JobRecords]
    BY <1>5, <1>t, <2>2, PushAssumption
    DEF AnswerLost, Goes, Ends, Answers, PushTypeOK, ClientRecords, JobRecords
  <2> QED
    BY <1>5, <1>t, <2>3, <2>4 DEF AnswerLost, PushTypeOK, ClientRecords, JobRecords
<1>6. ASSUME NEW c \in Clients, Answer(c) PROVE PushTypeOK'
  <2>1. client[c].attempt \in 1..MaxAttempts
    BY <1>6 DEF Answer, PushInv, Waiting
  <2>2. Asked(c) \in Callers
    BY <2>1, Jobs DEF Asked
  <2>3. \A j \in deployLock : job'[j].at = "deploys"
    BY <1>6, <1>t, <2>2 DEF Answer, Answers, PushTypeOK
  <2>4. client' \in [Clients -> ClientRecords] /\ job' \in [Callers -> JobRecords]
    BY <1>6, <1>t, <2>2, PushAssumption
    DEF Answer, Goes, Ends, Answers, PushTypeOK, ClientRecords, JobRecords
  <2> QED
    BY <1>6, <1>t, <2>3, <2>4 DEF Answer, PushTypeOK, ClientRecords, JobRecords
<1>7. ASSUME NEW c \in Clients, PushGivesUp(c) PROVE PushTypeOK'
  BY <1>7, <1>t, Jobs, PushAssumption DEF PushGivesUp, Ends, PushTypeOK
<1>8. ASSUME NEW c \in Clients, StoreImage(c) PROVE PushTypeOK'
  <2>1. latest' = latest + 1 /\ latest' \in Nat /\ running' \in 0..latest'
    BY <1>8, <1>t DEF StoreImage, PushTypeOK
  <2>2. client' = [client EXCEPT ![c] = [client[c] EXCEPT !.at = "announce", !.stamp = latest']]
    BY <1>8, <1>t DEF StoreImage, PushTypeOK
  <2>a. client[c] \in ClientRecords /\ client \in [Clients -> ClientRecords]
    BY <1>t DEF PushTypeOK, ClientRecords
  <2>b. [client[c] EXCEPT !.at = "announce", !.stamp = latest'] \in ClientRecords
    BY <2>1, <2>a DEF ClientRecords
  <2>3. client' \in [Clients -> ClientRecords]
    BY <2>2, <2>a, <2>b
  <2> QED
    BY <1>8, <2>1, <2>3, <1>t DEF StoreImage, PushTypeOK, ClientRecords
<1>9. ASSUME NEW c \in Clients, Announce(c) PROVE PushTypeOK'
  BY <1>9, <1>t DEF Announce, Goes, PushTypeOK
<1>10. ASSUME NEW c \in Clients, Leave(c) PROVE PushTypeOK'
  BY <1>10, <1>t, Jobs, PushAssumption DEF Leave, Ends, PushTypeOK
<1>11. ASSUME NEW c \in Clients, Expires(c) PROVE PushTypeOK'
  BY <1>11, <1>t DEF Expires, PushTypeOK
<1>12. ASSUME NEW c \in Clients, ExpiryChecks(c) PROVE PushTypeOK'
  BY <1>12, <1>t DEF ExpiryChecks, PushTypeOK
<1>13. ASSUME NEW c \in Clients, ExpiryDeletes(c) PROVE PushTypeOK'
  BY <1>13, <1>t DEF ExpiryDeletes, PushTypeOK
<1>14. CASE TakeEvent
  BY <1>14, <1>t, Jobs, PushAssumption DEF TakeEvent, PushTypeOK
<1>15. ASSUME NEW j \in Callers, DeployBegins(j) PROVE PushTypeOK'
  BY <1>15, <1>t DEF DeployBegins, PushTypeOK
<1>16. ASSUME NEW j \in Callers, DeploySucceeds(j) PROVE PushTypeOK'
  <2>1. running' \in 0..latest' /\ deployLock' = {}
    BY <1>16, <1>t DEF DeploySucceeds, PushTypeOK, PushInv, Ordered
  <2> QED
    BY <1>16, <2>1, <1>t DEF DeploySucceeds, PushTypeOK
<1>17. ASSUME NEW j \in Callers, DeployFails(j) PROVE PushTypeOK'
  BY <1>17, <1>t, Jobs, PushAssumption DEF DeployFails, Outcome, PushTypeOK
<1>18. ASSUME NEW j \in Callers, Clear(j) PROVE PushTypeOK'
  BY <1>18, <1>t, Jobs, PushAssumption DEF Clear, Outcome, StopTimer, PushTypeOK
<1>19. CASE UNCHANGED pushVars
  BY <1>19, <1>t DEF pushVars, PushTypeOK
<1> QED
  BY <1>1, <1>2, <1>3, <1>4, <1>5, <1>6, <1>7, <1>8, <1>9, <1>10, <1>11, <1>12, <1>13, <1>14, <1>15, <1>16, <1>17, <1>18, <1>19
  DEF PushNext, ClientStep, ClientPushes, ExpiryStep, DeployStep

\* Who stops a timer stops that of an entry, or of an entry it has replaced.
LEMMA TimedNext ==
  ASSUME PushInv, [PushNext]_pushVars
  PROVE  Timed'
<1>t. PushTypeOK
  BY DEF PushInv
<1>1. ASSUME NEW c \in Clients, IntentFails(c) PROVE Timed'
  BY <1>1, <1>t DEF IntentFails, Goes, PushTypeOK, PushInv, Timed, EntryHasTimer
<1>2. ASSUME NEW c \in Clients, Suppress(c) PROVE Timed'
  BY <1>2, <1>t DEF Suppress, PushTypeOK, PushInv, Timed, EntryHasTimer
<1>3. ASSUME NEW c \in Clients, SuppressReplaces(c) PROVE Timed'
  BY <1>3, <1>t DEF SuppressReplaces, StopTimer, PushTypeOK, PushInv, Timed, EntryHasTimer
<1>4. ASSUME NEW c \in Clients, AskForDeploy(c) PROVE Timed'
  BY <1>4, <1>t DEF AskForDeploy, PushTypeOK, PushInv, Timed, EntryHasTimer
<1>5. ASSUME NEW c \in Clients, AnswerLost(c) PROVE Timed'
  BY <1>5, <1>t, SMTT(30) DEF AnswerLost, Goes, Ends, Asked, PushTypeOK, PushInv, Timed, EntryHasTimer
<1>6. ASSUME NEW c \in Clients, Answer(c) PROVE Timed'
  BY <1>6, <1>t DEF Answer, Ends, Asked, Answers, PushTypeOK, PushInv, Timed, EntryHasTimer
<1>7. ASSUME NEW c \in Clients, PushGivesUp(c) PROVE Timed'
  BY <1>7, <1>t DEF PushGivesUp, Ends, PushTypeOK, PushInv, Timed, EntryHasTimer
<1>8. ASSUME NEW c \in Clients, StoreImage(c) PROVE Timed'
  BY <1>8, <1>t DEF StoreImage, PushTypeOK, PushInv, Timed, EntryHasTimer
<1>9. ASSUME NEW c \in Clients, Announce(c) PROVE Timed'
  BY <1>9, <1>t DEF Announce, Goes, PushTypeOK, PushInv, Timed, EntryHasTimer
<1>10. ASSUME NEW c \in Clients, Leave(c) PROVE Timed'
  BY <1>10, <1>t DEF Leave, Ends, PushTypeOK, PushInv, Timed, EntryHasTimer
<1>11. ASSUME NEW c \in Clients, Expires(c) PROVE Timed'
  BY <1>11, <1>t DEF Expires, PushTypeOK, PushInv, Timed, EntryHasTimer
<1>12. ASSUME NEW c \in Clients, ExpiryChecks(c) PROVE Timed'
  BY <1>12, <1>t DEF ExpiryChecks, PushTypeOK, PushInv, Timed, EntryHasTimer
<1>13. ASSUME NEW c \in Clients, ExpiryDeletes(c) PROVE Timed'
  BY <1>13, <1>t DEF ExpiryDeletes, PushTypeOK, PushInv, Timed, EntryHasTimer
<1>14. CASE TakeEvent
  BY <1>14, <1>t DEF TakeEvent, PushTypeOK, PushInv, Timed, EntryHasTimer
<1>15. ASSUME NEW j \in Callers, DeployBegins(j) PROVE Timed'
  BY <1>15, <1>t DEF DeployBegins, PushTypeOK, PushInv, Timed, EntryHasTimer
<1>16. ASSUME NEW j \in Callers, DeploySucceeds(j) PROVE Timed'
  BY <1>16, <1>t DEF DeploySucceeds, PushTypeOK, PushInv, Timed, EntryHasTimer
<1>17. ASSUME NEW j \in Callers, DeployFails(j) PROVE Timed'
  BY <1>17, <1>t DEF DeployFails, Outcome, PushTypeOK, PushInv, Timed, EntryHasTimer
<1>18. ASSUME NEW j \in Callers, Clear(j) PROVE Timed'
  BY <1>18, <1>t DEF Clear, Outcome, StopTimer, PushTypeOK, PushInv, Timed, EntryHasTimer
<1>19. CASE UNCHANGED pushVars
  BY <1>19, <1>t DEF pushVars, PushTypeOK, PushInv, Timed, EntryHasTimer
<1> QED
  BY <1>1, <1>2, <1>3, <1>4, <1>5, <1>6, <1>7, <1>8, <1>9, <1>10, <1>11, <1>12, <1>13, <1>14, <1>15, <1>16, <1>17, <1>18, <1>19
  DEF PushNext, ClientStep, ClientPushes, ExpiryStep, DeployStep

\* A new attempt is one that nobody has asked for.
LEMMA AttemptedNext ==
  ASSUME PushInv, [PushNext]_pushVars
  PROVE  (Attempted /\ Waiting)'
<1>t. PushTypeOK
  BY DEF PushInv
<1>1. ASSUME NEW c \in Clients, IntentFails(c) PROVE (Attempted /\ Waiting)'
  BY <1>1, <1>t DEF IntentFails, Goes, PushTypeOK, PushInv, Attempted, Waiting
<1>2. ASSUME NEW c \in Clients, Suppress(c) PROVE (Attempted /\ Waiting)'
  BY <1>2, <1>t DEF Suppress, PushTypeOK, PushInv, Attempted, Waiting
<1>3. ASSUME NEW c \in Clients, SuppressReplaces(c) PROVE (Attempted /\ Waiting)'
  BY <1>3, <1>t DEF SuppressReplaces, StopTimer, PushTypeOK, PushInv, Attempted, Waiting
<1>4. ASSUME NEW c \in Clients, AskForDeploy(c) PROVE (Attempted /\ Waiting)'
  BY <1>4, <1>t, Jobs, PushAssumption DEF AskForDeploy, PushTypeOK, PushInv, Attempted, Waiting
<1>5. ASSUME NEW c \in Clients, AnswerLost(c) PROVE (Attempted /\ Waiting)'
  <2>1. client[c].attempt \in 1..MaxAttempts
    BY <1>5 DEF AnswerLost, PushInv, Waiting
  <2>2. Asked(c) = <<c, client[c].attempt>> /\ Asked(c) \in Callers
    BY <2>1, Jobs DEF Asked
  <2>3. \A j \in Callers : job'[j].at \in {job[j].at, "idle"} /\ job'[j].image = job[j].image
    BY <1>5, <2>2, <1>t DEF AnswerLost, PushTypeOK
  <2>4. /\ \A d \in Clients : d # c => client'[d] = client[d]
        /\ \/ /\ client'[c].at = "retry" /\ client[c].attempt < MaxAttempts
              /\ client'[c].attempt = client[c].attempt /\ client'[c].stamp = client[c].stamp
           \/ client'[c].at = "done" /\ client'[c].stamp = 0
    BY <1>5, <1>t DEF AnswerLost, Goes, Ends, PushTypeOK
  <2>5. UNCHANGED <<latest, deployLock, running>> /\ client[c].at = "wait"
    BY <1>5 DEF AnswerLost
  <2>6. Attempted'
    <3>1. \A d \in Clients, k \in 1..MaxAttempts :
             job[<<d, k>>].at = "idle" => job'[<<d, k>>].at = "idle"
      BY <2>3, Jobs
    <3>2. \A d \in Clients : \/ client'[d] = client[d]
                               \/ client'[d].at = "done"
                               \/ /\ client[d].at = "wait" /\ client'[d].at = "retry"
                                  /\ client'[d].attempt = client[d].attempt
      BY <2>4, <2>5
    <3> SUFFICES ASSUME NEW d \in Clients, NEW k \in 1..MaxAttempts
                 PROVE  /\ client'[d].at \in {"intent", "replace", "push", "announce", "pushed"}
                              => client'[d].attempt = 0 /\ job'[<<d, k>>].at = "idle"
                        /\ client'[d].at \in {"wait", "retry"} /\ k > client'[d].attempt
                              => job'[<<d, k>>].at = "idle"
      BY DEF Attempted
    <3>3. CASE client'[d] = client[d]
      BY <3>1, <3>3 DEF PushInv, Attempted
    <3>4. CASE client'[d].at = "done"
      BY <3>4
    <3>5. CASE /\ client[d].at = "wait" /\ client'[d].at = "retry"
               /\ client'[d].attempt = client[d].attempt
      BY <3>1, <3>5 DEF PushInv, Attempted
    <3> QED
      BY <3>2, <3>3, <3>4, <3>5
  <2>7. Waiting'
    BY <2>4, <2>5, <1>t DEF PushTypeOK, PushInv, Waiting
  <2> QED
    BY <2>6, <2>7
<1>6. ASSUME NEW c \in Clients, Answer(c) PROVE (Attempted /\ Waiting)'
  BY <1>6, <1>t, Jobs, PushAssumption, SMTT(30) DEF Answer, Ends, Asked, Answers, PushTypeOK, PushInv, Attempted, Waiting
<1>7. ASSUME NEW c \in Clients, PushGivesUp(c) PROVE (Attempted /\ Waiting)'
  BY <1>7, <1>t DEF PushGivesUp, Ends, PushTypeOK, PushInv, Attempted, Waiting
<1>8. ASSUME NEW c \in Clients, StoreImage(c) PROVE (Attempted /\ Waiting)'
  BY <1>8, <1>t DEF StoreImage, PushTypeOK, PushInv, Attempted, Waiting
<1>9. ASSUME NEW c \in Clients, Announce(c) PROVE (Attempted /\ Waiting)'
  BY <1>9, <1>t DEF Announce, Goes, PushTypeOK, PushInv, Attempted, Waiting
<1>10. ASSUME NEW c \in Clients, Leave(c) PROVE (Attempted /\ Waiting)'
  BY <1>10, <1>t DEF Leave, Ends, PushTypeOK, PushInv, Attempted, Waiting
<1>11. ASSUME NEW c \in Clients, Expires(c) PROVE (Attempted /\ Waiting)'
  BY <1>11, <1>t DEF Expires, PushTypeOK, PushInv, Attempted, Waiting
<1>12. ASSUME NEW c \in Clients, ExpiryChecks(c) PROVE (Attempted /\ Waiting)'
  BY <1>12, <1>t DEF ExpiryChecks, PushTypeOK, PushInv, Attempted, Waiting
<1>13. ASSUME NEW c \in Clients, ExpiryDeletes(c) PROVE (Attempted /\ Waiting)'
  BY <1>13, <1>t DEF ExpiryDeletes, PushTypeOK, PushInv, Attempted, Waiting
<1>14. CASE TakeEvent
  BY <1>14, <1>t, Jobs, PushAssumption DEF TakeEvent, PushTypeOK, PushInv, Attempted, Waiting
<1>15. ASSUME NEW j \in Callers, DeployBegins(j) PROVE (Attempted /\ Waiting)'
  BY <1>15, <1>t, Jobs, PushAssumption DEF DeployBegins, PushTypeOK, PushInv, Attempted, Waiting
<1>16. ASSUME NEW j \in Callers, DeploySucceeds(j) PROVE (Attempted /\ Waiting)'
  BY <1>16, <1>t, Jobs, PushAssumption DEF DeploySucceeds, PushTypeOK, PushInv, Attempted, Waiting
<1>17. ASSUME NEW j \in Callers, DeployFails(j) PROVE (Attempted /\ Waiting)'
  BY <1>17, <1>t, Jobs, PushAssumption DEF DeployFails, Outcome, PushTypeOK, PushInv, Attempted, Waiting
<1>18. ASSUME NEW j \in Callers, Clear(j) PROVE (Attempted /\ Waiting)'
  BY <1>18, <1>t, Jobs, PushAssumption DEF Clear, Outcome, StopTimer, PushTypeOK, PushInv, Attempted, Waiting
<1>19. CASE UNCHANGED pushVars
  BY <1>19, <1>t DEF pushVars, PushTypeOK, PushInv, Attempted, Waiting
<1> QED
  BY <1>1, <1>2, <1>3, <1>4, <1>5, <1>6, <1>7, <1>8, <1>9, <1>10, <1>11, <1>12, <1>13, <1>14, <1>15, <1>16, <1>17, <1>18, <1>19
  DEF PushNext, ClientStep, ClientPushes, ExpiryStep, DeployStep

\* A deploy begins with the newest image, and only when no other is under way.
LEMMA OrderedNext ==
  ASSUME PushInv, [PushNext]_pushVars
  PROVE  Ordered'
<1>t. PushTypeOK
  BY DEF PushInv
<1>1. ASSUME NEW c \in Clients, IntentFails(c) PROVE Ordered'
  BY <1>1, <1>t DEF IntentFails, Goes, PushTypeOK, PushInv, Attempted, Waiting, Ordered
<1>2. ASSUME NEW c \in Clients, Suppress(c) PROVE Ordered'
  BY <1>2, <1>t DEF Suppress, PushTypeOK, PushInv, Attempted, Waiting, Ordered
<1>3. ASSUME NEW c \in Clients, SuppressReplaces(c) PROVE Ordered'
  BY <1>3, <1>t DEF SuppressReplaces, StopTimer, PushTypeOK, PushInv, Attempted, Waiting, Ordered
<1>4. ASSUME NEW c \in Clients, AskForDeploy(c) PROVE Ordered'
  BY <1>4, <1>t, Jobs, PushAssumption DEF AskForDeploy, PushTypeOK, PushInv, Attempted, Waiting, Ordered
<1>5. ASSUME NEW c \in Clients, AnswerLost(c) PROVE Ordered'
  <2>1. client[c].attempt \in 1..MaxAttempts
    BY <1>5 DEF AnswerLost, PushInv, Waiting
  <2>2. Asked(c) = <<c, client[c].attempt>> /\ Asked(c) \in Callers
    BY <2>1, Jobs DEF Asked
  <2>3. \A j \in Callers : job'[j].at \in {job[j].at, "idle"} /\ job'[j].image = job[j].image
    BY <1>5, <2>2, <1>t DEF AnswerLost, PushTypeOK
  <2>4. /\ \A d \in Clients : d # c => client'[d] = client[d]
        /\ \/ /\ client'[c].at = "retry" /\ client[c].attempt < MaxAttempts
              /\ client'[c].attempt = client[c].attempt /\ client'[c].stamp = client[c].stamp
           \/ client'[c].at = "done" /\ client'[c].stamp = 0
    BY <1>5, <1>t DEF AnswerLost, Goes, Ends, PushTypeOK
  <2>5. UNCHANGED <<latest, deployLock, running>> /\ client[c].at = "wait"
    BY <1>5 DEF AnswerLost
  <2> QED
    BY <2>3, <2>4, <2>5, Jobs, <1>t DEF PushTypeOK, PushInv, Ordered
<1>6. ASSUME NEW c \in Clients, Answer(c) PROVE Ordered'
  BY <1>6, <1>t, Jobs, PushAssumption DEF Answer, Ends, Asked, Answers, PushTypeOK, PushInv, Attempted, Waiting, Ordered
<1>7. ASSUME NEW c \in Clients, PushGivesUp(c) PROVE Ordered'
  BY <1>7, <1>t DEF PushGivesUp, Ends, PushTypeOK, PushInv, Attempted, Waiting, Ordered
<1>8. ASSUME NEW c \in Clients, StoreImage(c) PROVE Ordered'
  BY <1>8, <1>t, Jobs, PushAssumption DEF StoreImage, PushTypeOK, PushInv, Attempted, Waiting, Ordered
<1>9. ASSUME NEW c \in Clients, Announce(c) PROVE Ordered'
  BY <1>9, <1>t DEF Announce, Goes, PushTypeOK, PushInv, Attempted, Waiting, Ordered
<1>10. ASSUME NEW c \in Clients, Leave(c) PROVE Ordered'
  BY <1>10, <1>t DEF Leave, Ends, PushTypeOK, PushInv, Attempted, Waiting, Ordered
<1>11. ASSUME NEW c \in Clients, Expires(c) PROVE Ordered'
  BY <1>11, <1>t DEF Expires, PushTypeOK, PushInv, Attempted, Waiting, Ordered
<1>12. ASSUME NEW c \in Clients, ExpiryChecks(c) PROVE Ordered'
  BY <1>12, <1>t DEF ExpiryChecks, PushTypeOK, PushInv, Attempted, Waiting, Ordered
<1>13. ASSUME NEW c \in Clients, ExpiryDeletes(c) PROVE Ordered'
  BY <1>13, <1>t DEF ExpiryDeletes, PushTypeOK, PushInv, Attempted, Waiting, Ordered
<1>14. CASE TakeEvent
  BY <1>14, <1>t, Jobs, PushAssumption DEF TakeEvent, PushTypeOK, PushInv, Attempted, Waiting, Ordered
<1>15. ASSUME NEW j \in Callers, DeployBegins(j) PROVE Ordered'
  BY <1>15, <1>t, Jobs, PushAssumption DEF DeployBegins, PushTypeOK, PushInv, Attempted, Waiting, Ordered
<1>16. ASSUME NEW j \in Callers, DeploySucceeds(j) PROVE Ordered'
  BY <1>16, <1>t, Jobs, PushAssumption DEF DeploySucceeds, PushTypeOK, PushInv, Attempted, Waiting, Ordered
<1>17. ASSUME NEW j \in Callers, DeployFails(j) PROVE Ordered'
  BY <1>17, <1>t, Jobs, PushAssumption DEF DeployFails, Outcome, PushTypeOK, PushInv, Attempted, Waiting, Ordered
<1>18. ASSUME NEW j \in Callers, Clear(j) PROVE Ordered'
  BY <1>18, <1>t, Jobs, PushAssumption DEF Clear, Outcome, StopTimer, PushTypeOK, PushInv, Attempted, Waiting, Ordered
<1>19. CASE UNCHANGED pushVars
  BY <1>19, <1>t DEF pushVars, PushTypeOK, PushInv, Attempted, Waiting, Ordered
<1> QED
  BY <1>1, <1>2, <1>3, <1>4, <1>5, <1>6, <1>7, <1>8, <1>9, <1>10, <1>11, <1>12, <1>13, <1>14, <1>15, <1>16, <1>17, <1>18, <1>19
  DEF PushNext, ClientStep, ClientPushes, ExpiryStep, DeployStep

\* Only Answer reports a deploy.
LEMMA WhoIsTold ==
  ASSUME PushTypeOK, [PushNext]_pushVars, NEW d \in Clients,
         client[d].at # "deployed", client'[d].at = "deployed"
  PROVE  Answer(d) /\ job[Asked(d)].at = "deployed"
<1> DEFINE Told == Answer(d) /\ job[Asked(d)].at = "deployed"
           StaysTold == client'[d].at = "deployed" => client[d].at = "deployed"
<1>t. client \in [Clients -> ClientRecords]
  BY DEF PushTypeOK, ClientRecords
<1>1. ASSUME NEW c \in Clients, IntentFails(c) PROVE StaysTold
  BY <1>1, <1>t DEF IntentFails, Goes, ClientRecords
<1>2. ASSUME NEW c \in Clients, Suppress(c) PROVE StaysTold
  BY <1>2, <1>t DEF Suppress, ClientRecords
<1>3. ASSUME NEW c \in Clients, SuppressReplaces(c) PROVE StaysTold
  BY <1>3, <1>t DEF SuppressReplaces, ClientRecords
<1>4. ASSUME NEW c \in Clients, AskForDeploy(c) PROVE StaysTold
  BY <1>4, <1>t DEF AskForDeploy, ClientRecords
<1>5. ASSUME NEW c \in Clients, AnswerLost(c) PROVE StaysTold
  BY <1>5, <1>t DEF AnswerLost, Goes, Ends, Asked, ClientRecords
<1>6. ASSUME NEW c \in Clients, Answer(c) PROVE StaysTold \/ Told
  <2>1. CASE c = d
    BY <1>6, <2>1, <1>t DEF Answer, Ends, ClientRecords
  <2>2. CASE c # d
    BY <1>6, <2>2, <1>t DEF Answer, Ends, ClientRecords
  <2> QED
    BY <2>1, <2>2
<1>7. ASSUME NEW c \in Clients, PushGivesUp(c) PROVE StaysTold
  BY <1>7, <1>t DEF PushGivesUp, Ends, ClientRecords
<1>8. ASSUME NEW c \in Clients, StoreImage(c) PROVE StaysTold
  BY <1>8, <1>t DEF StoreImage, ClientRecords
<1>9. ASSUME NEW c \in Clients, Announce(c) PROVE StaysTold
  BY <1>9, <1>t DEF Announce, Goes, ClientRecords
<1>10. ASSUME NEW c \in Clients, Leave(c) PROVE StaysTold
  BY <1>10, <1>t DEF Leave, Ends, ClientRecords
<1>11. ASSUME NEW c \in Clients, Expires(c) PROVE StaysTold
  BY <1>11, <1>t DEF Expires, ClientRecords
<1>12. ASSUME NEW c \in Clients, ExpiryChecks(c) PROVE StaysTold
  BY <1>12, <1>t DEF ExpiryChecks, ClientRecords
<1>13. ASSUME NEW c \in Clients, ExpiryDeletes(c) PROVE StaysTold
  BY <1>13, <1>t DEF ExpiryDeletes, ClientRecords
<1>14. ASSUME TakeEvent PROVE StaysTold
  BY <1>14, <1>t DEF TakeEvent, ClientRecords
<1>15. ASSUME NEW j \in Callers, DeployBegins(j) PROVE StaysTold
  BY <1>15, <1>t DEF DeployBegins, ClientRecords
<1>16. ASSUME NEW j \in Callers, DeploySucceeds(j) PROVE StaysTold
  BY <1>16, <1>t DEF DeploySucceeds, ClientRecords
<1>17. ASSUME NEW j \in Callers, DeployFails(j) PROVE StaysTold
  BY <1>17, <1>t DEF DeployFails, ClientRecords
<1>18. ASSUME NEW j \in Callers, Clear(j) PROVE StaysTold
  BY <1>18, <1>t DEF Clear, ClientRecords
<1>19. ASSUME UNCHANGED pushVars PROVE StaysTold
  BY <1>19 DEF pushVars
<1> HIDE DEF StaysTold, Told
<1>k. StaysTold \/ Told
  BY <1>1, <1>2, <1>3, <1>4, <1>5, <1>6, <1>7, <1>8, <1>9, <1>10, <1>11, <1>12, <1>13, <1>14, <1>15, <1>16, <1>17, <1>18, <1>19
  DEF PushNext, ClientStep, ClientPushes, ExpiryStep, DeployStep
<1> QED
  BY <1>k DEF StaysTold, Told

LEMMA PushInvariant == PushSpec => []PushInv
<1>1. PushInit => PushInv
  <2> SUFFICES ASSUME PushInit PROVE PushInv
    OBVIOUS
  <2>1. PushTypeOK
    BY PushAssumption DEF PushInit, PushTypeOK
  <2>2. Timed
    BY DEF PushInit, Timed, EntryHasTimer
  <2>3. Attempted /\ Waiting /\ Ordered
    BY Jobs, PushAssumption DEF PushInit, Attempted, Waiting, Ordered
  <2> QED
    BY <2>1, <2>2, <2>3 DEF PushInv
<1>2. PushInv /\ [PushNext]_pushVars => PushInv'
  BY TypeNext, TimedNext, AttemptedNext, OrderedNext DEF PushInv
<1> QED
  BY <1>1, <1>2, PTL DEF PushSpec

-----------------------------------------------------------------------------
(* The theorems                                                            *)

\* Whatever intents, expiries and deploys meet, the entry of suppressedImages is one
\* whose own timer will still remove it (SuppressDeployEvent, ClearDeployEventSuppression).
THEOREM SuppressionsEnd == PushSpec => []EntryHasTimer
<1>1. PushInv => EntryHasTimer
  BY DEF PushInv, Timed
<1> QED
  BY <1>1, PushInvariant, PTL

\* A client that is told "Deployed" has its image running, or a newer one, although the
\* event loop, other clients and its own lost attempts deploy the route as well.
THEOREM DeployedMeansPushed == PushSpec => DeployedIsPushed
<1> DEFINE Told == \A c \in Clients :
                      client[c].at # "deployed" /\ client'[c].at = "deployed"
                          => running >= client[c].stamp
<1>1. PushInv /\ [PushNext]_pushVars => Told
  <2> SUFFICES ASSUME PushInv, [PushNext]_pushVars, NEW c \in Clients,
                      client[c].at # "deployed", client'[c].at = "deployed"
               PROVE  running >= client[c].stamp
    OBVIOUS
  <2>1. Answer(c) /\ job[Asked(c)].at = "deployed"
    BY WhoIsTold DEF PushInv
  <2>2. client[c].at = "wait" /\ client[c].attempt \in 1..MaxAttempts
    BY <2>1 DEF Answer, PushInv, Waiting
  <2>3. client[c].stamp <= running
    BY <2>1, <2>2 DEF Asked, PushInv, Ordered
  <2> QED
    BY <2>3 DEF PushInv, PushTypeOK
<1> HIDE DEF Told
<1>2. PushSpec => [][Told]_pushVars
  BY <1>1, PushInvariant, PTL DEF PushSpec
<1> QED
  BY <1>2 DEF DeployedIsPushed, Told

-----------------------------------------------------------------------------
(* Uploads: who is alone with a file                                       *)

\* A request that holds the mutex it has looked up, and one that has looked one up.
Holds(r)  == request[r].at \in {"open", "copy", "verify", "rename", "remove"}
Looked(r) == Holds(r) \/ request[r].at \in {"append lock", "finish lock", "cancel lock"}

\* A mutex excludes.
Exclusive ==
    /\ \A r \in UploadRequests : Holds(r) => request[r].mutex \in locked
    /\ \A r, s \in UploadRequests :
          Holds(r) /\ Holds(s) /\ request[r].mutex = request[s].mutex => r = s
    /\ sweep.at = "remove" =>
          /\ sweep.mutex \in locked
          /\ \A r \in UploadRequests : Holds(r) => request[r].mutex # sweep.mutex

\* As long as its file is there, an upload has the one mutex of the map: the entry is
\* forgotten only when the file is gone, and a file does not come back.  What is about to
\* be published is what was verified, and at most one byte is too many.
Sound(r) ==
    LET q == request[r] IN
    /\ Looked(r) => /\ q.mutex # 0
                    /\ q.id \in DOMAIN uploads => q.mutex = uploadLocks[q.id]
    /\ q.at \notin {"new", "done"} => q.id \notin freshIds
    /\ q.at = "forget" => q.id \notin DOMAIN uploads
    /\ q.at \in {"append", "append lock", "open"} => q.read = 0
    /\ q.at \in {"finish", "finish lock", "verify", "rename"} => q.digest # <<>>
    /\ q.at = "rename" => q.id \in DOMAIN uploads /\ uploads[q.id].bytes = q.digest
    /\ q.at = "copy" => /\ q.id \in DOMAIN uploads
                        /\ Len(uploads[q.id].bytes) = q.size + q.read
                        /\ q.size + q.read <= MaxBlobSize + 1

\* The clean-up is one more caller.
SweepSound ==
    /\ sweep.at \in {"lock", "remove"} =>
          /\ sweep.mutex # 0
          /\ sweep.id \in DOMAIN uploads => sweep.mutex = uploadLocks[sweep.id]
    /\ sweep.todo \cap freshIds = {}
    /\ sweep.at \notin {"idle", "judge"} => sweep.id \notin freshIds
    /\ sweep.at = "forget" => sweep.id \notin DOMAIN uploads

Published == \A d \in DOMAIN blobFiles : blobFiles[d] = d

UploadInv ==
    /\ UploadsTypeOK
    /\ Exclusive
    /\ \A r \in UploadRequests : Sound(r)
    /\ SweepSound
    /\ Published

\* Whoever holds the mutex of an upload whose file is there is the only one.
LEMMA SoleHolder ==
  ASSUME UploadInv, NEW r \in UploadRequests, Holds(r), request[r].id \in DOMAIN uploads
  PROVE  /\ \A s \in UploadRequests \ {r} : Holds(s) => request[s].id # request[r].id
         /\ sweep.at = "remove" => sweep.id # request[r].id
<1>1. Exclusive /\ SweepSound /\ \A s \in UploadRequests : Sound(s)
  BY DEF UploadInv
<1>2. request[r].mutex = uploadLocks[request[r].id]
  BY <1>1 DEF Sound, Looked
<1>3. ASSUME NEW s \in UploadRequests \ {r}, Holds(s), request[s].id = request[r].id
      PROVE  FALSE
  <2>1. request[s].mutex = uploadLocks[request[s].id]
    BY <1>1, <1>3 DEF Sound, Looked
  <2> QED
    BY <1>1, <1>2, <1>3, <2>1 DEF Exclusive
<1>4. ASSUME sweep.at = "remove", sweep.id = request[r].id PROVE FALSE
  BY <1>1, <1>2, <1>4 DEF Exclusive, SweepSound
<1> QED
  BY <1>3, <1>4

LEMMA SoleSweep ==
  ASSUME UploadInv, sweep.at = "remove", sweep.id \in DOMAIN uploads
  PROVE  \A s \in UploadRequests : Holds(s) => request[s].id # sweep.id
<1>1. Exclusive /\ SweepSound /\ \A s \in UploadRequests : Sound(s)
  BY DEF UploadInv
<1>2. ASSUME NEW s \in UploadRequests, Holds(s), request[s].id = sweep.id PROVE FALSE
  BY <1>1, <1>2 DEF Exclusive, SweepSound, Sound, Looked
<1> QED
  BY <1>2

\* A file that comes is new, and the mutex of a file that stays stays.
Frame ==
    /\ freshIds' \subseteq freshIds
    /\ DOMAIN uploads' \ DOMAIN uploads \subseteq freshIds
    /\ \A u \in DOMAIN uploads \cap DOMAIN uploads' :
          uploadLocks[u] # 0 => uploadLocks'[u] = uploadLocks[u]

LEMMA OthersSound ==
  ASSUME UploadInv, Frame, NEW s \in UploadRequests, request'[s] = request[s],
         Holds(s) /\ request[s].id \in DOMAIN uploads =>
            /\ request[s].id \in DOMAIN uploads'
            /\ uploads'[request[s].id].bytes = uploads[request[s].id].bytes
  PROVE  Sound(s)'
<1>1. Sound(s)
  BY DEF UploadInv
<1> QED
  BY <1>1 DEF Sound, Looked, Holds, Frame

LEMMA SweepStaysSound ==
  ASSUME UploadInv, Frame, UNCHANGED sweep
  PROVE  SweepSound'
BY DEF UploadInv, SweepSound, Frame

\* What a step of a request does to the mutexes.
LEMMA ExclusiveSteps ==
  ASSUME UploadInv, NEW r \in UploadRequests, UNCHANGED sweep,
         \A s \in UploadRequests \ {r} : request'[s] = request[s],
         \/ /\ locked' = locked \cup {request[r].mutex}
            /\ request[r].mutex \notin locked /\ request'[r].mutex = request[r].mutex
         \/ locked' = locked \ {request[r].mutex} /\ Holds(r) /\ ~ Holds(r)'
         \/ /\ UNCHANGED locked
            /\ Holds(r)' => Holds(r) /\ request'[r].mutex = request[r].mutex
  PROVE  Exclusive'
<1>1. Exclusive
  BY DEF UploadInv
<1>2. CASE /\ locked' = locked \cup {request[r].mutex}
           /\ request[r].mutex \notin locked /\ request'[r].mutex = request[r].mutex
  BY <1>1, <1>2 DEF Exclusive, Holds
<1>3. CASE locked' = locked \ {request[r].mutex} /\ Holds(r) /\ ~ Holds(r)'
  BY <1>1, <1>3 DEF Exclusive, Holds
<1>4. CASE /\ UNCHANGED locked
           /\ Holds(r)' => Holds(r) /\ request'[r].mutex = request[r].mutex
  BY <1>1, <1>4 DEF Exclusive, Holds
<1> QED
  BY <1>2, <1>3, <1>4

-----------------------------------------------------------------------------
(* Uploads: types                                                          *)

LEMMA MutexNumbers ==
  /\ 1..MaxMutexes \subseteq 0..MaxMutexes
  /\ \A m \in 0..MaxMutexes : m # 0 => m \in 1..MaxMutexes
<1>1. MaxMutexes \in Nat
  BY UploadsAssumption
<1> QED
  BY <1>1

LEMMA NoRequestTypes == NoRequest \in RequestRecord /\ NoSweep \in SweepRecord
<1>1. (CHOOSE u \in UploadIds : TRUE) \in UploadIds
  BY UploadsAssumption
<1>2. <<>> \in Seq(Bytes) /\ 0 \in 0..MaxBlobSize /\ 0 \in 0..MaxChunkSize /\ 0 \in 0..MaxMutexes
  BY UploadsAssumption
<1> QED
  BY <1>1, <1>2 DEF NoRequest, NoSweep, RequestRecord, SweepRecord, Places

LEMMA RequestMoves ==
  ASSUME UploadsTypeOK, NEW r \in UploadRequests
  PROVE  /\ request[r] \in RequestRecord
         /\ \A x \in RequestRecord :
               /\ [request EXCEPT ![r] = x] \in [UploadRequests -> RequestRecord]
               /\ [request EXCEPT ![r] = x][r] = x
               /\ \A s \in UploadRequests \ {r} : [request EXCEPT ![r] = x][s] = request[s]
         /\ \A at \in Places : MovesOn(r, at) =>
               /\ request' \in [UploadRequests -> RequestRecord]
               /\ request'[r] = [request[r] EXCEPT !.at = at]
               /\ \A s \in UploadRequests \ {r} : request'[s] = request[s]
<1>1. /\ request[r] \in RequestRecord
      /\ \A x \in RequestRecord :
            /\ [request EXCEPT ![r] = x] \in [UploadRequests -> RequestRecord]
            /\ [request EXCEPT ![r] = x][r] = x
            /\ \A s \in UploadRequests \ {r} : [request EXCEPT ![r] = x][s] = request[s]
  BY DEF UploadsTypeOK
<1>2. ASSUME NEW at \in Places, MovesOn(r, at)
      PROVE  /\ request' \in [UploadRequests -> RequestRecord]
             /\ request'[r] = [request[r] EXCEPT !.at = at]
             /\ \A s \in UploadRequests \ {r} : request'[s] = request[s]
  <2>1. [request[r] EXCEPT !.at = at] \in RequestRecord
    BY <1>1 DEF RequestRecord
  <2>2. request' = [request EXCEPT ![r] = [request[r] EXCEPT !.at = at]]
    BY <1>2 DEF MovesOn, UploadsTypeOK
  <2> QED
    BY <1>1, <2>1, <2>2
<1> QED
  BY <1>1, <1>2

\* The mutex of the map, or a new one.
LEMMA GetsLockKeeps ==
  ASSUME UploadsTypeOK, NEW u \in UploadIds, NEW m \in 1..MaxMutexes, GetsLock(u, m)
  PROVE  /\ uploadLocks' \in [UploadIds -> 0..MaxMutexes] /\ mutexes' \in 0..MaxMutexes
         /\ uploadLocks'[u] = m /\ m # 0
         /\ \A v \in UploadIds : uploadLocks[v] # 0 => uploadLocks'[v] = uploadLocks[v]
<1>1. m # 0 /\ m \in 0..MaxMutexes
  BY UploadsAssumption
<1>2. CASE uploadLocks[u] # 0
  BY <1>1, <1>2 DEF GetsLock, UploadsTypeOK
<1>3. CASE uploadLocks[u] = 0
  BY <1>1, <1>3 DEF GetsLock, UploadsTypeOK
<1> QED
  BY <1>2, <1>3

LEMMA ForgetLockKeeps ==
  ASSUME UploadsTypeOK, NEW u \in UploadIds, ForgetLock(u)
  PROVE  /\ uploadLocks' \in [UploadIds -> 0..MaxMutexes]
         /\ \A v \in UploadIds \ {u} : uploadLocks'[v] = uploadLocks[v]
BY UploadsAssumption DEF ForgetLock, UploadsTypeOK

LEMMA WithoutKeeps ==
  ASSUME UploadsTypeOK, NEW u, uploads' = Without(uploads, u)
  PROVE  /\ DOMAIN uploads' = DOMAIN uploads \ {u}
         /\ uploads' \in [DOMAIN uploads' -> UploadRecord]
         /\ \A v \in DOMAIN uploads' : uploads'[v] = uploads[v]
BY DEF Without, UploadsTypeOK

-----------------------------------------------------------------------------
(* Uploads: a request                                                      *)

\* The steps that only move a request and its mutex.
LEMMA LookUpInv ==
  ASSUME UploadInv, NEW r \in UploadRequests, NEW here, NEW there,
         \/ here = "append" /\ there = "append lock"
         \/ here = "finish" /\ there = "finish lock"
         \/ here = "cancel" /\ there = "cancel lock",
         LookUp(r, here, there)
  PROVE  UploadInv'
<1>t. /\ UploadsTypeOK /\ Sound(r) /\ Published /\ request[r] \in RequestRecord
      /\ UNCHANGED <<freshIds, uploads, blobFiles, locked, sweep, restarts>>
      /\ request[r].at = here
  BY RequestMoves DEF UploadInv, LookUp
<1>1. PICK m \in 1..MaxMutexes :
         /\ GetsLock(request[r].id, m)
         /\ request' = [request EXCEPT ![r].at = there, ![r].mutex = m]
  BY DEF LookUp
<1> DEFINE next == [[request[r] EXCEPT !.at = there] EXCEPT !.mutex = m]
<1>2. request[r].id \in UploadIds
  BY <1>t DEF RequestRecord
<1>3. /\ uploadLocks' \in [UploadIds -> 0..MaxMutexes] /\ mutexes' \in 0..MaxMutexes
      /\ uploadLocks'[request[r].id] = m /\ m # 0
      /\ \A v \in UploadIds : uploadLocks[v] # 0 => uploadLocks'[v] = uploadLocks[v]
  BY <1>t, <1>1, <1>2, GetsLockKeeps
<1>m. m \in 0..MaxMutexes /\ there \in Places
  BY MutexNumbers DEF Places
<1>4. next \in RequestRecord
  BY <1>t, <1>m DEF RequestRecord
<1>5. request' = [request EXCEPT ![r] = next]
  BY <1>1, <1>t DEF UploadsTypeOK
<1>6. /\ request' \in [UploadRequests -> RequestRecord] /\ request'[r] = next
      /\ \A s \in UploadRequests \ {r} : request'[s] = request[s]
  BY <1>t, <1>4, <1>5, RequestMoves
<1>7. /\ next.at = there /\ next.mutex = m /\ next.id = request[r].id
      /\ next.read = request[r].read /\ next.digest = request[r].digest
  BY <1>t DEF RequestRecord
<1>8. UploadsTypeOK'
  BY <1>t, <1>3, <1>6 DEF UploadsTypeOK
<1>9. Frame
  BY <1>t, <1>3 DEF Frame, UploadsTypeOK
<1>10. Exclusive'
  BY <1>t, <1>6, <1>7, ExclusiveSteps DEF Holds
<1>11. Sound(r)'
  BY <1>t, <1>3, <1>6, <1>7 DEF Sound, Looked, Holds
<1>12. \A s \in UploadRequests \ {r} : Sound(s)'
  BY <1>t, <1>6, <1>9, OthersSound
<1>13. SweepSound' /\ Published'
  BY <1>t, <1>9, SweepStaysSound DEF Published
<1> QED
  BY <1>8, <1>10, <1>11, <1>12, <1>13 DEF UploadInv

LEMMA TakeLockInv ==
  ASSUME UploadInv, NEW r \in UploadRequests, NEW here, NEW there,
         \/ here = "append lock" /\ there = "open"
         \/ here = "finish lock" /\ there = "verify"
         \/ here = "cancel lock" /\ there = "remove",
         TakeLock(r, here, there)
  PROVE  UploadInv'
<1>t. /\ UploadsTypeOK /\ Sound(r) /\ Published /\ request[r] \in RequestRecord
      /\ UNCHANGED <<freshIds, uploads, blobFiles, uploadLocks, sweep, mutexes, restarts>>
      /\ request[r].at = here /\ there \in Places
      /\ locked' = locked \cup {request[r].mutex} /\ request[r].mutex \notin locked
      /\ MovesOn(r, there)
  BY RequestMoves DEF UploadInv, TakeLock, Places
<1>1. /\ request' \in [UploadRequests -> RequestRecord]
      /\ request'[r] = [request[r] EXCEPT !.at = there]
      /\ \A s \in UploadRequests \ {r} : request'[s] = request[s]
  BY <1>t, RequestMoves
<1>2. /\ request'[r].at = there /\ request'[r].mutex = request[r].mutex
      /\ request'[r].id = request[r].id /\ request'[r].read = request[r].read
      /\ request'[r].digest = request[r].digest
  BY <1>1, <1>t DEF RequestRecord
<1>a. request[r].mutex # 0
  BY <1>t DEF Sound, Looked
<1>b. request[r].mutex \in 0..MaxMutexes
  BY <1>t DEF RequestRecord
<1>3. request[r].mutex \in 1..MaxMutexes
  BY <1>a, <1>b, MutexNumbers
<1>4. UploadsTypeOK'
  BY <1>t, <1>1, <1>3 DEF UploadsTypeOK
<1>5. Frame
  BY <1>t DEF Frame
<1>6. Exclusive'
  BY <1>t, <1>1, <1>2, ExclusiveSteps
<1>7. Sound(r)'
  BY <1>t, <1>2 DEF Sound, Looked, Holds
<1>8. \A s \in UploadRequests \ {r} : Sound(s)'
  BY <1>t, <1>1, <1>5, OthersSound
<1>9. SweepSound' /\ Published'
  BY <1>t, <1>5, SweepStaysSound DEF Published
<1> QED
  BY <1>4, <1>6, <1>7, <1>8, <1>9 DEF UploadInv

\* A request that unlocks or goes on, and touches no file.
LEMMA MoveInv ==
  ASSUME UploadInv, NEW r \in UploadRequests, NEW at \in Places, MovesOn(r, at),
         UNCHANGED <<freshIds, uploads, blobFiles, sweep, mutexes, restarts>>,
         \/ Holds(r) /\ locked' = locked \ {request[r].mutex}
            /\ at \in {"done", "cancel", "finish"}
         \/ /\ UNCHANGED locked
            /\ \/ Holds(r) /\ at = "rename"
               \/ ~ Holds(r) /\ at = "done",
         at \in {"finish", "rename"} => request[r].digest # <<>>,
         at = "rename" => /\ request[r].id \in DOMAIN uploads
                          /\ uploads[request[r].id].bytes = request[r].digest,
         \/ UNCHANGED uploadLocks
         \/ ForgetLock(request[r].id) /\ request[r].id \notin DOMAIN uploads
  PROVE  UploadInv'
<1>t. /\ UploadsTypeOK /\ Sound(r) /\ Published /\ request[r] \in RequestRecord
      /\ request[r].id \in UploadIds
  BY RequestMoves DEF UploadInv, RequestRecord
<1>1. /\ request' \in [UploadRequests -> RequestRecord]
      /\ request'[r] = [request[r] EXCEPT !.at = at]
      /\ \A s \in UploadRequests \ {r} : request'[s] = request[s]
  BY <1>t, RequestMoves
<1>2. /\ request'[r].at = at /\ request'[r].mutex = request[r].mutex
      /\ request'[r].id = request[r].id /\ request'[r].digest = request[r].digest
  BY <1>1, <1>t DEF RequestRecord
<1>3. /\ uploadLocks' \in [UploadIds -> 0..MaxMutexes]
      /\ \A v \in DOMAIN uploads : uploadLocks'[v] = uploadLocks[v]
  BY <1>t, ForgetLockKeeps DEF UploadsTypeOK
<1>4. UploadsTypeOK'
  BY <1>t, <1>1, <1>3 DEF UploadsTypeOK
<1>5. Frame
  BY <1>3 DEF Frame
<1>6. Exclusive'
  BY <1>t, <1>1, <1>2, ExclusiveSteps DEF Holds
<1>7. request[r].at \notin {"new", "done"} => request[r].id \notin freshIds
  BY <1>t DEF Sound
<1>8. Sound(r)'
  BY <1>t, <1>2, <1>3, <1>7 DEF Sound, Looked, Holds
<1>9. \A s \in UploadRequests \ {r} : Sound(s)'
  BY <1>t, <1>1, <1>5, OthersSound
<1>10. SweepSound' /\ Published'
  BY <1>t, <1>5, SweepStaysSound DEF Published
<1> QED
  BY <1>4, <1>6, <1>8, <1>9, <1>10 DEF UploadInv

LEMMA HandleInv ==
  ASSUME UploadInv, NEW r \in UploadRequests, HandleBlobUpload(r)
  PROVE  UploadInv'
<1>t. /\ UploadsTypeOK /\ Published
      /\ UNCHANGED <<freshIds, uploads, blobFiles, uploadLocks, locked, sweep, mutexes, restarts>>
  BY DEF UploadInv, HandleBlobUpload
<1>1. PICK u \in DOMAIN uploads, body \in Bodies, digest \in Digests \cup {<<>>},
           declared \in BOOLEAN :
         request' = [request EXCEPT ![r] = [NoRequest EXCEPT !.at = "append", !.id = u,
                        !.body = body, !.digest = digest, !.declared = declared]]
  BY DEF HandleBlobUpload
<1> DEFINE next == [NoRequest EXCEPT !.at = "append", !.id = u, !.body = body,
                       !.digest = digest, !.declared = declared]
<1>2. u \in UploadIds /\ u \notin freshIds
  BY <1>t DEF UploadsTypeOK
<1>3. body \in Seq(Bytes)
  BY UploadsAssumption
<1>4. next \in RequestRecord /\ next.at = "append" /\ next.id = u /\ next.read = 0
  BY <1>2, <1>3, NoRequestTypes DEF NoRequest, RequestRecord, Places
<1>5. /\ request' \in [UploadRequests -> RequestRecord] /\ request'[r] = next
      /\ \A s \in UploadRequests \ {r} : request'[s] = request[s]
  BY <1>t, <1>1, <1>4, RequestMoves
<1>6. UploadsTypeOK'
  BY <1>t, <1>5 DEF UploadsTypeOK
<1>7. Frame
  BY <1>t DEF Frame
<1>8. Exclusive'
  BY <1>t, <1>4, <1>5, ExclusiveSteps DEF Holds
<1>9. Sound(r)'
  BY <1>t, <1>2, <1>4, <1>5 DEF Sound, Looked, Holds
<1>10. \A s \in UploadRequests \ {r} : Sound(s)'
  BY <1>t, <1>5, <1>7, OthersSound
<1>11. SweepSound' /\ Published'
  BY <1>t, <1>7, SweepStaysSound DEF Published
<1> QED
  BY <1>6, <1>8, <1>9, <1>10, <1>11 DEF UploadInv

\* The body is copied from where the file ends.
LEMMA OpenInv ==
  ASSUME UploadInv, NEW r \in UploadRequests, Open(r)
  PROVE  UploadInv'
<1> DEFINE u == request[r].id
           size == Len(uploads[u].bytes)
           announced == IF request[r].declared THEN Len(request[r].body) ELSE 0
<1>t. /\ UploadsTypeOK /\ Published /\ Sound(r) /\ request[r] \in RequestRecord
      /\ UNCHANGED <<freshIds, uploads, blobFiles, uploadLocks, sweep, mutexes, restarts>>
      /\ u \in DOMAIN uploads /\ request[r].at = "open" /\ Holds(r)
  BY RequestMoves DEF UploadInv, Open, Holds
<1>1. CASE size + announced > MaxBlobSize
  <2>1. Leaves(r, "cancel")
    BY <1>1 DEF Open
  <2> QED
    BY <1>t, <2>1, MoveInv DEF Leaves, Places
<1>2. CASE ~ (size + announced > MaxBlobSize)
  <2>1. request' = [request EXCEPT ![r].at = "copy", ![r].size = size] /\ UNCHANGED locked
    BY <1>2 DEF Open
  <2>2. uploads[u].bytes \in Seq(Bytes) /\ request[r].body \in Seq(Bytes)
        /\ request[r].read \in 0..MaxChunkSize
    BY <1>t DEF UploadsTypeOK, UploadRecord, RequestRecord
  <2>3. size \in Nat /\ announced \in Nat
    BY <2>2
  <2>4. MaxBlobSize \in Nat
    BY UploadsAssumption
  <2>a. \A a, b, c \in Nat : ~ (a + b > c) => a \in 0..c
    OBVIOUS
  <2>5. size \in 0..MaxBlobSize
    BY <1>2, <2>a, <2>3, <2>4
  <2> DEFINE next == [[request[r] EXCEPT !.at = "copy"] EXCEPT !.size = size]
  <2>6. /\ next \in RequestRecord
        /\ next.at = "copy" /\ next.size = size /\ next.id = u /\ next.mutex = request[r].mutex
        /\ next.read = request[r].read
    BY <1>t, <2>5 DEF RequestRecord, Places
  <2>7. request' = [request EXCEPT ![r] = next]
    BY <1>t, <2>1 DEF UploadsTypeOK
  <2>8. /\ request' \in [UploadRequests -> RequestRecord] /\ request'[r] = next
        /\ \A s \in UploadRequests \ {r} : request'[s] = request[s]
    BY <1>t, <2>6, <2>7, RequestMoves
  <2>9. UploadsTypeOK'
    BY <1>t, <2>1, <2>8 DEF UploadsTypeOK
  <2>10. Frame
    BY <1>t DEF Frame
  <2>11. Exclusive'
    BY <1>t, <2>1, <2>6, <2>8, ExclusiveSteps
  <2>12. request[r].read = 0
    BY <1>t DEF Sound
  <2>13. Sound(r)'
    BY <1>t, <2>3, <2>4, <2>5, <2>6, <2>8, <2>12 DEF Sound, Looked, Holds
  <2>14. \A s \in UploadRequests \ {r} : Sound(s)'
    BY <1>t, <2>8, <2>10, OthersSound
  <2>15. SweepSound' /\ Published'
    BY <1>t, <2>10, SweepStaysSound DEF Published
  <2> QED
    BY <2>9, <2>11, <2>13, <2>14, <2>15 DEF UploadInv
<1> QED
  BY <1>1, <1>2

LEMMA CopyByteInv ==
  ASSUME UploadInv, NEW r \in UploadRequests, CopyByte(r)
  PROVE  UploadInv'
<1> DEFINE u    == request[r].id
           next == [request[r] EXCEPT !.read = @ + 1]
<1>t. /\ UploadsTypeOK /\ Published /\ Sound(r) /\ request[r] \in RequestRecord
      /\ UNCHANGED <<freshIds, blobFiles, uploadLocks, locked, sweep, mutexes, restarts>>
      /\ request[r].at = "copy" /\ Holds(r)
  BY RequestMoves DEF UploadInv, CopyByte, Holds
<1>c. /\ u \in DOMAIN uploads /\ Len(uploads[u].bytes) = request[r].size + request[r].read
  BY <1>t DEF Sound
<1>1. /\ uploads[u].bytes \in Seq(Bytes) /\ request[r].body \in Seq(Bytes)
      /\ request[r].read \in 0..MaxChunkSize /\ request[r].size \in 0..MaxBlobSize
  BY <1>t, <1>c DEF UploadsTypeOK, UploadRecord, RequestRecord
<1>2. MaxBlobSize \in Nat /\ MaxChunkSize \in Nat
  BY UploadsAssumption
<1>3. /\ request[r].read < Len(request[r].body)
      /\ request[r].read < Least(MaxChunkSize, MaxBlobSize - request[r].size + 1)
  BY DEF CopyByte, Remaining
<1>n. request[r].read \in Nat /\ request[r].size \in Nat
  BY <1>1, <1>2
<1>s. \A read, size, chunk, blob \in Nat :
         read < Least(chunk, blob - size + 1) =>
            read + 1 \in 0..chunk /\ size + (read + 1) <= blob + 1
  BY DEF Least
<1>4. /\ request[r].read + 1 \in 0..MaxChunkSize
      /\ request[r].size + (request[r].read + 1) <= MaxBlobSize + 1
  BY <1>2, <1>3, <1>n, <1>s
<1>5. request[r].body[request[r].read + 1] \in Bytes
  BY <1>1, <1>3, <1>n
<1>a. /\ Append(uploads[u].bytes, request[r].body[request[r].read + 1]) \in Seq(Bytes)
      /\ Len(Append(uploads[u].bytes, request[r].body[request[r].read + 1]))
            = Len(uploads[u].bytes) + 1
  BY <1>1, <1>5
<1>6. PICK more :
        /\ more = Append(uploads[u].bytes, request[r].body[request[r].read + 1])
        /\ more \in Seq(Bytes) /\ Len(more) = Len(uploads[u].bytes) + 1
  BY <1>a, Zenon
<1>7. Len(more) = request[r].size + (request[r].read + 1)
  BY <1>6, <1>c, <1>n
<1>8. /\ DOMAIN uploads' = DOMAIN uploads
      /\ uploads'[u] = [bytes |-> more, young |-> TRUE]
      /\ \A v \in DOMAIN uploads \ {u} : uploads'[v] = uploads[v]
      /\ uploads' = [v \in DOMAIN uploads |-> uploads'[v]]
  BY <1>c, <1>6 DEF CopyByte
<1>9. uploads' \in [DOMAIN uploads' -> UploadRecord]
  <2>1. [bytes |-> more, young |-> TRUE] \in UploadRecord
    BY <1>6 DEF UploadRecord
  <2>2. \A v \in DOMAIN uploads : uploads'[v] \in UploadRecord
    BY <1>8, <2>1, <1>t DEF UploadsTypeOK
  <2> QED
    BY <1>8, <2>2
<1>10. \A v \in DOMAIN uploads' : Len(uploads'[v].bytes) <= MaxBlobSize + 1
  <2>1. uploads'[u].bytes = more /\ Len(more) <= MaxBlobSize + 1
    BY <1>4, <1>7, <1>8
  <2> QED
    BY <1>8, <2>1, <1>t DEF UploadsTypeOK
<1>11. /\ next \in RequestRecord
       /\ next.at = "copy" /\ next.read = request[r].read + 1 /\ next.size = request[r].size
       /\ next.id = u /\ next.mutex = request[r].mutex
  BY <1>t, <1>4 DEF RequestRecord
<1>12. request' = [request EXCEPT ![r] = next]
  BY <1>t DEF CopyByte, UploadsTypeOK
<1>13. /\ request' \in [UploadRequests -> RequestRecord] /\ request'[r] = next
       /\ \A s \in UploadRequests \ {r} : request'[s] = request[s]
  BY <1>t, <1>11, <1>12, RequestMoves
<1>14. UploadsTypeOK'
  BY <1>t, <1>8, <1>9, <1>10, <1>13 DEF UploadsTypeOK
<1>15. Frame
  BY <1>t, <1>8 DEF Frame
<1>16. Exclusive'
  BY <1>t, <1>11, <1>13, ExclusiveSteps
<1>17. Sound(r)'
  <2>1. u \in DOMAIN uploads' /\ Len(uploads'[u].bytes) = next.size + next.read
        /\ next.size + next.read <= MaxBlobSize + 1
    BY <1>c, <1>4, <1>7, <1>8, <1>11
  <2> QED
    BY <1>t, <1>8, <1>11, <1>13, <2>1 DEF Sound, Looked, Holds
<1>18. ASSUME NEW s \in UploadRequests \ {r} PROVE Sound(s)'
  <2>1. Holds(s) => request[s].id # u
    BY <1>t, <1>c, SoleHolder
  <2> QED
    BY <1>8, <1>13, <1>15, <2>1, OthersSound
<1>19. SweepSound' /\ Published'
  BY <1>t, <1>15, SweepStaysSound DEF Published
<1> QED
  BY <1>14, <1>16, <1>17, <1>18, <1>19 DEF UploadInv

LEMMA CopiedInv ==
  ASSUME UploadInv, NEW r \in UploadRequests, Copied(r)
  PROVE  UploadInv'
<1> DEFINE u   == request[r].id
           cut == SubSeq(uploads[u].bytes, 1, request[r].size)
<1>t. /\ UploadsTypeOK /\ Published /\ Sound(r) /\ request[r] \in RequestRecord
      /\ UNCHANGED <<freshIds, blobFiles, uploadLocks, sweep, mutexes, restarts>>
      /\ request[r].at = "copy" /\ Holds(r)
  BY RequestMoves DEF UploadInv, Copied, Holds
<1>1. CASE ~ (request[r].read > Remaining(r))
  <2>1. UNCHANGED uploads /\ Leaves(r, IF request[r].digest = <<>> THEN "done" ELSE "finish")
    BY <1>1 DEF Copied
  <2>2. CASE request[r].digest = <<>>
    BY <1>t, <2>1, <2>2, MoveInv DEF Leaves, Places
  <2>3. CASE request[r].digest # <<>>
    BY <1>t, <2>1, <2>3, MoveInv DEF Leaves, Places
  <2> QED
    BY <2>2, <2>3
<1>2. CASE request[r].read > Remaining(r)
  <2>1. uploads' = [uploads EXCEPT ![u].bytes = SubSeq(@, 1, request[r].size)]
        /\ Leaves(r, "cancel")
    BY <1>2 DEF Copied
  <2>c. /\ u \in DOMAIN uploads /\ Len(uploads[u].bytes) = request[r].size + request[r].read
    BY <1>t DEF Sound
  <2>2. /\ uploads[u].bytes \in Seq(Bytes) /\ uploads[u] \in UploadRecord
        /\ request[r].read \in 0..MaxChunkSize /\ request[r].size \in 0..MaxBlobSize
    BY <1>t, <2>c DEF UploadsTypeOK, UploadRecord, RequestRecord
  <2>3. MaxBlobSize \in Nat /\ MaxChunkSize \in Nat
    BY UploadsAssumption
  <2>4. request[r].size \in 0..Len(uploads[u].bytes) /\ request[r].size <= MaxBlobSize + 1
    BY <2>2, <2>3, <2>c
  <2>5. cut \in Seq(Bytes) /\ Len(cut) = request[r].size
    BY <2>2, <2>4, SubSeqProperties
  <2>6. /\ DOMAIN uploads' = DOMAIN uploads
        /\ uploads'[u] = [uploads[u] EXCEPT !.bytes = cut]
        /\ \A v \in DOMAIN uploads \ {u} : uploads'[v] = uploads[v]
    BY <2>1, <2>c, <1>t DEF UploadsTypeOK
  <2>7. uploads'[u] \in UploadRecord /\ uploads'[u].bytes = cut
    BY <2>2, <2>5, <2>6 DEF UploadRecord
  <2>8. uploads' \in [DOMAIN uploads' -> UploadRecord]
    BY <2>1, <2>6, <2>7, <1>t DEF UploadsTypeOK
  <2>9. \A v \in DOMAIN uploads' : Len(uploads'[v].bytes) <= MaxBlobSize + 1
    BY <2>4, <2>5, <2>6, <2>7, <1>t DEF UploadsTypeOK
  <2>10. /\ request' \in [UploadRequests -> RequestRecord]
         /\ request'[r] = [request[r] EXCEPT !.at = "cancel"]
         /\ \A s \in UploadRequests \ {r} : request'[s] = request[s]
    BY <1>t, <2>1, RequestMoves DEF Leaves, Places
  <2>11. request'[r].at = "cancel" /\ request'[r].id = u
    BY <1>t, <2>10 DEF RequestRecord
  <2>12. UploadsTypeOK'
    BY <1>t, <2>1, <2>6, <2>8, <2>9, <2>10 DEF UploadsTypeOK, Leaves
  <2>13. Frame
    BY <1>t, <2>6 DEF Frame
  <2>14. Exclusive'
    BY <1>t, <2>1, <2>10, <2>11, ExclusiveSteps DEF Leaves, Holds
  <2>15. Sound(r)'
    BY <1>t, <2>11 DEF Sound, Looked, Holds
  <2>16. ASSUME NEW s \in UploadRequests \ {r} PROVE Sound(s)'
    <3>1. Holds(s) => request[s].id # u
      BY <1>t, <2>c, SoleHolder
    <3> QED
      BY <2>6, <2>10, <2>13, <3>1, OthersSound
  <2>17. SweepSound' /\ Published'
    BY <1>t, <2>13, SweepStaysSound DEF Published
  <2> QED
    BY <2>12, <2>14, <2>15, <2>16, <2>17 DEF UploadInv
<1> QED
  BY <1>1, <1>2

\* A file goes only by the hand of whoever holds the mutex.
LEMMA RemovesInv ==
  ASSUME UploadInv, NEW r \in UploadRequests, Holds(r), NEW at \in {"forget", "done"},
         Leaves(r, at), uploads' = Without(uploads, request[r].id),
         UNCHANGED <<freshIds, sweep, mutexes, restarts>>,
         Published', DOMAIN blobFiles' \subseteq Digests,
         UNCHANGED uploadLocks \/ ForgetLock(request[r].id)
  PROVE  UploadInv'
<1> DEFINE u == request[r].id
<1>t. /\ UploadsTypeOK /\ Sound(r) /\ request[r] \in RequestRecord /\ u \in UploadIds
      /\ at \in Places
  BY RequestMoves DEF UploadInv, RequestRecord, Places
<1>1. /\ DOMAIN uploads' = DOMAIN uploads \ {u}
      /\ uploads' \in [DOMAIN uploads' -> UploadRecord]
      /\ \A v \in DOMAIN uploads' : uploads'[v] = uploads[v]
  BY <1>t, WithoutKeeps
<1>2. /\ uploadLocks' \in [UploadIds -> 0..MaxMutexes]
      /\ \A v \in UploadIds \ {u} : uploadLocks'[v] = uploadLocks[v]
  BY <1>t, ForgetLockKeeps DEF UploadsTypeOK
<1>3. /\ request' \in [UploadRequests -> RequestRecord]
      /\ request'[r] = [request[r] EXCEPT !.at = at]
      /\ \A s \in UploadRequests \ {r} : request'[s] = request[s]
  BY <1>t, RequestMoves DEF Leaves
<1>4. request'[r].at = at /\ request'[r].id = u
  BY <1>t, <1>3 DEF RequestRecord
<1>5. UploadsTypeOK'
  BY <1>t, <1>1, <1>2, <1>3 DEF UploadsTypeOK, Leaves
<1>6. Frame
  BY <1>t, <1>1, <1>2 DEF Frame, UploadsTypeOK
<1>7. Exclusive'
  BY <1>3, <1>4, ExclusiveSteps DEF Leaves, Holds
<1>8. Sound(r)'
  BY <1>t, <1>1, <1>4 DEF Sound, Looked, Holds
<1>9. ASSUME NEW s \in UploadRequests \ {r} PROVE Sound(s)'
  <2>1. Holds(s) /\ request[s].id \in DOMAIN uploads => request[s].id # u
    BY <1>t, SoleHolder
  <2> QED
    BY <1>1, <1>3, <1>6, <2>1, OthersSound
<1>10. SweepSound'
  BY <1>6, SweepStaysSound
<1> QED
  BY <1>5, <1>7, <1>8, <1>9, <1>10 DEF UploadInv

LEMMA RequestInv ==
  ASSUME UploadInv, NEW r \in UploadRequests, UploadRequestStep(r)
  PROVE  UploadInv'
<1>t. UploadsTypeOK /\ Published /\ Sound(r) /\ request[r] \in RequestRecord
  BY RequestMoves DEF UploadInv
<1>1. CASE HandleBlobUpload(r)
  BY <1>1, HandleInv
<1>2. CASE AppendLooksUp(r) \/ FinishLooksUp(r) \/ CancelLooksUp(r)
  <2>1. CASE AppendLooksUp(r)
    BY <2>1, LookUpInv DEF AppendLooksUp
  <2>2. CASE FinishLooksUp(r)
    BY <2>2, LookUpInv DEF FinishLooksUp
  <2>3. CASE CancelLooksUp(r)
    BY <2>3, LookUpInv DEF CancelLooksUp
  <2> QED
    BY <1>2, <2>1, <2>2, <2>3
<1>3. CASE AppendLocks(r) \/ FinishLocks(r) \/ CancelLocks(r)
  <2>1. CASE AppendLocks(r)
    BY <2>1, TakeLockInv DEF AppendLocks
  <2>2. CASE FinishLocks(r)
    BY <2>2, TakeLockInv DEF FinishLocks
  <2>3. CASE CancelLocks(r)
    BY <2>3, TakeLockInv DEF CancelLocks
  <2> QED
    BY <1>3, <2>1, <2>2, <2>3
<1>4. CASE OpenFails(r)
  BY <1>4, MoveInv DEF OpenFails, Leaves, Holds, Places
<1>5. CASE Open(r)
  BY <1>5, OpenInv
<1>6. CASE CopyByte(r)
  BY <1>6, CopyByteInv
<1>7. CASE CopyFails(r) \/ ChunkTooLarge(r)
  BY <1>7, MoveInv DEF CopyFails, ChunkTooLarge, Leaves, Holds, Places
<1>8. CASE Copied(r)
  BY <1>8, CopiedInv
<1>9. CASE Verify(r)
  <2>1. request[r].digest # <<>> /\ Holds(r)
    BY <1>9, <1>t DEF Verify, Sound, Holds
  <2> QED
    BY <1>9, <2>1, MoveInv DEF Verify, Leaves, Places
<1>10. CASE Rename(r)
  <2>1. /\ request[r].digest \in Digests /\ uploads[request[r].id].bytes = request[r].digest
    BY <1>10, <1>t DEF Rename, Sound, RequestRecord
  <2>2. Published' /\ DOMAIN blobFiles' \subseteq Digests
    BY <1>10, <1>t, <2>1 DEF Rename, Published, UploadsTypeOK
  <2> QED
    BY <1>10, <2>2, RemovesInv DEF Rename, Holds
<1>11. CASE RenameFails(r)
  BY <1>11, MoveInv DEF RenameFails, Leaves, Holds, Places
<1>12. CASE Forget(r)
  <2>1. request[r].id \notin DOMAIN uploads
    BY <1>12, <1>t DEF Forget, Sound
  <2> QED
    BY <1>12, <2>1, MoveInv DEF Forget, Holds, Places
<1>13. CASE CancelBlobUpload(r)
  <2>1. Published' /\ DOMAIN blobFiles' \subseteq Digests
    BY <1>13, <1>t DEF CancelBlobUpload, Published, UploadsTypeOK
  <2> QED
    BY <1>13, <2>1, RemovesInv DEF CancelBlobUpload, Holds
<1> QED
  BY <1>1, <1>2, <1>3, <1>4, <1>5, <1>6, <1>7, <1>8, <1>9, <1>10, <1>11, <1>12, <1>13
     DEF UploadRequestStep

-----------------------------------------------------------------------------
(* Uploads: the clean-up, and what comes from outside                      *)

LEMMA SweepMoves ==
  ASSUME UploadsTypeOK
  PROVE  /\ \A at \in {"judge", "look up", "lock", "remove", "forget"} :
               /\ [sweep EXCEPT !.at = at] \in SweepRecord
               /\ [sweep EXCEPT !.at = at].at = at
               /\ [sweep EXCEPT !.at = at].id = sweep.id
               /\ [sweep EXCEPT !.at = at].todo = sweep.todo
               /\ [sweep EXCEPT !.at = at].mutex = sweep.mutex
         /\ sweep.id \in UploadIds /\ sweep.mutex \in 0..MaxMutexes
BY DEF UploadsTypeOK, SweepRecord

LEMMA SweepInv ==
  ASSUME UploadInv, SweepStep
  PROVE  UploadInv'
<1>t. /\ UploadsTypeOK /\ Published /\ SweepSound /\ Exclusive
      /\ sweep.id \in UploadIds /\ sweep.mutex \in 0..MaxMutexes
  BY SweepMoves DEF UploadInv
<1>o. Frame /\ UNCHANGED <<request, uploads>> => \A s \in UploadRequests : Sound(s)'
  BY OthersSound
<1>1. CASE SweepStarts
  <2>1. /\ UNCHANGED <<freshIds, uploads, blobFiles, uploadLocks, locked, request, mutexes,
                       restarts>>
        /\ DOMAIN uploads \subseteq UploadIds \ freshIds
    BY <1>1, <1>t DEF SweepStarts, UploadsTypeOK
  <2>2. /\ sweep' \in SweepRecord /\ sweep'.at = "judge" /\ sweep'.todo = DOMAIN uploads
    BY <1>1, <1>t, <2>1 DEF SweepStarts, UploadsTypeOK, SweepRecord
  <2>3. UploadsTypeOK' /\ Published' /\ Frame
    BY <1>t, <2>1, <2>2 DEF UploadsTypeOK, Published, Frame
  <2>4. Exclusive' /\ SweepSound'
    BY <1>t, <2>1, <2>2 DEF Exclusive, Holds, SweepSound
  <2> QED
    BY <1>o, <2>1, <2>3, <2>4 DEF UploadInv
<1>2. CASE SweepJudges
  <2>1. UNCHANGED <<freshIds, uploads, blobFiles, uploadLocks, locked, request, mutexes,
                    restarts>>
    BY <1>2 DEF SweepJudges
  <2>2. CASE sweep' = NoSweep
    <3>1. sweep' \in SweepRecord /\ sweep'.at = "idle" /\ sweep'.todo = {}
      BY <2>2, NoRequestTypes DEF NoSweep
    <3>2. UploadsTypeOK' /\ Published' /\ Frame
      BY <1>t, <2>1, <3>1 DEF UploadsTypeOK, Published, Frame
    <3>3. Exclusive' /\ SweepSound'
      BY <1>t, <2>1, <3>1 DEF Exclusive, Holds, SweepSound
    <3> QED
      BY <1>o, <2>1, <3>2, <3>3 DEF UploadInv
  <2>3. ASSUME NEW u \in sweep.todo,
               sweep' = [sweep EXCEPT !.todo = @ \ {u}, !.id = u,
                            !.at = IF u \in DOMAIN uploads /\ ~uploads[u].young
                                   THEN "look up" ELSE "judge"]
        PROVE  UploadInv'
    <3>1. u \in UploadIds /\ u \notin freshIds
      BY <1>t DEF UploadsTypeOK, SweepRecord, SweepSound
    <3>2. /\ sweep' \in SweepRecord /\ sweep'.at \in {"judge", "look up"}
          /\ sweep'.todo = sweep.todo \ {u} /\ sweep'.id = u
      BY <1>t, <2>3, <3>1 DEF UploadsTypeOK, SweepRecord
    <3>3. UploadsTypeOK' /\ Published' /\ Frame
      BY <1>t, <2>1, <3>2 DEF UploadsTypeOK, Published, Frame
    <3>4. Exclusive' /\ SweepSound'
      BY <1>t, <2>1, <3>1, <3>2 DEF Exclusive, Holds, SweepSound
    <3> QED
      BY <1>o, <2>1, <3>3, <3>4 DEF UploadInv
  <2> QED
    BY <1>2, <2>2, <2>3 DEF SweepJudges
<1>3. CASE SweepLooksUp
  <2>1. UNCHANGED <<freshIds, uploads, blobFiles, locked, request, restarts>>
    BY <1>3 DEF SweepLooksUp
  <2>2. PICK m \in 1..MaxMutexes :
           GetsLock(sweep.id, m) /\ sweep' = [sweep EXCEPT !.at = "lock", !.mutex = m]
    BY <1>3 DEF SweepLooksUp
  <2>3. /\ uploadLocks' \in [UploadIds -> 0..MaxMutexes] /\ mutexes' \in 0..MaxMutexes
        /\ uploadLocks'[sweep.id] = m /\ m # 0
        /\ \A v \in UploadIds : uploadLocks[v] # 0 => uploadLocks'[v] = uploadLocks[v]
    BY <1>t, <2>2, GetsLockKeeps
  <2>m. m \in 0..MaxMutexes
    BY MutexNumbers
  <2>4. /\ sweep' \in SweepRecord /\ sweep'.at = "lock" /\ sweep'.mutex = m
        /\ sweep'.id = sweep.id /\ sweep'.todo = sweep.todo
    BY <1>t, <2>2, <2>m DEF UploadsTypeOK, SweepRecord
  <2>5. UploadsTypeOK' /\ Published' /\ Frame
    BY <1>t, <2>1, <2>3, <2>4 DEF UploadsTypeOK, Published, Frame
  <2>6. sweep.id \notin freshIds
    BY <1>3, <1>t DEF SweepLooksUp, SweepSound
  <2>7. Exclusive' /\ SweepSound'
    BY <1>t, <2>1, <2>3, <2>4, <2>6 DEF Exclusive, Holds, SweepSound
  <2> QED
    BY <1>o, <2>1, <2>5, <2>7 DEF UploadInv
<1>4. CASE SweepLocks
  <2>1. /\ UNCHANGED <<freshIds, uploads, blobFiles, uploadLocks, request, mutexes, restarts>>
        /\ sweep.at = "lock" /\ sweep.mutex \notin locked
        /\ locked' = locked \cup {sweep.mutex} /\ sweep' = [sweep EXCEPT !.at = "remove"]
    BY <1>4 DEF SweepLocks
  <2>2. /\ sweep' \in SweepRecord /\ sweep'.at = "remove" /\ sweep'.mutex = sweep.mutex
        /\ sweep'.id = sweep.id /\ sweep'.todo = sweep.todo
    BY <1>t, <2>1, SweepMoves
  <2>3. sweep.mutex \in 1..MaxMutexes
    BY <1>t, <2>1, MutexNumbers DEF SweepSound
  <2>4. UploadsTypeOK' /\ Published' /\ Frame
    BY <1>t, <2>1, <2>2, <2>3 DEF UploadsTypeOK, Published, Frame
  <2>5. Exclusive' /\ SweepSound'
    BY <1>t, <2>1, <2>2 DEF Exclusive, Holds, SweepSound
  <2> QED
    BY <1>o, <2>1, <2>4, <2>5 DEF UploadInv
<1>5. CASE SweepRemoves
  <2> DEFINE u  == sweep.id
             at == IF u \in DOMAIN uploads THEN "forget" ELSE "judge"
  <2>1. /\ UNCHANGED <<freshIds, blobFiles, uploadLocks, request, mutexes, restarts>>
        /\ sweep.at = "remove" /\ uploads' = Without(uploads, u)
        /\ locked' = locked \ {sweep.mutex} /\ sweep' = [sweep EXCEPT !.at = at]
    BY <1>5 DEF SweepRemoves
  <2>2. /\ sweep' \in SweepRecord /\ sweep'.at \in {"forget", "judge"}
        /\ sweep'.id = u /\ sweep'.todo = sweep.todo
    BY <1>t, <2>1, SweepMoves
  <2>3. /\ DOMAIN uploads' = DOMAIN uploads \ {u}
        /\ uploads' \in [DOMAIN uploads' -> UploadRecord]
        /\ \A v \in DOMAIN uploads' : uploads'[v] = uploads[v]
    BY <1>t, <2>1, WithoutKeeps
  <2>4. UploadsTypeOK'
    BY <1>t, <2>1, <2>2, <2>3 DEF UploadsTypeOK
  <2>5. Published' /\ Frame
    BY <1>t, <2>1, <2>3 DEF Published, Frame
  <2>6. Exclusive' /\ SweepSound'
    BY <1>t, <2>1, <2>2, <2>3 DEF Exclusive, Holds, SweepSound
  <2>7. ASSUME NEW s \in UploadRequests PROVE Sound(s)'
    <3>1. Holds(s) /\ request[s].id \in DOMAIN uploads => request[s].id # u
      BY <2>1, SoleSweep
    <3> QED
      BY <2>1, <2>3, <2>5, <3>1, OthersSound
  <2> QED
    BY <2>4, <2>5, <2>6, <2>7 DEF UploadInv
<1>6. CASE SweepForgets
  <2>1. /\ UNCHANGED <<freshIds, uploads, blobFiles, locked, request, mutexes, restarts>>
        /\ ForgetLock(sweep.id) /\ sweep' = [sweep EXCEPT !.at = "judge"]
        /\ sweep.id \notin DOMAIN uploads
    BY <1>6, <1>t DEF SweepForgets, SweepSound
  <2>2. /\ sweep' \in SweepRecord /\ sweep'.at = "judge" /\ sweep'.todo = sweep.todo
    BY <1>t, <2>1, SweepMoves
  <2>3. /\ uploadLocks' \in [UploadIds -> 0..MaxMutexes]
        /\ \A v \in UploadIds \ {sweep.id} : uploadLocks'[v] = uploadLocks[v]
    BY <1>t, <2>1, ForgetLockKeeps
  <2>4. UploadsTypeOK' /\ Published' /\ Frame
    BY <1>t, <2>1, <2>2, <2>3 DEF UploadsTypeOK, Published, Frame
  <2>5. Exclusive' /\ SweepSound'
    BY <1>t, <2>1, <2>2 DEF Exclusive, Holds, SweepSound
  <2> QED
    BY <1>o, <2>1, <2>4, <2>5 DEF UploadInv
<1> QED
  BY <1>1, <1>2, <1>3, <1>4, <1>5, <1>6 DEF SweepStep

LEMMA StartInv ==
  ASSUME UploadInv, NEW u \in UploadIds, StartBlobUpload(u)
  PROVE  UploadInv'
<1>t. /\ UploadsTypeOK /\ Published /\ Exclusive
      /\ UNCHANGED <<blobFiles, uploadLocks, locked, request, sweep, mutexes, restarts>>
      /\ u \in freshIds /\ freshIds' = freshIds \ {u} /\ u \notin DOMAIN uploads
  BY DEF UploadInv, StartBlobUpload, UploadsTypeOK
<1> DEFINE new == [bytes |-> <<>>, young |-> TRUE]
<1>1. /\ DOMAIN uploads' = DOMAIN uploads \cup {u}
      /\ uploads' = [v \in DOMAIN uploads \cup {u} |-> IF v = u THEN new ELSE uploads[v]]
      /\ uploads'[u] = new
      /\ \A v \in DOMAIN uploads : uploads'[v] = uploads[v]
  BY <1>t DEF StartBlobUpload
<1>2. new \in UploadRecord /\ Len(new.bytes) = 0
  BY DEF UploadRecord
<1>3. 0 <= MaxBlobSize + 1
  BY UploadsAssumption
<1>4. uploads' \in [DOMAIN uploads' -> UploadRecord]
  BY <1>t, <1>1, <1>2 DEF UploadsTypeOK
<1>5. \A v \in DOMAIN uploads' : Len(uploads'[v].bytes) <= MaxBlobSize + 1
  BY <1>t, <1>1, <1>2, <1>3 DEF UploadsTypeOK
<1>6. UploadsTypeOK'
  BY <1>t, <1>1, <1>4, <1>5 DEF UploadsTypeOK
<1>7. Frame
  BY <1>t, <1>1 DEF Frame
<1>8. \A s \in UploadRequests : Sound(s)'
  BY <1>t, <1>1, <1>7, OthersSound
<1>9. SweepSound' /\ Published' /\ Exclusive'
  BY <1>t, <1>7, SweepStaysSound DEF Published, Exclusive, Holds
<1> QED
  BY <1>6, <1>8, <1>9 DEF UploadInv

LEMMA AgesInv ==
  ASSUME UploadInv, NEW u \in UploadIds, Ages(u)
  PROVE  UploadInv'
<1>t. /\ UploadsTypeOK /\ Published /\ Exclusive
      /\ UNCHANGED <<freshIds, blobFiles, uploadLocks, locked, request, sweep, mutexes, restarts>>
      /\ u \in DOMAIN uploads /\ uploads' = [uploads EXCEPT ![u].young = FALSE]
  BY DEF UploadInv, Ages
<1>1. /\ DOMAIN uploads' = DOMAIN uploads
      /\ uploads'[u] = [uploads[u] EXCEPT !.young = FALSE]
      /\ \A v \in DOMAIN uploads \ {u} : uploads'[v] = uploads[v]
  BY <1>t DEF UploadsTypeOK
<1>r. uploads[u] \in UploadRecord
  BY <1>t DEF UploadsTypeOK
<1>2. uploads'[u] \in UploadRecord /\ uploads'[u].bytes = uploads[u].bytes
  BY <1>1, <1>r DEF UploadRecord
<1>3. uploads' \in [DOMAIN uploads' -> UploadRecord]
  BY <1>t, <1>1, <1>2 DEF UploadsTypeOK
<1>4. \A v \in DOMAIN uploads : uploads'[v].bytes = uploads[v].bytes
  BY <1>1, <1>2
<1>5. UploadsTypeOK'
  BY <1>t, <1>1, <1>3, <1>4 DEF UploadsTypeOK
<1>6. Frame
  BY <1>t, <1>1 DEF Frame
<1>7. \A s \in UploadRequests : Sound(s)'
  BY <1>t, <1>1, <1>4, <1>6, OthersSound
<1>8. SweepSound' /\ Published' /\ Exclusive'
  BY <1>t, <1>6, SweepStaysSound DEF Published, Exclusive, Holds
<1> QED
  BY <1>5, <1>7, <1>8 DEF UploadInv

LEMMA RestartInv ==
  ASSUME UploadInv, RegistryRestarts
  PROVE  UploadInv'
<1>t. UploadsTypeOK /\ Published /\ NoRequest.at = "done" /\ \A r \in UploadRequests : Sound(r)
  BY DEF UploadInv, NoRequest
<1>1. \A r \in UploadRequests :
         request'[r] \in RequestRecord /\ request'[r].at \in {"new", "done"}
  BY <1>t, NoRequestTypes DEF RegistryRestarts, UploadsTypeOK
<1>2. request' \in [UploadRequests -> RequestRecord]
  BY <1>1, <1>t DEF RegistryRestarts
<1>3. sweep' \in SweepRecord /\ sweep'.at = "idle" /\ sweep'.todo = {}
  BY NoRequestTypes DEF RegistryRestarts, NoSweep
<1>4. restarts' \in 0..MaxRestarts
  BY <1>t, UploadsAssumption DEF RegistryRestarts, UploadsTypeOK
<1>5. uploadLocks' \in [UploadIds -> 0..MaxMutexes]
  BY UploadsAssumption DEF RegistryRestarts
<1>6. UploadsTypeOK'
  BY <1>t, <1>2, <1>3, <1>4, <1>5 DEF RegistryRestarts, UploadsTypeOK
<1>7. Exclusive' /\ SweepSound' /\ Published'
  BY <1>t, <1>1, <1>3 DEF RegistryRestarts, Exclusive, Holds, SweepSound, Published
<1>8. \A r \in UploadRequests : Sound(r)'
  BY <1>1 DEF Sound, Looked, Holds
<1> QED
  BY <1>6, <1>7, <1>8 DEF UploadInv

LEMMA UploadInitInv ==
  ASSUME UploadsInit
  PROVE  UploadInv
<1>1. [NoRequest EXCEPT !.at = "new"] \in RequestRecord
      /\ [NoRequest EXCEPT !.at = "new"].at = "new"
  BY NoRequestTypes DEF RequestRecord, Places
<1>2. request \in [UploadRequests -> RequestRecord]
      /\ \A r \in UploadRequests : request[r].at = "new"
  BY <1>1 DEF UploadsInit
<1>3. sweep \in SweepRecord /\ sweep.at = "idle" /\ sweep.todo = {}
  BY NoRequestTypes DEF UploadsInit, NoSweep
<1>4. DOMAIN uploads = {} /\ uploads \in [DOMAIN uploads -> UploadRecord]
      /\ DOMAIN blobFiles = {}
  BY DEF UploadsInit
<1>5. mutexes \in 0..MaxMutexes /\ restarts \in 0..MaxRestarts
      /\ uploadLocks \in [UploadIds -> 0..MaxMutexes]
  BY UploadsAssumption DEF UploadsInit
<1>6. UploadsTypeOK
  BY <1>2, <1>3, <1>4, <1>5 DEF UploadsInit, UploadsTypeOK
<1>7. Exclusive /\ SweepSound /\ Published
  BY <1>2, <1>3, <1>4 DEF Exclusive, Holds, SweepSound, Published
<1>8. \A r \in UploadRequests : Sound(r)
  BY <1>2 DEF Sound, Looked, Holds
<1> QED
  BY <1>6, <1>7, <1>8 DEF UploadInv

LEMMA UploadInvNext == UploadInv /\ [UploadsNext]_uploadVars => UploadInv'
<1> SUFFICES ASSUME UploadInv, [UploadsNext]_uploadVars PROVE UploadInv'
  OBVIOUS
<1>1. CASE UNCHANGED uploadVars
  <2>1. UploadsTypeOK' /\ Exclusive'
    BY <1>1 DEF uploadVars, UploadInv, UploadsTypeOK, Exclusive, Holds
  <2>2. Published' /\ SweepSound' /\ \A r \in UploadRequests : Sound(r)'
    BY <1>1 DEF uploadVars, UploadInv, Published, SweepSound, Sound, Looked, Holds
  <2> QED
    BY <2>1, <2>2 DEF UploadInv
<1> QED
  BY <1>1, StartInv, AgesInv, RequestInv, SweepInv, RestartInv DEF UploadsNext

\* A published blob holds what its digest stands for, and while a request copies its body
\* nobody else writes, moves or removes the file, for any requests, uploads, bodies and
\* limits and although the mutex of an upload is forgotten while others hold or wait for it
\* (AppendBlobChunk, FinishBlobUpload, CancelBlobUpload, CleanupStaleUploads).
THEOREM BlobsAreIntact == UploadsSpec => []UploadIsIntact
<1>1. UploadsInit => UploadInv
  BY UploadInitInv
<1>2. UploadInv => UploadIsIntact
  BY DEF UploadInv, Published, Sound, UploadIsIntact
<1> QED
  BY <1>1, <1>2, UploadInvNext, PTL DEF UploadsSpec

-----------------------------------------------------------------------------
(* Together                                                                *)

\* Whichever part runs is a behaviour of its own module, and so is what stands still.
LEMMA RegistryParts == RegistrySpec => Spec /\ UploadsSpec /\ PushSpec
<1>1. RegistryInit => Init /\ UploadsInit /\ PushInit
  BY DEF RegistryInit
<1>2. [RegistryNext]_allVars => [Next]_vars /\ [UploadsNext]_uploadVars /\ [PushNext]_pushVars
  BY DEF RegistryNext, allVars
<1> QED
  BY <1>1, <1>2, PTL DEF RegistrySpec, Spec, UploadsSpec, PushSpec

\* The three disciplines of the registry keep their types, for any clients, prunes, tags,
\* blobs, requests, uploads, bodies, attempts, events and timers.
THEOREM RegistryTyping == RegistrySpec => []RegistryTypeOK
<1>1. Safe => TypeOK
  BY DEF Safe
<1>2. UploadsInit => UploadInv
  BY UploadInitInv
<1>3. UploadInv => UploadsTypeOK
  BY DEF UploadInv
<1>4. PushInv => PushTypeOK
  BY DEF PushInv
<1>5. TypeOK /\ UploadsTypeOK /\ PushTypeOK => RegistryTypeOK
  BY DEF RegistryTypeOK
<1>6. Spec => []TypeOK
  BY <1>1, SafeInit, SafeNext, PTL DEF Spec
<1>7. UploadsSpec => []UploadsTypeOK
  BY <1>2, <1>3, UploadInvNext, PTL DEF UploadsSpec
<1>8. PushSpec => []PushTypeOK
  BY <1>4, PushInvariant, PTL
<1> QED
  BY <1>5, <1>6, <1>7, <1>8, RegistryParts, PTL
=============================================================================
