------------------------------- MODULE Uploads -------------------------------
(***************************************************************************)
(* The upload sessions of the registry: adapters/out/filesystem/blob.go    *)
(* behind the PATCH and PUT handler of adapters/in/http/registry.  The     *)
(* requests of one upload meet on a mutex that is kept in a map only while *)
(* the upload lives: it is looked up, locked, unlocked and forgotten in    *)
(* steps of their own.  The clean-up of stale uploads is one more caller.  *)
(*                                                                         *)
(* A file is the sequence of the bytes in it, and a digest the content it  *)
(* stands for.  Paths, ranges and headers are left out.                    *)
(***************************************************************************)
EXTENDS Naturals, Sequences, FiniteSets

CONSTANTS UploadRequests, \* requests in flight, each handled by a goroutine
          UploadIds,      \* uploads, by UUID: none is ever started twice
          Bytes,          \* what a byte may be
          Bodies,         \* what a request may send
          Digests,        \* the digests a PUT may name
          MaxChunkSize,   \* the limit of one request
          MaxBlobSize,    \* the limit of the blob
          MaxMutexes,     \* bound: mutexes ever made
          MaxRestarts     \* bound: restarts of the process

ASSUME UploadsAssumption ==
    /\ UploadIds # {}
    /\ Bodies \subseteq Seq(Bytes)
    /\ MaxChunkSize \in Nat /\ MaxBlobSize \in Nat
    /\ MaxMutexes \in Nat /\ MaxRestarts \in Nat

VARIABLES
    freshIds,   \* the UUIDs that no upload has had yet
    uploads,    \* the files under uploads/: what they hold, and whether they are young
    blobFiles,  \* the files under blobs/, by digest
    uploadLocks,\* the map from an upload to its mutex
    locked,     \* the mutexes that are held
    request,    \* the requests
    sweep,      \* the run of CleanupStaleUploads
    mutexes,    \* how many mutexes have been made
    restarts

uploadVars == <<freshIds, uploads, blobFiles, uploadLocks, locked, request, sweep, mutexes,
                restarts>>

NoRequest == [at |-> "done", id |-> CHOOSE u \in UploadIds : TRUE, body |-> <<>>,
              declared |-> FALSE, digest |-> <<>>, size |-> 0, read |-> 0, mutex |-> 0]
NoSweep   == [at |-> "idle", todo |-> {}, id |-> CHOOSE u \in UploadIds : TRUE, mutex |-> 0]

Least(m, n) == IF m < n THEN m ELSE n

UploadsInit ==
    /\ freshIds = UploadIds
    /\ uploads = <<>>
    /\ blobFiles = <<>>
    /\ uploadLocks = [u \in UploadIds |-> 0]
    /\ locked = {}
    /\ request = [r \in UploadRequests |-> [NoRequest EXCEPT !.at = "new"]]
    /\ sweep = NoSweep
    /\ mutexes = 0
    /\ restarts = 0

Places == {"new", "append", "append lock", "open", "copy", "finish", "finish lock", "verify",
           "rename", "cancel", "cancel lock", "remove", "forget", "done"}

UploadRecord  == [bytes : Seq(Bytes), young : BOOLEAN]
RequestRecord == [at : Places, id : UploadIds, body : Seq(Bytes), declared : BOOLEAN,
                  digest : Digests \cup {<<>>}, size : 0..MaxBlobSize,
                  read : 0..MaxChunkSize, mutex : 0..MaxMutexes]
SweepRecord   == [at : {"idle", "judge", "look up", "lock", "remove", "forget"},
                  todo : SUBSET UploadIds, id : UploadIds, mutex : 0..MaxMutexes]

UploadsTypeOK ==
    /\ freshIds \subseteq UploadIds
    /\ DOMAIN uploads \subseteq UploadIds \ freshIds
    /\ uploads \in [DOMAIN uploads -> UploadRecord]
    /\ \A u \in DOMAIN uploads : Len(uploads[u].bytes) <= MaxBlobSize + 1
    /\ DOMAIN blobFiles \subseteq Digests
    /\ uploadLocks \in [UploadIds -> 0..MaxMutexes]
    /\ locked \subseteq 1..MaxMutexes
    /\ request \in [UploadRequests -> RequestRecord]
    /\ sweep \in SweepRecord
    /\ mutexes \in 0..MaxMutexes
    /\ restarts \in 0..MaxRestarts

-----------------------------------------------------------------------------
(* The map of mutexes                                                      *)

\* getUploadLock: the mutex in the map, or a new one that is put there.
GetsLock(u, m) ==
    IF uploadLocks[u] # 0
    THEN m = uploadLocks[u] /\ UNCHANGED <<uploadLocks, mutexes>>
    ELSE /\ mutexes < MaxMutexes
         /\ m = mutexes + 1
         /\ mutexes' = m
         /\ uploadLocks' = [uploadLocks EXCEPT ![u] = m]

\* cleanupUploadLock: whoever holds or waits for the mutex keeps it.
ForgetLock(u) == uploadLocks' = [uploadLocks EXCEPT ![u] = 0]

MovesOn(r, at) == request' = [request EXCEPT ![r].at = at]

LookUp(r, here, there) ==
    /\ request[r].at = here
    /\ \E m \in 1..MaxMutexes :
          /\ GetsLock(request[r].id, m)
          /\ request' = [request EXCEPT ![r].at = there, ![r].mutex = m]
    /\ UNCHANGED <<freshIds, uploads, blobFiles, locked, sweep, restarts>>

TakeLock(r, here, there) ==
    /\ request[r].at = here
    /\ request[r].mutex \notin locked
    /\ locked' = locked \cup {request[r].mutex}
    /\ MovesOn(r, there)
    /\ UNCHANGED <<freshIds, uploads, blobFiles, uploadLocks, sweep, mutexes, restarts>>

-----------------------------------------------------------------------------
(* A request                                                               *)

\* POST: the upload begins as an empty file.
StartBlobUpload(u) ==
    /\ u \in freshIds
    /\ freshIds' = freshIds \ {u}
    /\ uploads' = [v \in DOMAIN uploads \cup {u} |->
                      IF v = u THEN [bytes |-> <<>>, young |-> TRUE] ELSE uploads[v]]
    /\ UNCHANGED <<blobFiles, uploadLocks, locked, request, sweep, mutexes, restarts>>

\* PATCH, or PUT with a digest; the body may be sent without its length.
HandleBlobUpload(r) ==
    /\ request[r].at = "new"
    /\ \E u \in DOMAIN uploads, body \in Bodies, digest \in Digests \cup {<<>>},
          declared \in BOOLEAN :
          request' = [request EXCEPT ![r] = [NoRequest EXCEPT !.at = "append", !.id = u,
                         !.body = body, !.digest = digest, !.declared = declared]]
    /\ UNCHANGED <<freshIds, uploads, blobFiles, uploadLocks, locked, sweep, mutexes, restarts>>

AppendLooksUp(r) == LookUp(r, "append", "append lock")
AppendLocks(r)   == TakeLock(r, "append lock", "open")

\* The deferred unlock of AppendBlobChunk.
Leaves(r, at) ==
    /\ locked' = locked \ {request[r].mutex}
    /\ MovesOn(r, at)

Remaining(r) == MaxBlobSize - request[r].size

\* The file is gone: the entry of the map goes while the mutex is still held.
OpenFails(r) ==
    /\ request[r].at = "open"
    /\ request[r].id \notin DOMAIN uploads
    /\ ForgetLock(request[r].id)
    /\ Leaves(r, "done")
    /\ UNCHANGED <<freshIds, uploads, blobFiles, sweep, mutexes, restarts>>

Open(r) ==
    /\ request[r].at = "open"
    /\ request[r].id \in DOMAIN uploads
    /\ LET size == Len(uploads[request[r].id].bytes)
           announced == IF request[r].declared THEN Len(request[r].body) ELSE 0
       IN  IF size + announced > MaxBlobSize
           THEN /\ Leaves(r, "cancel")   \* ErrBlobSizeExceeded
           ELSE /\ request' = [request EXCEPT ![r].at = "copy", ![r].size = size]
                /\ UNCHANGED locked
    /\ UNCHANGED <<freshIds, uploads, blobFiles, uploadLocks, sweep, mutexes, restarts>>

\* One more byte of the body, as long as no limit is reached.
CopyByte(r) ==
    /\ request[r].at = "copy"
    /\ request[r].read < Len(request[r].body)
    /\ request[r].read < Least(MaxChunkSize, Remaining(r) + 1)
    /\ request' = [request EXCEPT ![r].read = @ + 1]
    /\ uploads' = [u \in DOMAIN uploads |->
                      IF u # request[r].id THEN uploads[u]
                      ELSE [bytes |-> Append(uploads[u].bytes,
                                             request[r].body[request[r].read + 1]),
                            young |-> TRUE]]
    /\ UNCHANGED <<freshIds, blobFiles, uploadLocks, locked, sweep, mutexes, restarts>>

\* The client goes away in the middle of the body, whose beginning stays in the file.
CopyFails(r) ==
    /\ request[r].at = "copy"
    /\ request[r].read < Len(request[r].body)
    /\ Leaves(r, "done")
    /\ UNCHANGED <<freshIds, uploads, blobFiles, uploadLocks, sweep, mutexes, restarts>>

\* MaxBytesReader ends the body before the blob's own limit does.
ChunkTooLarge(r) ==
    /\ request[r].at = "copy"
    /\ request[r].read = MaxChunkSize
    /\ request[r].read < Len(request[r].body)
    /\ MaxChunkSize < Remaining(r) + 1
    /\ Leaves(r, "cancel")
    /\ UNCHANGED <<freshIds, uploads, blobFiles, uploadLocks, sweep, mutexes, restarts>>

\* The body is in the file; one that overshoots the limit is cut off again.
Copied(r) ==
    /\ request[r].at = "copy"
    /\ request[r].read = Least(Len(request[r].body), Remaining(r) + 1)
    /\ IF request[r].read > Remaining(r)
       THEN /\ uploads' = [uploads EXCEPT ![request[r].id].bytes =
                              SubSeq(@, 1, request[r].size)]
            /\ Leaves(r, "cancel")
       ELSE /\ UNCHANGED uploads
            /\ Leaves(r, IF request[r].digest = <<>> THEN "done" ELSE "finish")
    /\ UNCHANGED <<freshIds, blobFiles, uploadLocks, sweep, mutexes, restarts>>

FinishLooksUp(r) == LookUp(r, "finish", "finish lock")
FinishLocks(r)   == TakeLock(r, "finish lock", "verify")

\* Mutated: the lock is given up before the rename.
VerifyUnlocked(r) ==
    /\ request[r].at = "verify"
    /\ locked' = locked \ {request[r].mutex}
    /\ MovesOn(r, IF /\ request[r].id \in DOMAIN uploads
                  /\ uploads[request[r].id].bytes = request[r].digest
               THEN "rename" ELSE "cancel")
    /\ UNCHANGED <<freshIds, uploads, blobFiles, uploadLocks, sweep, mutexes, restarts>>

\* verifyUploadDigest reads the file as it is; a mismatch or a missing file is an error.
Verify(r) ==
    /\ request[r].at = "verify"
    /\ IF /\ request[r].id \in DOMAIN uploads
          /\ uploads[request[r].id].bytes = request[r].digest
       THEN MovesOn(r, "rename") /\ UNCHANGED locked
       ELSE Leaves(r, "cancel")
    /\ UNCHANGED <<freshIds, uploads, blobFiles, uploadLocks, sweep, mutexes, restarts>>

Without(f, u) == [v \in DOMAIN f \ {u} |-> f[v]]

Rename(r) ==
    /\ request[r].at = "rename"
    /\ request[r].id \in DOMAIN uploads
    /\ blobFiles' = [d \in DOMAIN blobFiles \cup {request[r].digest} |->
                        IF d # request[r].digest THEN blobFiles[d]
                        ELSE uploads[request[r].id].bytes]
    /\ uploads' = Without(uploads, request[r].id)
    /\ Leaves(r, "forget")
    /\ UNCHANGED <<freshIds, uploadLocks, sweep, mutexes, restarts>>

\* The directory cannot be made, or the file not moved.
RenameFails(r) ==
    /\ request[r].at = "rename"
    /\ Leaves(r, "cancel")
    /\ UNCHANGED <<freshIds, uploads, blobFiles, uploadLocks, sweep, mutexes, restarts>>

\* The entry is deleted after the unlock: another request may hold the mutex by now.
Forget(r) ==
    /\ request[r].at = "forget"
    /\ ForgetLock(request[r].id)
    /\ MovesOn(r, "done")
    /\ UNCHANGED <<freshIds, uploads, blobFiles, locked, sweep, mutexes, restarts>>

CancelLooksUp(r) == LookUp(r, "cancel", "cancel lock")
CancelLocks(r)   == TakeLock(r, "cancel lock", "remove")

CancelBlobUpload(r) ==
    /\ request[r].at = "remove"
    /\ uploads' = Without(uploads, request[r].id)
    /\ IF request[r].id \in DOMAIN uploads
       THEN Leaves(r, "forget") /\ UNCHANGED uploadLocks
       ELSE Leaves(r, "done") /\ ForgetLock(request[r].id)
    /\ UNCHANGED <<freshIds, blobFiles, sweep, mutexes, restarts>>

-----------------------------------------------------------------------------
(* CleanupStaleUploads, and the passing of a day                           *)

Ages(u) ==
    /\ u \in DOMAIN uploads
    /\ uploads[u].young
    /\ \A r \in UploadRequests :
          ~(request[r].id = u /\ request[r].at = "copy")
    /\ uploads' = [uploads EXCEPT ![u].young = FALSE]
    /\ UNCHANGED <<freshIds, blobFiles, uploadLocks, locked, request, sweep, mutexes, restarts>>

SweepStarts ==
    /\ sweep.at = "idle"
    /\ DOMAIN uploads # {}
    /\ sweep' = [sweep EXCEPT !.at = "judge", !.todo = DOMAIN uploads]
    /\ UNCHANGED <<freshIds, uploads, blobFiles, uploadLocks, locked, request, mutexes, restarts>>

\* The age is judged before the lock is looked up.
SweepJudges ==
    /\ sweep.at = "judge"
    /\ IF sweep.todo = {}
       THEN sweep' = NoSweep
       ELSE \E u \in sweep.todo :
               sweep' = [sweep EXCEPT !.todo = @ \ {u}, !.id = u,
                            !.at = IF u \in DOMAIN uploads /\ ~uploads[u].young
                                   THEN "look up" ELSE "judge"]
    /\ UNCHANGED <<freshIds, uploads, blobFiles, uploadLocks, locked, request, mutexes, restarts>>

SweepLooksUp ==
    /\ sweep.at = "look up"
    /\ \E m \in 1..MaxMutexes :
          GetsLock(sweep.id, m) /\ sweep' = [sweep EXCEPT !.at = "lock", !.mutex = m]
    /\ UNCHANGED <<freshIds, uploads, blobFiles, locked, request, restarts>>

SweepLocks ==
    /\ sweep.at = "lock"
    /\ sweep.mutex \notin locked
    /\ locked' = locked \cup {sweep.mutex}
    /\ sweep' = [sweep EXCEPT !.at = "remove"]
    /\ UNCHANGED <<freshIds, uploads, blobFiles, uploadLocks, request, mutexes, restarts>>

\* A file that is gone already is an error, and its new entry in the map stays.
SweepRemoves ==
    /\ sweep.at = "remove"
    /\ uploads' = Without(uploads, sweep.id)
    /\ locked' = locked \ {sweep.mutex}
    /\ sweep' = [sweep EXCEPT !.at = IF sweep.id \in DOMAIN uploads
                                     THEN "forget" ELSE "judge"]
    /\ UNCHANGED <<freshIds, blobFiles, uploadLocks, request, mutexes, restarts>>

SweepForgets ==
    /\ sweep.at = "forget"
    /\ ForgetLock(sweep.id)
    /\ sweep' = [sweep EXCEPT !.at = "judge"]
    /\ UNCHANGED <<freshIds, uploads, blobFiles, locked, request, mutexes, restarts>>

\* The map and the mutexes are memory; the files stay.
RegistryRestarts ==
    /\ restarts < MaxRestarts
    /\ restarts' = restarts + 1
    /\ uploadLocks' = [u \in UploadIds |-> 0]
    /\ locked' = {}
    /\ request' = [r \in UploadRequests |->
                      IF request[r].at = "new" THEN request[r] ELSE NoRequest]
    /\ sweep' = NoSweep
    /\ UNCHANGED <<freshIds, uploads, blobFiles, mutexes>>

UploadRequestStep(r) ==
    \/ HandleBlobUpload(r)
    \/ AppendLooksUp(r) \/ AppendLocks(r) \/ OpenFails(r) \/ Open(r)
    \/ CopyByte(r) \/ CopyFails(r) \/ ChunkTooLarge(r) \/ Copied(r)
    \/ FinishLooksUp(r) \/ FinishLocks(r) \/ Verify(r)
    \/ Rename(r) \/ RenameFails(r) \/ Forget(r)
    \/ CancelLooksUp(r) \/ CancelLocks(r) \/ CancelBlobUpload(r)

SweepStep ==
    \/ SweepStarts \/ SweepJudges \/ SweepLooksUp \/ SweepLocks
    \/ SweepRemoves \/ SweepForgets

UploadsNext ==
    \/ \E u \in UploadIds : StartBlobUpload(u) \/ Ages(u)
    \/ \E r \in UploadRequests : UploadRequestStep(r)
    \/ SweepStep
    \/ RegistryRestarts

UploadsSpec == UploadsInit /\ [][UploadsNext]_uploadVars

-----------------------------------------------------------------------------
(* Correctness                                                             *)

\* A published blob holds what its digest stands for, and while a request copies its body,
\* the upload's file stays where it is and no one else writes to it: although the entry of
\* a mutex is forgotten while others hold or wait for it, so that an append, a finish, a
\* cancel and the clean-up of one upload may hold different mutexes.
UploadIsIntact ==
    /\ \A d \in DOMAIN blobFiles : blobFiles[d] = d
    /\ \A r \in UploadRequests : request[r].at = "copy" =>
          /\ request[r].id \in DOMAIN uploads
          /\ Len(uploads[request[r].id].bytes) = request[r].size + request[r].read
=============================================================================
