------------------------------ MODULE Registry ------------------------------
(***************************************************************************)
(* The image registry and its garbage collection: clients push images      *)
(* (usecase/registry/service.go over adapters/out/filesystem), the         *)
(* scheduler and the admin API prune them (usecase/images/service.go), and *)
(* both share the mutex and the pending blobs of usecase/registrystate.    *)
(*                                                                         *)
(* Repositories have files of their own, so one is modelled.  A blob is    *)
(* its digest; the chunks of an upload are left out, its last one moves    *)
(* the blob into place.  A manifest is the set of blobs it refers to; only *)
(* tags are pushed, so child manifests are left out.  tags.json is read    *)
(* and written in steps of its own, and the write truncates it first.      *)
(***************************************************************************)
EXTENDS Naturals, FiniteSets

CONSTANTS Pushers,     \* clients that push, one image at a time
          Pruners,     \* calls of PruneRegistry: the schedule, the admin API
          Tags,        \* the tags of the repository
          Latest,      \* the tag "latest"
          Blobs,       \* digests
          Contents,    \* the images: which blobs a manifest may refer to
          Uploads,     \* how blobs come in: "FinishUpload" as the HTTP handler does,
                       \* "PutBlob" as the service also offers
          KeepLast,    \* images.prune.keep_last
          Faults,      \* what may go wrong: "io" "expire" "save" "die"
          MaxPushes,   \* bound: manifests ever written
          MaxAccidents \* bound: failed writes of tags.json, deaths of the process

ASSUME RegistryAssumption ==
    /\ Contents \subseteq SUBSET Blobs
    /\ IsFiniteSet(Tags) /\ Latest \in Tags
    /\ KeepLast \in Nat
    /\ MaxPushes \in Nat /\ MaxAccidents \in Nat
    /\ Pushers \cap Pruners = {}

VARIABLES
    blobs,      \* the files under blobs/
    manifests,  \* the files under manifests/, with the order they were written in
    tagsFile,   \* tags.json: its tags, and whether it can be parsed
    pending,    \* registrystate's uploaded blobs that no manifest owns yet
    mutex,      \* MutationMu: who reads, who writes, which writers wait
    push,       \* the push of every client
    prune,      \* the calls of PruneRegistry
    clock,      \* how many manifests have been written
    accidents   \* how often a write of tags.json failed or the process died

vars == <<blobs, manifests, tagsFile, pending, mutex, push, prune, clock, accidents>>

NoManifest == [refs |-> {}, stamp |-> 0]
NoPush     == [at |-> "idle", tag |-> Latest, refs |-> {}, check |-> {}, upload |-> {},
               uploaded |-> {}, list |-> {}]
NoPrune    == [at |-> "idle", drop |-> {}, tag |-> Latest, kept |-> {}, garbage |-> {}]
Unheld     == [readers |-> {}, writer |-> {}, waiting |-> {}]

Stored(t) == manifests[t].stamp > 0
Listed    == IF tagsFile.readable THEN tagsFile.tags ELSE {}

Accident ==
    /\ accidents < MaxAccidents
    /\ accidents' = accidents + 1

TypeOK ==
    /\ blobs \subseteq Blobs
    /\ manifests \in [Tags -> [refs : SUBSET Blobs, stamp : Nat]]
    /\ tagsFile \in [readable : BOOLEAN, tags : SUBSET Tags]
    /\ pending \subseteq Blobs
    /\ mutex \in [readers : SUBSET Pushers, writer : SUBSET Pruners,
                  waiting : SUBSET Pruners]
    /\ mutex.readers = {} \/ mutex.writer = {}
    /\ push \in [Pushers ->
          [at : {"idle", "check", "lock", "write", "list", "save", "fill", "publish"},
           tag : Tags, refs : SUBSET Blobs, check : SUBSET Blobs, upload : SUBSET Blobs,
           uploaded : SUBSET Blobs, list : SUBSET Tags]]
    /\ prune \in [Pruners ->
          [at : {"idle", "lock", "load", "drop", "untag", "fill", "sweep"},
           drop : SUBSET Tags, tag : Tags, kept : SUBSET Tags, garbage : SUBSET Blobs]]
    /\ clock \in Nat
    /\ accidents \in 0..MaxAccidents

Init ==
    /\ blobs = {}
    /\ manifests = [t \in Tags |-> NoManifest]
    /\ tagsFile = [readable |-> TRUE, tags |-> {}]
    /\ pending = {}
    /\ mutex = Unheld
    /\ push = [p \in Pushers |-> NoPush]
    /\ prune = [q \in Pruners |-> NoPrune]
    /\ clock = 0
    /\ accidents = 0

-----------------------------------------------------------------------------
(* A push: the client asks for every blob, uploads what is missing, and    *)
(* puts the manifest                                                       *)

StartPush(p) ==
    /\ push[p].at = "idle"
    /\ clock + Cardinality({c \in Pushers : push[c].at # "idle"}) < MaxPushes
    /\ \E tag \in Tags, refs \in Contents :
          push' = [push EXCEPT ![p] = [NoPush EXCEPT !.at = "check", !.tag = tag,
                                                     !.refs = refs, !.check = refs]]
    /\ UNCHANGED <<blobs, manifests, tagsFile, pending, mutex, prune, clock, accidents>>

\* A blob is found when a manifest of a listed tag refers to it and its file exists; a
\* listed tag without a manifest is an error, which the handler answers with a 404.
Found(b) ==
    /\ \A t \in Listed : Stored(t)
    /\ \E t \in Listed : b \in manifests[t].refs
    /\ b \in blobs

CheckBlob(p) ==
    /\ push[p].at = "check"
    /\ \E b \in push[p].check :
          push' = [push EXCEPT ![p].check = @ \ {b},
                               ![p].upload = IF Found(b) THEN @ ELSE @ \cup {b}]
    /\ UNCHANGED <<blobs, manifests, tagsFile, pending, mutex, prune, clock, accidents>>

Uploaded(p, b) ==
    /\ blobs' = blobs \cup {b}
    /\ push' = [push EXCEPT ![p].upload = @ \ {b}, ![p].uploaded = @ \cup {b}]
    /\ UNCHANGED <<manifests, tagsFile, mutex, prune, clock, accidents>>

\* The last chunk of an upload: neither the mutex nor the pending blobs are involved.
FinishUpload(p) ==
    /\ "FinishUpload" \in Uploads
    /\ push[p].at = "check"
    /\ \E b \in push[p].upload : Uploaded(p, b)
    /\ UNCHANGED pending

\* The whole blob at once, under the mutex.
PutBlob(p) ==
    /\ "PutBlob" \in Uploads
    /\ push[p].at = "check"
    /\ mutex.writer = {} /\ mutex.waiting = {}
    /\ \E b \in push[p].upload : Uploaded(p, b) /\ pending' = pending \cup {b}

PutManifest(p) ==
    /\ push[p].at = "check"
    /\ push[p].check = {} /\ push[p].upload = {}
    /\ push' = [push EXCEPT ![p].at = "lock"]
    /\ UNCHANGED <<blobs, manifests, tagsFile, pending, mutex, prune, clock, accidents>>

RLockNever(p) ==      \* the mistake: PutManifest takes no lock
    /\ push[p].at = "lock"
    /\ push' = [push EXCEPT ![p].at = "write"]
    /\ UNCHANGED <<blobs, manifests, tagsFile, pending, mutex, prune, clock, accidents>>

\* A reader is let in unless a writer holds the mutex or waits for it.
RLock(p) ==
    /\ push[p].at = "lock"
    /\ mutex.writer = {} /\ mutex.waiting = {}
    /\ mutex' = [mutex EXCEPT !.readers = @ \cup {p}]
    /\ push' = [push EXCEPT ![p].at = "write"]
    /\ UNCHANGED <<blobs, manifests, tagsFile, pending, prune, clock, accidents>>

WriteManifest(p) ==
    /\ push[p].at = "write"
    /\ clock' = clock + 1
    /\ manifests' = [manifests EXCEPT ![push[p].tag] =
                        [refs |-> push[p].refs, stamp |-> clock']]
    /\ push' = [push EXCEPT ![p].at = "list"]
    /\ UNCHANGED <<blobs, tagsFile, pending, mutex, prune, accidents>>

\* updateTagsList: a list that cannot be parsed is logged, and the tag is not added.
ReadTags(p) ==
    /\ push[p].at = "list"
    /\ push' = [push EXCEPT ![p].list = Listed,
                            ![p].at = IF tagsFile.readable /\ push[p].tag \notin tagsFile.tags
                                      THEN "save" ELSE "publish"]
    /\ UNCHANGED <<blobs, manifests, tagsFile, pending, mutex, prune, clock, accidents>>

TruncateTags(p) ==
    /\ push[p].at = "save"
    /\ tagsFile' = [tagsFile EXCEPT !.readable = FALSE]
    /\ push' = [push EXCEPT ![p].at = "fill"]
    /\ UNCHANGED <<blobs, manifests, pending, mutex, prune, clock, accidents>>

SaveTags(p) ==
    /\ push[p].at = "fill"
    /\ tagsFile' = [readable |-> TRUE, tags |-> push[p].list \cup {push[p].tag}]
    /\ push' = [push EXCEPT ![p].at = "publish"]
    /\ UNCHANGED <<blobs, manifests, pending, mutex, prune, clock, accidents>>

\* MarkPublished, the event, and the return of PutManifest.
MarkPublished(p) ==
    /\ push[p].at = "publish"
    /\ pending' = pending \ push[p].refs
    /\ mutex' = [mutex EXCEPT !.readers = @ \ {p}]
    /\ push' = [push EXCEPT ![p] = NoPush]
    /\ UNCHANGED <<blobs, manifests, tagsFile, prune, clock, accidents>>

\* The manifest cannot be written: the client gets an error.
PushFails(p) ==
    /\ "io" \in Faults
    /\ push[p].at = "write"
    /\ mutex' = [mutex EXCEPT !.readers = @ \ {p}]
    /\ push' = [push EXCEPT ![p] = NoPush]
    /\ UNCHANGED <<blobs, manifests, tagsFile, pending, prune, clock, accidents>>

\* The list cannot be written, before or after it was truncated: logged, no error.
SaveFails(p) ==
    /\ "save" \in Faults
    /\ push[p].at \in {"save", "fill"}
    /\ Accident
    /\ push' = [push EXCEPT ![p].at = "publish"]
    /\ UNCHANGED <<blobs, manifests, tagsFile, pending, mutex, prune, clock>>

PushStep(p) ==
    \/ CheckBlob(p) \/ FinishUpload(p) \/ PutBlob(p) \/ PutManifest(p)
    \/ WriteManifest(p) \/ ReadTags(p) \/ TruncateTags(p) \/ SaveTags(p)
    \/ PushFails(p) \/ SaveFails(p) \/ MarkPublished(p)

-----------------------------------------------------------------------------
(* PruneRegistry                                                           *)

CallPrune(q) ==
    /\ prune[q].at = "idle"
    /\ KeepLast > 0
    /\ prune' = [prune EXCEPT ![q].at = "lock"]
    /\ mutex' = [mutex EXCEPT !.waiting = @ \cup {q}]
    /\ UNCHANGED <<blobs, manifests, tagsFile, pending, push, clock, accidents>>

LockBarges(q) ==      \* the mistake: the writer does not wait for the readers
    /\ prune[q].at = "lock"
    /\ mutex' = [mutex EXCEPT !.writer = {q}, !.waiting = @ \ {q}]
    /\ prune' = [prune EXCEPT ![q].at = "load"]
    /\ UNCHANGED <<blobs, manifests, tagsFile, pending, push, clock, accidents>>

Lock(q) ==
    /\ prune[q].at = "lock"
    /\ mutex.readers = {} /\ mutex.writer = {}
    /\ mutex' = [mutex EXCEPT !.writer = {q}, !.waiting = @ \ {q}]
    /\ prune' = [prune EXCEPT ![q].at = "load"]
    /\ UNCHANGED <<blobs, manifests, tagsFile, pending, push, clock, accidents>>

\* The deferred unlock lets in every reader that waits.
Unlock(q) ==
    LET blocked == {p \in Pushers : push[p].at = "lock"} IN
    /\ prune' = [prune EXCEPT ![q] = NoPrune]
    /\ mutex' = [mutex EXCEPT !.writer = {}, !.readers = @ \cup blocked]
    /\ push' = [p \in Pushers |-> IF p \in blocked THEN [push[p] EXCEPT !.at = "write"]
                                  ELSE push[p]]

Newer(t) == {o \in Listed \ {Latest, t} : manifests[o].stamp > manifests[t].stamp}

\* "latest", and the KeepLast newest of the others.
Kept(t) == t = Latest \/ Cardinality(Newer(t)) < KeepLast

LoadTags(q) ==
    /\ prune[q].at = "load"
    /\ tagsFile.readable /\ \A t \in Listed : Stored(t)
    /\ prune' = [prune EXCEPT ![q].at = "drop", ![q].drop = {t \in Listed : ~ Kept(t)},
                                                ![q].kept = {t \in Listed : Kept(t)}]
    /\ UNCHANGED <<blobs, manifests, tagsFile, pending, mutex, push, clock, accidents>>

\* Any step may fail and end the call there; a list of tags that cannot be parsed, and
\* a listed tag without a manifest, always do.
PruneFails(q) ==
    /\ \/ prune[q].at = "load" /\ ~ (tagsFile.readable /\ \A t \in Listed : Stored(t))
       \/ "io" \in Faults /\ prune[q].at \in {"load", "drop", "sweep"}
    /\ Unlock(q)
    /\ UNCHANGED <<blobs, manifests, tagsFile, pending, clock, accidents>>

DropManifest(q) ==
    /\ prune[q].at = "drop"
    /\ \E t \in prune[q].drop :
          /\ manifests' = [manifests EXCEPT ![t] = NoManifest]
          /\ prune' = [prune EXCEPT ![q].at = "untag", ![q].tag = t, ![q].drop = @ \ {t}]
    /\ UNCHANGED <<blobs, tagsFile, pending, mutex, push, clock, accidents>>

TruncateUntag(q) ==
    /\ prune[q].at = "untag"
    /\ tagsFile' = [tagsFile EXCEPT !.readable = FALSE]
    /\ prune' = [prune EXCEPT ![q].at = "fill"]
    /\ UNCHANGED <<blobs, manifests, pending, mutex, push, clock, accidents>>

UntagNothing(q) ==      \* the mistake: the tag stays in the list
    /\ prune[q].at = "fill"
    /\ tagsFile' = [tagsFile EXCEPT !.readable = TRUE]
    /\ prune' = [prune EXCEPT ![q].at = "drop"]
    /\ UNCHANGED <<blobs, manifests, pending, mutex, push, clock, accidents>>

Untag(q) ==
    /\ prune[q].at = "fill"
    /\ tagsFile' = [readable |-> TRUE, tags |-> tagsFile.tags \ {prune[q].tag}]
    /\ prune' = [prune EXCEPT ![q].at = "drop"]
    /\ UNCHANGED <<blobs, manifests, pending, mutex, push, clock, accidents>>

\* The same for a prune: the manifest is gone, the tag remains, and the prune goes on.
UntagFails(q) ==
    /\ "save" \in Faults
    /\ prune[q].at \in {"untag", "fill"}
    /\ Accident
    /\ prune' = [prune EXCEPT ![q].at = "drop"]
    /\ UNCHANGED <<blobs, manifests, tagsFile, pending, mutex, push, clock>>

\* The digests that the kept tags refer to, the pending ones, and the list of blobs.
Collect(q) ==
    /\ prune[q].at = "drop"
    /\ prune[q].drop = {}
    /\ prune' = [prune EXCEPT ![q].at = "sweep",
           ![q].garbage = (blobs \ pending) \ UNION {manifests[t].refs : t \in prune[q].kept}]
    /\ UNCHANGED <<blobs, manifests, tagsFile, pending, mutex, push, clock, accidents>>

DeleteBlob(q) ==
    /\ prune[q].at = "sweep"
    /\ \E b \in prune[q].garbage :
          /\ blobs' = blobs \ {b}
          /\ prune' = [prune EXCEPT ![q].garbage = @ \ {b}]
    /\ UNCHANGED <<manifests, tagsFile, pending, mutex, push, clock, accidents>>

PruneDone(q) ==
    /\ prune[q].at = "sweep"
    /\ prune[q].garbage = {}
    /\ Unlock(q)
    /\ UNCHANGED <<blobs, manifests, tagsFile, pending, clock, accidents>>

PruneStep(q) ==
    \/ LoadTags(q) \/ PruneFails(q) \/ DropManifest(q) \/ TruncateUntag(q) \/ Untag(q)
    \/ UntagFails(q) \/ Collect(q) \/ DeleteBlob(q) \/ PruneDone(q)

-----------------------------------------------------------------------------
(* What happens around them                                                *)

\* A pending blob is forgotten after PendingBlobTTL.
Expire(b) ==
    /\ "expire" \in Faults
    /\ b \in pending
    /\ pending' = pending \ {b}
    /\ UNCHANGED <<blobs, manifests, tagsFile, mutex, push, prune, clock, accidents>>

\* The files survive the process; its clients give up.
ProcessDies ==
    /\ "die" \in Faults
    /\ Accident
    /\ pending' = {}
    /\ mutex' = Unheld
    /\ push' = [p \in Pushers |-> NoPush]
    /\ prune' = [q \in Pruners |-> NoPrune]
    /\ UNCHANGED <<blobs, manifests, tagsFile, clock>>

Next ==
    \/ \E p \in Pushers : StartPush(p) \/ RLock(p) \/ PushStep(p)
    \/ \E q \in Pruners : CallPrune(q) \/ Lock(q) \/ PruneStep(q)
    \/ \E b \in Blobs : Expire(b)
    \/ ProcessDies

Spec == Init /\ [][Next]_vars

-----------------------------------------------------------------------------
(* Properties                                                              *)

\* Of the tags that have a manifest, "latest" and the KeepLast newest others.
Newest(t) ==
    t = Latest \/ Cardinality({o \in Tags \ {Latest} :
                                  manifests[o].stamp > manifests[t].stamp}) < KeepLast

\* A prune never deletes a blob of an image that is published: whatever clients push
\* while it runs, and however a prune or the process died before, every tag of the
\* list still has all the blobs it had.  And it drops neither "latest" nor any of the
\* KeepLast newest other tags, at the time of the drop and not only of its plan.
PruneSparesImages ==
    [][\A q \in Pruners, t \in Tags :
          /\ DeleteBlob(q) /\ t \in Listed => manifests[t].refs \cap blobs \subseteq blobs'
          /\ DropManifest(q) /\ Stored(t) /\ ~ Stored(t)' => ~ Newest(t)]_vars

\* No tag is listed without its manifest, except by the prune that is dropping it: such
\* a tag would fail every later prune, and every blob of the repository that a client
\* asks for.  A failed write of the list, or the loss of the process, does leave one.
NoDanglingTag ==
    accidents = 0
        => \A t \in Listed : Stored(t) \/ \E q \in Pruners :
                                prune[q].at = "untag" /\ prune[q].tag = t

\* The clean-up keeps the newest tags with all they consist of: no blob of "latest" or
\* of one of the KeepLast newest other tags that were pushed is ever deleted.
NewestAreKept ==
    [][\A q \in Pruners, t \in Tags :
          DeleteBlob(q) /\ Stored(t) /\ Newest(t)
              => manifests[t].refs \cap blobs \subseteq blobs']_vars
=============================================================================
