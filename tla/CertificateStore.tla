--------------------------- MODULE CertificateStore ---------------------------
(***************************************************************************)
(* The certificates on disk (adapters/out/acmestore/store.go): one         *)
(* directory per certificate, replaced as a whole by a Save that keeps the *)
(* old one under the name <id>.old until the new one is in place, and put  *)
(* in order again by whoever opens the store.                              *)
(*                                                                         *)
(* A directory is a number, in the order they are made, and a name leads   *)
(* to a directory: one that is being removed may get another name          *)
(* meanwhile, and the removal, which holds it open, goes on inside.  The   *)
(* files of a directory are its PEM files, counted as one, and its         *)
(* metadata.  The server is one process; every local command of the CLI    *)
(* opens the same store in a process of its own (app/kernel.go).           *)
(***************************************************************************)
EXTENDS Naturals

CONSTANTS Savers,      \* who saves in the server: reconciliation and renewal
          Commands,    \* local commands of the CLI
          Certificates,\* the ids of certificates
          MaxDirs,     \* bound: directories ever made
          MaxFailures  \* bound: calls that fail and deaths of the server

ASSUME StoreAssumption == MaxDirs \in Nat /\ MaxFailures \in Nat

VARIABLES
    live,     \* the directory named <id>, or 0
    old,      \* the directory named <id>.old, or 0
    temp,     \* the directory under the last temporary name a saver made, or 0
    files,    \* what is in each directory
    saver,    \* a Save: its step, its certificate, its directory, what it moved
    opener,   \* who opens the store: the step, what is left of the listing
    acked,    \* the directory of the newest Save that returned nil, or 0
    served,   \* what the server has in memory, or 0
    made,     \* how many directories were made
    failures  \* how many calls failed

storeVars == <<live, old, temp, files, saver, opener, acked, served, made, failures>>

Files == {"pem", "metadata"}
Dirs  == 1..MaxDirs

\* Only the server saves.
Server  == "server"
Openers == {Server} \cup Commands

NoSave == [at |-> "idle", id |-> "none", dir |-> 0, moved |-> FALSE]
Away   == [at |-> "down", temps |-> {}, olds |-> {}, dir |-> 0, names |-> {}]

StoreInit ==
    /\ live = [i \in Certificates |-> 0]
    /\ old = [i \in Certificates |-> 0]
    /\ temp = [s \in Savers |-> 0]
    /\ files = [d \in Dirs |-> {}]
    /\ saver = [s \in Savers |-> NoSave]
    /\ opener = [o \in Openers |-> Away]
    /\ acked = [i \in Certificates |-> 0]
    /\ served = [i \in Certificates |-> 0]
    /\ made = 0
    /\ failures = 0

SaveRecord ==
    [at : {"idle", "recovers", "makes", "pem", "metadata", "clears", "backs", "commits",
           "reverts", "cleans", "publishes"},
     id : Certificates \cup {"none"}, dir : 0..MaxDirs, moved : BOOLEAN]
OpenRecord ==
    [at : {"down", "scans", "unlinks", "recovers", "loads", "up"}, temps : SUBSET Dirs,
     olds : SUBSET Certificates, dir : 0..MaxDirs, names : SUBSET Files]

StoreTypeOK ==
    /\ live \in [Certificates -> 0..made]
    /\ old \in [Certificates -> 0..made]
    /\ temp \in [Savers -> 0..made]
    /\ files \in [Dirs -> SUBSET Files]
    /\ saver \in [Savers -> SaveRecord]
    /\ opener \in [Openers -> OpenRecord]
    /\ acked \in [Certificates -> 0..made]
    /\ served \in [Certificates -> 0..made]
    /\ made \in 0..MaxDirs
    /\ failures \in 0..MaxFailures

Fails == failures < MaxFailures /\ failures' = failures + 1

\* rename(2) of a directory: the new name must be free or lead to an empty directory.
MayTake(d) == d \in Dirs => files[d] = {}

\* RemoveAll, its error ignored: the directory is gone, or some of its files are.
RemovesOld(i) ==
    \/ old' = [old EXCEPT ![i] = 0] /\ UNCHANGED <<files, failures>>
    \/ /\ old[i] # 0
       /\ Fails
       /\ \E left \in SUBSET files[old[i]] : files' = [files EXCEPT ![old[i]] = left]
       /\ UNCHANGED old

-----------------------------------------------------------------------------
(* Save, under the lock of the store                                       *)

SaverGoes(s, at) == saver' = [saver EXCEPT ![s].at = at]

\* The lock is the file's, and who finds it taken has ordered a certificate for nothing.
StoreLocked == \E s \in Savers : saver[s].at \notin {"idle", "publishes"}

TakesLock(s, i) ==
    /\ opener[Server].at = "up"
    /\ saver[s].at = "idle"
    /\ ~ StoreLocked
    /\ made < MaxDirs
    /\ saver' = [saver EXCEPT ![s] = [at |-> "recovers", id |-> i, dir |-> 0, moved |-> FALSE]]
    /\ UNCHANGED <<live, old, temp, files, opener, acked, served, made, failures>>

\* An error gives up what was written, and the lock.
GivesUp(s) ==
    /\ temp' = [temp EXCEPT ![s] = 0]
    /\ saver' = [saver EXCEPT ![s] = NoSave]

\* recoverCertificateDir: a Save that failed half-way has left the backup only.
SaverRecovers(s) ==
    LET i == saver[s].id IN
    /\ saver[s].at = "recovers"
    /\ \/ /\ live[i] # 0 \/ old[i] = 0
          /\ SaverGoes(s, "makes")
          /\ UNCHANGED <<live, old, temp, failures>>
       \/ /\ live[i] = 0 /\ old[i] # 0
          /\ live' = [live EXCEPT ![i] = old[i]]
          /\ old' = [old EXCEPT ![i] = 0]
          /\ SaverGoes(s, "makes")
          /\ UNCHANGED <<temp, failures>>
       \/ /\ live[i] = 0 /\ old[i] # 0
          /\ Fails
          /\ GivesUp(s)
          /\ UNCHANGED <<live, old>>
    /\ UNCHANGED <<files, opener, acked, served, made>>

MakesTemp(s) ==
    /\ saver[s].at = "makes"
    /\ made' = made + 1
    /\ temp' = [temp EXCEPT ![s] = made + 1]
    /\ saver' = [saver EXCEPT ![s].at = "pem", ![s].dir = made + 1]
    /\ UNCHANGED <<live, old, files, opener, acked, served, failures>>

\* writeCertificateFiles: the PEM files, then the metadata, each by a rename of its own.
WritesFile(s) ==
    /\ saver[s].at \in Files
    /\ \/ /\ temp[s] # 0
          /\ files' = [files EXCEPT ![temp[s]] = @ \cup {saver[s].at}]
          /\ SaverGoes(s, IF saver[s].at = "pem" THEN "metadata" ELSE "clears")
          /\ UNCHANGED <<temp, failures>>
       \/ /\ IF temp[s] = 0 THEN UNCHANGED failures ELSE Fails
          /\ GivesUp(s)
          /\ UNCHANGED files
    /\ UNCHANGED <<live, old, opener, acked, served, made>>

\* What a Save before this one has left as its backup goes first ...
ClearsBackup(s) ==
    /\ saver[s].at = "clears"
    /\ RemovesOld(saver[s].id)
    /\ SaverGoes(s, "backs")
    /\ UNCHANGED <<live, temp, opener, acked, served, made>>

\* Mutated: the directory is removed instead of renamed.
BacksUpNothing(s) ==
    LET i == saver[s].id IN
    /\ saver[s].at = "backs"
    /\ live' = [live EXCEPT ![i] = 0]
    /\ saver' = [saver EXCEPT ![s].at = "commits"]
    /\ UNCHANGED <<old, temp, files, opener, acked, served, made, failures>>

\* ... then the certificate in place becomes the backup ...
BacksUp(s) ==
    LET i == saver[s].id IN
    /\ saver[s].at = "backs"
    /\ \/ /\ live[i] # 0 => MayTake(old[i])
          /\ live' = [live EXCEPT ![i] = 0]
          /\ old' = IF live[i] = 0 THEN old ELSE [old EXCEPT ![i] = live[i]]
          /\ saver' = [saver EXCEPT ![s].at = "commits", ![s].moved = live[i] # 0]
          /\ UNCHANGED <<temp, failures>>
       \/ /\ live[i] # 0
          /\ IF MayTake(old[i]) THEN Fails ELSE UNCHANGED failures
          /\ GivesUp(s)
          /\ UNCHANGED <<live, old>>
    /\ UNCHANGED <<files, opener, acked, served, made>>

\* ... and the new directory takes its name.  From here on Save has succeeded.
Commits(s) ==
    LET i == saver[s].id
        can == temp[s] # 0 /\ MayTake(live[i])
    IN
    /\ saver[s].at = "commits"
    /\ \/ /\ can
          /\ live' = [live EXCEPT ![i] = temp[s]]
          /\ temp' = [temp EXCEPT ![s] = 0]
          /\ SaverGoes(s, "cleans")
          /\ UNCHANGED failures
       \/ /\ IF can THEN Fails ELSE UNCHANGED failures
          /\ SaverGoes(s, "reverts")
          /\ UNCHANGED <<live, temp>>
    /\ UNCHANGED <<old, files, opener, acked, served, made>>

\* The error of the way back is ignored.
Reverts(s) ==
    LET i == saver[s].id IN
    /\ saver[s].at = "reverts"
    /\ \/ /\ saver[s].moved /\ old[i] # 0 /\ MayTake(live[i])
          /\ live' = [live EXCEPT ![i] = old[i]]
          /\ old' = [old EXCEPT ![i] = 0]
          /\ UNCHANGED failures
       \/ /\ IF saver[s].moved /\ old[i] # 0 /\ MayTake(live[i]) THEN Fails
             ELSE UNCHANGED failures
          /\ UNCHANGED <<live, old>>
    /\ GivesUp(s)
    /\ UNCHANGED <<files, opener, acked, served, made>>

\* The backup goes, and Save returns nil.
SaveReturns(s) ==
    LET i == saver[s].id IN
    /\ saver[s].at = "cleans"
    /\ IF saver[s].moved THEN RemovesOld(i) ELSE UNCHANGED <<old, files, failures>>
    /\ acked' = [acked EXCEPT ![i] = saver[s].dir]
    /\ SaverGoes(s, "publishes")
    /\ UNCHANGED <<live, temp, opener, served, made>>

\* reconcileMissingTargets and renewDueCertificates put it in memory after the unlock.
PublishesCertificate(s) ==
    /\ saver[s].at = "publishes"
    /\ served' = [served EXCEPT ![saver[s].id] = saver[s].dir]
    /\ saver' = [saver EXCEPT ![s] = NoSave]
    /\ UNCHANGED <<live, old, temp, files, opener, acked, made, failures>>

-----------------------------------------------------------------------------
(* New: whoever opens the store puts it in order, without its lock         *)

OpenerGoes(o, at) == opener' = [opener EXCEPT ![o].at = at]

\* A start that fails is made again, a command too.
OpenFails(o) == opener' = [opener EXCEPT ![o] = Away]

\* ReadDir lists the temporary directories and the backups.
OpensStore(o) ==
    /\ opener[o].at = "down"
    /\ opener' = [opener EXCEPT ![o] = [Away EXCEPT
                     !.at = "scans",
                     !.temps = {temp[s] : s \in Savers} \ {0},
                     !.olds = {i \in Certificates : old[i] # 0}]]
    /\ UNCHANGED <<live, old, temp, files, saver, acked, served, made, failures>>

\* RemoveAll opens the directory that has the name and lists it, if it is still there ...
OpensTemp(o, d) ==
    /\ opener[o].at = "scans"
    /\ d \in opener[o].temps
    /\ opener' = IF \E s \in Savers : temp[s] = d
                 THEN [opener EXCEPT ![o].at = "unlinks", ![o].dir = d,
                                     ![o].names = files[d], ![o].temps = @ \ {d}]
                 ELSE [opener EXCEPT ![o].temps = @ \ {d}]
    /\ UNCHANGED <<live, old, temp, files, saver, acked, served, made, failures>>

\* ... removes what is in it, wherever it is by now ...
Unlinks(o, f) ==
    /\ opener[o].at = "unlinks"
    /\ f \in opener[o].names
    /\ files' = [files EXCEPT ![opener[o].dir] = @ \ {f}]
    /\ opener' = [opener EXCEPT ![o].names = @ \ {f}]
    /\ UNCHANGED <<live, old, temp, saver, acked, served, made, failures>>

\* ... and the name, if it is still there, unless something was written meanwhile.
RemovesTemp(o) ==
    LET owners == {s \in Savers : temp[s] = opener[o].dir}
        can    == owners # {} => files[opener[o].dir] = {}
    IN
    /\ opener[o].at = "unlinks"
    /\ opener[o].names = {}
    /\ \/ /\ can
          /\ temp' = [s \in Savers |-> IF s \in owners THEN 0 ELSE temp[s]]
          /\ opener' = [opener EXCEPT ![o].at = "scans", ![o].dir = 0]
          /\ UNCHANGED failures
       \/ /\ IF can THEN Fails ELSE UNCHANGED failures
          /\ OpenFails(o)
          /\ UNCHANGED temp
    /\ UNCHANGED <<live, old, files, saver, acked, served, made>>

\* recoverCertificateDir looks for the certificate and its backup ...
LooksForBackup(o, i) ==
    /\ opener[o].at = "scans"
    /\ i \in opener[o].olds
    /\ opener' = IF live[i] = 0 /\ old[i] # 0
                 THEN [opener EXCEPT ![o].at = "recovers", ![o].olds = {i}]
                 ELSE [opener EXCEPT ![o].olds = @ \ {i}]
    /\ UNCHANGED <<live, old, temp, files, saver, acked, served, made, failures>>

\* ... and renames the backup.  (The rest of the listing is read again.)
RestoresBackup(o) ==
    /\ opener[o].at = "recovers"
    /\ \E i \in opener[o].olds :
       LET can == old[i] # 0 /\ MayTake(live[i]) IN
       \/ /\ can
          /\ live' = [live EXCEPT ![i] = old[i]]
          /\ old' = [old EXCEPT ![i] = 0]
          /\ opener' = [opener EXCEPT ![o].at = "scans",
                            ![o].olds = {j \in Certificates : old[j] # 0} \ {i}]
          /\ UNCHANGED failures
       \/ /\ IF can THEN Fails ELSE UNCHANGED failures
          /\ OpenFails(o)
          /\ UNCHANGED <<live, old>>
    /\ UNCHANGED <<temp, files, saver, acked, served, made>>

\* The store is open.  A command has no use for it.
StoreOpened(o) ==
    /\ opener[o].at = "scans"
    /\ opener[o].temps \cup opener[o].olds = {}
    /\ OpenerGoes(o, IF o = Server THEN "loads" ELSE "down")
    /\ UNCHANGED <<live, old, temp, files, saver, acked, served, made, failures>>

\* Service.Load: one directory without metadata fails all, one without PEM files is
\* skipped, and the server starts nevertheless.
LoadsAll ==
    LET named == {i \in Certificates : live[i] # 0} IN
    /\ opener[Server].at = "loads"
    /\ served' = [i \in Certificates |->
                     IF /\ i \in named
                        /\ \A j \in named : "metadata" \in files[live[j]]
                        /\ "pem" \in files[live[i]]
                     THEN live[i] ELSE 0]
    /\ OpenerGoes(Server, "up")
    /\ UNCHANGED <<live, old, temp, files, saver, acked, made, failures>>

\* What a Save was writing stays behind.
ServerDies ==
    /\ opener[Server].at # "down"
    /\ Fails
    /\ saver' = [s \in Savers |-> NoSave]
    /\ served' = [i \in Certificates |-> 0]
    /\ OpenFails(Server)
    /\ UNCHANGED <<live, old, temp, files, acked, made>>

SaverStep(s) ==
    \/ \E i \in Certificates : TakesLock(s, i)
    \/ SaverRecovers(s) \/ MakesTemp(s) \/ WritesFile(s) \/ ClearsBackup(s) \/ BacksUp(s)
    \/ Commits(s) \/ Reverts(s) \/ SaveReturns(s) \/ PublishesCertificate(s)

OpenerStep(o) ==
    \/ OpensStore(o)
    \/ \E d \in Dirs : OpensTemp(o, d)
    \/ \E f \in Files : Unlinks(o, f)
    \/ RemovesTemp(o)
    \/ \E i \in Certificates : LooksForBackup(o, i)
    \/ RestoresBackup(o) \/ StoreOpened(o)

StoreNext ==
    \/ \E s \in Savers : SaverStep(s)
    \/ \E o \in Openers : OpenerStep(o)
    \/ LoadsAll
    \/ ServerDies

StoreSpec == StoreInit /\ [][StoreNext]_storeVars

-----------------------------------------------------------------------------
(* Correctness                                                             *)

\* Whatever failed in a Save, in the one after it and in their repair, and wherever the
\* server died, its next start finds every certificate that Save has returned nil for, or
\* a newer one (Store.Save, recoverCertificateDirs, Service.Load).
StartFindsStored ==
    [][LoadsAll => \A i \in Certificates :
          acked[i] # 0 => served'[i] # 0 /\ served'[i] >= acked[i]]_storeVars

\* "All PEM files and metadata are written atomically" (store.go:233): a certificate in
\* place has all its files.
CommittedIsWhole == \A i \in Certificates : live[i] # 0 => files[live[i]] = Files
=============================================================================
