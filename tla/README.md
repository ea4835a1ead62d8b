# Gordon in TLA+

Gordon is a single-binary container platform: it holds an image registry, deploys
a container for every route when an image is pushed, switches its reverse proxy
to the new container without downtime, watches the containers, terminates TLS,
forwards TCP and UDP, keeps secrets and cleans up.
This directory holds TLA+ models of the parts whose correctness depends on the
order in which goroutines, processes, callbacks and failures meet, the TLC
configurations that check them, and TLAPS proofs.

`PROJECT.json` is the index: the components, every run with its properties, the
mistake that each property is known to catch, the source lines of every
definition, the findings, the hazards and the theorems.

    tlc -config MCDeploy.cfg MCDeploy        # any <name>.cfg with its MC module
    tlapm DeployProofs.tla                   # the proofs, any <name>Proofs.tla

## 1. Inventory

| Part | State it keeps | Operations | Talks to |
|---|---|---|---|
| Event bus (`adapters/out/eventbus`) | a bounded channel, the handler list, a context | Publish, Subscribe, Unsubscribe, Start, Stop; one loop; a goroutine per handler call with a 30 s timer | registry, admin API, configuration publish; container, auto-route and preview handlers subscribe |
| Container service (`usecase/container/service.go`) | `containers` (domain to container) and `managedCount` under one mutex, a lock per domain, background clean-ups, the attachments of each route | Deploy, ReconcileRemovedRoute, SyncContainers, Restart, AutoStart, CleanupOrphanedAttachments | container runtime, proxy (invalidation, drain), event bus |
| Crash monitor (`monitor.go`) | crash history per domain | one check of every tracked container each 15 s | the service's map, the runtime |
| Event handlers, boot (`events.go`, `autoroute.go`, `secrets_handler.go`) | debounce timers with generations | image pushed, configuration reloaded, manual deploy, secrets changed | call the container service, the configuration |
| Registry (`usecase/registry`, `adapters/out/filesystem`) | blobs, manifests, `tags.json` per repository, upload files and their locks, suppressed deploy events with a timer each | uploads, PutManifest, reads, suppress and clear | publishes `image.pushed`; shares a mutex and the pending blobs (`usecase/registrystate`) with pruning |
| Pruning (`usecase/images`) | none of its own | Prune of the registry and of the runtime's images | scheduler and admin API call it |
| HTTP proxy (`usecase/proxy`, `adapters/in/http/proxy`) | cached targets, requests in flight | GetTarget, TrackInFlight, InvalidateTarget, WaitForNoInFlight | reads the container service; a deploy invalidates and drains it |
| `gordon push` (`adapters/in/cli/push.go`, `pkg/registrypush`) | none | register an intent, push two tags, ask for a deploy, retry | registry and admin API over HTTP |
| Previews (`usecase/auto/preview`) | the records in memory and in `previews.json`, a lock per name | create, extend, delete; a ticker that expires and collects | configuration (routes), container service |
| Configuration (`usecase/config`, viper) | the routes in memory, the file, backups | add, change and remove routes; watch, reload, save | publishes `config.reload`; the coordinator of `app/run.go` applies it |
| Traffic listeners (`adapters/in/traffic`) | sockets, the graph in force, TCP connections, UDP sessions, HTTP servers behind a mux | Apply, Shutdown; accept, sniff, forward, drain | configuration reloads, the proxy |
| Public TLS (`usecase/publictls`, `adapters/out/acmestore`) | certificates in memory and on disk, a cursor | reconcile pass, renewal, Save, Load | ACME issuer; reloads |
| Standalone services (`usecase/services`) | none but the containers | Reconcile | runtime; start and reload |
| Secrets (`usecase/secrets`, `adapters/out/domainsecrets`) | entries in pass, a manifest of keys, environment files | set, get, delete, migrate | the `pass` program; publishes `secrets.changed` |
| Process and wiring (`app/run.go`) | PID file, request file, signal channels | start, reload and deploy by signal, shut down | all of the above |
| Internal PKI (`usecase/pki`, `adapters/out/pki`) | root and intermediate on disk, the issuer and the leaves in memory | open, renew the intermediate, issue, export the root | TLS listener; `gordon ca` in a process of its own |
| Scheduler, tokens, backups, logs, admin API, CLI | see section 6 | | |

The behaviours that are hard to get right, and to test:

* **Deploys overlap.** Event handlers, the admin API, boot and the debounce of
  secrets deploy the same domain at once; the clean-up of the replaced container is
  a goroutine that outlives the deploy lock; the monitor, SyncContainers and Restart
  take no lock at all.
* **Everything can stop in the middle.** Each runtime call may fail, a context may
  be cancelled, a container may crash while it is being judged, and the process may
  die between two files, two containers or two entries.
* **Stale reads.** The tracked record is as old as its last inspection, a listing is
  applied after it was made, a route is read, changed and deployed in three calls.
* **Garbage collection against writers.** Blobs exist before a manifest refers to
  them; the list of tags is a file that is read, changed, truncated and rewritten; a
  preview's container exists before its record.
* **Several processes.** The CLI opens the files of a running server, signals it and
  retries what the server may have done already.
* **Bounded queues and timers**: the event bus, the debounce, the suppression of
  deploys, connection limits, drains with a deadline.

What makes each part correct: events of the bus are neither lost, reordered nor held
up by one handler; a domain that serves keeps serving through deploys, failures and
restarts, no clean-up stops the serving container, and nothing is left behind;
the monitor repairs crashes and undoes no intended stop; a prune deletes no part
of an image that is published or being published; the proxy never keeps sending
requests to a container that is gone; what a call has acknowledged survives its
neighbours, its own retry and a restart; what the configuration asks for is what runs
once reloads are over; a stop leaves nothing open.

## 2. Modules

| Module | Models |
|---|---|
| `EventQueue` | the bus as its publishers may see it: a bounded queue drained one event at a time |
| `EventBus` | the bus itself; implements `EventQueue` |
| `Deploy` | the container service and the monitor for one domain, over an explicit runtime |
| `Proxy`, `ZeroDowntime` | the cached target and the requests of the HTTP proxy; its composition with `Deploy` |
| `Registry` | pushes and PruneRegistry over the files of one repository |
| `Uploads` | the upload sessions of a blob, their locks and their clean-up |
| `CliPush` | `gordon push`, the suppression of deploy events, deploys of one route |
| `SecretsDebounce` | the timers of `secrets.changed` for one domain |
| `Previews` | one preview domain: creation, deletion, expiry, collection, the store |
| `Routes` | who changes a route and who deploys it |
| `ConfigFile` | the file, viper, the routes in memory and what a reload applied |
| `TrafficListeners`, `UdpSessions`, `TcpConnections` | Apply and Shutdown of the traffic manager; one UDP and one TCP entry point |
| `Certificates`, `CertificateStore` | which certificates are ordered and when; their directories on disk |
| `StandaloneServices` | Reconcile of the services beside the routes |
| `Attachments` | the network and the attachments of a route |
| `Enumerations` | sets of numbers in order, for `Certificates` and `Attachments`, without a recursion |
| `DomainSecrets` | the secrets of one domain in pass or in a file |
| `Lifecycle` | the process, its PID file, signals and the deploy request file |
| `InternalCa` | the internal authority: its files, who opens it, what it issues |
| `MCEventBus`, `MCDeploy`, `MCZeroDowntime`, `MCRegistry`, `MCControlPlane`, `MCHousekeeping` | constants, symmetries and compositions for TLC |
| `DeployProofs`, `DeployUpProofs` | proofs about `Deploy`: types, the lock, the map, the clean-ups, the names and removals; zero downtime and the monitor |
| `ZeroDowntimeProofs` | proofs about `ZeroDowntime` |
| `EventBusProofs` | proofs about `EventBus`, `SecretsDebounce`, `TcpConnections` and `MCEventBus` |
| `RegistryProofs` | proofs about `Registry`, `CliPush`, `Uploads` and `MCRegistry` |
| `PreviewProofs` | proofs about `Previews`, which `EventBusProofs` and `ControlPlaneProofs` use |
| `ControlPlaneProofs` | proofs about `UdpSessions`, `CertificateStore`, `Routes`, `TrafficListeners`, `StandaloneServices`, `ConfigFile` and `MCControlPlane` |
| `HousekeepingProofs` | proofs about `Lifecycle`, `InternalCa`, `DomainSecrets`, `Certificates`, `Attachments` and `MCHousekeeping` |

Definitions whose comment says "the mistake", "Mutant" or "Mutated" are no part of a
specification: each is a plausible error, defined beside the right definition, which
breaks the property that watches over it.

**Composition.** `ZeroDowntime` composes two components that act on each other. The
composites `MCEventBus`, `MCRegistry`, `MCControlPlane` and `MCHousekeeping` put
components side by side that share no state: a variable `part` says whose behaviour
this is, and a part that does not run stays at its `Init`. That gives every component
its own bounds in one configuration without multiplying the state spaces. They extend
their components, which share no names, so that TLC evaluates the assumptions of
the proofs, and the theorems about a component serve the composite. Where two
such components do meet in the code, each has the other's promise as an environment:
`Routes` and `CliPush` take a deploy to be what `Deploy` promises, `Certificates` takes
Save to be one step that `CertificateStore` takes apart, `SecretsDebounce` and `CliPush`
take events from a queue, as `EventBus` is shown to be.

### EventBus

`eventChan`, `handlers` and `cancelled` are the fields of `InMemory`; `loop` is the
goroutine of `processEvents` with its copy of the handler list; `goroutines` are the
handler calls that have not returned. Publish is split where it can block
(`Publish`, then `PublishSend`, `PublishStopped` or `PublishDrop`, the three cases
of its select). A handler that times out stays in `goroutines` with a cancelled
context and may return at any later time, or never. `accepted` and `offered` are
history. Stop's wait of at most five seconds for the loop changes no state and is
left out; so are the payloads.

### Deploy

One domain: domains share nothing but the short critical sections of `s.mu`.
`tracked` is `s.containers[domain]`, a *record of what an inspection returned*, so
that its name may be out of date, as in the code. `docker` is the runtime. A step is
one call of the runtime or one critical section.

A `Deploy` call walks through `lock`, `resolve` (and `adopt`), `orphans`, `clean`,
`start`, `ready`, `activate`, `invalidate`, `stabilize`, then `finish` or the
rollback (`rollback`, `reinvalidate`, `dropnew`); every failing call has an action of
its own which releases the lock and removes what the code removes.
`finalizePreviousContainer` is a member of `tasks`: drain, stop, remove, rename. Its
drain is bounded by a timeout, so `Drained` is always enabled here; `ZeroDowntime`
ties it to the proxy. `recon`, `operator` and `monitor`
are the other callers. "stopped" and "exited" are the same to the runtime; the model
keeps them apart to say which stops the service itself made. `ProcessDies` clears
memory and keeps containers; what follows a restart is ordinary deploys from
an empty map.

Data is abstracted: an image is the pair of digest and environment that the
redundancy check compares; readiness is its outcome; the preparation (pull, networks,
attachments, environment, volumes) is one step that may fail without touching
the domain's container; logs, metrics and labels are left out.

### Proxy and ZeroDowntime

A request looks its target up in steps - the cache under `s.mu`, the tracked container,
the port from the runtime, the store into the cache - and counts itself in flight only
after that. `clean` is history: no invalidation has come since the target was chosen.
`ZeroDowntime` instantiates `Proxy` with the containers of `Deploy` as back ends, lets
the invalidations of a deploy, a rollback and a removal act on the cache, and ends a
drain at zero or at its deadline.

### Registry, Uploads, CliPush

One repository, one upload, one image. A blob is its digest, a
manifest the set of blobs it refers to and the order in which it was written
(`stamp`, its modification time). `tagsFile.readable` is false between the truncation
and the write of `os.WriteFile`, when a reader gets a parse error. `mutex` is Go's
RWMutex: a waiting writer keeps new readers out, and an unlock lets in the readers
that wait. A client (`StartPush`, external) checks each blob as a push does, uploads
what is missing and puts the manifest. Manifests are pushed by tag only.

In `Uploads` a file is the sequence of its bytes, and a request looks its mutex up in
the map, locks, writes or finishes, unlocks and forgets the mutex in steps of their own;
the stale clean-up judges the age first and takes the lock then. In `CliPush` an image
is the number of the push that stored it; an attempt that the client gave up keeps
running on the server.

### SecretsDebounce, Previews

`SecretsDebounce` has every timer that was made with its generation, so that one that
has fired meets the change that replaces it. `Previews` has a name lock per domain with
its reference count, a record in memory and one in the store that are written one after
the other, and the two passes of the ticker.

### Routes, ConfigFile

`Routes` takes apart what an admin call, a push and a reload do in several calls: read
the routes, change one, deploy it. `ConfigFile` has the three places a setting is in -
file, viper, memory - and the steps between them: a save reads the file,
writes a temporary one, renames it and reads it again; the watcher ignores what comes
within its quiet period; the reload coordinator loads and applies.

### TrafficListeners, UdpSessions, TcpConnections

`TrafficListeners` prepares, swaps and stops listeners as `Apply` does, one bind at a
time, with two calls and a Shutdown meeting. `UdpSessions` is one UDP entry point:
workers that look, dial without the lock and look again, a reader per session that
removes by key, a drain and an update. `TcpConnections` is one TCP entry point with its
mux: a connection is counted, sniffed, dialled or handed to the HTTP server through a
queue, while an update closes some, the manager replaces the server and a stop drains.

### Certificates, CertificateStore

`Certificates` has the batch of a reconcile pass, the cursor in memory and on disk, the
renewals between the passes and a reload's own pass; hosts and targets differ as under
a wildcard. `CertificateStore` counts directories as inodes: a name leads to one, a
removal goes on inside one that got another name. Opening the store repairs it; a
local command opens it in a process of its own.

### StandaloneServices, Attachments

Both keep containers as configured through failures in the middle.
`StandaloneServices` has two overlapping Reconciles, each with the configuration it was
called with. `Attachments` has the list of tracked ids, which is what the rollback
works on, the clean-up of orphans and a SyncContainers with their stale listings.

### DomainSecrets, Lifecycle

`DomainSecrets` keeps keys one of three ways: as entries of pass with a manifest and
discovery, without discovery, or in a file replaced through a temporary inode. Calls
overlap without a lock, each command may fail, the server may die, and a start moves a
plaintext file into pass. `Lifecycle` has the PID file, the two signal channels with
room for one, the request file and who was told of success.

### InternalCa

The root and the intermediate are pairs of files, the key written before the
certificate. Whoever opens the authority - a start of the server, a `gordon ca` command -
loads or makes them in steps; the server renews the intermediate and caches leaves,
singleflight lets one handshake through. A key is a number, time a few ticks.

## 3. Runs and what they show

| Run | Bounds | Shows |
|---|---|---|
| `event_bus` | bus: 2 publishers, 2 handlers, 2 kinds, buffer of 1, 2 events; 3 changes of secrets; 2 pushes of a preview, 1 mishap; 2 TCP clients, limit 1, queue of 1, 2 HTTP servers | a started event waits for the one before (`HandlersTakeTurns`); refinement of `EventQueue`; accepted events are taken and Publish returns (`NobodyWaits`); a deploy reads every change (`ChangeIsDeployed`); an expired preview's container goes (`PreviewIsCollected`); a stop ends with no connection and no count left (`StopDrains`) |
| `deploy` | 2 callers, 5 containers, 2 deaths of the process, failing calls | the lock discipline (`LockedSections`); what a Deploy read at its start is current at its activation; clean-ups spare the serving container; the tracked container is up; temporary names never collide; never a moment without a serving container (`NeverDown`) |
| `deploy_live` | 2 callers, monitor, 3 containers, preparation, readiness and removal failures, programs that crash once started | when deploys stop exactly the tracked container runs (`Converges`); the monitor undoes no intended stop |
| `deploy_monitor` | 1 caller, 1 removal, monitor, sync, restart, 2 containers, outside stops, unhealthy containers, failing listings | a tracked container that exited is revived, replaced or untracked; after a successful removal nothing runs (`RemovedIsDown`) |
| `zero_downtime` | 2 requests, 1 deployer, 3 containers, rollbacks, failing listings, 1 crash | a request whose choice no invalidation followed is served (`ChosenServes`); a drain that ended at zero cuts no counted request (`DrainIsHonoured`) |
| `registry` | 2 clients, 1 prune at a time, 4 tags, 2 blobs, 3 pushes, 1 accident; 1 upload, 2 requests, chunks of 2 bytes, 1 restart; 2 runs of the CLI, 2 attempts each | a prune deletes no blob of a listed image and no tag of the retention; no dangling tag unless a write failed or the process died; what an upload publishes is verified and its writers exclude each other; a suppression has a timer that ends it; who is told "deployed" has his image running, or a newer one |
| `control_plane` | routes: 2 admins, 5 calls; file: 2 changers, 1 edit, 1 reload, 1 mishap; previews: 3 pushes, no mishap; UDP: 2 workers, 2 clients, limit 1, 2 dials; traffic: 2 appliers, 3 calls; certificates: 2 savers, 3 directories, 3 failures; services: 2, 1 change, 1 fault | a reload leaves running what is routed (`ReloadConverges`); an acknowledged change stays in file and memory (`AcknowledgedIsKept`); creations of a preview exclude each other; sessions are counted and owned; what the graph in force names is bound and served; a start finds what Save acknowledged; a Reconcile that reports no error leaves what is configured |
| `housekeeping` | 3 hosts, 3 targets, batches of 1, 1 upset; 2 attachments, 2 images, 6 containers, 1 failure; 2 secret callers, 2 keys, 1 value, 1 loss; 2 deploys and 1 reload by signal, 2 starts, 1 kill; authority: 1 command, 1 handshake, 4 keys, 2 ticks, 1 error | every host is served or ordered again and again; attachments come up as configured; a read of secrets returns what calls that met no other have left; a signal that the CLI reported is served, or the process has ended or did not listen; every chain the server serves verifies with the root its clients have, and the authority opens again (`TrustSurvives`) |

Four runs end in a counterexample, each to a statement of the repository:

* `stale_target` (`CachedIsUp`): a request that looked up the old container before the
  switch stores it in the cache after the invalidation.
* `registry_lost_tag` (`NewestAreKept`): pushes share a read lock around the rewriting
  of `tags.json`; a tag is lost and the next prune deletes the blobs of the newest image.
* `torn_certificate` (`CommittedIsWhole`): a local command that opens the store empties
  the directory that a running server is saving.
* `attachment_rolled_back` (`AttachmentsPersist`): a deploy whose second attachment fails
  removes the first, which it had found running.

### Why the bounds are enough

Five containers let the name of the tracked container go through canonical, new, next
and new again, with one more in creation, and let a third deploy meet two background
clean-ups. Two callers are one holder of the lock and one that waits and then resolves
what the other left. One death of the process reaches every combination of containers
up in one interrupted deploy; the second interrupts the
clean-up of what the first left. Fault sets differ between runs because some properties
are only true without some faults; that is part of what a run says (section 4). Four
tags are `latest` and three others, so that with a retention of one a prune has two to
drop and may fail between them. Two blobs are one to keep and one to drop. One event
buffered and one in dispatch fill the bus. Three changes are a timer that fires, one
that replaces it and one whose generation starts again after a claim. Two TCP clients at
a limit of one are one admitted and one refused or admitted after it; two servers are one
replaced and its successor. Two dials are a session and the one that loses the race for
its key. Three pushes of a preview are a holder of the name lock, one that waits and one
that finds the lock forgotten; there nothing fails, in `event_bus` two pushes meet a failure,
and the theorem about the lock is for any number of both. Three directories are the certificate in place, the one
it replaces and one more that a repair meets. Three hosts with batches of one let the
cursor pass a target that another pass has changed. Six containers let an attachment be
replaced after a rollback and a restart. Two deploys by signal are one that waits with its
file and one that finds it; two starts are a process and the one that inherits its files.

Two mutexes of a preview's name are the one in use and one made after it was forgotten. Two
ticks let an intermediate of life two come into its window of renewal and end, and four
keys are two roots and two intermediates. The services of `control_plane` start with the
same options: what tells them apart is the change. One
command and one handshake are enough for the internal authority because the commands
only open it and singleflight lets one handshake through.

Symmetry is used over sets that no definition orders. In a run with leads-to properties it
is used only in `housekeeping`, over the callers of the secrets: those properties are
about parts in whose states no such caller occurs. Deadlock is not checked where the program may be idle for ever: in the composites,
all of whose callers are bounded.

### Fairness

* The Go scheduler runs every goroutine that can run: weak fairness of each call's
  next step.
* Strong fairness of acquiring a deploy lock: `domainDeployLock` is a channel of
  capacity one, whose waiting senders Go serves in the order they came. Strong fairness
  of the stopper's lock in `TcpConnections`: `sync.Mutex` hands over after a millisecond.
* Strong fairness of `MonitorInspect`: the monitor skips a crashed container during a
  backoff, but the backoff grows to 15 minutes and crashes are counted over five, so
  attempts leave the window and one of the later checks starts the container.
* The bus: its loop runs, a blocked Publish is resumed or times out, the timer of a
  handler fires. Nothing is asked of handlers, of Start or Stop, or of publishers.
* Debounce: timers fire and the bus delivers. Previews: time passes, the ticker ticks,
  and calls of the runtime, the store or the routes fail at most `MaxMishaps` times.
* TCP: the timers of sniffing, dialling and draining fire, reads on closed sockets fail.
  Nothing is asked of clients, of backends or of HTTP handlers.
* Certificates: the ticker ticks and an order ends, in success or failure.
* Attachments: the route is deployed again and again, as events and reloads do; that is
  an assumption about the surroundings, without which nothing retries a failed deploy.
* The runtime's restart policy restarts a crashed container.
* No fairness for calls to begin, for faults, for the death of the process, or for
  containers to crash.

## 4. Limits that the runs bring out

What a property does not say, and what was met while modelling. Each is a behaviour of
the code that the models have, unless it says that they leave it out.

**Deploys.**
* With containers stopped from outside, the monitor's check "still tracked" and its
  start are two steps: a deploy that stops the container in between is undone, so
  `MonitorRespectsStop` is checked without outside stops.
* A SyncContainers that overlaps a deploy points the map back at the replaced container
  (service.go:1759), which the background clean-up then removes; the CLI's local control
  plane does the same from another process (controlplane_local.go:62).
* The orphan clean-up of a third deploy stops a replaced container that still drains.
* When the new and the old container are both down at the end of the stabilization, the
  map keeps naming the new one, just removed, and the old one runs untracked until another
  deploy or sync: `Converges` is checked without crashes.
* `NameIsFree` needs listings and removals to succeed: a failed removal leaves a stopped
  container under a temporary name, and a deploy that wants the name fails at creation.
* After a restart by the monitor (monitor.go:236) or by Restart a container has another
  ephemeral port, and no one invalidates the cached target; in `ZeroDowntime` a container
  keeps its port. `ChosenServes` is about requests that no invalidation has overtaken;
  `stale_target` shows the others.

**Registry and pushes.**
* `NoDanglingTag` needs the writes of `tags.json` to succeed: a tag left dangling makes
  every later prune of the registry fail, and nothing repairs it.
* A finished upload is not recorded as pending (registry/service.go:506), so a prune
  before its manifest arrives deletes it.
* The stale clean-up judges an upload's age before it takes the lock; a lock entry that it
  makes for a file already gone is never removed.
* A deploy intent expires after two minutes although a build precedes the push; another
  client's clear removes one's own suppression; with `--no-deploy`, a declined or a failed
  deploy the suppression stays, and pushes of docker are not deployed for two minutes.

**Previews, routes, configuration.**
* A route left by a Delete whose deploy failed is never removed; Delete leaves containers
  to the collection by age; the teardown takes no name lock.
* AddRoute's check and its change are two calls, so an auto-route may replace a route
  an administrator adds meanwhile (docs/config/auto-route.md:217 says it does not); the
  environment file of a new auto-route is extracted only after its deploy
  (autoroute.go:205, docs/config/auto-route.md:239-242).
* Edits within 500 ms of the server's own save or reload are not noticed
  (docs/config/index.md:243), and the next save writes over edited routes. Not modelled:
  overlapping reads of viper, a re-read that fails after the rename, the rollback of
  attachments' configuration, a crash during a restore.

**Traffic.**
* A UDP reader removes the session of its *client*, which may be a new and working one
  (udp.go:215). A worker past its dial may insert a session after the stop has returned.
* An update's list of connections to close is made before one that is just being admitted
  is marked. At the limit a connection may be refused although a slot has just been freed.
  A connection handed to a server that is being replaced is refused. `closeWrite` does
  nothing on a replayed connection, so a half-close is not passed on and the connection
  ends by its idle timeout.
* ":443" and "0.0.0.0:443" are different addresses to Apply, so a graph that exchanges one
  for the other fails to bind and is rejected. The start applies the graph it read although
  the watcher may have applied a newer one (run.go:381, 2898). An Apply after Shutdown
  listens again.

**Process.**
* A SIGUSR1 or SIGUSR2 between the PID file (run.go:358) and `signal.Notify`
  (run.go:2857-2864), or after `signal.Stop`, is dropped while the CLI reports success;
  `SignalIsHeard` counts these windows out. The request file of such a deploy stays, as it
  does after a kill, a shutdown, or a CLI that ends between the file and its signal; from
  then on every deploy by signal is refused as being in progress until someone removes the
  file (docs/cli/serve.md:194 says the request is queued for the running server).
* A CLI that found a stale PID may remove the PID file of a server started meanwhile.

**Certificates.**
* A Save that finds the store's lock held throws the ordered certificate away. Overlapping
  renewals and passes may order a certificate twice; memory and disk may then differ, both
  valid. Certificates of removed hosts are renewed for ever. One directory without
  metadata makes Load find none at all.

**Internal authority.**
* Two processes that open an authority without a root at once may each make one, so that
  what was handed out does not verify what is served; a root of which only the key was
  written refuses every later start. `TrustSurvives` counts the first out and names the
  second (ca.go:219 says that a missing certificate is made anew; ca.go:166 refuses it).

**Services and attachments.**
* With `remove_container = false` and a changed configuration, creation fails with a name
  conflict in every reload, and what follows it in the reload is not applied. A volume
  whose removal fails stays. A start-up Reconcile that overlaps a reload may put the old
  configuration back.
* Drift leaves stale ids in the tracked list until a sync; a failed listing leads to a
  name conflict and a rollback; the removal of a network has no caller; the orphan
  clean-up may remove an attachment that was configured again meanwhile. Not modelled: two
  routes of one group, of whose first deploys one fails at CreateNetwork; attachments of
  the group "shared", which every route deploys (docs/config/attachments.md:162-173,
  service.go:2911).

**Secrets.**
* Overlapping calls on one attachment lose each other's keys in the manifest, and
  GetAllAttachment does not discover entries as its comment says. Overlapping writers of
  one environment file share one temporary inode, so a torn file may be put in place. A
  failing Set whose listing came before another's insert removes that key again.
  `ReadsAreComplete` therefore speaks of keys whose last call met no other one.
* A failed Set keeps what it has overwritten and publishes no event. A start that dies
  between the first inserted key and the removal of the plaintext file makes every later
  start fail (docs/config/secrets.md:57 says it migrates).

## 5. Proofs

Every theorem holds for every value of the constants that its module's assumption allows:
any number of callers, containers, images, clients, blobs, and any bound on what may
fail. Every invariant that a passing run checks is stated by a theorem. Every
inductive invariant was checked by TLC, as an invariant of a small run, before
it was proved. The proofs have one step per action and under it one per conjunct the
action can disturb; what several actions do alike is a lemma.

An assumption (`DeployAssumption`, `EventBusAssumption`, ...) says that bounds are numbers,
that sets whose members are told apart do not meet, and that the sets which are counted
are finite. TLC evaluates it in the runs. A hypothesis of a theorem says which actions
it excludes; the runs of section 3 check the property under the same or a wider set of
faults.

### The container service

| Theorem | Property | Hypotheses |
|---|---|---|
| `DeployProofs.Typing` | `TypeOK` | none |
| `DeployProofs.LockDiscipline` | `LockedSections` | none |
| `DeployProofs.StaysCurrent` | `ExistingIsCurrent` | `Calls = {}` |
| `DeployProofs.SparesTracked` | `CleanupSparesTracked` | `Calls = Reconcilers = {}` |
| `DeployProofs.NamesStayFree` | `NameIsFree` | the same, and listings and removals succeed |
| `DeployUpProofs.TrackedStaysUp` | `TrackedIsUp` | the same callers, and `ProgramsLive` |
| `DeployProofs.RemovedRouteIsDown` | `RemovedIsDown` | removals by the runtime succeed |
| `DeployUpProofs.ServiceIsNeverDown` | `NeverDown` | as `TrackedStaysUp` |
| `DeployUpProofs.MonitorLeavesStopped` | `MonitorRespectsStop` | as `TrackedStaysUp`, and no container is unhealthy |

`Calls` are the ones that change the map without the deploy lock (SyncContainers, Restart);
`Reconcilers` remove the route. With them the properties are false, as section 4 tells: a
sync points the map back at the replaced container. `ProgramsLive` excludes programs that
die in their containers, stops from outside and inspections that fail, after which the code
takes a container that runs for one that does not. Failing creations, starts, readiness
checks and activations, cancelled contexts, the monitor and deaths of the process at any
step remain. The argument, one invariant inside the other:

* `TypeOK` says more than types: calls are of three shapes (idle, before and after
  the new container exists), so a call that starts, tracks or removes its new container has
  one. `LockedSections` makes a call alone between its lock and its unlock.
* `CurrentInv` adds what a call knows of the map in each place: nothing before it has the
  lock, the tracked container until it activates, its own new container afterwards. So the
  map changes under nobody's feet.
* `SparesInv` adds that numbers of containers are not used twice (`Known`), that the new,
  the existing and every container being cleaned up are three different ones (`Spare`,
  `SpareTask`), and that the map, once filled, is not emptied while a clean-up runs: without
  the last a deploy might adopt a container that a clean-up is about to stop.
* `NamesInv` adds which names there are: what is not to be removed as an orphan is the
  serving container, under the name it was recorded with or the canonical one its clean-up
  gave it.
* `UpInv` adds that what a call relies on is up and that no call has anything to roll back
  after its activation. `NeverDown` then follows step by step: what stops a container
  is a clean-up, which spares the serving one.
* `MonitorIsStale`, with `UpInv`: what the monitor would start is down, and what is tracked
  is up, so it finds that container untracked when it looks at the map again and starts
  nothing. Where programs die or are unhealthy this argument fails: the monitor acts
  on a tracked container, which a deploy may replace and stop between its check and its
  start (section 4).
* `RemovalsList` needs nothing of all this but types and the lock, and holds with every
  caller there is: from its listing on, a removal has each container that exists on its
  list. Who could create another one waits for the lock; a sync, a restart or the monitor
  only starts or stops what is there. A removal that the runtime refuses leaves its container
  running, hence the hypothesis.

### The event bus

`EventBusProofs.Turns` proves `HandlersTakeTurns` and `Refinement` that every behaviour
of the bus is one of `EventQueue`, for any publishers and handlers, buffer and kinds,
although handlers time out or never return. `TurnsInv` has the shape of the loop between
events, that an event is in one place (publisher, channel, loop) and was never in two,
that a handler is called once for an event, that a goroutine with a live context is the one
the loop waits for, and that every handler the loop has passed was offered its event. Each
step of the bus is a step of the queue or leaves it as it is; the step of the loop that
lets an event go needs the last conjunct.

`StopLeavesNothing` proves the half of `StopDrains` that is an invariant
(`NothingIsLeft`): when a stop of the TCP entry point has returned, no connection is
counted or served and no server installed. `StopsInOrder` says what each step of the stop
has behind it, `ReplacesAlone` that one update at a time replaces the server. That the stop
returns is left to TLC.

`EventsTyping` proves `EventsTypeOK` of the composite. For the debounce `DebounceInv` adds
that events and generations together are no more than the changes, which bounds them.

### The proxy with the container service

`ZeroDowntimeProofs.DrainHonoured` proves `DrainIsHonoured` without a hypothesis: whatever
fails or calls without the lock, a clean-up whose drain ended at zero stops no request
that was counted before. `ProxyInv` says that the count of a container is the number of the
requests that hold it, `DrainInv` that after a drain at zero only late requests forward.
`TargetsServe` proves `ChosenServes` from `Calls = Reconcilers = {}` and `ProgramsLive`:
`ServeInv` is `UpInv` with `ChosenInv`, that a target no invalidation has overtaken serves.
Without `ProgramsLive` the theorem does not hold: if both the old and the new program die,
the map names a container that is gone; the run `zero_downtime` has one such fault at its
bounds, and there the property holds.
`ZeroDowntimeAssumption` says that the requests are finitely many, since they are counted.

### Registry and pushes

`RegistryProofs` proves, for any clients, prunes, blobs and tags:

* `Typing`: types, and that `MutationMu` excludes (`Exclusion`: readers and the writer are
  exactly the calls that are in their sections).
* `TagsHaveManifests` (`NoDanglingTag`): `Tagged` says that as long as no write was lost each
  listed tag has its manifest, or a prune is just between dropping the one and the
  other; `Pushed` that a push which lists its tag has stored the manifest and that the list
  it read names no other.
* `PruneSpares` (`PruneSparesImages`): `Planned` keeps a prune's plan true to its end -
  the tags it keeps and drops are all there are, those it drops have `KeepLast` newer ones
  among those it keeps, what it sweeps no kept manifest refers to. It is inductive because
  pushes wait while a prune writes. `Stamped` (no two manifests have one time, as the model
  has it) makes "newest" an order. The number of newer tags goes through `Cardinality`, so
  the tags are assumed finite.

`RegistryProofs` also proves `SuppressionsEnd` (`EntryHasTimer`) and `DeployedMeansPushed`
(`DeployedIsPushed`) about `CliPush`. `Timed`: until a client's intent is in the map nobody
else can have stopped its timer. `Attempted` and `Waiting`: an attempt that was not asked
for is idle, and who waits has asked for one. `Ordered`: the deploy lock makes the deploys
follow each other, what runs never gets older, and an attempt's deploy takes the image of
its client or a later one. `PushAssumption` says that the event loop is no client's attempt.

`BlobsAreIntact` proves `UploadIsIntact` about `Uploads`. The mutex of an upload
is forgotten while others hold it or wait for it, so that callers of one upload may hold
different ones; the proof says when that does no harm. `Sound`: as long as the file is there,
whoever has looked a mutex up has the one of the map, since an entry is forgotten only when
the file is gone and a UUID is not used twice. With `Exclusive` (a mutex has one holder)
whoever holds one of a file that is there is alone (`SoleHolder`), so what a request has
verified is what it renames. `UploadsAssumption` says that bodies are sequences and bounds
are numbers. `RegistryTyping` puts the three together (`RegistryTypeOK`).

### The control plane

`PreviewProofs.OneCreation` proves `CreationsAlone`. `NameLocked` is what makes the
lock that is forgotten at its last release sound: who is inside holds the mutex in the
map, and the reference count is the number of creations that hold or wait for it, so that
the entry goes only when nobody does.

`ControlPlaneProofs.SessionsOwned` proves `SessionsAreOwned`. `Held` says that a dialled session is its
client's, in nobody else's hands, and not yet anybody's while the worker that dialled it
looks again; the counters (`Counted`) are sums of cardinalities that each insertion, each
removal of one or of many sessions and each close changes on both sides. A removal by key -
by a worker, a reader, an expiry or a drain - is one lemma about any set of clients
(`RemovalsKeep`).

`StoredIsFound` proves `StartFindsStored` from `Commands = {}`: whatever fails and wherever
the server dies, any number of times, its next start finds what Save has acknowledged. `Kept`
is the core: a name leads to a whole certificate no older than the acknowledged one, and when
it leads nowhere its backup is one. `Apart` (a directory has one name) is why a removal or a
write touches no other certificate, `Saving` has what a Save owns at each step, and
`Opening` that the listing the server works on names every backup that is still
needed. A local command opens the store without the lock and may empty the directory a Save
is about to put in place, so that `Kept` fails with it: that is the run `torn_certificate`,
where a certificate in place has lost a file.

`ReloadLeavesRoutes` proves `ReloadConverges`. Listing the containers, reading the routes and
acting on the difference are steps of their own, and what others do in between ends the calm.
`CalmListing` is that as long as it lasts the two lists the reload works on are what runs and
what is routed, so that acting on their difference closes it.

`GraphIsListenedOn` proves `GraphIsServed`, for graphs of any size. `Holds` is the mutex;
`InForce` and `Accounted` say that the listeners between two calls are those of the graph in
force and that each open socket is a listener's, one an Apply has prepared or one it is about
to stop; `Prepares` that an Apply under way has, for each entry it has passed, one listener kept
or bound. "One listener per entry point" is about cardinalities: the entry of a listener is a
bijection from the listeners to the graph (`TrafficIsCounted`), which `OneSocket` makes
injective.

`ReconcileLeavesSettled` proves `ReconcileSettles`. `AllAloneKnow`: a Reconcile that no other
has overlapped knows what it has done so far - each service it has passed is as configured,
the one in hand is in the state its next step expects (`Settling`), and those to come are still
as it has listed them (`IsStill`: a container may end or restart by itself), whatever an
earlier one, cut off anywhere, has left there. `BoxesAreWhole`: a container that exists has
its volume, so that one which is kept needs none made.

`AcknowledgedStays` proves `AcknowledgedIsKept`. The routes are in four places besides the file:
in viper, in the memory, in the backup, and in what the watcher, the coordinator or a call
has read and not yet set. `ClaimsAreKept` says that each of them has what was acknowledged, as
long as it may still be written somewhere. `ChangeIsStored` is why the acknowledgement itself
is sound: once a call has verified its re-read no one holds what was read before its rename.
That is where overlapping reads of viper come in: a watcher that has read the old file and sets
viper after the call's re-read takes the change away again with its next load, and `spoiled`
counts that out. `LockIsHeld`: the memory is not loaded while a call relies on it.

`ControlTyping` proves `ControlTypeOK` of the composite, from the invariants above. The
certificate store needs one of its own, `StoreTyped`: unlike `Kept` it holds with local
commands too, which open the store without the lock.

### What the server keeps

`HousekeepingProofs.SignalsAreHeard` proves `SignalIsHeard`. `RequestIsOwned` makes the one
request file the property of one deploy call from its creation (O_EXCL) until the loop has
renamed it or the call has withdrawn it, so that a removal by name removes what its caller
has written. `LoopIsAsked` says that a signal in the channel, or just taken from it, is for
the request that lies there, and never both, so one place in the channel is enough; what
the loop has taken is another call's than what lies there. `LeftBehind` is about the calls that are over or begin
again. `LifeAssumption` says that no call is named like the states of the file.

`TrustIsKept` proves `TrustSurvives`, with no hypothesis but that lifetimes and bounds are
numbers. While there is no root certificate at most one process makes one and nobody is past
it (`OneRoot`); whoever is past it has read or made the one on disk (`OpenersAgree`), since a
root is never replaced. What a process holds or issues from is sound by the check of
`validateLoadedIntermediate`, whatever pair of files it has found (`IssuerIsSound`); a leaf
is valid where it was last looked at, and no tick falls between that and its use
(`LeavesAreSound`), which needs that the call in flight has somebody waiting for it. All of it
is under "nobody has made a root in a race"; `contended`, once true, stays so.

`SecretsAreRead` proves `ReadsAreComplete`, of calls that overlap without a lock. The history
`settled` says what is known of a key, and the proof that it is known for a reason.
`SettledIsStored` is the core: a read that began now and met nobody would show what is
settled, whatever is stored besides. It survives a change because of `OverlapsAreSeen` - of
what a change names nothing is settled while it lasts, and of two that meet neither settles
anything - and comes true again when the change returns because of `ChangesProgress`: an
undisturbed one has set the entries it is done with and has read the manifest there is, or
has the whole file in the temporary inode. `ReadsAreRight` and `ExpectsSettled` say
the same of a read and what it has shown so far; `StartIsFormed` that a start which moves the
plaintext file is alone. That there is a free inode for every replacement is a matter of
counting (`FreeInode`).

`KeepTyping` proves `KeepTypeOK` of the composite. For `Certificates` it takes that whoever
selects a batch or saves the cursor holds the pass's mutex (`CertInv`), and that a batch is
made of targets although the cursor wraps around. For `Attachments` it says that every
id anybody remembers - the deploy, the map, a clean-up, a listing, a restart - is one that was
given to a container (`DeployFits`, `BoxesFit`, `RestFits`), and that a deploy has an
attachment in work wherever it acts on one. Both list sets of numbers in ascending order.
`InOrderTyped` proves of that operator that it has a member at each place, by counting: a
number's place is how many are below it, two have different places, and so every place up to
the cardinality is taken.

### What is only model-checked

* Liveness under fairness is beyond the prover, and so is ENABLED: `NobodyWaits`,
  `ChangeIsDeployed`, `PreviewIsCollected`, `StopDrains`, `Converges`, `MonitorRevives`,
  `HostIsServedOrTried`, `AttachmentsSettle`.
* What a run checks beyond the hypotheses of its theorem, as far as the bounds go:
  `MonitorRespectsStop` with programs that crash once they are started (`deploy_live`),
  `ChosenServes` with one such crash (`zero_downtime`).
* The four counterexamples, of course.

## 6. Not modelled

The map covers about 16 % of the implementation's lines. Most of the rest is no state
machine: the commands of the CLI and their rendering, decoding and encoding of HTTP and
of configuration, transfer objects, translation to the Docker API.

* **Scheduler**: one goroutine with a ticker of a minute, a flag per entry that keeps an
  entry from overlapping itself.
* **Traffic graph builder** (`usecase/traffic`, `domain/traffic.go`): a pure function from
  the configuration to the graph that `TrafficListeners` starts from.
* **Authentication and tokens**: cryptography and lookups under one mutex.
* **Backups and volumes**: sequential jobs around helper containers and S3; what there is
  of concurrency is a list of recent runs.
* **Images of the runtime** (pull, tag, untag, prune): their references are shared between
  deploys, which the preparation step of `Deploy` leaves out.
* **Docker adapter, admin API, CLI, middleware, logs, health, telemetry**: translation,
  rendering, observation, where they are not named by a module above.

## 7. Plan

Proofs: every invariant and every action property of the passing runs has its theorem. What
is left is to widen hypotheses: `StaysCurrent` and `SparesTracked` with the callers that take
no lock, given a history that says when such a call has met a deploy.

Models, afterwards: the list of recent runs of the backups, the scheduler's entries, the
runtime's images that deploys share.
