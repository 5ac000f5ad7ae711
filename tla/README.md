# A TLA+ model of dockyards-talos

`dockyards-talos` runs beside the Dockyards platform. It serves the Talos cluster discovery
protocol, and it has Kubernetes controllers that put routes onto Talos nodes and track Talos and
Kubernetes releases. This directory models the parts in which concurrency and failure are hard to
test: the discovery server with its state on disk and the process around it, and the two controllers.

## Inventory

| Part | State | Operations | Interacts through |
|---|---|---|---|
| Discovery server (`internal/discovery/cluster_discovery_server.go`) | affiliate map under one mutex; list of weak pointers to watcher channels under another; one channel per watcher | `AffiliateUpdate`, `AffiliateDelete`, `List`, `Watch`, `Hello`, `Close`; internally `collectGarbage`, `broadcast`, `broadcastCurrentState` | gRPC clients, channels, the Go collector (weak pointers) |
| Garbage collection loop (same file) | none | tick: `collectGarbage`, `broadcastCurrentState` | map, watcher list |
| State persister (same file) | own map of affiliates | apply one message, save everything | its channel, the state provider |
| State providers (`json_file_state_provider.go`, `discard_state_provider.go`, `state_provider.go`) | the JSON file | `Load`, `Save` | file system |
| Link config controller (`controllers/linkconfig_controller.go`) | annotation `dockyards.io/link-config-state` of the Machine | `Reconcile`, `reconcileMissingLinkConfig`, `linkConfigToMachines` | API server through caches, work queue, injector |
| Talos route injector (`internal/routes/talos_injector.go`) | none; changes the node's machine configuration | `EnsureRoutes` (read, replace, apply, wait) | Talos API of one node |
| Gateway derivation (same controller) | none | `deriveGatewayFromVMPod` and its helpers | pods |
| Release controller (`controllers/dockyardsrelease_controller.go`) | status of Releases, image repositories and policies | `Reconcile` | API server, Flux |
| Node pool webhook (`webhooks/`) | none | `validate` | API server |
| Commands (`cmd/`) | none | wiring, flags; `cmd/dockyards-talos`: serve, run the manager, `GracefulStop` on SIGINT | gRPC server, signals |

What is hard:

- *Discovery server.* The map and the watcher list have different mutexes, so a change and its
  announcement are two steps and announcements overtake each other. `broadcast` does blocking
  sends while it holds the watcher mutex. Every handler collects garbage with a time it read before
  it got the mutex. Watchers vanish when the Go collector clears a weak pointer.
  Correct means: watchers see one order without gaps; a refresh is never lost to a collection; a
  list shows nothing that was registered before it and had expired; calls return; connected clients catch up.
- *Persistence.* `Save` truncates before it writes; the process may die in between; failures, also of
  reading the file at the start, are only logged. Correct means: what has been processed survives a restart; the file catches up.
- *Process.* On SIGINT `main` calls `GracefulStop` and returns; a goroutine may not even have called
  `Serve` by then. Correct means: the process ends, and what it acknowledged is in the file.
- *Link config controller.* It remembers what it has put on a node only in an annotation it writes
  after the node was changed and verified; it reads that annotation from a cache. Correct means:
  desired routes get there, routes that are no longer desired go away, through failing calls,
  retries, crashes, late caches, and pods that move and that nobody watches.
- *Release controller.* Every call of a reconcile may fail, and a deferred patch of the status runs all
  the same; it decides from caches what to create and patch; the tag it reads may belong to a range the
  Release no longer has. Correct means: no half-built status, and in the end the newest tags.

`PROJECT.json` lists the hazards one by one, each with its line and the properties aimed at it.

## Modules

```
ClusterDiscoveryServer <- DiscoveryPersistence <- DiscoveryService <- MCService
       ^                          ^-------------- MCPersistence
       '-- DiscoveryBroadcast <- MCDiscovery
                : implements AtomicBroadcast
TalosInjector <- LinkConfigReconciler <- MCLinkConfig
ReleaseReconciler <- MCRelease

ClusterDiscoveryServer_proofs <- DiscoveryBroadcast_proofs <- DiscoveryPersistence_proofs
                                                                 <- DiscoveryService_proofs
NaturalsLeast <- LinkConfigReconciler_proofs, ReleaseReconciler_proofs
```

(`<-` is EXTENDS.) Definitions whose name ends in `_Something` and whose comment begins with "Mutant"
are plausible mistakes in the code; each makes a property fail. `X_proofs` extends `X` and proves theorems
about it; `NaturalsLeast` is the least-number principle.

### ClusterDiscoveryServer

One process per goroutine: `Handlers` (unary RPCs), `Streams` (`Watch` calls), `GC` (the loop), and
the persister, which here only drains its channel, as it does with the discard provider. A goroutine
is at one of the points of `Control`, which lie between critical sections:

| Code | Model |
|---|---|
| `ClusterAffiliates` | `clusterAffiliates`, a function with `Nil` for absent keys; each `With` on it is one step, since its callbacks never block |
| `watchers`, its mutex | `watchers` (whose weak pointers are listed), `mutex` (who holds it across a broadcast) |
| loop of `broadcast` | `BroadcastLock`, `BroadcastValue` (resolve a weak pointer), `BroadcastSend` (block while full), `BroadcastUnlock`; `todo`, `target` are its loop state. Watchers are visited in any order, which includes the order of the list |
| `collectGarbage` | `StartCollect` (read the time), `CollectGarbage` (map), a broadcast, `PruneWatchers` |
| RPC handlers | `Call`, then collection, then `AffiliateUpdate`, `AffiliateDelete` or `List` |
| `Watch` | `Watch` (register), `WatchCollects` (read the time, after the mutex is released), collection, then `Receive`, `SendFails` or `WatchEnds` |
| `garbageCollectionLoop` | `Tick`, collection, `BroadcastCurrentState` |
| weak pointers | `reclaimed`; `GoGC` adds channels whose variable is unreachable: those of returned `Watch` calls and, as soon as the server exists, the persister's |

A stalled client is a stream that does not take `Receive`; in the code it holds one more message, in
its blocked `Send`, which a channel larger by one accounts for. `view` is what the client behind a
stream has been told. `gcNow` of a handler is kept until it answers, so that a property can speak
about it, and an affiliate has the time of its last update (`writtenAt`) for the same reason. Data,
endpoints and identifiers are model values. TTLs are integers: the code accepts negative ones, which
register an affiliate that has already expired.

### AtomicBroadcast and DiscoveryBroadcast

`AtomicBroadcast` is what the watcher list promises: a message is appended to the unbounded queues of
all subscribers in one step; a subscriber reads its own queue from the front; who leaves is promised
nothing. `DiscoveryBroadcast` maps the server to it: subscribers are the listed channels whose weak
pointer is not nil, and the queue of a subscriber is its channel followed by the message of the
broadcast in progress if that has not visited it yet (`Pending`). So a message counts as delivered to
all when the mutex is taken, and the loop, the blocking sends and the clearing of weak pointers are
stuttering or `Leave` steps.

### DiscoveryPersistence

Extends the server with `pstate` (the persister's map), `file` (whether it parses, what it lists) and
`saving`. `PersistReceive` is one round of `statePersister` up to the call of `Save`; `SaveCreate`
truncates, `SaveWrite` writes, each may fail if `FileFaults` says so. `Crash` kills the process at
any point and starts it again from the file; `Load` is the set of outcomes of reading it: what the file
lists, nothing if it does not parse, and, with the fault `"read"`, nothing although the file is intact
(it stays as it is until the first `Save` overwrites it). A missing file is one that does not parse: the
two load alike. Affiliates with the empty id are in the map and not in the file, as in the code. After a
failed save or load `saving` is `"failed"` until the next message: the code forgets the failure, the
model keeps it so that `Durable` can except it. A crash is one of the process; the file system itself
keeps its promises.

### DiscoveryService

The server and its persister inside `main` of `cmd/dockyards-talos`. `Works` is any step of
`DiscoveryPersistence`; new calls need a process that is serving and has not been interrupted.
`Interrupt` is the first SIGINT: `m.Start` returns and the deferred `GracefulStop` is called.
`GracefulStopReturns` needs every handler and stream to have returned, and ends the process. `Serve`
after `GracefulStop` returns an error and `os.Exit(1)` follows; so it does when the manager fails
(`Fails`). `Restart` is `Crash`, from any state. `GracefulStop` itself (refuse new calls, wait for old
ones) is external and modelled from its use.

### TalosInjector and LinkConfigReconciler

`TalosInjector` has the pure functions of the injector as operators on sets. A machine configuration
maps interfaces to the routes of their document. A network stands for a destination with its metric;
the code's sorted lists are sets. `TrimSpace` is kept because verification forgets it.

`LinkConfigReconciler` is one Machine with its LinkConfigs, the two caches, the work queue and the
node. Each call to the outside is a step: `GetActive`, `Apply`, `Wait`, `Persist`, and its failing
counterpart, enabled by `Faults`. `Fail` puts the Machine back into the queue, as controller-runtime
does on an error. `CacheLag` says whether a reconcile may read outdated caches. The secret and the
pods are not watched. `"list"` loses the event of a LinkConfig, as `linkConfigToMachines` does.

The gateway of a route without one comes from a pod. `pods` gives each pod its annotation
`k8s.ovn.org/pod-networks`, a set of networks with addresses and gateways (`gateway_ip` followed by
`gateway_ips`). `findVMPodForMachine` is the set of pods the code may pick, those with the annotation
first; `selectGatewayFromOVNPodNetworks` the set of outcomes, since a Go map is visited in random
order and the first match decides. The reference definition `AgreedOn` says independently, for all
pods and networks, which gateway there is if they do not contradict each other.

### ReleaseReconciler

Releases with their status, one image repository per Release, image policies, the controller's caches
of all three, the work queue and Flux, which picks the newest published tag in a policy's range. A
reconcile is `Reconcile` (read the cache), `EnsureRepository`, one `EnsurePolicy` per range,
`PatchStatus`; each call may fail. `Ensured` is the object `CreateOrPatch` leaves in its argument: the
tag in it is the cached one, or, after a patch of the range, the one chosen for the old range. If the
object exists and the cache does not have it yet the creation fails. `Merged` is the merge patch of
the status: only fields that differ from what was read. `StatusOf` keeps the code's asymmetries: a
Kubernetes release without a parsable tag keeps its old status and never clears the URL. Ranges with
characters no object name may have (`Unnameable`) make the call for their policy fail. Tags have a
`Rank`, their semver precedence, 0 if they do not parse. Flux is external.

## Runs

| Run | Shows |
|---|---|
| `discovery_safety` | `BroadcastIsAtomic`: the server implements `AtomicBroadcast`. `TotalOrder`: what any two live watchers have still to read are suffixes of one sequence. `WedgeIsPermanent`: a broadcast stuck on a channel nobody reads never gets loose. `ListFresh`, `NoEarlyExpiry` with two handlers and the loop racing with the clock, and TTLs that may be negative |
| `discovery_liveness` | `CallsReturn`, `ClientsInformed`, each up to `Wedged`: the client may connect after an update, and the loop may announce a content after a newer one; the rebroadcast makes up for either |
| `persistence_saved` | `SavedWhileAttached`: through failing saves, an unreadable file and a crash the file catches up. `Durable`: a crash loses nothing processed unless a save was under way, the last save or load had failed, or the file cannot be read. `ExpiredCollected`, up to `Wedged`: the loop collects what has expired, loaded affiliates too |
| `service_stop` | `StopsUnlessHeld`: only a client that stays or a wedge keeps an interrupted process alive |
| `release_status` | `NoPartialStatus`: a failed reconcile changes no status; `VersionsAnnounced`: the status comes to name the newest tags of the present spec |
| `linkconfig_converges` | With current caches and without late failures: `AnnotationCovers`, the annotation names every interface with routes; `Authoritative`, `CleanedUp`, the node ends with exactly the desired routes |
| `linkconfig_faults` | `DesiredApplied`: with every fault, lost events, lagging caches, moving pods and ambiguous annotations the desired routes still arrive, with the gateway of `AgreedOn`; `AppliedWhenPersisted`: an annotation is only written when the managed interfaces have exactly its routes; `UnmanagedKept`: other interfaces are never touched |

Runs that show a disagreement between the code and what the repository says of it:

| Run | Shows |
|---|---|
| `discovery_wedge` | A client leaves with a full channel: the broadcast and the watcher mutex are stuck, and with them the collection loop, against the help of `--gc-interval`. What expires later stays, unless the `collectGarbage` of some RPC takes it out of the map before that RPC gets stuck itself |
| `persistence_detached` | The Go collector detaches the persister, nothing is saved any more, against the help of `--state-path` |
| `persistence_ghost` | A deletion announced before an earlier update leaves the deleted affiliate in the file, against the same |
| `service_loses` | An update has returned to its client, the process is stopped gracefully, and the file does not have it: nothing waits for the persister, against the help of `--discovery-state-path` |
| `linkconfig_stale` | A reconcile reads the Machine from before its own last annotation and forgets an interface, whose routes are never pruned, against "authoritative" in the repository's README |

The same leak follows, with current caches, from any fault after the node was changed: with
`Faults = {"wait"}` (or `"reply"`, `"patch"`, `"crash"`) and `CacheLag = FALSE`, `Authoritative` is
violated too, since the annotation then stays behind the node.

### Bounds

- Channels hold 1 message instead of 1024: what matters is that a channel can be empty and full, and that
  a broadcast can find either. (`discovery_safety` with two messages and the TTL 0 passes too, without
  the two properties about expiry.) Two handlers and the loop give every pair of concurrent operations.
  One affiliate is enough for properties about one key; `persistence_saved` adds the empty id.
- `MaxTime` 1 with the TTL 0 gives times at and after a deadline, the TTL -1 (`discovery_safety`) also
  deadlines before the update. The persistence runs have no streams, on which what they check does not
  depend. A process that stops needs no clock (`service_stop`), nor does an affiliate that stays
  (`discovery_liveness`).
- `discovery_liveness` has one handler with three calls, so an older content comes after a newer one
  when the loop has read the map before the update and broadcasts after it. Two handlers that overtake
  each other, with two calls, are too many for both properties within the bounds of a run;
  `ClientsInformed` alone passes on that instance.
- `MaxEdits` bounds users' changes, changes of pods and publications of tags: two are a create and a
  change, or a write and a pod that moves; three add a deletion or switch (`linkconfig_converges`). A
  Release whose type changes and changes back needs three and is beyond `release_status`.
- `MaxCalls`, `MaxCrashes` bound requests and crashes. Faults are not bounded.
- Deadlock checking is off: with all calls and edits used up and nothing in flight the system rests.

### Fairness

Goroutines are scheduled (weak fairness of their steps). Go's mutexes hand over to a waiter after a
millisecond, hence strong fairness of acquiring the watcher mutex (`LocksWatchers`). The ticker fires and time passes.
A connected client reads: this is an assumption about clients which the code does not enforce, and
a client that stalls for good without disconnecting blocks the server just as `Wedged` describes.
Clients need not call, connect or disconnect, and nothing is assumed of the Go collector.

In the controllers, watches deliver, queued work is taken, and a call repeated for ever does not fail
for ever (strong fairness); user edits are not assumed. Resyncs, which controller-runtime does every
ten hours, are assumed only where nothing else heals: in `FaultySpec` (an event lost by
`linkConfigToMachines`, a pod that moves after a success) and in `ReleaseReconciler` (the repository,
which is not watched). Flux scans. In `DiscoveryService` the fairness of the server holds as long as
the process lives. A save that is repeated for
ever does not fail for ever.

## Proofs

All theorems hold for every value of the constants that satisfies the modules' assumptions: any
numbers of handlers, streams, keys, interfaces, LinkConfigs, pods, Releases, any channel capacity, any
TTLs, any set of faults. The assumptions say that goroutines are distinct, that capacities and ranks are
natural numbers and TTLs integers, that `Nil` is none of the values it stands beside, and what a padded gateway is. TLC evaluates
them on every run.

`ClusterDiscoveryServer_proofs`

- `TypeCorrect`: `Spec => []TypeOK`. `TypeOK` is not inductive: a handler's request must be known to
  be a request where the handler uses it (`RequestInv`, following the request through the broadcast
  inside `collectGarbage`), and leaving a broadcast must lead to a point of the code
  (`HolderInv`). `Typed` is the conjunction.
- `WedgePermanent`: `Spec => WedgeIsPermanent`. `LockInv` adds that a target or a rest of the watcher
  list exists only while somebody holds the mutex; then in a wedged state every step that
  needs the mutex is disabled, the holder cannot send, and the stream cannot get to its loop.
- `ListAlwaysFresh`: `Spec => []ListFresh`. `TimeInv`: the time a collection works with is not in the
  future. `FreshInv`: from its `collectGarbage` until it reads the map, every entry a handler sees that
  had expired at its time was written since, because whatever others put in is written now
  (`MapStaysFresh`). With TTLs that are not negative such an entry does not exist.
- `NothingExpiresEarly`: `Spec => NoEarlyExpiry`, from `TimeInv` and the list of actions that change
  the map (`MapChanges`).

`DiscoveryBroadcast_proofs`

- `StepEffect` is the heart: seen from the live watchers and their queues (`Pending`: the channel and, if
  the broadcast under way has not come to it, its message), a step appends one message to all queues,
  takes one from the front of one, adds a watcher with an empty queue, removes some, or does nothing.
  It needs `StartInv` (a stream that has not registered is not listed and its channel is empty) and
  `VisitInv` (the channel being sent to is not visited again); `QueueInv` is the conjunction with
  `Typed` and `LockInv`.
- `BroadcastsTotallyOrdered`: `Spec => []TotalOrder`, each effect preserving the suffix relation.
- `ImplementsAtomicBroadcast`: `Spec => BroadcastIsAtomic`, each effect being an action of
  `AtomicBroadcast` or a stuttering step under the refinement mapping.

`DiscoveryPersistence_proofs`, `DiscoveryService_proofs`

- Every step is a step of the server, a stutter for it, or a crash (`MemoryStep`), so the server's
  invariants (`MemoryInv`) carry over once a restart is shown to establish them from any file.
- `PersistTypeCorrect`, `ListFreshAfterRestart`, `OrderedAfterRestart` follow. `NothingSavedIsLost`:
  `PersistSpec => Durable` needs `LoadInv`: while no save is under way and the last save or load has
  not failed, the file lists the persister's map, and neither ever has an affiliate without an id. The
  three exceptions are part of `Durable`: in each of them the code may lose state.
- `ProcessImplementsPersistence`: `ServiceSpec => PersistSpec`; `ProcessDurable` follows, with the same
  exceptions.

`ReleaseReconciler_proofs`

- `TypeCorrect`: `JobInv` relates the loop index to the ranges; `PolicyInv` says that a cached policy
  exists (nobody deletes one), which `CreateOrPatch` on an outdated cache relies on. The lemma
  `LatestVersionIsFirstGreatest` says what the code's loop over the tags computes.
- `FailureKeepsStatus`: `Spec => NoPartialStatus`, because until the loop has ended the status the
  deferred patch compares is the one that was read (`JobInv`).

`LinkConfigReconciler_proofs`

- `TypeCorrect`: with `JobInv`: outside of the idle state there is a job, whose managed interfaces are
  those of its routes and of the state it has read. `OVNGatewayType` and `DerivedGatewayType` show that a
  derived gateway is a trimmed gateway, whichever pod and network the code hits upon.
- `AnnotationAlwaysCovers`: `Undisturbed` implies `Spec => []AnnotationCovers`. `Undisturbed` is what the
  run `linkconfig_converges` assumes: reconciles read current caches, and nothing fails between the
  change of the node and the patch, neither a call (`"reply"`, `"wait"`, `"patch"`, `"crash"`) nor the
  verification of a padded gateway. Without it the property is false: that is the finding
  `linkconfig_stale` and the remark below it. `CoverInv` says phase by phase where the interfaces with
  routes are recorded: until the node is changed in the annotation, from then on in the job. An
  interface that is to lose its routes is in the annotation, hence managed, hence emptied
  (`UpdatedCovers`).
- `AlwaysAppliedWhenPersisted`: `Spec => []AppliedWhenPersisted`, and `UnmanagedAlwaysKept`:
  `Spec => UnmanagedKept`, with every fault and without `Undisturbed`. `ReconciledExactly` shows that
  `reconcileManagedLinkRoutes` leaves exactly the (trimmed) desired routes on managed interfaces;
  `ExactInv` carries that through `Apply` and `Wait`, where verification excludes padded gateways.

`NaturalsLeast` has the least-number principle, from the library's theorem on well-founded relations.
Facts about all prefixes of a list (the first gateway that is not blank, the first tag with the greatest
rank) are proved by their least counterexample, since the library's induction theorems, which take an
operator as a parameter, are out of the provers' reach.

Model-checked only: liveness, which is out of the prover's reach (`CallsReturn`, `ExpiredCollected`,
`ClientsInformed`, `SavedWhileAttached`, `StopsUnlessHeld`, `VersionsAnnounced`, `Authoritative`,
`CleanedUp`, `DesiredApplied`). Every invariant and every action property a passing run checks is proved.

## Not modelled

- `Hello` (no state) and `Close` (nothing calls it; it would close channels that handlers may still
  send to). `cmd/discovery-service` only serves until it is killed, which is `Crash`.
- The node pool webhook: one condition on one object. API types and generated code.
- Leaked file descriptors in `Save`.
- An annotation a user has made undecodable: every reconcile then fails at once.
- Other writers of a node's machine configuration, among them a second replica of the controller.
- Releases whose policy names collide; image policies or repositories deleted by somebody else.
- TLS, flags, logging, manifests, the dummy client.

## Plan

1. *Done:* discovery server, persistence, process, link config controller with injector and gateway
   derivation, release controller; the refinement of broadcasts.
2. *Done:* proofs of all invariants and action properties of the passing runs and of the refinement.
3. Safety facts behind the liveness properties, where they can be stated as invariants and proved: that
   a retry after a late fault finds the node already changed and goes on to the annotation; that the
   status of a successful reconcile names the tags it was given.
4. Two cluster ids and the isolation of clusters; a second writer of the machine configuration.
