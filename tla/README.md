# Verification of KubeCarto

KubeCarto collects Kubernetes resource events, API logs and Envoy metrics. An
*agent* in each cluster watches the cluster and receives telemetry from Envoy
and OpenTelemetry; it uploads everything to one *manager*, which serves it to
*clients* (log-client, mongo-client). This directory holds TLA+ models of the
program's concurrent core, the TLC configurations that check them, and proofs
that TLAPS checks. Paths are relative to `src/`; `PROJECT.json` maps every
definition to its lines.

## 1. Inventory

| Component | State | Operations | Interacts with |
|---|---|---|---|
| Service index, `kubecarto/manager/collector/grpcserver.go` | `svcCache`, `ipToService`: Go maps, no mutex | `AddSvcEvent`, `UpdateSvcEvent`, `DeleteSvcEvent`, `ProcessAPILogs` | called by agents over gRPC; hands messages to the exporter |
| Exporter, `kubecarto/manager/exporter/` | eleven unbuffered channels, eleven lists of streams, one mutex `exporterLock` | eleven `Insert*`, `Send*` and subscription handlers, three workers | fed by the collector; sends to clients' streams |
| Manager lifecycle, `kubecarto/manager/core/manager.go`, `collectorHandler.go`, `exporterHandler.go` | two gRPC servers, five workers, two stop channels, a wait group | `Manager`, `StartCollector`, `StartExporter`, `DestroyManager`, `StopCollector`, `StopExporter` | operating system signals |
| Agent uploader, `kubecarto/agent/uploader/` | three unbuffered channels | `UploadClusterEvent`, `handle*Event`, `UploadAPILogs`, `UploadEnvoyMetrics` | fed by informers and collectors; calls the manager with a deadline |
| Agent Kubernetes handler, `kubecarto/agent/k8s/k8sHandler.go` | informers, `podMap`, `serviceMap`, `deployMap` ("NOT thread safe") | informer callbacks, `LookupK8sResource`, `PatchNamespaces`, `RestartDeployments` | Kubernetes API; the uploader; the collectors |
| Istio patcher, `kubecarto/agent/k8s/istioPatcher.go` | the ConfigMap `istio-system/istio`, kept by the API server | `PatchIstioConfigMap`, `UnpatchIstioConfigMap` | other agents, the user |
| Agent collectors and log processor, `kubecarto/agent/collector/`, `processor/` | one server, two channels | Envoy and OpenTelemetry receivers, `processAPILogs`, `processMetrics` | sidecars; the Kubernetes maps; the uploader |
| Agent lifecycle, `kubecarto/agent/core/core.go` | server, workers, stop channels, wait group | `Agent`, `DestroyAgent` | everything above |
| mongo-client, `clients/mongo-client/` | streams, MongoDB collections | one routine per stream, `Insert*`, `Update*`, `Delete*` | the exporter; MongoDB |
| log-client, `clients/log-client/` | streams | print or write what arrives | the exporter |
| Configuration, entry points, generated protocol code, deployment files | - | - | - |

What is hard:

- **Service index.** gRPC serves calls concurrently. Two updates of one
  service, two services that exchange an IP, and the log worker interleave map
  access by map access, and the Go runtime may end the process when they
  overlap. Correct means: the index names a service only for an IP it claims,
  every IP of a cached service is found, and a log is never attributed to a
  service that does not claim the address.
- **Exporter.** A list of streams is rebuilt while it is iterated over; a
  client may subscribe, stall or leave at any moment. Correct means: a client
  receives exactly what is dispatched from its subscription on, in order. A
  stalled client holds the lock of all kinds.
- **Agent's maps.** Two informers write them, gRPC handlers read them, nothing
  guards them, and an IP passes from one pod or service to another. Correct
  means: an end of a log is named after an object that has the address, and an
  object that is there is found; the models say for which objects that fails.
- **Rollout.** Namespaces are labelled one by one, with copies that may be old,
  while users change them. Correct means: no user's change is taken back, and
  the agent goes on only when every namespace has the label. The restart of
  deployments that should follow does not work: `restartDeployment` writes
  `v1.Now().String()` (`k8sHandler.go:369`) into a label, and a time with spaces
  and colons is no label value, so the API server refuses the update. The code
  says so itself ("this DOES NOT restart deployments", line 358).
- **Lifecycle (manager and agent).** Stop tokens travel over channels shared by several workers,
  workers call `wg.Add` themselves, and `GracefulStop` waits for handlers that
  may never return.
- **Event pipeline.** Each callback starts a goroutine, calls have deadlines
  and are not repeated, actions travel on separate streams, everything may
  restart. Correct means: an event is stored once or lost, and an object whose
  events do not overlap is stored as it is.
- **Istio patcher.** Read, edit and write of a shared document, by agents that
  overlap and die. Correct means: it never enters the agent twice, leaves
  nothing behind, and leaves alone what is the user's.

`PROJECT.json` lists each of these hazards at its line with the properties that
would catch it going wrong. Where the code does go wrong in a way that nothing
in the repository promises it will not, the properties exempt the case and the
hazard has a note that says so.

## 2. Modules

| Module | Models | Checked by |
|---|---|---|
| `ServiceIndex` | the manager's maps | `ServiceIndex.cfg` |
| `ServiceIndexProofs` | its theorems | `tlapm` |
| `Exporter` | the exporter's workers, lock, lists and streams | `Exporter.cfg` |
| `Broadcast` | abstract: a log per kind and its readers; `Exporter` implements it | property `FeedSpec` |
| `ExporterProofs` | theorems of `Exporter` | `tlapm` |
| `ManagerLifecycle` | start and stop of the manager | `ManagerLifecycle.cfg`, `ManagerHang.cfg`, `ManagerFailedStart.cfg` |
| `ManagerLifecycleProofs` | its theorems | `tlapm` |
| `EventPipeline` | a cluster event from informer to database | `EventPipeline.cfg`, `EventOrder.cfg` |
| `EventFeed` | abstract: stored once or lost; `EventPipeline` implements it | property `FeedSpec` |
| `EventPipelineProofs` | theorems of `EventPipeline` | `tlapm` |
| `IstioPatch` | the patcher, agents and the user | `IstioPatch.cfg`, `IstioRollout.cfg`, `IstioExtra.cfg` |
| `IstioPatchProofs` | its theorems | `tlapm` |
| `AgentResources` | the agent's maps, the informers and the lookups | `AgentResources.cfg` |
| `AgentResourcesProofs` | its theorems | `tlapm` |
| `InjectionRollout` | `PatchNamespaces` and `RestartDeployments` | as a part of `AgentLifecycle` |
| `InjectionRolloutProofs` | theorems about the rollout by itself | `tlapm` |
| `AgentLifecycle` | start, telemetry, rollout and stop of the agent; extends `InjectionRollout` | `AgentLifecycle.cfg` |
| `AgentLifecycleProofs` | its theorems; extends `InjectionRolloutProofs` | `tlapm` |
| `MC*` | constants, symmetry and constraints of the small instances | |

Three compositions connect them. `AgentLifecycle` contains the rollout itself.
`EventPipeline` is the whole way of a cluster event: the informers' goroutines,
the agent's uploader, the manager's cache and streams and the client's database,
with `Dispatch` standing for the manager's handler (that it returns is
`InsertReturns` of `Exporter`, what it does to the index is `ServiceIndex`).
And what `ServiceIndex` says of the message it caches, `CacheFollowsCluster` of
`EventPipeline` relates to the service in the cluster.

Every model keeps the code's order of steps and its early returns. An
operator marked "Mutant" in a comment is a plausible bug of the operation
below it; it is not part of any specification and shows that a property
depends on that operation.

### ServiceIndex

An action per map access: `Lookup` reads `svcCache[key]`, `PurgeIP` deletes one
entry, `WriteIP` writes one, `StoreCache` stores or deletes the message,
`InsertSvc` is the exporter's channel. The external and the load balancer IPs
of a message are one set, as the handlers treat both alike. A delete message
carries no IPs (`uploadClusterInfo.go:156-161`), so the branch of
`DeleteSvcEvent` for an unknown service deletes nothing. The log worker reads
the destination and then the source. `FatalErrorRestart` ends and restarts the
process with empty maps whenever two accesses to one map may overlap and one
writes: it is what the Go runtime may do, and the other actions are what it may
do instead.

Two history variables say what the properties exclude: `overlapped`, services
that two handlers changed at the same time, and `contested`, IPs that two
services claimed at the same time. For those the code makes no promise that
could hold: the purge of one deletes the entry of the other.

### Exporter and Broadcast

The nine cluster kinds, API logs and Envoy metrics have eleven copies of one
insert function, one send function and one subscription handler; the model has
one, with the kind as a parameter (`PROJECT.json` names the lines of one copy).
`Acquire` is
`exporterLock.Lock()`, `Send` and `SendToGone` one turn of the loop, `Finish`
the assignment of the list and the unlock. A subscription is one step because
it holds the lock from beginning to end and touches nothing else. A client
`Stall`s when its flow control window is full; then `Send` does not return. A
send to a client that has gone may succeed until the transport notices.

`Broadcast` is what this promises: a log per kind, and readers that join at its
end and read on without gap or repetition. `Feed` in `Exporter` is the
refinement mapping: the log is what workers have begun to send.

### ManagerLifecycle

`main` is the position of the main goroutine in `Manager` and
`DestroyManager`; a token is handed to a worker that is in its `select`;
a gRPC call is an item that a worker takes, passes to a goroutine
(`go exporter.InsertAPILog`), and that the export worker dispatches.
`GracefulStop` is modelled by its contract: it refuses calls and returns when
every handler has. The agents open a stream per log and close it
(`uploadAPILogs.go`), so a log's handler returns like a unary call.

### EventPipeline and EventFeed

An event is numbered per object. `waiting` is the set of goroutines that want
to hand an event to the uploader; the worker takes any of them. A call that
does not arrive is lost, one whose deadline passes goes on in the manager
without the uploader. A stream per action keeps its order; the database's
documents of one object are a sequence, because add, update and delete treat
the first that matches. `disturbed` collects objects with a lost event or with
two events on their way at once. `EventFeed` says what is left when order and
arrival are not promised: each event is stored once or lost. As for the
Exporter, the pods', services' and deployments' copies of the path are one in
the model. `Dispatch` is a handler from the store to its answer in one step:
how the store and the hand-over interleave with those of another event matters
only to events of one object that overlap, and these are `disturbed`.

Agent, manager, client and database may fail or restart at any moment (the
constant `Faults` says which). A restart of the manager (`"manager"`) fails the
calls under way, ends every stream and empties `svcCache`, of which `cached`
keeps the number of the message for each object; `forgotten` collects the
objects whose message was dropped so and has not been sent again. Only the
handlers of services keep such a cache; for the other kinds `cached` is a
variable nothing reads.

### IstioPatch

The mesh is reduced to what the patcher writes (the two addresses, the number
of its own entries in the two lists, the access log switch) and to what it
should leave alone (the edition of the fields it does not know, at the top
level and inside its structures). `PatchParse` reads and edits;
what the structures do not name (`nested`) is gone in the parsed copy.
`PatchReread` and `PatchUpdate` are the two calls of `updateConfigMap`;
`fresh` holds the agents whose second read still has the current
resourceVersion. A conflict or an error is `PatchFails`, after which the agent
destroys itself, as `Agent` does. The history variable `alone` becomes false
when two agents are at work at once or the user points the proxies elsewhere.

### AgentResources

The informer of the pods and the informer of the services are one goroutine
each. A pod's callback makes one map access and is one action; a service's is
`ServiceSeen` and then an action per IP that `removeServiceIPs` deletes or
`addOrUpdateServiceIPs` writes. A version of a service is its type, its cluster
and external IPs and its load balancer's IPs: `Indexed` is the set that both
functions go through. `LookForPod` and `LookForService` are the two accesses of
`LookupK8sResource`. What the callbacks upload is in `EventPipeline`.
`TombstonePanics` is the unchecked type
assertion after a broken watch; `FatalErrorRestart` is the Go runtime's, as in
`ServiceIndex`. The history variables are the cases for which the code makes no
promise that could hold: pods that changed or lost their IP (`moved`) and IPs
that two pods or two services had at a time (`shared`, `contested`).

### InjectionRollout

A namespace has a version, the number of the changes users made to it and the
agent's label. `PatchNamespaces` updates with the copies from its list; the API
server refuses an update of an old copy (`Current`), which ends the function.
`RestartDeployments` is refused at the first deployment outside the agent's own
namespace, always (`RestartRefused`), and by then has changed nothing. So an
agent started with `restartingPatchedDeployments` in a cluster that has such a
deployment patches the mesh and the namespaces and then destroys itself; the
option that the repository's `README.md:120` offers does not work. `Users`
create and change namespaces, create and delete deployments at any moment.

### AgentLifecycle

`main` is the position of the main goroutine in `Agent` and `DestroyAgent`;
`worker` and `waitGroup` are as in `ManagerLifecycle`, but the informers' count
is added by the main goroutine (`RunInformers`) and they are ended by `StopChan`
and not by a token. A log or metric is an item that goes from a handler through
a processor and a goroutine to an uploader, a cluster event one that goes from a
callback to its uploader; a call to the manager is answered, fails or runs into
its deadline. A call of the collector's server that carries several entries
hands them over one by one and returns after the last. An access log stream is
opened and closed by Envoy. `UnpatchPanics` is the unpatch through a client set
that `InitK8sClient` did not make.

## 3. Runs

| Run | Bounds | What it shows |
|---|---|---|
| `ServiceIndex.cfg` | 2 services, 2 IPs, 2 handlers, logs with known and unknown ends; symmetric | `Sound`, `Complete`, `AttributionIsCurrent` |
| `Exporter.cfg` | 3 items of 2 kinds (of 3, two of which share a worker), 2 clients of one kind | `Delivery`, `StaysListed`, refinement of `Broadcast` with its fairness, `InsertReturns` |
| `ManagerLifecycle.cfg` | 2 cluster events, 1 log, 1 client | `WaitIsSound`, `WaitGroupExact`, `AckedIsDispatched`, `KeptOnce`, `ShutdownEnds` |
| `ManagerHang.cfg` | no call, 1 client | refutes "Gracefully stopped": the manager hangs once a client has subscribed |
| `ManagerFailedStart.cfg` | the same | refutes termination after the exporter failed to listen |
| `IstioPatch.cfg` | 2 agents, edits of addresses and 2 of other fields; symmetric | `EnteredOnce`, `AloneIsPatched`, `UnpatchLeavesNoTrace` |
| `IstioRollout.cfg` | 2 agents, no edit; no request fails, nobody is killed | refutes `RunningIsPatched`: an agent that is signalled clears the mesh under its successor, which had found it patched |
| `IstioExtra.cfg` | 1 agent, 2 edits | refutes "all extra fields that Agent will not touch": a lost update |
| `EventPipeline.cfg` | 2 objects of 2 events, every fault | `MirrorUndisturbed`, `CacheFollowsCluster`, refinement of `EventFeed`, `EventsSettle` |
| `EventOrder.cfg` | 1 object of 2 events, no fault | refutes "tracked in real time": an update is stored before the add, and the object's old state stays as a second document |
| `AgentResources.cfg` | 2 pods, 2 services of 3 versions, 2 IPs, 1 lookup; symmetric | `PodSound`, `PodComplete`, `ServiceSound`, `ServiceComplete`, `LookupIsRight` |
| `AgentLifecycle.cfg` | 1 log by a stream, 1 metric by a call, 1 cluster event; 2 namespaces, 1 deployment, 1 change of each namespace by users | `WaitGroupExact`, `NothingCutOff`, `MeshIsCleared`, `EditsSurvive`, `RolloutReachesAll`, `ShutdownEnds`, `UploadsSettle` |

Each run also checks the type invariant of its module, except the five that
refute one thing.

Why the bounds are enough to be interesting: every race in the service index is
between two actors (two handlers, or a handler and the log worker), and two IPs
let one be kept and one be given up in a single update; two workers compete for
the exporter's lock, and two clients of one kind let one fail while the other
is served; two items of one kind show an order; the five workers of the manager
and those of the agent are all there; two agents overlap as a rolling update
makes them; an IP passes between two pods or two services, and a service has
one IP, two, or one of each sort; one namespace is the agent's own and one is
not. Every bound is a constant in the configuration (`MaxEvents`, `MaxEdits`,
the sets).

Three runs leave out states in which parts that do not touch each other are
both busy, to stay small; the safety theorems of section 4 hold without these
constraints.

- `LogOrBothIPs` (`ServiceIndex.cfg`): a log is read while one of the IPs is
  out of use.
- `OneDisturbed` (`AgentResources.cfg`): the pods' addresses are disturbed
  (`moved`, `shared`) or the services' (`contested`), not both. No
  action but a lookup sees both maps.
- `RolloutOrTraffic` (`AgentLifecycle.cfg`): either the agent is configured
  without a rollout, or nothing calls it and the workers have begun when the
  rollout runs. The two meet in the main goroutine only. `ShutdownEnds` and
  `UploadsSettle` are therefore checked of behaviours that keep to one of the
  two; `AgentStopComesCloser` and `UploadComesCloser` (section 4) are proved
  without that limit.

Deadlock checking is off where a system may stop: the bounded events run out,
or the manager or the agent has terminated, panicked or hangs, which other
properties are about.

### Fairness

- `Exporter!FairSpec`: Go runs a goroutine that can run; a `sync.Mutex` hands
  itself to a waiter in the end (starvation mode), so `Acquire` is strongly
  fair. `Send` is strongly fair because a client that stalls again and again
  reads in between. `Resume` is weakly fair: a stalled client reads again or
  the transport drops it. The last one is an assumption about clients that the
  code does not enforce; `InsertReturns` is false without it, and mongo-client
  started with `clusterCfg=none` breaks it (it subscribes to nine streams that
  it never reads).
- `ManagerLifecycle!Spec`: goroutines that can run do, and a channel
  communication that is possible again and again happens, because Go's `select`
  chooses at random. No signal, call, subscription or failure is forced.
- `EventPipeline!Spec`: the uploader takes and sends, handlers dispatch
  (justified by `InsertReturns`), mongo-client's routines read. No fault,
  deadline, cluster event or reconnection is forced.
- `AgentLifecycle!Spec`: weak fairness of `Progress` as a whole, that is, while
  a goroutine of the agent can run, one does, and a deadline passes. Each step
  of it happens at most once per stage, worker, item or call, so none can be
  passed over for ever and nothing stronger is needed. Nothing makes Envoy call
  or close a stream, the manager answer, the API server accept, or a signal
  come; the rollout is therefore not forced to end.
- `ServiceIndex`, `AgentResources` and `IstioPatch` state no fairness: they
  promise nothing that must happen.

## 4. Proofs

`ServiceIndexProofs` proves for all services, IPs, handlers and logs, finite or
not, from `SentinelsAssumption` (the value for "no entry" is not a service and
the mark of a resolved end is not an IP) and `LogsAssumption`:

| Theorem | States |
|---|---|
| `IndexInvariant` | `Spec => []IInv` |
| `TypeCorrect` | `Spec => []TypeOK` |
| `IndexSound` | `Spec => []Sound` |
| `IndexComplete` | `Spec => []Complete` |
| `LogsAttributed` | `Spec => AttributionIsCurrent` |

`Sound` and `Complete` are not inductive: a purge by one handler could delete
the entry another has just written, and nothing in them says it does not. `IInv`
adds that at most one handler works on a service that is not overlapped
(`Serial`), where a handler is between its accesses (`HandlerOK`), that what a
handler has written past its purge is still there (`Written`), and that an
uncontested IP is claimed by one service (`UniqueHolder`), which is why no other
handler's purge can touch it. There is a lemma per action; the actions of the
log worker leave the variables of the index alone. `AttributionIsCurrent`
follows from `Sound` in the state before the step.

`ExporterProofs` proves for all kinds, workers, events and clients, from
`ExporterAssumption` (the functions from kinds to workers and from items and
subscriptions to kinds are functions, and "free" is not a worker):

| Theorem | States |
|---|---|
| `ExporterInvariant` | `Spec => []IInv` |
| `ExporterTypeCorrect` | `Spec => []TypeOK` |
| `LockExclusive` | `Spec => []LockHeld` |
| `NoStreamLost` | `Spec => []StaysListed` |
| `DeliveredInOrder` | `Spec => []Delivery` |
| `ExporterImplementsBroadcast` | `Spec => Feed!SafeSpec` |
| `WorkerStepIsProgress`, `ExporterNeverStuck`, `InsertComesCloser` | why an `Insert*` call returns, see below |
| `StalledClientStopsAll` | a client that does not read stops every kind and every subscription |

Its inductive invariant says, besides these, that a worker holds items of its
own kinds, that a list holds streams of its kind, that a sending worker's
`todo` and `newList` split part of its list and its item is the last of the log
(`Loop`), how far each client is, element by element (`Reads`), and that an
item waits, is held or has been dispatched, one after the other (`Once`). Every
change of a list or a log happens under `exporterLock`, so at most one worker
has an item on its way and a client is behind by at most one: this is why
`Acquire` needs `LockHeld` and `StaysListed` to re-establish `Reads`.
`Delivery` follows by comparing the elements of the two sequences, and `Once`
gives that no item enters a log twice, which `Broadcast!Publish` asks for.

`ManagerLifecycleProofs` proves for all calls and clients, from
`KindAssumption` (a call carries a cluster event, a log or a metric):

| Theorem | States |
|---|---|
| `LifecycleInvariant` | `Spec => []IInv` |
| `LifecycleTypeCorrect` | `Spec => []TypeOK` |
| `CounterExact` | `Spec => []WaitGroupExact` |
| `WaitSound` | `Spec => []WaitIsSound` |
| `ItemsKeptOnce` | `Spec => []KeptOnce` |
| `AckedDispatched` | `Spec => []AckedIsDispatched` |
| `EveryStepIsProgress`, `StopNeverStuck`, `ShutdownComesCloser` | why the manager ends, see below |
| `SubscribedNeverEnds` | `Spec => []ClientHangs`: one subscription, and it never ends |
| `FailedStartNeverEnds` | nor does it after the exporter failed to listen |

`IInv` has two parts that are proved apart. `Workforce` says at each stage of
the main goroutine which workers may have taken a stop token and that `tokens`
is the number of those of the stage that have not: with `WaitGroupExact` this
is why the counter is zero only when all have returned. `Handover` says that a
busy worker holds one item of its kind, that an item whose handler has returned
is in exactly one place (`Placed`); `AckedIsDispatched` follows, since the workers that could still
hold the item have taken their token and hold nothing.

The last two theorems say for every instance what `ManagerHang.cfg` and
`ManagerFailedStart.cfg` show of one: not only may the manager hang, it does so
in every behaviour that gets there, and needs to be killed.

`IstioPatchProofs` proves for any number of agents and edits, from
`EditsAssumption`:

| Theorem | States |
|---|---|
| `PatchInvariant` | `Spec => []IInv` |
| `PatchTypeCorrect` | `Spec => []TypeOK` |
| `NeverTwice` | `Spec => []EnteredOnce` |
| `TurnsArePatched` | `Spec => []AloneIsPatched` |
| `NoTraceLeft` | `Spec => UnpatchLeavesNoTrace` |

An agent works on a copy that may be old, so the invariant speaks of copies
(`Copies`): one that is about to be written as a patch names the agent once, one
that is about to be written as an unpatch does not name it at all. `Turns` says
that while `alone` holds at most one agent is away from its resting states.

`AgentResourcesProofs` proves for all pods, services, versions, IPs and lookups,
from `ResourcesAssumption` (versions are versions; no value stands for two
things):

| Theorem | States |
|---|---|
| `ResourcesInvariant` | `Spec => []IInv` |
| `ResourcesTypeCorrect` | `Spec => []TypeOK` |
| `PodMapSound`, `PodMapComplete` | `Spec => []PodSound`, `Spec => []PodComplete` |
| `ServiceMapSound`, `ServiceMapComplete` | `Spec => []ServiceSound`, `Spec => []ServiceComplete` |
| `LookupsAreRight` | `Spec => LookupIsRight` |

The pods' half is inductive as it stands. The services' half needs, as in
`ServiceIndex`, what a callback has written past its purge (`Written`) and that
an uncontested IP is claimed by one service (`UniqueClaim`): another service's
purge cannot touch its entry. `LookupIsRight` follows from the invariant in the
state before the access.

`AgentLifecycleProofs` proves for all calls, items, namespaces and deployments,
from `LifecycleAssumption` and `RolloutAssumption`:

| Theorem | States |
|---|---|
| `AgentInvariant` | `Spec => []IInv` |
| `AgentTypeCorrect` | `Spec => []TypeOK` |
| `AgentCounterExact` | `Spec => []WaitGroupExact` |
| `AgentCutsNothingOff` | `Spec => []NothingCutOff` |
| `AgentClearsMesh` | `Spec => []MeshIsCleared` |
| `UsersEditsSurvive` | `Spec => EditsSurvive` |
| `RolloutIsComplete` | `Spec => []RolloutReachesAll` |
| `AgentImplementsRollout` | `Spec => RolloutSpec` |
| `AgentStepIsProgress`, `AgentStopNeverStuck`, `AgentStopComesCloser` | why the agent ends, see below |
| `UploadNeverStuck`, `UploadComesCloser` | why an upload is settled, see below |

`IInv` is `Workforce` (as for the manager, with the informers), `Handover` (a
call to the manager keeps its uploader busy, what a handler inserts belongs to a
call being served), `MeshPart` (only an agent with a client set has patched) and
`RolloutPart`. The last rests on `InjectionRolloutProofs`: a copy is of an object
that exists, is not newer than it, and has the same users' changes if the
versions agree (`CopiesFaithful`), which is why the version check of the API
server protects the users' changes; and `PatchNamespaces` leaves a namespace
without the label only while it has still to update it or once a user has
changed it, so past the function there is none.

`InjectionRolloutProofs` also treats the rollout by itself, as the specification
`RolloutSpec` in which the two functions and the users step in any order:
`RolloutInvariant` (`RolloutSpec => []RolloutInv`) and `RolloutKeepsEdits`
(`RolloutSpec => EditsSurvive`). `AgentImplementsRollout` shows that the agent's
life cycle is an implementation of it, and `UsersEditsSurvive` is the two put
together. So that no edit is taken back does not rest on the order in which
`Agent` calls the functions, nor on calling each of them once;
`RolloutReachesAll` does.

`EventPipelineProofs` proves for all objects, any number of events and any
faults, from `FaultsAssumption`:

| Theorem | States |
|---|---|
| `PipelineInvariant` | `Spec => []IInv` |
| `PipelineTypeCorrect` | `Spec => []TypeOK` |
| `PipelineIsFeed` | `Spec => FeedSpec`: the pipeline implements `EventFeed` |
| `StoreMirrors` | `Spec => []MirrorUndisturbed` |
| `CacheFollows` | `Spec => []CacheFollowsCluster` |
| `EventsOnlyMoveOn`, `EventsNeverStuck`, `EventsComeCloser` | why events settle, see below |

The argument goes through the abstract specification. `Flow` says that an event
on its way is in one place: a goroutine, the uploader, a handler or a stream,
which holds it once. From it every step of the pipeline is a step of
`EventFeed` or none (`FeedStep`). What the store and the cache come to (`View`,
`CacheOK`) is then proved of these few steps instead of the pipeline's many.

### What can be proved of liveness

The five liveness properties (`InsertReturns`, both `ShutdownEnds`,
`EventsSettle`, `UploadsSettle`) rest on one argument. In each module a set
holds the steps that are still ahead (`Ahead`, `ToCome`): a stage of main, a
token, an item's next place, a stream that has still to be offered an item.
Three theorems per module carry the argument, for every instance whose sets of
calls, items, clients, objects and namespaces are finite:

1. *The work is bounded.* A step of the program makes the set smaller and
   nothing else makes it larger (`WorkerStepIsProgress`, `EveryStepIsProgress`,
   `AgentStepIsProgress`, `EventsOnlyMoveOn`). This excludes livelock: no fault,
   client or user can keep the program going round in circles.
2. *It is never stuck.* As long as the goal is not reached, the guard of some
   step holds to which the specification is fair, or what holds it up is named
   in the theorem: a client that does not read, a client that has subscribed, an
   exporter that did not start, an open access log stream (`ExporterNeverStuck`,
   `StopNeverStuck`, `AgentStopNeverStuck`, `UploadNeverStuck`,
   `EventsNeverStuck`). This excludes deadlock among main, workers, handlers,
   channels and the lock. It needs more than the safety invariant: that the
   workers that are to take a token have been started before main stops
   (`Staffed`), or that the uploader waits only for a handler that is at work
   (`Attended`).
3. *It comes closer.* From a state with `n` steps ahead, the goal or a state with
   fewer than `n` is reached (`InsertComesCloser`, `ShutdownComesCloser`,
   `AgentStopComesCloser`, `UploadComesCloser`, `EventsComeCloser`): a guard
   that holds goes on holding while nothing is taken off the set, so fairness
   forces a step that takes something off. These are temporal theorems, from
   `Init /\ [][Next]_vars` and the fairness of the specification.

Two things stay outside. The fairness of the third kind of theorem is written
with each action's guard (`CanStop`, `CanReceive(w)`, `CanGoOn`, ...) where `WF`
and `SF` have `ENABLED`, of which the prover knows nothing; that the two are
equal can be read off the actions, and TLC, given a module that extends the
`MC` module and the proofs, finds `CanGoOn <=> ENABLED <<Progress>>_vars` and
its like true in every state of the runs. And that `n` cannot fall for ever is
an induction over a temporal formula, which needs a theorem with an operator as
a parameter. The five properties themselves are therefore what TLC checks, on
the small instances; the theorems say that nothing but size separates those
from the others. They hold without the constraint `RolloutOrTraffic`, under
which `AgentLifecycle.cfg` checks its two.

The proofs show which fairness is needed. `FairSpec` of `Exporter` is strongly
fair to `Acquire`, as a `sync.Mutex` is; `InsertComesCloser` needs weak fairness
only, for whoever takes the lock instead leaves less ahead. Strong fairness to
`Send` is needed: a client may stall and resume without end. `ShutdownComesCloser`
does not use the strong fairness of `ManagerLifecycle` either. With events
without end it would matter, as another goroutine could always be first.

Only model-checked: the five liveness properties as such, the fairness of
`Broadcast`, and the five runs that refute something (of two of which the
theorems above give the general form).

## 5. Not modelled

- Conversions between Kubernetes, Envoy, OpenTelemetry and protocol messages:
  records are model values, and no property tells their fields apart.
- Configuration and entry points: flags and environment variables read once at
  start. The two of them that change what the agent does are `config` in
  `AgentLifecycle`.
- Generated protocol code and record types; deployment files.
- log-client's files and terminal, and mongo-client's routines for API logs and
  metrics, which insert what they receive: pure input and output behind a
  client of the exporter like any other.
- The informers themselves, gRPC, the API server, Envoy and MongoDB are external
  and modelled by what the code relies on.
- The refusal of an unpatch or a patch is a choice in `AgentLifecycle`; why it
  happens is in `IstioPatch`. The two are not composed.
- Real time: a deadline is an action that may happen whenever the call is
  unanswered.

## 6. What is left

1. `ServiceIndex` fed by the reordering uploader in one module, with IPs: for a
   service whose events do not overlap and an IP that nobody else claims, the
   index then names what the cluster has. Today two results meet at the cached
   message: `CacheFollowsCluster` on one side, `Sound` and `Complete` on the
   other.
2. `AgentLifecycle` with several instances of the agent over the ConfigMap of
   `IstioPatch`, for rollouts of the agent in which one instance unpatches what
   its successor has found patched (`IstioRollout.cfg` shows that case alone).
3. A larger instance of `AgentLifecycle` with traffic during the rollout.
