# Verification of nmos

nmos is a C++ library for AMWA NMOS devices: IS-04 discovery and registration,
IS-05 connection management. A program links the *node* library to announce
senders and receivers and to have them connected, or the *client* library to
find and connect those of others. This directory holds TLA+ models of the
library's concurrent parts, the TLC runs that check them and TLAPS proofs about
them. Paths are those of the repository, below `src/`.

## 1. The system

| Component | Code | State | Operations and actors | What is hard | What makes it correct |
|---|---|---|---|---|---|
| Activator | `node/src/activator.cpp` | map time → resource, `m_bWait`, threads | add and remove an activation (HTTP thread); its own threads wait for the first one and call the node back | condition variable with a deadline, several threads on one queue, callback under the mutex, destruction | no lost wakeup; runs what is first, not early; erases what it ran; ends |
| Connection management (IS-05) | `node/src/is05server.cpp`, `Stage`/`Activate` in `nodeapiprivate.cpp`, `base/src/senderbase.cpp`, `receiverbase.cpp`, `activation.cpp`, `connection.cpp` | `m_Staged`, `m_Active` of each resource, the queue | PATCH (HTTP thread), the application's answer, scheduled activation (activator's thread), IS-04 PUT target (the other HTTP thread) | three threads, a copy that is written back, no lock over staged parameters *and* queue | a lock always stands for a queued activation and the reverse; every PATCH is answered |
| Registration | `node/src/nmosthread.cpp`, `nodeapiprivate.cpp` 378–934, `nodezcposter.cpp` | `m_mRegNode`, `m_sRegistrationNode`, status, signal, TXT record | node's thread: find, register, heartbeat; browser's thread: found, withdrawn; main thread: commit, stop | unlocked reads, one-slot signal, failover, answers that fail in the middle | registered in the end; heartbeats exactly when registered; unregisters; stops |
| Node lifecycle | `node/src/nodeapi.cpp`, `Init()`, `StartServices()`, `StopServices()`, `Add`/`RemoveBrowseDomain()` in `nodeapiprivate.cpp` | servers, ports, `m_bRun`, browsers | configure, start, stop (main thread) | calls that are legal only before or after the start | what is configured is what starts; stopping ends every thread |
| Resource model | `node/src/resourceholder.cpp`, `base/src/resource.cpp`, `Add*`/`Remove*` in `nodeapiprivate.cpp` | staged and committed maps, versions, `ver_` counters | add, remove, update, commit | changes that are committed but not published | each committed change reaches TXT record or registry |
| Registry | `common/src/registryapi.cpp`, `registryserver.cpp`, `registrymemory.cpp`, `registryholder.cpp` | resources of all nodes, last heartbeats, `m_sPut`, `m_vPath` | POST, DELETE, GET, heartbeat (HTTP threads), garbage collector, stop (main thread) | check-then-add against collection; one body and one path for all HTTP threads; a lock held while threads are joined | collections take whole trees; silent nodes go; stopping ends |
| Client: discovery | `client/src/clientprivate.cpp` (`Wait()` to `GetNodeDetails()`, `NodeBrowser()`), `clientholder.cpp` | `m_eSignal`, `m_pInstance`, `m_lstResolve`, mode, holders, `m_setStored` | browser's and HTTP threads hand over events; client's thread; pool worker that browses a node | events overwritten before they are read; removal during a browse | the query server is asked; what a node no longer has goes; threads end |
| Client: catalogue | `clientprivate.cpp` (`Add…`, `RemoveResources()`, queries, websockets, grains), `clientapiposter.cpp` | holders, `m_mmQuery`, websockets | add and remove a query, browse, query server found, grains | what the application is told is filtered by the queries there are at that moment | told of all that is listed of a kind it asked for, and when it goes |
| Client: commands | `clientprivate.cpp` (`SetHttpRequestDone()`, `HandleHttpRequestDone…`, `Subscribe()` to `Disconnect()`, `ConnectThread()`, `DisconnectThread()`) | `m_asyncResponse`, the tasks of the pool | PUT target, GET and PATCH of IS-05, connect, disconnect | one slot for all answers; a connection of five requests each of which can fail | no answer twice; a success told last is true; every connection gets a result |
| Thread pool | `base/src/threadpool.cpp` | work queue, done flag | submit, worker, destruction | shutdown against a worker about to wait | every worker ends |
| Transport parameters, constraints, SDP | `base/src/transportparams.cpp`, `constraint.cpp`, `connection.cpp`, `sdp.cpp`, `ioresource.cpp` | `m_Staged`, `m_Active` and constraints of a sender and a receiver | PATCH, activation, setters of the application, add or clear a constraint, read and write a transport file | partial application of a file, members that exist only with a flag, values of which only the JSON type is checked | an activation leaves nothing in use at `auto`; a file is applied or RTP stays off |
| Resource types | `base/src/self.cpp`, `device.cpp`, `source*.cpp`, `flow*.cpp` | records | to and from JSON | – | – |

Interactions. `IS05Server` calls `NodeApiPrivate::Stage()`, which changes the
resource and calls the `Activator`; the activator calls back
`NodeApiPrivate::Activate()` with its mutex held, which ends in `Commit()`.
`Commit()`, from any thread, changes the resource holders and then either the TXT
record or, over HTTP, the registry. The node's thread owns the registration; the
browser's thread tells it what DNS-SD announces through `m_mRegNode` and one
signal. A client hears of nodes and query servers from DNS-SD, hands nodes to a
worker of the pool, and listens to a query server's websockets; its commands go to
the IS-04 and IS-05 servers of nodes. The HTTP server (restgoose) and DNS-SD
(dnssd) are submodules without content here; they appear in the models as the code
uses them.

## 2. Modules

| Module | Models |
|---|---|
| `ActivationQueue` | abstract: what an activator promises its node |
| `Activator` | `class Activator`: one action per critical section |
| `ActivatorProofs` | its proofs |
| `StagedTimes` | `Activator` with the instant each activation was asked for; the TAI conversions of `base/src/utils.cpp` |
| `ConnectionApi` | PATCH, activation and PUT, over `ActivationQueue` |
| `MCConnectionApi` | its instances for TLC |
| `Registration` | the node's thread, the browser, commits, registries |
| `MCRegistration`, `RegistrationProofs` | its instances for TLC, its proofs |
| `NodeResources` | the holders of a node, adding, removing, `Commit()`, versions, endpoints, what a registry takes |
| `MCNodeResources`, `NodeResourcesProofs` | its instance for TLC, its proofs |
| `Registry` | the registry's HTTP threads, garbage thread and `Stop()` |
| `MCRegistry`, `RegistryProofs` | its instance for TLC, its proofs |
| `ClientThreads` | the client's thread, its one-slot event, the pool's worker and `NodeBrowser()` |
| `ClientThreadsProofs` | its proofs |
| `ClientCatalog` | holders, queries, websockets and grains of a client, and what the application is told |
| `MCClientCatalog`, `ClientCatalogProofs` | its instance for TLC, its proofs |
| `ClientCommands` | asynchronous requests, `Connect()` and `Disconnect()` |
| `MCClientCommands`, `ClientCommandsProofs` | its instance for TLC, its proofs |
| `ConnectionParams` | transport parameters, constraints and transport files |
| `MCConnectionParams` | its instance for TLC |
| `ConnectionProofs` | the proofs of `ConnectionApi` and `ConnectionParams`, the two halves of IS-05 |

Composition: `Activator` is shown to implement `ActivationQueue`
(`ImplementsQueue`), and `ConnectionApi` is built on `ActivationQueue`'s actions,
so it never deals with threads, clock and condition variable. `StagedTimes`
extends `Activator`. The others are separate: what one of them leaves open is a
nondeterministic choice that another one resolves. `ConnectionParams` lets PATCHes
and activations happen at any time, and `ConnectionApi` says when they do (its
`Spec`, `TypeOK` and so on are called `ParamsSpec`, `ParamsTypeOK`, so that
`ConnectionProofs` can extend both);
`NodeResources` takes a commit as one step, and `Registration` splits it; the order
of the threads is in `ClientThreads`, what they do to the lists in `ClientCatalog`.

### Activator

Each member function holds `m_mutex` for its whole body and is one action of the
same name; a thread is `pc[t]`, its place in `ActivationThread()`. The mutex is
visible where it outlives an action: during the callback (`activating`) and in
the destructor (`joining`). `wait_until()` is split into `Wait` (evaluate the
deadline, release the mutex) and `Resume` (reacquire it; by then the clock decides
between timeout and no_timeout; a spurious return is possible). `notify_one()`
picks any waiter and is lost without one. `begin()` of an empty map is undefined
behaviour; `GarbageKeys` are what it may read. `Resources`, `Threads`,
`LeapSeconds` are constants; `Horizon` bounds the clock.

### ConnectionApi

`http` is the place of the connection server's thread in
`PatchSender()`/`PatchReceiver()` and `Stage()`; `conRequest` is the copy of
`m_Staged` taken at the start. Each access to `m_Staged` and each call of the
activator is a step of its own, because `m_Staged`'s mutex is released between them
(and not taken at all by some). `staged[r]` keeps mode, requested time, activation
time and one value for all parameters. A receiver and a sender go through the same
code twice (`Stage()` is written out for both); the model has it once. `Past` stands
for the time stamp of an immediate activation, which is never a key of the queue.
`Garbage` is what an empty `optional` read at `nodeapiprivate.cpp:1451` may yield.
With different ports the two HTTP servers have a thread each: PUT and PATCH
interleave. With equal ports there is one thread and fewer behaviours.

### Registration

`pc` is the node's thread: `arm`/`block`/`asleep` are `Wait()`/`WaitUntil()` (reset
the signal; take the mutex again; wait), and `inOperation` tells the heartbeat loop
from the outer one. An HTTP request and its answer are one step: nothing is locked
meanwhile, and other steps go before or after. `holds[g]` is what registry `g` has
of the node: nothing, or a copy that is `current`, `previous` (all but the last
commit) or `behind`. `Accepts`, `Refuses` and `Fails` are the three kinds of answer
the callers distinguish; `Rejecting` registries always refuse. `Heartbeat` has the two tests
of an answer apart: `RegistrationHeartbeat()` marks the registry as bad for 500 and below
100, `HandleHeartbeatResponse()` leaves the loop for 0 and from 400, so that 1 to 99 mark
the registry as bad and go on (`StaysRegistered`). `MaxTroubles`
bounds everything that goes wrong: wrong answers, forgotten nodes, withdrawals.

### NodeResources

A step is a call of the application or an activation. `staged` and `committed` are
the two maps of the `ResourceHolder`s, `dirty` the resources with
`m_sVersion # m_sLastVersion`, `links` and `json` the senders and receivers of a
device as it knows them and as its JSON has them. `CommitAll` is `Commit()` with
`UpdateRegisterSimple()`: nodes and sources, then devices, then the rest; the
registry's own rule (`Take`) is that of `Registry`: no resource without its parent.
`RemoveSource()` takes flows and senders along. `MaxVersion` is 255 in the code.

### Registry

`pc[h]` is the place of an HTTP thread. Each critical section of `m_mutex` is one
step, and so is each unprotected access: `FindNmosResource`, `FindParent`,
`AddResource` are the three of a POST. `holders` are the resources with the parents they
name: `UpdateNmosResource` takes a parent from the JSON without looking for it, and may
fail before or after it has. `sPut` and `path` are the members of the
server that every request writes (`AddPutData`, `Request`, `SplitString`) and reads again
later. A handler splits its path, tests it (`Dispatch`, `DeleteJson`, `GetJson`) and
indexes it (`PostJsonNmosHealth`, `DeleteResource`, `GetResource`) in steps of their own: in
between the path may have become another one or shorter, and `IdsAt` is then any id.
Two unsynchronised accesses (`Races`) and the index past the end are undefined, and may also
end the process (`Undefined`). `Running` and `GarbageCollection` are the garbage thread,
`Stop` and `StopServer` the main thread. `age` counts seconds up to one more than `Expiry`.
A resource whose update failed keeps `m_bIsOk` false, so that its later updates fail as
well; the model lets them succeed too.

The registry is code behind `__NMOS_REGISTRY__`, which no build file defines, and
`registryserver.cpp:497` (`ConvertFromJson-(...)`) does not compile as written: the model
takes it for the answer 404 that it is meant to be.

### ClientThreads

`signal`, `instance` and `service` are the slot. `pc` is the client's thread:
`ResetSignal`, `Block` and `GetSignal` are `Wait()`; each `Handle…` is the function
of that name; `GetNodeDetails` submits what `m_lstResolve` holds. `worker` is the
pool's one thread, in its loop (`WorkerThread`, `WorkerBlock`) or in
`NodeBrowser()`: `StoreResources`, `Get`, `AddResources`, `RemoveStaleResources`.
The six holders are filled the same way and are one here.

### ClientCatalog

`told` is what the application was told of and not that it went. `Add` is
`AddDevices()` and its like, `RunQuery` the function of that name with its short
circuit, `NodeBrowser`, `HandleInstanceRemoved`, `WebsocketMessage` the three ways
to change a list. A task looks at the mode once, when it begins (`StartBrowse`); its steps for
each kind come later, in whatever mode the client is by then, as long as its node is
`browsing`. `synced` are the kinds whose whole list the application was given
when it subscribed while nodes were browsed; in registry mode `RunQuery()` is
not asked, except by such a late task: `UnsyncedLate` ends what the property promises of a
kind when a query about it is given up meanwhile. `RemoveQueryRegistry` erases every query
about the kind and, with the server's answer stored, goes on iterating over the map it has
erased from: undefined behaviour, the model's outcomes being the erasure and the end of
the process (`mode = "crashed"`). `CreateFlow` is the choice of a class for a flow, with its "vidoe/raw".

### ClientCommands

`response`, `code` and `type` are `m_asyncResponse` and `m_nHttpRequestType`, and
`SetHttpRequestDone` writes them whatever is in them. `Wait` is the reset of the
signal and the wait, `Content` what the callback of each type gets. A connection
is five requests of the worker, each of which may fail (`End`), from the sender's
constraints to the receiver's activation; `HandleConnect` is the result told.
`sdp`, `file` and `receiver` say which connection's transport file each party has.

### ConnectionParams

The parameters of a stream are a function of the members its JSON has, since which
members there are depends on `Allowed` (the `flagsTP`). `Value` is the JSON type that
`CheckJson()` asks of a member and no more: a port is any integer or text, an address
any text. `Actualize`, `PatchJson`, `CheckConstraints` are the functions of those names; the
application's setters are `SetupSender`, `SetupReceiver`, `MarkRTPTransmissionAsActive` (for
one stream or all), `SetDestinationDetails` (the active parameters, port 0 as "auto") and
`MasterEnable`. Ports that the code adds to are `% 65536`, the width of
`unsigned short`. `asUInt()` of a text or a negative number throws, which nobody catches:
an activation of such a port ends the process (`crashed`).

A transport file is a sequence of the lines that parameters depend on, of any number and in any
order, also before the first media line; `ParseLines` is the parser's state after each of them,
and `SdpToTransportParams` keeps what was changed before a line fails. What is set
before the first media goes to index -1 of the streams (`wild`): it ends the process or is not
noticed. A file made here ends its lines in CR LF, whose CR stays with the last
word (`AtEnd`), unless a time to live is cut off with it. `PatchReceiverParams` reads the file
(its result is not looked at) and then patches the same copy.

A text is a word that is no address and begins with no number; integers of a request fit an
`int` and those of a file a `long` (a larger one throws `out_of_range` in `stol`, uncaught
too); constraints with a minimum or a maximum are on ports.

## 3. Runs

| Run | Expected | Shows |
|---|---|---|
| `Activator` | pass | `NoOversleep` (no lost wakeup), `ErasesWhatItRan`, `ImplementsQueue`, `QueueEverythingRuns`; two threads, two resources, three times |
| `StagedTimes_leap` | `NotBeforeDue` fails | leap seconds are subtracted twice from a relative activation, which runs early |
| `ConnectionApi` | pass | `SendersHaveNoGhosts`, `LockedMeansPending`, `Settled`, `PatchIsAnswered`; a sender with two times and a receiver with one in between |
| `ConnectionApi_same_time` | `LockedMeansPending` fails | two senders for the same moment: the second is accepted, locked and forgotten |
| `Registration` | pass | `WaitsInTheRightLoop`, `LeavesTheRegistry`, `RegistersInTheEnd`, `ThreadStops`; two registries, one trouble at any point |
| `NodeResources` | pass | `DevicesListTheirs`, `EndpointsFollow`, `OnlySourcesMissing`, `PeersNotice`; one resource of each kind on one device |
| `Registry` | pass | `CollectsWholeTrees`, `SilentNodesGo`, `StopReturns`; two HTTP threads, a node with a device and a sender, and an update that moves the device |
| `ClientThreads` | pass | `AskedInEitherOrder`, `StaleResourcesGo`, `ThreadStops`, `PoolJoins`; two nodes and a query server |
| `Client_reappear` | `AnsweredResourcesStay` fails | `m_setStored` is never cleared: a resource that was stale once is removed whenever it is added again |
| `ClientCatalog` | pass | `AppMissesNothing`, `RemovalsReported`; two addresses, four resources, two queries |
| `ClientCommands` | pass | `DeliveredOnce`, `SuccessMeansConnected`, `ConnectIsAnswered`; two requests, one connection, one disconnection |
| `ConnectionParams` | pass | `AutoIsResolved`, `FileAppliedOrOff`; two streams with FEC, RTCP and multicast, requests with ports and sizes that are none |

Every passing run also checks its module's `TypeOK` (`ParamsTypeOK`).

Bounds. Two threads are enough for every way `notify_one()` can pick the wrong one,
three times for an earlier, a middle and a later activation. One sender and one
receiver meet each other in the queue, with times before and after each other;
that they share a time is left to `ConnectionApi_same_time` and the proof. Two
registries make one failover possible, and one trouble (a forgotten node, a
withdrawal, a failure at any request) reaches every branch of
`HandleHeartbeatResponse()` and `RegisterSimple()`.
`NodeResources` has one resource of each kind, which is what each relation
(parent, flow of a sender, source of a flow) needs; `MaxVersion = 1` wraps at every
second commit, and `Edited` holds a node and a device, whose setters stand for the
others'. `Registry` has two handlers, enough for one to overwrite the other's body or path,
three of its paths, a tree of each depth, a device that names two parents, and `Expiry = 0`: two
ticks make a node silent (641,000 states, three and a half minutes).
`ClientThreads` has two nodes, so that a browse of one meets a removal of the other,
and of the same; announcements pause while a task waits (`MaxQueue = 1`).
`ClientCatalog` has a kind without sub-classes and a flow that can be made and one
that cannot, two queries that may be about the same kind, two addresses; queries
and addresses are symmetric (438,000 states, two minutes). `ClientCommands` has two requests, since one answer
overwrites another, in three mixes that contain every kind of callback, and
a connection and a disconnection that follow each other in either order.
`ConnectionParams` has few patches, chosen for their boundaries: port 65535, a negative
port, a text for a port, `auto`, null, a size of FEC that is refused, a stream with RTCP and
one with FEC, a receiver with both `multicast_ip` null and `auto` and with an `rtp_enabled`
of its own; one foreign file with an address of the session and fewer media than
streams; one limit, one assignment of port 0, one marked stream (46,000 states, two minutes).
The safety properties of
the passing runs are proved without these bounds (section 4).

Fairness. Threads that can run do. A thread in `wait_until()` is owed a return only
when it was notified or its deadline has passed. In `ConnectionApi` the application
answers what it is asked (without that the HTTP thread waits for ever, see the
hazards) and what the queue accepted runs, which `QueueEverythingRuns` shows.
In `Registration` requests are answered or time out, and a wait is not ended
spuriously for ever (strong fairness of `Timeout`). Callers, browser and registries
are under no obligation. In `Registry` every HTTP thread goes on with the request it
has begun, the garbage thread runs, `Stop()` goes on when the threads it waits for
have ended, and time passes; nobody has to send requests. In `ClientThreads` the
client's thread and the pool's worker run, their waits and requests time out; in
`ClientCommands` the task of the pool runs and its requests, which are synchronous
and have a time limit, end. `NodeResources`, `ClientCatalog` and
`ConnectionParams` state safety only: their operations are calls that nobody has to
make.

Deadlock is not checked where the system may stop: an activator that was destroyed,
a node, registry or client that was stopped, and a process that undefined behaviour or an
exception has ended, have nothing left to do.

Behaviours of the code that the models have, and to which no run is devoted. Most
contradict no document of the repository; those that do are marked (*): they are
defects that the lines themselves show, and the properties around them are stated so
as not to depend on them:

- *Activation.* A thread whose wait timed out runs the first activation of the queue
  without another look at the clock (`activator.cpp:143`): one that became first when
  another was withdrawn runs early. `~Activator()` joins its threads while it holds
  the mutex that they take (`activator.cpp:100`).
- *IS-05.* Without an `EventPoster` an immediate activation is never committed
  (`Settled` fails with `HasPoster = FALSE`). A PUT target unlocks a receiver that is
  still queued, which can then be queued twice. A PATCH answered 500 for an invalid
  time leaves the resource locked. A PATCH whose copy is older than an activation
  (`is05server.cpp:414`) brings the completed activation's mode back, and schedules it
  again.
- *Registration.* `WaitUntil()` resets the signal, so that a withdrawal while a
  heartbeat is in progress is lost (`nodeapiprivate.cpp:509`). A registry that always
  refuses keeps the node's thread in a loop that does not look at `m_bRun`
  (`nmosthread.cpp:51`): `StopServices()` does not return. A commit overtakes a
  registration in progress, and the registry keeps the older copy
  (`nodeapiprivate.cpp:811`). The TXT record is computed and set in two steps
  (`nodeapiprivate.cpp:416`): a registered node may go on announcing itself as a peer.
  `MarkRegNodeAsBad()` after a failover marks the wrong registry.
- *Resources.* Removals send no DELETE and bump no version. `Commit()` posts sources
  before the devices that are their parents, and does not look at the answers: a new
  source is refused and not sent again. `RemoveSource()` passes the source's id to the
  device, which goes on listing the senders that went with it
  (`nodeapiprivate.cpp:1141`).
- *Registry.* Two requests that overlap may be answered for each other's body or path,
  and one that has checked its path may index past the end of what another has made of
  it (`registryserver.cpp:456`, `321`, `488`). An update may name a parent that is not
  registered, or is half applied before it fails (`registryapi.cpp:418`); a resource
  added when its parent has just been collected stays (`registryapi.cpp:217`).
  `Stop()` waits for ever for a request that needs the mutex it holds
  (`registryapi.cpp:78`). GET of a node's health is answered 404.
- *Client.* A second event before the first is read overwrites it. The removal of a
  query server is compared with "_nmos_query._tcp" and announced as "_nmos-query._tcp"
  (`clientprivate.cpp:649`): registry mode is for ever, and what was listed from nodes
  before stays. Resources that a browse adds after its node went stay. Removing a
  query erases all queries of the kind (`clientprivate.cpp:2184`, `2280`), whoever
  asked for them, and a browse that is still going on leaves out what it lists from
  then on; with a query server the loop goes on from an element it has erased
  (`clientprivate.cpp:2176`). Callbacks run with the mutex held that the calls of the
  API take (`clientprivate.cpp:702`). An answer is lost when the next one is written
  before it is read, although `clientapi.h:68` and `82` promise a callback (*). The
  answer to a request for a receiver's active parameters is never told, although
  `clientapi.h:117` promises it (*): its handler is declared in the `case`
  (`clientprivate.cpp:736`), not called. `DeliveredOnce` says of neither that it is
  told or untold. The URL of the receiver's constraints lacks the host, so that every
  connection tells of a failure before its success (`clientprivate.cpp:312`). Tasks of
  the pool outlive the client whose pointer they keep.
- *Parameters.* An automatic port above 65535 wraps (`transportparams.cpp:226`). Any
  integer or text is taken for a port and any text for an address
  (`transportparams.cpp:336`, `526`); the next activation of a text or a negative port
  throws. `SetDestinationDetails()` with port 0 leaves an active port "auto"
  (`senderbase.cpp:395`), and `fec_mode` is never resolved. The CR of a line stays in
  the address that ends it. The result of reading a file is ignored
  (`connection.cpp:297`); the `rtp_enabled` of the same PATCH switches RTP on again
  over a file that was half applied, and a file with fewer media than streams enables
  them all, the others with what they had (`sdp.cpp:70`). An address before the first
  medium is written at index -1 (`sdp.cpp:44`). Constraints are looked at when a PATCH
  comes, and not when one is added or `auto` is resolved. A receiver's `multicast_ip`
  "auto" is never resolved, and the FEC and RTCP destinations that are copied from it
  are not either (`Unresolved`).

## 4. Proofs

TLAPS checks, for all values of the constants under the named assumptions:

| Theorem | States |
|---|---|
| `ActivatorProofs!TypeCorrect` | `Spec => []TypeOK`, with mutual exclusion of callbacks |
| `ActivatorProofs!NoLostWakeup` | `Spec => []NoOversleep` |
| `ActivatorProofs!ErasesOnlyWhatItRan` | `Spec => ErasesWhatItRan`, from the invariant `RunsTheFirst` |
| `ActivatorProofs!Implementation` | `Spec => ImplementsQueue` |
| `ConnectionProofs!TypeCorrect`, `NoSenderGhosts` | `Spec => []TypeOK`, `Spec => []SendersHaveNoGhosts` |
| `ConnectionProofs!SendersSettle` | `Spec => []Settled`, if the application has an `EventPoster` (`HasPoster`) |
| `ConnectionProofs!LocksArePending` | `Spec => []LockedMeansPending`, if resources have times of their own (`DistinctTimes`) |
| `ConnectionProofs!ParamsTyped`, `NothingAuto`, `NeverAppliedInPart` | `ParamsSpec => []ParamsTypeOK`, `AutoIsResolved`, `FileAppliedOrOff` |
| `RegistrationProofs!TypeCorrect`, `RightLoop`, `CleanStop` | `Spec => []TypeOK`, `[]WaitsInTheRightLoop`, `[]LeavesTheRegistry` |
| `NodeResourcesProofs!TypeCorrect`, `EndpointsCorrect`, `RegistryMissesOnlySources`, `DevicesCorrect`, `PeersAreTold` | `Spec => []TypeOK`, `[]EndpointsFollow`, `[]OnlySourcesMissing`, `[]DevicesListTheirs`, `PeersNotice` |
| `RegistryProofs!TypeCorrect`, `WholeTreesGo` | `Spec => []TypeOK`, `CollectsWholeTrees` |
| `ClientThreadsProofs!TypeCorrect`, `QueryServerAsked`, `StaleOnesGo` | `Spec => []TypeOK`, `[]AskedInEitherOrder`, `StaleResourcesGo` |
| `ClientCatalogProofs!TypeCorrect`, `NothingMissed`, `RemovalsTold` | `Spec => []TypeOK`, `[]AppMissesNothing`, `RemovalsReported` |
| `ClientCommandsProofs!TypeCorrect`, `ToldOnce`, `SuccessIsTrue` | `Spec => []TypeOK`, `[]DeliveredOnce`, `[]SuccessMeansConnected` |

`NoOversleep` is inductive once the types are known: a thread that stops covering
the queue leaves another that does, or finds it empty. `Implementation` needs
`RunsTheFirst` (the activation being run stays first) because `EndActivate` erases
`begin()` and the abstract `Finish` the activation that runs. `SendersHaveNoGhosts`
is not inductive: its strengthening says, for each place of the HTTP thread, how
its copy, the staged parameters and the queue agree, and that a sender is in
the queue once at most. `Settled` adds that in the second half of `Stage()` the
staged mode is still the one that led there, unless an activation was committed
meanwhile (`StagedMode`), and that only there a sender may be neither free nor locked
(`SettledInv`). It needs `HasPoster`: without an `EventPoster`
`is05server.cpp:470` commits nothing, and the mode of an immediate activation stays.
`LockedMeansPending` rests on `PendingInv`, which gives up its promise only between the
two halves of `Stage()`, on `OwnTimes` (a time on its way to the queue belongs to the
resource it is asked for) and on `CommittedIsOver` (what has been committed
is not announced again before it leaves the queue, so that its erasure breaks no
promise). It needs `DistinctTimes`, which `ConnectionApi_same_time` shows: a
second activation at a moment is dropped, and its sender stays locked.

`ConnectionParams` is proved bottom up. Actualisation: each step changes one member
(`Changes`, `PortActualized`, `IpActualized`), so that what a whole activation that does not
throw makes of a stream is known (`SenderActualized`, `ReceiverActualized`): it has its types,
and what it uses is not "auto". Files: `LineEffect` says for each kind of line what it does to
the parser's state; `ParseInv`, what the state after n lines has of the first n:
the streams have their types, RTP is disabled everywhere and, unless a line failed, the media were
counted (`Reached`) and each stream's port and group are what the last line about them says, or
what they were (`TellsSoFar`). A file may have any number of
lines; since no induction theorem of the library can be used here, both
steps argue by a least counterexample (`NatMin`): a shortest prefix without a run of
the parser (`RunExists`, which lets `ParseSteps` unfold the recursive function
`ParseLines`), and a first line after which `ParseInv` fails (`ParseKeepsInv`), each
contradict the line before. What the same PATCH then does to the streams changes no member that it
does not name (`PatchedStreams`). The inductive invariant of the specification is `ParamsInv`:
every stream's parameters, staged and active, are typed and the sender's own file is one that can
be parsed. `AutoIsResolved` and `FileAppliedOrOff` are properties of single steps from it.

The registration's invariants rest on what
`m_nRegistrationStatus` and `m_sRegistrationNode` can be at each place of the node's
thread, and on no other thread writing them.

`NodeResources` needs to know where a resource can be: what is staged, committed,
dirty or in the registry, and that its parent is there too, because no call removes a
device (`Placed`); then the order of the POSTs follows. `DevicesListTheirs` rests on the
devices' own lists (`Linked`). `PeersNotice` needs that the TXT record
has the counters of the last commit as long as the node is a peer, and that
`Bumped` never returns its argument, at the limit or not. `CollectsWholeTrees` is a
property of single steps, over the types that each place of a handler gives its
body: a collection that takes a parent takes what names it (`CollectionWhole`), an update keeps the ids
and every parent but its own (`UpdateWhole`), and what is added breaks nothing (`MoreWhole`).
`StaleResourcesGo` rests on `Marked`: at each place of `NodeBrowser()`, what is
listed at the node is in `m_setStored` or in the answer, which other threads'
removals cannot break. Types of `ClientThreads` include that the worker's queue keeps
within `MaxQueue`: a node on its way to the queue (`Coming`: signalled or being
handled) always finds room (`Room`), since announcements wait while a task does.
`AppMissesNothing` holds because a kind that was listed as a
whole has a query as long as the nodes, or late tasks, are browsed (`Asked`), so that `RunQuery()`
passes everything (`RunQueryAsked`): its short circuit then leaves nothing out.
`DeliveredOnce` needs that an answer in the slot that has not been told belongs to no
request under way; `SuccessMeansConnected` that the file in the worker's hands
(`FileFits`) is the one the running connection's activation made.

Assumptions. Each module names what it assumes of its constants (`...Assumption`), and
TLC evaluates it in its runs; `HasPoster` and `DistinctTimes`
are hypotheses of the one theorem each that needs them.

Only model-checked: the liveness properties (`QueueEverythingRuns`, `PatchIsAnswered`,
`RegistersInTheEnd`, both `ThreadStops`, `PoolJoins`, `SilentNodesGo`, `StopReturns`,
`ConnectIsAnswered`), which are out of the prover's reach, as are
`ENABLED` and fairness. The three runs that expect a violation are counterexamples, and
need no proof.

## 5. Not modelled, and what is left

1. A node and a registry composed: `Registration` has an abstract registry that
   forgets and refuses; its answers are those of `Registry`, but no refinement
   says so.
2. The thread pool with several workers; the client uses one.
3. Versions: the comparison of API versions and what a query server of an older
   version is asked.
4. The synchronous requests of a client, which leave no state; IPv6, WebSocket and
   MQTT parameters; the bulk endpoints of IS-05, which call the handler of a single
   PATCH in a loop.

Node lifecycle: `Init()`, `StartServices()`, the HTTP servers' start and the browse
domains are straight-line configuration on one thread, with two oddities that reading
shows as well as a model would: `AddBrowseDomain()` and `RemoveBrowseDomain()` refuse
while `m_bRun` is true, which it is from the constructor on
(`nodeapiprivate.cpp:1365`), and with two ports the IS-04 endpoints go to the server of
the connection port (`nodeapiprivate.cpp:248`). `StopRun()` is in `Registration`.

Left out for good: JSON and SDP text, logging, routing of GET requests, the vendored
UUID code, the legacy server in `common/src/server.cpp` (compiled by no build file),
data races below the level of one access (a torn `std::string` or JSON value).
