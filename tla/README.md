# Formal model of fake-dra-driver

fake-dra-driver is a Kubernetes DRA (dynamic resource allocation) driver for
devices that do not exist. It has two programs: a *controller*
(`cmd/fake-dra-controller`), which translates the vendor's claim parameters
into the core API's `ResourceClaimParameters`, and a *kubelet plugin*
(`cmd/fake-dra-kubeletplugin`), one per node, which publishes the node's
devices and prepares them for claims by writing CDI spec files.

This directory holds TLA+ modules of both, TLC configurations that check them
on small instances, and proofs that TLAPS checks for every instance. Paths
below are relative to the repository, and `driver.go:85` is short for
`cmd/fake-dra-kubeletplugin/driver.go`, line 85.

## 1. Inventory

| Part | State | Operations | What is hard |
|---|---|---|---|
| gRPC handlers (`driver.go`) | `driver.Mutex`; the calls in flight | `NodePrepareResources`, `NodeUnprepareResources`, `NodeListAndWatchResources` | every call is a goroutine; a request is a batch and the mutex is taken per claim (`driver.go:85, 180`) |
| Device state (`state.go`) | `prepared` (claim -> devices), `allocatable`, a second mutex | `Prepare`, `Unprepare`, `prepareFakes` | file first, entry second; either can fail or be cut off by a crash; unknown devices and foreign results |
| CDI handler (`cdi.go`) | one spec file per claim and a common one, on the host | `NewCDIHandler` (refresh), `CreateCommonSpecFile`, `CreateClaimSpecFile`, `DeleteClaimSpecFile` | files outlive the process, the map does not; the refresh at a start refuses files that define the same device |
| Device emulation (`emulator.go`) | none | `hash`, `generateUUIDs`, `generateModel`, `enumerateAllPossibleDevices`, `enumerateSplittedFakeDevices` | names are advertised in lower case and have to be mapped back; the hash overflows, and `math/rand` reduces it |
| Plugin process (`main.go`) | sockets, signal channel | `StartPlugin`, signals, `Shutdown` | a start may fail half-way; the signal is received twice; `doneCh` is nil |
| Claim parameters generator (`claimparametersgen.go`) | the informer's cache and event queue; nothing durable | `AddFunc`, `UpdateFunc`, `createOrUpdateResourceClaimParameters` | list-then-write is not atomic; events are delivered again or late; errors are dropped, and so are answers that got lost; objects of one name, different UIDs; foreign objects |
| Translation (`newResourceClaimParameters...`, `fakeclaim.go`) | none | count, selector, vendor parameters | zero, negative and missing fields |
| Flags, clients, HTTP endpoint (`main.go` of both) | the flags, the client configurations, the mux and its server | `AddFlags`, `PersistentPreRunE`, `GetClusterConfig`, `GetClientsetConfig`, `SetupHTTPEndpoint`, the directories of `StartPlugin` | three sources for one value; the configuration is read twice; the server fails beside the work |
| `deviceclass.go`, `api.go` | none | `DeviceClassParameters`, the defaults | used by no code |
| `mutex.go` | | `PerNodeMutex` | used by no code |
| `pkg/`, `zz_generated.*` | | | generated |
| helm chart, demo, scripts | | | the environment the models assume |

Interactions. A user writes a `FakeClaimParameters` object (FCP). The controller's
informer sees it and the controller writes a `ResourceClaimParameters` object
(RCP) for it. The scheduler reads the RCP and the instances that the kubelet
plugin publishes, allocates devices to the claim and puts their (lower-case)
names into the claim's handle. The kubelet passes the handle to
`NodePrepareResources`; the plugin writes the spec file and answers with CDI
device names, which the container runtime resolves from the files. After the
pod the kubelet calls `NodeUnprepareResources`, which removes the file.

What makes each part correct:

* handlers and state: claims are handled one at a time; the map and the files
  agree; an answer is true of the disk; what is unprepared is gone; every
  request is answered; from outside it is a table of bound claims;
* the node: a pod that may run has its spec file; a device is in the file of
  one claim; the plugin can be started again; the devices of a released claim
  come free;
* the controller: every FCP has one RCP that says what the FCP says now, in the
  end and through restarts, unless its last event ended in an error, and no RCP
  goes back to an older version;
* the commands: what was asked for on the command line or in the environment is
  what happens, or the program does not go to work;
* the container: it is shown the devices that were injected into it, and their model;
* the hash: names that ought to have devices of their own do.

## 2. The modules

    Commands                 flags, configurations, HTTP endpoint (main.go of both)
      CommandsProofs         theorems
    SeedHash                 the hash behind UUIDs and models (emulator.go)
      SeedHashProofs         theorems
    FakeDevices              devices and their names (emulator.go)
      NodeMessages           requests, answers, handles, maps as functions
        ClaimBinding         abstract: what the plugin promises
        KubeletPlugin        driver.go, state.go, cdi.go; implements ClaimBinding
          KubeletPluginProofs   theorems
          NodeSystem         KubeletPlugin among scheduler and kubelet
            NodeSystemProofs    theorems, on top of KubeletPluginProofs
        ClaimJourney         parameters on their way into a container
          ClaimJourneyProofs    theorems
    PluginLifecycle          the plugin's process, signals and streams (main.go)
      PluginLifecycleProofs  theorem
    ParametersMirror         abstract: what the controller promises
    ClaimParametersGenerator the controller with API server and users;
                             implements ParametersMirror
      ClaimParametersGeneratorProofs   theorems
    LeastNumber              a lemma: a set of numbers has a least one
    MC*                      instances for TLC

The operators under a comment "Mutant:" are variants of the definition that
follows them with a plausible bug in it. No specification uses them; each
property is known to fail when its variant takes the definition's place, which
shows that the property depends on the code being right.

### Commands

Both programs from `main` to the point where their work begins; the flag and
configuration code is the same in both, line by line. A flag's value is a
sequence of path segments, or one word. `Parse` is cobra, `Bind` the loop over
viper's variables, `ReadConfig` the three copies of `GetClusterConfig`
(`main.go:184` and `claimparametersgen.go:90` of the controller, `main.go:148`
of the plugin), `Endpoint` is `SetupHTTPEndpoint`, `ServerFails` and
`FlushAndExit` are its goroutine, `Directories` is `main.go:181-196` of the
plugin. The pod's surroundings (`usable` kubeconfigs, what is at the CDI root,
whether the listener or the logging configuration is accepted) are any that can
be. Two simplifications: a path that is not empty but cleans to the root, like `/`, is
not among the paths, and a configuration that `NewForConfig` refuses
(`main.go:111-119` of the controller) counts as one that cannot be used. The work itself is `ClaimParametersGenerator` (from `informer` on) and
`PluginLifecycle` (from `driver` on).

### SeedHash

`hash` reads one character after the other; the model reads two seeds of one
length side by side and keeps what is needed to compare them: both values, how
many characters differed (up to 2), whether all that did were digits
(`numbered`), and by how much the hashes would differ if nothing overflowed
(`spread`; `gap` is the spread at the last character that differed). `Source` is
what `rand.NewSource` makes of a hash: it is reduced modulo 2^31 - 1, and 0
becomes 89482311. Two seeds with one source have one list of UUIDs, and one
model. TLC's integers have 32 bits, so there is no run of this module: what it says
is proved, with the numbers of the program.

### FakeDevices, NodeMessages

`generateUUIDs` is deterministic in its seed, so a UUID is modelled by the path
of positions that leads to it: `<<3>>` is the node's third device, `<<3, 1>>`
the first part of it when it is split. Two different seeds are taken to have
different sources, which `SeedHash` looks into for the names of nodes. A name is a prefix, `FAKE-` or `fake-`, with such
a path: `AdvertisedName` is the `strings.ToLower` of `state.go:169`, `FakeUUID`
the way back in `driver.go:159`. Lists of devices are sets: the code never
compares or indexes them. A handle is `missing`, `malformed` (the vendor
parameters do not unmarshal), `foreign` (a result without named resources, or with a
name that is shorter than the prefix, `driver.go:156-159`), or has a split and the allocated names; only the
first structured handle is ever read (`driver.go:143-155`).

### KubeletPlugin

One action per stretch of a handler between two points where the process can
die with a different disk:

| Action | Code |
|---|---|
| `Receive`, `Respond`, `Finish` | the loops of `driver.go:63-79, 167-177` |
| `LockDriver` | `d.Lock()`, `driver.go:85, 180` |
| `CheckPrepared` | `nodePrepareResource` up to `d.state.Prepare`: cached answer, missing or malformed handle |
| `StoreSpec` | `DeviceState.Prepare`: second mutex, second look, devices, spec file (or an error) |
| `Panic` | `MeetsForeignResult`, the nil pointer and the short name of `driver.go:156-159`; `MeetsUnknownDevice`, the nil dereference of `state.go:143` |
| `CommitPrepared` | the map entry and the answer, `state.go:105-107` |
| `CheckUnprepared`, `RemoveSpec`, `ForgetPrepared` | `nodeUnprepareResource` and `DeviceState.Unprepare` in the same way |
| `Start` with `NewDeviceState`, `DeviceConflict` | `StartPlugin` up to the sockets, `NewDeviceState`, the refresh of `cdi.go:36-39` |
| `Crash`, `Die` | the end of the process at any point |

`StoreSpec` and `RemoveSpec` need the second mutex, which only their own call
can hold while it has the first: the model keeps the two apart so that it is a
result (`MutexInv`) and not an assumption. The callers are not constrained:
any claim may be prepared or unprepared at any time, several times at once, in
batches, with any handle. `orphans` is a history variable: the claims whose
file was written by an earlier process.

What is taken from the libraries: a CDI spec file is replaced by a rename, so
it is the old one or the new one; removing a file that is not there is no
error; a write that would repeat a device name within one file fails, which is
one of the failures of `StoreSpec`; `Refresh` reports an error for two files of
one directory that define the same device; the gRPC server recovers from no
panic; the CDI directory is on the host and outlives the plugin.

### ClaimBinding

The abstract specification: a table `bound` of claims and devices. Each claim
of each request is handled in *one* step that reads or writes the table and
records the answer. A bound claim is answered from the table whatever its
handle; an unbound one is bound to what its handle names or refused;
`Unprepare` of an unbound claim always succeeds. `KubeletPlugin` implements it
with `bound <- prepared`: there are no files, mutexes, locations or crashes
half-way through.

### NodeSystem

`KubeletPlugin` with the two callers that the code is written for. The
scheduler allocates published instances to one claim at a time. The kubelet
has at most one call per claim in progress, repeats a call after an error, may
prepare a prepared claim again, and reports a claim free only when its
`Unprepare` succeeded. It may give up on a call; the handler, which does not look
at its context, carries on (`strays`, a history variable, marks the claims
concerned). Both are external: they are modelled from what the handlers are
written to expect.
`ReleasedIsFreed` says that what the scheduler handed out comes back to it,
through crashes and failed calls: `Unprepare` answers for claims the process
has never seen, so a claim of a process before it does not block its devices. Only two
spec files in conflict do, as the plugin cannot start beside them.

### ClaimParametersGenerator

Per replica: whether its watch is up, the queue of events, and the program
counter of the one goroutine that handles them. `StartReplica` lists, `Watch`
starts or restarts the watch; both deliver an event for every FCP, since
`ListFunc` and `WatchFunc` ignore the resource version they are passed
(`claimparametersgen.go:129-134`) and client-go hands repeated objects to the handlers
too. `List` searches the RCPs for the first one generated from the event's
FCP, `Update` writes it with the metadata that was found, `Create` makes a new
one; `ListFails` and `WriteFails` drop the event, and so does `WriteAnswerLost`, a
write that the API server did carry out and whose answer is lost; `Panic` is the nil
`GeneratedFrom`. An object that does not convert (`claimparametersgen.go:56-60, 71-75`) is
like one whose list fails. `dropped`, a history variable, holds the names whose last event
ended in an error. The API server (optimistic locking by resource version, and
the refusal of the selector `()` that an empty one becomes), the
garbage collector (an RCP whose owner's UID is gone) and the users are
external.

An FCP's `version` stands for its whole content and grows with each edit, over
all names; the RCP records the version it was made from. RCP names are drawn
from `Ids` in any order, since generated names are random, and a list is in the
order of names. A request is handled by the API server in one step or not at all, its answer may be
lost, and a request that was not handled when its sender dies never is. All objects are in one
namespace, because the code handles each on its own. Two replicas stand for a
rolling update of the Deployment; there is no leader election in the code.

### ParametersMirror

The abstract specification of a controller that runs alone: for each name the
version that is `wanted` and the one that is `given` to the scheduler. An
attempt moves `given` forward, perhaps over versions nobody saw; one that fails, or of
which nobody knows that it did not, leaves the object lost until the next attempt.
Again and again each object is given as it is wanted, or lost (`Progress`). `ClaimParametersGenerator` implements it with the FCPs as
`wanted`, the first RCP of each name as `given` and `dropped` as `lost`.
Deletions are left out: a name that is deleted and used again breaks the promise
(`generator_recreated`).

### PluginLifecycle

The locations of `StartPlugin` (`main.go:177-227`): sockets, `signal.Notify`,
the two receives, `dp.Stop`, `driver.Shutdown`. A signal kills the process
before `Notify` and goes to a channel with room for one after it. `Publish` is
the body of `NodeListAndWatchResources`; there is no action for a handler that
returns from `<-d.doneCh`, since the channel is nil. For the claims `Serve` is
the `Start` of `KubeletPlugin` and every end of the process its `Die`: a
shutdown waits for no handler. The runtime that starts the process again and
the kubelet that connects again are external; gRPC's `Stop` closes the
connections and does not wait for handlers. The module has no spec files, so that `Serve` is
without the guard `~DeviceConflict` of `KubeletPlugin`: starts fail for any reason, but
`StartFails` is bounded, and a start that fails for ever (files in conflict) is a matter of
`OneCrashIsSurvived` and not of `EventuallyKnown`.

### ClaimJourney

One claim from its parameters to the environment of a container:
`Translate` (`claimparametersgen.go:190-253`, `fakeclaim.go:26-31`), `Allocate`
(scheduler), `Prepare` with the variables of its spec file
(`cdi.go:101-122`; `FAKE_DEVICE_0`, ... and `FAKE_DEVICE_MODEL`), `Inject` (the
container runtime, which replaces a variable the container has). What the container is
shown in the end are the devices its variables name (`Shown`), what is injected those of the
spec files (`Injected`). A CEL expression is the model it compares with, `"true"` or
`"()"`.

## 3. The runs

| Run | Instance | Distinct states | Shows |
|---|---|---|---|
| `plugin_handlers` | 2 claims, 2 calls, batches of <= 2, whole, split and unknown devices, malformed handles and foreign results, 1 crash | 1.0 million | `TypeOK`, `OneCallAtATime`, `PreparedHasSpec`, `SpecIsAccountedFor`, `AnswerIsOnDisk`, `UnprepareRemovesOwnSpec`, the inductive invariant `HandlerInv`; `KubeletPlugin` implements `ClaimBinding` |
| `plugin_liveness` | 2 claims, 2 calls, batches of <= 2, split and unknown devices, missing handles, no crash | 128 thousand | every request is answered |
| `node_system` | 2 claims that compete for 2 devices, whole and split, 2 calls, 2 crashes, 1 timeout | 229 thousand | `RunningHasSpec`, `ExclusiveDevices`, `OneCrashIsSurvived`, `PanicIsOutOfReach`, the inductive invariant `CallersInv`, `ReleasedIsFreed` |
| `generator_rollout` | 1 name, 2 replicas, 3 writes, 1 deletion, 1 hand-written RCP, 1 failed request or lost answer | 2.5 million | `BoundedDuplicates`, at most one RCP per replica; `RollbackIsTransient`; the inductive invariant `GeneratorInv` |
| `generator_converges` | 2 names, 3 writes with valid and empty selectors, 1 failed request or lost answer, 1 restart, 1 lost watch | 376 thousand | `SettledIsConverted`, `EventuallyConverted`, the invariant `AloneInv` of a controller alone; the controller implements `ParametersMirror` |
| `lifecycle_streams` | 3 streams, 3 signals, 2 kills, 2 failed starts, 2 kubelet restarts | 29 thousand | `SignalIsNoticed`, `EventuallyKnown`, `SecondSignalEnds` |
| `journey_devices` | 2 claims, 3 devices, counts from -1 to 2, splits from -1 to 2, an empty selector | 99 thousand | `CountTimesSplit`, `ClaimsAreDistinct`, `ClaimAloneIsShown`, `ModelAsAsked` |
| `commands` | both programs, every subset of their flags and variables with up to two values, every set of usable configurations | 628 thousand | `EffectiveValues`, `OneCluster`, `WorksAsAsked`, `FailedServerEnds` |
| `plugin_leak` | | stops at the counterexample | `UnprepareRemovesSpec` is violated |
| `lifecycle_signal` | | stops at the counterexample | `SignalEnds` is violated |
| `generator_recreated` | | stops at the counterexample | `SettledIsConverted` is violated by a re-created FCP |
| `journey_shown` | | stops at the counterexample | `InjectedIsShown` is violated by two claims of one container |

Bounds, and why they are enough. The interplay of handlers is between two
calls for one claim or for two claims whose devices overlap, so two claims and
two calls show it. Two
claims in a batch are the least for which the mutex is released within a
request; the same claim twice in a batch is included. One crash separates two
processes with a disk between them; the second crash in `node_system` is
there for the start that meets what the first left behind. For the controller three
writes give create, edit and edit again, or delete and create again. `MaxBatch`,
`MaxCrashes`, `MaxTimeouts`, `Streams` and `Budget` are bounds of the model; the code has
none. `PerNodeFakeDevices` is 8 in the code and 2 or 3 in the runs. `Ids` is as
large as the number of RCPs that can exist in the run, `Create` never waits for a name.
`plugin_handlers` has every kind of handle but a missing one, which is treated like a
malformed one and is in `plugin_liveness`.
The command lines give each flag no value, a fitting one, or one
that collides with another flag's.

Symmetry is used for claims, calls, names and replicas where nothing orders
them, and in no run with a liveness property. Deadlock is not checked: a system
in which no user writes and no pod comes is at rest, and the bounded events run
out. That calls do not get stuck is `EveryCallReturns`.

Fairness. `plugin_liveness`: weak fairness of each step of a call, as
goroutines are scheduled and system calls return; strong fairness of
`LockDriver`, as a goroutine that has waited for a `sync.Mutex` for a
millisecond is handed it next (starvation mode). No fairness for callers,
crashes, or the success of a write. `node_system`: the same for the calls, and
the plugin is started until it starts, as the DaemonSet does; the kubelet asks
for a released claim until it is unprepared; removing a spec file, tried again
and again, succeeds in the end. None for allocation, preparing, release,
crashes or timeouts. `generator_converges`: the Deployment
restarts the controller, the reflector re-establishes its watch, the handler
takes the next event, the garbage collector runs. None for users.
`commands`: the command's goroutine takes its next step, and so does the one of
a server that has failed; nothing has to fail.
`lifecycle_streams` and `lifecycle_signal`: the process takes its next step when
it can, the runtime restarts it, the kubelet connects when it is not connected,
a handler sends what it has to. None for signals.

What the violated properties show (PROJECT.json, "findings", quotes the lines):

* `plugin_leak`: the map is lost at a restart, so `Unprepare` of a claim that
  was prepared before succeeds and leaves its spec file. A later claim for the same
  device makes a second file with the same CDI device, and then the plugin no
  longer starts. `OneCrashIsSurvived` is as much as holds.
* `lifecycle_signal`: the first signal is received by the log call and the process waits for
  another one.
* `generator_recreated`: RCPs are matched by name and keep their old owner, so the
  RCP of a re-created FCP is collected with its predecessor.
* `journey_shown`: every claim's variables are numbered from `FAKE_DEVICE_0` on
  (`cdi.go:101`), so that in a container with two claims the variables of one replace those
  of the other, where README.md:150 promises variables for what was injected.
  `ClaimAloneIsShown` is what holds: a container of which one claim has devices, as each
  container of the demos is, is shown exactly these.

What the models show of the code besides, without a run of its own:

* A device that the node does not have ends the plugin: `state.go:143`
  dereferences the entry before line 145 looks whether there is one
  (`MeetsUnknownDevice`, which `plugin_handlers` goes through). So does a result that is not
  this driver's (`MeetsForeignResult`, which `plugin_handlers` goes through).
  `PanicIsOutOfReach` shows that it takes a handle the plugin never published.
* An RCP without `generatedFrom` ends the controller when it is listed before
  the one that is looked for, at each restart again (`Panic`, which
  `generator_rollout` goes through).
* A failed request to the API server loses its event (`claimparametersgen.go:62`);
  nothing repeats it until the object is edited, the controller restarts or its
  watch is renewed (`dropped`).
* Node names may share a hash, and with it all UUIDs: "an" and "c0" do, "worker1n" and
  "worker30" do. `NumbersCount` and `NamesHaveSources` say which cannot.
* Every error of the plugin ends it with exit code 0 (`main.go:54-60`), the
  controller's with 1. The message of `main.go:195` says that the CDI root must
  not be a directory, where the code asks for one.
* KUBECONFIG wins over `--kubeconfig`, unlike every other variable
  (`main.go:188-192` of the controller); a variable that does not parse is logged and
  the default stays.
* The second signal ends the process in a panic: `Shutdown` closes the nil
  channel `doneCh` (`driver.go:42`).
* `selector: {}` becomes `()` (`fakeclaim.go:30`), which the API server refuses:
  such a claim stays unallocated (`Accepted`).

## 4. What is proved

Every safety property of the passing runs, invariant or action property, is
also a theorem (`SeedHash` has theorems only), for any sets and numbers in place of the small ones of the
runs. The assumptions are the named `ASSUME`s of the modules, all of which the
runs evaluate; the numbers of `SeedHash` are those of the program.

| Module | Theorem | States |
|---|---|---|
| `KubeletPluginProofs` | `Inductive` | `Spec => [](TypeOK /\ HandlerInv)` |
| | `TypeCorrect`, `MutualExclusion`, `PreparedOnDisk`, `NoLostSpec` | the invariants of `plugin_handlers` |
| | `AnswersOnDisk`, `UnprepareCleansUp` | its action properties |
| | `Implementation` | `Spec => ImplementsBinding` |
| `NodeSystemProofs` | `SystemInductive` | `SystemSpec => [](TypeOK /\ HandlerInv /\ CallersInv)` |
| | `PluginInSystem` | `SystemSpec => Spec` of `KubeletPlugin` |
| | `RunningPodsKeepSpecs`, `DevicesAreExclusive`, `FirstCrashIsSurvived`, `NoPanic` | the invariants of `node_system` |
| `ClaimParametersGeneratorProofs` | `GeneratorInductive` | `Spec => [](TypeOK /\ GeneratorInv)`, any number of replicas |
| | `GeneratorTypes`, `DuplicatesAreBounded`, `RollbacksAreTransient` | the properties of `generator_rollout` |
| | `AloneInductive`, `SettledMeansConverted` | `AloneInv` and `SettledIsConverted`, for a controller that runs alone |
| | `ControllerMirrors` | `Spec => Mirror!Safety`, for a controller that runs alone |
| `ClaimJourneyProofs` | `JourneyInductive` | `Spec => []JourneyInv` |
| | `ClaimsGetWhatTheyAskFor`, `DevicesAreDistinct`, `AClaimAloneIsShown`, `ModelIsAsAsked` | the invariants of `journey_devices` |
| `CommandsProofs` | `CommandInductive` | `Spec => []CommandInv` |
| | `FlagsAreAsWanted`, `ClientsAgree`, `WorkIsAsAsked` | the invariants of `commands` |
| `SeedHashProofs` | `OneCharacterAlwaysCounts`, `NumbersAlwaysCount`, `NamesAlwaysHaveSources` | `OneCharacterCounts`, `NumbersCount`, `NamesHaveSources`, for names of any length |
| `PluginLifecycleProofs` | `SignalsAreNoticed` | the invariant of `lifecycle_streams` |

### The plugin

None of the safety properties is inductive alone: that a file is
stored with what the map records depends on the map not having changed since
the first look, which depends on the mutexes. `HandlerInv` says it all at once:
`MutexInv` ties the owner of each mutex to the locations under it; `CallInv` ties
locations to the kind of call and to a request that is not empty; `LookInv` says
what a handler may still rely on at each location (the claim is not in the map
between `store` and `commit`, its file is there at `commit`, gone at `forget`);
`ProcessInv` that a dead process has no memory; and the last two conjuncts are
`PreparedHasSpec` and `SpecIsAccountedFor` themselves. Each part is preserved
by each action given all of them before the step; the proofs have one step per
action, grouped by part. Mutual exclusion follows from `MutexInv`; the action
properties look at the only two actions that can end a handler of their kind
with success; the refinement maps `CheckPrepared`, `StoreSpec` and
`CommitPrepared` to the abstract `Prepare` or a stutter, and likewise for
`Unprepare`.

### The node

A pod's file survives because everybody keeps to the claim they wait for, so
`CallersInv` relates callers and calls: allocations do not overlap (`AllocInv`);
every call is for one claim, which waits for it or was given up on
(`RequestInv`); a claim that waits is in the right phase, and its call carries
its handle (`AwaitInv`); a file this process wrote is for its claim's
allocation, and an answer that is under way is still true (`FileInv`); and the
claims of the map, or about to be there, have no file of an earlier process
(`OrphanInv`). With `HandlerInv` this is inductive. That devices are exclusive
follows from `AllocInv` and `FileInv` by lemmas on `FakeDevices`: names map
back to the devices they came from, and a part has one parent. The first crash
is survived because nothing is orphaned before it. `PluginInSystem` carries
the theorems on `KubeletPlugin` over: its refinement of `ClaimBinding` holds in
the composed system as well.

### The controller

`GeneratorInv` holds with any number of replicas that interleave, crash, lose
their watches and fail, while users edit, delete and write RCPs by hand.
`CountInv` counts a replica that found no RCP and is about to create one along
with the RCPs there are, which is what bounds the duplicates. `OriginInv` says of
every event and every RCP that it stems from a version the FCP has had, `MatchInv`
that the revision a match was found with protects its update, and `TrackedInv` that the
last version of an FCP follows its older events in the queue of each watching replica;
a rollback is transient by these.

`AloneInductive`, `SettledMeansConverted` and `ControllerMirrors` have the
hypothesis `Alone(r)`: there is one replica, and no FCP is deleted. Both are needed:
`generator_rollout` has rollbacks with two replicas, and `generator_recreated`
shows what becomes of a name that is used again. `AloneInv` adds to
`GeneratorInv` that the events of a name are in order and none is older than its
RCP, that everything belongs to an FCP that is there, and that an FCP
that is neither converted nor dropped has an event before it. For the refinement each
write maps to an attempt of `ParametersMirror` or to a loss, each edit to a new
version that is wanted, and everything else to a stutter. Only the safety
part is proved; its liveness part, `Progress`, is checked by
`generator_converges`.

`ReplicaAssumption` says that there are finitely many replicas, without which
there would be nothing to count. That the list has a first RCP is `LeastNumber`, since an
induction theorem cannot be instantiated. A write whose answer is lost is one proof step more:
it does what the write does, and its event ends like that of one that failed.

### Parameters, commands, signals and the hash

`JourneyInv` follows a claim: its requests are those of its parameters, its
allocation has as many names as it has requests and is of the model they select, and its
variables number the prepared devices. How many those are is a
lemma (`PreparedCount`): a one-to-one map from positions, or from pairs of a
position and a number, onto the set that the plugin computes. The container's
part says that its variables are those of the largest claim injected so far,
which is preserved by injecting one more; with a single claim that has devices, the largest
is that one. `ModelsAssumption` keeps the models
apart from the other values of a selector, `UseAssumption` says that the
container uses a claim.

`CommandInv` says of each point of a command what the flags are: the defaults,
then what was given, then what is wanted; and that `Kubeconfig`, computed
anew at each reading, is the same before and after the first one overwrites the flag.
Proving it showed that `Wanted`, which the invariant is stated with, must try
its sources one after the other: the arms of a `CASE` in TLA+ have no order.

`SignalIsNoticed` needs to know where main is when the channel is empty.
For the hash, a difference of two values is multiplied by 31 with each character that
follows, and is 0 modulo the word afterwards only if it was before, when the word is not a
multiple of the prime 31: 2^64 is not. The two
hashes differ by the spread and some words (`PairInv`). While only digits differ the
spread is not 0, as no two digits are congruent modulo 31 (`TheNumerals`); so a gap of
less than a word, that of a number of up to 13 digits, keeps the hashes apart, and
the characters that follow keep them apart as well (`NumbersCount`). A spread of less than
89482311, that of a number of up to five digits at the end of a name, is no
multiple of 2^31 - 1 and no distance from 0 to the default seed either
(`NamesHaveSources`).

### Only model-checked

`EveryCallReturns`, `ReleasedIsFreed`, `EventuallyKnown`, `SecondSignalEnds`,
`EventuallyConverted`, `FailedServerEnds` and the `Progress` of
`ParametersMirror`: liveness under fairness, for which TLAPS has no support here. No
module declares a recursive operator.

## 5. Plan

* An invariant of `KubeletPlugin` that bounds what a second crash leaves behind:
  which files can be in conflict when `OneCrashIsSurvived` no longer applies.
* The same refinement of `ParametersMirror` with deletions of names that are not used
  again.
* For `PluginLifecycle`, the safety half of `EventuallyKnown`: when no stream is open,
  the kubelet has one to open.

## 6. What is not modelled, and why

* `math/rand` beyond `NewSource`: that two sources generate different UUIDs.
  Other pairs of seeds may well have one source, for it has 31 bits: nothing is shown of
  names of different lengths ("worker9" and "worker10"), of numbers followed by more
  characters, of two names between whose hashes an overflow falls, or of the UUIDs that are
  the seeds of parts (41 characters, which always overflow).
* The variables of the common device: constant on a node.
* `DeviceClassParameters`, the defaults of `api.go`, `PerNodeMutex`, `--workers`,
  `POD_NAMESPACE`: used by no code.
* Several structured handles in one claim: only the first is read.
* Concurrent namespaces: the controller handles each object on its own.
* Logging, `kube-api-burst` (which goes the way of `kube-api-qps`), the bodies of
  the HTTP handlers, which are a library's, and generated code.
* A bound on the handlers of resource streams that are left behind, one for
  each restart of the kubelet (`driver.go:58`): the code has none.
* A partial loss of the disk, other writers in the CDI directory, and a request
  to the API server that takes effect after its sender died: `BoundedDuplicates` does not
  hold of such requests.
