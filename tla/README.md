# Verification of the OVS-DPDK DRA driver

TLA+ specifications of the Kubernetes DRA driver that hands vhost-user ports of
OVS-DPDK bridges to pods, with TLC configurations for small instances and
TLAPS proofs of the main safety properties. `PROJECT.json` maps every
definition to the lines of the code it models.

## The system

| Part | State | Operations | Talks to |
| --- | --- | --- | --- |
| kubelet plugin (`pkg/driver`) | - | `PrepareResourceClaims`, `UnprepareResourceClaims`, `updateClaimStatus`, `PublishResources` | kubelet, pod manager, device state, API server |
| pod manager (`pkg/podmanager`) | prepared devices per claim, in memory | `Get`, `Set`, `Delete` | - |
| device state (`pkg/devicestate`) | allocatable devices, vhost-user configuration | prepare, rollback, unprepare, `UpdatePolicyDevices`, `UpdateConfig`, port configuration | socket directories, CDI, OVSDB |
| CDI (`pkg/cdi`), socket directories (`pkg/socketfs`) | files on the host, resolved user and group names | create, permissions, remove | file system, user database |
| OVSDB client (`pkg/ovs`) | cache of bridges, NUMA node per uplink, channel of interface events | `CreatePort`, `DeletePort`, bridge and interface events | OVSDB |
| config and policy controllers (`pkg/controllers`) | work queue, trigger channel | `Reconcile` | API server, OVSDB client, device state, topology manager |
| topology manager and servers (`pkg/deviceplugin`) | resource of each bridge, server of each resource | `UpdateResources`, `OnInterfaceChange`, `reregisterAll`, `ensureServer`, `StopAll` | OVSDB client, kubelet |

What makes it hard:

- Host state (directory, OVS port, CDI file) is durable; the record of it is in
  memory. A crash may fall between any two effects.
- Every host operation may fail, rollback included, and an OVSDB transaction
  may commit although its caller sees an error.
- The kubelet repeats calls; answers get lost.
- Policies, node labels, bridges and NUMA nodes change while they are read, and
  notifications pass through bounded channels that drop events.
- Three goroutines share the topology manager while the kubelet restarts or the
  process stops.
- The configuration changes between two reads of one call, and a socket
  directory gets its permissions in steps that fail one by one.
- Other drivers write the status of the same claim.

The full list, with lines and the properties that would notice, is under
`hazards` in `PROJECT.json`.

## Modules

| Module | Models | Runs |
| --- | --- | --- |
| `ClaimLifecycle` | the life of claims on a node: prepare, rollback, unprepare, crash | `lifecycle_*`, `restart_*` |
| `ClaimContract` | what the kubelet plugin promises of a claim | |
| `ClaimRefinement` | the mapping from `ClaimLifecycle` to `ClaimContract` | `lifecycle_batch` |
| `ClaimLifecycleProofs`, `ClaimContractProofs` | proofs about them | |
| `SocketDirs`, `SocketDirsProofs` | the configuration on its way to the permissions of socket directories | `socket_dirs` |
| `ClaimStatus`, `ClaimStatusProofs` | the status update against other writers and across restarts | `claim_status` |
| `PortConfig`, `PortConfigProofs` | which opaque configuration a request gets, against a reference definition | `port_config` |
| `PolicyReconcile`, `PolicyReconcileProofs` | policies, node and bridges to devices, slice and topology input | `policy_settles` |
| `PolicyPorts` | composition of `PolicyReconcile` with the call that creates ports | `ports_miss_mtu` |
| `NumaMonitor`, `NumaMonitorProofs` | OVSDB events to the NUMA map: two goroutines and a bounded channel | `numa_monitor` |
| `TopologyManager`, `TopologyManagerProofs` | topology servers, their mutex, the kubelet, and the shutdown | `topology`, `topology_unregistered` |

`MC*` modules only give constants their values. Operators whose comment starts
with "Variant" are plausible mistakes; no specification uses them. Each of them
breaks the property `PROJECT.json` names under `mutants` when it takes the place
of the definition below it.

### ClaimLifecycle

Each durable effect is one action, so crashes, configuration and bridge changes
fall between any two. Calls do not overlap: `driver.New` leaves the helper's
serialisation on. `cache` is the pod manager, `dirs`, `specs` and `ports` are
the host, `call` is the program counter of the call being served. `leaked` is a
history variable: host state nobody answers for, added to only by a crash, an
error after a commit, a failed step of a rollback, or a failed removal of a CDI
file. `unplugged` is another: the bridges that were deleted at some time, and
with them the ports on them.

A `CreatePort` on a missing bridge may succeed without effect (the mutation
matches no row and the unreferenced port is collected) or fail; both are
allowed. A claim belongs to one pod, as `PrepareResourceClaim` demands. The
configuration is present or absent here; `SocketDirs` has its contents.

### ClaimContract and ClaimRefinement

A claim is free, busy, granted or revoked, and holds items on the host, some of
them lost. One claim is busy at a time; only what it holds changes, and it leaves
that state granted with all its directories, its CDI file and its ports,
revoked for another try, or free with nothing left but losses. Ports may go with
their bridge, which is the one thing a granted claim is not protected from: it
may lack the ports on a bridge that was away at some time (`vanished`), because
`CreatePort` on a missing bridge may succeed.
`ClaimRefinement` reads the state of a claim off the pod manager, the running
call and the kubelet: granted is cached with a pod that is not terminating. It
says nothing of the order of steps inside a call, which is what a different
implementation of prepare could change freely.

### SocketDirs

`versions` is the history of the `OvsDpdkConfig`; `config` is the version
`DeviceState` holds and `cache` the resolver's. `prepareDevice` reads the
configuration in `PrepareDevice` and again in `ReadConfigAgain`; every step of
`CreateSocketDir` is an action with its own failure. A directory that a failed
removal or a crash left behind keeps its label and ACLs, and `found` records
that a device was prepared on one. The rest of prepare is one step that may
fail. Users and groups have separate names, as the resolver has two caches. A
configured number may be -1, which `chown` takes for "do not change": a directory
it made stays with root, one it found keeps its owner (`NewOwner`, `Owns`). Other
negative numbers stand for the ID the kernel makes of them.

### ClaimStatus

Entries are counted, so a duplicate is visible. The kubelet may give up on the
call (`ContextDone`). Nothing writes the status later: the next call is answered
from the pod manager, unless the driver was restarted. Then the claim is
prepared again and its entries are appended to those of the earlier run; the API
server may accept the list or refuse it for its duplicates.

### PolicyReconcile and PolicyPorts

One reconciler with a single key; node, policies and each bridge are read in
separate steps. The channel of the bridge notifier holds one event and drops
more. An error requeues the key. A bridge spec is a bridge and an MTU, which
stands for the rest of its content. `UpdatePolicyDevices` refuses a list with a
bridge named twice or an MTU outside 68..65535 (`Refused`). The API server
refuses such an MTU too, by the limits in the CRD; the model leaves policies free
to have one, so that the check of the driver counts.

`PolicyPorts` adds the configuration, which has a controller of its own and is nil
after a restart, and the ports created by claims, each with the MTU it should have
and the one it got. `prepareDevice` fails without a configuration, so the
configuration controller has to win the race that `ports_miss_mtu` shows.

### NumaMonitor

`events` is what libovsdb has yet to tell the handlers; the events of one
transaction come in any order. `OnInterface` drops an event when the channel is
full. The interface goroutine (`task`) looks up port and bridge when it gets to
the event, stores the entry and calls the notifier in three steps, so that the
cache goroutine may forget the bridge in between. Interfaces are UUIDs and are
never used again. The history variables record what was lost (`lost`: dropped,
failed lookup, or taken along by the removal of a bridge of the same name),
which bridges were replaced in one transaction (`swapped`), and which changes
the reader of the map has not been told of (`untold`).

`TopologyManager` relies on it in two actions: `InterfaceChanged` is a change
that ends in a call of the interface notifier, `BridgeForgotten` the removal of
all entries of a bridge. `ChangesAnnounced` proves that there are no others. A
bridge replaced in one transaction may be announced before its entries go; it is
`swapped` here and `unseen` in `TopologyManager`.

### TopologyManager

`op` is the holder of the mutex and its progress. NUMA nodes are read bridge by
bridge. The kubelet is seen from the driver: registering a listening server is
enough to be advertised, stopping it ends that. `Cancel` is the signal;
`StopAll` runs some time later, while the other goroutines may still take the
mutex. `missed` records the servers the kubelet could not be told of again,
`unseen` the bridges that lost their entries without a wakeup since the last
reconcile: a server may then keep a node that its bridges are not on, until the
next status report of the node wakes the reconciler.

`UpdatePolicyDevicesFails` is a reconcile that ends before it calls the manager,
because the list was refused or the slice was not published; the topologies stay
those of the last list. `UpdateResources` has a check of its own for a bridge in
two topologies, which `UpdatePolicyDevices` keeps from ever failing.

`reregisterAll` holds the mutex for its whole loop and ranges over the map
itself, so `Reregister` registers the server the map has at that moment. The
request carries the names of the resource and of its socket (`Register`), not the
node, which the kubelet hears from the server that listens there. That the kubelet
can connect is an assumption about it; where it cannot, for example because it
removed the sockets when it started, the step is `ReregisterFails`.

## What the runs check

| Run | Result | Shows |
| --- | --- | --- |
| `lifecycle_batch` | holds | with two claims in one call and no restart: a batch that fails half-way orphans nothing, a running pod keeps its socket directories, and the contract of a claim is implemented |
| `lifecycle_live` | holds | with two pods and every fault: cached claims have their files on the host, and their ports unless the bridge was deleted; a successful unprepare leaves only recorded losses; claims leave each other's ports alone; once faults stop, pods terminate, and pods whose port names are free start |
| `socket_dirs` | holds | prepared directories have the permissions of one accepted configuration and keep them (one left over from before may have more); the last configuration wins; a bad one does no lasting harm |
| `claim_status` | holds | entries of other drivers survive, own entries appear whole and at most once per start, attempts are used up only by disturbances or a refused list |
| `port_config` | holds | the loop over configurations agrees with its declarative definition |
| `policy_settles` | holds | a reconciler at rest agrees with its inputs; the slice follows the policies |
| `numa_monitor` | holds | at rest the NUMA map is that of OVSDB but for recorded losses, and every change of it was told to its reader unless the bridge was replaced in one transaction; uplinks that stay are found |
| `topology` | holds | at rest every server has the node its bridges share, unless one was replaced in one transaction since the last reconcile; the kubelet believes in no stopped server; nothing is served after `StopAll`; an existing topology is advertised in the end unless its re-registration failed |
| `restart_leaks` | violated | after a restart, unprepare succeeds and removes nothing |
| `restart_loses_dirs` | violated | after a restart, preparing a running pod again removes its directory |
| `ports_miss_mtu` | violated | a port created between a restart and the first reconcile of the policies has no MTU, although the configuration was there |
| `topology_unregistered` | violated | a failed re-registration is never repeated |

The four violated properties state what a document, a comment or a test of the
repository says; `findings` in `PROJECT.json` quotes it.

### Bounds

- Lifecycle: `LifecycleBatch` is one pod with two claims, three devices and two
  bridges. Two requests in a claim are needed for a rollback with work to do,
  two claims for a batch that fails in the middle. It leaves out the crash;
  `RestartLosesDirs` is the same instance with the crash as its only fault. `LifecycleLive` is two pods
  with a device each that share bridge, request and claim name, which is what
  interference and competition for the plugin take, with crashes. Faults are
  not bounded.
- `SocketDirs`: one device, two versions out of four contents (a named user with
  label and ACL, numbers only with a group of -1, a named group with a malformed label, none), two
  changes of accounts. That is enough for a change between the two reads, for a
  leftover directory under another configuration, and for a cached name whose
  account changed. Faults and restarts are not bounded. More devices only share
  the resolver's cache; the proofs cover them. The system may come to rest with
  no pod and no event left, so this run does not look for deadlocks.
- `ClaimStatus`: the five attempts of the code, two other drivers with three
  writes each, two faults of each kind and two restarts: more than the attempts
  can absorb.
- `PortConfig`: lists of up to three configurations, two requests, VLAN IDs at
  and beyond both ends of the range.
- `PolicySettles`: two policies, bridges and labels, four changes or faults, two
  events on their way: enough for a change during a reconcile, a dropped event
  and a fault in the reconcile that should repair it. Both policies may name
  either bridge, one of them with 65536, the first MTU that is too large.
- `NumaMonitor`: two bridges, two interfaces, three transactions, a channel of
  one: a bridge made, replaced and deleted before its events are handled, and a
  channel that is full at the second interface.
- `Topology`: a resource that two bridges may share, two nodes, two changes: a
  kubelet restart with a failing registration, or any change while the process
  stops. The safety properties are proved for all bounds. One bridge is enough
  for `TopologyUnregistered`.

### Fairness

- The goroutine of a running call, the worker of a controller, the informer, the
  channel source, libovsdb's cache goroutine and the interface goroutine run when
  they can (weak fairness).
- The plugin's lock and the manager's mutex reach every waiter (strong fairness
  of the calls, `Reconcile`, `OnInterfaceChange` and `reregisterAll`): Go's
  `sync.Mutex` hands itself to a waiter that starves.
- The kubelet repeats failed calls, comes back after it stopped, and reports the
  node's status; each report wakes the policy reconciler, which watches the
  node's metadata.
- Faults stop: `Stabilise` in the lifecycle and the socket directories, the
  exhausted bound `MaxChanges` or `MaxTxns` elsewhere. No fairness is
  assumed of faults and changes themselves.

## What is proved

For all values of the constants that satisfy the named assumption of each
module (`ConstantsAssumption`, `StatusConstants`, `ConfigConstants`,
`PolicyConstants`, `MonitorConstants`, `TopologyConstants`), which says that constants have their
types and that markers such as `NoClaim` differ from the values they mark:

| Theorem | Statement | Further hypothesis |
| --- | --- | --- |
| `TypeCorrect` | `TypeOK`, with the shape of a call per phase | |
| `OrphansExplained` | `EveryOrphanExplained` | |
| `CachedBacked` | `CachedIsBacked` | `DistinctDirs` |
| `CachedPlugged` | `CachedIsPlugged` | `DistinctPorts` |
| `GoneClean` | `GoneIsClean` | both |
| `DeletionRemovesAll` | `PodDeletionRemovesAll` | `DistinctDirs`, no crash, no failing file operation |
| `OthersPorts` | `OthersKeepTheirPorts` | `DistinctPorts` |
| `RunningDirs` | `RunningKeepsDirs` | `DistinctDirs`, no crash |
| `ContractKept` | `ClaimLifecycle` implements `ClaimContract` | both |
| `SocketDirTypes`, `NeverWithoutConfig`, `PermissionsApplied`, `ExistingDirsKept` | `TypeOK`, `PreparedUnderConfig`, `PreparedAsConfigured`, `ExistingKept` of `SocketDirs` | |
| `StatusTypes`, `NoLostEntries`, `EntriesTogether`, `AttemptsSuffice` | `TypeOK`, `OthersPreserved`, `OwnEntriesWhole`, `GivesUpOnlyWhenDisturbed` of `ClaimStatus` | |
| `ParserCorrect` | `ParsedAsSpecified` | |
| `PolicyTypes`, `NoLostWakeup` | `TypeOK`, `SettledIsCurrent` of `PolicyReconcile` | |
| `MonitorTypes`, `MapErrors`, `ReaderIsTold`, `ChangesAnnounced` | `TypeOK`, `MapErrorsExplained`, `ChangesAreTold`, `ChangesAreAnnounced` of `NumaMonitor` | |
| `TopologyTypes`, `NoStaleServer`, `NoGhostDevices`, `ShutdownIsFinal` | `TypeOK`, `ServedIsCurrent`, `AdvertisedIsServed`, `StoppedForGood` of `TopologyManager` | |

`DistinctDirs` says that no two devices share a socket directory,
`DistinctPorts` that no two share a port name. The code relies on both without
enforcing them: a port name keeps eight digits of the claim's UID. When two
claims agree in these, in the request and in the bridge, OVSDB refuses the
second port, which protects the first claim from crashes, lost answers and
refused calls. It is not enough when an unprepare removes the port and a later
step of it fails, or when a deletion commits although it is reported as failed:
the other claim may then create the port of that name, and the repeated
unprepare deletes it.

- `OrphansExplained`: ownership moves between the pod manager and the call. It
  takes `CallShape` to exclude that a device is counted in both or in neither:
  while a claim is worked on it is not cached, the devices done and those to do
  are disjoint, and cleanup only shrinks what is left.
- `CachedBacked`, `GoneClean`: `CallProgress` relates the call to the host
  (the directories and the file it created are there, the claims it is done with
  are dealt with), and `AwayUncached` says that a pod that is absent or gone has
  no entry. Both need no hypothesis (`ProgressInv`). `BackingInv` adds that entries
  are on the host, where a directory shared with another claim would be the
  exception.
- `DeletionRemovesAll`: from the same invariant and `OrphansExplained`, since
  without crashes and failing file operations no directory and no CDI file is
  ever counted as lost. It bounds what the run `restart_leaks` shows: the leak
  takes a restart, and OVSDB failures, lost answers and refused calls do not
  cause it.
- `CachedPlugged`: `PlugInv` says the same of the devices that prepare is done
  with: a port exists, or its bridge was deleted at some time. A `CreatePort`
  whose transaction committed without an answer is an error, so the device is
  not among them. `OthersPorts` is a property of single steps and follows from
  the shape of the call.
- `RunningDirs`: entries are complete, and a running pod is cached, which only a
  restart breaks.
- `ContractKept`: every action is sorted by what it does to the contract. Steps
  on the host change what the busy claim holds and, with distinct directories
  and ports, nothing else (`HostStep`). The ends of a call are moves of one claim
  (`MoveStep`): granting needs the progress of the call and `PlugInv`, releasing
  needs `OrphansExplained`, which leaves only losses once the driver owns nothing
  of the claim (`CleanedUp`). Deleting a pod revokes its claims, a bridge takes its ports, a
  crash loses all; the rest is invisible.
- `NeverWithoutConfig`, `PermissionsApplied`, `ExistingDirsKept`: `ConfigInv`
  (the configuration held was accepted), `CallInv` (so were both reads, in
  order) and `DirInv`, which says step by step what `CreateSocketDir` has done
  to the directory. `PreparedInv` strengthens `PreparedAsConfigured`: the names
  behind an owner are in the cache and stay there.
- `NoLostEntries`, `EntriesTogether`: a held claim with the current version has
  the current entries of the others (`CopyInv`), and both claims have the same
  number of entries for each device (`WholeInv`). `AttemptsSuffice` is a budget
  (`BudgetInv`): every attempt since the start was paid for by a write, a lost
  answer or a failing call.
- `ParserCorrect`: the loop invariant, that what is stored is the last matching
  element of the part of the list already read.
- `PolicyTypes`: the topology manager gets the list that `UpdatePolicyDevices`
  was given, not what it stored; `Checked` says that a list which is passed on was
  not refused.
- `NoLostWakeup`: `SettledIsCurrent` says nothing of a running reconcile. The
  inductive `WakeupInv` does: when no wakeup is pending, what the reconcile has
  read so far is still true, phase by phase.
- `MapErrors`: the map and OVSDB are compared through the events between them.
  An interface whose loss is not recorded is known, or its creation is still
  pending (`AddedInv`); a known one is known on one bridge only, its row is on
  that bridge, and when the row is gone the deletion is pending or the loss is
  recorded (`KnownInv`); an interface whose deletion is pending never comes back
  (`DeletedInv`). "Pending" covers the events and the channel, "known" the map
  and what the interface goroutine is about to store, so the invariant survives
  the hand-over from one goroutine to the other.
- `ReaderIsTold`: a change the reader was not told of is about to be told, or an
  event of the bridge's creation is (`UntoldInv`). It rests on the order of
  events: for a bridge that exists and was not replaced in one transaction, the
  creation comes after every deletion (`OrderInv`, `ForgetInv`).
- `NoStaleServer`: as above for the manager. `ServingInv` says that a server with
  a wrong node will be looked at: by a reconcile that has yet to take the mutex,
  by a notice that has yet to be handled, or by the holder of the mutex, whose
  nodes read so far agree with those it has yet to read. `Excused` holds the
  notice and the exception, `Unseen`.
- `ShutdownIsFinal`: a server starts only by registering, which takes a context
  that is not canceled.

Only model-checked: liveness, which is outside the prover's reach
(`TerminationCompletes`, `StartupCompletes`, `ConfigTakesEffect`,
`BadConfigIsCured`, `PolicyTakesEffect`, `UplinksAreResolved`,
`AdvertisedUnlessMissed`), and the properties that are violated. Every safety
property of a passing run is also a theorem.

## Not modelled

- Contents of CDI files, device attributes, capacities and metadata: data nothing
  in the driver reads back.
- JSON decoding of port configurations and of user and group IDs: a configuration
  decodes or does not, an ID is a number or a name.
- Two claims whose UIDs share eight digits and whose requests have one name: the
  properties that need distinct ports have them as a hypothesis (see above).
- Connecting and reconnecting to OVSDB, which libovsdb does: `ovs.New` waits for
  the first connection, and the initial rows are events like later ones. Rows
  that are updated in place have no handler.
- The answers of the device plugin servers: they are constant for a server, or
  empty.
- `Driver.Stop` and the order of the other deferred calls of `run`: the process
  ends, and what is left on the host is the subject of `Restart`.
- Flags, logging and generated code.
