--------------------------- MODULE TopologyManager ---------------------------
(***************************************************************************)
(* The topology Device Plugins: deviceplugin.Manager, its servers, and the *)
(* kubelet they register with.                                             *)
(*                                                                         *)
(* Three goroutines use the manager: the policy reconciler                 *)
(* (UpdateResources), the interface goroutine of the OVSDB client          *)
(* (OnInterfaceChange) and the watcher of the kubelet socket               *)
(* (reregisterAll).  A mutex keeps them apart, but NUMA nodes, policies    *)
(* and the kubelet change while one of them holds it.                      *)
(***************************************************************************)
EXTENDS Integers

CONSTANTS
    Bridges, Resources,
    Nodes,          \* NUMA nodes as sysfs reports them, -1 for unknown
    NoBridge, NoResource,
    Invalid,        \* a bridge is named twice, or with an MTU out of range
    MaxChanges,     \* bound on the changes of the environment
    Faults

\* The kubelet restarts; a server does not start; a server that runs cannot
\* register again; the process is told to stop; UpdatePolicyDevices refuses the
\* bridges of the policies; the slice cannot be published.
FaultKinds == {"kubelet", "server", "register", "stop", "invalid", "publish"}

ASSUME TopologyConstants ==
    /\ Nodes \subseteq Nat \cup {-1}
    /\ NoBridge \notin Bridges
    /\ NoResource \notin Resources
    /\ Invalid \notin Resources \cup {NoResource}
    /\ MaxChanges \in Nat
    /\ Faults \subseteq FaultKinds

VARIABLES
    wanted,     \* per bridge: its topology resource by policy and OVS
    queued,     \* the policy reconciler has to run
    active,     \* what a running reconcile read of wanted; {} when none runs
    numa,       \* BridgeNUMANodes per bridge
    notice,     \* the bridge OnInterfaceChange is about to be called for
    topology,   \* Manager.topology
    servers,    \* Manager.servers: the NUMA node of each server, -1 for none
    op,         \* the goroutine that holds Manager.mutex, and its progress
    kubelet,    \* the kubelet runs
    created,    \* the watcher has yet to see that kubelet.sock was created
    advertised, \* what the kubelet knows: the node per resource, -1 for none
    phase,      \* the process runs, its context is canceled, StopAll was called
    missed,     \* history: servers the running kubelet could not be told of again
    unseen,     \* history: bridges whose nodes went silently since the last reconcile
    changes

outside == <<wanted, numa, unseen, changes>>
life    == <<phase, missed>>
vars == <<outside, queued, active, notice, topology, servers, op, kubelet,
          created, advertised, life>>

Topologies == [Bridges -> Resources \cup {NoResource}]
Wishes     == [Bridges -> Resources \cup {NoResource, Invalid}]

Free == [who |-> "none", todo |-> {}, res |-> NoResource, left |-> {},
         seen |-> {}, err |-> FALSE]

Ops == [who : {"none", "reconciler", "interface", "watcher"},
        todo : SUBSET Resources,                \* resources yet to look at
        res : Resources \cup {NoResource},      \* the one being looked at
        left : SUBSET Bridges,                  \* its bridges yet to be read
        seen : SUBSET (Nodes \cup {-1}),        \* the nodes read so far
        err : BOOLEAN]

BridgesOf(r, wish) == {b \in Bridges : wish[b] = r}

\* The node of one bridge: none when it has no uplinks, uplinks on several
\* nodes, or an unknown one.
NodeOf(nodes) == IF \E n \in nodes : nodes = {n} THEN CHOOSE n \in nodes : TRUE ELSE -1

\* The result of getConsistentNUMA for the nodes it read.
Consistent(seen) == NodeOf(seen)

Init ==
    /\ wanted \in Topologies
    /\ queued = TRUE
    /\ active = {}
    /\ numa \in [Bridges -> SUBSET Nodes]
    /\ notice = NoBridge
    /\ topology = [b \in Bridges |-> NoResource]
    /\ servers = [r \in Resources |-> -1]
    /\ op = Free
    /\ kubelet = TRUE /\ created = FALSE
    /\ advertised = [r \in Resources |-> -1]
    /\ phase = "running"
    /\ missed = {} /\ unseen = {}
    /\ changes = 0

-----------------------------------------------------------------------------
(* The environment *)

Change == changes < MaxChanges /\ changes' = changes + 1

\* A policy is edited, or a bridge comes or goes: the reconciler is woken.
PolicyChanged(b, r) ==
    /\ Change
    /\ wanted[b] # r /\ (r = Invalid => "invalid" \in Faults)
    /\ wanted' = [wanted EXCEPT ![b] = r]
    /\ queued' = TRUE
    /\ UNCHANGED <<active, numa, unseen, notice, topology, servers, op, kubelet,
                   created, advertised, life>>

\* The reconciler also watches the metadata of the node, which changes with
\* every status report of the kubelet.
NodeUpdated ==
    /\ kubelet
    /\ ~queued
    /\ queued' = TRUE
    /\ UNCHANGED <<outside, active, notice, topology, servers, op, kubelet,
                   created, advertised, life>>

\* handleInterfaceAdd and handleInterfaceDelete: the map first, then the
\* notifier, in one goroutine.
InterfaceChanged(b, nodes) ==
    /\ Change
    /\ notice = NoBridge
    /\ numa[b] # nodes
    /\ numa' = [numa EXCEPT ![b] = nodes]
    /\ notice' = b
    /\ UNCHANGED <<wanted, unseen, queued, active, topology, servers, op, kubelet,
                   created, advertised, life>>

\* The entries of a deleted bridge go without a call of OnInterfaceChange.  When
\* the bridge was created again by a later transaction, the event of its creation
\* follows and wakes the reconciler.  When one transaction replaced it, that event
\* may have come before, and the reconciler may have read the entries already.
BridgeForgotten(b) ==
    /\ numa[b] # {}
    /\ numa' = [numa EXCEPT ![b] = {}]
    /\ \/ queued' = (queued \/ wanted[b] # NoResource) /\ UNCHANGED unseen
       \/ wanted[b] # NoResource /\ unseen' = unseen \cup {b} /\ UNCHANGED queued
    /\ UNCHANGED <<wanted, changes, active, notice, topology, servers,
                   op, kubelet, created, advertised, life>>

KubeletStops ==
    /\ "kubelet" \in Faults /\ Change
    /\ kubelet
    /\ kubelet' = FALSE
    /\ advertised' = [r \in Resources |-> -1]
    /\ UNCHANGED <<wanted, numa, unseen, queued, active, notice, topology, servers, op,
                   created, life>>

KubeletStarts ==
    /\ ~kubelet
    /\ kubelet' = TRUE
    /\ created' = TRUE
    /\ UNCHANGED <<outside, queued, active, notice, topology, servers, op,
                   advertised, life>>

\* A signal, or an error of the controller manager: the context of all
\* goroutines is canceled.
Cancel ==
    /\ "stop" \in Faults /\ Change
    /\ phase = "running"
    /\ phase' = "canceled"
    /\ UNCHANGED <<wanted, numa, unseen, queued, active, notice, topology, servers, op,
                   kubelet, created, advertised, missed>>

-----------------------------------------------------------------------------
(* Who takes the mutex, and why *)

\* The reconciler collects the active bridges before it takes the mutex.
CollectBridges ==
    /\ queued /\ active = {}
    /\ queued' = FALSE
    /\ active' = {wanted}
    /\ unseen' = {}
    /\ UNCHANGED <<wanted, numa, changes, notice, topology, servers, op, kubelet, created,
                   advertised, life>>

\* UpdatePolicyDevices comes before UpdateResources.  When it refuses the
\* bridges, or cannot publish them, the reconcile ends there and is tried again.
\* As it refuses a bridge that is named twice, the check for two topology
\* resources of one bridge in UpdateResources never fails.
UpdatePolicyDevicesFails(wish) ==
    /\ wish \in active /\ op.who # "reconciler"
    /\ \/ wish \notin Topologies /\ UNCHANGED changes
       \/ "publish" \in Faults /\ Change
    /\ active' = {}
    /\ queued' = TRUE
    /\ UNCHANGED <<wanted, numa, unseen, notice, topology, servers, op, kubelet,
                   created, advertised, life>>

\* UpdateResources: the new topology, and no server for a resource that no
\* bridge names any more.
UpdateResources(wish) ==
    /\ op = Free /\ wish \in active \cap Topologies
    /\ LET needed == {r \in Resources : BridgesOf(r, wish) # {}}
           keep(f) == [r \in Resources |-> IF r \in needed THEN f[r] ELSE -1]
       IN /\ topology' = wish
          /\ servers' = keep(servers)
          /\ advertised' = keep(advertised)
          /\ op' = [Free EXCEPT !.who = "reconciler", !.todo = needed]
          /\ missed' = missed \cap needed
    /\ UNCHANGED <<outside, queued, active, notice, kubelet, created, phase>>

\* Variant: a bridge without a topology resource is not left out.
OnInterfaceChangeAnyBridge ==
    /\ op = Free /\ notice # NoBridge
    /\ op' = [Free EXCEPT !.who = "interface", !.todo = {topology[notice]}]
    /\ UNCHANGED <<outside, queued, active, notice, topology, servers, kubelet,
                   created, advertised, life>>

\* OnInterfaceChange: the one resource of the bridge, if it has one.
OnInterfaceChange ==
    /\ op = Free /\ notice # NoBridge
    /\ LET r == topology[notice]
       IN IF r = NoResource
          THEN notice' = NoBridge /\ UNCHANGED op
          ELSE /\ op' = [Free EXCEPT !.who = "interface", !.todo = {r}]
               /\ UNCHANGED notice
    /\ UNCHANGED <<outside, queued, active, topology, servers, kubelet,
                   created, advertised, life>>

\* Variant: the new socket is noticed and nothing is done about it.
reregisterNone ==
    /\ op = Free /\ created
    /\ created' = FALSE
    /\ UNCHANGED <<outside, queued, active, notice, topology, servers, op,
                   kubelet, advertised, life>>

reregisterAll ==
    /\ op = Free /\ created
    /\ created' = FALSE
    /\ op' = [Free EXCEPT !.who = "watcher",
                          !.todo = {r \in Resources : servers[r] # -1}]
    /\ UNCHANGED <<outside, queued, active, notice, topology, servers, kubelet,
                   advertised, life>>

\* The request names the resource and its socket, not a server: the kubelet gets
\* the node from whoever listens there.  A kubelet that cannot connect, as when
\* it removed the sockets of plugins at its start, is a failure: ReregisterFails.
Reregister(r) ==
    /\ op.who = "watcher" /\ r \in op.todo
    /\ kubelet /\ phase = "running"
    /\ advertised' = [advertised EXCEPT ![r] = servers[r]]
    /\ missed' = missed \ {r}
    /\ op' = [op EXCEPT !.todo = @ \ {r}]
    /\ UNCHANGED <<outside, queued, active, notice, topology, servers, kubelet,
                   created, phase>>

\* The error is only logged, and the server stays in the map.
ReregisterFails(r) ==
    /\ op.who = "watcher" /\ r \in op.todo
    /\ \/ /\ ~kubelet \/ phase # "running"
          /\ UNCHANGED <<changes, missed>>
       \/ "register" \in Faults /\ Change /\ missed' = missed \cup {r}
    /\ op' = [op EXCEPT !.todo = @ \ {r}]
    /\ UNCHANGED <<wanted, numa, unseen, queued, active, notice, topology, servers,
                   kubelet, created, advertised, phase>>

\* The last that run does.  The reconcilers may still be at work.
StopAll ==
    /\ op = Free /\ phase = "canceled"
    /\ servers' = [r \in Resources |-> -1]
    /\ advertised' = [r \in Resources |-> -1]
    /\ missed' = {}
    /\ phase' = "stopped"
    /\ UNCHANGED <<outside, queued, active, notice, topology, op, kubelet, created>>

-----------------------------------------------------------------------------
(* ensureServer *)

EnsureServer(r) ==
    /\ op.who \in {"reconciler", "interface"}
    /\ op.res = NoResource /\ r \in op.todo
    /\ op' = [op EXCEPT !.todo = @ \ {r}, !.res = r,
                        !.left = BridgesOf(r, topology), !.seen = {}]
    /\ UNCHANGED <<outside, queued, active, notice, topology, servers, kubelet,
                   created, advertised, life>>

\* getConsistentNUMA reads one bridge after the other, and stops as soon as
\* the answer can only be -1.
GetBridgeNUMA(b) ==
    /\ b \in op.left
    /\ LET seen == op.seen \cup {NodeOf(numa[b])}
       IN op' = [op EXCEPT !.seen = seen,
                           !.left = IF Consistent(seen) = -1 THEN {} ELSE @ \ {b}]
    /\ UNCHANGED <<outside, queued, active, notice, topology, servers, kubelet,
                   created, advertised, life>>

EndEnsure == op' = [op EXCEPT !.res = NoResource, !.seen = {}]

\* Variant: a running server is kept whatever its node.
KeepAnyServer ==
    /\ op.res # NoResource /\ op.left = {}
    /\ servers[op.res] # -1 \/ Consistent(op.seen) = -1
    /\ EndEnsure
    /\ UNCHANGED <<outside, queued, active, notice, topology, servers, kubelet,
                   created, advertised, life>>

\* The server has the right node, or none is needed and none runs.
KeepServer ==
    /\ op.res # NoResource /\ op.left = {}
    /\ servers[op.res] = Consistent(op.seen)
    /\ EndEnsure
    /\ UNCHANGED <<outside, queued, active, notice, topology, servers, kubelet,
                   created, advertised, life>>

\* Variant: the server is forgotten but goes on running.
ForgetServer ==
    /\ op.res # NoResource /\ op.left = {}
    /\ servers[op.res] \notin {-1, Consistent(op.seen)}
    /\ servers' = [servers EXCEPT ![op.res] = -1]
    /\ UNCHANGED <<outside, queued, active, notice, topology, op, kubelet,
                   created, advertised, life>>

\* Stop ends the stream to the kubelet, which drops the devices.
StopServer ==
    /\ op.res # NoResource /\ op.left = {}
    /\ servers[op.res] \notin {-1, Consistent(op.seen)}
    /\ servers' = [servers EXCEPT ![op.res] = -1]
    /\ advertised' = [advertised EXCEPT ![op.res] = -1]
    /\ missed' = missed \ {op.res}
    /\ UNCHANGED <<outside, queued, active, notice, topology, op, kubelet,
                   created, phase>>

\* Variant: the registration does not depend on the context.
StartServerDetached ==
    /\ op.res # NoResource /\ op.left = {}
    /\ servers[op.res] = -1 /\ Consistent(op.seen) # -1
    /\ kubelet
    /\ servers' = [servers EXCEPT ![op.res] = Consistent(op.seen)]
    /\ advertised' = [advertised EXCEPT ![op.res] = Consistent(op.seen)]
    /\ EndEnsure
    /\ UNCHANGED <<outside, queued, active, notice, topology, kubelet, created, life>>

\* Start listens and registers; the kubelet then asks for the devices.
StartServer ==
    /\ op.res # NoResource /\ op.left = {}
    /\ servers[op.res] = -1 /\ Consistent(op.seen) # -1
    /\ kubelet /\ phase = "running"
    /\ servers' = [servers EXCEPT ![op.res] = Consistent(op.seen)]
    /\ advertised' = [advertised EXCEPT ![op.res] = Consistent(op.seen)]
    /\ EndEnsure
    /\ UNCHANGED <<outside, queued, active, notice, topology, kubelet, created, life>>

\* The socket cannot be made, or the registration fails and the server is
\* stopped again.
StartFails ==
    /\ op.res # NoResource /\ op.left = {}
    /\ servers[op.res] = -1 /\ Consistent(op.seen) # -1
    /\ \/ (~kubelet \/ phase # "running") /\ UNCHANGED changes
       \/ "server" \in Faults /\ Change
    /\ op' = [op EXCEPT !.res = NoResource, !.seen = {}, !.err = TRUE]
    /\ UNCHANGED <<wanted, numa, unseen, queued, active, notice, topology, servers,
                   kubelet, created, advertised, life>>

\* The mutex is released.  An error is returned to the work queue by the
\* reconciler, and only logged by the other two.
Unlock ==
    /\ op.who # "none" /\ op.todo = {} /\ op.res = NoResource
    /\ queued' = (queued \/ (op.who = "reconciler" /\ op.err))
    /\ active' = IF op.who = "reconciler" THEN {} ELSE active
    /\ notice' = IF op.who = "interface" THEN NoBridge ELSE notice
    /\ op' = Free
    /\ UNCHANGED <<outside, topology, servers, kubelet, created, advertised, life>>

-----------------------------------------------------------------------------
EnvironmentStep ==
    \/ \E b \in Bridges :
          \/ \E r \in Resources \cup {NoResource, Invalid} : PolicyChanged(b, r)
          \/ \E nodes \in SUBSET Nodes : InterfaceChanged(b, nodes)
          \/ BridgeForgotten(b)
    \/ KubeletStops

Reconcile == \E wish \in Wishes : UpdateResources(wish) \/ UpdatePolicyDevicesFails(wish)

Locked ==
    \/ \E r \in Resources : Reregister(r) \/ ReregisterFails(r) \/ EnsureServer(r)
    \/ \E b \in Bridges : GetBridgeNUMA(b)
    \/ KeepServer \/ StopServer \/ StartServer \/ StartFails
    \/ Unlock

\* No goroutine has anything to do.
Settled == op = Free /\ ~queued /\ active = {} /\ notice = NoBridge

Next ==
    \/ EnvironmentStep \/ KubeletStarts \/ NodeUpdated \/ Cancel \/ StopAll
    \/ CollectBridges \/ Reconcile \/ OnInterfaceChange \/ reregisterAll
    \/ Locked

Spec == Init /\ [][Next]_vars

\* The goroutines run, the kubelet comes back and reports the node's status, and
\* the mutex is handed to everyone who waits for it (Go's sync.Mutex does not
\* starve).
FairSpec ==
    /\ Spec
    /\ WF_vars(KubeletStarts) /\ WF_vars(NodeUpdated) /\ WF_vars(CollectBridges) /\ WF_vars(Locked)
    /\ SF_vars(Reconcile) /\ SF_vars(OnInterfaceChange) /\ SF_vars(reregisterAll)

-----------------------------------------------------------------------------
(* Properties *)

\* The types of the variables.
TypeOK ==
    /\ wanted \in Wishes
    /\ queued \in BOOLEAN
    /\ active \in SUBSET Wishes
    /\ numa \in [Bridges -> SUBSET Nodes]
    /\ notice \in Bridges \cup {NoBridge}
    /\ topology \in Topologies
    /\ servers \in [Resources -> Nodes \cup {-1}]
    /\ op \in Ops
    /\ kubelet \in BOOLEAN
    /\ created \in BOOLEAN
    /\ advertised \in [Resources -> Nodes \cup {-1}]
    /\ phase \in {"running", "canceled", "stopped"}
    /\ missed \subseteq Resources
    /\ unseen \subseteq Bridges
    /\ changes \in 0..MaxChanges

\* The node that all bridges of a resource share.
TrueNode(r) == Consistent({NodeOf(numa[b]) : b \in BridgesOf(r, wanted)})

\* A bridge of the resource was replaced in one transaction since the last
\* reconcile.
Unseen(r) == \E b \in unseen : wanted[b] = r

\* No resource is served with a node its bridges are not on: once the
\* goroutines are done, every server has the node that all its bridges share
\* now, although each reads the bridges one by one while they change.  The one
\* exception is a bridge that a single transaction replaced, until the next
\* reconcile.
ServedIsCurrent ==
    Settled => \A r \in Resources : servers[r] \in {-1, TrueNode(r)} \/ Unseen(r)

\* The kubelet never believes in a server that was stopped or replaced.
AdvertisedIsServed ==
    \A r \in Resources : advertised[r] \in {-1, servers[r]}

\* Once StopAll has returned no server runs and the kubelet knows of none,
\* although the reconciler, the watcher and the interface goroutine may go on
\* calling the manager: what they start after the signal cannot register.
StoppedForGood ==
    phase = "stopped" =>
        \A r \in Resources : servers[r] = -1 /\ advertised[r] = -1

Quiet == changes = MaxChanges

\* If all bridges that share a topology resource are on the same NUMA node,
\* a Device Plugin advertises that node in the end: a start that failed is
\* made up for by a later reconcile, a lost registration by the watcher.
TopologyIsAdvertised ==
    \A r \in Resources :
        Quiet /\ TrueNode(r) # -1 ~> advertised[r] = TrueNode(r)

\* What the code achieves of it: in the end, and for good, the kubelet has the
\* node of every resource, except of one whose server could not register again
\* when the kubelet was back, and unless UpdatePolicyDevices refuses the policies.
AdvertisedUnlessMissed ==
    Quiet ~> [](phase = "running" /\ wanted \in Topologies =>
                   \A r \in Resources \ missed : advertised[r] = TrueNode(r))

=============================================================================
