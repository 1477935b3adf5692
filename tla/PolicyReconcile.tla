--------------------------- MODULE PolicyReconcile ---------------------------
(***************************************************************************)
(* How OvsDpdkResourcePolicy objects and the bridges of OVS become the     *)
(* devices of the ResourceSlice and the input of the topology manager.     *)
(*                                                                         *)
(* One reconciler works on one key.  It is woken by the informers of the   *)
(* policies and of the node, and by bridge events of the OVSDB client,     *)
(* which pass through a channel with room for one event.  Policies, the    *)
(* node's label and bridges may change between any two reads of a          *)
(* reconcile.                                                              *)
(***************************************************************************)
EXTENDS Integers

CONSTANTS
    Policies, Bridges, Labels,
    Mtus,           \* the MTUs of bridge specs, standing for all of their content
    NoMtu,          \* no MTU is given: the pointer is nil
    Versions,       \* the sets of bridge specs each policy may be edited to have
    Selector,       \* the node labels a policy selects
    MaxEvents,      \* bound on bridge events on their way to the notifier
    MaxChanges,     \* bound on the changes of the environment
    Faults

\* A failing API call or OVSDB cache lookup; a topology server that does not
\* start; a restart of the driver.
FaultKinds == {"api", "server", "crash"}

Specs == Bridges \X Mtus

ASSUME PolicyConstants ==
    /\ Mtus \subseteq Int \cup {NoMtu} /\ NoMtu \notin Int
    /\ Versions \in [Policies -> SUBSET SUBSET Specs]
    /\ Selector \in [Policies -> SUBSET Labels]
    /\ MaxEvents \in Nat \ {0}
    /\ MaxChanges \in Nat
    /\ Faults \subseteq FaultKinds

VARIABLES
    policies,       \* informer cache: the bridge specs of each policy
    label,          \* informer cache: the label of this node
    bridges,        \* OVSDB client cache: the netdev bridges
    events,         \* bridge events the client has yet to hand out
    triggerChan,    \* the channel of the bridge notifier holds an event
    queued,         \* the key is in the work queue
    rec,            \* the reconcile that runs
    allocatable,    \* DeviceState.allocatable
    published,      \* the devices last handed to the ResourceSlice controller
    topology,       \* the bridge specs last given to the topology manager
    changes         \* how often the environment changed

inputs == <<policies, label, bridges, changes>>
wakeup == <<events, triggerChan>>
output == <<allocatable, published, topology>>
vars   == <<inputs, wakeup, queued, rec, output>>

\* An element of the list of bridges the reconciler collects: the policy it
\* comes from and the spec.
Items == Policies \X Specs

\* The allocatable devices of a list: one per bridge, with its spec.
SpecsOf(items) == {i[2] : i \in items}

\* Two elements of the list name the same bridge.  (The bridges of a policy
\* are a set here; one listed twice in the same way stands for no other case
\* than one listed with two MTUs.)
Duplicate(items) == \E i, j \in items : i # j /\ i[2][1] = j[2][1]

MinMtu == 68
MaxMtu == 65535

\* Variant: the upper limit is off by one.
MtuOutOfRangeLoose(mtu) == mtu # NoMtu /\ (mtu < MinMtu \/ mtu > MaxMtu + 1)

\* The CRD has the same limits; the driver does not rely on them.
MtuOutOfRange(mtu) == mtu # NoMtu /\ (mtu < MinMtu \/ mtu > MaxMtu)

\* UpdatePolicyDevices returns an error for the list.
Refused(items) == Duplicate(items) \/ \E i \in items : MtuOutOfRange(i[2][2])

matchesNodeSelector(p, node) == node \cap Selector[p] # {}

\* What a reconcile collects when nothing changes while it reads.
Active == {i \in Items : /\ i[2] \in policies[i[1]]
                         /\ matchesNodeSelector(i[1], {label})
                         /\ i[2][1] \in bridges}

IdleRec == [phase |-> "idle", node |-> {}, left |-> {}, active |-> {}]

Recs == [phase : {"idle", "list", "bridges", "publish", "topology"},
         node : SUBSET Labels, left : SUBSET Items, active : SUBSET Items]

Fault(f) == f \in Faults /\ changes < MaxChanges

\* The informers deliver every object when the driver starts, so that the key
\* is queued then.
Init ==
    /\ policies = [p \in Policies |-> {}]
    /\ label \in Labels
    /\ bridges \in SUBSET Bridges
    /\ events = 0 /\ triggerChan = FALSE
    /\ queued = TRUE
    /\ rec = IdleRec
    /\ allocatable = {} /\ published = {} /\ topology = {}
    /\ changes = 0

-----------------------------------------------------------------------------
(* The inputs change *)

Change == changes < MaxChanges /\ changes' = changes + 1

\* A policy is created, edited or deleted; its informer enqueues the key.
PolicyChanged(p, specs) ==
    /\ Change
    /\ specs # policies[p]
    /\ policies' = [policies EXCEPT ![p] = specs]
    /\ queued' = TRUE
    /\ UNCHANGED <<label, bridges, wakeup, rec, output>>

\* The metadata of the node changes, with or without the label: every status
\* report of the kubelet counts.
NodeChanged(l) ==
    /\ Change
    /\ label' = l
    /\ queued' = TRUE
    /\ UNCHANGED <<policies, bridges, wakeup, rec, output>>

\* The row is in or out of the client's cache before the event is handed out.
BridgeChanged(b) ==
    /\ Change
    /\ events < MaxEvents
    /\ bridges' = IF b \in bridges THEN bridges \ {b} ELSE bridges \cup {b}
    /\ events' = events + 1
    /\ UNCHANGED <<policies, label, triggerChan, queued, rec, output>>

\* Variant: the event is handed over only while the reconciler rests.
BridgeNotifierIfIdle ==
    /\ events > 0
    /\ events' = events - 1
    /\ triggerChan' = (triggerChan \/ rec.phase = "idle")
    /\ UNCHANGED <<inputs, queued, rec, output>>

\* The notifier never blocks: it drops the event when the channel is full.
BridgeNotifier ==
    /\ events > 0
    /\ events' = events - 1
    /\ triggerChan' = TRUE
    /\ UNCHANGED <<inputs, queued, rec, output>>

\* source.Channel moves the event to the work queue.
Enqueue ==
    /\ triggerChan
    /\ triggerChan' = FALSE
    /\ queued' = TRUE
    /\ UNCHANGED <<inputs, events, rec, output>>

-----------------------------------------------------------------------------
(* Reconcile *)

\* The node's metadata is read first.
GetNode ==
    /\ rec.phase = "idle" /\ queued
    /\ queued' = FALSE
    /\ rec' = [IdleRec EXCEPT !.phase = "list", !.node = {label}]
    /\ UNCHANGED <<inputs, wakeup, output>>

\* Then the policies, of which those that match the node are looked at.
ListPolicies ==
    /\ rec.phase = "list"
    /\ rec' = [rec EXCEPT !.phase = "bridges",
                          !.left = {i \in Items :
                                       /\ i[2] \in policies[i[1]]
                                       /\ matchesNodeSelector(i[1], rec.node)}]
    /\ UNCHANGED <<inputs, wakeup, queued, output>>

\* Every bridge is looked up in the client's cache, one after the other.
CheckBridge(i) ==
    /\ rec.phase = "bridges" /\ i \in rec.left
    /\ rec' = [rec EXCEPT !.left = @ \ {i},
                          !.active = IF i[2][1] \in bridges THEN @ \cup {i} ELSE @]
    /\ UNCHANGED <<inputs, wakeup, queued, output>>

\* An error makes the work queue offer the key again, after a back-off.
Requeue == rec' = IdleRec /\ queued' = TRUE

ReadFails ==
    /\ rec.phase \in {"list", "bridges"}
    /\ Fault("api")
    /\ changes' = changes + 1
    /\ Requeue
    /\ UNCHANGED <<policies, label, bridges, wakeup, output>>

\* A duplicate name or an MTU out of range refuses the whole list and leaves
\* everything as it was.
UpdatePolicyDevices ==
    /\ rec.phase = "bridges" /\ rec.left = {}
    /\ IF Refused(rec.active)
       THEN Requeue /\ UNCHANGED allocatable
       ELSE /\ allocatable' = SpecsOf(rec.active)
            /\ rec' = [rec EXCEPT !.phase = "publish"]
            /\ UNCHANGED queued
    /\ UNCHANGED <<inputs, wakeup, published, topology>>

PublishResources ==
    /\ rec.phase = "publish"
    /\ published' = allocatable
    /\ rec' = [rec EXCEPT !.phase = "topology"]
    /\ UNCHANGED <<inputs, wakeup, queued, allocatable, topology>>

\* Variant: the error of the republish callback is only logged.
PublishFailsIgnored ==
    /\ rec.phase = "publish"
    /\ Fault("api")
    /\ changes' = changes + 1
    /\ rec' = [rec EXCEPT !.phase = "topology"]
    /\ UNCHANGED <<policies, label, bridges, wakeup, queued, output>>

\* The devices stay in DeviceState, and the topology manager is not told.
PublishFails ==
    /\ rec.phase = "publish"
    /\ Fault("api")
    /\ changes' = changes + 1
    /\ Requeue
    /\ UNCHANGED <<policies, label, bridges, wakeup, output>>

\* Manager.UpdateResources takes the list over before it starts servers; a
\* server that does not start is an error of the reconcile.
UpdateResources ==
    /\ rec.phase = "topology"
    /\ topology' = SpecsOf(rec.active)
    /\ \/ /\ rec' = IdleRec
          /\ UNCHANGED <<queued, changes>>
       \/ /\ Fault("server")
          /\ changes' = changes + 1
          /\ Requeue
    /\ UNCHANGED <<policies, label, bridges, wakeup, allocatable, published>>

\* The driver restarts: the slice stays in the API server, the rest is gone.
\* Bridge events from before the notifier is set are not handed to anybody.
Restart ==
    /\ Fault("crash")
    /\ changes' = changes + 1
    /\ events' = 0 /\ triggerChan' = FALSE
    /\ queued' = TRUE
    /\ rec' = IdleRec
    /\ allocatable' = {} /\ topology' = {}
    /\ UNCHANGED <<policies, label, bridges, published>>

-----------------------------------------------------------------------------
EnvironmentStep ==
    \/ \E p \in Policies : \E specs \in Versions[p] : PolicyChanged(p, specs)
    \/ \E l \in Labels : NodeChanged(l)
    \/ \E b \in Bridges : BridgeChanged(b)

ReconcileStep ==
    \/ GetNode \/ ListPolicies
    \/ \E i \in Items : CheckBridge(i)
    \/ ReadFails
    \/ UpdatePolicyDevices
    \/ PublishResources \/ PublishFails
    \/ UpdateResources

\* Nothing is pending: the reconciler waits.
Settled == rec.phase = "idle" /\ ~queued /\ ~triggerChan /\ events = 0

Waiting == Settled /\ UNCHANGED vars

RunningStep ==
    EnvironmentStep \/ BridgeNotifier \/ Enqueue \/ ReconcileStep \/ Waiting

Next == RunningStep \/ Restart

Spec == Init /\ [][Next]_vars

\* The event goroutine of the client, the goroutine of the channel source and
\* the worker of the controller all run.
FairSpec ==
    Spec /\ WF_vars(BridgeNotifier) /\ WF_vars(Enqueue) /\ WF_vars(ReconcileStep)

-----------------------------------------------------------------------------
(* Properties *)

\* The bridge specs a port can be given the MTU of.
Usable == Bridges \X (MinMtu..MaxMtu \cup {NoMtu})

\* The types of the variables.  Policies may ask for any MTU; the devices, the
\* slice and the topology manager only ever hold usable ones.
TypeOK ==
    /\ policies \in [Policies -> SUBSET Specs]
    /\ label \in Labels
    /\ bridges \in SUBSET Bridges
    /\ events \in 0..MaxEvents
    /\ triggerChan \in BOOLEAN
    /\ queued \in BOOLEAN
    /\ rec \in Recs
    /\ allocatable \subseteq Specs \cap Usable
    /\ published \subseteq Specs \cap Usable
    /\ topology \subseteq Specs \cap Usable
    /\ changes \in 0..MaxChanges

\* No wakeup is lost, although the notifier drops events and the inputs
\* change while they are read: once nothing is pending, the devices, the
\* published slice and the topology manager all agree with the policies, the
\* node and the bridges as they are now.
SettledIsCurrent ==
    Settled => /\ ~Refused(Active)
               /\ allocatable = SpecsOf(Active)
               /\ published = allocatable
               /\ topology = allocatable

\* Once the environment is quiet, names every bridge once and asks for no MTU
\* out of range, the slice follows the policies.
Quiet == changes = MaxChanges
PolicyTakesEffect ==
    Quiet /\ ~Refused(Active) ~> published = SpecsOf(Active)

=============================================================================
