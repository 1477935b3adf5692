----------------------------- MODULE NumaMonitor -----------------------------
(***************************************************************************)
(* How the OVSDB client learns the NUMA nodes of a bridge's DPDK uplinks.  *)
(*                                                                         *)
(* Two goroutines work on numaMap.  The cache goroutine of libovsdb calls  *)
(* the event handlers: it passes bridge events to the bridge notifier,     *)
(* forgets the entries of a deleted bridge, and puts interface events into *)
(* a bounded channel, or drops them.  The interface goroutine takes them   *)
(* out, resolves the bridge against the database as it is by then, updates *)
(* numaMap and calls the interface notifier.                               *)
(***************************************************************************)
EXTENDS Naturals, Sequences, FiniteSets

CONSTANTS
    Bridges,        \* bridge names
    Capacity,       \* of ifaceCh
    NoBridge,
    MaxIfaces,      \* bound on the interfaces ever created
    MaxTxns,        \* bound on the transactions of others
    Faults          \* {"lookup"}: devargs, sysfs or the query of the port fails

ASSUME MonitorConstants ==
    /\ NoBridge \notin Bridges
    /\ Capacity \in Nat \ {0}
    /\ MaxIfaces \in Nat /\ MaxTxns \in Nat

VARIABLES
    present,    \* the bridges in OVSDB
    row,        \* the bridge of each interface in OVSDB
    used,       \* the number of UUIDs given out
    events,     \* what libovsdb has yet to tell the handlers
    forget,     \* a deleted bridge between its notice and its removal
    ifaceCh,    \* the channel between the two goroutines
    task,       \* what the interface goroutine is doing
    numaMap,    \* pairs of a bridge and an interface
    txns,
    lost,       \* history: interfaces whose event was dropped or in vain
    swapped,    \* history: bridges deleted and added again by one transaction
    untold      \* history: bridges whose entries changed since the last notice

ovsdb == <<present, row, used, txns, swapped>>
vars  == <<ovsdb, events, forget, ifaceCh, task, numaMap, lost, untold>>

\* The UUIDs of DPDK interfaces, given out in order and never again.
Ifaces  == 1..MaxIfaces
NoIface == 0

Event(kind, b, i) == [kind |-> kind, bridge |-> b, iface |-> i]
BridgeAdded(b)    == Event("bridgeAdded", b, NoIface)
BridgeDeleted(b)  == Event("bridgeDeleted", b, NoIface)
IfaceAdded(i)     == Event("ifaceAdded", NoBridge, i)
IfaceDeleted(i)   == Event("ifaceDeleted", NoBridge, i)

Idle == [state |-> "idle", iface |-> NoIface, bridge |-> NoBridge]

Uplinks(b) == {i \in Ifaces : row[i] = b}
Entries(b) == {i \in Ifaces : <<b, i>> \in numaMap}

Init ==
    /\ present = {} /\ row = [i \in Ifaces |-> NoBridge] /\ used = 0
    /\ events = <<>> /\ forget = NoBridge
    /\ ifaceCh = <<>> /\ task = Idle
    /\ numaMap = {}
    /\ txns = 0
    /\ lost = {} /\ swapped = {} /\ untold = {}

-----------------------------------------------------------------------------
(* Transactions of other OVSDB clients (external).  The events of one        *)
(* transaction come in any order.                                            *)

Orders(E) == {s \in [1..Cardinality(E) -> E] : \A j, k \in DOMAIN s : s[j] = s[k] => j = k}

Commit(E) ==
    /\ txns < MaxTxns /\ txns' = txns + 1
    /\ \E s \in Orders(E) : events' = events \o s
    /\ UNCHANGED <<forget, ifaceCh, task, numaMap, lost, untold>>

\* del-br, if the bridge exists, and add-br with its uplinks, in one go.
CreateBridge(b, n) == LET uplinks == used + 1 .. used + n IN
    /\ used + n <= MaxIfaces
    /\ present' = present \cup {b}
    /\ row' = [i \in Ifaces |-> IF i \in uplinks THEN b
                                ELSE IF row[i] = b THEN NoBridge ELSE row[i]]
    /\ used' = used + n
    /\ swapped' = IF b \in present THEN swapped \cup {b} ELSE swapped
    /\ Commit({BridgeAdded(b)} \cup {BridgeDeleted(x) : x \in {b} \cap present}
              \cup {IfaceAdded(i) : i \in uplinks} \cup {IfaceDeleted(i) : i \in Uplinks(b)})

DeleteBridge(b) ==
    /\ b \in present
    /\ present' = present \ {b}
    /\ row' = [i \in Ifaces |-> IF row[i] = b THEN NoBridge ELSE row[i]]
    /\ Commit({BridgeDeleted(b)} \cup {IfaceDeleted(i) : i \in Uplinks(b)})
    /\ UNCHANGED <<used, swapped>>

AddUplink(b) ==
    /\ used < MaxIfaces /\ b \in present
    /\ row' = [row EXCEPT ![used + 1] = b]
    /\ used' = used + 1
    /\ Commit({IfaceAdded(used + 1)})
    /\ UNCHANGED <<present, swapped>>

DeleteUplink(i) ==
    /\ row[i] # NoBridge
    /\ row' = [row EXCEPT ![i] = NoBridge]
    /\ Commit({IfaceDeleted(i)})
    /\ UNCHANGED <<present, used, swapped>>

-----------------------------------------------------------------------------
(* The handlers, on the cache goroutine *)

\* AddFunc: the bridge notifier wakes the policy reconciler, which reads the
\* NUMA nodes of all bridges.
OnBridgeAdded ==
    /\ forget = NoBridge
    /\ events # <<>> /\ Head(events).kind = "bridgeAdded"
    /\ events' = Tail(events)
    /\ untold' = {}
    /\ UNCHANGED <<ovsdb, forget, ifaceCh, task, numaMap, lost>>

\* DeleteFunc: the bridge notifier first ...
OnBridgeDeleted ==
    /\ forget = NoBridge
    /\ events # <<>> /\ Head(events).kind = "bridgeDeleted"
    /\ events' = Tail(events)
    /\ forget' = Head(events).bridge
    /\ untold' = {}
    /\ UNCHANGED <<ovsdb, ifaceCh, task, numaMap, lost>>

\* Variant: all entries are removed.
ForgetAll ==
    /\ forget # NoBridge
    /\ numaMap' = {}
    /\ lost' = lost \cup (Entries(forget) \cap Uplinks(forget))
    /\ untold' = IF Entries(forget) = {} THEN untold ELSE untold \cup {forget}
    /\ forget' = NoBridge
    /\ UNCHANGED <<ovsdb, events, ifaceCh, task>>

\* ... and then the entries, by the name of the bridge.  When the bridge was
\* deleted and added again by one transaction, an entry of the new bridge may
\* already be among them.
ForgetBridge ==
    /\ forget # NoBridge
    /\ numaMap' = {e \in numaMap : e[1] # forget}
    /\ lost' = lost \cup (Entries(forget) \cap Uplinks(forget))
    /\ untold' = IF Entries(forget) = {} THEN untold ELSE untold \cup {forget}
    /\ forget' = NoBridge
    /\ UNCHANGED <<ovsdb, events, ifaceCh, task>>

\* Variant: the channel is not bounded.
OnInterfaceUnbounded ==
    /\ forget = NoBridge
    /\ events # <<>> /\ Head(events).kind \in {"ifaceAdded", "ifaceDeleted"}
    /\ events' = Tail(events)
    /\ ifaceCh' = Append(ifaceCh, Head(events))
    /\ UNCHANGED <<ovsdb, forget, task, numaMap, lost, untold>>

\* Both handlers of interface events: a send that does not block.
OnInterface ==
    /\ forget = NoBridge
    /\ events # <<>> /\ Head(events).kind \in {"ifaceAdded", "ifaceDeleted"}
    /\ events' = Tail(events)
    /\ IF Len(ifaceCh) < Capacity
       THEN ifaceCh' = Append(ifaceCh, Head(events)) /\ UNCHANGED lost
       ELSE lost' = lost \cup {Head(events).iface} /\ UNCHANGED ifaceCh
    /\ UNCHANGED <<ovsdb, forget, task, numaMap, untold>>

-----------------------------------------------------------------------------
(* processInterfaceEvents, on the interface goroutine *)

Received(kind) == task = Idle /\ ifaceCh # <<>> /\ Head(ifaceCh).kind = kind

\* handleInterfaceAdd: the port is looked up in the database and the bridge in
\* the cache, and both know the interface.
ResolveInterface ==
    /\ Received("ifaceAdded")
    /\ row[Head(ifaceCh).iface] # NoBridge
    /\ task' = [state |-> "store", iface |-> Head(ifaceCh).iface,
                bridge |-> row[Head(ifaceCh).iface]]
    /\ ifaceCh' = Tail(ifaceCh)
    /\ UNCHANGED <<ovsdb, events, forget, numaMap, lost, untold>>

\* The interface is gone by now, or the lookup fails: the event is logged and
\* not looked at again.
ResolveFails ==
    /\ Received("ifaceAdded")
    /\ LET i == Head(ifaceCh).iface IN
       \/ row[i] = NoBridge /\ UNCHANGED lost
       \/ "lookup" \in Faults /\ lost' = lost \cup {i}
    /\ ifaceCh' = Tail(ifaceCh)
    /\ UNCHANGED <<ovsdb, events, forget, task, numaMap, untold>>

\* Variant: the map of a bridge without entries is not created.
StoreNodeInExistingMap ==
    /\ task.state = "store"
    /\ numaMap' = numaMap \cup {<<b, task.iface>> : b \in {task.bridge} \cap {e[1] : e \in numaMap}}
    /\ untold' = untold \cup {task.bridge}
    /\ task' = [task EXCEPT !.state = "notify"]
    /\ UNCHANGED <<ovsdb, events, forget, ifaceCh, lost>>

\* The entry is stored under the bridge that was found.
StoreNode ==
    /\ task.state = "store"
    /\ numaMap' = numaMap \cup {<<task.bridge, task.iface>>}
    /\ untold' = untold \cup {task.bridge}
    /\ task' = [task EXCEPT !.state = "notify"]
    /\ UNCHANGED <<ovsdb, events, forget, ifaceCh, lost>>

\* Variant: the bridge of the interface is looked up as for an added one.
HandleInterfaceDeleteByRow ==
    /\ Received("ifaceDeleted")
    /\ LET i == Head(ifaceCh).iface
           b == row[i]
       IN IF <<b, i>> \in numaMap
          THEN /\ numaMap' = numaMap \ {<<b, i>>}
               /\ untold' = untold \cup {b}
               /\ task' = [state |-> "notify", iface |-> i, bridge |-> b]
          ELSE UNCHANGED <<numaMap, untold, task>>
    /\ ifaceCh' = Tail(ifaceCh)
    /\ UNCHANGED <<ovsdb, events, forget, lost>>

\* Variant: no notice for a deleted interface.
HandleInterfaceDeleteSilently ==
    /\ Received("ifaceDeleted")
    /\ LET i == Head(ifaceCh).iface
           homes == {b \in Bridges : <<b, i>> \in numaMap}
       IN IF homes = {}
          THEN UNCHANGED <<numaMap, untold, task>>
          ELSE \E b \in homes :
                  /\ numaMap' = numaMap \ {<<b, i>>}
                  /\ untold' = untold \cup {b}
                  /\ UNCHANGED task
    /\ ifaceCh' = Tail(ifaceCh)
    /\ UNCHANGED <<ovsdb, events, forget, lost>>

\* handleInterfaceDelete: the first bridge whose entries name the interface.
HandleInterfaceDelete ==
    /\ Received("ifaceDeleted")
    /\ LET i == Head(ifaceCh).iface
           homes == {b \in Bridges : <<b, i>> \in numaMap}
       IN IF homes = {}
          THEN UNCHANGED <<numaMap, untold, task>>
          ELSE \E b \in homes :
                  /\ numaMap' = numaMap \ {<<b, i>>}
                  /\ untold' = untold \cup {b}
                  /\ task' = [state |-> "notify", iface |-> i, bridge |-> b]
    /\ ifaceCh' = Tail(ifaceCh)
    /\ UNCHANGED <<ovsdb, events, forget, lost>>

\* The interface notifier returns: the topology manager has read the NUMA nodes
\* of the bridge.
Notify ==
    /\ task.state = "notify"
    /\ untold' = untold \ {task.bridge}
    /\ task' = Idle
    /\ UNCHANGED <<ovsdb, events, forget, ifaceCh, numaMap, lost>>

-----------------------------------------------------------------------------
Transactions ==
    \/ \E b \in Bridges :
          \/ \E n \in 0..MaxIfaces : CreateBridge(b, n)
          \/ DeleteBridge(b)
          \/ AddUplink(b)
    \/ \E i \in Ifaces : DeleteUplink(i)

CacheStep == OnBridgeAdded \/ OnBridgeDeleted \/ ForgetBridge \/ OnInterface
InterfaceStep ==
    ResolveInterface \/ ResolveFails \/ StoreNode \/ HandleInterfaceDelete \/ Notify

\* Both goroutines wait for something to happen.
AtRest == events = <<>> /\ forget = NoBridge /\ ifaceCh = <<>> /\ task = Idle

Next ==
    \/ Transactions
    \/ CacheStep
    \/ InterfaceStep
    \/ txns = MaxTxns /\ AtRest /\ UNCHANGED vars

Spec == Init /\ [][Next]_vars

\* Both goroutines run.
FairSpec == Spec /\ WF_vars(CacheStep) /\ WF_vars(InterfaceStep)

-----------------------------------------------------------------------------
(* Properties *)

Events ==
    [kind : {"bridgeAdded", "bridgeDeleted"}, bridge : Bridges, iface : {NoIface}]
    \cup [kind : {"ifaceAdded", "ifaceDeleted"}, bridge : {NoBridge}, iface : Ifaces]

IfaceEvents == {e \in Events : e.iface # NoIface}

\* The types of the variables; the channel stays within its capacity.
TypeOK ==
    /\ present \subseteq Bridges
    /\ row \in [Ifaces -> Bridges \cup {NoBridge}]
    /\ used \in 0..MaxIfaces
    /\ events \in Seq(Events)
    /\ forget \in Bridges \cup {NoBridge}
    /\ ifaceCh \in Seq(IfaceEvents) /\ Len(ifaceCh) <= Capacity
    /\ task \in [state : {"idle", "store", "notify"},
                 iface : Ifaces \cup {NoIface}, bridge : Bridges \cup {NoBridge}]
    /\ numaMap \subseteq Bridges \X Ifaces
    /\ txns \in 0..MaxTxns
    /\ lost \subseteq Ifaces
    /\ swapped \subseteq Bridges
    /\ untold \subseteq Bridges

\* At rest numaMap says of every interface what OVSDB says, except where an
\* event was dropped by the full channel, a lookup failed, or the bridge was
\* replaced in one transaction and the removal of its old entries took a new
\* one along.  The late lookups and the two goroutines cause no other error.
MapErrorsExplained ==
    AtRest => \A i \in Ifaces \ lost, b \in Bridges :
                  <<b, i>> \in numaMap <=> row[i] = b

\* At rest nobody has an old view of an existing bridge: every change of its
\* entries was followed by a notice, unless the bridge was replaced in one
\* transaction, because the notice of a deletion comes before the removal of
\* the entries.
ChangesAreTold ==
    AtRest => untold \cap present \subseteq swapped

\* What the topology manager relies on: the NUMA nodes of one bridge change at a
\* time, and a change that does not end in a call of the interface notifier for
\* that bridge is the removal of all its entries after the bridge notifier was
\* called.
ChangesAreAnnounced ==
    [][\A b \in Bridges : Entries(b)' # Entries(b) =>
          /\ \A c \in Bridges \ {b} : Entries(c)' = Entries(c)
          /\ \/ task'.state = "notify" /\ task'.bridge = b
             \/ Entries(b)' = {} /\ forget = b]_vars

\* Every uplink that stays is in numaMap in the end, or its loss is recorded.
UplinksAreResolved ==
    \A i \in Ifaces, b \in Bridges :
        txns = MaxTxns /\ row[i] = b ~> <<b, i>> \in numaMap \/ i \in lost

=============================================================================
