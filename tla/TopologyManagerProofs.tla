------------------------ MODULE TopologyManagerProofs ------------------------
(***************************************************************************)
(* The safety of the topology Device Plugins, for any number of bridges,   *)
(* resources, NUMA nodes and changes.                                      *)
(***************************************************************************)
EXTENDS TopologyManager, TLAPS

\* getConsistentNUMA returns a node that was read, or -1.
LEMMA NodeOfTyped ==
    ASSUME NEW S, S \subseteq Nodes \cup {-1}
    PROVE  NodeOf(S) \in Nodes \cup {-1}
BY DEF NodeOf

\* Once the nodes read so far have no answer but -1, no further node gives one:
\* getConsistentNUMA may return early.
LEMMA EarlyReturn ==
    ASSUME NEW S, NEW T, S \subseteq T, S # {}, Consistent(S) = -1
    PROVE  Consistent(T) = -1
<1>1. CASE \E n \in T : T = {n}
  <2>1. PICK n \in T : T = {n}
    BY <1>1
  <2>2. S = T
    BY <2>1
  <2>3. QED
    BY <2>2
<1>2. CASE ~ \E n \in T : T = {n}
  BY <1>2 DEF Consistent, NodeOf
<1>3. QED
  BY <1>1, <1>2

-----------------------------------------------------------------------------
(* Types *)

\* The fields of op, as each goroutine leaves them when it takes or gives up the
\* mutex, stay within their types.
LEMMA OpTyped ==
    ASSUME TypeOK, NEW T \in SUBSET Resources, NEW r \in Resources \cup {NoResource},
           NEW L \in SUBSET Bridges, NEW S \in SUBSET (Nodes \cup {-1}),
           NEW w \in {"reconciler", "interface", "watcher"}
    PROVE  /\ Free \in Ops
           /\ [Free EXCEPT !.who = w, !.todo = T] \in Ops
           /\ [op EXCEPT !.todo = T] \in Ops
           /\ [op EXCEPT !.todo = T, !.res = r, !.left = L, !.seen = S] \in Ops
           /\ [op EXCEPT !.seen = S, !.left = L] \in Ops
           /\ [op EXCEPT !.res = NoResource, !.seen = {}] \in Ops
           /\ [op EXCEPT !.res = NoResource, !.seen = {}, !.err = TRUE] \in Ops
BY Zenon DEF TypeOK, Ops, Free

\* Every step keeps the types.
LEMMA TypeStep ==
    ASSUME TypeOK, [Next]_vars
    PROVE  TypeOK'
<1> USE TopologyConstants
<1>1. ASSUME NEW b \in Bridges, NEW r \in Resources \cup {NoResource, Invalid}, PolicyChanged(b, r)
      PROVE  TypeOK'
  BY <1>1 DEF TypeOK, PolicyChanged, Change, Wishes, life
<1>2. ASSUME NEW b \in Bridges, NEW nodes \in SUBSET Nodes, InterfaceChanged(b, nodes)
      PROVE  TypeOK'
  BY <1>2 DEF TypeOK, InterfaceChanged, Change, life
<1>3. ASSUME NEW b \in Bridges, BridgeForgotten(b)
      PROVE  TypeOK'
  <2>1. queued' \in BOOLEAN
    BY <1>3, Zenon DEF TypeOK, BridgeForgotten
  <2>2. QED
    BY <1>3, <2>1 DEF TypeOK, BridgeForgotten, life
<1>4. CASE KubeletStops \/ KubeletStarts \/ Cancel
  <2>1. kubelet' \in BOOLEAN /\ created' \in BOOLEAN
    BY <1>4, Zenon DEF TypeOK, KubeletStops, KubeletStarts, Cancel
  <2>2. changes' \in 0..MaxChanges
    BY <1>4 DEF TypeOK, KubeletStops, KubeletStarts, Cancel, Change, outside
  <2>3. advertised' \in [Resources -> Nodes \cup {-1}]
    BY <1>4 DEF TypeOK, KubeletStops, KubeletStarts, Cancel
  <2>4. phase' \in {"running", "canceled", "stopped"} /\ missed' = missed
    BY <1>4 DEF TypeOK, KubeletStops, KubeletStarts, Cancel, life
  <2>5. UNCHANGED <<wanted, numa, unseen, queued, active, notice, topology, servers, op>>
    BY <1>4 DEF KubeletStops, KubeletStarts, Cancel, outside
  <2>6. QED
    BY <2>1, <2>2, <2>3, <2>4, <2>5 DEF TypeOK
<1>5. CASE NodeUpdated \/ CollectBridges
  BY <1>5, Zenon DEF TypeOK, NodeUpdated, CollectBridges, outside, life
<1>6. CASE Reconcile
  <2>1. ASSUME NEW wish \in Wishes, UpdateResources(wish)
        PROVE  TypeOK'
    <3> DEFINE needed == {r \in Resources : BridgesOf(r, wish) # {}}
    <3>1. [Free EXCEPT !.who = "reconciler", !.todo = needed] \in Ops
      BY OpTyped, Zenon
    <3>2. op' \in Ops
      BY <2>1, <3>1 DEF UpdateResources
    <3>3. QED
      BY <2>1, <3>2 DEF TypeOK, UpdateResources, outside
  <2>2. ASSUME NEW wish \in Wishes, UpdatePolicyDevicesFails(wish)
        PROVE  TypeOK'
    <3>1. changes' \in 0..MaxChanges
      BY <2>2, TopologyConstants DEF TypeOK, UpdatePolicyDevicesFails, Change
    <3>2. queued' \in BOOLEAN /\ active' \in SUBSET Wishes
      BY <2>2, Zenon DEF UpdatePolicyDevicesFails
    <3>3. QED
      BY <2>2, <3>1, <3>2 DEF TypeOK, UpdatePolicyDevicesFails, life
  <2>3. QED
    BY <1>6, <2>1, <2>2 DEF Reconcile
<1>7. CASE OnInterfaceChange
  <2>1. op' \in Ops /\ notice' \in Bridges \cup {NoBridge}
    <3>1. CASE topology[notice] = NoResource
      BY <1>7, <3>1 DEF TypeOK, OnInterfaceChange
    <3>2. CASE topology[notice] # NoResource
      <4>1. {topology[notice]} \in SUBSET Resources
        BY <1>7, <3>2 DEF TypeOK, OnInterfaceChange, Topologies
      <4>2. [Free EXCEPT !.who = "interface", !.todo = {topology[notice]}] \in Ops
        BY <4>1, OpTyped, Zenon
      <4>3. QED
        BY <1>7, <3>2, <4>2 DEF TypeOK, OnInterfaceChange
    <3>3. QED
      BY <3>1, <3>2
  <2>2. QED
    BY <1>7, <2>1 DEF TypeOK, OnInterfaceChange, outside, life
<1>8. CASE reregisterAll
  <2>1. [Free EXCEPT !.who = "watcher", !.todo = {r \in Resources : servers[r] # -1}] \in Ops
    BY OpTyped, Zenon
  <2>2. QED
    BY <1>8, <2>1, Zenon DEF TypeOK, reregisterAll, outside, life
<1>9. CASE StopAll
  BY <1>9 DEF TypeOK, StopAll, outside, life
<1>10. ASSUME NEW r \in Resources, Reregister(r) \/ ReregisterFails(r)
       PROVE  TypeOK'
  <2>1. op.todo \ {r} \in SUBSET Resources
    BY DEF TypeOK, Ops
  <2>2. [op EXCEPT !.todo = op.todo \ {r}] \in Ops
    BY <2>1, OpTyped, Zenon
  <2>3. op' \in Ops
    BY <1>10, <2>2, SMTT(30) DEF Reregister, ReregisterFails
  <2>4. QED
    BY <1>10, <2>3 DEF TypeOK, Reregister, ReregisterFails, Change, outside, life
<1>11. ASSUME NEW r \in Resources, EnsureServer(r)
       PROVE  TypeOK'
  <2>1. op.todo \ {r} \in SUBSET Resources /\ BridgesOf(r, topology) \in SUBSET Bridges
    BY DEF TypeOK, Ops, BridgesOf
  <2>2. [op EXCEPT !.todo = op.todo \ {r}, !.res = r,
                   !.left = BridgesOf(r, topology), !.seen = {}] \in Ops
    BY <2>1, OpTyped, Zenon
  <2>3. op' \in Ops
    BY <1>11, <2>2 DEF EnsureServer
  <2>4. QED
    BY <1>11, <2>3 DEF TypeOK, EnsureServer, outside, life
<1>12. ASSUME NEW b \in Bridges, GetBridgeNUMA(b)
       PROVE  TypeOK'
  <2> DEFINE S == op.seen \cup {NodeOf(numa[b])}
             L == IF Consistent(S) = -1 THEN {} ELSE op.left \ {b}
  <2>1. S \in SUBSET (Nodes \cup {-1})
    <3>1. numa[b] \subseteq Nodes \cup {-1}
      BY DEF TypeOK
    <3>2. NodeOf(numa[b]) \in Nodes \cup {-1}
      BY <3>1, NodeOfTyped
    <3>3. QED
      BY <3>2 DEF TypeOK, Ops
  <2>2. L \in SUBSET Bridges
    BY DEF TypeOK, Ops
  <2> HIDE DEF S, L
  <2>3. [op EXCEPT !.seen = S, !.left = L] \in Ops
    BY <2>1, <2>2, OpTyped, Zenon
  <2>4. op' \in Ops
    BY <1>12, <2>3 DEF GetBridgeNUMA, S, L
  <2>5. QED
    BY <1>12, <2>4 DEF TypeOK, GetBridgeNUMA, outside, life
<1>13. CASE KeepServer \/ StopServer \/ StartServer \/ StartFails
  <2>1. op' \in Ops
    <3>1. /\ [op EXCEPT !.res = NoResource, !.seen = {}] \in Ops
          /\ [op EXCEPT !.res = NoResource, !.seen = {}, !.err = TRUE] \in Ops
      BY OpTyped, Zenon
    <3>2. QED
      BY <1>13, <3>1 DEF TypeOK, KeepServer, StopServer, StartServer, StartFails, EndEnsure
  <2>2. Consistent(op.seen) \in Nodes \cup {-1}
    BY NodeOfTyped DEF Consistent, TypeOK, Ops
  <2>3. servers' \in [Resources -> Nodes \cup {-1}] /\ advertised' \in [Resources -> Nodes \cup {-1}]
    BY <1>13, <2>2 DEF TypeOK, KeepServer, StopServer, StartServer, StartFails
  <2>4. QED
    BY <1>13, <2>1, <2>3 DEF TypeOK, KeepServer, StopServer, StartServer, StartFails, Change,
                             outside, life
<1>14. CASE Unlock
  <2>1. Free \in Ops
    BY OpTyped, Zenon
  <2>2. queued' \in BOOLEAN
    BY <1>14, Zenon DEF Unlock
  <2>3. QED
    BY <1>14, <2>1, <2>2 DEF TypeOK, Unlock, outside, life
<1>15. CASE UNCHANGED vars
  BY <1>15 DEF TypeOK, vars, outside, life
<1>16. QED
  BY <1>1, <1>2, <1>3, <1>4, <1>5, <1>6, <1>7, <1>8, <1>9, <1>10, <1>11, <1>12, <1>13, <1>14,
     <1>15 DEF Next, EnvironmentStep, Locked

\* TypeOK holds in every state: the manager's maps, the servers and what the
\* kubelet knows keep their types, whoever holds the mutex.
THEOREM TopologyTypes == Spec => []TypeOK
<1>1. Init => TypeOK
  <2>1. Free \in Ops
    BY DEF Free, Ops
  <2>2. QED
    <3>1. ASSUME Init
          PROVE  wanted \in Wishes /\ topology \in Topologies /\ active \in SUBSET Wishes
      BY <3>1 DEF Init, Topologies, Wishes
    <3>2. ASSUME Init
          PROVE  queued \in BOOLEAN /\ kubelet \in BOOLEAN /\ created \in BOOLEAN
      BY <3>2, Zenon DEF Init
    <3>3. ASSUME Init
          PROVE  /\ numa \in [Bridges -> SUBSET Nodes] /\ notice = NoBridge
                 /\ servers \in [Resources -> Nodes \cup {-1}]
                 /\ advertised \in [Resources -> Nodes \cup {-1}]
                 /\ phase = "running" /\ missed = {} /\ unseen = {}
                 /\ changes \in 0..MaxChanges
      BY <3>3, TopologyConstants DEF Init
    <3>4. ASSUME Init
          PROVE  op \in Ops
      BY <2>1, <3>4 DEF Init
    <3>5. QED
      BY <3>1, <3>2, <3>3, <3>4 DEF TypeOK
<1>2. TypeOK /\ [Next]_vars => TypeOK'
  BY TypeStep
<1>3. QED
  BY <1>1, <1>2, PTL DEF Spec

-----------------------------------------------------------------------------
(* The argument for ServedIsCurrent *)

\* A reconcile that has yet to take the mutex will look at every resource.
ReconcileAhead == queued \/ (active # {} /\ op.who # "reconciler")

\* OnInterfaceChange will look at the resource, but does not do so yet; or the
\* nodes of one of its bridges went silently.
Excused(r) ==
    \/ notice # NoBridge /\ wanted[notice] = r /\ op.who # "interface"
    \/ Unseen(r)

\* What is left behind by, and known of, the goroutine that holds the mutex.
OpShape ==
    /\ op.who = "none" => op = Free
    /\ op.who = "reconciler" => active = {topology}
    /\ op.who = "interface" => notice # NoBridge
    /\ op.res # NoResource => op.who \in {"reconciler", "interface"}
    /\ op.left # {} => op.res # NoResource
    /\ op.left \subseteq BridgesOf(op.res, topology)

\* A change of the policies or bridges is not forgotten: it is in the topology,
\* read by a reconcile, or the reconciler has to run.
WishShape ==
    /\ \A v, w \in active : v = w
    /\ queued \/ active \subseteq {wanted}
    /\ queued \/ active # {} \/ topology = wanted

\* The nodes read and those yet to be read make up the node of the resource,
\* unless someone will look again.
ReadIsCurrent ==
    op.res # NoResource =>
        \/ ReconcileAhead \/ Excused(op.res)
        \/ Consistent(op.seen \cup {NodeOf(numa[b]) : b \in op.left}) = TrueNode(op.res)

\* A server with a wrong node will be looked at, or is being looked at.
ServerIsCurrent(r) ==
    \/ servers[r] \in {-1, TrueNode(r)}
    \/ ReconcileAhead \/ Excused(r)
    \/ op.who \in {"reconciler", "interface"} /\ r \in op.todo \cup {op.res}

ServingInv ==
    /\ OpShape /\ WishShape /\ ReadIsCurrent
    /\ \A r \in Resources : ServerIsCurrent(r)

\* The last steps of ensureServer leave the rest of the work alone.
LEMMA LookEnds ==
    ASSUME TypeOK, OpShape, KeepServer \/ StopServer \/ StartServer \/ StartFails
    PROVE  /\ op.who \in {"reconciler", "interface"} /\ op.left = {}
           /\ op'.who = op.who /\ op'.todo = op.todo /\ op'.left = {}
           /\ IF StopServer THEN op' = op ELSE op'.res = NoResource
<1>1. op.who \in {"reconciler", "interface"} /\ op.left = {}
  BY DEF KeepServer, StopServer, StartServer, StartFails, OpShape
<1>2. op \in Ops
  BY DEF TypeOK
<1>3. CASE StopServer
  BY <1>1, <1>3 DEF StopServer
<1>4. CASE ~StopServer
  <2>1. \/ op' = [op EXCEPT !.res = NoResource, !.seen = {}]
        \/ op' = [op EXCEPT !.res = NoResource, !.seen = {}, !.err = TRUE]
    BY <1>4 DEF KeepServer, StartServer, StartFails, EndEnsure
  <2>2. op'.who = op.who /\ op'.todo = op.todo /\ op'.left = op.left /\ op'.res = NoResource
    <3>1. CASE op' = [op EXCEPT !.res = NoResource, !.seen = {}]
      BY <1>2, <3>1 DEF Ops
    <3>2. CASE op' = [op EXCEPT !.res = NoResource, !.seen = {}, !.err = TRUE]
      BY <1>2, <3>2 DEF Ops
    <3>3. QED
      BY <2>1, <3>1, <3>2
  <2>3. QED
    BY <1>1, <1>4, <2>2
<1>5. QED
  BY <1>3, <1>4

\* A bridge whose nodes went either wakes the reconciler, or is unseen, or has
\* no resource.
LEMMA ForgottenFrame ==
    ASSUME NEW b \in Bridges, BridgeForgotten(b)
    PROVE  /\ queued => queued'
           /\ queued' \/ wanted[b] = NoResource \/ b \in unseen'
           /\ unseen \subseteq unseen'
           /\ UNCHANGED <<wanted, active, notice, topology, servers, op>>
<1>1. UNCHANGED <<wanted, active, notice, topology, servers, op>>
  BY DEF BridgeForgotten
<1>2. CASE queued' = (queued \/ wanted[b] # NoResource) /\ UNCHANGED unseen
  <2>1. (queued => queued') /\ (queued' \/ wanted[b] = NoResource)
    BY <1>2, Zenon
  <2>2. QED
    BY <1>1, <1>2, <2>1
<1>3. CASE unseen' = unseen \cup {b} /\ UNCHANGED queued
  BY <1>1, <1>3
<1>4. QED
  BY <1>2, <1>3 DEF BridgeForgotten

\* Taking and releasing the mutex, and each step under it, keep the shape of op
\* and lose no change of the policies.
LEMMA ShapeStep ==
    ASSUME TypeOK, OpShape, WishShape, [Next]_vars
    PROVE  OpShape' /\ WishShape'
<1> USE TopologyConstants
<1>1. ASSUME NEW b \in Bridges, NEW r \in Resources \cup {NoResource, Invalid}, PolicyChanged(b, r)
      PROVE  OpShape' /\ WishShape'
  BY <1>1 DEF OpShape, WishShape, PolicyChanged, BridgesOf
<1>2. ASSUME NEW b \in Bridges, NEW nodes \in SUBSET Nodes, InterfaceChanged(b, nodes)
      PROVE  OpShape' /\ WishShape'
  BY <1>2 DEF OpShape, WishShape, InterfaceChanged, BridgesOf
<1>3. ASSUME NEW b \in Bridges, BridgeForgotten(b)
      PROVE  OpShape' /\ WishShape'
  BY <1>3, ForgottenFrame DEF OpShape, WishShape, BridgesOf
<1>4. CASE KubeletStops \/ KubeletStarts \/ Cancel
  BY <1>4 DEF OpShape, WishShape, KubeletStops, KubeletStarts, Cancel, BridgesOf, outside
<1>5. CASE NodeUpdated
  BY <1>5 DEF OpShape, WishShape, NodeUpdated, BridgesOf, outside
<1>6. CASE CollectBridges
  BY <1>6 DEF OpShape, WishShape, CollectBridges, BridgesOf, outside
<1>7. ASSUME NEW wish \in Wishes, UpdateResources(wish)
      PROVE  OpShape' /\ WishShape'
  <2>1. active = {wish}
    BY <1>7 DEF WishShape, UpdateResources
  <2>2. /\ op'.who = "reconciler" /\ op'.res = NoResource /\ op'.left = {}
        /\ topology' = wish /\ UNCHANGED <<active, queued, wanted>>
    BY <1>7 DEF UpdateResources, Free, outside
  <2>3. QED
    BY <2>1, <2>2 DEF OpShape, WishShape
<1>8. ASSUME NEW wish \in Wishes, UpdatePolicyDevicesFails(wish)
      PROVE  OpShape' /\ WishShape'
  <2>1. op.who # "reconciler"
    BY <1>8 DEF OpShape, UpdatePolicyDevicesFails, TypeOK
  <2>2. QED
    BY <1>8, <2>1 DEF OpShape, WishShape, UpdatePolicyDevicesFails, BridgesOf
<1>9. CASE OnInterfaceChange
  <2>1. WishShape'
    BY <1>9 DEF WishShape, OnInterfaceChange, outside
  <2>2. CASE topology[notice] = NoResource
    <3>1. op' = Free
      BY <1>9, <2>2 DEF OnInterfaceChange
    <3>2. op'.who = "none" /\ op'.res = NoResource /\ op'.left = {}
      BY <3>1 DEF Free
    <3>3. QED
      BY <2>1, <3>1, <3>2 DEF OpShape
  <2>3. CASE topology[notice] # NoResource
    <3>1. op'.who = "interface" /\ op'.res = NoResource /\ op'.left = {} /\ notice' # NoBridge
      BY <1>9, <2>3, Zenon DEF OnInterfaceChange, Free
    <3>2. QED
      BY <2>1, <3>1 DEF OpShape
  <2>4. QED
    BY <2>1, <2>2, <2>3
<1>10. CASE reregisterAll
  BY <1>10 DEF OpShape, WishShape, reregisterAll, Free, BridgesOf, outside
<1>11. CASE StopAll
  BY <1>11 DEF OpShape, WishShape, StopAll, BridgesOf, outside
<1>12. ASSUME NEW r \in Resources, Reregister(r) \/ ReregisterFails(r)
       PROVE  OpShape' /\ WishShape'
  <2>1. op'.who = "watcher" /\ op'.res = op.res /\ op'.left = op.left /\ op.who = "watcher"
    BY <1>12 DEF Reregister, ReregisterFails, TypeOK, Ops
  <2>2. UNCHANGED <<active, queued, wanted, topology, notice>>
    BY <1>12 DEF Reregister, ReregisterFails, outside
  <2>3. QED
    BY <2>1, <2>2 DEF OpShape, WishShape, BridgesOf
<1>13. ASSUME NEW r \in Resources, EnsureServer(r)
       PROVE  OpShape' /\ WishShape'
  BY <1>13 DEF OpShape, WishShape, EnsureServer, TypeOK, Ops, BridgesOf, outside
<1>14. ASSUME NEW b \in Bridges, GetBridgeNUMA(b)
       PROVE  OpShape' /\ WishShape'
  <2>1. /\ op'.who = op.who /\ op'.res = op.res
        /\ op'.left \subseteq op.left
        /\ op.res # NoResource
    BY <1>14 DEF GetBridgeNUMA, TypeOK, Ops, OpShape
  <2>2. QED
    BY <1>14, <2>1 DEF OpShape, WishShape, GetBridgeNUMA, Free, BridgesOf, outside
<1>15. CASE KeepServer \/ StopServer \/ StartServer \/ StartFails
  <2>1. op'.who = op.who /\ op'.left = {} /\ op'.res \in {op.res, NoResource} /\ op.who # "none"
    BY <1>15, LookEnds
  <2>2. QED
    <3>1. UNCHANGED <<active, queued, wanted, topology, notice>>
      BY <1>15 DEF KeepServer, StopServer, StartServer, StartFails, outside
    <3>2. QED
      BY <2>1, <3>1 DEF OpShape, WishShape
<1>16. CASE Unlock
  <2>1. CASE op.who = "reconciler"
    <3>1. active = {topology} /\ active' = {} /\ topology' = topology /\ wanted' = wanted
      BY <1>16, <2>1 DEF Unlock, OpShape, outside
    <3>2. queued => queued'
      BY <1>16, Zenon DEF Unlock
    <3>3. WishShape'
      BY <3>1, <3>2 DEF WishShape
    <3>4. OpShape'
      <4>1. op' = Free
        BY <1>16, SMTT(30) DEF Unlock
      <4>2. op'.who = "none" /\ op'.res = NoResource /\ op'.left = {}
        BY <4>1 DEF Free
      <4>3. QED
        BY <4>1, <4>2 DEF OpShape
    <3>5. QED
      BY <3>3, <3>4
  <2>2. CASE op.who # "reconciler"
    <3>1. queued' = queued
      BY <1>16, <2>2 DEF Unlock, TypeOK
    <3>2. QED
      BY <1>16, <2>2, <3>1, SMTT(30) DEF Unlock, OpShape, WishShape, Free, outside
  <2>3. QED
    BY <2>1, <2>2
<1>17. CASE UNCHANGED vars
  BY <1>17 DEF OpShape, WishShape, vars, outside, BridgesOf
<1>18. QED
  BY <1>1, <1>2, <1>3, <1>4, <1>5, <1>6, <1>7, <1>8, <1>9, <1>10, <1>11, <1>12, <1>13, <1>14,
     <1>15, <1>16, <1>17 DEF Next, EnvironmentStep, Reconcile, Locked

\* A change of the nodes of other bridges does not matter to a resource.
LEMMA TrueNodeFrame ==
    ASSUME NEW r, wanted' = wanted, \A b \in Bridges : wanted[b] = r => numa'[b] = numa[b]
    PROVE  TrueNode(r)' = TrueNode(r)
<1>1. BridgesOf(r, wanted') = BridgesOf(r, wanted)
  BY DEF BridgesOf
<1>2. {NodeOf(numa'[b]) : b \in BridgesOf(r, wanted)} = {NodeOf(numa[b]) : b \in BridgesOf(r, wanted)}
  BY DEF BridgesOf
<1>3. QED
  BY <1>1, <1>2, Zenon DEF TrueNode

\* When no reconcile lies ahead the manager has the topology of the policies.
LEMMA TopologyCurrent ==
    ASSUME OpShape, WishShape, ~ReconcileAhead
    PROVE  topology = wanted
BY DEF OpShape, WishShape, ReconcileAhead

\* Steps that leave the servers, the bridges and the policies alone, and under
\* which the holder of the mutex looks at the same resources.
LEMMA QuietStep ==
    ASSUME ServingInv, UNCHANGED <<queued, active, notice, wanted, numa, unseen, servers>>,
           op'.res = op.res, op'.left = op.left, op'.seen = op.seen,
           \/ op'.who = op.who /\ op'.todo = op.todo
           \/ /\ op.who \notin {"reconciler", "interface"}
              /\ op'.who \notin {"reconciler", "interface"}
    PROVE  ReadIsCurrent' /\ \A r \in Resources : ServerIsCurrent(r)'
<1>1. \A r : TrueNode(r)' = TrueNode(r)
  BY TrueNodeFrame
<1>2. ReconcileAhead => ReconcileAhead'
  BY DEF ReconcileAhead
<1>3. \A r : Excused(r) => Excused(r)'
  BY DEF Excused, Unseen
<1>4. ReadIsCurrent'
  BY <1>1, <1>2, <1>3 DEF ServingInv, ReadIsCurrent
<1>5. ASSUME NEW r \in Resources
      PROVE  ServerIsCurrent(r)'
  BY <1>1, <1>2, <1>3, SMTT(30) DEF ServingInv, ServerIsCurrent
<1>6. QED
  BY <1>4, <1>5

\* A step of a goroutine or of the environment that makes a server's node wrong
\* leaves someone who will look at it.
LEMMA ServingStep ==
    ASSUME TypeOK, ServingInv, [Next]_vars, ~ReconcileAhead'
    PROVE  ReadIsCurrent' /\ \A r \in Resources : ServerIsCurrent(r)'
<1> USE TopologyConstants
<1> OpShape /\ WishShape
  BY DEF ServingInv
<1>1. ASSUME NEW b \in Bridges, NEW r \in Resources \cup {NoResource, Invalid}, PolicyChanged(b, r)
      PROVE  FALSE
  BY <1>1 DEF PolicyChanged, ReconcileAhead
<1>2. ASSUME NEW b \in Bridges, NEW nodes \in SUBSET Nodes, InterfaceChanged(b, nodes)
      PROVE  ReadIsCurrent' /\ \A r \in Resources : ServerIsCurrent(r)'
  <2>1. /\ notice = NoBridge /\ notice' = b /\ op.who # "interface"
        /\ UNCHANGED <<queued, active, op, wanted, unseen, servers, topology>>
        /\ \A c \in Bridges \ {b} : numa'[c] = numa[c]
    BY <1>2, SMTT(30) DEF InterfaceChanged, OpShape, TypeOK
  <2>2. topology = wanted
    BY <2>1, TopologyCurrent, SMTT(30) DEF ReconcileAhead
  <2>3. ASSUME NEW r \in Resources
        PROVE  ServerIsCurrent(r)'
    <3>1. CASE wanted[b] = r
      BY <2>1, <3>1, ZenonT(30) DEF ServerIsCurrent, Excused, Unseen
    <3>2. CASE wanted[b] # r
      <4>1. TrueNode(r)' = TrueNode(r)
        BY <2>1, <3>2, TrueNodeFrame
      <4>2. QED
        BY <2>1, <4>1, SMTT(30) DEF ServingInv, ServerIsCurrent, Excused, Unseen, ReconcileAhead
    <3>3. QED
      BY <3>1, <3>2, SMTT(30)
  <2>4. ReadIsCurrent'
    <3>1. CASE wanted[b] = op.res
      BY <2>1, <3>1, Zenon DEF ReadIsCurrent, Excused, Unseen
    <3>2. CASE wanted[b] # op.res
      <4>1. TrueNode(op.res)' = TrueNode(op.res)
        BY <2>1, <3>2, TrueNodeFrame, SMTT(30)
      <4>2. \A c \in op.left : numa'[c] = numa[c]
        BY <2>1, <2>2, <3>2 DEF OpShape, BridgesOf
      <4>3. {NodeOf(numa'[c]) : c \in op.left} = {NodeOf(numa[c]) : c \in op.left}
        BY <4>2
      <4>4. QED
        BY <2>1, <4>1, <4>3, Zenon DEF ServingInv, ReadIsCurrent, Excused, Unseen, ReconcileAhead
    <3>3. QED
      BY <3>1, <3>2, SMTT(30)
  <2>5. QED
    BY <2>3, <2>4, SMTT(30)
<1>3. ASSUME NEW b \in Bridges, BridgeForgotten(b)
      PROVE  ReadIsCurrent' /\ \A r \in Resources : ServerIsCurrent(r)'
  <2>1. /\ ~queued /\ (wanted[b] = NoResource \/ b \in unseen')
        /\ unseen \subseteq unseen'
        /\ UNCHANGED <<active, notice, op, wanted, servers, topology>>
        /\ \A c \in Bridges \ {b} : numa'[c] = numa[c]
    BY <1>3, ForgottenFrame, Zenon DEF BridgeForgotten, ReconcileAhead, TypeOK
  <2>2. ~ReconcileAhead /\ topology = wanted
    BY <2>1, TopologyCurrent DEF ReconcileAhead
  <2>3. \A r : Excused(r) => Excused(r)'
    BY <2>1 DEF Excused, Unseen
  <2>4. ASSUME NEW r \in Resources, wanted[b] = r
        PROVE  Excused(r)'
    BY <2>1, <2>4 DEF Excused, Unseen
  <2>5. ASSUME NEW r \in Resources, wanted[b] # r
        PROVE  TrueNode(r)' = TrueNode(r)
    BY <2>1, <2>5, TrueNodeFrame, SMTT(30)
  <2>6. ASSUME NEW r \in Resources
        PROVE  ServerIsCurrent(r)'
    BY <2>1, <2>2, <2>3, <2>4, <2>5 DEF ServingInv, ServerIsCurrent
  <2>7. ReadIsCurrent'
    <3>1. SUFFICES ASSUME op.res # NoResource, wanted[b] # op.res PROVE ReadIsCurrent'
      BY <2>1, <2>4 DEF ReadIsCurrent, TypeOK, Ops
    <3>2. op.res \in Resources
      BY <3>1, SMTT(30) DEF TypeOK, Ops
    <3>3. \A c \in op.left : numa'[c] = numa[c]
      BY <2>1, <2>2, <3>1 DEF OpShape, BridgesOf
    <3>4. {NodeOf(numa'[c]) : c \in op.left} = {NodeOf(numa[c]) : c \in op.left}
      BY <3>3, SMTT(30)
    <3>5. QED
      BY <2>1, <2>2, <2>3, <2>5, <3>1, <3>2, <3>4, ZenonT(30) DEF ServingInv, ReadIsCurrent
  <2>8. QED
    BY <2>6, <2>7
<1>4. CASE KubeletStops \/ KubeletStarts \/ Cancel
  BY <1>4, QuietStep DEF KubeletStops, KubeletStarts, Cancel, outside
<1>5. CASE NodeUpdated
  BY <1>5, SMTT(30) DEF NodeUpdated, ReconcileAhead
<1>6. CASE CollectBridges
  BY <1>6 DEF CollectBridges, ReconcileAhead, OpShape
<1>7. ASSUME NEW wish \in Wishes, UpdateResources(wish)
      PROVE  ReadIsCurrent' /\ \A r \in Resources : ServerIsCurrent(r)'
  <2>1. /\ op'.who = "reconciler" /\ op'.res = NoResource
        /\ op'.todo = {r \in Resources : BridgesOf(r, wish) # {}}
        /\ \A r \in Resources \ op'.todo : servers'[r] = -1
    BY <1>7 DEF UpdateResources, Free
  <2>2. QED
    BY <2>1 DEF ReadIsCurrent, ServerIsCurrent
<1>8. ASSUME NEW wish \in Wishes, UpdatePolicyDevicesFails(wish)
      PROVE  FALSE
  BY <1>8, SMTT(30) DEF UpdatePolicyDevicesFails, ReconcileAhead
<1>9. CASE OnInterfaceChange
  <2>1. /\ op = Free /\ op.who = "none" /\ op.res = NoResource /\ op'.res = NoResource
        /\ op'.who \in {"none", "interface"}
        /\ UNCHANGED <<queued, active, wanted, numa, unseen, servers>>
    <3>1. op = Free /\ UNCHANGED <<queued, active, wanted, numa, unseen, servers>>
      BY <1>9 DEF OnInterfaceChange, outside
    <3>2. op' = Free \/ op' = [Free EXCEPT !.who = "interface", !.todo = {topology[notice]}]
      BY <1>9 DEF OnInterfaceChange
    <3>3. op.who = "none" /\ op.res = NoResource
      BY <3>1 DEF Free
    <3>4. op'.res = NoResource /\ op'.who \in {"none", "interface"}
      <4>1. CASE op' = Free
        BY <4>1 DEF Free
      <4>2. CASE op' = [Free EXCEPT !.who = "interface", !.todo = {topology[notice]}]
        BY <4>2 DEF Free
      <4>3. QED
        BY <3>2, <4>1, <4>2
    <3>5. QED
      BY <3>1, <3>3, <3>4
  <2>2. ~ReconcileAhead /\ topology = wanted
    BY <2>1, TopologyCurrent DEF ReconcileAhead
  <2>3. ASSUME NEW r \in Resources, topology[notice] # r
        PROVE  ServerIsCurrent(r)'
    <3>1. servers[r] \in {-1, TrueNode(r)} \/ Unseen(r)
      BY <2>1, <2>2, <2>3 DEF ServingInv, ServerIsCurrent, Excused
    <3>2. TrueNode(r)' = TrueNode(r)
      BY <2>1, TrueNodeFrame
    <3>3. Unseen(r) => Excused(r)'
      BY <2>1 DEF Excused, Unseen
    <3>4. QED
      BY <2>1, <3>1, <3>2, <3>3 DEF ServerIsCurrent
  <2>4. ASSUME NEW r \in Resources, topology[notice] = r
        PROVE  ServerIsCurrent(r)'
    <3>1. op'.who = "interface" /\ op'.todo = {r}
      BY <1>9, <2>4, Zenon DEF OnInterfaceChange, Free
    <3>2. QED
      BY <3>1 DEF ServerIsCurrent
  <2>5. QED
    BY <2>1, <2>3, <2>4 DEF ReadIsCurrent
<1>10. CASE reregisterAll
  BY <1>10, QuietStep, SMTT(30) DEF reregisterAll, Free, outside
<1>11. CASE StopAll
  BY <1>11 DEF StopAll, Free, ReadIsCurrent, ServerIsCurrent
<1>12. ASSUME NEW r \in Resources, Reregister(r) \/ ReregisterFails(r)
       PROVE  ReadIsCurrent' /\ \A q \in Resources : ServerIsCurrent(q)'
  <2>1. op.who = "watcher" /\ op' = [op EXCEPT !.todo = op.todo \ {r}]
    BY <1>12 DEF Reregister, ReregisterFails
  <2>2. op'.who = "watcher" /\ op'.res = op.res /\ op'.left = op.left /\ op'.seen = op.seen
    BY <2>1 DEF TypeOK, Ops
  <2>3. UNCHANGED <<queued, active, notice, wanted, numa, unseen, servers>>
    BY <1>12 DEF Reregister, ReregisterFails, outside
  <2>4. QED
    BY <2>1, <2>2, <2>3, QuietStep
<1>13. ASSUME NEW r \in Resources, EnsureServer(r)
       PROVE  ReadIsCurrent' /\ \A q \in Resources : ServerIsCurrent(q)'
  <2>1. /\ op.who \in {"reconciler", "interface"} /\ op.res = NoResource
        /\ op'.who = op.who /\ op'.res = r /\ op'.todo = op.todo \ {r}
        /\ op'.left = BridgesOf(r, topology) /\ op'.seen = {}
    BY <1>13 DEF EnsureServer, TypeOK, Ops
  <2>2. UNCHANGED <<queued, active, notice, wanted, numa, unseen, servers, topology>>
    BY <1>13, SMTT(30) DEF EnsureServer, outside
  <2>3. ~ReconcileAhead /\ topology = wanted
    BY <2>1, <2>2, TopologyCurrent, SMTT(30) DEF ReconcileAhead
  <2>4. \A q : TrueNode(q)' = TrueNode(q)
    BY <2>2, TrueNodeFrame, SMTT(30)
  <2>5. ReadIsCurrent'
    BY <2>1, <2>2, <2>3, SMTT(30) DEF ReadIsCurrent, TrueNode
  <2>6. ASSUME NEW q \in Resources
        PROVE  ServerIsCurrent(q)'
    BY <2>1, <2>2, <2>3, <2>4 DEF ServingInv, ServerIsCurrent, Excused, Unseen
  <2>7. QED
    BY <2>5, <2>6
<1>14. ASSUME NEW b \in Bridges, GetBridgeNUMA(b)
       PROVE  ReadIsCurrent' /\ \A q \in Resources : ServerIsCurrent(q)'
  <2> DEFINE S == op.seen \cup {NodeOf(numa[b])}
             All == op.seen \cup {NodeOf(numa[c]) : c \in op.left}
  <2>1. /\ b \in op.left /\ op.res # NoResource
        /\ op'.who = op.who /\ op'.res = op.res /\ op'.todo = op.todo
        /\ op'.seen = S
        /\ op'.left = IF Consistent(S) = -1 THEN {} ELSE op.left \ {b}
    BY <1>14 DEF GetBridgeNUMA, OpShape, TypeOK, Ops
  <2>2. UNCHANGED <<queued, active, notice, wanted, numa, unseen, servers>>
    BY <1>14 DEF GetBridgeNUMA, outside
  <2>3. \A q : TrueNode(q)' = TrueNode(q)
    BY <2>2, TrueNodeFrame
  <2>4. ~ReconcileAhead
    BY <2>1, <2>2 DEF ReconcileAhead
  <2>5. Consistent(S \cup {NodeOf(numa[c]) : c \in op'.left}) = Consistent(All)
    <3>1. CASE Consistent(S) = -1
      <4>1. S \subseteq All /\ S # {}
        BY <2>1
      <4>2. Consistent(All) = -1
        BY <3>1, <4>1, EarlyReturn
      <4>3. S \cup {NodeOf(numa[c]) : c \in op'.left} = S
        BY <2>1, <3>1
      <4>4. QED
        BY <3>1, <4>2, <4>3
    <3>2. CASE Consistent(S) # -1
      <4>1. S \cup {NodeOf(numa[c]) : c \in op.left \ {b}} = All
        BY <2>1
      <4>2. QED
        BY <2>1, <3>2, <4>1, ZenonT(30)
    <3>3. QED
      BY <3>1, <3>2
  <2>6. ReadIsCurrent'
    <3>1. Excused(op.res) \/ Consistent(All) = TrueNode(op.res)
      BY <2>1, <2>4 DEF ServingInv, ReadIsCurrent
    <3>2. CASE Excused(op.res)
      BY <2>1, <2>2, <3>2, SMTT(30) DEF ReadIsCurrent, Excused, Unseen
    <3>3. CASE Consistent(All) = TrueNode(op.res)
      BY <2>1, <2>2, <2>3, <2>5, <3>3, SMTT(30) DEF ReadIsCurrent
    <3>4. QED
      BY <3>1, <3>2, <3>3, SMTT(30)
  <2>7. ASSUME NEW q \in Resources
        PROVE  ServerIsCurrent(q)'
    BY <2>1, <2>2, <2>3, <2>4 DEF ServingInv, ServerIsCurrent, Excused, Unseen
  <2>8. QED
    BY <2>6, <2>7
<1>15. CASE KeepServer \/ StopServer \/ StartServer \/ StartFails
  <2>1. /\ op.who \in {"reconciler", "interface"} /\ op.left = {}
        /\ op'.who = op.who /\ op'.todo = op.todo /\ op'.left = {}
        /\ IF StopServer THEN op' = op ELSE op'.res = NoResource
    BY <1>15, LookEnds
  <2>2. UNCHANGED <<queued, active, notice, wanted, numa, unseen>>
    BY <1>15 DEF KeepServer, StopServer, StartServer, StartFails, outside
  <2>3. \A q : TrueNode(q)' = TrueNode(q)
    BY <2>2, TrueNodeFrame, SMTT(30)
  <2>4. ~ReconcileAhead
    BY <2>1, <2>2 DEF ReconcileAhead
  <2>5. op.res \in Resources /\ \A q \in Resources \ {op.res} : servers'[q] = servers[q]
    BY <1>15 DEF KeepServer, StopServer, StartServer, StartFails, TypeOK, Ops
  <2>6. Excused(op.res) \/ Consistent(op.seen) = TrueNode(op.res)
    <3>1. op.seen \cup {NodeOf(numa[c]) : c \in op.left} = op.seen
      BY <2>1
    <3>2. op.res # NoResource
      BY <2>5, TopologyConstants, SMTT(30)
    <3>3. QED
      BY <2>4, <3>1, <3>2, Zenon DEF ServingInv, ReadIsCurrent
  <2>7. \A q : Excused(q)' = Excused(q)
    BY <2>1, <2>2 DEF Excused, Unseen
  <2>8. ReadIsCurrent'
    <3>1. CASE StopServer
      BY <2>1, <2>2, <2>3, <2>4, <2>7, <3>1, SMTT(30) DEF ServingInv, ReadIsCurrent
    <3>2. CASE ~StopServer
      BY <2>1, <3>2 DEF ReadIsCurrent
    <3>3. QED
      BY <3>1, <3>2, SMTT(30)
  <2>9. ASSUME NEW q \in Resources, q = op.res
        PROVE  ServerIsCurrent(q)'
    <3>1. servers'[q] \in {-1, Consistent(op.seen)}
      BY <1>15, <2>9 DEF KeepServer, StopServer, StartServer, StartFails, TypeOK
    <3>2. CASE Excused(q)
      BY <2>7, <3>2 DEF ServerIsCurrent
    <3>3. CASE Consistent(op.seen) = TrueNode(q)
      BY <2>3, <3>1, <3>3, SMTT(30) DEF ServerIsCurrent
    <3>4. QED
      BY <2>6, <2>9, <3>2, <3>3
  <2>10. ASSUME NEW q \in Resources, q # op.res
         PROVE  ServerIsCurrent(q)'
    <3>1. CASE servers[q] \in {-1, TrueNode(q)}
      BY <2>3, <2>5, <2>10, <3>1, SMTT(30) DEF ServerIsCurrent
    <3>2. CASE Excused(q)
      BY <2>7, <3>2 DEF ServerIsCurrent
    <3>3. CASE q \in op.todo
      BY <2>1, <3>3 DEF ServerIsCurrent
    <3>4. QED
      BY <2>4, <2>10, <3>1, <3>2, <3>3, SMTT(30) DEF ServingInv, ServerIsCurrent
  <2>11. \A q \in Resources : ServerIsCurrent(q)'
    BY <2>9, <2>10, SMTT(30)
  <2>12. QED
    BY <2>8, <2>11
<1>16. CASE Unlock
  <2>1. /\ op.todo = {} /\ op.res = NoResource /\ op'.who = "none" /\ op'.res = NoResource
        /\ UNCHANGED <<wanted, numa, unseen, servers>>
    BY <1>16 DEF Unlock, Free, outside
  <2>2. /\ ~queued
        /\ active' = IF op.who = "reconciler" THEN {} ELSE active
        /\ notice' = IF op.who = "interface" THEN NoBridge ELSE notice
    BY <1>16, Zenon DEF Unlock, ReconcileAhead
  <2>3. ~ReconcileAhead
    BY <2>1, <2>2 DEF ReconcileAhead
  <2>4. \A q : TrueNode(q)' = TrueNode(q)
    BY <2>1, TrueNodeFrame
  <2>5. ASSUME NEW q \in Resources
        PROVE  ServerIsCurrent(q)'
    <3>1. servers[q] \in {-1, TrueNode(q)} \/ Excused(q)
      BY <2>1, <2>3, SMTT(30) DEF ServingInv, ServerIsCurrent
    <3>2. Excused(q) => Excused(q)'
      BY <2>1, <2>2, SMTT(30) DEF Excused, Unseen
    <3>3. QED
      BY <2>1, <2>4, <3>1, <3>2, SMTT(30) DEF ServerIsCurrent
  <2>6. QED
    BY <2>1, <2>5, SMTT(30) DEF ReadIsCurrent
<1>17. CASE UNCHANGED vars
  BY <1>17, QuietStep DEF vars, outside
<1>18. QED
  BY <1>1, <1>2, <1>3, <1>4, <1>5, <1>6, <1>7, <1>8, <1>9, <1>10, <1>11, <1>12, <1>13, <1>14,
     <1>15, <1>16, <1>17 DEF Next, EnvironmentStep, Reconcile, Locked

\* ServedIsCurrent holds in every state: whatever the order in which the
\* reconciler, the interface goroutine, the watcher and the environment take
\* their steps, when the goroutines are done no server has a node that its
\* bridges are not on, but for a bridge that was replaced in one transaction.
THEOREM NoStaleServer == Spec => []ServedIsCurrent
<1>1. Init => ServingInv
  <2> SUFFICES ASSUME Init PROVE ServingInv
    BY SMTT(30)
  <2>1. op.who = "none" /\ op.res = NoResource /\ op.left = {} /\ op = Free
    BY SMTT(30) DEF Init, Free
  <2>2. OpShape /\ WishShape /\ ReadIsCurrent
    BY <2>1, ZenonT(30) DEF Init, OpShape, WishShape, ReadIsCurrent
  <2>3. \A r \in Resources : ServerIsCurrent(r)
    BY DEF Init, ServerIsCurrent
  <2>4. QED
    BY <2>2, <2>3 DEF ServingInv
<1>2. TypeOK /\ ServingInv /\ [Next]_vars => ServingInv'
  <2> SUFFICES ASSUME TypeOK, ServingInv, [Next]_vars PROVE ServingInv'
    OBVIOUS
  <2>1. OpShape' /\ WishShape'
    BY ShapeStep, SMTT(30) DEF ServingInv
  <2>2. CASE ReconcileAhead'
    BY <2>1, <2>2 DEF ServingInv, ReadIsCurrent, ServerIsCurrent
  <2>3. CASE ~ReconcileAhead'
    BY <2>1, <2>3, ServingStep DEF ServingInv
  <2>4. QED
    BY <2>2, <2>3
<1>3. ServingInv => ServedIsCurrent
  <2> SUFFICES ASSUME ServingInv, Settled, NEW r \in Resources, ~Unseen(r)
               PROVE  servers[r] \in {-1, TrueNode(r)}
    BY DEF ServedIsCurrent
  <2>1. op.who = "none"
    BY DEF Settled, Free
  <2>2. ~ReconcileAhead /\ ~Excused(r)
    BY DEF Settled, ReconcileAhead, Excused
  <2>3. QED
    BY <2>1, <2>2 DEF ServingInv, ServerIsCurrent
<1>4. QED
  BY <1>1, <1>2, <1>3, TopologyTypes, PTL DEF Spec

-----------------------------------------------------------------------------
(* What the kubelet knows *)

\* Most steps touch neither the servers nor what the kubelet knows of them.
LEMMA NothingServed ==
    ASSUME TypeOK, [Next]_vars,
           ~ \E wish \in Wishes : UpdateResources(wish),
           ~ \E r \in Resources : Reregister(r),
           ~ (KubeletStops \/ StopAll \/ StopServer \/ StartServer)
    PROVE  UNCHANGED <<servers, advertised>> /\ phase' \in {phase, "canceled"}
BY Zenon DEF Next, EnvironmentStep, PolicyChanged, InterfaceChanged, BridgeForgotten, KubeletStarts,
       NodeUpdated, Cancel, CollectBridges, Reconcile, UpdatePolicyDevicesFails, OnInterfaceChange,
       reregisterAll, Locked, ReregisterFails, EnsureServer, GetBridgeNUMA, KeepServer,
       StartFails, Unlock, vars, life

\* AdvertisedIsServed is inductive.
LEMMA AdvertisedStep ==
    ASSUME TypeOK, AdvertisedIsServed, [Next]_vars
    PROVE  AdvertisedIsServed'
<1>1. ASSUME NEW wish \in Wishes, UpdateResources(wish)
      PROVE  AdvertisedIsServed'
  BY <1>1 DEF AdvertisedIsServed, UpdateResources
<1>2. ASSUME NEW r \in Resources, Reregister(r)
      PROVE  AdvertisedIsServed'
  BY <1>2 DEF AdvertisedIsServed, Reregister, TypeOK
<1>3. CASE KubeletStops \/ StopAll
  BY <1>3, SMTT(30) DEF AdvertisedIsServed, KubeletStops, StopAll
<1>4. CASE StopServer \/ StartServer
  BY <1>4 DEF AdvertisedIsServed, StopServer, StartServer, TypeOK, Ops
<1>5. CASE UNCHANGED <<servers, advertised>>
  BY <1>5 DEF AdvertisedIsServed
<1>6. QED
  BY <1>1, <1>2, <1>3, <1>4, <1>5, NothingServed

\* AdvertisedIsServed holds in every state: the kubelet never has devices of a
\* server that was stopped or replaced.
THEOREM NoGhostDevices == Spec => []AdvertisedIsServed
<1>1. Init => AdvertisedIsServed
  BY DEF Init, AdvertisedIsServed
<1>2. TypeOK /\ AdvertisedIsServed /\ [Next]_vars => AdvertisedIsServed'
  BY AdvertisedStep
<1>3. QED
  BY <1>1, <1>2, TopologyTypes, PTL DEF Spec

\* StoppedForGood is inductive.
LEMMA StoppedStep ==
    ASSUME TypeOK, StoppedForGood, [Next]_vars
    PROVE  StoppedForGood'
<1>1. ASSUME NEW wish \in Wishes, UpdateResources(wish)
      PROVE  StoppedForGood'
  BY <1>1 DEF StoppedForGood, UpdateResources
<1>2. ASSUME NEW r \in Resources, Reregister(r)
      PROVE  StoppedForGood'
  BY <1>2, SMTT(30) DEF StoppedForGood, Reregister
<1>3. CASE KubeletStops
  BY <1>3, SMTT(30) DEF StoppedForGood, KubeletStops, life
<1>4. CASE StopAll
  BY <1>4 DEF StoppedForGood, StopAll
<1>5. CASE StopServer
  BY <1>5 DEF StoppedForGood, StopServer, TypeOK, Ops
<1>6. CASE StartServer
  BY <1>6 DEF StoppedForGood, StartServer, life
<1>7. CASE UNCHANGED <<servers, advertised>> /\ phase' \in {phase, "canceled"}
  BY <1>7 DEF StoppedForGood
<1>8. QED
  BY <1>1, <1>2, <1>3, <1>4, <1>5, <1>6, <1>7, NothingServed

\* StoppedForGood holds in every state: no goroutine that outlives StopAll can
\* bring a server back.
THEOREM ShutdownIsFinal == Spec => []StoppedForGood
<1>1. Init => StoppedForGood
  BY DEF Init, StoppedForGood
<1>2. TypeOK /\ StoppedForGood /\ [Next]_vars => StoppedForGood'
  BY StoppedStep
<1>3. QED
  BY <1>1, <1>2, TopologyTypes, PTL DEF Spec

=============================================================================
