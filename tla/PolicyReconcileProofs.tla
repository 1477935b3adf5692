------------------------ MODULE PolicyReconcileProofs ------------------------
(***************************************************************************)
(* No wakeup of the policy reconciler is lost, for any number of policies, *)
(* bridges, labels and MTUs, and any number of faults and changes.         *)
(*                                                                         *)
(* SettledIsCurrent is not inductive: it says nothing of a reconcile that  *)
(* is under way.  The invariant says that when no wakeup is pending, what  *)
(* the running reconcile has read so far is still true.  TypeOK, which     *)
(* limits the MTUs handed to the topology manager, is not inductive        *)
(* either: it needs that the list was checked before it is passed on.      *)
(***************************************************************************)
EXTENDS PolicyReconcile, TLAPS

Pending == queued \/ triggerChan \/ events # 0

Matching == {i \in Items : /\ i[2] \in policies[i[1]]
                           /\ matchesNodeSelector(i[1], {label})}

\* What the reconcile has read is what it would read now.
ReadsAreCurrent ==
    /\ rec.phase = "list" => rec.node = {label} /\ rec.active = {}
    /\ rec.phase = "bridges" => /\ rec.left \subseteq Matching
                                /\ rec.active \subseteq Active
                                /\ Active \subseteq rec.active \cup rec.left
    /\ rec.phase \in {"publish", "topology"} => /\ rec.active = Active
                                                /\ ~Refused(Active)
                                                /\ allocatable = SpecsOf(Active)
    /\ rec.phase = "topology" => published = allocatable
    /\ rec.phase = "idle" => /\ ~Refused(Active)
                             /\ allocatable = SpecsOf(Active)
                             /\ published = allocatable
                             /\ topology = allocatable

WakeupInv == ~Pending => ReadsAreCurrent

\* UpdatePolicyDevices accepted the list that is being passed on.
Checked == rec.phase \in {"publish", "topology"} => ~Refused(rec.active)

\* The specs of a list that is not refused are specs of a policy, usable for
\* ports.
LEMMA SpecsTyped ==
    ASSUME NEW items \in SUBSET Items, ~Refused(items)
    PROVE  SpecsOf(items) \subseteq Specs \cap Usable
<1> SUFFICES ASSUME NEW i \in items PROVE i[2] \in Specs \cap Usable
  BY DEF SpecsOf
<1>1. i[2] \in Specs
  BY DEF Items
<1>2. PICK b \in Bridges, m \in Mtus : i[2] = <<b, m>>
  BY <1>1 DEF Specs
<1>3. i[2][2] = m /\ ~MtuOutOfRange(m)
  BY <1>2 DEF Refused
<1>4. m \in Int \cup {NoMtu}
  BY PolicyConstants
<1>5. MinMtu \in Int /\ MaxMtu \in Int
  BY DEF MinMtu, MaxMtu
<1>6. m \in MinMtu..MaxMtu \cup {NoMtu}
  BY <1>3, <1>4, <1>5 DEF MtuOutOfRange
<1>. QED BY <1>1, <1>2, <1>6 DEF Usable

\* No reconcile runs: a value of rec.
LEMMA IdleTyped == IdleRec \in Recs
  BY DEF IdleRec, Recs

\* Every action preserves the types: each of the steps of PolicyReconcile.
LEMMA TypeStep == TypeOK /\ Checked /\ [Next]_vars => TypeOK'
<1> SUFFICES ASSUME TypeOK, Checked, [Next]_vars PROVE TypeOK'
  OBVIOUS
<1> USE PolicyConstants DEF TypeOK, Change, Fault
<1>1. ASSUME NEW p \in Policies, NEW specs \in Versions[p], PolicyChanged(p, specs)
      PROVE  TypeOK'
  BY <1>1 DEF PolicyChanged, wakeup, output
<1>2. ASSUME NEW l \in Labels, NodeChanged(l) PROVE TypeOK'
  BY <1>2 DEF NodeChanged, wakeup, output
<1>3. ASSUME NEW b \in Bridges, BridgeChanged(b) PROVE TypeOK'
  BY <1>3 DEF BridgeChanged, output
<1>4. CASE Restart
  <2>1. rec' \in Recs
    BY <1>4, IdleTyped DEF Restart
  <2>2. queued' \in BOOLEAN /\ triggerChan' \in BOOLEAN
    BY <1>4, Zenon DEF Restart
  <2>3. events' \in 0..MaxEvents /\ changes' \in 0..MaxChanges
    BY <1>4 DEF Restart
  <2>4. allocatable' = {} /\ topology' = {} /\ UNCHANGED <<policies, label, bridges, published>>
    BY <1>4 DEF Restart
  <2>5. QED
    BY <2>1, <2>2, <2>3, <2>4
<1>5. CASE BridgeNotifier
  BY <1>5 DEF BridgeNotifier, inputs, output
<1>6. CASE Enqueue
  BY <1>6, Zenon DEF Enqueue, inputs, output
<1>7. CASE GetNode
  BY <1>7, Zenon DEF GetNode, IdleRec, Recs, inputs, wakeup, output
<1>8. CASE ListPolicies
  BY <1>8, Zenon DEF ListPolicies, Recs, inputs, wakeup, output
<1>9. ASSUME NEW i \in Items, CheckBridge(i) PROVE TypeOK'
  BY <1>9, Zenon DEF CheckBridge, Recs, inputs, wakeup, output
<1>10. CASE ReadFails
  BY <1>10, IdleTyped DEF ReadFails, Requeue, wakeup, output
<1>11. CASE UpdatePolicyDevices
  <2>1. CASE Refused(rec.active)
    <3>1. rec' \in Recs /\ queued' \in BOOLEAN
      BY <1>11, <2>1, IdleTyped, Zenon DEF UpdatePolicyDevices, Requeue
    <3>2. QED
      BY <1>11, <2>1, <3>1 DEF UpdatePolicyDevices, inputs, wakeup
  <2>2. CASE ~Refused(rec.active)
    <3>1. allocatable' \subseteq Specs \cap Usable
      BY <1>11, <2>2, SpecsTyped DEF UpdatePolicyDevices, Recs
    <3>2. rec' \in Recs /\ UNCHANGED queued
      BY <1>11, <2>2 DEF UpdatePolicyDevices, Recs
    <3>3. QED
      BY <1>11, <3>1, <3>2 DEF UpdatePolicyDevices, inputs, wakeup
  <2>3. QED
    BY <2>1, <2>2
<1>12. CASE PublishResources
  BY <1>12 DEF PublishResources, Recs, inputs, wakeup
<1>13. CASE PublishFails
  BY <1>13, IdleTyped DEF PublishFails, Requeue, wakeup, output
<1>14. CASE UpdateResources
  <2>1. rec' \in Recs /\ queued' \in BOOLEAN
    BY <1>14, IdleTyped, Zenon DEF UpdateResources, Requeue
  <2>2. changes' \in 0..MaxChanges
    BY <1>14 DEF UpdateResources
  <2>3. topology' \subseteq Specs \cap Usable
    BY <1>14, SpecsTyped DEF UpdateResources, Recs, Checked
  <2>4. QED
    BY <1>14, <2>1, <2>2, <2>3 DEF UpdateResources, wakeup
<1>15. CASE UNCHANGED vars
  BY <1>15 DEF vars, inputs, wakeup, output
<1> QED
  BY <1>1, <1>2, <1>3, <1>4, <1>5, <1>6, <1>7, <1>8, <1>9, <1>10, <1>11,
     <1>12, <1>13, <1>14, <1>15
     DEF Next, RunningStep, EnvironmentStep, ReconcileStep, Waiting

\* A list is passed on only after UpdatePolicyDevices accepted it.
LEMMA CheckedStep == TypeOK /\ Checked /\ [Next]_vars => Checked'
<1> SUFFICES ASSUME TypeOK, Checked, [Next]_vars PROVE Checked'
  OBVIOUS
<1> USE DEF Checked
<1>1. CASE UNCHANGED rec
  BY <1>1
<1>2. CASE rec'.phase \notin {"publish", "topology"}
  BY <1>2
<1>3. CASE UpdatePolicyDevices
  BY <1>3 DEF UpdatePolicyDevices, Requeue, IdleRec, TypeOK, Recs
<1>4. CASE PublishResources
  BY <1>4, ZenonT(30) DEF PublishResources, TypeOK, Recs
<1>5. CASE GetNode \/ ListPolicies
  BY <1>2, <1>5, ZenonT(30) DEF GetNode, ListPolicies, IdleRec, TypeOK, Recs
<1>8. ASSUME NEW i \in Items, CheckBridge(i) PROVE Checked'
  BY <1>2, <1>8, ZenonT(30) DEF CheckBridge, TypeOK, Recs
<1>6. CASE ReadFails \/ PublishFails \/ UpdateResources \/ Restart
  BY <1>2, <1>6, SMTT(30), ZenonT(30) DEF ReadFails, PublishFails, UpdateResources, Restart, Requeue, IdleRec
<1>7. CASE EnvironmentStep \/ BridgeNotifier \/ Enqueue \/ Waiting \/ UNCHANGED vars
  BY <1>1, <1>7, ZenonT(30) DEF EnvironmentStep, PolicyChanged, NodeChanged, BridgeChanged,
                    BridgeNotifier, Enqueue, Waiting, vars
<1>. QED
  BY <1>3, <1>4, <1>5, <1>6, <1>7, <1>8 DEF Next, RunningStep, ReconcileStep

\* Every change of an input leaves a wakeup pending, and the reconcile that
\* takes the last one reads everything after it.
LEMMA WakeupStep == TypeOK /\ WakeupInv /\ [Next]_vars => WakeupInv'
<1> SUFFICES ASSUME TypeOK, WakeupInv, [Next]_vars PROVE WakeupInv'
  OBVIOUS
<1> USE DEF WakeupInv, Pending, IdleRec
<1>1. ASSUME NEW p \in Policies, NEW specs \in Versions[p], PolicyChanged(p, specs)
      PROVE  WakeupInv'
  BY <1>1 DEF PolicyChanged
<1>2. ASSUME NEW l \in Labels, NodeChanged(l) PROVE WakeupInv'
  BY <1>2 DEF NodeChanged
<1>3. ASSUME NEW b \in Bridges, BridgeChanged(b) PROVE WakeupInv'
  BY <1>3 DEF BridgeChanged, TypeOK
<1>4. CASE Restart
  BY <1>4 DEF Restart
<1>5. CASE BridgeNotifier
  BY <1>5 DEF BridgeNotifier
<1>6. CASE Enqueue
  BY <1>6 DEF Enqueue
<1>7. CASE GetNode
  BY <1>7 DEF GetNode, ReadsAreCurrent, inputs, wakeup, output
<1>8. CASE ListPolicies
  BY <1>8, ZenonT(30) DEF ListPolicies, ReadsAreCurrent, Matching, Active, TypeOK, Recs,
              inputs, wakeup, output
<1>9. ASSUME NEW i \in Items, CheckBridge(i) PROVE WakeupInv'
  BY <1>9, Zenon DEF CheckBridge, ReadsAreCurrent, Matching, Active, TypeOK, Recs,
              inputs, wakeup, output
<1>10. CASE ReadFails
  BY <1>10 DEF ReadFails, Requeue
<1>11. CASE UpdatePolicyDevices
  <2>1. CASE Refused(rec.active)
    BY <1>11, <2>1 DEF UpdatePolicyDevices, Requeue
  <2>2. CASE ~Refused(rec.active)
    <3> SUFFICES ASSUME ~Pending' PROVE ReadsAreCurrent'
      OBVIOUS
    <3>1. rec.active = Active /\ Active' = Active
      BY <1>11, <2>2, Zenon DEF UpdatePolicyDevices, ReadsAreCurrent, Active, inputs, wakeup
    <3>2. /\ rec'.phase = "publish" /\ rec'.active = Active
          /\ allocatable' = SpecsOf(Active) /\ ~Refused(Active)
      BY <1>11, <2>2, <3>1 DEF UpdatePolicyDevices, TypeOK, Recs
    <3>3. QED
      BY <3>1, <3>2 DEF ReadsAreCurrent
  <2>3. QED
    BY <2>1, <2>2
<1>12. CASE PublishResources
  BY <1>12, Zenon DEF PublishResources, ReadsAreCurrent, Active, TypeOK, Recs,
               inputs, wakeup
<1>13. CASE PublishFails
  BY <1>13 DEF PublishFails, Requeue
<1>14. CASE UpdateResources
  <2> SUFFICES ASSUME ~Pending' PROVE ReadsAreCurrent'
    OBVIOUS
  <2>1. ~Pending /\ rec'.phase = "idle" /\ rec.phase = "topology"
    BY <1>14 DEF UpdateResources, Requeue, wakeup
  <2>2. Active' = Active
    BY <1>14 DEF UpdateResources, Active
  <2>3. /\ ~Refused(Active) /\ allocatable' = SpecsOf(Active)
        /\ published' = allocatable' /\ topology' = allocatable'
    BY <1>14, <2>1 DEF UpdateResources, ReadsAreCurrent
  <2>4. QED
    BY <2>1, <2>2, <2>3 DEF ReadsAreCurrent
<1>15. CASE UNCHANGED vars
  BY <1>15, Zenon DEF ReadsAreCurrent, Matching, Active, vars, inputs, wakeup, output
<1> QED
  BY <1>1, <1>2, <1>3, <1>4, <1>5, <1>6, <1>7, <1>8, <1>9, <1>10, <1>11,
     <1>12, <1>13, <1>14, <1>15
     DEF Next, RunningStep, EnvironmentStep, ReconcileStep, Waiting

\* UpdatePolicyDevices lets no MTU out of range, and nothing but bridge specs of
\* policies, reach the devices, the slice or the topology manager.
THEOREM PolicyTypes == Spec => []TypeOK
<1>1. Init => TypeOK
  <2> SUFFICES ASSUME Init PROVE TypeOK
    OBVIOUS
  <2>1. rec \in Recs /\ queued \in BOOLEAN /\ triggerChan \in BOOLEAN
    BY IdleTyped, Zenon DEF Init
  <2>. QED BY <2>1, PolicyConstants DEF Init, TypeOK
<1>2. Init => Checked
  BY DEF Init, Checked, IdleRec
<1>. QED BY <1>1, <1>2, TypeStep, CheckedStep, PTL DEF Spec

\* The reconciler of OvsDpdkResourcePolicy rests only when allocatable, the
\* slice and the topology manager agree with its inputs as they are now,
\* although the bridge notifier drops events when its channel is full.
THEOREM NoLostWakeup == Spec => []SettledIsCurrent
<1>1. Init => WakeupInv
  BY DEF Init, WakeupInv, Pending
<1>2. WakeupInv => SettledIsCurrent
  BY DEF WakeupInv, Pending, ReadsAreCurrent, SettledIsCurrent, Settled
<1>. QED BY <1>1, <1>2, WakeupStep, PolicyTypes, PTL DEF Spec

=============================================================================
