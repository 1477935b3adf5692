------------------------- MODULE ClaimLifecycleProofs -------------------------
(***************************************************************************)
(* The safety properties of ClaimLifecycle for any number of pods, claims, *)
(* devices and bridges, and any set of faults.                             *)
(***************************************************************************)
EXTENDS ClaimLifecycle, TLAPS

Forward == call.phase \in {"device", "port", "undo", "commit"}
Active  == Forward \/ Cleaning

\* What the fields of a call say in each phase.  While a claim is worked on
\* it is not in the pod manager, so that no device is owned twice.
CallShape ==
    /\ \A c \in Claims : cache[c] \subseteq Results(c)
    /\ call.phase = "idle" <=> call.op = "none"
    /\ call.phase \in {"idle", "next"} =>
          /\ call.claim = NoClaim
          /\ call.left = {} /\ call.devs = {} /\ ~call.err
    /\ call.phase \in {"idle", "next", "device", "commit", "clean"} =>
          call.dev = NoDevice
    /\ Active =>
          /\ call.claim \in Claims
          /\ cache[call.claim] = {}
          /\ call.left \subseteq Results(call.claim)
          /\ call.devs \subseteq Results(call.claim)
    /\ Forward =>
          /\ call.op = "prepare" /\ ~call.err
          /\ call.left \cap call.devs = {}
    /\ call.phase \in {"port", "undo"} =>
          /\ call.dev \in Results(call.claim)
          /\ call.dev \notin call.devs /\ call.dev \notin call.left
    /\ call.phase = "commit" => call.left = {} /\ call.devs # {}
    /\ Cleaning => call.left \subseteq call.devs
    /\ Cleaning /\ call.op = "unprepare" => call.devs # {}
    /\ call.phase \in {"delport", "rmdir"} =>
          call.dev \in call.devs /\ call.dev \notin call.left

\* The directory and the port of a device are names of the host's name spaces.
LEMMA NamesTyped ==
    \A d \in Devices : getSocketDir(d) \in Dirs /\ Port(d) \in Ports
BY ConstantsAssumption
   DEF getSocketDir, Port, ovsPortName, Dirs, Ports

\* Every step keeps the types, and the fields of the call in the order in which
\* prepare, rollback and unprepare pass through their phases.
LEMMA ShapeStep == ASSUME TypeOK, CallShape, Next PROVE TypeOK' /\ CallShape'
<1> USE NamesTyped, ConstantsAssumption
    DEF TypeOK, CallShape, Calls, Idle, Forward, Cleaning, Active, host, env,
        Results, ClaimsOf
<1>1. ASSUME NEW c \in Claims, PrepareCached(c) PROVE TypeOK' /\ CallShape'
  BY <1>1, Zenon DEF PrepareCached
<1>2. ASSUME NEW c \in Claims, PrepareBegin(c) PROVE TypeOK' /\ CallShape'
  <2>1. TypeOK'
    BY <1>2, ZenonT(30) DEF PrepareBegin
  <2>2. CallShape'
    BY <1>2 DEF PrepareBegin
  <2>. QED BY <2>1, <2>2
<1>3. ASSUME NEW c \in Claims, PrepareRejected(c) PROVE TypeOK' /\ CallShape'
  BY <1>3 DEF PrepareRejected
<1>4. CASE PrepareNoConfig
  BY <1>4, ZenonT(30) DEF PrepareNoConfig, StartRollback
<1>5. ASSUME NEW d \in Devices, CreateSocketDir(d) PROVE TypeOK' /\ CallShape'
  <2>1. call' \in Calls
    BY <1>5, Zenon DEF CreateSocketDir
  <2>2. leaked' \in [dirs : SUBSET Dirs, specs : SUBSET Claims, ports : SUBSET Ports]
    BY <1>5 DEF CreateSocketDir
  <2>3. TypeOK'
    BY <1>5, <2>1, <2>2, SMTT(30) DEF CreateSocketDir
  <2>4. CallShape'
    BY <1>5 DEF CreateSocketDir
  <2>. QED BY <2>3, <2>4
<1>6. ASSUME NEW d \in Devices, CreateSocketDirFails(d) PROVE TypeOK' /\ CallShape'
  <2>1. call' \in Calls
    BY <1>6, Zenon DEF CreateSocketDirFails, StartRollback
  <2>2. leaked' \in [dirs : SUBSET Dirs, specs : SUBSET Claims, ports : SUBSET Ports]
    BY <1>6 DEF CreateSocketDirFails, StartRollback
  <2>3. TypeOK'
    BY <1>6, <2>1, <2>2 DEF CreateSocketDirFails, StartRollback
  <2>4. CallShape'
    BY <1>6, SMTT(30) DEF CreateSocketDirFails, StartRollback
  <2>. QED BY <2>3, <2>4
<1>7. CASE CreatePort
  <2>1. call.dev \in Devices
    BY <1>7 DEF CreatePort, PortDone
  <2>2. call' = [call EXCEPT !.phase = "device", !.dev = NoDevice,
                             !.devs = call.devs \cup {call.dev}]
    BY <1>7 DEF CreatePort, PortDone
  <2>3. call.devs \cup {call.dev} \in SUBSET Devices
    BY <2>1
  <2>4. call' \in Calls
    BY <2>2, <2>3, ZenonT(30)
  <2>5. leaked' \in [dirs : SUBSET Dirs, specs : SUBSET Claims, ports : SUBSET Ports]
    BY <1>7 DEF CreatePort, PortDone
  <2>6. TypeOK'
    BY <1>7, <2>4, <2>5 DEF CreatePort, PortDone
  <2>7. CallShape'
    BY <1>7 DEF CreatePort, PortDone
  <2>. QED BY <2>6, <2>7
<1>8. CASE CreatePortNoBridge
  <2>1. call.dev \in Devices
    BY <1>8 DEF CreatePortNoBridge, PortDone
  <2>2. call' = [call EXCEPT !.phase = "device", !.dev = NoDevice,
                             !.devs = call.devs \cup {call.dev}]
    BY <1>8 DEF CreatePortNoBridge, PortDone
  <2>3. call.devs \cup {call.dev} \in SUBSET Devices
    BY <2>1
  <2>4. call' \in Calls
    BY <2>2, <2>3, Zenon
  <2>5. leaked' \in [dirs : SUBSET Dirs, specs : SUBSET Claims, ports : SUBSET Ports]
    BY <1>8 DEF CreatePortNoBridge, PortDone
  <2>6. TypeOK'
    BY <1>8, <2>4, <2>5 DEF CreatePortNoBridge, PortDone
  <2>7. CallShape'
    BY <1>8 DEF CreatePortNoBridge, PortDone
  <2>. QED BY <2>6, <2>7
<1>9. CASE CreatePortFails
  <2>1. call.dev \in Devices
    BY <1>9 DEF CreatePortFails
  <2>2. call' \in Calls
    BY <1>9, Zenon DEF CreatePortFails
  <2>3. leaked' \in [dirs : SUBSET Dirs, specs : SUBSET Claims, ports : SUBSET Ports]
    BY <1>9, <2>1, SMTT(30) DEF CreatePortFails
  <2>4. ports' \subseteq Ports
    BY <1>9, <2>1 DEF CreatePortFails
  <2>5. TypeOK'
    BY <1>9, <2>2, <2>3, <2>4, Zenon DEF CreatePortFails
  <2>6. CallShape'
    BY <1>9 DEF CreatePortFails
  <2>. QED BY <2>5, <2>6
<1>10. CASE UndoSocketDir
  <2>1. call' \in Calls
    BY <1>10, Zenon DEF UndoSocketDir, StartRollback
  <2>2. leaked' \in [dirs : SUBSET Dirs, specs : SUBSET Claims, ports : SUBSET Ports]
    BY <1>10 DEF UndoSocketDir, StartRollback
  <2>3. TypeOK'
    BY <1>10, <2>1, <2>2 DEF UndoSocketDir, StartRollback
  <2>4. CallShape'
    BY <1>10 DEF UndoSocketDir, StartRollback
  <2>. QED BY <2>3, <2>4
<1>11. CASE CreateClaimSpecFile
  <2>1. call' \in Calls
    BY <1>11, Zenon DEF CreateClaimSpecFile
  <2>2. leaked' \in [dirs : SUBSET Dirs, specs : SUBSET Claims, ports : SUBSET Ports]
    BY <1>11, SMTT(30) DEF CreateClaimSpecFile
  <2>3. specs' \subseteq Claims
    BY <1>11 DEF CreateClaimSpecFile
  <2>4. TypeOK'
    BY <1>11, <2>1, <2>2, <2>3, Zenon DEF CreateClaimSpecFile
  <2>5. CallShape'
    BY <1>11 DEF CreateClaimSpecFile
  <2>. QED BY <2>4, <2>5
<1>12. CASE CreateClaimSpecFileFails
  BY <1>12, ZenonT(30) DEF CreateClaimSpecFileFails, StartRollback
<1>13. CASE Commit
  <2>1. TypeOK'
    BY <1>13, Zenon DEF Commit
  <2>2. \A c \in Claims : cache'[c] \subseteq Results(c)
    BY <1>13 DEF Commit
  <2>3. CallShape'
    BY <1>13, <2>2 DEF Commit
  <2>. QED BY <2>1, <2>3
<1>14. CASE PrepareReply
  BY <1>14 DEF PrepareReply
<1>15. ASSUME NEW d \in Devices, DeleteClaimSpecFile(d) PROVE TypeOK' /\ CallShape'
  <2>1. call' \in Calls
    BY <1>15, Zenon DEF DeleteClaimSpecFile
  <2>2. leaked' \in [dirs : SUBSET Dirs, specs : SUBSET Claims, ports : SUBSET Ports]
    BY <1>15, SMTT(30) DEF DeleteClaimSpecFile
  <2>3. TypeOK'
    BY <1>15, <2>1, <2>2 DEF DeleteClaimSpecFile
  <2>4. CallShape'
    BY <1>15 DEF DeleteClaimSpecFile
  <2>. QED BY <2>3, <2>4
<1>16. CASE DeletePort
  BY <1>16, ZenonT(30) DEF DeletePort
<1>17. CASE DeletePortFails
  <2>1. call' \in Calls
    BY <1>17, Zenon DEF DeletePortFails, Lost
  <2>2. leaked' \in [dirs : SUBSET Dirs, specs : SUBSET Claims, ports : SUBSET Ports]
    BY <1>17, SMTT(30) DEF DeletePortFails, Lost
  <2>3. TypeOK'
    BY <1>17, <2>1, <2>2 DEF DeletePortFails, Lost
  <2>4. CallShape'
    BY <1>17 DEF DeletePortFails, Lost
  <2>. QED BY <2>3, <2>4
<1>18. CASE RemoveSocketDir
  BY <1>18, ZenonT(30) DEF RemoveSocketDir
<1>19. CASE RemoveSocketDirFails
  BY <1>19, ZenonT(30) DEF RemoveSocketDirFails, Lost
<1>20. CASE RollbackEnd
  BY <1>20 DEF RollbackEnd
<1>21. ASSUME NEW c \in Claims, UnprepareUnknown(c) PROVE TypeOK' /\ CallShape'
  BY <1>21, ZenonT(30) DEF UnprepareUnknown
<1>22. ASSUME NEW c \in Claims, UnprepareBegin(c) PROVE TypeOK' /\ CallShape'
  <2>1. TypeOK'
    BY <1>22, ZenonT(30) DEF UnprepareBegin
  <2>2. CallShape'
    BY <1>22 DEF UnprepareBegin
  <2>. QED BY <2>1, <2>2
<1>23. CASE UnprepareEnd
  <2>1. TypeOK'
    BY <1>23, ZenonT(30) DEF UnprepareEnd
  <2>2. \A c \in Claims : cache'[c] \subseteq Results(c)
    BY <1>23 DEF UnprepareEnd
  <2>3. CallShape'
    BY <1>23, <2>2 DEF UnprepareEnd
  <2>. QED BY <2>1, <2>3
<1>24. CASE UnprepareReply
  BY <1>24, SMTT(30) DEF UnprepareReply
<1>25. ASSUME NEW p \in Pods, PodAdded(p) PROVE TypeOK' /\ CallShape'
  BY <1>25, SMTT(30) DEF PodAdded
<1>26. ASSUME NEW p \in Pods, PodDeleted(p) PROVE TypeOK' /\ CallShape'
  BY <1>26 DEF PodDeleted
<1>27. ASSUME NEW p \in Pods, CallPrepare(p) PROVE TypeOK' /\ CallShape'
  BY <1>27, ZenonT(30) DEF CallPrepare
<1>28. ASSUME NEW p \in Pods, CallUnprepare(p) PROVE TypeOK' /\ CallShape'
  BY <1>28, ZenonT(30) DEF CallUnprepare
<1>29. CASE UpdateConfig
  BY <1>29 DEF UpdateConfig
<1>30. CASE Restart
  BY <1>30, Zenon DEF Restart
<1>31. ASSUME NEW b \in Bridges, BridgeDeleted(b) PROVE TypeOK' /\ CallShape'
  BY <1>31, SMTT(30) DEF BridgeDeleted
<1>32. ASSUME NEW b \in Bridges, BridgeAdded(b) PROVE TypeOK' /\ CallShape'
  BY <1>32, SMTT(30) DEF BridgeAdded
<1>33. CASE Stabilise
  BY <1>33, SMTT(30) DEF Stabilise
<1>34. CASE Finished
  BY <1>34 DEF Finished, vars
<1>. QED
  BY <1>1, <1>2, <1>3, <1>4, <1>5, <1>6, <1>7, <1>8, <1>9, <1>10,
     <1>11, <1>12, <1>13, <1>14, <1>15, <1>16, <1>17, <1>18, <1>19, <1>20,
     <1>21, <1>22, <1>23, <1>24, <1>25, <1>26, <1>27, <1>28, <1>29, <1>30,
     <1>31, <1>32, <1>33, <1>34, ZenonT(30)
  DEF Next, DriverStep, PrepareStep, CleanupStep, UnprepareStep, KubeletStep,
      EnvironmentStep

\* A driver that just started serves no call and has an empty pod manager.
LEMMA InitShape == Init => TypeOK /\ CallShape
<1>1. Idle \in Calls
  BY DEF Idle, Calls
<1>2. ASSUME Init PROVE TypeOK
  <2>1. leaked \in [dirs : SUBSET Dirs, specs : SUBSET Claims, ports : SUBSET Ports]
    BY <1>2 DEF Init
  <2>2. kubelet \in [Pods -> {"absent", "starting", "running", "terminating", "gone"}]
    BY <1>2 DEF Init
  <2>3. cache \in [Claims -> SUBSET Devices]
    BY <1>2 DEF Init
  <2>. QED BY <1>1, <1>2, <2>1, <2>2, <2>3, Zenon DEF Init, TypeOK
<1>3. Init => CallShape
  BY DEF Init, CallShape, Idle, Forward, Cleaning, Active
<1>. QED BY <1>2, <1>3

\* Type correctness, with the shape of the call.
THEOREM TypeCorrect == Spec => [](TypeOK /\ CallShape)
<1>1. Init => TypeOK /\ CallShape
  BY InitShape
<1>2. TypeOK /\ CallShape /\ [Next]_vars => (TypeOK /\ CallShape)'
  <2>1. CASE UNCHANGED vars
    BY <2>1 DEF vars, TypeOK, CallShape, Forward, Cleaning, Active
  <2>. QED
    BY <2>1, ShapeStep, SMTT(30)
<1>. QED
  BY <1>1, <1>2, PTL DEF Spec

\* No step drops host state: one that ends the driver's responsibility for a
\* directory, a port or a spec file removes it or records it in leaked.
LEMMA OrphanStep ==
    ASSUME TypeOK, CallShape, EveryOrphanExplained, Next
    PROVE  EveryOrphanExplained'
<1>q. ASSUME UNCHANGED <<call, cache, dirs, ports, specs, leaked>> PROVE EveryOrphanExplained'
  BY <1>q DEF EveryOrphanExplained, OwnedDirs, OwnedPorts, OwnedSpecs, CachedDevices,
              CallDevices, Busy, Cleaning
<1>25. ASSUME NEW p \in Pods, PodAdded(p) PROVE EveryOrphanExplained'
  BY <1>q, <1>25 DEF PodAdded, host
<1>26. ASSUME NEW p \in Pods, PodDeleted(p) PROVE EveryOrphanExplained'
  BY <1>q, <1>26 DEF PodDeleted, host
<1>29. CASE UpdateConfig
  BY <1>q, <1>29 DEF UpdateConfig, host
<1>32. ASSUME NEW b \in Bridges, BridgeAdded(b) PROVE EveryOrphanExplained'
  BY <1>q, <1>32 DEF BridgeAdded, host
<1>33. CASE Stabilise
  BY <1>q, <1>33 DEF Stabilise, host
<1>34. CASE Finished
  BY <1>q, <1>34 DEF Finished, vars
<1> USE ConstantsAssumption
    DEF TypeOK, CallShape, Calls, Idle, Forward, Cleaning, Active, host, env,
        EveryOrphanExplained, OwnedDirs, OwnedPorts, OwnedSpecs,
        CachedDevices, CallDevices, Busy, Results
<1>1. ASSUME NEW c \in Claims, PrepareCached(c) PROVE EveryOrphanExplained'
  BY <1>1 DEF PrepareCached
<1>2. ASSUME NEW c \in Claims, PrepareBegin(c) PROVE EveryOrphanExplained'
  BY <1>2, SMTT(30) DEF PrepareBegin
<1>3. ASSUME NEW c \in Claims, PrepareRejected(c) PROVE EveryOrphanExplained'
  BY <1>3 DEF PrepareRejected
<1>4. CASE PrepareNoConfig
  BY <1>4 DEF PrepareNoConfig, StartRollback
<1>5. ASSUME NEW d \in Devices, CreateSocketDir(d) PROVE EveryOrphanExplained'
  BY <1>5 DEF CreateSocketDir
<1>6. ASSUME NEW d \in Devices, CreateSocketDirFails(d) PROVE EveryOrphanExplained'
  BY <1>6 DEF CreateSocketDirFails, StartRollback
<1>7. CASE CreatePort
  BY <1>7 DEF CreatePort, PortDone
<1>8. CASE CreatePortNoBridge
  BY <1>8 DEF CreatePortNoBridge, PortDone
<1>9. CASE CreatePortFails
  BY <1>9 DEF CreatePortFails
<1>10. CASE UndoSocketDir
  BY <1>10, SMTT(30) DEF UndoSocketDir, StartRollback
<1>11. CASE CreateClaimSpecFile
  BY <1>11 DEF CreateClaimSpecFile
<1>12. CASE CreateClaimSpecFileFails
  BY <1>12 DEF CreateClaimSpecFileFails, StartRollback
<1>13. CASE Commit
  <2>1. \A d \in CachedDevices \cup CallDevices : d \in CachedDevices'
    BY <1>13, SMTT(30) DEF Commit
  <2>2. call'.phase = "next" /\ call'.claim = NoClaim /\ UNCHANGED <<dirs, ports, specs, leaked>>
    BY <1>13 DEF Commit
  <2>3. dirs' \subseteq OwnedDirs' \cup leaked.dirs'
    BY <1>13, <2>1, <2>2, SMTT(30) DEF Commit
  <2>4. ports' \subseteq OwnedPorts' \cup leaked.ports'
    BY <1>13, <2>1, <2>2, SMTT(30) DEF Commit
  <2>5. specs' \subseteq OwnedSpecs' \cup leaked.specs'
    BY <1>13 DEF Commit
  <2>. QED BY <2>3, <2>4, <2>5, Zenon
<1>14. CASE PrepareReply
  BY <1>14, SMTT(30) DEF PrepareReply
<1>15. ASSUME NEW d \in Devices, DeleteClaimSpecFile(d) PROVE EveryOrphanExplained'
  BY <1>15 DEF DeleteClaimSpecFile
<1>16. CASE DeletePort
  BY <1>16 DEF DeletePort
<1>17. CASE DeletePortFails
  BY <1>17, SMTT(30) DEF DeletePortFails, Lost
<1>18. CASE RemoveSocketDir
  BY <1>18 DEF RemoveSocketDir
<1>19. CASE RemoveSocketDirFails
  BY <1>19, SMTT(30) DEF RemoveSocketDirFails, Lost
<1>20. CASE RollbackEnd
  BY <1>20 DEF RollbackEnd
<1>21. ASSUME NEW c \in Claims, UnprepareUnknown(c) PROVE EveryOrphanExplained'
  BY <1>21 DEF UnprepareUnknown
<1>22. ASSUME NEW c \in Claims, UnprepareBegin(c) PROVE EveryOrphanExplained'
  <2>1. \A d \in CachedDevices : d \in CachedDevices' \/ d \in CallDevices'
    BY <1>22 DEF UnprepareBegin
  <2>2. dirs' \subseteq OwnedDirs' \cup leaked.dirs'
    BY <1>22, <2>1, SMTT(30) DEF UnprepareBegin
  <2>3. ports' \subseteq OwnedPorts' \cup leaked.ports'
    BY <1>22, <2>1 DEF UnprepareBegin
  <2>4. specs' \subseteq OwnedSpecs' \cup leaked.specs'
    BY <1>22 DEF UnprepareBegin
  <2>. QED BY <2>2, <2>3, <2>4, ZenonT(30)
<1>23. CASE UnprepareEnd
  BY <1>23, SMTT(30) DEF UnprepareEnd
<1>24. CASE UnprepareReply
  BY <1>24, SMTT(30) DEF UnprepareReply
<1>27. ASSUME NEW p \in Pods, CallPrepare(p) PROVE EveryOrphanExplained'
  BY <1>27, SMTT(30) DEF CallPrepare
<1>28. ASSUME NEW p \in Pods, CallUnprepare(p) PROVE EveryOrphanExplained'
  BY <1>28, SMTT(30) DEF CallUnprepare
<1>30. CASE Restart
  BY <1>30 DEF Restart
<1>31. ASSUME NEW b \in Bridges, BridgeDeleted(b) PROVE EveryOrphanExplained'
  BY <1>31, SMTT(30) DEF BridgeDeleted
<1>. QED
  BY <1>1, <1>2, <1>3, <1>4, <1>5, <1>6, <1>7, <1>8, <1>9, <1>10,
     <1>11, <1>12, <1>13, <1>14, <1>15, <1>16, <1>17, <1>18, <1>19, <1>20,
     <1>21, <1>22, <1>23, <1>24, <1>25, <1>26, <1>27, <1>28, <1>29, <1>30,
     <1>31, <1>32, <1>33, <1>34, ZenonT(30)
  DEF Next, DriverStep, PrepareStep, CleanupStep, UnprepareStep, KubeletStep,
      EnvironmentStep

\* For every instance and every mix of faults: what the driver leaves on the
\* host is in the pod manager, part of the running call, or lost through one
\* of the four recorded causes.
THEOREM OrphansExplained == Spec => []EveryOrphanExplained
<1>1. Init => EveryOrphanExplained
  BY DEF Init, EveryOrphanExplained
<1>2. TypeOK /\ CallShape /\ EveryOrphanExplained /\ [Next]_vars
         => EveryOrphanExplained'
  <2>1. CASE UNCHANGED vars
    BY <2>1 DEF vars, EveryOrphanExplained, OwnedDirs, OwnedPorts, OwnedSpecs,
                CachedDevices, CallDevices, Busy, Cleaning
  <2>. QED
    BY <2>1, OrphanStep
<1>. QED
  BY <1>1, <1>2, TypeCorrect, PTL DEF Spec

-----------------------------------------------------------------------------
(* What the driver promises about claims that are prepared: their host      *)
(* state is there, and other claims do not take it away.                    *)

\* How far a call got: every claim it is done with has been dealt with, and
\* what prepare created for the current claim is on the host.  An unprepare
\* call only runs for a pod that terminates.
CallProgress ==
    /\ call.op # "none" =>
          /\ call.pod \in Pods
          /\ kubelet[call.pod] \notin {"absent", "gone"}
          /\ call.todo \subseteq ClaimsOf(call.pod)
    /\ call.op = "unprepare" => kubelet[call.pod] = "terminating"
    /\ Active => call.claim \in call.todo
    /\ Forward => \A d \in call.devs : getSocketDir(d) \in dirs
    /\ call.phase = "port" => getSocketDir(call.dev) \in dirs
    /\ call.phase = "commit" => call.claim \in specs
    /\ call.op = "unprepare" /\ ~call.failed =>
          \A c \in ClaimsOf(call.pod) \ call.todo : cache[c] = {}

\* The pod manager knows no claim of a pod that is not there.
AwayUncached ==
    \A c \in Claims :
        kubelet[ReservedFor[c]] \in {"absent", "gone"} => cache[c] = {}

\* What the rest of the environment leaves alone.
LEMMA EnvironmentFrame ==
    ASSUME \/ UpdateConfig \/ Stabilise \/ Finished
           \/ \E b \in Bridges : BridgeDeleted(b) \/ BridgeAdded(b)
    PROVE  UNCHANGED <<kubelet, call, cache, dirs, specs>>
BY DEF UpdateConfig, Stabilise, Finished, BridgeDeleted, BridgeAdded, host, vars

\* The bookkeeping of the running call agrees with what it did on the host.
LEMMA ProgressStep ==
    ASSUME TypeOK, CallShape, TypeOK', CallShape', CallProgress, Next
    PROVE  CallProgress'
<1>29. CASE \/ UpdateConfig \/ Stabilise \/ Finished
            \/ \E b \in Bridges : BridgeDeleted(b) \/ BridgeAdded(b)
  <2>1. UNCHANGED <<kubelet, call, cache, dirs, specs>>
    BY <1>29, EnvironmentFrame
  <2>. QED BY <2>1 DEF CallProgress, Active, Forward, Cleaning
<1> USE ConstantsAssumption
    DEF TypeOK, CallShape, Calls, Idle, Forward, Cleaning, Active, host, env,
        CallProgress, Results, ClaimsOf
<1>1. ASSUME NEW c \in Claims, PrepareCached(c) PROVE CallProgress'
  BY <1>1 DEF PrepareCached
<1>2. ASSUME NEW c \in Claims, PrepareBegin(c) PROVE CallProgress'
  <2> HIDE DEF ClaimsOf, Results
  <2>1. /\ call'.op = "prepare" /\ call'.phase = "device"
        /\ call'.pod = call.pod /\ call'.todo = call.todo
        /\ call'.claim = c /\ call'.devs = {}
    BY <1>2, SMTT(30) DEF PrepareBegin
  <2>. QED BY <1>2, <2>1 DEF PrepareBegin
<1>3. ASSUME NEW c \in Claims, PrepareRejected(c) PROVE CallProgress'
  BY <1>3, Zenon DEF PrepareRejected
<1>4. CASE PrepareNoConfig
  BY <1>4 DEF PrepareNoConfig, StartRollback
<1>5. ASSUME NEW d \in Devices, CreateSocketDir(d) PROVE CallProgress'
  BY <1>5 DEF CreateSocketDir
<1>6. ASSUME NEW d \in Devices, CreateSocketDirFails(d) PROVE CallProgress'
  BY <1>6 DEF CreateSocketDirFails, StartRollback
<1>7. CASE CreatePort
  BY <1>7 DEF CreatePort, PortDone
<1>8. CASE CreatePortNoBridge
  BY <1>8 DEF CreatePortNoBridge, PortDone
<1>9. CASE CreatePortFails
  BY <1>9 DEF CreatePortFails
<1>10. CASE UndoSocketDir
  BY <1>10 DEF UndoSocketDir, StartRollback
<1>11. CASE CreateClaimSpecFile
  BY <1>11 DEF CreateClaimSpecFile
<1>12. CASE CreateClaimSpecFileFails
  BY <1>12 DEF CreateClaimSpecFileFails, StartRollback
<1>13. CASE Commit
  BY <1>13, SMTT(30) DEF Commit
<1>14. CASE PrepareReply
  BY <1>14, Zenon DEF PrepareReply
<1>15. ASSUME NEW d \in Devices, DeleteClaimSpecFile(d) PROVE CallProgress'
  BY <1>15 DEF DeleteClaimSpecFile
<1>16. CASE DeletePort
  BY <1>16 DEF DeletePort
<1>17. CASE DeletePortFails
  BY <1>17 DEF DeletePortFails, Lost
<1>18. CASE RemoveSocketDir
  BY <1>18 DEF RemoveSocketDir
<1>19. CASE RemoveSocketDirFails
  BY <1>19, SMTT(30) DEF RemoveSocketDirFails, Lost
<1>20. CASE RollbackEnd
  BY <1>20, ZenonT(30) DEF RollbackEnd
<1>21. ASSUME NEW c \in Claims, UnprepareUnknown(c) PROVE CallProgress'
  BY <1>21 DEF UnprepareUnknown
<1>22. ASSUME NEW c \in Claims, UnprepareBegin(c) PROVE CallProgress'
  BY <1>22, SMTT(30) DEF UnprepareBegin
<1>23. CASE UnprepareEnd
  BY <1>23, SMTT(30) DEF UnprepareEnd
<1>24. CASE UnprepareReply
  BY <1>24, ZenonT(30) DEF UnprepareReply
<1>25. ASSUME NEW p \in Pods, PodAdded(p) PROVE CallProgress'
  BY <1>25, SMTT(30) DEF PodAdded
<1>26. ASSUME NEW p \in Pods, PodDeleted(p) PROVE CallProgress'
  BY <1>26 DEF PodDeleted
<1>27. ASSUME NEW p \in Pods, CallPrepare(p) PROVE CallProgress'
  <2> HIDE DEF ClaimsOf, Results
  <2>1. /\ call'.op = "prepare" /\ call'.phase = "next"
        /\ call'.pod = p /\ call'.todo = ClaimsOf(p)
    BY <1>27 DEF CallPrepare
  <2>. QED BY <1>27, <2>1 DEF CallPrepare
<1>28. ASSUME NEW p \in Pods, CallUnprepare(p) PROVE CallProgress'
  <2> HIDE DEF ClaimsOf, Results
  <2>1. /\ call'.op = "unprepare" /\ call'.phase = "next"
        /\ call'.pod = p /\ call'.todo = ClaimsOf(p)
    BY <1>28, SMTT(30) DEF CallUnprepare
  <2>. QED BY <1>28, <2>1 DEF CallUnprepare
<1>30. CASE Restart
  BY <1>30, Zenon DEF Restart
<1>. QED
  BY <1>1, <1>2, <1>3, <1>4, <1>5, <1>6, <1>7, <1>8, <1>9, <1>10,
     <1>11, <1>12, <1>13, <1>14, <1>15, <1>16, <1>17, <1>18, <1>19, <1>20,
     <1>21, <1>22, <1>23, <1>24, <1>25, <1>26, <1>27, <1>28, <1>29, <1>30, ZenonT(30)
  DEF Next, DriverStep, PrepareStep, CleanupStep, UnprepareStep, KubeletStep,
      EnvironmentStep

\* No step takes a directory or the spec file from a claim in the pod manager,
\* and the commit of a claim puts it there only after both exist.
LEMMA BackedStep ==
    ASSUME DistinctDirs, TypeOK, CallShape, CallProgress, AwayUncached,
           CachedIsBacked, Next
    PROVE  CachedIsBacked'
<1>24. CASE UnprepareReply
  <2>1. UNCHANGED <<cache, dirs, specs>>
    BY <1>24 DEF UnprepareReply, host
  <2>2. \A p \in Pods : kubelet'[p] \in {kubelet[p], "gone"}
    BY <1>24 DEF UnprepareReply, TypeOK
  <2>. QED BY <2>1, <2>2, ConstantsAssumption, Zenon DEF CachedIsBacked
<1>29. CASE \/ UpdateConfig \/ Stabilise \/ Finished
            \/ \E b \in Bridges : BridgeDeleted(b) \/ BridgeAdded(b)
  <2>1. UNCHANGED <<kubelet, call, cache, dirs, specs>>
    BY <1>29, EnvironmentFrame
  <2>. QED BY <2>1 DEF CachedIsBacked
<1> USE ConstantsAssumption
    DEF TypeOK, CallShape, Calls, Idle, Forward, Cleaning, Active, host, env,
        CallProgress, Results, ClaimsOf, DistinctDirs, AwayUncached,
        CachedIsBacked
<1>1. ASSUME NEW c \in Claims, PrepareCached(c) PROVE CachedIsBacked'
  BY <1>1 DEF PrepareCached
<1>2. ASSUME NEW c \in Claims, PrepareBegin(c) PROVE CachedIsBacked'
  BY <1>2, SMTT(30) DEF PrepareBegin
<1>3. ASSUME NEW c \in Claims, PrepareRejected(c) PROVE CachedIsBacked'
  BY <1>3 DEF PrepareRejected
<1>4. CASE PrepareNoConfig
  BY <1>4 DEF PrepareNoConfig, StartRollback
<1>5. ASSUME NEW d \in Devices, CreateSocketDir(d) PROVE CachedIsBacked'
  BY <1>5 DEF CreateSocketDir
<1>6. ASSUME NEW d \in Devices, CreateSocketDirFails(d) PROVE CachedIsBacked'
  BY <1>6 DEF CreateSocketDirFails, StartRollback
<1>7. CASE CreatePort
  BY <1>7 DEF CreatePort, PortDone
<1>8. CASE CreatePortNoBridge
  BY <1>8 DEF CreatePortNoBridge, PortDone
<1>9. CASE CreatePortFails
  BY <1>9 DEF CreatePortFails
<1>10. CASE UndoSocketDir
  BY <1>10 DEF UndoSocketDir, StartRollback
<1>11. CASE CreateClaimSpecFile
  BY <1>11 DEF CreateClaimSpecFile
<1>12. CASE CreateClaimSpecFileFails
  BY <1>12 DEF CreateClaimSpecFileFails, StartRollback
<1>13. CASE Commit
  BY <1>13, SMTT(30) DEF Commit
<1>14. CASE PrepareReply
  BY <1>14 DEF PrepareReply
<1>15. ASSUME NEW d \in Devices, DeleteClaimSpecFile(d) PROVE CachedIsBacked'
  BY <1>15 DEF DeleteClaimSpecFile
<1>16. CASE DeletePort
  BY <1>16 DEF DeletePort
<1>17. CASE DeletePortFails
  BY <1>17 DEF DeletePortFails, Lost
<1>18. CASE RemoveSocketDir
  BY <1>18 DEF RemoveSocketDir
<1>19. CASE RemoveSocketDirFails
  BY <1>19, SMTT(30) DEF RemoveSocketDirFails, Lost
<1>20. CASE RollbackEnd
  BY <1>20 DEF RollbackEnd
<1>21. ASSUME NEW c \in Claims, UnprepareUnknown(c) PROVE CachedIsBacked'
  BY <1>21 DEF UnprepareUnknown
<1>22. ASSUME NEW c \in Claims, UnprepareBegin(c) PROVE CachedIsBacked'
  BY <1>22 DEF UnprepareBegin
<1>23. CASE UnprepareEnd
  BY <1>23, SMTT(30) DEF UnprepareEnd
<1>25. ASSUME NEW p \in Pods, PodAdded(p) PROVE CachedIsBacked'
  BY <1>25, SMTT(30) DEF PodAdded
<1>26. ASSUME NEW p \in Pods, PodDeleted(p) PROVE CachedIsBacked'
  BY <1>26 DEF PodDeleted
<1>27. ASSUME NEW p \in Pods, CallPrepare(p) PROVE CachedIsBacked'
  BY <1>27 DEF CallPrepare
<1>28. ASSUME NEW p \in Pods, CallUnprepare(p) PROVE CachedIsBacked'
  BY <1>28, SMTT(30) DEF CallUnprepare
<1>30. CASE Restart
  BY <1>30 DEF Restart
<1>. QED
  BY <1>1, <1>2, <1>3, <1>4, <1>5, <1>6, <1>7, <1>8, <1>9, <1>10,
     <1>11, <1>12, <1>13, <1>14, <1>15, <1>16, <1>17, <1>18, <1>19, <1>20,
     <1>21, <1>22, <1>23, <1>24, <1>25, <1>26, <1>27, <1>28, <1>29, <1>30, ZenonT(30)
  DEF Next, DriverStep, PrepareStep, CleanupStep, UnprepareStep, KubeletStep,
      EnvironmentStep

\* The steps that change the pod manager or what the kubelet knows of a pod.
LEMMA StandingFrame ==
    ASSUME Next
    PROVE  \/ UNCHANGED <<kubelet, cache>>
           \/ Commit \/ PrepareReply \/ UnprepareEnd \/ UnprepareReply \/ Restart
           \/ \E c \in Claims : UnprepareBegin(c)
           \/ \E p \in Pods : PodAdded(p) \/ PodDeleted(p)
BY ZenonT(30) DEF Next, DriverStep, PrepareStep, CleanupStep, UnprepareStep, KubeletStep, EnvironmentStep,
       PrepareCached, PrepareBegin, PrepareRejected, PrepareNoConfig, CreateSocketDir,
       CreateSocketDirFails, CreatePort, CreatePortNoBridge, CreatePortFails, UndoSocketDir,
       CreateClaimSpecFile, CreateClaimSpecFileFails, DeleteClaimSpecFile, DeletePort,
       DeletePortFails, RemoveSocketDir, RemoveSocketDirFails, RollbackEnd, UnprepareUnknown,
       CallPrepare, CallUnprepare, UpdateConfig, BridgeDeleted, BridgeAdded, Stabilise,
       Finished, vars

\* Unprepare reports success only with the pod's claims out of the pod manager.
LEMMA AwayStep ==
    ASSUME TypeOK, CallShape, CallProgress, AwayUncached, Next
    PROVE  AwayUncached'
<1> USE ConstantsAssumption
    DEF TypeOK, CallShape, Calls, Idle, Forward, Cleaning, Active, host, env,
        CallProgress, Results, ClaimsOf, AwayUncached
<1>1. CASE UNCHANGED <<kubelet, cache>>
  BY <1>1
<1>2. CASE Commit
  BY <1>2 DEF Commit
<1>3. CASE PrepareReply
  BY <1>3 DEF PrepareReply
<1>4. ASSUME NEW c \in Claims, UnprepareBegin(c) PROVE AwayUncached'
  BY <1>4 DEF UnprepareBegin
<1>5. CASE UnprepareEnd
  BY <1>5 DEF UnprepareEnd
<1>6. CASE UnprepareReply
  BY <1>6 DEF UnprepareReply
<1>7. ASSUME NEW p \in Pods, PodAdded(p) PROVE AwayUncached'
  BY <1>7 DEF PodAdded
<1>8. ASSUME NEW p \in Pods, PodDeleted(p) PROVE AwayUncached'
  BY <1>8 DEF PodDeleted
<1>9. CASE Restart
  BY <1>9 DEF Restart
<1>. QED BY <1>1, <1>2, <1>3, <1>4, <1>5, <1>6, <1>7, <1>8, <1>9, StandingFrame

\* What a call is doing agrees with the host, the kubelet and the pod manager.
ProgressInv == TypeOK /\ CallShape /\ CallProgress /\ AwayUncached

\* The inductive invariant behind the theorems of this module.
LEMMA ProgressInvariant == Spec => []ProgressInv
<1>1. Init => ProgressInv
  <2>1. Init => CallProgress /\ AwayUncached
    BY ConstantsAssumption
       DEF Init, CallProgress, AwayUncached, Idle, Active, Forward, Cleaning
  <2>. QED BY <2>1, InitShape DEF ProgressInv
<1>2. ProgressInv /\ [Next]_vars => ProgressInv'
  <2>1. CASE Next
    BY <2>1, ShapeStep, ProgressStep, AwayStep DEF ProgressInv
  <2>2. CASE UNCHANGED vars
    <3>1. TypeOK /\ CallShape => (TypeOK /\ CallShape)'
      BY <2>2 DEF vars, TypeOK, CallShape, Active, Forward, Cleaning
    <3>2. CallProgress /\ AwayUncached => (CallProgress /\ AwayUncached)'
      BY <2>2 DEF vars, CallProgress, AwayUncached, Active, Forward, Cleaning
    <3>. QED BY <3>1, <3>2 DEF ProgressInv
  <2>. QED BY <2>1, <2>2
<1>. QED
  BY <1>1, <1>2, PTL DEF Spec

BackingInv == ProgressInv /\ CachedIsBacked

\* With distinct directories, what is in the pod manager is on the host.
LEMMA BackingInvariant == ASSUME DistinctDirs PROVE Spec => []BackingInv
<1>1. Init => CachedIsBacked
  BY DEF Init, CachedIsBacked
<1>2. ProgressInv /\ CachedIsBacked /\ [Next]_vars => CachedIsBacked'
  <2>1. CASE UNCHANGED vars
    BY <2>1 DEF vars, CachedIsBacked
  <2>. QED BY <2>1, BackedStep DEF ProgressInv
<1>. QED
  BY <1>1, <1>2, ProgressInvariant, PTL DEF Spec, BackingInv

\* A claim answered from the pod manager is really prepared on the host, for
\* every instance whose directories are distinct and under every fault.
THEOREM CachedBacked == ASSUME DistinctDirs PROVE Spec => []CachedIsBacked
<1>1. BackingInv => CachedIsBacked
  BY DEF BackingInv
<1>. QED BY <1>1, BackingInvariant, PTL

\* The driver answers for nothing of a claim whose pod is gone: it is not in the
\* pod manager, and no call works on it.
LEMMA GoneUnowned ==
    ASSUME TypeOK, CallShape, CallProgress, AwayUncached,
           NEW c \in Claims, kubelet[ReservedFor[c]] = "gone"
    PROVE  /\ cache[c] = {}
           /\ c \notin OwnedSpecs
           /\ DistinctDirs => \A d \in Results(c) : getSocketDir(d) \notin OwnedDirs
           /\ DistinctPorts => \A d \in Results(c) : Port(d) \notin OwnedPorts
<1> USE ConstantsAssumption DEF TypeOK, Calls
<1>1. cache[c] = {}
  BY DEF AwayUncached
<1>2. Active => call.claim # c
  BY DEF CallProgress, CallShape, Active, Forward, Cleaning, ClaimsOf
<1>3. \A d \in Results(c) :
         /\ d \notin CachedDevices
         /\ d \notin CallDevices
         /\ d \notin Busy({"port", "undo", "delport", "rmdir"})
         /\ d \notin Busy({"delport"})
  BY <1>1, <1>2 DEF CallShape, Results, CachedDevices, CallDevices, Busy,
                    Active, Forward, Cleaning
<1>4. /\ CachedDevices \subseteq Devices
      /\ CallDevices \subseteq Devices
      /\ Busy({"port", "undo", "delport", "rmdir"}) \subseteq Devices
      /\ Busy({"delport"}) \subseteq Devices
  BY DEF CallShape, Results, CachedDevices, CallDevices, Busy, Active,
         Forward, Cleaning
<1>5. ASSUME DistinctDirs, NEW d \in Results(c) PROVE getSocketDir(d) \notin OwnedDirs
  BY <1>3, <1>4, <1>5 DEF DistinctDirs, Results, OwnedDirs
<1>6. ASSUME DistinctPorts, NEW d \in Results(c) PROVE Port(d) \notin OwnedPorts
  <2>1. \A e \in Devices : Port(d) = Port(e) => d = e
    BY <1>6 DEF DistinctPorts, Results, Port
  <2>. QED BY <1>3, <1>4, <2>1 DEF OwnedPorts
<1>7. c \notin OwnedSpecs
  BY <1>1, <1>2 DEF OwnedSpecs, CallShape, Active, Forward, Cleaning
<1>. QED BY <1>1, <1>5, <1>6, <1>7

\* Once unprepare was answered with success nothing of the pod is left on the
\* host but recorded losses.
THEOREM GoneClean == ASSUME DistinctDirs, DistinctPorts PROVE Spec => []GoneIsClean
<1>1. ProgressInv /\ EveryOrphanExplained => GoneIsClean
  BY GoneUnowned DEF ProgressInv, EveryOrphanExplained, GoneIsClean
<1>. QED BY <1>1, ProgressInvariant, OrphansExplained, PTL

\* Without a restart and a failing file operation there are no such losses of
\* directories and spec files: whatever else goes wrong, after the deletion of
\* the pod they are removed.  An OVSDB failure is no exception.
THEOREM DeletionRemovesAll ==
    ASSUME DistinctDirs, "crash" \notin Faults, "io" \notin Faults
    PROVE  Spec => []PodDeletionRemovesAll
<1> DEFINE Unleaked == leaked.dirs = {} /\ leaked.specs = {}
<1>1. Init => Unleaked
  BY DEF Init
<1>2. TypeOK /\ Unleaked /\ [Next]_vars => Unleaked'
  <2> SUFFICES ASSUME TypeOK, Unleaked, [Next]_vars PROVE Unleaked'
    OBVIOUS
  <2>1. \/ leaked' = leaked
        \/ \E x : leaked' = [leaked EXCEPT !.dirs = @ \ x]
        \/ \E x : leaked' = [leaked EXCEPT !.specs = @ \ x]
        \/ \E x : leaked' = [leaked EXCEPT !.ports = x]
    BY Zenon DEF Next, DriverStep, PrepareStep, CleanupStep, UnprepareStep, KubeletStep,
           EnvironmentStep, Finished, vars, host, Fault, PrepareCached, PrepareBegin,
           PrepareRejected, PrepareNoConfig, CreateSocketDir, CreateSocketDirFails,
           CreatePort, CreatePortNoBridge, CreatePortFails, UndoSocketDir,
           CreateClaimSpecFile, CreateClaimSpecFileFails, Commit, PrepareReply,
           DeleteClaimSpecFile, DeletePort, DeletePortFails, RemoveSocketDir,
           RemoveSocketDirFails, RollbackEnd, UnprepareUnknown, UnprepareBegin,
           UnprepareEnd, UnprepareReply, PodAdded, PodDeleted, CallPrepare,
           CallUnprepare, UpdateConfig, Restart, BridgeDeleted, BridgeAdded, Stabilise
  <2>. QED BY <2>1 DEF TypeOK
<1>3. ProgressInv /\ EveryOrphanExplained /\ Unleaked => PodDeletionRemovesAll
  BY GoneUnowned DEF ProgressInv, EveryOrphanExplained, PodDeletionRemovesAll
<1>4. ProgressInv => TypeOK
  BY DEF ProgressInv
<1> HIDE DEF Unleaked
<1>. QED BY <1>1, <1>2, <1>3, <1>4, ProgressInvariant, OrphansExplained, PTL DEF Spec

-----------------------------------------------------------------------------
(* Ports *)

\* A port is taken away only by the cleanup of its device and with its bridge.
LEMMA PortFrame ==
    ASSUME Next
    PROVE  \/ ports \subseteq ports' /\ unplugged' = unplugged
           \/ /\ call.phase = "delport" /\ ports' = ports \ {Port(call.dev)}
              /\ unplugged' = unplugged
           \/ \E b \in Bridges : BridgeDeleted(b)
BY Zenon DEF Next, DriverStep, PrepareStep, CleanupStep, UnprepareStep, KubeletStep,
       EnvironmentStep, Finished, vars, host, env, PrepareCached, PrepareBegin,
       PrepareRejected, PrepareNoConfig, CreateSocketDir, CreateSocketDirFails,
       CreatePort, CreatePortNoBridge, CreatePortFails, UndoSocketDir,
       CreateClaimSpecFile, CreateClaimSpecFileFails, Commit, PrepareReply,
       DeleteClaimSpecFile, DeletePort, DeletePortFails, RemoveSocketDir,
       RemoveSocketDirFails, RollbackEnd, UnprepareUnknown, UnprepareBegin,
       UnprepareEnd, UnprepareReply, PodAdded, PodDeleted, CallPrepare,
       CallUnprepare, UpdateConfig, Restart, BridgeAdded, Stabilise

\* The device whose port is being removed is not in the pod manager, and its port
\* is not that of another device.
LEMMA RemovedPort ==
    ASSUME DistinctPorts, TypeOK, CallShape, call.phase = "delport"
    PROVE  /\ \A c \in Claims : call.dev \notin cache[c]
           /\ \A d \in Devices : d # call.dev => Port(d) # Port(call.dev)
<1>1. /\ call.claim \in Claims /\ cache[call.claim] = {}
      /\ call.dev \in Results(call.claim)
  BY DEF CallShape, Active, Cleaning
<1>2. \A c \in Claims : cache[c] \subseteq Results(c)
  BY DEF CallShape
<1>. QED BY <1>1, <1>2 DEF Results, DistinctPorts, Port

\* Work on one claim never removes the port of another prepared claim.
THEOREM OthersPorts == ASSUME DistinctPorts PROVE Spec => OthersKeepTheirPorts
<1> DEFINE Kept ==
        \A d \in CachedDevices :
            Port(d) \in ports /\ Port(d) \notin ports' => BridgeOf[d] \notin bridges'
<1>1. TypeOK /\ CallShape /\ [Next]_vars => [Kept]_vars
  <2> SUFFICES ASSUME TypeOK, CallShape, Next, NEW d \in CachedDevices,
                      Port(d) \in ports, Port(d) \notin ports'
               PROVE  BridgeOf[d] \notin bridges'
    OBVIOUS
  <2>1. ASSUME call.phase = "delport", ports' = ports \ {Port(call.dev)} PROVE FALSE
    <3>1. d \in Devices /\ d # call.dev
      BY <2>1, RemovedPort, ConstantsAssumption DEF CachedDevices
    <3>. QED BY <2>1, <3>1, RemovedPort
  <2>2. ASSUME NEW b \in Bridges, BridgeDeleted(b) PROVE BridgeOf[d] \notin bridges'
    BY <2>2 DEF BridgeDeleted, Port
  <2>. QED BY <2>1, <2>2, PortFrame
<1>. QED
  BY <1>1, TypeCorrect, PTL DEF Spec, OthersKeepTheirPorts

Plugged(d) == Port(d) \in ports \/ BridgeOf[d] \in unplugged

\* What prepare is done with is plugged in, and so is what it answered.
PlugInv ==
    /\ Bridges \ bridges \subseteq unplugged
    /\ Forward => \A d \in call.devs : Plugged(d)
    /\ CachedIsPlugged

\* A device stays plugged in until it is cleaned up.
LEMMA PlugKept ==
    ASSUME DistinctPorts, TypeOK, CallShape, Next, NEW d \in Devices, Plugged(d),
           call.phase = "delport" => d # call.dev
    PROVE  Plugged(d)'
<1>1. ASSUME NEW b \in Bridges, BridgeDeleted(b) PROVE Plugged(d)'
  BY <1>1 DEF BridgeDeleted, Port, Plugged
<1>2. ASSUME call.phase = "delport", ports' = ports \ {Port(call.dev)}, unplugged' = unplugged
      PROVE  Plugged(d)'
  BY <1>2, RemovedPort, SMTT(30) DEF Plugged
<1>. QED BY <1>1, <1>2, PortFrame DEF Plugged

\* The devices a call is done with.
LEMMA DoneFrame ==
    ASSUME TypeOK, CallShape, Next, Forward'
    PROVE  \/ call'.devs = {}
           \/ Forward /\ call'.devs = call.devs
           \/ CreatePort \/ CreatePortNoBridge
<1> USE DEF TypeOK, Calls, Forward
<1>1. ASSUME NEW c \in Claims,
             PrepareCached(c) \/ PrepareBegin(c) \/ UnprepareUnknown(c) \/ UnprepareBegin(c)
      PROVE  call'.devs = {}
  BY <1>1, ZenonT(30) DEF PrepareCached, PrepareBegin, UnprepareUnknown, UnprepareBegin
<1>2. ASSUME NEW d \in Devices, CreateSocketDir(d) PROVE Forward /\ call'.devs = call.devs
  BY <1>2 DEF CreateSocketDir
<1>3. ~StartRollback
  BY ZenonT(30) DEF StartRollback
<1>4. CASE CreatePortFails
  BY <1>4 DEF CreatePortFails
<1>5. CASE CreateClaimSpecFile
  BY <1>5 DEF CreateClaimSpecFile
<1>6. call' = Idle => call'.devs = {}
  BY DEF Idle
<1>7. ~Commit /\ ~UnprepareEnd
  <2>1. Commit \/ UnprepareEnd => call'.phase = "next"
    BY ZenonT(30) DEF Commit, UnprepareEnd
  <2>. QED BY <2>1
<1>8. ASSUME NEW d \in Devices PROVE ~DeleteClaimSpecFile(d)
  BY ZenonT(30) DEF DeleteClaimSpecFile
<1>9. ~DeletePort /\ ~DeletePortFails /\ ~RemoveSocketDir /\ ~RemoveSocketDirFails
  <2>1. DeletePort \/ DeletePortFails => call'.phase = "rmdir"
    BY Zenon DEF DeletePort, DeletePortFails
  <2>2. RemoveSocketDir \/ RemoveSocketDirFails => call'.phase = "clean"
    BY ZenonT(30) DEF RemoveSocketDir, RemoveSocketDirFails
  <2>. QED BY <2>1, <2>2
<1>10. ASSUME NEW p \in Pods, CallPrepare(p) \/ CallUnprepare(p) PROVE call'.devs = {}
  BY <1>10, Zenon DEF CallPrepare, CallUnprepare, Idle
<1>11. call' = call => Forward /\ call'.devs = call.devs
  OBVIOUS
<1>. QED
  BY <1>1, <1>2, <1>3, <1>4, <1>5, <1>6, <1>7, <1>8, <1>9, <1>10, <1>11, SMTT(30)
     DEF Next, DriverStep, PrepareStep, CleanupStep, UnprepareStep, KubeletStep,
         EnvironmentStep, Finished, vars, PrepareRejected, PrepareNoConfig,
         CreateSocketDirFails, UndoSocketDir, CreateClaimSpecFileFails, PrepareReply,
         RollbackEnd, UnprepareReply, PodAdded, PodDeleted, UpdateConfig, Restart,
         BridgeDeleted, BridgeAdded, Stabilise

LEMMA PlugStep ==
    ASSUME DistinctPorts, TypeOK, CallShape, CallProgress, AwayUncached, PlugInv, Next
    PROVE  PlugInv'
<1> USE ConstantsAssumption
<1>1. Bridges \ bridges' \subseteq unplugged'
  <2>1. \/ UNCHANGED <<bridges, unplugged>>
        \/ \E b \in Bridges : BridgeDeleted(b) \/ BridgeAdded(b)
    BY Zenon DEF Next, DriverStep, PrepareStep, CleanupStep, UnprepareStep, KubeletStep,
           EnvironmentStep, Finished, vars, env, PrepareCached, PrepareBegin,
           PrepareRejected, PrepareNoConfig, CreateSocketDir, CreateSocketDirFails,
           CreatePort, CreatePortNoBridge, CreatePortFails, UndoSocketDir,
           CreateClaimSpecFile, CreateClaimSpecFileFails, Commit, PrepareReply,
           DeleteClaimSpecFile, DeletePort, DeletePortFails, RemoveSocketDir,
           RemoveSocketDirFails, RollbackEnd, UnprepareUnknown, UnprepareBegin,
           UnprepareEnd, UnprepareReply, PodAdded, PodDeleted, CallPrepare,
           CallUnprepare, UpdateConfig, Restart, Stabilise
  <2>. QED BY <2>1 DEF PlugInv, BridgeDeleted, BridgeAdded
<1>2. ASSUME Forward', NEW d \in call'.devs PROVE Plugged(d)'
  <2>1. ASSUME Forward, d \in call.devs PROVE Plugged(d)'
    <3>1. d \in Devices /\ Plugged(d) /\ call.phase # "delport"
      BY <2>1 DEF PlugInv, Forward, TypeOK, Calls
    <3>. QED BY <3>1, PlugKept
  <2>2. ASSUME CreatePort \/ CreatePortNoBridge
        PROVE  /\ Forward /\ call'.devs = call.devs \cup {call.dev}
               /\ Port(call.dev) \in ports' \/ BridgeOf[call.dev] \in unplugged'
    <3>1. Forward /\ BridgeOf[call.dev] \in Bridges
      BY <2>2 DEF CreatePort, CreatePortNoBridge, Forward, Active, CallShape, Results
    <3>2. call'.devs = call.devs \cup {call.dev}
      BY <2>2, ZenonT(30) DEF CreatePort, CreatePortNoBridge, PortDone, TypeOK, Calls
    <3>3. CASE CreatePort
      BY <3>1, <3>2, <3>3 DEF CreatePort
    <3>4. CASE CreatePortNoBridge
      BY <3>1, <3>2, <3>4 DEF CreatePortNoBridge, PlugInv, env
    <3>. QED BY <2>2, <3>3, <3>4, SMTT(30)
  <2>. QED BY <1>2, <2>1, <2>2, DoneFrame DEF Plugged
<1>3. ASSUME NEW c \in Claims, kubelet[ReservedFor[c]] \in {"starting", "running"},
             NEW d \in cache[c]
      PROVE  Plugged(d)'
  <2>1. d \in Devices /\ Plugged(d)
    BY <1>3 DEF PlugInv, CachedIsPlugged, Plugged, TypeOK
  <2>2. call.phase = "delport" => d # call.dev
    BY RemovedPort
  <2>. QED BY <2>1, <2>2, PlugKept
<1>4. CachedIsPlugged'
  <2> SUFFICES ASSUME NEW c \in Claims,
                      (kubelet[ReservedFor[c]])' \in {"starting", "running"},
                      NEW d \in cache'[c]
               PROVE  Plugged(d)'
    BY DEF CachedIsPlugged, Plugged
  <2> DEFINE Stays == /\ kubelet[ReservedFor[c]] \in {"starting", "running"}
                      /\ d \in cache[c]
  <2> USE DEF TypeOK
  <2>1. CASE UNCHANGED <<kubelet, cache>>
    BY <1>3, <2>1
  <2>2. CASE Commit
    <3>1. c # call.claim => Stays
      BY <2>2 DEF Commit
    <3>2. Forward /\ call.claim \in Claims
      BY <2>2 DEF Commit, Forward, Active, CallShape
    <3>3. c = call.claim => d \in call.devs
      BY <2>2, <3>2 DEF Commit
    <3>4. UNCHANGED <<ports, unplugged>>
      BY <2>2 DEF Commit, host, env
    <3>. QED BY <1>3, <3>1, <3>2, <3>3, <3>4 DEF PlugInv, Plugged
  <2>3. CASE PrepareReply
    <3>1. Stays
      BY <2>3, SMTT(30) DEF PrepareReply
    <3>. QED BY <1>3, <3>1
  <2>4. ASSUME NEW x \in Claims, UnprepareBegin(x) PROVE Plugged(d)'
    <3>1. Stays
      BY <2>4 DEF UnprepareBegin
    <3>. QED BY <1>3, <3>1
  <2>5. CASE UnprepareEnd
    <3>1. /\ call.claim \in Claims /\ kubelet[ReservedFor[call.claim]] = "terminating"
          /\ UNCHANGED kubelet
      BY <2>5 DEF UnprepareEnd, CallShape, CallProgress, Active, Cleaning, ClaimsOf
    <3>2. Stays
      BY <2>5, <3>1 DEF UnprepareEnd
    <3>. QED BY <1>3, <3>2
  <2>6. CASE UnprepareReply
    <3>1. Stays
      BY <2>6, SMTT(30) DEF UnprepareReply
    <3>. QED BY <1>3, <3>1
  <2>7. ASSUME NEW p \in Pods, PodAdded(p) \/ PodDeleted(p) PROVE Plugged(d)'
    <3>1. Stays
      BY <2>7 DEF PodAdded, PodDeleted, AwayUncached
    <3>. QED BY <1>3, <3>1
  <2>8. CASE Restart
    BY <2>8 DEF Restart
  <2>. QED BY <2>1, <2>2, <2>3, <2>4, <2>5, <2>6, <2>7, <2>8, StandingFrame, SMTT(30)
<1>. QED BY <1>1, <1>2, <1>4 DEF PlugInv

LEMMA PlugInvariant == ASSUME DistinctPorts PROVE Spec => []PlugInv
<1>1. Init => PlugInv
  BY DEF Init, PlugInv, CachedIsPlugged, Forward, Idle
<1>2. ProgressInv /\ PlugInv /\ [Next]_vars => PlugInv'
  <2>1. CASE UNCHANGED vars
    BY <2>1, SMTT(30) DEF vars, PlugInv, CachedIsPlugged, Forward, Plugged
  <2>. QED BY <2>1, PlugStep, SMTT(30) DEF ProgressInv
<1>. QED BY <1>1, <1>2, ProgressInvariant, PTL DEF Spec

\* A prepared claim has its ports, whatever failed while it was prepared, as long
\* as their bridges are never deleted.
THEOREM CachedPlugged == ASSUME DistinctPorts PROVE Spec => []CachedIsPlugged
<1>1. PlugInv => CachedIsPlugged
  BY DEF PlugInv
<1>. QED BY <1>1, PlugInvariant, PTL

-----------------------------------------------------------------------------
(* A driver that is never restarted *)

\* An entry of the pod manager holds all devices of its claim.
EntriesComplete ==
    /\ \A c \in Claims : cache[c] \in {{}, Results(c)}
    /\ Forward => Results(call.claim) =
                     call.left \cup call.devs \cup Busy({"port", "undo"})
    /\ Cleaning /\ call.op = "unprepare" => call.devs = Results(call.claim)
    /\ call.op = "prepare" =>
          \A c \in ClaimsOf(call.pod) \ call.todo : cache[c] # {}

\* The pod manager knows the claims of a running pod.
RunningCached ==
    \A c \in Claims : kubelet[ReservedFor[c]] = "running" => cache[c] # {}

LEMMA InitComplete == Init => EntriesComplete
<1> SUFFICES ASSUME Init PROVE EntriesComplete
  OBVIOUS
<1>1. call.op = "none" /\ call.phase = "idle"
  BY DEF Init, Idle
<1>2. \A c \in Claims : cache[c] = {}
  BY DEF Init
<1>. QED BY <1>1, <1>2 DEF EntriesComplete, Forward, Cleaning

\* Commit stores, and a failed unprepare reinserts, a claim's devices in full.
LEMMA EntriesStep ==
    ASSUME TypeOK, CallShape, CallProgress, EntriesComplete, Next
    PROVE  EntriesComplete'
<1>25. ASSUME NEW p \in Pods, PodAdded(p) \/ PodDeleted(p) PROVE EntriesComplete'
  <2>1. UNCHANGED <<call, cache>>
    BY <1>25 DEF PodAdded, PodDeleted
  <2>. QED BY <2>1 DEF EntriesComplete, Forward, Cleaning, Busy
<1>29. CASE \/ UpdateConfig \/ Stabilise \/ Finished
            \/ \E b \in Bridges : BridgeDeleted(b) \/ BridgeAdded(b)
  <2>1. UNCHANGED <<kubelet, call, cache, dirs, specs>>
    BY <1>29, EnvironmentFrame
  <2>. QED BY <2>1 DEF EntriesComplete, Forward, Cleaning, Busy
<1> USE ConstantsAssumption
    DEF TypeOK, CallShape, Calls, Idle, Forward, Cleaning, Active, host, env,
        CallProgress, ClaimsOf, EntriesComplete, Busy
<1>1. ASSUME NEW c \in Claims, PrepareCached(c) PROVE EntriesComplete'
  BY <1>1 DEF PrepareCached
<1>2. ASSUME NEW c \in Claims, PrepareBegin(c) PROVE EntriesComplete'
  BY <1>2, SMTT(30) DEF PrepareBegin
<1>3. ASSUME NEW c \in Claims, PrepareRejected(c) PROVE EntriesComplete'
  BY <1>3 DEF PrepareRejected
<1>4. CASE PrepareNoConfig
  BY <1>4 DEF PrepareNoConfig, StartRollback
<1>5. ASSUME NEW d \in Devices, CreateSocketDir(d) PROVE EntriesComplete'
  BY <1>5 DEF CreateSocketDir
<1>6. ASSUME NEW d \in Devices, CreateSocketDirFails(d) PROVE EntriesComplete'
  BY <1>6 DEF CreateSocketDirFails, StartRollback
<1>7. CASE CreatePort
  BY <1>7 DEF CreatePort, PortDone
<1>8. CASE CreatePortNoBridge
  BY <1>8 DEF CreatePortNoBridge, PortDone
<1>9. CASE CreatePortFails
  BY <1>9 DEF CreatePortFails
<1>10. CASE UndoSocketDir
  BY <1>10 DEF UndoSocketDir, StartRollback
<1>11. CASE CreateClaimSpecFile
  BY <1>11 DEF CreateClaimSpecFile
<1>12. CASE CreateClaimSpecFileFails
  BY <1>12 DEF CreateClaimSpecFileFails, StartRollback
<1>13. CASE Commit
  <2> HIDE DEF TypeOK, Calls, CallProgress, ClaimsOf
  <2>1. call.devs = Results(call.claim)
    BY <1>13, ZenonT(30) DEF Commit
  <2>2. cache' = [cache EXCEPT ![call.claim] = call.devs]
    BY <1>13 DEF Commit
  <2>3. \A c \in Claims : cache'[c] \in {{}, Results(c)}
    <3> HIDE DEF CallShape, Forward, Cleaning, Active, Busy
    <3>. QED BY <2>1, <2>2, SMTT(30) DEF TypeOK
  <2> USE DEF TypeOK, Calls, CallProgress, ClaimsOf
  <2>. QED BY <1>13, <2>2, <2>3 DEF Commit
<1>14. CASE PrepareReply
  BY <1>14 DEF PrepareReply
<1>15. ASSUME NEW d \in Devices, DeleteClaimSpecFile(d) PROVE EntriesComplete'
  BY <1>15 DEF DeleteClaimSpecFile
<1>16. CASE DeletePort
  BY <1>16 DEF DeletePort
<1>17. CASE DeletePortFails
  BY <1>17 DEF DeletePortFails, Lost
<1>18. CASE RemoveSocketDir
  BY <1>18 DEF RemoveSocketDir
<1>19. CASE RemoveSocketDirFails
  BY <1>19, SMTT(30) DEF RemoveSocketDirFails, Lost
<1>20. CASE RollbackEnd
  BY <1>20, Zenon DEF RollbackEnd
<1>21. ASSUME NEW c \in Claims, UnprepareUnknown(c) PROVE EntriesComplete'
  BY <1>21 DEF UnprepareUnknown
<1>22. ASSUME NEW c \in Claims, UnprepareBegin(c) PROVE EntriesComplete'
  BY <1>22 DEF UnprepareBegin
<1>23. CASE UnprepareEnd
  BY <1>23, SMTT(30) DEF UnprepareEnd
<1>24. CASE UnprepareReply
  BY <1>24 DEF UnprepareReply
<1>27. ASSUME NEW p \in Pods, CallPrepare(p) PROVE EntriesComplete'
  BY <1>27 DEF CallPrepare
<1>28. ASSUME NEW p \in Pods, CallUnprepare(p) PROVE EntriesComplete'
  BY <1>28 DEF CallUnprepare
<1>30. CASE Restart
  BY <1>30, ZenonT(30) DEF Restart
<1>. QED
  BY <1>1, <1>2, <1>3, <1>4, <1>5, <1>6, <1>7, <1>8, <1>9, <1>10,
     <1>11, <1>12, <1>13, <1>14, <1>15, <1>16, <1>17, <1>18, <1>19, <1>20,
     <1>21, <1>22, <1>23, <1>24, <1>25, <1>27, <1>28, <1>29, <1>30, ZenonT(30)
  DEF Next, DriverStep, PrepareStep, CleanupStep, UnprepareStep, KubeletStep,
      EnvironmentStep

\* Only a restart empties the pod manager behind a running pod.
LEMMA RunningStep ==
    ASSUME "crash" \notin Faults, TypeOK, CallShape, CallProgress,
           EntriesComplete, RunningCached, Next
    PROVE  RunningCached'
<1>k. ASSUME UNCHANGED cache, \A p \in Pods : kubelet'[p] = "running" => kubelet[p] = "running"
      PROVE  RunningCached'
  BY <1>k, ConstantsAssumption DEF RunningCached
<1>1. CASE UNCHANGED <<kubelet, cache>>
  BY <1>1, <1>k
<1>3. CASE PrepareReply
  <2>1. /\ UNCHANGED cache /\ call.op = "prepare" /\ call.todo = {}
        /\ \A p \in Pods : kubelet'[p] = "running" => kubelet[p] = "running" \/ p = call.pod
    BY <1>3 DEF PrepareReply, TypeOK
  <2>. QED BY <2>1, ConstantsAssumption DEF RunningCached, EntriesComplete, ClaimsOf
<1>6. CASE UnprepareReply
  <2>1. UNCHANGED cache /\ \A p \in Pods : kubelet'[p] = "running" => kubelet[p] = "running"
    BY <1>6 DEF UnprepareReply, TypeOK
  <2>. QED BY <1>k, <2>1, Zenon
<1>7. ASSUME NEW p \in Pods, PodAdded(p) PROVE RunningCached'
  <2>1. UNCHANGED cache /\ \A q \in Pods : kubelet'[q] = "running" => kubelet[q] = "running"
    BY <1>7 DEF PodAdded, TypeOK
  <2>. QED BY <1>k, <2>1, Zenon
<1>8. ASSUME NEW p \in Pods, PodDeleted(p) PROVE RunningCached'
  <2>1. UNCHANGED cache /\ \A q \in Pods : kubelet'[q] = "running" => kubelet[q] = "running"
    BY <1>8 DEF PodDeleted, TypeOK
  <2>. QED BY <1>k, <2>1, Zenon
<1>9. CASE Restart
  BY <1>9 DEF Restart, Fault
<1> USE ConstantsAssumption
    DEF TypeOK, CallShape, Calls, Forward, Cleaning, Active,
        CallProgress, ClaimsOf, EntriesComplete, RunningCached
<1>2. CASE Commit
  BY <1>2 DEF Commit
<1>4. ASSUME NEW c \in Claims, UnprepareBegin(c) PROVE RunningCached'
  BY <1>4 DEF UnprepareBegin
<1>5. CASE UnprepareEnd
  BY <1>5 DEF UnprepareEnd
<1> HIDE DEF TypeOK, CallShape, Calls, Forward, Cleaning, Active,
             CallProgress, ClaimsOf, EntriesComplete, RunningCached
<1>. QED BY <1>1, <1>2, <1>3, <1>4, <1>5, <1>6, <1>7, <1>8, <1>9, StandingFrame, SMTT(30)

\* As long as the driver is not restarted, a running pod keeps its socket
\* directories: calls repeated by the kubelet, failed calls and the calls for
\* other pods do not take them away.
THEOREM RunningDirs ==
    ASSUME DistinctDirs, "crash" \notin Faults
    PROVE  Spec => []RunningKeepsDirs
<1>1. Init => EntriesComplete /\ RunningCached
  <2>1. Init => RunningCached
    BY ConstantsAssumption DEF Init, RunningCached
  <2>. QED BY <2>1, InitComplete
<1>2. BackingInv /\ EntriesComplete /\ RunningCached /\ [Next]_vars
         => (EntriesComplete /\ RunningCached)'
  <2> SUFFICES ASSUME BackingInv, EntriesComplete, RunningCached, [Next]_vars
               PROVE  EntriesComplete' /\ RunningCached'
    OBVIOUS
  <2>1. CASE UNCHANGED vars
    <3>1. UNCHANGED <<cache, call, kubelet>>
      BY <2>1 DEF vars
    <3>2. EntriesComplete'
      BY <3>1, SMTT(30), ZenonT(30) DEF EntriesComplete, Forward, Cleaning, Busy
    <3>3. RunningCached'
      BY <3>1, SMTT(30), ZenonT(30) DEF RunningCached
    <3>. QED BY <3>2, <3>3
  <2>2. CASE Next
    <3>1. TypeOK /\ CallShape /\ CallProgress /\ AwayUncached
      BY DEF BackingInv, ProgressInv
    <3>2. EntriesComplete'
      BY <2>2, <3>1, EntriesStep, SMTT(30), ZenonT(30)
    <3>3. RunningCached'
      BY <2>2, <3>1, RunningStep, SMTT(30), ZenonT(30)
    <3>. QED BY <3>2, <3>3
  <2>. QED BY <2>1, <2>2
<1>3. BackingInv /\ EntriesComplete /\ RunningCached => RunningKeepsDirs
  <2> SUFFICES ASSUME BackingInv, EntriesComplete, RunningCached,
                      NEW d \in Devices, kubelet[ReservedFor[ClaimOf[d]]] = "running"
               PROVE  getSocketDir(d) \in dirs
    BY DEF RunningKeepsDirs
  <2>1. ClaimOf[d] \in Claims /\ cache[ClaimOf[d]] # {}
    BY ConstantsAssumption DEF RunningCached
  <2>2. d \in cache[ClaimOf[d]]
    BY <2>1 DEF EntriesComplete, Results
  <2>. QED BY <2>1, <2>2, SMTT(30) DEF BackingInv, ProgressInv, CachedIsBacked
<1>. QED
  BY <1>1, <1>2, <1>3, BackingInvariant, PTL DEF Spec

=============================================================================
