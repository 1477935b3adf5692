-------------------------- MODULE ClaimContractProofs --------------------------
(***************************************************************************)
(* The kubelet plugin implements ClaimContract, for any number of pods,    *)
(* claims, devices and bridges and under every fault, crashes included.    *)
(***************************************************************************)
EXTENDS ClaimLifecycleProofs, ClaimRefinement

\* What the driver and the host hold of claims other than the one the call
\* works on stays as it is.
OthersUntouched ==
    /\ \A d \in Devices : ClaimOf[d] # call.claim =>
          /\ getSocketDir(d) \in dirs' <=> getSocketDir(d) \in dirs
          /\ getSocketDir(d) \in leaked'.dirs <=> getSocketDir(d) \in leaked.dirs
          /\ Port(d) \in ports' <=> Port(d) \in ports
          /\ Port(d) \in leaked'.ports <=> Port(d) \in leaked.ports
    /\ \A c \in Claims \ {call.claim} :
          /\ c \in specs' <=> c \in specs
          /\ c \in leaked'.specs <=> c \in leaked.specs

\* The items of a claim, and when they are on the host.
LEMMA ItemsOfClaim ==
    ASSUME NEW c \in Claims, NEW x \in ContractNeeded[c]
    PROVE  x = CDI(c) \/ \E d \in Results(c) : x = Dir(d) \/ x = Link(d)
BY DEF ContractNeeded

LEMMA ItemOnHost ==
    ASSUME NEW D, NEW S, NEW P
    PROVE  /\ \A d : OnHost(Dir(d), D, S, P) <=> getSocketDir(d) \in D
           /\ \A d : OnHost(Link(d), D, S, P) <=> Port(d) \in P
           /\ \A c : OnHost(CDI(c), D, S, P) <=> c \in S
BY DEF OnHost, Dir, Link, CDI

\* A step that leaves the host alone changes neither what claims hold nor what
\* is lost.
LEMMA SameHost ==
    ASSUME UNCHANGED host
    PROVE  ContractHeld' = ContractHeld /\ ContractLost' = ContractLost
BY DEF host, ContractHeld, ContractLost, HeldBy, LostOf

\* A step of a call on the host of its claim is work on that claim.
LEMMA WorkStep ==
    ASSUME TypeOK, CallShape, Active, call'.claim = call.claim,
           UNCHANGED <<cache, kubelet, bridges, unplugged>>, OthersUntouched
    PROVE  Contract!Next
<1>1. call.claim \in Claims
  BY DEF CallShape
<1>2. ContractState[call.claim] = "busy"
  BY <1>1 DEF ContractState, StateOf
<1>3. ContractState' = ContractState
  BY DEF ContractState, StateOf
<1>4. \A c \in Claims :
          ContractHeld'[c] \subseteq ContractNeeded[c] /\ ContractLost'[c] \subseteq ContractNeeded[c]
  BY DEF ContractHeld, ContractLost, HeldBy, LostOf
<1>6. ASSUME NEW x \in Claims \ {call.claim}
      PROVE  HeldBy(x)' = HeldBy(x) /\ LostOf(x)' = LostOf(x)
  <2>1. \A d \in Results(x) : d \in Devices /\ ClaimOf[d] # call.claim
    BY <1>6 DEF Results
  <2>2. ASSUME NEW y \in ContractNeeded[x]
        PROVE  /\ OnHost(y, dirs', specs', ports') <=> OnHost(y, dirs, specs, ports)
               /\ OnHost(y, leaked'.dirs, leaked'.specs, leaked'.ports)
                     <=> OnHost(y, leaked.dirs, leaked.specs, leaked.ports)
    <3>1. CASE y = CDI(x)
      BY <1>6, <3>1, ItemOnHost, Zenon DEF OthersUntouched
    <3>2. ASSUME NEW d \in Results(x), y = Dir(d)
          PROVE  /\ OnHost(y, dirs', specs', ports') <=> OnHost(y, dirs, specs, ports)
                 /\ OnHost(y, leaked'.dirs, leaked'.specs, leaked'.ports)
                       <=> OnHost(y, leaked.dirs, leaked.specs, leaked.ports)
      BY <2>1, <3>2, ItemOnHost, Zenon DEF OthersUntouched
    <3>3. ASSUME NEW d \in Results(x), y = Link(d)
          PROVE  /\ OnHost(y, dirs', specs', ports') <=> OnHost(y, dirs, specs, ports)
                 /\ OnHost(y, leaked'.dirs, leaked'.specs, leaked'.ports)
                       <=> OnHost(y, leaked.dirs, leaked.specs, leaked.ports)
      BY <2>1, <3>3, ItemOnHost, Zenon DEF OthersUntouched
    <3>. QED BY <3>1, <3>2, <3>3, ItemsOfClaim
  <2>3. HeldBy(x)' = HeldBy(x)
    BY <2>2 DEF HeldBy
  <2>4. HeldBy(x) \subseteq ContractNeeded[x]
    BY DEF HeldBy
  <2>. QED BY <2>2, <2>3, <2>4 DEF LostOf
<1>7. \A x \in Claims \ {call.claim} :
          ContractHeld'[x] = ContractHeld[x] /\ ContractLost'[x] = ContractLost[x]
  BY <1>6 DEF ContractHeld, ContractLost
<1>8. /\ ContractHeld' = [ContractHeld EXCEPT ![call.claim] = ContractHeld'[call.claim]]
      /\ ContractLost' = [ContractLost EXCEPT ![call.claim] = ContractLost'[call.claim]]
  BY <1>1, <1>7, Zenon DEF ContractHeld, ContractLost
<1>9. Contract!Work(call.claim)
  BY <1>1, <1>2, <1>3, <1>4, <1>8 DEF Contract!Work
<1>. QED BY <1>1, <1>9 DEF Contract!Next

\* The directory and the port of a device of one claim are not those of a
\* device of another.
LEMMA OtherNames ==
    ASSUME DistinctDirs, DistinctPorts, NEW d \in Devices, NEW e \in Devices, ClaimOf[d] # ClaimOf[e]
    PROVE  getSocketDir(d) # getSocketDir(e) /\ Port(d) # Port(e)
BY DEF DistinctDirs, DistinctPorts, Port

\* Each step of prepareDevice, unprepareDevice and their error paths touches
\* one directory, one port or the spec file, all of the claim in hand.
LEMMA HostStep ==
    ASSUME DistinctDirs, DistinctPorts, TypeOK, CallShape,
           \/ \E d \in Devices : \/ CreateSocketDir(d) \/ CreateSocketDirFails(d)
                                 \/ DeleteClaimSpecFile(d)
           \/ CreatePort \/ CreatePortFails \/ UndoSocketDir
           \/ CreateClaimSpecFile
           \/ DeletePort \/ DeletePortFails
           \/ RemoveSocketDir \/ RemoveSocketDirFails
    PROVE  Contract!Next
<1> USE DEF TypeOK, Calls
<1>1. ASSUME Active, UNCHANGED <<cache, kubelet, bridges, unplugged>>,
             call'.claim = call.claim,
             NEW e \in Results(call.claim),
             \A x \in Dirs \ {getSocketDir(e)} :
                 /\ x \in dirs' <=> x \in dirs
                 /\ x \in leaked'.dirs <=> x \in leaked.dirs,
             \A x \in Ports \ {Port(e)} :
                 /\ x \in ports' <=> x \in ports
                 /\ x \in leaked'.ports <=> x \in leaked.ports,
             \A x \in Claims \ {call.claim} :
                 /\ x \in specs' <=> x \in specs
                 /\ x \in leaked'.specs <=> x \in leaked.specs
      PROVE  Contract!Next
  <2>1. ASSUME NEW d \in Devices, ClaimOf[d] # call.claim
        PROVE  /\ getSocketDir(d) \in Dirs \ {getSocketDir(e)}
               /\ Port(d) \in Ports \ {Port(e)}
    BY <2>1, OtherNames, NamesTyped, SMTT(30) DEF Results
  <2>2. OthersUntouched
    BY <1>1, <2>1 DEF OthersUntouched
  <2>. QED BY <1>1, <2>2, WorkStep
<1>2. ASSUME NEW d \in Devices, CreateSocketDir(d) PROVE Contract!Next
  <2>1. d \in Results(call.claim) /\ Active
    BY <1>2, Zenon DEF CreateSocketDir, CallShape, Active, Forward
  <2>2. call'.claim = call.claim /\ leaked'.ports = leaked.ports /\ leaked'.specs = leaked.specs
        /\ leaked'.dirs = leaked.dirs \ {getSocketDir(d)}
    BY <1>2, ZenonT(30) DEF CreateSocketDir
  <2>. QED BY <1>1, <1>2, <2>1, <2>2, Zenon DEF CreateSocketDir, env
<1>3. ASSUME NEW d \in Devices, CreateSocketDirFails(d) PROVE Contract!Next
  <2>1. d \in Results(call.claim) /\ Active
    BY <1>3 DEF CreateSocketDirFails, CallShape, Active, Forward
  <2>2. call'.claim = call.claim /\ leaked'.ports = leaked.ports /\ leaked'.specs = leaked.specs
    BY <1>3 DEF CreateSocketDirFails, StartRollback
  <2>3. \A x \in Dirs \ {getSocketDir(d)} :
           (x \in dirs' <=> x \in dirs) /\ (x \in leaked'.dirs <=> x \in leaked.dirs)
    BY <1>3 DEF CreateSocketDirFails
  <2>. QED BY <1>1, <1>3, <2>1, <2>2, <2>3, SMTT(30) DEF CreateSocketDirFails, env
<1>4. ASSUME NEW d \in Devices, DeleteClaimSpecFile(d) PROVE Contract!Next
  <2>1. d \in Results(call.claim) /\ Active
    BY <1>4, Zenon DEF DeleteClaimSpecFile, CallShape, Active, Forward, Cleaning
  <2>2. call'.claim = call.claim /\ leaked'.ports = leaked.ports /\ leaked'.dirs = leaked.dirs
    BY <1>4, Zenon DEF DeleteClaimSpecFile
  <2>3. \A x \in Claims \ {call.claim} :
           (x \in specs' <=> x \in specs) /\ (x \in leaked'.specs <=> x \in leaked.specs)
    <3>1. \/ specs' = specs \ {call.claim} /\ leaked'.specs = leaked.specs \ {call.claim}
          \/ specs' = specs /\ leaked'.specs = leaked.specs \cup ({call.claim} \cap specs)
      BY <1>4, Zenon DEF DeleteClaimSpecFile
    <3>. QED BY <3>1
  <2>. QED BY <1>1, <1>4, <2>1, <2>2, <2>3, ZenonT(30) DEF DeleteClaimSpecFile, env
<1>5. CASE CreatePort
  <2>1. call.dev \in Results(call.claim) /\ Active
    BY <1>5 DEF CreatePort, CallShape, Active, Forward
  <2>2. call'.claim = call.claim
    BY <1>5 DEF CreatePort, PortDone
  <2>. QED BY <1>1, <1>5, <2>1, <2>2, SMTT(30) DEF CreatePort, env
<1>6. CASE CreatePortFails
  <2>1. call.dev \in Results(call.claim) /\ Active
    BY <1>6 DEF CreatePortFails, CallShape, Active, Forward
  <2>2. call'.claim = call.claim /\ leaked'.dirs = leaked.dirs /\ leaked'.specs = leaked.specs
    BY <1>6 DEF CreatePortFails
  <2>3. \A x \in Ports \ {Port(call.dev)} :
           (x \in ports' <=> x \in ports) /\ (x \in leaked'.ports <=> x \in leaked.ports)
    BY <1>6 DEF CreatePortFails
  <2>. QED BY <1>1, <1>6, <2>1, <2>2, <2>3, SMTT(30) DEF CreatePortFails, env
<1>7. CASE UndoSocketDir
  <2>1. call.dev \in Results(call.claim) /\ Active
    BY <1>7 DEF UndoSocketDir, CallShape, Active, Forward
  <2>2. call'.claim = call.claim /\ leaked'.ports = leaked.ports /\ leaked'.specs = leaked.specs
    BY <1>7 DEF UndoSocketDir, StartRollback
  <2>3. \A x \in Dirs \ {getSocketDir(call.dev)} :
           (x \in dirs' <=> x \in dirs) /\ (x \in leaked'.dirs <=> x \in leaked.dirs)
    BY <1>7 DEF UndoSocketDir
  <2>. QED BY <1>1, <1>7, <2>1, <2>2, <2>3, SMTT(30) DEF UndoSocketDir, env
<1>8. CASE CreateClaimSpecFile
  <2>1. Active /\ call.devs # {} /\ call.devs \subseteq Results(call.claim)
    BY <1>8 DEF CreateClaimSpecFile, CallShape, Active, Forward
  <2>2. PICK e \in Results(call.claim) : TRUE
    BY <2>1
  <2>3. call'.claim = call.claim /\ leaked'.ports = leaked.ports /\ leaked'.dirs = leaked.dirs
        /\ leaked'.specs = leaked.specs \ {call.claim}
    BY <1>8 DEF CreateClaimSpecFile
  <2>. QED BY <1>1, <1>8, <2>1, <2>2, <2>3, SMTT(30) DEF CreateClaimSpecFile, env
<1>9. CASE DeletePort
  <2>1. call.dev \in Results(call.claim) /\ Active
    BY <1>9 DEF DeletePort, CallShape, Active, Cleaning
  <2>2. call'.claim = call.claim /\ leaked'.dirs = leaked.dirs /\ leaked'.specs = leaked.specs
        /\ leaked'.ports = leaked.ports \ {Port(call.dev)}
    BY <1>9, SMTT(30) DEF DeletePort
  <2>. QED BY <1>1, <1>9, <2>1, <2>2, SMTT(30) DEF DeletePort, env
<1>10. CASE DeletePortFails
  <2>1. call.dev \in Results(call.claim) /\ Active
    BY <1>10 DEF DeletePortFails, CallShape, Active, Cleaning
  <2>2. call'.claim = call.claim /\ leaked'.dirs = leaked.dirs /\ leaked'.specs = leaked.specs
    BY <1>10 DEF DeletePortFails
  <2>3. \A x \in Ports \ {Port(call.dev)} :
           (x \in ports' <=> x \in ports) /\ (x \in leaked'.ports <=> x \in leaked.ports)
    BY <1>10 DEF DeletePortFails, Lost
  <2>. QED BY <1>1, <1>10, <2>1, <2>2, <2>3, SMTT(30) DEF DeletePortFails, env
<1>11. CASE RemoveSocketDir
  <2>1. call.dev \in Results(call.claim) /\ Active
    BY <1>11 DEF RemoveSocketDir, CallShape, Active, Cleaning
  <2>2. call'.claim = call.claim /\ leaked'.ports = leaked.ports /\ leaked'.specs = leaked.specs
        /\ leaked'.dirs = leaked.dirs \ {getSocketDir(call.dev)}
    BY <1>11 DEF RemoveSocketDir
  <2>. QED BY <1>1, <1>11, <2>1, <2>2, SMTT(30) DEF RemoveSocketDir, env
<1>12. CASE RemoveSocketDirFails
  <2>1. call.dev \in Results(call.claim) /\ Active
    BY <1>12 DEF RemoveSocketDirFails, CallShape, Active, Cleaning
  <2>2. call'.claim = call.claim /\ leaked'.ports = leaked.ports /\ leaked'.specs = leaked.specs
    BY <1>12 DEF RemoveSocketDirFails
  <2>3. \A x \in Dirs \ {getSocketDir(call.dev)} : x \in leaked'.dirs <=> x \in leaked.dirs
    BY <1>12 DEF RemoveSocketDirFails, Lost
  <2>. QED BY <1>1, <1>12, <2>1, <2>2, <2>3, SMTT(30) DEF RemoveSocketDirFails, env
<1>. QED
  BY <1>2, <1>3, <1>4, <1>5, <1>6, <1>7, <1>8, <1>9, <1>10, <1>11, <1>12, SMTT(30)

\* When the cleanup of a claim is through and no step of an unprepare failed,
\* nothing of the claim is on the host but recorded losses.
LEMMA CleanedUp ==
    ASSUME DistinctDirs, DistinctPorts, TypeOK, CallShape, EveryOrphanExplained,
           call.phase = "clean", call.left = {},
           call.op = "unprepare" => ~call.err
    PROVE  /\ call.claim \in Claims
           /\ HeldBy(call.claim) \subseteq LostOf(call.claim)
<1> DEFINE c == call.claim
<1>1. c \in Claims /\ cache[c] = {}
  BY DEF CallShape, Active, Cleaning
<1>2. CallDevices = {}
  BY DEF CallDevices, Cleaning
<1>3. Busy({"port", "undo", "delport", "rmdir"}) = {} /\ Busy({"delport"}) = {}
  BY DEF Busy
<1>4. \A e \in CachedDevices : e \in Devices /\ ClaimOf[e] # c
  BY <1>1 DEF CachedDevices
<1>5. ASSUME NEW d \in Results(c)
      PROVE  getSocketDir(d) \notin OwnedDirs /\ Port(d) \notin OwnedPorts
  <2>1. d \in Devices /\ ClaimOf[d] = c
    BY DEF Results
  <2>2. \A e \in CachedDevices : getSocketDir(d) # getSocketDir(e) /\ Port(d) # Port(e)
    BY <1>4, <2>1, OtherNames
  <2>. QED BY <1>2, <1>3, <2>2 DEF OwnedDirs, OwnedPorts
<1>6. c \notin OwnedSpecs
  BY <1>1 DEF OwnedSpecs, CallShape, Cleaning
<1>7. \A d \in Results(c) :
          /\ getSocketDir(d) \in dirs => getSocketDir(d) \in leaked.dirs
          /\ Port(d) \in ports => Port(d) \in leaked.ports
  BY <1>5 DEF EveryOrphanExplained
<1>8. c \in specs => c \in leaked.specs
  BY <1>6 DEF EveryOrphanExplained
<1>9. ASSUME NEW x \in ContractNeeded[c], OnHost(x, dirs, specs, ports)
      PROVE  OnHost(x, leaked.dirs, leaked.specs, leaked.ports)
  <2>1. CASE x = CDI(c)
    BY <1>8, <1>9, <2>1, ItemOnHost, ZenonT(30)
  <2>2. ASSUME NEW d \in Results(c), x = Dir(d) \/ x = Link(d)
        PROVE  OnHost(x, leaked.dirs, leaked.specs, leaked.ports)
    <3>1. CASE x = Dir(d)
      BY <1>7, <1>9, <3>1, ItemOnHost, Zenon
    <3>2. CASE x = Link(d)
      BY <1>7, <1>9, <3>2, ItemOnHost, Zenon
    <3>. QED BY <2>2, <3>1, <3>2
  <2> HIDE DEF c
  <2>. QED BY <1>1, <2>1, <2>2, ItemsOfClaim
<1>. QED BY <1>1, <1>9 DEF HeldBy, LostOf

\* A bridge takes its ports out of what the claims hold and of what is lost.
LEMMA BridgeStep ==
    ASSUME TypeOK, CallShape, NEW b \in Bridges, BridgeDeleted(b)
    PROVE  Contract!Next
<1> USE DEF TypeOK
<1>1. ContractState' = ContractState
  BY DEF BridgeDeleted, ContractState, StateOf
<1>2. leaked'.dirs = leaked.dirs /\ leaked'.specs = leaked.specs
      /\ leaked'.ports = {q \in leaked.ports : q[2] # b}
  BY DEF BridgeDeleted
<1>3. \A d \in Devices :
          /\ Port(d) \in ports' <=> Port(d) \in ports /\ BridgeOf[d] # b
          /\ Port(d) \in leaked'.ports <=> Port(d) \in leaked.ports /\ BridgeOf[d] # b
  BY <1>2 DEF BridgeDeleted, Port
<1>4. ASSUME NEW c \in Claims
      PROVE  HeldBy(c)' = HeldBy(c) \ LinksOn[b] /\ LostOf(c)' = LostOf(c) \ LinksOn[b]
  <2>1. ASSUME NEW D, NEW S, NEW P, NEW Q, NEW x \in ContractNeeded[c],
               \A d \in Devices : Port(d) \in Q <=> Port(d) \in P /\ BridgeOf[d] # b
        PROVE  OnHost(x, D, S, Q) <=> OnHost(x, D, S, P) /\ x \notin LinksOn[b]
    <3>1. CASE x = CDI(c)
      <4>1. x \notin LinksOn[b]
        BY <3>1 DEF LinksOn, Link, CDI
      <4>. QED BY <3>1, <4>1, ItemOnHost, Zenon
    <3>2. ASSUME NEW d \in Results(c), x = Dir(d)
          PROVE  OnHost(x, D, S, Q) <=> OnHost(x, D, S, P) /\ x \notin LinksOn[b]
      <4>1. x \notin LinksOn[b]
        BY <3>2 DEF LinksOn, Link, Dir
      <4>. QED BY <3>2, <4>1, ItemOnHost, Zenon
    <3>3. ASSUME NEW d \in Results(c), x = Link(d)
          PROVE  OnHost(x, D, S, Q) <=> OnHost(x, D, S, P) /\ x \notin LinksOn[b]
      <4>1. d \in Devices /\ (x \in LinksOn[b] <=> BridgeOf[d] = b)
        BY <3>3 DEF LinksOn, Link, Results
      <4>. QED BY <2>1, <3>3, <4>1, ItemOnHost, Zenon
    <3>. QED BY <3>1, <3>2, <3>3, ItemsOfClaim
  <2>2. \A x \in ContractNeeded[c] :
           OnHost(x, dirs', specs', ports') <=> OnHost(x, dirs, specs, ports) /\ x \notin LinksOn[b]
    <3>1. dirs' = dirs /\ specs' = specs
      BY DEF BridgeDeleted
    <3>. QED BY <1>3, <2>1, <3>1, Zenon
  <2>3. \A x \in ContractNeeded[c] :
           OnHost(x, leaked'.dirs, leaked'.specs, leaked'.ports)
              <=> OnHost(x, leaked.dirs, leaked.specs, leaked.ports) /\ x \notin LinksOn[b]
    <3>1. \A x \in ContractNeeded[c] :
             OnHost(x, leaked.dirs, leaked.specs, leaked'.ports)
                <=> OnHost(x, leaked.dirs, leaked.specs, leaked.ports) /\ x \notin LinksOn[b]
      BY <1>3, <2>1, ZenonT(30)
    <3>. QED BY <1>2, <3>1, Zenon
  <2>4. HeldBy(c)' = HeldBy(c) \ LinksOn[b]
    BY <2>2 DEF HeldBy
  <2>5. HeldBy(c) \subseteq ContractNeeded[c]
    BY DEF HeldBy
  <2>. QED BY <2>3, <2>4, <2>5, SMTT(30) DEF LostOf
<1>5. /\ ContractHeld' = [c \in Claims |-> ContractHeld[c] \ LinksOn[b]]
      /\ ContractLost' = [c \in Claims |-> ContractLost[c] \ LinksOn[b]]
  BY <1>4 DEF ContractHeld, ContractLost
<1>6. Contract!Vanish(b)
  BY <1>1, <1>5 DEF Contract!Vanish, BridgeDeleted
<1>. QED BY <1>6 DEF Contract!Next

\* After a crash everything on the host is lost and every claim is free.
LEMMA RestartStep == ASSUME Restart PROVE Contract!Next
<1>1. ContractState' = [c \in Claims |-> "free"]
  BY ConstantsAssumption DEF Restart, Idle, ContractState, StateOf
<1>2. ContractHeld' = ContractHeld
  BY DEF Restart, ContractHeld, HeldBy
<1>3. leaked'.dirs = dirs /\ leaked'.specs = specs /\ leaked'.ports = ports
  BY DEF Restart
<1>4. \A c \in Claims : LostOf(c)' = HeldBy(c)
  BY <1>3 DEF Restart, LostOf, HeldBy
<1>5. ContractLost' = ContractHeld
  BY <1>4 DEF ContractLost, ContractHeld
<1>6. Contract!Restart
  BY <1>1, <1>2, <1>5 DEF Contract!Restart, Restart, env
<1>. QED BY <1>6, SMTT(30) DEF Contract!Next

\* A step that changes the state of one claim.
LEMMA OneState ==
    ASSUME NEW c \in Claims, NEW to, StateOf(c)' = to,
           \A x \in Claims \ {c} : StateOf(x)' = StateOf(x)
    PROVE  ContractState' = [ContractState EXCEPT ![c] = to]
BY Zenon DEF ContractState

\* The steps in which a claim is taken up, granted, kept or released.
LEMMA MoveStep ==
    ASSUME DistinctDirs, DistinctPorts, ProgressInv, PlugInv, EntriesComplete,
           EveryOrphanExplained,
           \/ \E c \in Claims : PrepareBegin(c) \/ UnprepareBegin(c)
           \/ Commit \/ UnprepareEnd \/ RollbackEnd
    PROVE  Contract!Next
<1> USE ConstantsAssumption
<1>1. ContractHeld' = ContractHeld /\ ContractLost' = ContractLost
      /\ UNCHANGED <<bridges, unplugged>>
  BY SameHost, Zenon
     DEF PrepareBegin, UnprepareBegin, Commit, UnprepareEnd, RollbackEnd, env
<1>2. ASSUME NEW c \in Claims, PrepareBegin(c) PROVE Contract!Next
  <2>1. call.claim = NoClaim
    BY <1>2, Zenon DEF PrepareBegin, CallShape, ProgressInv, TypeOK, Calls
  <2>2. call'.claim = c /\ kubelet' = kubelet /\ cache' = cache
    BY <1>2, Zenon DEF PrepareBegin, ProgressInv, TypeOK, Calls
  <2>3. ContractState[c] = "free" /\ \A x \in Claims : ContractState[x] # "busy"
    BY <1>2, <2>1, Zenon DEF PrepareBegin, ContractState, StateOf
  <2>4. ContractState' = [ContractState EXCEPT ![c] = "busy"]
    <3>1. StateOf(c)' = "busy" /\ \A x \in Claims \ {c} : StateOf(x)' = StateOf(x)
      BY <2>1, <2>2 DEF StateOf, ProgressInv, TypeOK
    <3>. QED BY <3>1, OneState, SMTT(30)
  <2>5. Contract!Begin(c)
    BY <1>1, <2>3, <2>4 DEF Contract!Begin, Contract!Move
  <2>. QED BY <2>5 DEF Contract!Next
<1>3. ASSUME NEW c \in Claims, UnprepareBegin(c) PROVE Contract!Next
  <2>1. call.claim = NoClaim
    BY <1>3, Zenon DEF UnprepareBegin, CallShape, ProgressInv, TypeOK, Calls
  <2>2. call'.claim = c /\ kubelet' = kubelet /\ cache' = [cache EXCEPT ![c] = {}]
    BY <1>3, Zenon DEF UnprepareBegin, ProgressInv, TypeOK, Calls
  <2>3. kubelet[ReservedFor[c]] = "terminating"
    BY <1>3, ZenonT(30) DEF UnprepareBegin, CallProgress, ClaimsOf, ProgressInv, TypeOK, Calls
  <2>4. ContractState[c] = "revoked" /\ \A x \in Claims : ContractState[x] # "busy"
    BY <1>3, <2>1, <2>3, Zenon DEF UnprepareBegin, ContractState, StateOf
  <2>5. ContractState' = [ContractState EXCEPT ![c] = "busy"]
    <3>1. StateOf(c)' = "busy" /\ \A x \in Claims \ {c} : StateOf(x)' = StateOf(x)
      BY <2>1, <2>2 DEF StateOf, ProgressInv, TypeOK
    <3>. QED BY <3>1, OneState
  <2>6. Contract!Begin(c)
    BY <1>1, <2>4, <2>5, SMTT(30) DEF Contract!Begin, Contract!Move
  <2>. QED BY <2>6 DEF Contract!Next
<1>4. ASSUME Active PROVE call.claim \in Claims /\ ContractState[call.claim] = "busy"
  BY <1>4 DEF CallShape, ContractState, StateOf, ProgressInv, TypeOK, Calls
<1>5. CASE Commit
  <2> DEFINE c == call.claim
  <2>1. Active /\ call.devs # {}
    BY <1>5 DEF Commit, CallShape, Active, Forward, ProgressInv, TypeOK, Calls
  <2>2. call.devs = Results(c)
    <3>1. call.phase = "commit" /\ call.left = {}
      BY <1>5 DEF Commit, CallShape, ProgressInv
    <3>. QED BY <3>1, Zenon DEF EntriesComplete, Forward, Busy
  <2>3. call'.claim = NoClaim /\ kubelet' = kubelet
        /\ cache' = [cache EXCEPT ![c] = Results(c)]
    BY <1>5, <2>2, SMTT(30) DEF Commit, ProgressInv, TypeOK, Calls
  <2>4. c \in specs /\ \A d \in Results(c) : getSocketDir(d) \in dirs /\ Plugged(d)
    BY <1>5, <2>2, SMTT(30) DEF Commit, CallProgress, Forward, ProgressInv, PlugInv, TypeOK, Calls
  <2>5. ASSUME NEW x \in ContractNeeded[c], \A b \in unplugged : x \notin LinksOn[b]
        PROVE  OnHost(x, dirs, specs, ports)
    <3>1. ASSUME NEW d \in Results(c), x = Link(d) PROVE Port(d) \in ports
      <4>1. BridgeOf[d] \in Bridges /\ x \in LinksOn[BridgeOf[d]]
        BY <3>1, SMTT(30) DEF LinksOn, Results
      <4>. QED BY <2>4, <2>5, <4>1, SMTT(30) DEF Plugged
    <3>2. ASSUME NEW d \in Results(c), x = Dir(d) \/ x = Link(d)
          PROVE  OnHost(x, dirs, specs, ports)
      <4>1. CASE x = Dir(d)
        BY <2>4, <4>1, ItemOnHost, Zenon
      <4>2. CASE x = Link(d)
        BY <3>1, <4>2, ItemOnHost, Zenon
      <4>. QED BY <3>2, <4>1, <4>2
    <3>3. CASE x = CDI(c)
      BY <2>4, <3>3, ItemOnHost, ZenonT(30)
    <3>4. c \in Claims
      BY <1>4, <2>1, SMTT(30)
    <3> HIDE DEF c
    <3>. QED BY <3>2, <3>3, <3>4, ItemsOfClaim, SMTT(30)
  <2>6. ContractNeeded[c] \ UNION {LinksOn[b] : b \in unplugged} \subseteq ContractHeld[c]
    BY <1>4, <2>1, <2>5, SMTT(30) DEF ContractHeld, HeldBy
  <2>7. CASE kubelet[ReservedFor[c]] = "terminating"
    <3>1. ContractState' = [ContractState EXCEPT ![c] = "revoked"]
      BY <1>4, <2>1, <2>2, <2>3, <2>7, ZenonT(30) DEF ContractState, StateOf, ProgressInv, TypeOK
    <3>2. Contract!Retain(c)
      BY <1>1, <1>4, <2>1, <3>1, SMTT(30) DEF Contract!Retain, Contract!Move
    <3>. QED BY <1>4, <2>1, <3>2, Zenon DEF Contract!Next
  <2>8. CASE kubelet[ReservedFor[c]] # "terminating"
    <3>1. ContractState' = [ContractState EXCEPT ![c] = "granted"]
      BY <1>4, <2>1, <2>2, <2>3, <2>8, ZenonT(30) DEF ContractState, StateOf, ProgressInv, TypeOK
    <3>2. Contract!Grant(c)
      BY <1>1, <1>4, <2>1, <2>6, <3>1, ZenonT(30) DEF Contract!Grant, Contract!Move
    <3>. QED BY <1>4, <2>1, <3>2 DEF Contract!Next
  <2>. QED BY <2>7, <2>8, SMTT(30)
<1>6. CASE UnprepareEnd
  <2> DEFINE c == call.claim
  <2>1. Active /\ call.devs # {} /\ cache[c] = {}
    BY <1>6 DEF UnprepareEnd, CallShape, Active, Cleaning, ProgressInv, TypeOK, Calls
  <2>2. call'.claim = NoClaim /\ kubelet' = kubelet
    BY <1>6, SMTT(30) DEF UnprepareEnd, ProgressInv, TypeOK, Calls
  <2>3. kubelet[ReservedFor[c]] = "terminating"
    BY <1>6, <2>1, SMTT(30) DEF UnprepareEnd, CallProgress, ClaimsOf, ProgressInv, TypeOK, Calls
  <2>4. CASE call.err
    <3>1. cache' = [cache EXCEPT ![c] = call.devs]
      BY <1>6, <2>4 DEF UnprepareEnd, ProgressInv, TypeOK, Calls
    <3>2. ContractState' = [ContractState EXCEPT ![c] = "revoked"]
      BY <1>4, <2>1, <2>2, <2>3, <3>1, ZenonT(30) DEF ContractState, StateOf, ProgressInv, TypeOK
    <3>3. Contract!Retain(c)
      BY <1>1, <1>4, <2>1, <3>2, ZenonT(30) DEF Contract!Retain, Contract!Move
    <3>. QED BY <1>4, <2>1, <3>3 DEF Contract!Next
  <2>5. CASE ~call.err
    <3>1. cache' = cache
      BY <1>6, <2>5 DEF UnprepareEnd, ProgressInv, TypeOK, Calls
    <3>2. ContractState' = [ContractState EXCEPT ![c] = "free"]
      BY <1>4, <2>1, <2>2, <3>1, ZenonT(30) DEF ContractState, StateOf, ProgressInv, TypeOK
    <3>3. HeldBy(c) \subseteq LostOf(c)
      BY <1>6, <2>5, CleanedUp DEF UnprepareEnd, ProgressInv
    <3>4. Contract!Release(c)
      BY <1>1, <1>4, <2>1, <3>2, <3>3, ZenonT(30)
         DEF Contract!Release, Contract!Move, ContractHeld, ContractLost
    <3>. QED BY <1>4, <2>1, <3>4, ZenonT(30) DEF Contract!Next
  <2>. QED BY <2>4, <2>5, SMTT(30)
<1>7. CASE RollbackEnd
  <2> DEFINE c == call.claim
  <2>1. Active /\ cache[c] = {}
    BY <1>7, SMTT(30) DEF RollbackEnd, CallShape, Active, Cleaning, ProgressInv, TypeOK, Calls
  <2>2. call'.claim = NoClaim /\ kubelet' = kubelet /\ cache' = cache
    BY <1>7, Zenon DEF RollbackEnd, Idle, ProgressInv, TypeOK, Calls
  <2>3. ContractState' = [ContractState EXCEPT ![c] = "free"]
    BY <1>4, <2>1, <2>2, ZenonT(30) DEF ContractState, StateOf, ProgressInv, TypeOK
  <2>4. HeldBy(c) \subseteq LostOf(c)
    BY <1>7, CleanedUp, SMTT(30) DEF RollbackEnd, ProgressInv
  <2>5. Contract!Release(c)
    BY <1>1, <1>4, <2>1, <2>3, <2>4, ZenonT(30)
       DEF Contract!Release, Contract!Move, ContractHeld, ContractLost
  <2>. QED BY <1>4, <2>1, <2>5, SMTT(30) DEF Contract!Next
<1>. QED BY <1>2, <1>3, <1>5, <1>6, <1>7

\* The deletion of a pod revokes its claims that are granted.
LEMMA RevokeStep ==
    ASSUME TypeOK, NEW p \in Pods, PodDeleted(p)
    PROVE  Contract!Next
<1> DEFINE S == {c \in Claims : ReservedFor[c] = p /\ ContractState[c] = "granted"}
<1> USE ConstantsAssumption DEF TypeOK
<1>1. ContractHeld' = ContractHeld /\ ContractLost' = ContractLost
      /\ UNCHANGED <<bridges, unplugged>>
  BY SameHost DEF PodDeleted, env
<1>2. kubelet' = [kubelet EXCEPT ![p] = "terminating"] /\ kubelet[p] # "terminating"
      /\ call' = call /\ cache' = cache
  BY DEF PodDeleted
<1>3. ContractState' = [c \in Claims |-> IF c \in S THEN "revoked" ELSE ContractState[c]]
  BY <1>2 DEF ContractState, StateOf
<1>4. Contract!Revoke(S)
  BY <1>1, <1>3 DEF Contract!Revoke
<1>5. S \in SUBSET Claims
  OBVIOUS
<1>. QED BY <1>4, <1>5, SMTT(30) DEF Contract!Next

\* The steps the contract does not see: they change neither the host nor the
\* standing of a claim.
LEMMA StutterStep ==
    ASSUME TypeOK, CallShape, CallProgress,
           \/ \E c \in Claims : PrepareCached(c) \/ PrepareRejected(c) \/ UnprepareUnknown(c)
           \/ PrepareNoConfig \/ CreatePortNoBridge \/ CreateClaimSpecFileFails
           \/ PrepareReply \/ UnprepareReply
           \/ \E p \in Pods : PodAdded(p) \/ CallPrepare(p) \/ CallUnprepare(p)
           \/ UpdateConfig \/ Stabilise \/ Finished
    PROVE  UNCHANGED Contract!vars
<1> USE ConstantsAssumption DEF TypeOK, Calls
<1>1. UNCHANGED host /\ UNCHANGED <<cache, bridges, unplugged>>
  BY Zenon DEF PrepareCached, PrepareRejected, UnprepareUnknown, PrepareNoConfig,
         CreatePortNoBridge, CreateClaimSpecFileFails, PrepareReply, UnprepareReply,
         PodAdded, CallPrepare, CallUnprepare, UpdateConfig, Stabilise, Finished,
         vars, host, env
<1>2. call'.claim = call.claim
  <2>1. call.phase \in {"idle", "next"} => call.claim = NoClaim
    BY DEF CallShape
  <2>2. \/ call' = call
        \/ call'.claim = NoClaim /\ call.phase \in {"idle", "next"}
        \/ \E c \in Claims : call' = [call EXCEPT !.todo = @ \ {c}]
        \/ StartRollback
        \/ PortDone
    <3>1. Idle.claim = NoClaim /\ Idle.phase = "idle"
      BY SMTT(30) DEF Idle
    <3>2. ASSUME NEW p \in Pods, CallPrepare(p) \/ CallUnprepare(p)
          PROVE  call'.claim = NoClaim /\ call.phase \in {"idle", "next"}
      <4>1. CASE CallPrepare(p)
        BY <4>1, Zenon DEF CallPrepare, Idle
      <4>2. CASE CallUnprepare(p)
        BY <4>2, Zenon DEF CallUnprepare, Idle
      <4>. QED BY <3>2, <4>1, <4>2
    <3> HIDE DEF TypeOK, Calls
    <3>3. ASSUME NEW c \in Claims, PrepareCached(c) \/ UnprepareUnknown(c)
          PROVE  call' = [call EXCEPT !.todo = @ \ {c}]
      BY <3>3, Zenon DEF PrepareCached, UnprepareUnknown
    <3>4. ASSUME \/ \E c \in Claims : PrepareRejected(c)
                 \/ PrepareReply \/ UnprepareReply
          PROVE  call'.claim = NoClaim /\ call.phase \in {"idle", "next"}
      <4>1. call' = Idle /\ call.phase = "next"
        BY <3>4, Zenon DEF PrepareRejected, PrepareReply, UnprepareReply
      <4>. QED BY <3>1, <4>1
    <3>5. PrepareNoConfig \/ CreateClaimSpecFileFails => StartRollback
      BY Zenon DEF PrepareNoConfig, CreateClaimSpecFileFails
    <3>6. CreatePortNoBridge => PortDone
      BY Zenon DEF CreatePortNoBridge
    <3>7. ASSUME \/ \E p \in Pods : PodAdded(p)
                 \/ UpdateConfig \/ Stabilise \/ Finished
          PROVE  call' = call
      BY <3>7, SMTT(30) DEF PodAdded, UpdateConfig, Stabilise, Finished, vars
    <3>. QED BY <3>2, <3>3, <3>4, <3>5, <3>6, <3>7, SMTT(30)
  <2>3. StartRollback \/ PortDone => call'.claim = call.claim
    <3>1. CASE StartRollback
      BY <3>1 DEF StartRollback
    <3>2. CASE PortDone
      BY <3>2 DEF PortDone
    <3>. QED BY <3>1, <3>2
  <2>4. ASSUME NEW c \in Claims, call' = [call EXCEPT !.todo = @ \ {c}]
        PROVE  call'.claim = call.claim
    BY <2>4
  <2>. QED BY <2>1, <2>2, <2>3, <2>4, ZenonT(30)
<1>3. ASSUME NEW c \in Claims, cache[c] # {}
      PROVE  kubelet'[ReservedFor[c]] = "terminating" <=> kubelet[ReservedFor[c]] = "terminating"
  <2> HIDE DEF TypeOK, Calls
  <2>0. /\ ReservedFor[c] \in Pods
        /\ kubelet \in [Pods -> {"absent", "starting", "running", "terminating", "gone"}]
    BY SMTT(30) DEF TypeOK
  <2>1. CASE PrepareReply
    BY <2>0, <2>1, SMTT(30) DEF PrepareReply
  <2>2. CASE UnprepareReply
    <3>1. call.op = "unprepare" /\ call.todo = {}
      BY <2>2, SMTT(30) DEF UnprepareReply
    <3>2. ~call.failed => ReservedFor[c] # call.pod
      BY <1>3, <3>1 DEF CallProgress, ClaimsOf
    <3>. QED BY <2>0, <2>2, <3>2, SMTT(30) DEF UnprepareReply
  <2>3. ASSUME NEW p \in Pods, PodAdded(p)
        PROVE  kubelet'[ReservedFor[c]] = "terminating" <=> kubelet[ReservedFor[c]] = "terminating"
    BY <2>0, <2>3, SMTT(30) DEF PodAdded
  <2>. QED
    BY <2>1, <2>2, <2>3, Zenon
       DEF PrepareCached, PrepareRejected, UnprepareUnknown, PrepareNoConfig,
           CreatePortNoBridge, CreateClaimSpecFileFails, CallPrepare,
           CallUnprepare, UpdateConfig, Stabilise, Finished, vars
<1>4. ContractState' = ContractState
  BY <1>1, <1>2, <1>3 DEF ContractState, StateOf
<1>. QED BY <1>1, <1>4, SameHost DEF Contract!vars

\* The driver keeps the contract: for every instance whose names are distinct
\* and under every fault, no step of prepare, rollback, unprepare, the kubelet
\* or a crash changes a claim in a way ClaimContract does not allow.
THEOREM ContractKept == ASSUME DistinctDirs, DistinctPorts PROVE Spec => ContractRefined
<1>1. Init => EntriesComplete
  BY InitComplete
<1>2. ProgressInv /\ EntriesComplete /\ [Next]_vars => EntriesComplete'
  <2>1. CASE UNCHANGED vars
    <3>1. UNCHANGED <<cache, call>>
      BY <2>1 DEF vars
    <3>. QED BY <3>1, SMTT(30), ZenonT(30) DEF EntriesComplete, Forward, Cleaning, Busy
  <2>. QED BY <2>1, EntriesStep, SMTT(30), ZenonT(30) DEF ProgressInv
<1>3. Init => Contract!Init
  <2> SUFFICES ASSUME Init PROVE Contract!Init
    BY SMTT(30)
  <2>1. ContractState = [c \in Claims |-> "free"]
    BY ConstantsAssumption, SMTT(30) DEF Init, Idle, ContractState, StateOf
  <2>2. \A c \in Claims : HeldBy(c) = {} /\ LostOf(c) = {}
    BY DEF Init, HeldBy, LostOf, OnHost
  <2>. QED BY <2>1, <2>2 DEF Init, Contract!Init, ContractHeld, ContractLost
<1>4. ProgressInv /\ PlugInv /\ EntriesComplete /\ EveryOrphanExplained /\ [Next]_vars
         => [Contract!Next]_(Contract!vars)
  <2> SUFFICES ASSUME ProgressInv, PlugInv, EntriesComplete, EveryOrphanExplained,
                      [Next]_vars
               PROVE  Contract!Next \/ UNCHANGED Contract!vars
    OBVIOUS
  <2>1. CASE UNCHANGED vars
    <3>1. UNCHANGED host /\ ContractState' = ContractState /\ UNCHANGED <<bridges, unplugged>>
      BY <2>1 DEF vars, host, ContractState, StateOf
    <3>. QED BY <3>1, SameHost DEF Contract!vars
  <2>2. ASSUME NEW b \in Bridges, BridgeAdded(b) PROVE Contract!Next
    <3>1. ContractState' = ContractState /\ UNCHANGED host
      BY <2>2 DEF BridgeAdded, ContractState, StateOf
    <3>2. Contract!Appear(b)
      BY <2>2, <3>1, SameHost, SMTT(30) DEF Contract!Appear, BridgeAdded
    <3>. QED BY <3>2 DEF Contract!Next
  <2>3. CASE Next
    BY <2>2, <2>3, HostStep, MoveStep, RevokeStep, BridgeStep, RestartStep, StutterStep
    DEF ProgressInv, Next, DriverStep, PrepareStep, CleanupStep, UnprepareStep,
        KubeletStep, EnvironmentStep
  <2>. QED BY <2>1, <2>3
<1>5. Spec => [](ProgressInv /\ PlugInv /\ EntriesComplete /\ EveryOrphanExplained)
  BY <1>1, <1>2, ProgressInvariant, PlugInvariant, OrphansExplained, PTL DEF Spec
<1>. QED
  BY <1>3, <1>4, <1>5, PTL DEF Spec, ContractRefined, Contract!Spec

=============================================================================
