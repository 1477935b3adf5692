---------------------------- MODULE ClaimLifecycle ----------------------------
(***************************************************************************)
(* The life of resource claims on one node: what the kubelet plugin does   *)
(* between NodePrepareResources and NodeUnprepareResources.                *)
(*                                                                         *)
(* The driver keeps the prepared devices of a claim in memory only         *)
(* (podmanager) while their effects are durable on the host: a socket      *)
(* directory and an OVS port per device, one CDI spec file per claim.      *)
(* Every durable effect is a step of its own, so that a crash of the       *)
(* driver, a config reconcile or the removal of a bridge can fall between  *)
(* any two of them.  Calls themselves do not overlap: driver.New passes no *)
(* Serialize option, and the kubelet plugin helper then runs one call at a *)
(* time.                                                                   *)
(***************************************************************************)
EXTENDS FiniteSets

CONSTANTS
    Pods, Claims, Devices, Bridges,
    Requests, UIDPrefixes, PodClaimNames,
    ReservedFor,    \* the pod of a claim: Status.ReservedFor[0]
    PodClaimName,   \* the name a claim has inside its pod
    UIDPrefix,      \* the first 8 hex digits of the claim UID
    ClaimOf,        \* the claim an allocation result (device) belongs to
    RequestOf,      \* result.Request
    BridgeOf,       \* result.Device, which is the name of a bridge
    Faults,         \* the kinds of fault the environment may inject
    NoClaim, NoDevice, NoPod

\* A driver crash; a failing file or OVSDB operation; an OVSDB transaction that
\* commits although its caller sees an error; a lost answer to the kubelet; a
\* claim object that PrepareResourceClaim refuses.
FaultKinds == {"crash", "io", "commit", "reply", "reject"}

ASSUME ConstantsAssumption ==
    /\ ReservedFor \in [Claims -> Pods]
    /\ PodClaimName \in [Claims -> PodClaimNames]
    /\ UIDPrefix \in [Claims -> UIDPrefixes]
    /\ ClaimOf \in [Devices -> Claims]
    /\ RequestOf \in [Devices -> Requests]
    /\ BridgeOf \in [Devices -> Bridges]
    /\ Faults \subseteq FaultKinds
    /\ NoClaim \notin Claims
    /\ NoDevice \notin Devices
    /\ NoPod \notin Pods

VARIABLES
    kubelet,    \* per pod: where the kubelet is in the life of the pod
    call,       \* the gRPC call the driver is serving
    cache,      \* podmanager.byClaimUID; {} stands for a missing entry
    configured, \* an OvsDpdkConfig was received since the driver started
    dirs,       \* socket directories on the host
    specs,      \* claims that have a CDI spec file
    bridges,    \* netdev bridges of OVS
    ports,      \* vhost-user ports in OVSDB: name and bridge
    leaked,     \* history: host state nobody will clean up, and why is known
    unplugged,  \* history: bridges that were deleted at some time
    stable      \* no fault happens any more

vars == <<kubelet, call, cache, configured, dirs, specs, bridges, ports,
          leaked, unplugged, stable>>
host == <<dirs, specs, ports, leaked>>
env  == <<bridges, unplugged, stable>>

(***************************************************************************)
(* Names.  ovsPortName keeps 8 hex digits of the UID; getSocketDir uses    *)
(* the pod and the name of the claim inside the pod.                       *)
(***************************************************************************)
ovsPortName(d) == <<UIDPrefix[ClaimOf[d]], RequestOf[d]>>

getSocketDir(d) ==
    <<ReservedFor[ClaimOf[d]], PodClaimName[ClaimOf[d]], RequestOf[d]>>

Dirs  == Pods \X PodClaimNames \X Requests
Ports == (UIDPrefixes \X Requests) \X Bridges

Port(d)      == <<ovsPortName(d), BridgeOf[d]>>
Results(c)   == {d \in Devices : ClaimOf[d] = c}
ClaimsOf(p)  == {c \in Claims : ReservedFor[c] = p}

\* No two devices share a socket directory, and no two share a port name.  The
\* code enforces neither; the properties that need one of them say so.
DistinctDirs  == \A d, e \in Devices : d # e => getSocketDir(d) # getSocketDir(e)
DistinctPorts == \A d, e \in Devices : d # e => ovsPortName(d) # ovsPortName(e)

Idle == [op |-> "none", phase |-> "idle", pod |-> NoPod, todo |-> {},
         claim |-> NoClaim, left |-> {}, dev |-> NoDevice, devs |-> {},
         err |-> FALSE, failed |-> FALSE]

Calls == [op : {"none", "prepare", "unprepare"},
          phase : {"idle", "next", "device", "port", "undo", "commit",
                   "clean", "delport", "rmdir"},
          pod : Pods \cup {NoPod},
          todo : SUBSET Claims,
          claim : Claims \cup {NoClaim},
          left : SUBSET Devices,
          dev : Devices \cup {NoDevice},
          devs : SUBSET Devices,
          err : BOOLEAN,      \* a cleanup step of this claim failed
          failed : BOOLEAN]   \* some claim of this call failed

Fault(f) == ~stable /\ f \in Faults

Init ==
    /\ kubelet = [p \in Pods |-> "absent"]
    /\ call = Idle
    /\ cache = [c \in Claims |-> {}]
    /\ configured = FALSE
    /\ dirs = {} /\ specs = {} /\ ports = {}
    /\ bridges = Bridges
    /\ leaked = [dirs |-> {}, specs |-> {}, ports |-> {}]
    /\ unplugged = {}
    /\ stable = FALSE

-----------------------------------------------------------------------------
(* The kubelet (external) *)

PodAdded(p) ==
    /\ kubelet[p] = "absent"
    /\ kubelet' = [kubelet EXCEPT ![p] = "starting"]
    /\ UNCHANGED <<call, cache, configured, host, env>>

PodDeleted(p) ==
    /\ kubelet[p] \in {"starting", "running"}
    /\ kubelet' = [kubelet EXCEPT ![p] = "terminating"]
    /\ UNCHANGED <<call, cache, configured, host, env>>

\* A running pod is prepared again when the kubelet lost what it knew.
CallPrepare(p) ==
    /\ call.phase = "idle"
    /\ \/ kubelet[p] = "starting"
       \/ kubelet[p] = "running" /\ ~stable
    /\ call' = [Idle EXCEPT !.op = "prepare", !.phase = "next", !.pod = p,
                            !.todo = ClaimsOf(p)]
    /\ UNCHANGED <<kubelet, cache, configured, host, env>>

CallUnprepare(p) ==
    /\ call.phase = "idle"
    /\ kubelet[p] = "terminating"
    /\ call' = [Idle EXCEPT !.op = "unprepare", !.phase = "next", !.pod = p,
                            !.todo = ClaimsOf(p)]
    /\ UNCHANGED <<kubelet, cache, configured, host, env>>

-----------------------------------------------------------------------------
(* PrepareResourceClaims *)

\* The loop found the claim in the pod manager: nothing is done again.
PrepareCached(c) ==
    /\ call.op = "prepare" /\ call.phase = "next"
    /\ c \in call.todo
    /\ cache[c] # {}
    /\ call' = [call EXCEPT !.todo = @ \ {c}]
    /\ UNCHANGED <<kubelet, cache, configured, host, env>>

\* Variant: the pod manager is not asked first.
PrepareBeginUncached(c) ==
    /\ call.op = "prepare" /\ call.phase = "next"
    /\ c \in call.todo
    /\ Results(c) # {}
    /\ call' = [call EXCEPT !.phase = "device", !.claim = c,
                            !.left = Results(c), !.devs = {}]
    /\ UNCHANGED <<kubelet, cache, configured, host, env>>

\* PrepareResourceClaim starts on a claim that passes its checks.
PrepareBegin(c) ==
    /\ call.op = "prepare" /\ call.phase = "next"
    /\ c \in call.todo
    /\ cache[c] = {}
    /\ Results(c) # {}
    /\ call' = [call EXCEPT !.phase = "device", !.claim = c,
                            !.left = Results(c), !.devs = {}]
    /\ UNCHANGED <<kubelet, cache, configured, host, env>>

\* The allocation has no result of this driver.
NoResults(c) == Results(c) = {}

\* No allocation, no or several ReservedFor entries, an invalid opaque
\* configuration, or no result of this driver: the claim as read from the API
\* server is refused without anything being touched, and the error ends the
\* whole call.
PrepareRejected(c) ==
    /\ call.op = "prepare" /\ call.phase = "next"
    /\ c \in call.todo
    /\ cache[c] = {}
    /\ Fault("reject") \/ NoResults(c)
    /\ call' = Idle
    /\ UNCHANGED <<kubelet, cache, configured, host, env>>

\* Variant: the devices prepared so far are forgotten.
StartRollbackOfNothing ==
    call' = [call EXCEPT !.phase = "clean", !.left = {}, !.dev = NoDevice]

\* What the error returns of the device loop share: rollback of the devices
\* prepared so far.
StartRollback ==
    call' = [call EXCEPT !.phase = "clean", !.left = call.devs,
                         !.dev = NoDevice]

PrepareNoConfig ==
    /\ call.phase = "device" /\ call.left # {}
    /\ ~configured
    /\ StartRollback
    /\ UNCHANGED <<kubelet, cache, configured, host, env>>

CreateSocketDir(d) ==
    /\ call.phase = "device" /\ d \in call.left
    /\ configured
    /\ dirs' = dirs \cup {getSocketDir(d)}
    /\ leaked' = [leaked EXCEPT !.dirs = @ \ {getSocketDir(d)}]
    /\ call' = [call EXCEPT !.phase = "port", !.dev = d, !.left = @ \ {d}]
    /\ UNCHANGED <<kubelet, cache, configured, specs, ports, env>>

\* mkdir fails and changes nothing, or chmod, chown, the SELinux label or an
\* ACL fails and the directory is removed, which may fail as well.
CreateSocketDirFails(d) ==
    /\ call.phase = "device" /\ d \in call.left
    /\ configured
    /\ Fault("io")
    /\ \/ UNCHANGED <<dirs, leaked>>
       \/ /\ dirs' = dirs \ {getSocketDir(d)}
          /\ leaked' = [leaked EXCEPT !.dirs = @ \ {getSocketDir(d)}]
       \/ /\ dirs' = dirs \cup {getSocketDir(d)}
          /\ leaked' = [leaked EXCEPT !.dirs = @ \cup {getSocketDir(d)}]
    /\ StartRollback
    /\ UNCHANGED <<kubelet, cache, configured, specs, ports, env>>

\* OVSDB keeps port names unique.
NameTaken(d) == \E b \in Bridges : <<ovsPortName(d), b>> \in ports

PortDone ==
    call' = [call EXCEPT !.phase = "device", !.dev = NoDevice,
                         !.devs = @ \cup {call.dev}]

CreatePort ==
    /\ call.phase = "port"
    /\ BridgeOf[call.dev] \in bridges
    /\ ~NameTaken(call.dev)
    /\ ports' = ports \cup {Port(call.dev)}
    /\ PortDone
    /\ UNCHANGED <<kubelet, cache, configured, dirs, specs, leaked, env>>

\* The mutation of the missing Bridge row matches no row and is not an error;
\* the unreferenced port is collected when the transaction commits.
CreatePortNoBridge ==
    /\ call.phase = "port"
    /\ BridgeOf[call.dev] \notin bridges
    /\ PortDone
    /\ UNCHANGED <<kubelet, cache, configured, host, env>>

\* Variant: the error is only logged.
CreatePortFailsIgnored ==
    /\ call.phase = "port"
    /\ NameTaken(call.dev) \/ BridgeOf[call.dev] \notin bridges \/ Fault("io")
    /\ PortDone
    /\ UNCHANGED <<kubelet, cache, configured, host, env>>

\* The transaction is refused, or it fails.  When the connection is lost the
\* caller sees an error although the server committed.
CreatePortFails ==
    /\ call.phase = "port"
    /\ \/ /\ NameTaken(call.dev) \/ BridgeOf[call.dev] \notin bridges \/ Fault("io")
          /\ UNCHANGED <<ports, leaked>>
       \/ /\ Fault("commit")
          /\ BridgeOf[call.dev] \in bridges /\ ~NameTaken(call.dev)
          /\ ports' = ports \cup {Port(call.dev)}
          /\ leaked' = [leaked EXCEPT !.ports = @ \cup {Port(call.dev)}]
    /\ call' = [call EXCEPT !.phase = "undo"]
    /\ UNCHANGED <<kubelet, cache, configured, dirs, specs, env>>

\* prepareDevice removes the directory of the failed port and ignores an
\* error of the removal.
UndoSocketDir ==
    /\ call.phase = "undo"
    /\ LET dir == getSocketDir(call.dev) IN
       \/ /\ dirs' = dirs \ {dir}
          /\ leaked' = [leaked EXCEPT !.dirs = @ \ {dir}]
       \/ /\ Fault("io")
          /\ leaked' = [leaked EXCEPT !.dirs = @ \cup {dir}]
          /\ UNCHANGED dirs
    /\ StartRollback
    /\ UNCHANGED <<kubelet, cache, configured, specs, ports, env>>

\* Variant: the file is named after the pod.
CreateClaimSpecFileByPod ==
    /\ call.phase = "device" /\ call.left = {} /\ call.devs # {}
    /\ specs' = specs \cup {call.pod}
    /\ call' = [call EXCEPT !.phase = "commit"]
    /\ UNCHANGED <<kubelet, cache, configured, dirs, ports, leaked, env>>

CreateClaimSpecFile ==
    /\ call.phase = "device" /\ call.left = {} /\ call.devs # {}
    /\ specs' = specs \cup {call.claim}
    /\ leaked' = [leaked EXCEPT !.specs = @ \ {call.claim}]
    /\ call' = [call EXCEPT !.phase = "commit"]
    /\ UNCHANGED <<kubelet, cache, configured, dirs, ports, env>>

\* Variant: the error is only logged.
CreateClaimSpecFileIgnored ==
    /\ call.phase = "device" /\ call.left = {} /\ call.devs # {}
    /\ Fault("io")
    /\ call' = [call EXCEPT !.phase = "commit"]
    /\ UNCHANGED <<kubelet, cache, configured, host, env>>

CreateClaimSpecFileFails ==
    /\ call.phase = "device" /\ call.left = {} /\ call.devs # {}
    /\ Fault("io")
    /\ StartRollback
    /\ UNCHANGED <<kubelet, cache, configured, host, env>>

\* podManager.Set, the result, and on to the next claim of the call.
Commit ==
    /\ call.phase = "commit"
    /\ cache' = [cache EXCEPT ![call.claim] = call.devs]
    /\ call' = [call EXCEPT !.phase = "next", !.todo = @ \ {call.claim},
                            !.claim = NoClaim, !.devs = {}]
    /\ UNCHANGED <<kubelet, configured, host, env>>

\* The kubelet learns that every claim of the pod is prepared, unless the
\* answer is lost.
PrepareReply ==
    /\ call.op = "prepare" /\ call.phase = "next" /\ call.todo = {}
    /\ \/ kubelet' = [kubelet EXCEPT ![call.pod] =
                         IF @ = "starting" THEN "running" ELSE @]
       \/ Fault("reply") /\ UNCHANGED kubelet
    /\ call' = Idle
    /\ UNCHANGED <<cache, configured, host, env>>

-----------------------------------------------------------------------------
(* UnprepareResourceClaims, and the cleanup it shares with rollback *)

UnprepareUnknown(c) ==
    /\ call.op = "unprepare" /\ call.phase = "next"
    /\ c \in call.todo
    /\ cache[c] = {}
    /\ call' = [call EXCEPT !.todo = @ \ {c}]
    /\ UNCHANGED <<kubelet, cache, configured, host, env>>

UnprepareBegin(c) ==
    /\ call.op = "unprepare" /\ call.phase = "next"
    /\ c \in call.todo
    /\ cache[c] # {}
    /\ cache' = [cache EXCEPT ![c] = {}]
    /\ call' = [call EXCEPT !.phase = "clean", !.claim = c,
                            !.left = cache[c], !.devs = cache[c]]
    /\ UNCHANGED <<kubelet, configured, host, env>>

\* unprepareDevice: the spec file first; an error is only logged.
DeleteClaimSpecFile(d) ==
    /\ call.phase = "clean" /\ d \in call.left
    /\ \/ /\ specs' = specs \ {call.claim}
          /\ leaked' = [leaked EXCEPT !.specs = @ \ {call.claim}]
       \/ /\ Fault("io")
          /\ leaked' = [leaked EXCEPT !.specs = @ \cup ({call.claim} \cap specs)]
          /\ UNCHANGED specs
    /\ call' = [call EXCEPT !.phase = "delport", !.dev = d, !.left = @ \ {d}]
    /\ UNCHANGED <<kubelet, cache, configured, dirs, ports, env>>

\* What a failed step of unprepareDevice leaves behind is lost when it was
\* part of a rollback: the error is returned and nothing remembers it.
Lost(x) == IF call.op = "prepare" THEN {x} ELSE {}

\* Variant: every port of the request name is removed.
DeletePortByRequest ==
    /\ call.phase = "delport"
    /\ ports' = {q \in ports : q[1][2] # RequestOf[call.dev]}
    /\ call' = [call EXCEPT !.phase = "rmdir"]
    /\ UNCHANGED <<kubelet, cache, configured, dirs, specs, leaked, env>>

\* Variant: ErrPortNotFound is an error like any other.
DeletePortMustExist ==
    /\ call.phase = "delport"
    /\ ports' = ports \ {Port(call.dev)}
    /\ leaked' = [leaked EXCEPT !.ports = @ \ {Port(call.dev)}]
    /\ call' = [call EXCEPT !.phase = "rmdir", !.err = @ \/ Port(call.dev) \notin ports]
    /\ UNCHANGED <<kubelet, cache, configured, dirs, specs, env>>

\* Variant: a rollback leaves the port behind.
DeletePortNotInRollback ==
    /\ call.phase = "delport"
    /\ ports' = IF call.op = "prepare" THEN ports ELSE ports \ {Port(call.dev)}
    /\ leaked' = [leaked EXCEPT !.ports = @ \ {Port(call.dev)}]
    /\ call' = [call EXCEPT !.phase = "rmdir"]
    /\ UNCHANGED <<kubelet, cache, configured, dirs, specs, env>>

\* The port is looked up by name; the mutation only affects the named
\* bridge, so a port of that name elsewhere is left alone.  ErrPortNotFound
\* counts as success.
DeletePort ==
    /\ call.phase = "delport"
    /\ ports' = ports \ {Port(call.dev)}
    /\ leaked' = [leaked EXCEPT !.ports = @ \ {Port(call.dev)}]
    /\ call' = [call EXCEPT !.phase = "rmdir"]
    /\ UNCHANGED <<kubelet, cache, configured, dirs, specs, env>>

DeletePortFails ==
    /\ call.phase = "delport"
    /\ \/ /\ Fault("io")
          /\ leaked' = [leaked EXCEPT !.ports =
                           @ \cup (Lost(Port(call.dev)) \cap ports)]
          /\ UNCHANGED ports
       \/ /\ Fault("commit") /\ NameTaken(call.dev)
          /\ ports' = ports \ {Port(call.dev)}
          /\ leaked' = [leaked EXCEPT !.ports = @ \ {Port(call.dev)}]
    /\ call' = [call EXCEPT !.phase = "rmdir", !.err = TRUE]
    /\ UNCHANGED <<kubelet, cache, configured, dirs, specs, env>>

RemoveSocketDir ==
    /\ call.phase = "rmdir"
    /\ dirs' = dirs \ {getSocketDir(call.dev)}
    /\ leaked' = [leaked EXCEPT !.dirs = @ \ {getSocketDir(call.dev)}]
    /\ call' = [call EXCEPT !.phase = "clean", !.dev = NoDevice]
    /\ UNCHANGED <<kubelet, cache, configured, specs, ports, env>>

RemoveSocketDirFails ==
    /\ call.phase = "rmdir"
    /\ Fault("io")
    /\ leaked' = [leaked EXCEPT !.dirs =
                     @ \cup (Lost(getSocketDir(call.dev)) \cap dirs)]
    /\ call' = [call EXCEPT !.phase = "clean", !.dev = NoDevice, !.err = TRUE]
    /\ UNCHANGED <<kubelet, cache, configured, dirs, specs, ports, env>>

\* rollback is over: PrepareResourceClaims returns the error at once, and the
\* claims after this one are not looked at.
RollbackEnd ==
    /\ call.op = "prepare" /\ call.phase = "clean" /\ call.left = {}
    /\ call' = Idle
    /\ UNCHANGED <<kubelet, cache, configured, host, env>>

\* Variant: no reinsertion.
UnprepareEndForgets ==
    /\ call.op = "unprepare" /\ call.phase = "clean" /\ call.left = {}
    /\ call' = [call EXCEPT !.phase = "next", !.todo = @ \ {call.claim},
                            !.claim = NoClaim, !.devs = {},
                            !.err = FALSE, !.failed = @ \/ call.err]
    /\ UNCHANGED <<kubelet, cache, configured, host, env>>

\* UnprepareResourceClaims reinserts the devices after an error, and goes on
\* with the other claims in any case.
UnprepareEnd ==
    /\ call.op = "unprepare" /\ call.phase = "clean" /\ call.left = {}
    /\ cache' = IF call.err THEN [cache EXCEPT ![call.claim] = call.devs]
                            ELSE cache
    /\ call' = [call EXCEPT !.phase = "next", !.todo = @ \ {call.claim},
                            !.claim = NoClaim, !.devs = {},
                            !.err = FALSE, !.failed = @ \/ call.err]
    /\ UNCHANGED <<kubelet, configured, host, env>>

\* Variant: the errors of single claims are not reported.
UnprepareReplyAlwaysOk ==
    /\ call.op = "unprepare" /\ call.phase = "next" /\ call.todo = {}
    /\ kubelet' = [kubelet EXCEPT ![call.pod] = "gone"]
    /\ call' = Idle
    /\ UNCHANGED <<cache, configured, host, env>>

\* The kubelet asks again for all claims of the pod until none of them fails.
UnprepareReply ==
    /\ call.op = "unprepare" /\ call.phase = "next" /\ call.todo = {}
    /\ \/ kubelet' = IF call.failed THEN kubelet
                                    ELSE [kubelet EXCEPT ![call.pod] = "gone"]
       \/ Fault("reply") /\ UNCHANGED kubelet
    /\ call' = Idle
    /\ UNCHANGED <<cache, configured, host, env>>

-----------------------------------------------------------------------------
(* The rest of the environment *)

\* The OvsDpdkConfig reconciler calls UpdateConfig.  A nil spec is refused, so
\* the configuration never goes away again while the driver runs.
UpdateConfig ==
    /\ ~configured
    /\ configured' = TRUE
    /\ UNCHANGED <<kubelet, call, cache, host, env>>

\* A crash and the restart after it: what was in memory is gone, what is on
\* the host stays.
Restart ==
    /\ Fault("crash")
    /\ call' = Idle
    /\ cache' = [c \in Claims |-> {}]
    /\ configured' = FALSE
    /\ leaked' = [dirs |-> dirs, specs |-> specs, ports |-> ports]
    /\ UNCHANGED <<kubelet, dirs, specs, ports, env>>

BridgeDeleted(b) ==
    /\ ~stable
    /\ b \in bridges
    /\ bridges' = bridges \ {b}
    /\ ports' = {q \in ports : q[2] # b}
    /\ leaked' = [leaked EXCEPT !.ports = {q \in @ : q[2] # b}]
    /\ unplugged' = unplugged \cup {b}
    /\ UNCHANGED <<kubelet, call, cache, configured, dirs, specs, stable>>

BridgeAdded(b) ==
    /\ b \notin bridges
    /\ bridges' = bridges \cup {b}
    /\ UNCHANGED <<kubelet, call, cache, configured, host, unplugged, stable>>

\* From here on no fault happens: the assumption of the liveness properties.
Stabilise ==
    /\ ~stable
    /\ stable' = TRUE
    /\ UNCHANGED <<kubelet, call, cache, configured, host, bridges, unplugged>>

PrepareStep ==
    \/ \E c \in Claims : PrepareCached(c) \/ PrepareBegin(c) \/ PrepareRejected(c)
    \/ PrepareNoConfig
    \/ \E d \in Devices : CreateSocketDir(d) \/ CreateSocketDirFails(d)
    \/ CreatePort \/ CreatePortNoBridge \/ CreatePortFails
    \/ UndoSocketDir
    \/ CreateClaimSpecFile \/ CreateClaimSpecFileFails
    \/ Commit
    \/ PrepareReply

CleanupStep ==
    \/ \E d \in Devices : DeleteClaimSpecFile(d)
    \/ DeletePort \/ DeletePortFails
    \/ RemoveSocketDir \/ RemoveSocketDirFails
    \/ RollbackEnd

UnprepareStep ==
    \/ \E c \in Claims : UnprepareUnknown(c) \/ UnprepareBegin(c)
    \/ UnprepareEnd
    \/ UnprepareReply

DriverStep == PrepareStep \/ CleanupStep \/ UnprepareStep

KubeletStep ==
    \E p \in Pods : \/ PodAdded(p) \/ PodDeleted(p)
                    \/ CallPrepare(p) \/ CallUnprepare(p)

EnvironmentStep ==
    \/ UpdateConfig
    \/ Restart
    \/ \E b \in Bridges : BridgeDeleted(b) \/ BridgeAdded(b)
    \/ Stabilise

\* Every pod came and went: the one state in which nothing is left to do.
Finished ==
    /\ \A p \in Pods : kubelet[p] = "gone"
    /\ call = Idle
    /\ UNCHANGED vars

Next == DriverStep \/ KubeletStep \/ EnvironmentStep \/ Finished

Spec == Init /\ [][Next]_vars

\* A call that runs makes progress; the config reconciler runs; faults end;
\* the helper's lock is handed to every waiting call in the end, so that the
\* retries of one pod do not starve those of another.
FairSpec ==
    /\ Spec
    /\ WF_vars(DriverStep)
    /\ WF_vars(UpdateConfig)
    /\ WF_vars(Stabilise)
    /\ \A p \in Pods : SF_vars(CallPrepare(p)) /\ SF_vars(CallUnprepare(p))

-----------------------------------------------------------------------------
(* Properties *)

\* The types of the variables: in particular the CDI spec files are per claim.
TypeOK ==
    /\ kubelet \in [Pods -> {"absent", "starting", "running", "terminating", "gone"}]
    /\ call \in Calls
    /\ cache \in [Claims -> SUBSET Devices]
    /\ configured \in BOOLEAN
    /\ dirs \subseteq Dirs
    /\ specs \subseteq Claims
    /\ bridges \subseteq Bridges
    /\ ports \subseteq Ports
    /\ leaked \in [dirs : SUBSET Dirs, specs : SUBSET Claims, ports : SUBSET Ports]
    /\ unplugged \subseteq Bridges
    /\ stable \in BOOLEAN

Cleaning == call.phase \in {"clean", "delport", "rmdir"}

\* The devices the driver still answers for: cached, prepared so far by the
\* call it serves, or still to be cleaned up.  After an error of unprepare
\* that is all of them, for they go back into the pod manager.
CachedDevices == {d \in Devices : d \in cache[ClaimOf[d]]}
CallDevices ==
    IF ~Cleaning THEN call.devs
    ELSE IF call.op = "unprepare" /\ call.err THEN call.devs
    ELSE call.left
Busy(phases) == {d \in {call.dev} : call.phase \in phases}

OwnedDirs ==
    {getSocketDir(d) : d \in CachedDevices \cup CallDevices
                             \cup Busy({"port", "undo", "delport", "rmdir"})}
OwnedPorts ==
    {Port(d) : d \in CachedDevices \cup CallDevices \cup Busy({"delport"})}
OwnedSpecs ==
    {c \in Claims :
        \/ cache[c] # {}
        \/ c = call.claim /\ call.phase = "commit"
        \/ /\ c = call.claim /\ call.op = "unprepare"
           /\ call.err \/ (call.phase = "clean" /\ call.left = call.devs)}

\* Everything the driver put on the host is either still answered for by the
\* driver or was lost through one of the recorded causes: a crash, an OVSDB
\* error after the commit, a failed step of a rollback, or a CDI spec whose
\* removal failed.  No path through prepare, rollback and unprepare drops
\* anything else, in particular no error path of PrepareResourceClaim and no
\* failed unprepare.
EveryOrphanExplained ==
    /\ dirs \subseteq OwnedDirs \cup leaked.dirs
    /\ ports \subseteq OwnedPorts \cup leaked.ports
    /\ specs \subseteq OwnedSpecs \cup leaked.specs

\* A claim that PrepareResourceClaims answers from the pod manager is really
\* there: while its pod is not being torn down, the socket directory of each
\* of its devices and its CDI spec file exist.
CachedIsBacked ==
    \A c \in Claims :
        cache[c] # {} /\ kubelet[ReservedFor[c]] \in {"starting", "running"}
            => /\ c \in specs
               /\ \A d \in cache[c] : getSocketDir(d) \in dirs

\* Such a claim is plugged in as well: each of its devices has its port in OVS,
\* unless the bridge was deleted at some time.  No error of addPort, no rollback
\* and no lost answer leaves a claim in the pod manager without its port.
CachedIsPlugged ==
    \A c \in Claims : kubelet[ReservedFor[c]] \in {"starting", "running"} =>
        \A d \in cache[c] : Port(d) \in ports \/ BridgeOf[d] \in unplugged

\* When the kubelet was told that unprepare succeeded, the driver has
\* forgotten the claims of the pod and left nothing of them on the host but
\* recorded losses.
GoneIsClean ==
    \A c \in Claims : kubelet[ReservedFor[c]] = "gone" =>
        /\ cache[c] = {}
        /\ c \in specs => c \in leaked.specs
        /\ \A d \in Results(c) :
              /\ getSocketDir(d) \in dirs => getSocketDir(d) \in leaked.dirs
              /\ Port(d) \in ports => Port(d) \in leaked.ports

\* Preparing, rolling back or unpreparing one claim never takes away the port
\* of another claim that is prepared; only the removal of the bridge does.
OthersKeepTheirPorts ==
    [][\A d \in CachedDevices :
          Port(d) \in ports /\ Port(d) \notin ports'
              => BridgeOf[d] \notin bridges']_vars

\* A running pod keeps its socket directories until it is torn down.
RunningKeepsDirs ==
    \A d \in Devices :
        kubelet[ReservedFor[ClaimOf[d]]] = "running" => getSocketDir(d) \in dirs

\* After the deletion of the pod its directories and its CDI spec are removed.
PodDeletionRemovesAll ==
    \A c \in Claims : kubelet[ReservedFor[c]] = "gone" =>
        /\ c \notin specs
        /\ \A d \in Results(c) : getSocketDir(d) \notin dirs

\* Unprepare is retried to the end: a pod that terminates is released once
\* faults stop, whatever failed before.
TerminationCompletes ==
    \A p \in Pods : kubelet[p] = "terminating" ~> kubelet[p] = "gone"

\* Prepare is retried to the end, unless a port of a claim was lost on the
\* host: then its name is taken.
Startable(p) ==
    /\ stable
    /\ \A d \in Devices : ReservedFor[ClaimOf[d]] = p =>
          BridgeOf[d] \in bridges /\ Port(d) \notin leaked.ports
StartupCompletes ==
    \A p \in Pods :
        kubelet[p] = "starting" /\ Startable(p) ~> kubelet[p] # "starting"

=============================================================================
