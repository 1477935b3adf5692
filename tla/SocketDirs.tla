------------------------------ MODULE SocketDirs ------------------------------
(***************************************************************************)
(* The OvsDpdkConfig object, on its way from the API server through the    *)
(* reconciler into DeviceState, and what CreateSocketDir makes of it on    *)
(* the host.                                                               *)
(*                                                                         *)
(* The reconciler runs beside the calls of the kubelet, and prepareDevice  *)
(* reads the configuration twice.  A socket directory gets its owner, its  *)
(* SELinux label and its ACLs one after the other; each step can fail, and *)
(* the directory is removed then, which can fail as well.  A directory     *)
(* that was left behind is used again as it is found.  Every claim has one *)
(* device here; ClaimLifecycle has the rest of prepare and unprepare.      *)
(***************************************************************************)
EXTENDS Integers, Sequences

CONSTANTS
    Devices,
    VhostUserSpecs,     \* the contents an OvsDpdkConfig may have
    Users, Groups,      \* names of users and of groups
    Ids,                \* user and group IDs of files
    WellFormed,         \* SELinux labels of four non-empty parts
    Entries,            \* ACL entries
    SELinux,            \* the file system has SELinux labels
    NoVhostUser,        \* an OvsDpdkConfig without vhostUser, or none at all
    MaxVersions,        \* bound: changes of the OvsDpdkConfig
    MaxAccountChanges,  \* bound: changes of the user and group databases
    Faults

NoID     == -1              \* no such account; for chown: leave the ID as it is
NoLabel  == "none"
BadLabel == "malformed"
Root     == 0

\* The keys of userCache and groupCache, which do not mix.
Names == Users \cup Groups

Labels == WellFormed \cup {NoLabel, BadLabel}

\* Files and lookups that fail; reads of the API server that fail; a crash of
\* the driver; another step of prepare or unprepare that fails.
FaultKinds == {"io", "api", "crash", "claim"}

\* A number may be any int32.  chown(2) takes -1 for "do not change"; what it
\* makes of another negative number is one of the IDs.
UserGroupID  == [kind : {"id"}, id : Ids \cup {NoID}] \cup [kind : {"name"}, name : Names]
IsName(ugid) == ugid.kind = "name"

VhostUserSpec ==
    [user : UserGroupID, group : UserGroupID, label : Labels, acl : SUBSET Entries]

ASSUME ConstantsAssumption ==
    /\ Devices # {}
    /\ Ids \subseteq Nat /\ Root \in Ids
    /\ NoLabel \notin WellFormed /\ BadLabel \notin WellFormed
    /\ Users \cap Groups = {}
    /\ VhostUserSpecs \subseteq VhostUserSpec
    /\ \A s \in VhostUserSpecs : /\ IsName(s.user) => s.user.name \in Users
                                 /\ IsName(s.group) => s.group.name \in Groups
    /\ NoVhostUser \notin VhostUserSpecs
    /\ MaxVersions \in Nat /\ MaxAccountChanges \in Nat
    /\ SELinux \in BOOLEAN
    /\ Faults \subseteq FaultKinds

VARIABLES
    versions,   \* what the OvsDpdkConfig contained, one entry per change
    seen,       \* the version in the informer cache; 0: none
    queued,     \* the object is in the work queue of the reconciler
    config,     \* DeviceState.vhostUserConfig: its version; 0: nil
    accounts,   \* the user and group databases of the host
    cache,      \* userResolver.userCache and groupCache
    pod,        \* per device: where the kubelet is in the life of its pod
    prepared,   \* podmanager: versions the device was prepared with
    dir,        \* per device: its socket directory
    call,       \* the prepareDevice that runs
    changes,    \* changes of accounts so far
    stable      \* nothing fails or changes any more

vars == <<versions, seen, queued, config, accounts, cache, pod,
          prepared, dir, call, changes, stable>>
control == <<versions, seen, queued, config>>
world   == <<accounts, changes, stable>>

Absent      == [exists |-> FALSE, uid |-> Root, gid |-> Root, label |-> NoLabel,
                acl |-> {}, default |-> {}]
NotPrepared == [root |-> 0, spec |-> 0, found |-> FALSE]
NoCall      == [step |-> "idle", dev |-> CHOOSE d \in Devices : TRUE,
                root |-> 0, spec |-> 0, found |-> FALSE, uid |-> NoID, gid |-> NoID]

Fault(f) == ~stable /\ f \in Faults

\* The contents of version v that DeviceState accepts.
Valid(v) == v \in DOMAIN versions /\ versions[v] \in VhostUserSpecs

Unresolved == [n \in Names |-> NoID]

Init ==
    /\ versions = <<>> /\ seen = 0
    /\ queued = FALSE /\ config = 0
    /\ accounts = Unresolved
    /\ cache = Unresolved
    /\ pod = [d \in Devices |-> "starting"]
    /\ prepared = [d \in Devices |-> NotPrepared]
    /\ dir = [d \in Devices |-> Absent]
    /\ call = NoCall
    /\ changes = 0 /\ stable = FALSE

-----------------------------------------------------------------------------
(* The API server, the informer and the host's accounts (external) *)

ConfigChanges ==
    /\ ~stable
    /\ Len(versions) < MaxVersions
    /\ \E c \in VhostUserSpecs \cup {NoVhostUser} : versions' = Append(versions, c)
    /\ UNCHANGED <<seen, queued, config, cache, pod, prepared, dir, call, world>>

\* The watch may skip versions; every event queues the object.
InformerDelivers ==
    /\ seen' \in (seen + 1)..Len(versions)
    /\ queued' = TRUE
    /\ UNCHANGED <<versions, config, cache, pod, prepared, dir, call, world>>

AccountsChange ==
    /\ ~stable
    /\ changes < MaxAccountChanges
    /\ changes' = changes + 1
    /\ \E n \in Names : \E i \in (Ids \cup {NoID}) \ {accounts[n]} :
          accounts' = [accounts EXCEPT ![n] = i]
    /\ UNCHANGED <<control, cache, pod, prepared, dir, call, stable>>

PodDeleted(d) ==
    /\ pod[d] \in {"starting", "running"}
    /\ pod' = [pod EXCEPT ![d] = "terminating"]
    /\ UNCHANGED <<control, cache, prepared, dir, call, world>>

-----------------------------------------------------------------------------
(* OvsDpdkConfigReconciler.Reconcile: one worker *)

\* Variant: the configuration of a deleted object is dropped.
ReconcileForgets ==
    /\ queued
    /\ config' = IF Valid(seen) THEN seen ELSE 0
    /\ queued' = FALSE
    /\ UNCHANGED <<versions, seen, cache, pod, prepared, dir, call, world>>

\* Variant: an error of Get is logged and not returned.
ReconcileOnce ==
    /\ queued
    /\ \/ Valid(seen) /\ config' = seen
       \/ (~Valid(seen) \/ Fault("api")) /\ UNCHANGED config
    /\ queued' = FALSE
    /\ UNCHANGED <<versions, seen, cache, pod, prepared, dir, call, world>>

\* Get reads the informer cache.  UpdateConfig refuses a missing object and a
\* missing vhostUser and keeps the old configuration; after an error of either
\* the object is queued again.  Objects of another name are ignored.
Reconcile ==
    /\ queued
    /\ \/ Valid(seen) /\ config' = seen /\ queued' = FALSE
       \/ (~Valid(seen) \/ Fault("api")) /\ UNCHANGED <<config, queued>>
    /\ UNCHANGED <<versions, seen, cache, pod, prepared, dir, call, world>>

-----------------------------------------------------------------------------
(* prepareDevice and CreateSocketDir *)

\* Variant: prepares again what is in the pod manager.
PrepareDeviceAgain(d) ==
    /\ call.step = "idle"
    /\ pod[d] = "starting" \/ (pod[d] = "running" /\ ~stable)
    /\ config # 0
    /\ call' = [NoCall EXCEPT !.step = "read", !.dev = d, !.root = config,
                              !.found = dir[d].exists]
    /\ UNCHANGED <<control, cache, pod, prepared, dir, world>>

\* The kubelet asks for a device that is not in the pod manager; the first
\* read of the configuration, which gives the path inside the container.
\* Without a configuration prepareDevice returns an error at once.
PrepareDevice(d) ==
    /\ call.step = "idle"
    /\ pod[d] = "starting" \/ (pod[d] = "running" /\ ~stable)
    /\ prepared[d] = NotPrepared
    /\ config # 0
    /\ call' = [NoCall EXCEPT !.step = "read", !.dev = d, !.root = config,
                              !.found = dir[d].exists]
    /\ UNCHANGED <<control, cache, pod, prepared, dir, world>>

\* The second read, which gives CreateSocketDir its permissions.
ReadConfigAgain ==
    /\ call.step = "read"
    /\ call' = [call EXCEPT !.step = "mkdir", !.spec = config]
    /\ UNCHANGED <<control, cache, pod, prepared, dir, world>>

spec == versions[call.spec]
Continue(step) == call' = [call EXCEPT !.step = step]
Fail           == call' = [NoCall EXCEPT !.step = "remove", !.dev = call.dev]
Create         == dir' = [dir EXCEPT ![call.dev].exists = TRUE]

\* Variant: Mkdir, which does not accept a directory that is there.
MkdirOnce ==
    /\ call.step = "mkdir"
    /\ \/ ~dir[call.dev].exists /\ Create /\ Continue("uid")
       \/ dir[call.dev].exists /\ call' = NoCall /\ UNCHANGED dir
    /\ UNCHANGED <<control, cache, pod, prepared, world>>

\* MkdirAll is content with a directory that is there; it or chmod may fail.
\* applyPermissions would return at once if it got no configuration.
Mkdir ==
    /\ call.step = "mkdir"
    /\ \/ /\ Create
          /\ Continue(IF call.spec = 0 THEN "rest" ELSE "uid")
       \/ Fault("io") /\ call' = NoCall /\ UNCHANGED dir
       \/ Fault("io") /\ Create /\ Fail
    /\ UNCHANGED <<control, cache, pod, prepared, world>>

\* ResolveUID and ResolveGID return id: a number is taken as it is; a name is
\* looked up once in the life of the driver.
Resolve(ugid, id) ==
    \/ /\ ~IsName(ugid)
       /\ id = ugid.id
       /\ UNCHANGED cache
    \/ /\ IsName(ugid) /\ cache[ugid.name] # NoID
       /\ id = cache[ugid.name]
       /\ UNCHANGED cache
    \/ /\ IsName(ugid) /\ cache[ugid.name] = NoID /\ accounts[ugid.name] # NoID
       /\ id = accounts[ugid.name]
       /\ cache' = [cache EXCEPT ![ugid.name] = id]

\* They return an error, which is not remembered.
ResolveFails(ugid) ==
    /\ IsName(ugid) /\ cache[ugid.name] = NoID
    /\ accounts[ugid.name] = NoID \/ Fault("io")
    /\ UNCHANGED cache

\* applyOwnership in three steps.
ResolveUID ==
    /\ call.step = "uid"
    /\ \/ \E id \in Ids \cup {NoID} :
             Resolve(spec.user, id) /\ call' = [call EXCEPT !.step = "gid", !.uid = id]
       \/ ResolveFails(spec.user) /\ Fail
    /\ UNCHANGED <<control, pod, prepared, dir, world>>

ResolveGID ==
    /\ call.step = "gid"
    /\ \/ \E id \in Ids \cup {NoID} :
             Resolve(spec.group, id) /\ call' = [call EXCEPT !.step = "chown", !.gid = id]
       \/ ResolveFails(spec.group) /\ Fail
    /\ UNCHANGED <<control, pod, prepared, dir, world>>

\* The owner of a file after a chown to id.
NewOwner(id, owner) == IF id = NoID THEN owner ELSE id

Chown ==
    /\ call.step = "chown"
    /\ \/ /\ dir' = [dir EXCEPT ![call.dev].uid = NewOwner(call.uid, @),
                              ![call.dev].gid = NewOwner(call.gid, @)]
          /\ call' = [call EXCEPT !.step = "label", !.uid = NoID, !.gid = NoID]
       \/ Fault("io") /\ Fail /\ UNCHANGED dir
    /\ UNCHANGED <<control, cache, pod, prepared, world>>

\* Variant: the label is not validated.
ApplyAnySELinuxLabel ==
    /\ call.step = "label"
    /\ \/ /\ spec.label # NoLabel /\ SELinux
          /\ dir' = [dir EXCEPT ![call.dev].label = spec.label]
          /\ Continue("acl")
       \/ /\ spec.label = NoLabel \/ ~SELinux
          /\ Continue("acl") /\ UNCHANGED dir
       \/ spec.label # NoLabel /\ Fault("io") /\ Fail /\ UNCHANGED dir
    /\ UNCHANGED <<control, cache, pod, prepared, world>>

\* applySELinuxLabel: no label leaves the one that is there, a malformed one is
\* an error, and a file system without labels is none.
ApplySELinuxLabel ==
    /\ call.step = "label"
    /\ \/ /\ spec.label \notin {NoLabel, BadLabel} /\ SELinux
          /\ dir' = [dir EXCEPT ![call.dev].label = spec.label]
          /\ Continue("acl")
       \/ /\ spec.label = NoLabel \/ (spec.label # BadLabel /\ ~SELinux)
          /\ Continue("acl") /\ UNCHANGED dir
       \/ /\ spec.label = BadLabel \/ (spec.label # NoLabel /\ Fault("io"))
          /\ Fail /\ UNCHANGED dir
    /\ UNCHANGED <<control, cache, pod, prepared, world>>

\* applyACLs: setfacl -m adds to the entries that are there.
ApplyACLs ==
    /\ call.step = "acl"
    /\ \/ spec.acl = {} /\ Continue("rest") /\ UNCHANGED dir
       \/ /\ spec.acl # {}
          /\ dir' = [dir EXCEPT ![call.dev].acl = @ \cup spec.acl]
          /\ Continue("default")
       \/ spec.acl # {} /\ Fault("io") /\ Fail /\ UNCHANGED dir
    /\ UNCHANGED <<control, cache, pod, prepared, world>>

\* Variant: an error of the second setfacl is only logged.
ApplyDefaultACLsIgnored ==
    /\ call.step = "default"
    /\ \/ dir' = [dir EXCEPT ![call.dev].default = @ \cup spec.acl]
       \/ Fault("io") /\ UNCHANGED dir
    /\ Continue("rest")
    /\ UNCHANGED <<control, cache, pod, prepared, world>>

ApplyDefaultACLs ==
    /\ call.step = "default"
    /\ \/ /\ dir' = [dir EXCEPT ![call.dev].default = @ \cup spec.acl]
          /\ Continue("rest")
       \/ Fault("io") /\ Fail /\ UNCHANGED dir
    /\ UNCHANGED <<control, cache, pod, prepared, world>>

\* The directory of a failed device is removed; an error of that is ignored.
RemoveAfterError ==
    /\ call.step = "remove"
    /\ \/ dir' = [dir EXCEPT ![call.dev] = Absent]
       \/ Fault("io") /\ UNCHANGED dir
    /\ call' = NoCall
    /\ UNCHANGED <<control, cache, pod, prepared, world>>

\* The port, the CDI spec and the pod manager.  When one of them fails, the
\* directory is removed by prepareDevice or by rollback.
PrepareRest ==
    /\ call.step = "rest"
    /\ \/ /\ prepared' = [prepared EXCEPT ![call.dev] =
                             [root |-> call.root, spec |-> call.spec, found |-> call.found]]
          /\ pod' = [pod EXCEPT ![call.dev] = IF @ = "starting" THEN "running" ELSE @]
          /\ call' = NoCall
       \/ Fault("claim") /\ Fail /\ UNCHANGED <<prepared, pod>>
    /\ UNCHANGED <<control, cache, dir, world>>

\* Unprepare of a device that is not in the pod manager touches nothing.  After
\* an error, of the directory or of the port before it, the device goes back
\* into the pod manager and the kubelet asks again.
Unprepare(d) ==
    /\ call.step = "idle"
    /\ pod[d] = "terminating"
    /\ \/ /\ prepared[d] = NotPrepared
          /\ pod' = [pod EXCEPT ![d] = "gone"]
          /\ UNCHANGED <<prepared, dir>>
       \/ /\ prepared[d] # NotPrepared
          /\ dir' = [dir EXCEPT ![d] = Absent]
          /\ \/ /\ prepared' = [prepared EXCEPT ![d] = NotPrepared]
                /\ pod' = [pod EXCEPT ![d] = "gone"]
             \/ Fault("claim") /\ UNCHANGED <<prepared, pod>>
       \/ /\ prepared[d] # NotPrepared /\ Fault("io")
          /\ UNCHANGED <<prepared, dir, pod>>
    /\ UNCHANGED <<control, cache, call, world>>

\* Everything in memory is lost: the configuration, the pod manager and the
\* resolved names.  The informer starts over.
Restart ==
    /\ Fault("crash")
    /\ seen' = 0 /\ queued' = FALSE /\ config' = 0
    /\ cache' = Unresolved
    /\ prepared' = [d \in Devices |-> NotPrepared]
    /\ call' = NoCall
    /\ UNCHANGED <<versions, pod, dir, world>>

Stabilise ==
    /\ ~stable
    /\ stable' = TRUE
    /\ UNCHANGED <<control, cache, pod, prepared, dir, call, accounts, changes>>

Calling ==
    \/ ReadConfigAgain
    \/ Mkdir \/ ResolveUID \/ ResolveGID \/ Chown
    \/ ApplySELinuxLabel \/ ApplyACLs \/ ApplyDefaultACLs
    \/ RemoveAfterError
    \/ PrepareRest

Environment ==
    \/ ConfigChanges \/ AccountsChange
    \/ \E d \in Devices : PodDeleted(d)
    \/ Restart
    \/ Stabilise

Next ==
    \/ InformerDelivers
    \/ Reconcile
    \/ \E d \in Devices : PrepareDevice(d) \/ Unprepare(d)
    \/ Calling
    \/ Environment

Spec == Init /\ [][Next]_vars

\* The informer and the reconciler run, a call makes progress, faults end, and
\* the kubelet repeats its calls for every pod.
FairSpec ==
    /\ Spec
    /\ WF_vars(InformerDelivers)
    /\ WF_vars(Reconcile)
    /\ WF_vars(Calling)
    /\ WF_vars(Stabilise)
    /\ \A d \in Devices : SF_vars(PrepareDevice(d)) /\ SF_vars(Unprepare(d))

-----------------------------------------------------------------------------
(* Properties *)

Steps == {"idle", "read", "mkdir", "uid", "gid", "chown", "label",
          "acl", "default", "remove", "rest"}

\* The types of the variables.  A configuration may have a malformed label, a
\* directory never has.
TypeOK ==
    /\ versions \in Seq(VhostUserSpecs \cup {NoVhostUser})
    /\ seen \in 0..Len(versions)
    /\ queued \in BOOLEAN
    /\ config \in 0..Len(versions)
    /\ accounts \in [Names -> Ids \cup {NoID}]
    /\ cache \in [Names -> Ids \cup {NoID}]
    /\ pod \in [Devices -> {"starting", "running", "terminating", "gone"}]
    /\ prepared \in [Devices -> [root : 0..Len(versions), spec : 0..Len(versions),
                                 found : BOOLEAN]]
    /\ dir \in [Devices -> [exists : BOOLEAN, uid : Ids, gid : Ids,
                            label : WellFormed \cup {NoLabel},
                            acl : SUBSET Entries, default : SUBSET Entries]]
    /\ call \in [step : Steps, dev : Devices, root : 0..Len(versions),
                 spec : 0..Len(versions), found : BOOLEAN,
                 uid : Ids \cup {NoID}, gid : Ids \cup {NoID}]
    /\ changes \in 0..MaxAccountChanges
    /\ stable \in BOOLEAN

\* What applyOwnership makes of a user or a group: the ID of the name, or the
\* number; -1 leaves a directory it made to root and one it found to its owner.
Resolved(ugid) == IF IsName(ugid) THEN cache[ugid.name] ELSE ugid.id
Owns(owner, ugid, found) ==
    IF ~IsName(ugid) /\ ugid.id = NoID THEN found \/ owner = Root
                                      ELSE owner = Resolved(ugid)

\* The directory of a prepared device has the owner, the label and the ACLs of
\* one version of the configuration, whatever was changed since, and the IDs
\* behind a name are the same for all directories of one run of the driver.
\* Only a directory that was there before can have more than that.
PreparedAsConfigured ==
    \A d \in Devices :
        prepared[d] # NotPrepared /\ pod[d] # "terminating" =>
            LET s == versions[prepared[d].spec] IN
            /\ dir[d].exists
            /\ Owns(dir[d].uid, s.user, prepared[d].found)
            /\ Owns(dir[d].gid, s.group, prepared[d].found)
            /\ dir[d].label = s.label \/ ~SELinux \/ (s.label = NoLabel /\ prepared[d].found)
            /\ s.acl \subseteq dir[d].acl /\ s.acl \subseteq dir[d].default
            /\ ~prepared[d].found => dir[d].acl = s.acl /\ dir[d].default = s.acl

\* Both reads of prepareDevice give a configuration that UpdateConfig accepted,
\* the second one not an older one: although only the first is compared with
\* nil, no device is prepared without permissions.
PreparedUnderConfig ==
    \A d \in Devices : prepared[d] # NotPrepared =>
        /\ Valid(prepared[d].root) /\ Valid(prepared[d].spec)
        /\ prepared[d].root <= prepared[d].spec
        /\ prepared[d].spec <= config

\* Existing socket directories keep their owner, label and ACLs when the
\* configuration changes and when the kubelet asks for them again.
ExistingKept ==
    [][\A d \in Devices :
          prepared[d] # NotPrepared /\ prepared'[d] = prepared[d] /\ dir'[d].exists
              => dir'[d] = dir[d]]_vars

\* The last accepted configuration is the one in force in the end, across
\* errors, skipped versions and restarts.
ConfigTakesEffect ==
    stable /\ Valid(Len(versions)) ~> config = Len(versions)

\* A configuration that no directory can be made with, for a user that does
\* not exist or a malformed label, does no harm once it is corrected.
Usable(s) ==
    /\ s.label # BadLabel
    /\ IsName(s.user) => accounts[s.user.name] # NoID
    /\ IsName(s.group) => accounts[s.group.name] # NoID
BadConfigIsCured ==
    \A d \in Devices :
        pod[d] = "starting" /\ stable /\ Valid(Len(versions)) /\ Usable(versions[Len(versions)])
            ~> pod[d] # "starting"

=============================================================================
