--------------------------- MODULE SocketDirsProofs ---------------------------
(***************************************************************************)
(* Prepared devices have the permissions of an accepted configuration, for *)
(* any number of devices, versions, accounts and any set of faults.        *)
(***************************************************************************)
EXTENDS SocketDirs, TLAPS

\* DeviceState only ever holds a configuration it accepted, never a newer one
\* than the informer has seen.
ConfigInv ==
    /\ config # 0 => Valid(config)
    /\ config <= seen

\* The device of a running call is not prepared; both reads were accepted
\* configurations, the second one not older than the first.
CallInv ==
    /\ call.step # "idle" => prepared[call.dev] = NotPrepared
    /\ call.step \notin {"idle", "remove"} =>
          /\ Valid(call.root) /\ call.root <= config
    /\ call.step \notin {"idle", "remove", "read"} =>
          /\ Valid(call.spec) /\ call.root <= call.spec /\ call.spec <= config

\* Names in the cache c of resolved names.
Known(u, c) == IsName(u) => c[u.name] # NoID
IdOf(u, c)  == IF IsName(u) THEN c[u.name] ELSE u.id

\* What chown makes of the owner of a directory.
Given(owner, id, found) == IF id = NoID THEN found \/ owner = Root ELSE owner = id

Owned(f, s, found, c) ==
    /\ Known(s.user, c) /\ Given(f.uid, IdOf(s.user, c), found)
    /\ Known(s.group, c) /\ Given(f.gid, IdOf(s.group, c), found)

Labelled(f, s, found) ==
    f.label = s.label \/ ~SELinux \/ (s.label = NoLabel /\ found)

Shared(f, s, found) ==
    /\ s.acl \subseteq f.acl /\ s.acl \subseteq f.default
    /\ ~found => f.acl = s.acl /\ f.default = s.acl

\* What CreateSocketDir has done to f in each step of the call k, for the
\* spec s.  A directory the call did not find belonged to root and had no label
\* and no ACLs when it was made.
Progress(f, s, k, c) ==
    /\ k.step \in {"read", "mkdir"} => k.found = f.exists
    /\ k.step \in {"uid", "gid", "chown", "label", "acl", "default", "rest"} => f.exists
    /\ k.step \in {"gid", "chown"} => Known(s.user, c) /\ k.uid = IdOf(s.user, c)
    /\ k.step = "chown" => Known(s.group, c) /\ k.gid = IdOf(s.group, c)
    /\ k.step \in {"uid", "gid", "chown"} => (~k.found => f.uid = Root /\ f.gid = Root)
    /\ k.step \in {"uid", "gid", "chown", "label"} => (~k.found => f.label = NoLabel)
    /\ k.step \in {"uid", "gid", "chown", "label", "acl"} =>
          (~k.found => f.acl = {} /\ f.default = {})
    /\ k.step \in {"label", "acl", "default", "rest"} => Owned(f, s, k.found, c)
    /\ k.step \in {"acl", "default", "rest"} => Labelled(f, s, k.found)
    /\ k.step = "default" =>
          s.acl \subseteq f.acl /\ (~k.found => f.acl = s.acl /\ f.default = {})
    /\ k.step = "rest" => Shared(f, s, k.found)

DirInv ==
    /\ \A d \in Devices : ~dir[d].exists => dir[d] = Absent
    /\ Progress(dir[call.dev], versions[call.spec], call, cache)

\* The names behind the owners of prepared directories stay resolved.
Made(f, s, found, c) ==
    f.exists /\ Owned(f, s, found, c) /\ Labelled(f, s, found) /\ Shared(f, s, found)

PreparedInv ==
    \A d \in Devices :
        prepared[d] # NotPrepared /\ pod[d] # "terminating" =>
            Made(dir[d], versions[prepared[d].spec], prepared[d].found, cache)

Inv ==
    /\ TypeOK /\ ConfigInv /\ CallInv /\ DirInv
    /\ PreparedUnderConfig /\ PreparedInv

Infos == [root : 0..Len(versions), spec : 0..Len(versions), found : BOOLEAN]
Files == [exists : BOOLEAN, uid : Ids, gid : Ids, label : WellFormed \cup {NoLabel},
          acl : SUBSET Entries, default : SUBSET Entries]
Calls == [step : Steps, dev : Devices, root : 0..Len(versions),
          spec : 0..Len(versions), found : BOOLEAN,
          uid : Ids \cup {NoID}, gid : Ids \cup {NoID}]

\* The records of an idle driver.
LEMMA RecordsTyped ==
    ASSUME TypeOK
    PROVE  NoCall \in Calls /\ Absent \in Files /\ NotPrepared \in Infos
<1>1. (CHOOSE d \in Devices : TRUE) \in Devices
  BY ConstantsAssumption
<1>2. 0 \in 0..Len(versions)
  BY DEF TypeOK
<1>3. Root \in Ids
  BY ConstantsAssumption
<1>4. NoCall \in Calls
  <2>1. "idle" \in Steps
    BY DEF Steps
  <2>2. NoID \in Ids \cup {NoID}
    OBVIOUS
  <2>. QED BY <1>1, <1>2, <2>1, <2>2, Zenon DEF NoCall, Calls
<1>5. Absent \in Files
  <2>1. NoLabel \in WellFormed \cup {NoLabel}
    OBVIOUS
  <2>. QED BY <1>3, <2>1, Zenon DEF Absent, Files
<1>6. NotPrepared \in Infos
  BY <1>2, Zenon DEF NotPrepared, Infos
<1>. QED BY <1>4, <1>5, <1>6

\* An accepted configuration is a vhostUser spec.
LEMMA ValidTyped ==
    ASSUME NEW v, Valid(v)
    PROVE  versions[v] \in VhostUserSpec
BY ConstantsAssumption DEF Valid

\* What a name or a number is resolved to is an ID or -1.
LEMMA ResolveTyped ==
    ASSUME TypeOK, NEW u \in UserGroupID, NEW id, Resolve(u, id)
    PROVE  id \in Ids \cup {NoID} /\ cache' \in [Names -> Ids \cup {NoID}]
<1>1. CASE ~IsName(u)
  BY <1>1 DEF Resolve, IsName, UserGroupID, TypeOK
<1>2. CASE IsName(u)
  <2>1. u.name \in Names
    BY <1>2 DEF IsName, UserGroupID
  <2>2. cache \in [Names -> Ids \cup {NoID}] /\ accounts \in [Names -> Ids \cup {NoID}]
    BY DEF TypeOK
  <2>3. id \in Ids \cup {NoID}
    BY <1>2, <2>1, <2>2 DEF Resolve
  <2>4. cache' = cache \/ cache' = [cache EXCEPT ![u.name] = id]
    BY DEF Resolve
  <2>. QED BY <2>1, <2>2, <2>3, <2>4
<1>. QED BY <1>1, <1>2

\* A call that goes on, and one that failed.
LEMMA ContinueTyped ==
    ASSUME TypeOK, NEW t \in Steps, Continue(t)
    PROVE  call' \in Calls
BY Zenon DEF TypeOK, Calls, Continue

LEMMA FailTyped ==
    ASSUME TypeOK, Fail
    PROVE  call' \in Calls
<1>1. NoCall \in Calls /\ call.dev \in Devices
  BY RecordsTyped, SMTT(30) DEF TypeOK
<1>. QED BY <1>1, Zenon DEF Fail, Calls, Steps

\* What both leave of the call.
LEMMA ContinueFrame ==
    ASSUME TypeOK, NEW t, Continue(t)
    PROVE  /\ call'.step = t /\ call'.dev = call.dev
           /\ call'.root = call.root /\ call'.spec = call.spec
           /\ call'.found = call.found /\ call'.uid = call.uid /\ call'.gid = call.gid
BY DEF TypeOK, Continue

\* The frame of every step that leaves the configuration object alone.
LEMMA SameVersions ==
    ASSUME TypeOK, UNCHANGED versions,
           seen' \in 0..Len(versions), config' \in 0..Len(versions), queued' \in BOOLEAN,
           cache' \in [Names -> Ids \cup {NoID}],
           pod' \in [Devices -> {"starting", "running", "terminating", "gone"}],
           prepared' \in [Devices -> Infos], dir' \in [Devices -> Files], call' \in Calls,
           UNCHANGED world
    PROVE  TypeOK'
BY Zenon DEF TypeOK, Infos, Files, Calls, world

\* Every step keeps the types.
LEMMA TypeStep ==
    ASSUME TypeOK, CallInv, Next
    PROVE  TypeOK'
<1>. DEFINE Pods == [Devices -> {"starting", "running", "terminating", "gone"}]
<1>q. queued \in BOOLEAN
  BY Zenon DEF TypeOK
<1>0. /\ seen \in 0..Len(versions) /\ config \in 0..Len(versions)
      /\ cache \in [Names -> Ids \cup {NoID}] /\ pod \in Pods
      /\ prepared \in [Devices -> Infos] /\ dir \in [Devices -> Files]
      /\ call \in Calls /\ call.dev \in Devices
      /\ NoCall \in Calls /\ Absent \in Files /\ NotPrepared \in Infos
      /\ 0 \in 0..Len(versions)
  <2>1. call \in Calls /\ prepared \in [Devices -> Infos] /\ dir \in [Devices -> Files]
    BY Zenon DEF TypeOK, Infos, Files, Calls
  <2>2. call.dev \in Devices
    BY <2>1 DEF Calls
  <2>3. 0 \in 0..Len(versions)
    BY DEF TypeOK
  <2>. QED BY <2>1, <2>2, <2>3, RecordsTyped, Zenon DEF TypeOK
<1>f. "rest" \in Steps /\ "acl" \in Steps /\ "default" \in Steps /\ "remove" \in Steps
  BY DEF Steps
<1>1. CASE ConfigChanges
  <2>1. PICK c \in VhostUserSpecs \cup {NoVhostUser} : versions' = Append(versions, c)
    BY <1>1 DEF ConfigChanges
  <2>2. /\ versions' \in Seq(VhostUserSpecs \cup {NoVhostUser})
        /\ 0..Len(versions) \subseteq 0..Len(versions)'
    BY <2>1 DEF TypeOK
  <2>3. prepared' \in [Devices -> Infos'] /\ call' \in Calls'
    <3>1. Infos \subseteq Infos' /\ Calls \subseteq Calls'
      BY <2>2 DEF Infos, Calls
    <3>. QED BY <1>0, <1>1, <3>1, Zenon DEF ConfigChanges
  <2>. QED BY <1>0, <1>1, <2>2, <2>3, Zenon DEF ConfigChanges, TypeOK, Infos, Calls, world
<1>2. CASE InformerDelivers
  <2>1. seen' \in 0..Len(versions)
    BY <1>0, <1>2 DEF InformerDelivers, TypeOK
  <2>2. queued' \in BOOLEAN
    BY <1>2, Zenon DEF InformerDelivers
  <2>. QED BY <1>0, <1>2, <2>1, <2>2, SameVersions, Zenon DEF InformerDelivers
<1>3. CASE Reconcile
  <2>1. config' \in 0..Len(versions)
    BY <1>0, <1>3, Zenon DEF Reconcile
  <2>2. queued' \in BOOLEAN
    BY <1>q, <1>3, Zenon DEF Reconcile
  <2>. QED BY <1>0, <1>3, <2>1, <2>2, SameVersions, Zenon DEF Reconcile
<1>4. ASSUME NEW d \in Devices, PrepareDevice(d) PROVE TypeOK'
  <2>1. "read" \in Steps
    BY DEF Steps
  <2>2. dir[d].exists \in BOOLEAN
    BY <1>0, Zenon DEF Files
  <2>3. call' \in Calls
    BY <1>0, <1>4, <2>1, <2>2, Zenon DEF PrepareDevice, Calls
  <2>. QED BY <1>q, <1>0, <1>4, <2>3, SameVersions, Zenon DEF PrepareDevice, control
<1>5. ASSUME NEW d \in Devices, Unprepare(d) PROVE TypeOK'
  <2>1. pod' \in Pods
    BY <1>0, <1>5 DEF Unprepare
  <2>2. prepared' \in [Devices -> Infos] /\ dir' \in [Devices -> Files]
    BY <1>0, <1>5 DEF Unprepare
  <2>. QED BY <1>q, <1>0, <1>5, <2>1, <2>2, SameVersions, Zenon DEF Unprepare, control
<1>6. CASE ReadConfigAgain
  <2>1. "mkdir" \in Steps
    BY DEF Steps
  <2>2. call' \in Calls
    BY <1>0, <1>6, <2>1, Zenon DEF ReadConfigAgain, Calls
  <2>. QED BY <1>q, <1>0, <1>6, <2>2, SameVersions, Zenon DEF ReadConfigAgain, control
<1>7. CASE Mkdir
  <2>1. call' \in Calls
    <3>1. (IF call.spec = 0 THEN "rest" ELSE "uid") \in Steps
      BY DEF Steps
    <3>. QED BY <1>f, <1>0, <1>7, <3>1, ContinueTyped, FailTyped, Zenon DEF Mkdir
  <2>2. dir' \in [Devices -> Files]
    <3>1. [dir[call.dev] EXCEPT !.exists = TRUE] \in Files
      BY <1>0, Zenon DEF Files
    <3>. QED BY <1>0, <1>7, <3>1, Zenon DEF Mkdir, Create
  <2>. QED BY <1>q, <1>0, <1>7, <2>1, <2>2, SameVersions, Zenon DEF Mkdir, control
<1>8. CASE ResolveUID
  <2>1. spec.user \in UserGroupID
    BY <1>8, ValidTyped, Zenon DEF ResolveUID, CallInv, VhostUserSpec, spec
  <2>2. CASE ResolveFails(spec.user) /\ Fail
    BY <1>q, <1>0, <1>f, <1>8, <2>2, SameVersions, FailTyped, Zenon
    DEF ResolveUID, ResolveFails, control
  <2>3. ASSUME NEW id, Resolve(spec.user, id), call' = [call EXCEPT !.step = "gid", !.uid = id]
        PROVE  TypeOK'
    <3>1. id \in Ids \cup {NoID} /\ cache' \in [Names -> Ids \cup {NoID}]
      BY <2>1, <2>3, ResolveTyped
    <3>2. call' \in Calls
      BY <1>0, <2>3, <3>1, Zenon DEF Calls, Steps
    <3>. QED BY <1>q, <1>0, <1>8, <3>1, <3>2, SameVersions, Zenon DEF ResolveUID, control
  <2>. QED BY <1>8, <2>2, <2>3, Zenon DEF ResolveUID
<1>9. CASE ResolveGID
  <2>1. spec.group \in UserGroupID
    BY <1>9, ValidTyped, Zenon DEF ResolveGID, CallInv, VhostUserSpec, spec
  <2>2. CASE ResolveFails(spec.group) /\ Fail
    BY <1>q, <1>0, <1>f, <1>9, <2>2, SameVersions, FailTyped, Zenon
    DEF ResolveGID, ResolveFails, control
  <2>3. ASSUME NEW id, Resolve(spec.group, id), call' = [call EXCEPT !.step = "chown", !.gid = id]
        PROVE  TypeOK'
    <3>1. id \in Ids \cup {NoID} /\ cache' \in [Names -> Ids \cup {NoID}]
      BY <2>1, <2>3, ResolveTyped
    <3>2. call' \in Calls
      BY <1>0, <2>3, <3>1, Zenon DEF Calls, Steps
    <3>. QED BY <1>q, <1>0, <1>9, <3>1, <3>2, SameVersions, Zenon DEF ResolveGID, control
  <2>. QED BY <1>9, <2>2, <2>3, Zenon DEF ResolveGID
<1>10. CASE Chown
  <2>1. CASE Fail /\ UNCHANGED dir
    BY <1>q, <1>0, <1>f, <1>10, <2>1, SameVersions, FailTyped, Zenon DEF Chown, control
  <2>2. CASE /\ dir' = [dir EXCEPT ![call.dev].uid = NewOwner(call.uid, @),
                                   ![call.dev].gid = NewOwner(call.gid, @)]
             /\ call' = [call EXCEPT !.step = "label", !.uid = NoID, !.gid = NoID]
    <3>1. call' \in Calls
      BY <1>0, <2>2, Zenon DEF Calls, Steps
    <3>2. /\ NewOwner(call.uid, dir[call.dev].uid) \in Ids
          /\ NewOwner(call.gid, dir[call.dev].gid) \in Ids
      BY <1>0 DEF NewOwner, Calls, Files
    <3>3. dir' \in [Devices -> Files]
      <4>1. [dir[call.dev] EXCEPT !.uid = NewOwner(call.uid, @), !.gid = NewOwner(call.gid, @)]
               \in Files
        BY <1>0, <3>2, ZenonT(30) DEF Files
      <4>. QED BY <1>0, <2>2, <4>1, ZenonT(30)
    <3>. QED BY <1>q, <1>0, <1>10, <3>1, <3>3, SameVersions, Zenon DEF Chown, control
  <2>. QED BY <1>10, <2>1, <2>2, Zenon DEF Chown
<1>11. CASE ApplySELinuxLabel
  <2>1. spec \in VhostUserSpec
    BY <1>11, ValidTyped DEF ApplySELinuxLabel, CallInv, spec
  <2>2. call' \in Calls
    BY <1>0, <1>f, <1>11, ContinueTyped, FailTyped, Zenon DEF ApplySELinuxLabel
  <2>3. dir' \in [Devices -> Files]
    <3>1. CASE UNCHANGED dir
      BY <1>0, <3>1
    <3>2. CASE /\ spec.label \notin {NoLabel, BadLabel}
               /\ dir' = [dir EXCEPT ![call.dev].label = spec.label]
      <4>1. spec.label \in WellFormed
        BY <2>1, <3>2 DEF VhostUserSpec, Labels
      <4>2. [dir[call.dev] EXCEPT !.label = spec.label] \in Files
        BY <1>0, <4>1, Zenon DEF Files
      <4>. QED BY <1>0, <3>2, <4>2, Zenon
    <3>. QED BY <1>11, <3>1, <3>2, Zenon DEF ApplySELinuxLabel
  <2>. QED BY <1>q, <1>0, <1>11, <2>2, <2>3, SameVersions, Zenon DEF ApplySELinuxLabel, control
<1>12. CASE ApplyACLs
  <2>1. spec \in VhostUserSpec
    BY <1>12, ValidTyped DEF ApplyACLs, CallInv, spec
  <2>2. call' \in Calls
    BY <1>0, <1>f, <1>12, ContinueTyped, FailTyped, Zenon DEF ApplyACLs
  <2>3. dir' \in [Devices -> Files]
    <3>1. [dir[call.dev] EXCEPT !.acl = @ \cup spec.acl] \in Files
      BY <1>0, <2>1, Zenon DEF Files, VhostUserSpec
    <3>. QED BY <1>0, <1>12, <3>1, Zenon DEF ApplyACLs
  <2>. QED BY <1>q, <1>0, <1>12, <2>2, <2>3, SameVersions, Zenon DEF ApplyACLs, control
<1>13. CASE ApplyDefaultACLs
  <2>1. spec \in VhostUserSpec
    BY <1>13, ValidTyped DEF ApplyDefaultACLs, CallInv, spec
  <2>2. call' \in Calls
    BY <1>0, <1>f, <1>13, ContinueTyped, FailTyped, Zenon DEF ApplyDefaultACLs
  <2>3. dir' \in [Devices -> Files]
    <3>1. [dir[call.dev] EXCEPT !.default = @ \cup spec.acl] \in Files
      BY <1>0, <2>1, SMTT(30) DEF Files, VhostUserSpec
    <3>. QED BY <1>0, <1>13, <3>1, Zenon DEF ApplyDefaultACLs
  <2>. QED BY <1>q, <1>0, <1>13, <2>2, <2>3, SameVersions, Zenon DEF ApplyDefaultACLs, control
<1>14. CASE RemoveAfterError
  <2>1. dir' \in [Devices -> Files]
    BY <1>0, <1>14, Zenon DEF RemoveAfterError
  <2>. QED BY <1>q, <1>0, <1>14, <2>1, SameVersions, Zenon DEF RemoveAfterError, control
<1>15. CASE PrepareRest
  <2>1. call' \in Calls
    BY <1>0, <1>f, <1>15, FailTyped, Zenon DEF PrepareRest
  <2>2. pod' \in Pods
    BY <1>0, <1>15 DEF PrepareRest
  <2>3. [root |-> call.root, spec |-> call.spec, found |-> call.found] \in Infos
    BY <1>0, Zenon DEF Infos, Calls
  <2>4. prepared' \in [Devices -> Infos]
    BY <1>0, <1>15, <2>3, ZenonT(30) DEF PrepareRest
  <2>. QED BY <1>q, <1>0, <1>15, <2>1, <2>2, <2>4, SameVersions, Zenon DEF PrepareRest, control
<1>16. CASE AccountsChange
  <2>1. changes' \in 0..MaxAccountChanges
    BY <1>16, ConstantsAssumption DEF AccountsChange, TypeOK
  <2>2. accounts' \in [Names -> Ids \cup {NoID}]
    BY <1>16, Zenon DEF AccountsChange, TypeOK
  <2>. QED BY <1>16, <2>1, <2>2, Zenon DEF AccountsChange, TypeOK, control
<1>17. ASSUME NEW d \in Devices, PodDeleted(d) PROVE TypeOK'
  <2>1. pod' \in Pods
    BY <1>0, <1>17 DEF PodDeleted
  <2>. QED BY <1>q, <1>0, <1>17, <2>1, SameVersions, Zenon DEF PodDeleted, control
<1>18. CASE Restart
  <2>1. cache' \in [Names -> Ids \cup {NoID}]
    BY <1>18, Zenon DEF Restart, Unresolved
  <2>2. prepared' \in [Devices -> Infos]
    BY <1>0, <1>18, Zenon DEF Restart
  <2>3. queued' \in BOOLEAN
    BY <1>18, Zenon DEF Restart
  <2>. QED BY <1>0, <1>18, <2>1, <2>2, <2>3, SameVersions, Zenon DEF Restart
<1>19. CASE Stabilise
  <2>1. stable' \in BOOLEAN
    BY <1>19, Zenon DEF Stabilise
  <2>. QED BY <1>19, <2>1, Zenon DEF Stabilise, TypeOK, control
<1>. QED BY <1>1, <1>2, <1>3, <1>4, <1>5, <1>6, <1>7, <1>8, <1>9, <1>10, <1>11, <1>12,
            <1>13, <1>14, <1>15, <1>16, <1>17, <1>18, <1>19, Zenon
         DEF Next, Calling, Environment

\* The versions of the configuration only grow.
LEMMA ValidKept ==
    ASSUME TypeOK, Next, NEW v, Valid(v)
    PROVE  /\ v \in DOMAIN versions' /\ versions'[v] \in VhostUserSpecs
           /\ versions'[v] = versions[v] /\ v \in 1..Len(versions)
<1>1. versions \in Seq(VhostUserSpecs \cup {NoVhostUser}) /\ v \in 1..Len(versions)
  BY DEF TypeOK, Valid
<1>2. CASE UNCHANGED versions
  BY <1>1, <1>2 DEF Valid
<1>3. CASE ConfigChanges
  <2>1. PICK c \in VhostUserSpecs \cup {NoVhostUser} : versions' = Append(versions, c)
    BY <1>3 DEF ConfigChanges
  <2>. QED BY <1>1, <2>1 DEF Valid
<1>4. UNCHANGED versions \/ ConfigChanges
  BY Zenon DEF Next, Calling, Environment, control, InformerDelivers, Reconcile, PrepareDevice,
     Unprepare, ReadConfigAgain, Mkdir, ResolveUID, ResolveGID, Chown, ApplySELinuxLabel,
     ApplyACLs, ApplyDefaultACLs, RemoveAfterError, PrepareRest, AccountsChange, PodDeleted,
     Restart, Stabilise
<1>. QED BY <1>2, <1>3, <1>4

\* The configuration in force only gets newer, but for a restart.
LEMMA ConfigStep ==
    ASSUME TypeOK, ConfigInv, Next
    PROVE  ConfigInv' /\ (Restart \/ config <= config')
<1>0. seen \in Nat /\ config \in Nat
  BY DEF TypeOK
<1>1. CASE InformerDelivers
  <2>1. seen < seen' /\ seen' \in Int /\ UNCHANGED <<config, versions>>
    BY <1>0, <1>1 DEF InformerDelivers, TypeOK
  <2>. QED BY <1>0, <2>1 DEF ConfigInv, Valid
<1>2. CASE Reconcile
  <2>1. UNCHANGED <<seen, versions>> /\ (config' = config \/ (config' = seen /\ Valid(seen)))
    BY <1>2, Zenon DEF Reconcile
  <2>. QED BY <1>0, <2>1 DEF ConfigInv, Valid
<1>3. CASE Restart
  BY <1>3 DEF Restart, ConfigInv
<1>4. CASE UNCHANGED <<seen, config>>
  <2>1. ASSUME config # 0 PROVE Valid(config)'
    <3>1. Valid(config) BY <2>1 DEF ConfigInv
    <3>2. config' \in DOMAIN versions' /\ versions'[config'] \in VhostUserSpecs
      BY <1>4, <3>1, ValidKept DEF Valid
    <3>. QED BY <3>2 DEF Valid
  <2>. QED BY <1>0, <1>4, <2>1 DEF ConfigInv
<1>5. InformerDelivers \/ Reconcile \/ Restart \/ UNCHANGED <<seen, config>>
  BY Zenon DEF Next, Calling, Environment, control, ConfigChanges, PrepareDevice,
     Unprepare, ReadConfigAgain, Mkdir, ResolveUID, ResolveGID, Chown, ApplySELinuxLabel,
     ApplyACLs, ApplyDefaultACLs, RemoveAfterError, PrepareRest, AccountsChange, PodDeleted,
     Stabilise
<1>. QED BY <1>1, <1>2, <1>3, <1>4, <1>5

\* A call keeps the two configurations it read, and works on a device that is
\* not prepared.
LEMMA CallStep ==
    ASSUME TypeOK, TypeOK', ConfigInv, CallInv, Next
    PROVE  CallInv'
<1>. DEFINE Goes == /\ call'.dev = call.dev /\ call'.root = call.root
                    /\ call'.spec = call.spec
                    /\ call.step \notin {"idle", "remove", "read"}
<1>0. /\ config \in Nat /\ config' \in Int
      /\ call.dev \in Devices /\ call.root \in Nat /\ call.spec \in Nat
  BY DEF TypeOK
<1>1. ASSUME NEW d \in Devices, PrepareDevice(d) PROVE CallInv'
  <2>1. call'.step = "read" /\ call'.dev = d /\ call'.root = config
    BY <1>1 DEF PrepareDevice, NoCall
  <2>2. prepared'[d] = NotPrepared /\ config' = config /\ config # 0
    BY <1>1 DEF PrepareDevice, control
  <2>3. config \in DOMAIN versions' /\ versions'[config] \in VhostUserSpecs
    BY <2>2, ValidKept DEF ConfigInv
  <2>. QED BY <1>0, <2>1, <2>2, <2>3 DEF CallInv, Valid
<1>2. CASE ReadConfigAgain
  <2>1. call'.step = "mkdir" /\ call'.dev = call.dev /\ call'.root = call.root /\ call'.spec = config
    BY <1>2 DEF ReadConfigAgain, TypeOK
  <2>2. prepared'[call.dev] = NotPrepared /\ config' = config /\ call.root <= config
    BY <1>2 DEF ReadConfigAgain, control, CallInv
  <2>3. Valid(call.root) /\ config # 0 /\ Valid(config)
    <3>1. Valid(call.root)
      BY <1>2 DEF ReadConfigAgain, CallInv
    <3>2. call.root # 0
      BY <3>1, ValidKept
    <3>3. config # 0
      BY <1>0, <2>2, <3>2
    <3>. QED BY <3>1, <3>3 DEF ConfigInv
  <2>4. /\ call.root \in DOMAIN versions' /\ versions'[call.root] \in VhostUserSpecs
        /\ config \in DOMAIN versions' /\ versions'[config] \in VhostUserSpecs
    BY <2>3, ValidKept
  <2>. QED BY <1>0, <2>1, <2>2, <2>4 DEF CallInv, Valid
<1>3. CASE call' = NoCall
  BY <1>3 DEF NoCall, CallInv
<1>4. CASE Fail /\ UNCHANGED prepared /\ call.step # "idle"
  <2>1. call'.step = "remove" /\ call'.dev = call.dev
    BY <1>4 DEF Fail, NoCall
  <2>. QED BY <1>4, <2>1 DEF CallInv
<1>5. CASE /\ call' = call /\ config <= config'
           /\ call.step = "idle" \/ UNCHANGED prepared
  <2>1. ASSUME call.step \notin {"idle", "remove"}
        PROVE  call.root \in DOMAIN versions' /\ versions'[call.root] \in VhostUserSpecs
    BY <2>1, ValidKept DEF CallInv
  <2>2. ASSUME call.step \notin {"idle", "remove", "read"}
        PROVE  call.spec \in DOMAIN versions' /\ versions'[call.spec] \in VhostUserSpecs
    BY <2>2, ValidKept DEF CallInv
  <2>. QED BY <1>0, <1>5, <2>1, <2>2 DEF CallInv, Valid
<1>6. CASE Goes /\ config' = config /\ UNCHANGED prepared
  <2>1. /\ Valid(call.root) /\ Valid(call.spec) /\ prepared[call.dev] = NotPrepared
        /\ call.root <= call.spec /\ call.spec <= config
    BY <1>6 DEF CallInv
  <2>2. /\ call.root \in DOMAIN versions' /\ versions'[call.root] \in VhostUserSpecs
        /\ call.spec \in DOMAIN versions' /\ versions'[call.spec] \in VhostUserSpecs
    BY <2>1, ValidKept
  <2>. QED BY <1>0, <1>6, <2>1, <2>2 DEF CallInv, Valid
<1>7. CASE Mkdir \/ ApplySELinuxLabel \/ ApplyACLs \/ ApplyDefaultACLs
  <2>1. ASSUME NEW t, Continue(t) PROVE CallInv'
    BY <1>6, <1>7, <2>1, ContinueFrame
    DEF Mkdir, ApplySELinuxLabel, ApplyACLs, ApplyDefaultACLs, control
  <2>. QED BY <1>3, <1>4, <1>7, <2>1
       DEF Mkdir, ApplySELinuxLabel, ApplyACLs, ApplyDefaultACLs
<1>8. CASE ResolveUID
  <2>1. ASSUME NEW id, call' = [call EXCEPT !.step = "gid", !.uid = id] PROVE CallInv'
    BY <1>6, <1>8, <2>1, Zenon DEF ResolveUID, control, TypeOK
  <2>. QED BY <1>4, <1>8, <2>1, Zenon DEF ResolveUID
<1>9. CASE ResolveGID
  <2>1. ASSUME NEW id, call' = [call EXCEPT !.step = "chown", !.gid = id] PROVE CallInv'
    BY <1>6, <1>9, <2>1, Zenon DEF ResolveGID, control, TypeOK
  <2>. QED BY <1>4, <1>9, <2>1, Zenon DEF ResolveGID
<1>10. CASE Chown
  <2>1. CASE call' = [call EXCEPT !.step = "label", !.uid = NoID, !.gid = NoID]
    BY <1>6, <1>10, <2>1 DEF Chown, control, TypeOK
  <2>. QED BY <1>4, <1>10, <2>1 DEF Chown
<1>11. CASE PrepareRest
  BY <1>3, <1>4, <1>11 DEF PrepareRest
<1>12. CASE RemoveAfterError \/ Restart
  BY <1>3, <1>12 DEF RemoveAfterError, Restart
<1>13. ASSUME NEW d \in Devices, Unprepare(d) PROVE CallInv'
  BY <1>0, <1>5, <1>13 DEF Unprepare, control
<1>14. CASE InformerDelivers \/ Reconcile
  <2>1. ~Restart => CallInv'
    BY <1>5, <1>14, ConfigStep DEF InformerDelivers, Reconcile
  <2>. QED BY <1>12, <2>1
<1>15. CASE ConfigChanges \/ AccountsChange \/ Stabilise
  BY <1>0, <1>5, <1>15 DEF ConfigChanges, AccountsChange, Stabilise, control
<1>16. ASSUME NEW d \in Devices, PodDeleted(d) PROVE CallInv'
  BY <1>0, <1>5, <1>16 DEF PodDeleted, control
<1>. QED BY <1>1, <1>2, <1>7, <1>8, <1>9, <1>10, <1>11, <1>12, <1>13, <1>14, <1>15, <1>16, Zenon
         DEF Next, Calling, Environment

\* Resolving a name keeps the ones that are resolved, and adds its own.
LEMMA ResolveKeeps ==
    ASSUME TypeOK, NEW u \in UserGroupID, NEW id, Resolve(u, id)
    PROVE  /\ Known(u, cache') /\ IdOf(u, cache') = id
           /\ \A w \in UserGroupID : Known(w, cache) =>
                 Known(w, cache') /\ IdOf(w, cache') = IdOf(w, cache)
<1>1. CASE ~IsName(u) \/ cache[u.name] # NoID
  BY <1>1 DEF Resolve, Known, IdOf
<1>2. CASE IsName(u) /\ cache[u.name] = NoID
  <2>1. u.name \in Names
    BY <1>2 DEF IsName, UserGroupID
  <2>2. cache' = [cache EXCEPT ![u.name] = id] /\ id # NoID
    BY <1>2 DEF Resolve
  <2>3. \A n \in Names : n # u.name => cache'[n] = cache[n]
    BY <2>1, <2>2 DEF TypeOK
  <2>4. cache'[u.name] = id
    BY <2>1, <2>2 DEF TypeOK
  <2>5. \A w \in UserGroupID : IsName(w) => w.name \in Names
    BY DEF IsName, UserGroupID
  <2>. QED BY <1>2, <2>2, <2>3, <2>4, <2>5, Zenon DEF Known, IdOf
<1>. QED BY <1>1, <1>2

\* A name stays resolved until the driver restarts.
LEMMA CacheKept ==
    ASSUME TypeOK, CallInv, Next, ~Restart
    PROVE  \A w \in UserGroupID : Known(w, cache) =>
              Known(w, cache') /\ IdOf(w, cache') = IdOf(w, cache)
<1>1. CASE UNCHANGED cache
  BY <1>1, Zenon
<1>2. CASE ResolveUID /\ cache' # cache
  <2>1. spec.user \in UserGroupID
    BY <1>2, ValidTyped, Zenon DEF ResolveUID, CallInv, VhostUserSpec, spec
  <2>2. PICK id : Resolve(spec.user, id)
    BY <1>2, Zenon DEF ResolveUID, ResolveFails
  <2>. QED BY <2>1, <2>2, ResolveKeeps
<1>3. CASE ResolveGID /\ cache' # cache
  <2>1. spec.group \in UserGroupID
    BY <1>3, ValidTyped, Zenon DEF ResolveGID, CallInv, VhostUserSpec, spec
  <2>2. PICK id : Resolve(spec.group, id)
    BY <1>3, Zenon DEF ResolveGID, ResolveFails
  <2>. QED BY <2>1, <2>2, ResolveKeeps
<1>. QED BY <1>1, <1>2, <1>3, ZenonT(30)
     DEF Next, Calling, Environment, InformerDelivers, Reconcile, PrepareDevice, Unprepare,
         ReadConfigAgain, Mkdir, Chown, ApplySELinuxLabel, ApplyACLs, ApplyDefaultACLs,
         RemoveAfterError, PrepareRest, ConfigChanges, AccountsChange, PodDeleted, Stabilise

\* Only the last step of a call prepares a device.
LEMMA PreparedFrame ==
    ASSUME TypeOK, Next, NEW d \in Devices, prepared'[d] # NotPrepared
    PROVE  prepared'[d] = prepared[d] \/ (PrepareRest /\ d = call.dev)
<1>1. CASE PrepareRest
  BY <1>1, Zenon DEF PrepareRest, TypeOK
<1>2. CASE Restart
  BY <1>2 DEF Restart
<1>3. ASSUME NEW e \in Devices, Unprepare(e) PROVE prepared'[d] = prepared[d]
  <2>1. CASE UNCHANGED prepared
    BY <2>1
  <2>2. CASE prepared' = [prepared EXCEPT ![e] = NotPrepared]
    BY <2>2, Zenon DEF TypeOK
  <2>. QED BY <1>3, <2>1, <2>2, Zenon DEF Unprepare
<1>4. CASE UNCHANGED prepared
  BY <1>4
<1>. QED BY <1>1, <1>2, <1>3, <1>4, ZenonT(30)
     DEF Next, Calling, Environment, InformerDelivers, Reconcile, PrepareDevice,
         ReadConfigAgain, Mkdir, ResolveUID, ResolveGID, Chown, ApplySELinuxLabel,
         ApplyACLs, ApplyDefaultACLs, RemoveAfterError, ConfigChanges, AccountsChange,
         PodDeleted, Stabilise

\* Prepared devices keep the versions they were prepared with.
LEMMA UnderConfigStep ==
    ASSUME TypeOK, TypeOK', ConfigInv, CallInv, PreparedUnderConfig, Next
    PROVE  PreparedUnderConfig'
<1>. SUFFICES ASSUME NEW d \in Devices, prepared'[d] # NotPrepared
              PROVE  /\ prepared'[d].root \in DOMAIN versions'
                     /\ versions'[prepared'[d].root] \in VhostUserSpecs
                     /\ prepared'[d].spec \in DOMAIN versions'
                     /\ versions'[prepared'[d].spec] \in VhostUserSpecs
                     /\ prepared'[d].root <= prepared'[d].spec
                     /\ prepared'[d].spec <= config'
  BY DEF PreparedUnderConfig, Valid
<1>0. config \in Nat /\ config' \in Int
  BY DEF TypeOK
<1>1. config <= config'
  <2>1. ~Restart
    BY DEF Restart
  <2>. QED BY <2>1, ConfigStep
<1>2. CASE prepared'[d] = prepared[d]
  <2>1. /\ Valid(prepared[d].root) /\ Valid(prepared[d].spec)
        /\ prepared[d].root <= prepared[d].spec /\ prepared[d].spec <= config
    BY <1>2 DEF PreparedUnderConfig
  <2>2. prepared[d].spec \in Int
    BY <2>1, ValidKept
  <2>. QED BY <1>0, <1>1, <1>2, <2>1, <2>2, ValidKept, SMTT(30)
<1>3. CASE PrepareRest /\ d = call.dev
  <2>1. CASE prepared' = [prepared EXCEPT ![call.dev] =
                             [root |-> call.root, spec |-> call.spec, found |-> call.found]]
    <3>1. /\ Valid(call.root) /\ Valid(call.spec)
          /\ call.root <= call.spec /\ call.spec <= config
      BY <1>3 DEF PrepareRest, CallInv
    <3>2. prepared'[d] = [root |-> call.root, spec |-> call.spec, found |-> call.found]
      BY <1>3, <2>1, ZenonT(30) DEF TypeOK
    <3>3. config' = config
      BY <1>3 DEF PrepareRest, control
    <3>. QED BY <3>1, <3>2, <3>3, ValidKept, SMTT(30)
  <2>. QED BY <1>2, <1>3, <2>1, Zenon DEF PrepareRest
<1>4. prepared'[d] = prepared[d] \/ (PrepareRest /\ d = call.dev)
  BY PreparedFrame
<1>. QED BY <1>2, <1>3, <1>4, SMTT(30)

\* Every step of CreateSocketDir does its part.
LEMMA DirStep ==
    ASSUME TypeOK, TypeOK', ConfigInv, CallInv, DirInv, Next
    PROVE  DirInv'
<1>. DEFINE Others == \A d \in Devices : d # call.dev => dir'[d] = dir[d]
            f == dir[call.dev]
            g == dir'[call.dev]
            s == versions[call.spec]
<1>0. /\ call \in Calls /\ call.dev \in Devices /\ dir \in [Devices -> Files]
      /\ f \in Files /\ NoCall.step = "idle"
  <2>1. call \in Calls /\ dir \in [Devices -> Files]
    BY Zenon DEF TypeOK, Calls, Files
  <2>2. call.dev \in Devices
    BY <2>1 DEF Calls
  <2>3. NoCall.step = "idle"
    BY DEF NoCall
  <2>. QED BY <2>1, <2>2, <2>3
<1>1. ASSUME Others, g.exists \/ g = Absent
      PROVE  \A d \in Devices : ~dir'[d].exists => dir'[d] = Absent
  BY <1>1, ZenonT(30) DEF DirInv
<1>2. ASSUME Fail, Others, g.exists \/ g = Absent PROVE DirInv'
  <2>1. call'.step = "remove"
    BY <1>2, SMTT(30) DEF Fail, NoCall
  <2>. QED BY <1>1, <1>2, <2>1, Zenon DEF DirInv, Progress
<1>3. ASSUME Fail, UNCHANGED dir PROVE DirInv'
  <2>1. call'.step = "remove"
    BY <1>3, SMTT(30) DEF Fail, NoCall
  <2>. QED BY <1>3, <2>1, Zenon DEF DirInv, Progress
<1>4. ASSUME call' = NoCall, \A d \in Devices : ~dir'[d].exists => dir'[d] = Absent PROVE DirInv'
  BY <1>0, <1>4, Zenon DEF DirInv, Progress
<1>5. ASSUME UNCHANGED <<call, dir, cache>> PROVE DirInv'
  <2>1. CASE call.step \in {"idle", "remove", "read"}
    BY <1>5, <2>1, Zenon DEF DirInv, Progress
  <2>2. CASE call.step \notin {"idle", "remove", "read"}
    <3>1. versions'[call.spec] = versions[call.spec]
      BY <2>2, ValidKept, SMTT(30) DEF CallInv
    <3>. QED BY <1>5, <3>1, ZenonT(30) DEF DirInv
  <2>. QED BY <2>1, <2>2, SMTT(30)
<1>6. ASSUME NEW d \in Devices, PrepareDevice(d) PROVE DirInv'
  <2>1. call'.step = "read" /\ call'.dev = d /\ call'.found = dir[d].exists
    BY <1>6 DEF PrepareDevice, NoCall
  <2>2. UNCHANGED dir
    BY <1>6 DEF PrepareDevice
  <2>. QED BY <2>1, <2>2, Zenon DEF DirInv, Progress
<1>7. CASE ReadConfigAgain
  <2>1. call'.step = "mkdir" /\ call'.dev = call.dev /\ call'.found = call.found
    BY <1>0, <1>7 DEF ReadConfigAgain, Calls
  <2>2. UNCHANGED dir
    BY <1>7 DEF ReadConfigAgain
  <2>. QED BY <1>7, <2>1, <2>2 DEF DirInv, Progress, ReadConfigAgain
<1>8. CASE Mkdir
  <2>1. ASSUME Create
        PROVE  /\ Others /\ g.exists
               /\ g.uid = f.uid /\ g.gid = f.gid
               /\ g.label = f.label /\ g.acl = f.acl /\ g.default = f.default
    BY <1>0, <2>1, SMTT(30) DEF Create, Files
  <2>2. ASSUME Create, Continue(IF call.spec = 0 THEN "rest" ELSE "uid") PROVE DirInv'
    <3>1. call.spec # 0
      <4>1. call.step = "mkdir"
        BY <1>8, Zenon DEF Mkdir
      <4>2. Valid(call.spec)
        BY <4>1 DEF CallInv
      <4>3. DOMAIN versions = 1..Len(versions)
        BY DEF TypeOK
      <4>. QED BY <4>2, <4>3 DEF Valid
    <3>2. call'.step = "uid" /\ call'.dev = call.dev /\ call'.found = call.found
      BY <2>2, <3>1, ContinueFrame
    <3>3. ~f.exists => /\ f.uid = Root /\ f.gid = Root
                       /\ f.label = NoLabel /\ f.acl = {} /\ f.default = {}
      <4>1. ~f.exists => f = Absent
        BY <1>0, Zenon DEF DirInv
      <4>. QED BY <4>1 DEF Absent
    <3>4. call.found = f.exists
      BY <1>8, Zenon DEF Mkdir, DirInv, Progress
    <3>. QED BY <1>1, <2>1, <2>2, <3>2, <3>3, <3>4, ZenonT(30) DEF DirInv, Progress
  <2>3. ASSUME call' = NoCall, UNCHANGED dir PROVE DirInv'
    BY <1>4, <2>3 DEF DirInv
  <2>4. ASSUME Create, Fail PROVE DirInv'
    BY <1>2, <2>1, <2>4
  <2>. QED BY <1>8, <2>2, <2>3, <2>4, Zenon DEF Mkdir
<1>v. ASSUME call.step \notin {"idle", "remove", "read"}
      PROVE  versions'[call.spec] = s /\ s.user \in UserGroupID /\ s.group \in UserGroupID
  <2>1. Valid(call.spec)
    BY <1>v DEF CallInv
  <2>2. s \in VhostUserSpec
    BY <2>1, ValidTyped
  <2>. QED BY <2>1, <2>2, ValidKept DEF VhostUserSpec
<1>9. CASE ResolveUID
  <2>1. UNCHANGED dir
    BY <1>9, Zenon DEF ResolveUID
  <2>2. ASSUME NEW id, Resolve(s.user, id), call' = [call EXCEPT !.step = "gid", !.uid = id]
        PROVE  DirInv'
    <3>1. /\ call'.step = "gid" /\ call'.dev = call.dev /\ call'.found = call.found
          /\ call'.uid = id /\ call'.spec = call.spec
      BY <1>0, <2>2 DEF Calls
    <3>2. versions'[call.spec] = s /\ s.user \in UserGroupID
      BY <1>9, <1>v, Zenon DEF ResolveUID
    <3>3. Known(s.user, cache') /\ IdOf(s.user, cache') = id
      BY <2>2, <3>2, ResolveKeeps
    <3>. QED BY <1>9, <2>1, <3>1, <3>2, <3>3, ZenonT(30) DEF ResolveUID, DirInv, Progress
  <2>. QED BY <1>3, <1>9, <2>1, <2>2, Zenon DEF ResolveUID, spec
<1>10. CASE ResolveGID
  <2>1. UNCHANGED dir
    BY <1>10, Zenon DEF ResolveGID
  <2>2. ASSUME NEW id, Resolve(s.group, id), call' = [call EXCEPT !.step = "chown", !.gid = id]
        PROVE  DirInv'
    <3>1. /\ call'.step = "chown" /\ call'.dev = call.dev /\ call'.found = call.found
          /\ call'.uid = call.uid /\ call'.gid = id /\ call'.spec = call.spec
      BY <1>0, <2>2 DEF Calls
    <3>2. versions'[call.spec] = s /\ s.user \in UserGroupID /\ s.group \in UserGroupID
      BY <1>10, <1>v, Zenon DEF ResolveGID
    <3>3. Known(s.user, cache) /\ call.uid = IdOf(s.user, cache)
      BY <1>10, Zenon DEF ResolveGID, DirInv, Progress
    <3>4. /\ Known(s.group, cache') /\ IdOf(s.group, cache') = id
          /\ Known(s.user, cache') /\ IdOf(s.user, cache') = call.uid
      BY <2>2, <3>2, <3>3, ResolveKeeps
    <3>. QED BY <1>10, <2>1, <3>1, <3>2, <3>4, ZenonT(30) DEF ResolveGID, DirInv, Progress
  <2>. QED BY <1>3, <1>10, <2>1, <2>2, Zenon DEF ResolveGID, spec
<1>11. CASE Chown
  <2>1. CASE /\ dir' = [dir EXCEPT ![call.dev].uid = NewOwner(call.uid, @),
                                   ![call.dev].gid = NewOwner(call.gid, @)]
             /\ call' = [call EXCEPT !.step = "label", !.uid = NoID, !.gid = NoID]
    <3>1. /\ Others /\ g.exists = f.exists
          /\ g.uid = NewOwner(call.uid, f.uid) /\ g.gid = NewOwner(call.gid, f.gid)
          /\ g.label = f.label /\ g.acl = f.acl /\ g.default = f.default
      BY <1>0, <2>1 DEF Files
    <3>2. /\ call'.step = "label" /\ call'.dev = call.dev /\ call'.found = call.found
          /\ call'.spec = call.spec
      BY <1>0, <2>1 DEF Calls
    <3>3. versions'[call.spec] = s /\ UNCHANGED cache
      BY <1>11, <1>v DEF Chown
    <3>4. call.step = "chown"
      BY <1>11, Zenon DEF Chown
    <3>5. /\ f.exists /\ (~call.found => f.uid = Root /\ f.gid = Root)
          /\ Known(s.user, cache) /\ call.uid = IdOf(s.user, cache)
          /\ Known(s.group, cache) /\ call.gid = IdOf(s.group, cache)
          /\ ~call.found => f.label = NoLabel /\ f.acl = {} /\ f.default = {}
      BY <3>4, ZenonT(30) DEF DirInv, Progress
    <3>6. Owned(g, s, call.found, cache)
      BY <3>1, <3>5 DEF Owned, Given, NewOwner
    <3>7. Progress(g, s, call', cache)
      BY <3>1, <3>2, <3>5, <3>6, ZenonT(30) DEF Progress
    <3>. QED BY <1>1, <3>1, <3>2, <3>3, <3>5, <3>7, ZenonT(30) DEF DirInv
  <2>. QED BY <1>3, <1>11, <2>1, SMTT(30) DEF Chown
<1>12. CASE ApplySELinuxLabel
  <2>1. ASSUME Continue("acl"), Others, g.exists = f.exists, g.uid = f.uid, g.gid = f.gid,
               g.acl = f.acl, g.default = f.default, Labelled(g, s, call.found)
        PROVE  DirInv'
    <3>1. /\ call'.step = "acl" /\ call'.dev = call.dev /\ call'.found = call.found
          /\ call'.spec = call.spec
      BY <2>1, ContinueFrame
    <3>2. versions'[call.spec] = s /\ UNCHANGED cache
      BY <1>12, <1>v DEF ApplySELinuxLabel
    <3>. QED BY <1>1, <1>12, <2>1, <3>1, <3>2, SMTT(30) DEF ApplySELinuxLabel, DirInv, Progress, Owned
  <2>2. CASE dir' = [dir EXCEPT ![call.dev].label = s.label] /\ Continue("acl")
    BY <1>0, <2>1, <2>2, SMTT(30) DEF Files, Labelled
  <2>3. CASE /\ s.label = NoLabel \/ (s.label # BadLabel /\ ~SELinux)
             /\ Continue("acl") /\ UNCHANGED dir
    <3>1. ~call.found => f.label = NoLabel
      BY <1>12 DEF ApplySELinuxLabel, DirInv, Progress
    <3>2. Labelled(f, s, call.found)
      BY <2>3, <3>1 DEF Labelled
    <3>. QED BY <2>1, <2>3, <3>2
  <2>. QED BY <1>3, <1>12, <2>2, <2>3, SMTT(30) DEF ApplySELinuxLabel, spec
<1>13. CASE ApplyACLs
  <2>0. versions'[call.spec] = s /\ UNCHANGED cache
    BY <1>13, <1>v DEF ApplyACLs
  <2>1. CASE s.acl = {} /\ Continue("rest") /\ UNCHANGED dir
    <3>1. /\ call'.step = "rest" /\ call'.dev = call.dev /\ call'.found = call.found
          /\ call'.spec = call.spec
      BY <2>1, ContinueFrame
    <3>. QED BY <1>13, <2>0, <2>1, <3>1, ZenonT(30) DEF ApplyACLs, DirInv, Progress, Shared
  <2>2. CASE dir' = [dir EXCEPT ![call.dev].acl = @ \cup s.acl] /\ Continue("default")
    <3>1. /\ call'.step = "default" /\ call'.dev = call.dev /\ call'.found = call.found
          /\ call'.spec = call.spec
      BY <2>2, ContinueFrame
    <3>2. /\ Others /\ g.exists = f.exists /\ g.uid = f.uid /\ g.gid = f.gid
          /\ g.label = f.label /\ g.acl = f.acl \cup s.acl /\ g.default = f.default
      BY <1>0, <2>2 DEF Files
    <3>3. call.step = "acl"
      BY <1>13, Zenon DEF ApplyACLs
    <3>4. /\ f.exists /\ Owned(f, s, call.found, cache) /\ Labelled(f, s, call.found)
          /\ ~call.found => f.acl = {} /\ f.default = {}
      BY <3>3, ZenonT(30) DEF DirInv, Progress
    <3>5. /\ g.exists /\ Owned(g, s, call.found, cache) /\ Labelled(g, s, call.found)
          /\ s.acl \subseteq g.acl /\ (~call.found => g.acl = s.acl /\ g.default = {})
      BY <3>2, <3>4, ZenonT(30) DEF Owned, Labelled
    <3>6. Progress(g, s, call', cache)
      BY <3>1, <3>5, Zenon DEF Progress
    <3>. QED BY <1>1, <2>0, <3>1, <3>2, <3>5, <3>6, ZenonT(30) DEF DirInv
  <2>. QED BY <1>3, <1>13, <2>1, <2>2 DEF ApplyACLs, spec
<1>14. CASE ApplyDefaultACLs
  <2>0. versions'[call.spec] = s /\ UNCHANGED cache
    BY <1>14, <1>v DEF ApplyDefaultACLs
  <2>1. CASE dir' = [dir EXCEPT ![call.dev].default = @ \cup s.acl] /\ Continue("rest")
    <3>1. /\ call'.step = "rest" /\ call'.dev = call.dev /\ call'.found = call.found
          /\ call'.spec = call.spec
      BY <2>1, ContinueFrame
    <3>2. /\ Others /\ g.exists = f.exists /\ g.uid = f.uid /\ g.gid = f.gid
          /\ g.label = f.label /\ g.acl = f.acl /\ g.default = f.default \cup s.acl
      BY <1>0, <2>1 DEF Files
    <3>3. call.step = "default"
      BY <1>14, SMTT(30) DEF ApplyDefaultACLs
    <3>4. /\ f.exists /\ Owned(f, s, call.found, cache) /\ Labelled(f, s, call.found)
          /\ s.acl \subseteq f.acl /\ (~call.found => f.acl = s.acl /\ f.default = {})
      BY <3>3, ZenonT(30) DEF DirInv, Progress
    <3>5. g.exists /\ Owned(g, s, call.found, cache) /\ Labelled(g, s, call.found) /\ Shared(g, s, call.found)
      BY <3>2, <3>4, ZenonT(30) DEF Owned, Labelled, Shared
    <3>6. Progress(g, s, call', cache)
      BY <3>1, <3>5, Zenon DEF Progress
    <3>. QED BY <1>1, <2>0, <3>1, <3>2, <3>5, <3>6, Zenon DEF DirInv
  <2>. QED BY <1>3, <1>14, <2>1 DEF ApplyDefaultACLs, spec
<1>15. CASE RemoveAfterError
  <2>1. CASE UNCHANGED dir
    BY <1>4, <1>15, <2>1, Zenon DEF RemoveAfterError, DirInv
  <2>2. CASE dir' = [dir EXCEPT ![call.dev] = Absent]
    <3>1. Others /\ g = Absent
      BY <1>0, <2>2, ZenonT(30)
    <3>. QED BY <1>1, <1>4, <1>15, <3>1, Zenon DEF RemoveAfterError
  <2>. QED BY <1>15, <2>1, <2>2, ZenonT(30) DEF RemoveAfterError
<1>16. CASE PrepareRest
  BY <1>3, <1>4, <1>16, ZenonT(30) DEF PrepareRest, DirInv
<1>17. CASE Restart
  BY <1>4, <1>17, SMTT(30) DEF Restart, DirInv
<1>18. ASSUME NEW d \in Devices, Unprepare(d) PROVE DirInv'
  <2>1. dir' = dir \/ dir' = [dir EXCEPT ![d] = Absent]
    BY <1>18, Zenon DEF Unprepare
  <2>2. \A e \in Devices : ~dir'[e].exists => dir'[e] = Absent
    BY <1>0, <2>1, Zenon DEF DirInv
  <2>3. call' = call /\ call.step = "idle"
    BY <1>18 DEF Unprepare
  <2>. QED BY <2>2, <2>3, Zenon DEF DirInv, Progress
<1>19. CASE ConfigChanges \/ AccountsChange \/ Stabilise \/ InformerDelivers \/ Reconcile
  BY <1>5, <1>19, Zenon
  DEF ConfigChanges, AccountsChange, Stabilise, InformerDelivers, Reconcile
<1>20. ASSUME NEW d \in Devices, PodDeleted(d) PROVE DirInv'
  BY <1>5, <1>20, Zenon DEF PodDeleted
<1>. QED BY <1>6, <1>7, <1>8, <1>9, <1>10, <1>11, <1>12, <1>13, <1>14, <1>15, <1>16, <1>17,
            <1>18, <1>19, <1>20, ZenonT(30)
         DEF Next, Calling, Environment

\* Only its own unprepare touches the directory of a prepared device: the call
\* that runs works on another one.
LEMMA PreparedKept ==
    ASSUME TypeOK, CallInv, Next, NEW d \in Devices,
           prepared[d] # NotPrepared, prepared'[d] = prepared[d]
    PROVE  /\ dir'[d] = dir[d] \/ (pod[d] = "terminating" /\ dir'[d] = Absent)
           /\ pod'[d] = pod[d] \/ pod'[d] = "terminating"
<1>0. /\ dir \in [Devices -> Files]
      /\ pod \in [Devices -> {"starting", "running", "terminating", "gone"}]
  BY ZenonT(30) DEF TypeOK, Files
<1>1. CASE call.step # "idle" /\ Calling
  <2>1. call.dev # d
    BY <1>1 DEF CallInv
  <2>2. dir'[d] = dir[d]
    <3>2. CASE Mkdir
      BY <1>0, <2>1, <3>2 DEF Mkdir, Create
    <3>3. CASE Chown
      BY <1>0, <2>1, <3>3 DEF Chown
    <3>4. CASE ApplySELinuxLabel
      BY <1>0, <2>1, <3>4 DEF ApplySELinuxLabel
    <3>5. CASE ApplyACLs
      BY <1>0, <2>1, <3>5 DEF ApplyACLs
    <3>6. CASE ApplyDefaultACLs
      BY <1>0, <2>1, <3>6 DEF ApplyDefaultACLs
    <3>7. CASE RemoveAfterError
      BY <1>0, <2>1, <3>7 DEF RemoveAfterError
    <3>8. CASE ReadConfigAgain \/ ResolveUID \/ ResolveGID \/ PrepareRest
      BY <3>8, Zenon DEF ReadConfigAgain, ResolveUID, ResolveGID, PrepareRest
    <3>. QED BY <1>1, <3>2, <3>3, <3>4, <3>5, <3>6, <3>7, <3>8, Zenon DEF Calling
  <2>3. pod'[d] = pod[d]
    <3>1. CASE PrepareRest
      BY <1>0, <2>1, <3>1, SMTT(30) DEF PrepareRest
    <3>. QED BY <1>1, <3>1, Zenon
         DEF Calling, ReadConfigAgain, Mkdir, ResolveUID, ResolveGID, Chown, ApplySELinuxLabel,
             ApplyACLs, ApplyDefaultACLs, RemoveAfterError
  <2>. QED BY <2>2, <2>3
<1>2. ASSUME NEW e \in Devices, Unprepare(e)
      PROVE  /\ dir'[d] = dir[d] \/ (pod[d] = "terminating" /\ dir'[d] = Absent)
             /\ pod'[d] = pod[d] \/ pod'[d] = "terminating"
  <2>1. CASE e = d
    BY <1>0, <1>2, <2>1 DEF Unprepare, TypeOK
  <2>2. CASE e # d
    BY <1>0, <1>2, <2>2 DEF Unprepare
  <2>. QED BY <2>1, <2>2, SMTT(30)
<1>3. ASSUME NEW e \in Devices, PodDeleted(e)
      PROVE  dir'[d] = dir[d] /\ (pod'[d] = pod[d] \/ pod'[d] = "terminating")
  BY <1>0, <1>3 DEF PodDeleted
<1>4. CASE UNCHANGED <<dir, pod>>
  BY <1>4
<1>5. Calling => call.step # "idle"
  BY Zenon DEF Calling, ReadConfigAgain, Mkdir, ResolveUID, ResolveGID, Chown, ApplySELinuxLabel,
         ApplyACLs, ApplyDefaultACLs, RemoveAfterError, PrepareRest
<1>. QED BY <1>1, <1>2, <1>3, <1>4, <1>5, Zenon
     DEF Next, Environment, InformerDelivers, Reconcile, PrepareDevice, ConfigChanges,
         AccountsChange, Restart, Stabilise

\* A prepared directory stays as it was made.
LEMMA PreparedStep ==
    ASSUME TypeOK, CallInv, DirInv, PreparedUnderConfig, PreparedInv, Next
    PROVE  PreparedInv'
<1>. SUFFICES ASSUME NEW d \in Devices, prepared'[d] # NotPrepared, pod'[d] # "terminating"
              PROVE  Made(dir'[d], versions'[prepared'[d].spec], prepared'[d].found, cache')
  BY DEF PreparedInv
<1>1. CASE prepared'[d] = prepared[d]
  <2>. DEFINE s == versions[prepared[d].spec]
  <2>1. dir'[d] = dir[d] /\ pod[d] # "terminating"
    BY <1>1, PreparedKept
  <2>2. Made(dir[d], s, prepared[d].found, cache)
    BY <1>1, <2>1, SMTT(30) DEF PreparedInv
  <2>3. versions'[prepared[d].spec] = s /\ s.user \in UserGroupID /\ s.group \in UserGroupID
    <3>1. Valid(prepared[d].spec)
      BY <1>1 DEF PreparedUnderConfig
    <3>2. s \in VhostUserSpec
      BY <3>1, ValidTyped
    <3>. QED BY <3>1, <3>2, ValidKept DEF VhostUserSpec
  <2>4. Owned(dir[d], s, prepared[d].found, cache')
    <3>1. \A w \in UserGroupID : Known(w, cache) =>
             Known(w, cache') /\ IdOf(w, cache') = IdOf(w, cache)
      BY CacheKept, ZenonT(30) DEF Restart
    <3>. QED BY <2>2, <2>3, <3>1, Zenon DEF Made, Owned
  <2>. QED BY <1>1, <2>1, <2>2, <2>3, <2>4, Zenon DEF Made
<1>2. CASE PrepareRest /\ d = call.dev /\ prepared'[d] # prepared[d]
  <2>1. prepared'[d].spec = call.spec /\ prepared'[d].found = call.found
    BY <1>2 DEF PrepareRest, TypeOK
  <2>2. UNCHANGED <<versions, dir, cache>> /\ call.step = "rest"
    BY <1>2 DEF PrepareRest, control
  <2>. QED BY <1>2, <2>1, <2>2, ZenonT(30) DEF DirInv, Progress, Made
<1>. QED BY <1>1, <1>2, PreparedFrame, SMTT(30)

-----------------------------------------------------------------------------

\* The invariant holds when the driver starts.
LEMMA InitInv == Init => Inv
<1>. SUFFICES ASSUME Init PROVE Inv
  BY SMTT(30)
<1>1. /\ versions = <<>> /\ seen = 0 /\ config = 0 /\ call = NoCall /\ changes = 0
      /\ Len(versions) = 0 /\ NoCall.step = "idle"
  BY DEF Init, NoCall
<1>2. TypeOK
  <2>1. versions \in Seq(VhostUserSpecs \cup {NoVhostUser}) /\ 0 \in 0..Len(versions)
    BY <1>1
  <2>2. changes \in 0..MaxAccountChanges
    BY <1>1, ConstantsAssumption
  <2>3. (CHOOSE d \in Devices : TRUE) \in Devices /\ Root \in Ids
    BY ConstantsAssumption
  <2>4. /\ accounts \in [Names -> Ids \cup {NoID}] /\ cache \in [Names -> Ids \cup {NoID}]
        /\ pod \in [Devices -> {"starting", "running", "terminating", "gone"}]
    BY DEF Init, Unresolved
  <2>5. queued \in BOOLEAN /\ stable \in BOOLEAN
    BY Zenon DEF Init
  <2>6. call \in Calls
    <3>1. "idle" \in Steps /\ NoID \in Ids \cup {NoID}
      BY DEF Steps
    <3>. QED BY <1>1, <2>1, <2>3, <3>1, Zenon DEF NoCall, Calls
  <2>7. dir \in [Devices -> Files]
    <3>1. NoLabel \in WellFormed \cup {NoLabel}
      OBVIOUS
    <3>. QED BY <2>3, <3>1, Zenon DEF Init, Absent, Files
  <2>8. prepared \in [Devices -> Infos]
    BY <2>1, Zenon DEF Init, NotPrepared, Infos
  <2>. QED BY <1>1, <2>1, <2>2, <2>4, <2>5, <2>6, <2>7, <2>8, ZenonT(30)
       DEF TypeOK, Calls, Files, Infos
<1>3. ConfigInv /\ CallInv
  BY <1>1, SMTT(30) DEF ConfigInv, CallInv
<1>4. DirInv
  BY <1>1, Zenon DEF Init, DirInv, Progress
<1>5. PreparedUnderConfig /\ PreparedInv
  BY DEF Init, PreparedUnderConfig, PreparedInv
<1>. QED BY <1>2, <1>3, <1>4, <1>5 DEF Inv

\* Every step keeps the invariant.
LEMMA NextInv == Inv /\ [Next]_vars => Inv'
<1>1. ASSUME Inv, Next PROVE Inv'
  <2>1. TypeOK'
    BY <1>1, TypeStep DEF Inv
  <2>. QED BY <1>1, <2>1, ConfigStep, CallStep, DirStep, UnderConfigStep, PreparedStep DEF Inv
<1>2. ASSUME Inv, UNCHANGED vars PROVE Inv'
  <2>1. TypeOK' /\ DirInv'
    BY <1>2, ZenonT(30) DEF vars, Inv, TypeOK, DirInv
  <2>2. ConfigInv' /\ CallInv'
    BY <1>2 DEF vars, Inv, ConfigInv, CallInv, Valid
  <2>3. PreparedUnderConfig' /\ PreparedInv'
    BY <1>2, Zenon DEF vars, Inv, PreparedUnderConfig, PreparedInv, Valid
  <2>. QED BY <2>1, <2>2, <2>3 DEF Inv
<1>. QED BY <1>1, <1>2

\* Both hold in every state of the driver.
LEMMA InvHolds == Spec => []Inv
BY InitInv, NextInv, PTL DEF Spec

\* The variables keep their types: no directory is given a malformed label, or
\* an owner that is not a user or group ID.
THEOREM SocketDirTypes == Spec => []TypeOK
BY InvHolds, PTL DEF Inv

\* Both reads of prepareDevice give a configuration that UpdateConfig accepted.
THEOREM NeverWithoutConfig == Spec => []PreparedUnderConfig
BY InvHolds, PTL DEF Inv

\* The directory of a prepared device has the owner, label and ACLs of one
\* version of the configuration: every step of CreateSocketDir was done, on a
\* directory that nothing else touches.
THEOREM PermissionsApplied == Spec => []PreparedAsConfigured
<1>1. ASSUME NEW u, NEW owner, NEW found, Known(u, cache), Given(owner, IdOf(u, cache), found)
      PROVE  Owns(owner, u, found)
  BY <1>1 DEF Known, Given, IdOf, Owns, Resolved
<1>2. Inv => PreparedAsConfigured
  BY <1>1, ZenonT(30) DEF Inv, PreparedInv, PreparedAsConfigured, Made, Owned, Labelled, Shared
<1>. QED BY <1>2, InvHolds, PTL

\* Neither a new configuration nor a repeated call changes the directory of a
\* prepared device.
THEOREM ExistingDirsKept == Spec => ExistingKept
<1>1. ASSUME Inv, [Next]_vars, NEW d \in Devices, prepared[d] # NotPrepared,
             prepared'[d] = prepared[d], dir'[d].exists
      PROVE  dir'[d] = dir[d]
  <2>1. CASE Next
    BY <1>1, <2>1, PreparedKept DEF Inv, Absent
  <2>2. CASE UNCHANGED vars
    BY <2>2 DEF vars
  <2>. QED BY <1>1, <2>1, <2>2
<1>2. Inv /\ [Next]_vars =>
        [\A d \in Devices :
            prepared[d] # NotPrepared /\ prepared'[d] = prepared[d] /\ dir'[d].exists
                => dir'[d] = dir[d]]_vars
  BY <1>1
<1>. QED BY <1>2, InvHolds, PTL DEF Spec, ExistingKept

=============================================================================
