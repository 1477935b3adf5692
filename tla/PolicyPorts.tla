----------------------------- MODULE PolicyPorts -----------------------------
(***************************************************************************)
(* The MTU a port gets from the policies: prepareDevice, a call of         *)
(* the kubelet, reads the spec of its bridge from DeviceState.allocatable, *)
(* which the policy reconciler of PolicyReconcile writes.  The driver      *)
(* registers with the kubelet before its controllers start, so calls are   *)
(* served before the first reconcile.                                      *)
(***************************************************************************)
EXTENDS PolicyReconcile

VARIABLES
    configured, \* DeviceState.vhostUserConfig is not nil
    ports       \* the ports created so far: bridge, MTUs due, MTUs given

PortsInit == Init /\ configured = FALSE /\ ports = {}

\* The reconciler of OvsDpdkConfig, a controller of its own, found the object.
\* Without one it changes nothing: an earlier configuration stays.
UpdateConfig ==
    /\ configured' = TRUE
    /\ UNCHANGED <<vars, ports>>

\* The MTU that ovsPortParams asks for on a bridge.
MtuOf(b, specs) == {s[2] : s \in {t \in specs : t[1] = b}} \ {NoMtu}

\* The scheduler allocates bridges of the published slice.  The call fails
\* without a vhost-user configuration, and in CreatePort when the bridge is
\* gone.  A bridge that is missing in allocatable yields the zero BridgeSpec:
\* no MTU at all.  The MTU due is the one on which the slice and the policies
\* agree.
prepareDevice(b) ==
    /\ configured
    /\ b \in bridges
    /\ \E s \in published : s[1] = b
    /\ ports' = ports \cup
         {[bridge |-> b,
           due |-> MtuOf(b, published \cap SpecsOf(Active)),
           got |-> MtuOf(b, allocatable)]}
    /\ UNCHANGED <<vars, configured>>

\* The configuration is gone with the process; the ports stay.
PortsRestart == Restart /\ configured' = FALSE /\ UNCHANGED ports

PortsNext ==
    \/ RunningStep /\ UNCHANGED <<configured, ports>>
    \/ PortsRestart
    \/ UpdateConfig
    \/ \E b \in Bridges : prepareDevice(b)

PortsSpec == PortsInit /\ [][PortsNext]_<<vars, configured, ports>>

\* The MTU of the policy is requested for every port created on its bridge.
EveryPortGetsItsMtu == \A p \in ports : p.due \subseteq p.got

=============================================================================
