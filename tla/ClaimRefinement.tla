--------------------------- MODULE ClaimRefinement ---------------------------
(***************************************************************************)
(* The kubelet plugin implements the contract: how the pod manager, the    *)
(* running call and the host give the state of a claim and what it holds.  *)
(***************************************************************************)
EXTENDS ClaimLifecycle

Dir(d)  == <<"dir", d>>
Link(d) == <<"port", d>>
CDI(c)  == <<"spec", c>>

ContractNeeded ==
    [c \in Claims |-> {Dir(d) : d \in Results(c)} \cup {Link(d) : d \in Results(c)} \cup {CDI(c)}]
LinksOn == [b \in Bridges |-> {Link(d) : d \in {x \in Devices : BridgeOf[x] = b}}]

StateOf(c) ==
    IF c = call.claim THEN "busy"
    ELSE IF cache[c] = {} THEN "free"
    ELSE IF kubelet[ReservedFor[c]] = "terminating" THEN "revoked"
    ELSE "granted"

OnHost(x, D, S, P) ==
    \/ x[1] = "dir" /\ getSocketDir(x[2]) \in D
    \/ x[1] = "port" /\ Port(x[2]) \in P
    \/ x[1] = "spec" /\ x[2] \in S

HeldBy(c) == {x \in ContractNeeded[c] : OnHost(x, dirs, specs, ports)}
LostOf(c) == {x \in HeldBy(c) : OnHost(x, leaked.dirs, leaked.specs, leaked.ports)}

ContractState == [c \in Claims |-> StateOf(c)]
ContractHeld  == [c \in Claims |-> HeldBy(c)]
ContractLost  == [c \in Claims |-> LostOf(c)]

Contract == INSTANCE ClaimContract WITH
                Needed <- ContractNeeded, OnBridge <- LinksOn,
                state <- ContractState, held <- ContractHeld, lost <- ContractLost,
                vanished <- unplugged

\* Every step of the kubelet plugin, the kubelet and the faults is a step of the
\* contract or invisible to it.
ContractRefined == Contract!Spec

=============================================================================
