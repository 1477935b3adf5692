---------------------------- MODULE ClaimContract ----------------------------
(***************************************************************************)
(* What the driver promises of every claim: a claim is worked on alone, is *)
(* granted only when all it needs is on the host, is worked on again only  *)
(* after it was given up, and is released only when nothing of it is left  *)
(* but recorded losses.  Nothing a claim holds changes while the driver    *)
(* works on another claim; only a bridge takes its ports along.            *)
(***************************************************************************)
CONSTANTS
    Claims,
    Needed,     \* per claim: the items on the host that make it up
    Bridges,
    OnBridge    \* per bridge: the items that go with it

VARIABLES
    state,      \* per claim: "free", "busy", "granted" or "revoked"
    held,       \* per claim: its items on the host
    lost,       \* per claim: the items nobody will clean up
    bridges,    \* the bridges that are there
    vanished    \* the bridges that were away at some time

vars == <<state, held, lost, bridges, vanished>>

Init ==
    /\ state = [c \in Claims |-> "free"]
    /\ held = [c \in Claims |-> {}]
    /\ lost = [c \in Claims |-> {}]
    /\ bridges = Bridges /\ vanished = {}

Move(c, to) ==
    /\ state' = [state EXCEPT ![c] = to]
    /\ UNCHANGED <<held, lost, bridges, vanished>>

\* Prepare starts on a free claim, unprepare on a revoked one.
Begin(c) ==
    /\ state[c] \in {"free", "revoked"}
    /\ \A x \in Claims : state[x] # "busy"
    /\ Move(c, "busy")

\* The host state of the one busy claim changes.
Work(c) ==
    /\ state[c] = "busy"
    /\ UNCHANGED <<state, bridges, vanished>>
    /\ held'[c] \subseteq Needed[c] /\ held' = [held EXCEPT ![c] = held'[c]]
    /\ lost'[c] \subseteq Needed[c] /\ lost' = [lost EXCEPT ![c] = lost'[c]]

\* All that is needed is there, but for what a bridge may have taken along.
Grant(c) ==
    /\ state[c] = "busy"
    /\ Needed[c] \ UNION {OnBridge[b] : b \in vanished} \subseteq held[c]
    /\ Move(c, "granted")

Retain(c)  == state[c] = "busy" /\ Move(c, "revoked")
Release(c) == state[c] = "busy" /\ held[c] \subseteq lost[c] /\ Move(c, "free")

\* The kubelet gives up some of the granted claims.
Revoke(S) ==
    /\ \A c \in S : state[c] = "granted"
    /\ state' = [c \in Claims |-> IF c \in S THEN "revoked" ELSE state[c]]
    /\ UNCHANGED <<held, lost, bridges, vanished>>

\* The ports of a bridge disappear with it, whoever holds them, ...
Vanish(b) ==
    /\ b \in bridges
    /\ bridges' = bridges \ {b} /\ vanished' = vanished \cup {b}
    /\ held' = [c \in Claims |-> held[c] \ OnBridge[b]]
    /\ lost' = [c \in Claims |-> lost[c] \ OnBridge[b]]
    /\ UNCHANGED state

\* ... and are not there when it comes back.
Appear(b) ==
    /\ b \notin bridges
    /\ bridges' = bridges \cup {b}
    /\ UNCHANGED <<state, held, lost, vanished>>

\* A crash: the driver forgets every claim.
Restart ==
    /\ state' = [c \in Claims |-> "free"]
    /\ lost' = held
    /\ UNCHANGED <<held, bridges, vanished>>

Next ==
    \/ \E c \in Claims : Begin(c) \/ Work(c) \/ Grant(c) \/ Retain(c) \/ Release(c)
    \/ \E S \in SUBSET Claims : Revoke(S)
    \/ \E b \in Bridges : Vanish(b) \/ Appear(b)
    \/ Restart

Spec == Init /\ [][Next]_vars
=============================================================================
