----------------------------- MODULE ClaimStatus -----------------------------
(***************************************************************************)
(* How the driver writes the status of a claim it prepared.  The claim in  *)
(* the API server is shared with the drivers of the claim's other devices, *)
(* which update the same list.  Driver.updateClaimStatus tries a fixed     *)
(* number of times, with the claim it was handed or a refreshed one.  A    *)
(* driver that is restarted knows nothing of the claim, and prepares it    *)
(* and writes its status again.                                            *)
(***************************************************************************)
EXTENDS Integers

CONSTANTS
    Devices,    \* the devices of this driver in the claim
    Others,     \* the other drivers
    Steps,      \* consts.Backoff.Steps
    MaxWrites,  \* bound on the writes of each other driver
    MaxFaults,  \* bound on failing calls
    MaxRestarts \* bound on restarts of the driver

ASSUME StatusConstants ==
    /\ "this" \notin Others
    /\ Devices # {}
    /\ Steps \in Nat \ {0} /\ MaxWrites \in Nat /\ MaxFaults \in Nat
    /\ MaxRestarts \in Nat

VARIABLES
    api,        \* the claim in the API server
    claim,      \* the claim the driver holds
    owned,      \* ownedDevices: this driver's entries when the update began
    state,      \* of the update: see TypeOK
    attempts,   \* calls of UpdateStatus so far
    writes,     \* history: writes per other driver
    faults,     \* history: failing calls that changed nothing
    lost,       \* history: updates that took effect and reported an error
    restarts,   \* history: restarts of the driver
    began       \* history: disturbances up to the last restart

past == <<restarts, began>>
vars == <<api, claim, owned, state, attempts, writes, faults, lost, past>>

\* A claim: its resource version, how often Status.Devices has an entry for
\* each device of this driver, and which entry of each other driver it has.
ClaimObjects == [version : Nat, own : [Devices -> Nat], others : [Others -> Nat]]

Entries(n) == [d \in Devices |-> n]
NoEntries  == Entries(0)

\* Status.Devices has two entries for one device.
Duplicates(c) == \E d \in Devices : c.own[d] > 1

\* Writes of others, lost answers, which count twice because of the conflict
\* with the driver's own write, and failing calls.
Disturbances == api.version + lost + faults

\* Variant: the refreshed claim gets the whole list the driver had before.
mergeReplace(target, old) == [target EXCEPT !.own = owned, !.others = old.others]

\* Variant: the entries are appended without removing earlier ones.
mergeAppend(target, old) == [target EXCEPT !.own = [d \in Devices |-> @[d] + owned[d]]]

\* The refreshed claim without entries of this driver, and then its own.
mergeDeviceStatus(target, old) == [target EXCEPT !.own = owned]

Init ==
    /\ writes = [o \in Others |-> 0]
    /\ api = [version |-> 0, own |-> NoEntries, others |-> writes]
    /\ claim = api
    /\ owned = NoEntries
    /\ state = "preparing"
    /\ attempts = 0 /\ faults = 0 /\ lost = 0
    /\ restarts = 0 /\ began = 0

\* Another driver updates its own entry.
OtherWrites(o) ==
    /\ writes[o] < MaxWrites
    /\ writes' = [writes EXCEPT ![o] = @ + 1]
    /\ api' = [api EXCEPT !.version = @ + 1, !.others[o] = writes[o] + 1]
    /\ UNCHANGED <<claim, owned, state, attempts, faults, lost, past>>

\* Prepare is done: updateClaimStatus of devicestate appended an entry for
\* each device to the claim that the kubelet plugin helper had read, and the
\* driver takes a copy of its entries.
Prepared ==
    /\ state = "preparing"
    /\ claim' = [claim EXCEPT !.own = [d \in Devices |-> @[d] + 1]]
    /\ owned' = claim'.own
    /\ state' = "updating"
    /\ UNCHANGED <<api, attempts, writes, faults, lost, past>>

\* Variant: the number of attempts is not bounded.
RetryForever == attempts' = attempts + 1 /\ state' = "updating"

\* Another attempt, unless it was the last one.
Retry ==
    /\ attempts' = attempts + 1
    /\ state' = IF attempts + 1 = Steps THEN "gaveup" ELSE "updating"

Write == api' = [claim EXCEPT !.version = @ + 1]

UpdateStatus ==
    /\ state = "updating"
    /\ claim.version = api.version
    /\ Write
    /\ attempts' = attempts + 1
    /\ state' = "written"
    /\ UNCHANGED <<claim, owned, writes, faults, lost, past>>

\* The update took effect and its answer was lost.
UpdateStatusLost ==
    /\ state = "updating"
    /\ claim.version = api.version
    /\ lost < MaxFaults
    /\ lost' = lost + 1
    /\ Write
    /\ Retry
    /\ UNCHANGED <<claim, owned, writes, faults, past>>

UpdateStatusFails ==
    /\ state = "updating"
    /\ faults < MaxFaults
    /\ faults' = faults + 1
    /\ Retry
    /\ UNCHANGED <<api, claim, owned, writes, lost, past>>

\* Variant: a conflict is retried like any other error.
ConflictUnrefreshed ==
    /\ state = "updating"
    /\ claim.version # api.version
    /\ Retry
    /\ UNCHANGED <<api, claim, owned, writes, faults, lost, past>>

\* A conflict: the claim is read again and the entries of this driver are
\* merged into it.
Conflict ==
    /\ state = "updating"
    /\ claim.version # api.version
    /\ claim' = mergeDeviceStatus(api, claim)
    /\ Retry
    /\ UNCHANGED <<api, owned, writes, faults, lost, past>>

\* A conflict, and the read fails: the next attempt has the old claim.
ConflictReadFails ==
    /\ state = "updating"
    /\ claim.version # api.version
    /\ faults < MaxFaults
    /\ faults' = faults + 1
    /\ Retry
    /\ UNCHANGED <<api, claim, owned, writes, lost, past>>

\* The API server refuses the list, which the driver treats like any other
\* error: the next attempt has the same list.
UpdateStatusRefused ==
    /\ state = "updating"
    /\ claim.version = api.version
    /\ Duplicates(claim)
    /\ Retry
    /\ UNCHANGED <<api, claim, owned, writes, faults, lost, past>>

\* The kubelet no longer waits for its call: the back-off ends early.
ContextDone ==
    /\ state = "updating"
    /\ state' = "cancelled"
    /\ UNCHANGED <<api, claim, owned, attempts, writes, faults, lost, past>>

\* The driver starts again.  The kubelet repeats its call, the pod manager is
\* empty, and the claim the kubelet plugin helper reads may have the entries
\* of the earlier run.
Restart ==
    /\ restarts < MaxRestarts
    /\ restarts' = restarts + 1
    /\ began' = Disturbances
    /\ claim' = api
    /\ owned' = NoEntries
    /\ state' = "preparing"
    /\ attempts' = 0
    /\ UNCHANGED <<api, writes, faults, lost>>

\* updateClaimStatus has returned; until a restart nothing calls it again for
\* this claim.
Returned == state \in {"written", "gaveup", "cancelled"} /\ UNCHANGED vars

Next ==
    \/ \E o \in Others : OtherWrites(o)
    \/ Prepared
    \/ UpdateStatus \/ UpdateStatusLost \/ UpdateStatusFails
    \/ Conflict \/ ConflictReadFails
    \/ UpdateStatusRefused
    \/ ContextDone \/ Restart \/ Returned

Spec == Init /\ [][Next]_vars

-----------------------------------------------------------------------------
(* Properties *)

\* The types of the variables.
TypeOK ==
    /\ api \in ClaimObjects
    /\ claim \in ClaimObjects
    /\ owned \in [Devices -> Nat]
    /\ state \in {"preparing", "updating", "written", "gaveup", "cancelled"}
    /\ attempts \in 0..Steps
    /\ writes \in [Others -> 0..MaxWrites]
    /\ faults \in 0..MaxFaults
    /\ lost \in 0..MaxFaults
    /\ restarts \in 0..MaxRestarts
    /\ began \in 0..Disturbances

\* The entry another driver wrote last is never lost to an update of this
\* driver, however old the claim is that the update started from.
OthersPreserved == api.others = writes

\* The entries of this driver appear all together, at most once each for every
\* start of the driver, also when an update that took effect was reported as
\* failed and is repeated; and they are there when updateClaimStatus reports
\* success.
OwnEntriesWhole ==
    /\ \E n \in 0..(restarts + 1) : api.own = Entries(n)
    /\ state = "written" => api.own # NoEntries

\* The attempts are used up only by a disturbance each, or by a list that the
\* API server refuses because an earlier run of the driver left its entries.
GivesUpOnlyWhenDisturbed ==
    state = "gaveup" =>
        \/ Disturbances - began >= Steps
        \/ restarts > 0 /\ Duplicates(claim)

=============================================================================
