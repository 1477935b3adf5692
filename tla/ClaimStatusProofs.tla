-------------------------- MODULE ClaimStatusProofs --------------------------
(***************************************************************************)
(* The status of a claim is written without harm to the entries of other   *)
(* drivers, for any number of devices, drivers, attempts and restarts.     *)
(***************************************************************************)
EXTENDS ClaimStatus, TLAPS

\* The claim the driver holds is a version of the claim in the API server, and
\* the entries of the others in it belong to that version.
CopyInv ==
    /\ claim.version <= api.version
    /\ claim.version = api.version => claim.others = api.others

\* How many entries per device the two claims have.
WholeInv ==
    /\ \E n \in 0..(restarts + 1) : api.own = Entries(n)
    /\ state = "preparing" =>
          /\ \E n \in 0..restarts : api.own = Entries(n)
          /\ \E n \in 0..restarts : claim.own = Entries(n)
    /\ state # "preparing" =>
          owned = claim.own /\ \E n \in 1..(restarts + 1) : claim.own = Entries(n)
    /\ state = "written" => api.own = owned

\* Every attempt is paid for: by the version of the claim that came back after
\* a conflict, by a lost answer or by a failing call.
BudgetInv ==
    /\ state = "preparing" => attempts = 0
    /\ state = "updating" => attempts < Steps
    /\ state = "gaveup" => attempts = Steps
    /\ began <= claim.version + lost + faults
    /\ \/ state = "written" \/ Duplicates(claim)
       \/ attempts <= claim.version + lost + faults - began
    /\ state = "preparing" => attempts <= claim.version + lost + faults - began

Inv == TypeOK /\ OthersPreserved /\ CopyInv /\ WholeInv /\ BudgetInv

\* The types of the fields.
LEMMA FieldTypes ==
    ASSUME TypeOK
    PROVE  /\ api.version \in Nat /\ api.own \in [Devices -> Nat] /\ api.others \in [Others -> Nat]
           /\ claim.version \in Nat /\ claim.own \in [Devices -> Nat]
           /\ claim.others \in [Others -> Nat]
           /\ attempts \in Nat /\ faults \in Nat /\ lost \in Nat /\ restarts \in Nat
           /\ began \in Nat /\ Steps \in Nat \ {0}
BY StatusConstants DEF TypeOK, ClaimObjects, Disturbances

\* What Retry does to the state.
LEMMA RetryTyped ==
    ASSUME TypeOK, state = "updating", attempts < Steps, Retry
    PROVE  /\ attempts' = attempts + 1 /\ attempts' \in 0..Steps
           /\ state' \in {"updating", "gaveup"}
           /\ state' = "updating" => attempts' < Steps
           /\ state' = "gaveup" => attempts' = Steps
BY FieldTypes DEF Retry

\* The bookkeeping of every step that gives up nothing that was counted.
LEMMA CountsTyped ==
    ASSUME TypeOK, api' \in ClaimObjects, claim' \in ClaimObjects, owned' \in [Devices -> Nat],
           state' \in {"preparing", "updating", "written", "gaveup", "cancelled"},
           attempts' \in 0..Steps, writes' \in [Others -> 0..MaxWrites],
           faults' \in 0..MaxFaults, lost' \in 0..MaxFaults, UNCHANGED past,
           api.version <= api'.version, faults <= faults', lost <= lost'
    PROVE  TypeOK'
<1>1. api'.version \in Nat
  BY DEF ClaimObjects
<1>. QED BY <1>1, FieldTypes DEF TypeOK, Disturbances, past

\* Steps that leave the claim the driver holds alone, and cost an attempt that
\* is paid for, or none.
LEMMA HeldClaim ==
    ASSUME Inv, UNCHANGED <<claim, owned, past>>, api' \in ClaimObjects,
           api.version <= api'.version, api'.others = writes',
           claim.version = api'.version => api' = api,
           writes' \in [Others -> 0..MaxWrites],
           faults <= faults', lost <= lost',
           faults' \in 0..MaxFaults, lost' \in 0..MaxFaults,
           \/ attempts' = attempts /\ state' = state /\ api'.own = api.own
           \/ /\ state = "updating" /\ Retry
              /\ attempts' - attempts <= (faults' - faults) + (lost' - lost)
              /\ api'.own \in {api.own, claim.own}
    PROVE  Inv'
<1>0. /\ TypeOK /\ OthersPreserved /\ CopyInv /\ WholeInv /\ BudgetInv
      /\ api'.version \in Nat
  BY DEF Inv, ClaimObjects
<1>1. attempts' \in 0..Steps /\ state' \in {"preparing", "updating", "written", "gaveup", "cancelled"}
  BY <1>0, RetryTyped DEF TypeOK, BudgetInv
<1>2. TypeOK'
  <2>1. claim' \in ClaimObjects /\ owned' \in [Devices -> Nat] /\ UNCHANGED past
    BY <1>0 DEF TypeOK
  <2>. QED BY <1>0, <1>1, <2>1, CountsTyped
<1>3. OthersPreserved' /\ CopyInv'
  BY <1>0, FieldTypes DEF OthersPreserved, CopyInv
<1>4. WholeInv'
  BY <1>0, <1>1, FieldTypes, RetryTyped DEF WholeInv, past, BudgetInv
<1>5. BudgetInv'
  <2>1. /\ claim'.version = claim.version /\ began' = began /\ Duplicates(claim)' = Duplicates(claim)
        /\ faults' \in Nat /\ lost' \in Nat /\ attempts' \in Nat
    BY <1>1, StatusConstants DEF past, Duplicates
  <2>2. CASE attempts' = attempts /\ state' = state
    BY <1>0, <2>1, <2>2, FieldTypes DEF BudgetInv
  <2>3. CASE /\ state = "updating" /\ Retry
             /\ attempts' - attempts <= (faults' - faults) + (lost' - lost)
    <3>1. /\ state' # "preparing" /\ (state' = "updating" => attempts' < Steps)
          /\ state' = "gaveup" => attempts' = Steps
      BY <1>0, <2>3, RetryTyped DEF BudgetInv
    <3>. QED BY <1>0, <2>1, <2>3, <3>1, FieldTypes DEF BudgetInv
  <2>. QED BY <2>2, <2>3
<1>. QED BY <1>2, <1>3, <1>4, <1>5 DEF Inv

\* Every step keeps the invariant.
LEMMA NextInv == Inv /\ [Next]_vars => Inv'
<1>. SUFFICES ASSUME Inv, [Next]_vars PROVE Inv'
  OBVIOUS
<1>0. /\ TypeOK /\ OthersPreserved /\ CopyInv /\ WholeInv /\ BudgetInv
      /\ api \in ClaimObjects /\ claim \in ClaimObjects
  BY DEF Inv, TypeOK
<1>1. ASSUME NEW o \in Others, OtherWrites(o) PROVE Inv'
  <2>1. /\ api'.version = api.version + 1 /\ api'.own = api.own
        /\ api'.others = [api.others EXCEPT ![o] = writes[o] + 1]
        /\ api' \in ClaimObjects
    <3>1. api' = [api EXCEPT !.version = @ + 1, !.others[o] = writes[o] + 1]
      BY <1>1 DEF OtherWrites
    <3>2. /\ api'.version = api.version + 1 /\ api'.own = api.own
          /\ api'.others = [api.others EXCEPT ![o] = writes[o] + 1]
      BY <1>0, <3>1 DEF ClaimObjects
    <3>3. writes[o] + 1 \in Nat
      BY <1>0, StatusConstants DEF TypeOK
    <3>4. [api.others EXCEPT ![o] = writes[o] + 1] \in [Others -> Nat]
      BY <1>0, <3>3, FieldTypes
    <3>5. api' = [api EXCEPT !.version = api.version + 1,
                             !.others = [api.others EXCEPT ![o] = writes[o] + 1]]
      BY <1>0, <3>1 DEF ClaimObjects
    <3>6. api.version + 1 \in Nat
      BY <1>0, FieldTypes
    <3>. QED BY <1>0, <3>2, <3>4, <3>5, <3>6, FieldTypes, Zenon DEF ClaimObjects
  <2>2. writes' \in [Others -> 0..MaxWrites] /\ api'.others = writes'
    BY <1>0, <1>1, <2>1, StatusConstants DEF OtherWrites, TypeOK, OthersPreserved
  <2>3. /\ UNCHANGED <<claim, owned, past>> /\ faults' = faults /\ lost' = lost
        /\ attempts' = attempts /\ state' = state
    BY <1>1 DEF OtherWrites
  <2>4. faults' \in 0..MaxFaults /\ lost' \in 0..MaxFaults
    BY <1>0, <2>3 DEF TypeOK
  <2>5. api.version <= api'.version /\ claim.version # api'.version
    BY <1>0, <2>1, FieldTypes DEF CopyInv
  <2>. QED BY <1>0, <2>1, <2>2, <2>3, <2>4, <2>5, FieldTypes, HeldClaim
<1>2. CASE Prepared
  <2>1. /\ claim'.version = claim.version /\ claim'.others = claim.others
        /\ claim'.own = [d \in Devices |-> claim.own[d] + 1]
        /\ claim' \in ClaimObjects
    BY <1>0, <1>2, FieldTypes DEF Prepared, ClaimObjects
  <2>2. /\ api' = api /\ owned' = claim'.own /\ writes' = writes /\ faults' = faults /\ lost' = lost
        /\ UNCHANGED past /\ restarts' = restarts /\ began' = began
        /\ attempts' = attempts /\ state' = "updating" /\ state = "preparing"
    BY <1>2 DEF Prepared, past
  <2>3. owned' \in [Devices -> Nat]
    BY <2>1, <2>2, FieldTypes, <1>0
  <2>4. TypeOK'
    BY <1>0, <2>1, <2>2, <2>3, FieldTypes, CountsTyped DEF TypeOK
  <2>5. OthersPreserved' /\ CopyInv'
    BY <1>0, <2>1, <2>2, FieldTypes DEF OthersPreserved, CopyInv
  <2>6. WholeInv'
    <3>1. PICK n \in 0..restarts : claim.own = Entries(n)
      BY <1>0, <2>2 DEF WholeInv
    <3>2. claim'.own = Entries(n + 1) /\ n + 1 \in 1..(restarts + 1)
      BY <1>0, <2>1, <3>1, FieldTypes DEF Entries
    <3>. QED BY <1>0, <2>2, <3>2 DEF WholeInv
  <2>7. BudgetInv'
    BY <1>0, <2>1, <2>2, FieldTypes DEF BudgetInv
  <2>. QED BY <2>4, <2>5, <2>6, <2>7 DEF Inv
<1>w. ASSUME state = "updating", claim.version = api.version, Write
      PROVE  /\ api'.version = api.version + 1 /\ api'.own = claim.own
             /\ api'.others = writes /\ api' \in ClaimObjects
  BY <1>0, <1>w DEF Write, ClaimObjects, OthersPreserved, CopyInv
<1>3. CASE UpdateStatus
  <2>1. /\ api'.version = api.version + 1 /\ api'.own = claim.own
        /\ api'.others = writes /\ api' \in ClaimObjects
    BY <1>3, <1>w DEF UpdateStatus
  <2>2. /\ claim' = claim /\ owned' = owned /\ writes' = writes /\ faults' = faults /\ lost' = lost
        /\ UNCHANGED past /\ restarts' = restarts /\ began' = began
        /\ attempts' = attempts + 1 /\ state' = "written" /\ state = "updating"
    BY <1>3 DEF UpdateStatus, past
  <2>3. attempts' \in 0..Steps
    BY <1>0, <2>2, FieldTypes DEF BudgetInv
  <2>4. TypeOK'
    BY <1>0, <2>1, <2>2, <2>3, FieldTypes, CountsTyped DEF TypeOK
  <2>5. OthersPreserved' /\ CopyInv'
    BY <1>0, <2>1, <2>2, FieldTypes DEF OthersPreserved, CopyInv
  <2>6. WholeInv'
    BY <1>0, <2>1, <2>2, FieldTypes DEF WholeInv
  <2>7. BudgetInv'
    BY <1>0, <2>2, FieldTypes DEF BudgetInv
  <2>. QED BY <2>4, <2>5, <2>6, <2>7 DEF Inv
<1>4. CASE UpdateStatusLost
  <2>1. /\ api'.version = api.version + 1 /\ api'.own = claim.own
        /\ api'.others = writes /\ api' \in ClaimObjects
    BY <1>4, <1>w DEF UpdateStatusLost
  <2>2. /\ UNCHANGED <<claim, owned, past>> /\ writes' = writes /\ faults' = faults
        /\ lost' = lost + 1 /\ attempts' = attempts + 1 /\ state = "updating" /\ Retry
    BY <1>4 DEF UpdateStatusLost, Retry
  <2>3. faults' \in 0..MaxFaults /\ lost' \in 0..MaxFaults /\ writes' \in [Others -> 0..MaxWrites]
    BY <1>0, <1>4, <2>2, StatusConstants DEF UpdateStatusLost, TypeOK
  <2>4. api.version <= api'.version /\ claim.version # api'.version
    BY <1>4, <2>1, FieldTypes, <1>0 DEF UpdateStatusLost
  <2>. QED BY <1>0, <2>1, <2>2, <2>3, <2>4, FieldTypes, HeldClaim
<1>f. ASSUME state = "updating", Retry, faults < MaxFaults, faults' = faults + 1,
             UNCHANGED <<api, claim, owned, writes, lost, past>>
      PROVE  Inv'
  <2>1. /\ UNCHANGED <<claim, owned, past>> /\ api' = api /\ writes' = writes
        /\ attempts' = attempts + 1 /\ lost' = lost
    BY <1>f DEF Retry
  <2>2. faults' \in 0..MaxFaults /\ lost' \in 0..MaxFaults /\ writes' \in [Others -> 0..MaxWrites]
    BY <1>0, <1>f, StatusConstants DEF TypeOK
  <2>3. api'.others = writes'
    BY <1>0, <2>1 DEF OthersPreserved
  <2>. QED BY <1>0, <1>f, <2>1, <2>2, <2>3, FieldTypes, HeldClaim
<1>5. CASE UpdateStatusFails
  BY <1>5, <1>f DEF UpdateStatusFails
<1>6. CASE Conflict
  <2>1. /\ claim'.version = api.version /\ claim'.others = api.others
        /\ claim'.own = owned /\ claim' \in ClaimObjects
    BY <1>0, <1>6 DEF Conflict, mergeDeviceStatus, ClaimObjects, TypeOK
  <2>2. /\ api' = api /\ owned' = owned /\ writes' = writes /\ faults' = faults /\ lost' = lost
        /\ UNCHANGED past /\ restarts' = restarts /\ began' = began
        /\ state = "updating" /\ claim.version < api.version
    BY <1>0, <1>6, FieldTypes DEF Conflict, past, CopyInv
  <2>3. /\ attempts' = attempts + 1 /\ attempts' \in 0..Steps
        /\ state' \in {"updating", "gaveup"} /\ (state' = "updating" => attempts' < Steps)
        /\ state' = "gaveup" => attempts' = Steps
    BY <1>0, <1>6, RetryTyped DEF Conflict, BudgetInv
  <2>4. TypeOK'
    BY <1>0, <2>1, <2>2, <2>3, FieldTypes, CountsTyped DEF TypeOK
  <2>5. OthersPreserved' /\ CopyInv'
    BY <1>0, <2>1, <2>2, FieldTypes DEF OthersPreserved, CopyInv
  <2>6. WholeInv'
    BY <1>0, <2>1, <2>2, <2>3 DEF WholeInv
  <2>7. BudgetInv'
    <3>1. Duplicates(claim)' = Duplicates(claim)
      BY <1>0, <2>1, <2>2 DEF Duplicates, WholeInv
    <3>. QED BY <1>0, <2>1, <2>2, <2>3, <3>1, FieldTypes DEF BudgetInv
  <2>. QED BY <2>4, <2>5, <2>6, <2>7 DEF Inv
<1>7. CASE ConflictReadFails
  BY <1>7, <1>f DEF ConflictReadFails
<1>8. CASE UpdateStatusRefused
  <2>1. /\ api' = api /\ claim' = claim /\ owned' = owned /\ writes' = writes
        /\ faults' = faults /\ lost' = lost
        /\ UNCHANGED past /\ restarts' = restarts /\ began' = began
        /\ state = "updating" /\ Duplicates(claim)
    BY <1>8 DEF UpdateStatusRefused, past
  <2>2. /\ attempts' = attempts + 1 /\ attempts' \in 0..Steps
        /\ state' \in {"updating", "gaveup"} /\ (state' = "updating" => attempts' < Steps)
        /\ state' = "gaveup" => attempts' = Steps
    BY <1>0, <1>8, RetryTyped DEF UpdateStatusRefused, BudgetInv
  <2>3. TypeOK'
    BY <1>0, <2>1, <2>2, FieldTypes, CountsTyped DEF TypeOK
  <2>4. OthersPreserved' /\ CopyInv' /\ WholeInv'
    BY <1>0, <2>1, <2>2 DEF OthersPreserved, CopyInv, WholeInv
  <2>5. BudgetInv'
    BY <1>0, <2>1, <2>2, FieldTypes DEF BudgetInv, Duplicates
  <2>. QED BY <2>3, <2>4, <2>5 DEF Inv
<1>9. CASE ContextDone
  <2>1. /\ api' = api /\ claim' = claim /\ owned' = owned /\ writes' = writes
        /\ faults' = faults /\ lost' = lost /\ attempts' = attempts
        /\ UNCHANGED past /\ restarts' = restarts /\ began' = began
        /\ state = "updating" /\ state' = "cancelled"
    BY <1>9 DEF ContextDone, past
  <2>2. TypeOK'
    BY <1>0, <2>1, FieldTypes, CountsTyped DEF TypeOK
  <2>3. OthersPreserved' /\ CopyInv' /\ WholeInv'
    BY <1>0, <2>1 DEF OthersPreserved, CopyInv, WholeInv
  <2>4. BudgetInv'
    BY <1>0, <2>1, FieldTypes DEF BudgetInv, Duplicates
  <2>. QED BY <2>2, <2>3, <2>4 DEF Inv
<1>10. CASE Restart
  <2>1. /\ api' = api /\ claim' = api /\ writes' = writes /\ faults' = faults /\ lost' = lost
        /\ restarts' = restarts + 1 /\ began' = api.version + lost + faults
        /\ attempts' = 0 /\ state' = "preparing"
    BY <1>10 DEF Restart, Disturbances
  <2>2. TypeOK'
    <3>1. owned' \in [Devices -> Nat]
      BY <1>10 DEF Restart, NoEntries, Entries
    <3>2. restarts' \in 0..MaxRestarts /\ began' \in 0..Disturbances'
      BY <1>0, <1>10, <2>1, FieldTypes, StatusConstants DEF Restart, TypeOK, Disturbances
    <3>. QED BY <1>0, <2>1, <3>1, <3>2, FieldTypes DEF TypeOK
  <2>3. OthersPreserved' /\ CopyInv'
    BY <1>0, <2>1, FieldTypes DEF OthersPreserved, CopyInv
  <2>4. WholeInv'
    BY <1>0, <2>1, FieldTypes DEF WholeInv
  <2>5. BudgetInv'
    BY <1>0, <2>1, FieldTypes DEF BudgetInv
  <2>. QED BY <2>2, <2>3, <2>4, <2>5 DEF Inv
<1>11. CASE Returned \/ UNCHANGED vars
  <2>1. UNCHANGED vars
    BY <1>11 DEF Returned
  <2>. QED BY <2>1 DEF vars, past, Inv, TypeOK, OthersPreserved, CopyInv, WholeInv, BudgetInv,
                       Duplicates, Disturbances
<1>. QED BY <1>1, <1>2, <1>3, <1>4, <1>5, <1>6, <1>7, <1>8, <1>9, <1>10, <1>11 DEF Next

\* It holds when the driver is handed the claim.
LEMMA InitInv == Init => Inv
<1>. SUFFICES ASSUME Init PROVE Inv
  OBVIOUS
<1>1. /\ api.version = 0 /\ api.own = Entries(0) /\ api.others = writes /\ claim = api
      /\ restarts = 0 /\ began = 0 /\ lost = 0 /\ faults = 0 /\ attempts = 0
      /\ state = "preparing" /\ owned = Entries(0) /\ writes = [o \in Others |-> 0]
  BY DEF Init, NoEntries
<1>2. TypeOK
  <2>1. Entries(0) \in [Devices -> Nat] /\ writes \in [Others -> 0..MaxWrites]
        /\ writes \in [Others -> Nat]
    BY <1>1, StatusConstants DEF Entries
  <2>2. api \in ClaimObjects
    BY <2>1, Zenon DEF Init, NoEntries, ClaimObjects
  <2>. QED BY <1>1, <2>1, <2>2, StatusConstants DEF TypeOK, Disturbances
<1>3. OthersPreserved /\ CopyInv /\ WholeInv /\ BudgetInv
  BY <1>1, StatusConstants DEF OthersPreserved, CopyInv, WholeInv, BudgetInv
<1>. QED BY <1>2, <1>3 DEF Inv

\* Both hold in every state.
LEMMA InvHolds == Spec => []Inv
BY InitInv, NextInv, PTL DEF Spec

\* The variables keep their types: updateClaimStatus never exceeds its number
\* of attempts.
THEOREM StatusTypes == Spec => []TypeOK
BY InvHolds, PTL DEF Inv

\* No update of this driver undoes the entry of another one.
THEOREM NoLostEntries == Spec => []OthersPreserved
BY InvHolds, PTL DEF Inv

\* This driver's entries appear together, at most once per start of the driver.
THEOREM EntriesTogether == Spec => []OwnEntriesWhole
<1>1. Inv => OwnEntriesWhole
  <2>1. ASSUME Inv, state = "written" PROVE api.own # NoEntries
    <3>1. PICK n \in 1..(restarts + 1) : api.own = Entries(n)
      BY <2>1 DEF Inv, WholeInv
    <3>2. PICK d \in Devices : TRUE
      BY StatusConstants
    <3>3. Entries(n)[d] = n /\ Entries(0)[d] = 0 /\ n # 0
      BY <3>2, <2>1, FieldTypes DEF Entries, Inv
    <3>. QED BY <3>1, <3>3 DEF NoEntries
  <2>. QED BY <2>1 DEF Inv, WholeInv, OwnEntriesWhole
<1>. QED BY <1>1, InvHolds, PTL

\* The driver gives up only after as many disturbances as it has attempts, or
\* when its own earlier entries are in the way.
THEOREM AttemptsSuffice == Spec => []GivesUpOnlyWhenDisturbed
<1>1. Inv => GivesUpOnlyWhenDisturbed
  <2>. SUFFICES ASSUME Inv, state = "gaveup"
                PROVE  Disturbances - began >= Steps \/ (restarts > 0 /\ Duplicates(claim))
    BY DEF GivesUpOnlyWhenDisturbed
  <2>0. TypeOK /\ CopyInv /\ WholeInv /\ BudgetInv
    BY DEF Inv
  <2>1. CASE Duplicates(claim)
    <3>1. PICK n \in 1..(restarts + 1) : claim.own = Entries(n)
      BY <2>0 DEF WholeInv
    <3>2. PICK d \in Devices : claim.own[d] > 1
      BY <2>1 DEF Duplicates
    <3>3. n > 1
      BY <3>1, <3>2 DEF Entries
    <3>. QED BY <2>0, <2>1, <3>3, FieldTypes
  <2>2. CASE ~Duplicates(claim)
    <3>1. attempts = Steps
      BY <2>0 DEF BudgetInv
    <3>. QED BY <2>0, <2>2, <3>1, FieldTypes DEF BudgetInv, CopyInv, Disturbances
  <2>. QED BY <2>1, <2>2
<1>. QED BY <1>1, InvHolds, PTL

=============================================================================
