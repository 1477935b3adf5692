-------------------------- MODULE NumaMonitorProofs --------------------------
(***************************************************************************)
(* The NUMA map is right at rest but for recorded losses, and its reader   *)
(* is told of every change, for any number of bridges, interfaces and      *)
(* transactions and any capacity of the channel.                           *)
(*                                                                         *)
(* The properties only speak of states in which both goroutines rest.  The *)
(* invariants below say what is still to come when they do not.            *)
(***************************************************************************)
EXTENDS NumaMonitor, SequenceTheorems, FiniteSetTheorems, TLAPS

Contents(s) == {s[k] : k \in 1..Len(s)}
Pending(e)  == e \in Contents(events) \cup Contents(ifaceCh)

\* The interface goroutine has something in hand.
TaskShape ==
    task.state # "idle" => task.iface \in Ifaces /\ task.bridge \in Bridges

\* The driver takes the interface for one of the bridge, or is about to.
Known(b, i) ==
    \/ <<b, i>> \in numaMap
    \/ task.state = "store" /\ task.bridge = b /\ task.iface = i

\* UUIDs not yet given out are not in the database.
RowInv == \A i \in Ifaces : row[i] # NoBridge => i <= used

\* A deleted interface stays deleted.
DeletedInv ==
    \A i \in Ifaces : Pending(IfaceDeleted(i)) => i <= used /\ row[i] = NoBridge

\* The event of an interface that is in the database is on its way, or was
\* resolved to its bridge, unless it was lost.
AddedInv ==
    \A i \in Ifaces \ lost :
        row[i] # NoBridge => Pending(IfaceAdded(i)) \/ Known(row[i], i)

\* What was resolved is the one bridge the interface ever had, and when the
\* interface is gone from the database the event that says so is on its way.
KnownInv ==
    \A i \in Ifaces, b \in Bridges : Known(b, i) =>
        /\ i <= used
        /\ row[i] \in {b, NoBridge}
        /\ row[i] = NoBridge => i \in lost \/ Pending(IfaceDeleted(i))
        /\ \A c \in Bridges : Known(c, i) => c = b

MapInv == DeletedInv /\ AddedInv /\ KnownInv

\* The event of a bridge that came back follows that of its deletion.
OrderInv ==
    \A k \in 1..Len(events), b \in present \ swapped :
        events[k] = BridgeDeleted(b) =>
            \E m \in k+1..Len(events) : events[m] = BridgeAdded(b)

\* The removal of a bridge's entries is followed by such an event as well.
ForgetInv ==
    forget \in present \ swapped => BridgeAdded(forget) \in Contents(events)

\* A bridge whose entries changed is about to be told of.
UntoldInv ==
    \A b \in (untold \cap present) \ swapped :
        \/ task.state = "notify" /\ task.bridge = b
        \/ BridgeAdded(b) \in Contents(events)

ToldInv == OrderInv /\ ForgetInv /\ UntoldInv

-----------------------------------------------------------------------------
(* Queues of events *)

\* Taking the first event off a queue.
LEMMA ContentsOfTail ==
    ASSUME NEW S, NEW s \in Seq(S), s # <<>>
    PROVE  /\ Head(s) \in S /\ Tail(s) \in Seq(S)
           /\ Contents(s) = {Head(s)} \cup Contents(Tail(s))
<1>1. /\ Head(s) \in S /\ Tail(s) \in Seq(S)
      /\ Len(s) \in Nat \ {0} /\ Len(Tail(s)) = Len(s) - 1
      /\ \A k \in 1..Len(Tail(s)) : Tail(s)[k] = s[k + 1]
      /\ Head(s) = s[1]
  BY HeadTailProperties, EmptySeq
<1>2. ASSUME NEW k \in 1..Len(s) PROVE s[k] \in {Head(s)} \cup Contents(Tail(s))
  <2>1. CASE k = 1
    BY <1>1, <2>1
  <2>2. CASE k # 1
    <3>1. k - 1 \in 1..Len(Tail(s)) /\ Tail(s)[k - 1] = s[k]
      BY <1>1, <2>2
    <3>. QED BY <3>1 DEF Contents
  <2>. QED BY <2>1, <2>2
<1>3. ASSUME NEW k \in 1..Len(Tail(s)) PROVE Tail(s)[k] \in Contents(s)
  <2>1. k + 1 \in 1..Len(s) /\ Tail(s)[k] = s[k + 1]
    BY <1>1
  <2>. QED BY <2>1 DEF Contents
<1>4. Head(s) \in Contents(s)
  BY <1>1 DEF Contents
<1>. QED BY <1>1, <1>2, <1>3, <1>4 DEF Contents

\* Adding an event to a queue.
LEMMA ContentsOfAppend ==
    ASSUME NEW S, NEW s \in Seq(S), NEW e \in S
    PROVE  /\ Append(s, e) \in Seq(S)
           /\ Len(Append(s, e)) = Len(s) + 1
           /\ Contents(Append(s, e)) = Contents(s) \cup {e}
<1>1. /\ Append(s, e) \in Seq(S) /\ Len(s) \in Nat
      /\ Len(Append(s, e)) = Len(s) + 1
      /\ \A k \in 1..Len(s) : Append(s, e)[k] = s[k]
      /\ Append(s, e)[Len(s) + 1] = e
  BY AppendProperties, LenProperties
<1>2. \A k \in 1..Len(s) + 1 : k \in 1..Len(s) \/ k = Len(s) + 1
  BY <1>1
<1>3. \A k \in 1..Len(s) : k \in 1..Len(s) + 1
  BY <1>1
<1>4. Len(s) + 1 \in 1..Len(s) + 1
  BY <1>1
<1>. QED BY <1>1, <1>2, <1>3, <1>4 DEF Contents

\* The events of one transaction, in whatever order, are all there.
LEMMA ContentsOfOrder ==
    ASSUME NEW E \in SUBSET Events, IsFiniteSet(E), NEW s \in Orders(E)
    PROVE  s \in Seq(Events) /\ Contents(s) = E
<1> DEFINE n == Cardinality(E)
<1>1. n \in Nat
  BY FS_CardinalityType
<1>2. s \in [1..n -> E] /\ \A j, k \in 1..n : s[j] = s[k] => j = k
  BY DEF Orders
<1>3. IsFiniteSet(1..n) /\ Cardinality(1..n) = n
  BY <1>1, FS_Interval
<1>4. s \in Injection(1..n, E)
  BY <1>2 DEF Injection, IsInjective
<1>5. s \in Surjection(1..n, E)
  BY <1>3, <1>4, FS_Injection
<1>6. s \in Seq(E) /\ Len(s) = n
  BY <1>1, <1>2
<1>7. s \in Seq(Events)
  BY <1>6, SeqMonotonic
<1>8. Contents(s) = E
  BY <1>2, <1>5, <1>6 DEF Contents, Surjection
<1>. QED BY <1>7, <1>8

-----------------------------------------------------------------------------
(* Transactions of others *)

\* A transaction appends its events to those on their way.
LEMMA CommitEvents ==
    ASSUME TypeOK, NEW E \in SUBSET Events, IsFiniteSet(E), Commit(E)
    PROVE  /\ events' \in Seq(Events)
           /\ Contents(events') = Contents(events) \cup E
           /\ Len(events) \in Nat /\ Len(events') \in Nat /\ Len(events) <= Len(events')
           /\ \A k \in 1..Len(events) : events'[k] = events[k]
           /\ \A k \in Len(events)+1..Len(events') : events'[k] \in E
           /\ \A e \in E : \E k \in Len(events)+1..Len(events') : events'[k] = e
<1>1. PICK s \in Orders(E) : events' = events \o s
  BY DEF Commit
<1>2. s \in Seq(Events) /\ Contents(s) = E
  BY ContentsOfOrder
<1>3. events \in Seq(Events)
  BY DEF TypeOK
<1>4. /\ events' \in Seq(Events)
      /\ Len(events) \in Nat /\ Len(s) \in Nat
      /\ Len(events') = Len(events) + Len(s)
      /\ \A k \in 1..Len(events) + Len(s) :
            events'[k] = IF k <= Len(events) THEN events[k] ELSE s[k - Len(events)]
  BY <1>1, <1>2, <1>3, ConcatProperties, LenProperties, SMTT(30)
<1>5. ASSUME NEW k \in 1..Len(events) PROVE events'[k] = events[k]
  BY <1>4
<1>6. ASSUME NEW k \in Len(events)+1..Len(events') PROVE events'[k] \in E
  <2>1. k - Len(events) \in 1..Len(s) /\ events'[k] = s[k - Len(events)]
    BY <1>4
  <2>. QED BY <1>2, <2>1, Zenon DEF Contents
<1>7. ASSUME NEW e \in E
      PROVE  \E k \in Len(events)+1..Len(events') : events'[k] = e
  <2>1. PICK k \in 1..Len(s) : s[k] = e
    BY <1>2 DEF Contents
  <2>2. /\ Len(events) + k \in Len(events)+1..Len(events')
        /\ events'[Len(events) + k] = s[k]
    BY <1>4, SMTT(30)
  <2>. QED BY <2>1, <2>2
<1>8. Contents(events') = Contents(events) \cup E
  <2>1. \A k \in 1..Len(events') : k \in 1..Len(events) \/ k \in Len(events)+1..Len(events')
    BY <1>4
  <2>2. \A k \in 1..Len(events) : k \in 1..Len(events')
    BY <1>4
  <2>3. \A k \in Len(events)+1..Len(events') : k \in 1..Len(events')
    BY <1>4
  <2>. QED BY <1>5, <1>6, <1>7, <2>1, <2>2, <2>3 DEF Contents
<1>. QED BY <1>4, <1>5, <1>6, <1>7, <1>8, SMTT(30)

\* What a transaction does to the database, and the events that tell of it.
Effect(E) ==
    /\ present' \subseteq Bridges /\ swapped' \subseteq Bridges
    /\ row' \in [Ifaces -> Bridges \cup {NoBridge}]
    /\ used' \in used..MaxIfaces
    /\ swapped \subseteq swapped'
    /\ \A i \in Ifaces :
          \/ row'[i] = row[i] /\ IfaceDeleted(i) \notin E
          \/ row'[i] = NoBridge /\ row[i] # NoBridge /\ IfaceDeleted(i) \in E
          \/ /\ row'[i] # NoBridge /\ IfaceAdded(i) \in E /\ IfaceDeleted(i) \notin E
             /\ used < i /\ i <= used'
    /\ \A b \in Bridges :
          /\ b \in present' \ present => BridgeAdded(b) \in E
          /\ BridgeDeleted(b) \in E => b \notin present' \/ b \in swapped'

\* A set of interface events is finite.
LEMMA FiniteEvents ==
    ASSUME NEW S \in SUBSET Ifaces
    PROVE  /\ IsFiniteSet({IfaceAdded(i) : i \in S})
           /\ IsFiniteSet({IfaceDeleted(i) : i \in S})
<1>1. IsFiniteSet(Ifaces)
  BY MonitorConstants, FS_Interval DEF Ifaces
<1>2. IsFiniteSet(S)
  BY <1>1, FS_Subset
<1>3. [i \in S |-> IfaceAdded(i)] \in Surjection(S, {IfaceAdded(i) : i \in S})
  BY DEF Surjection
<1>4. [i \in S |-> IfaceDeleted(i)] \in Surjection(S, {IfaceDeleted(i) : i \in S})
  BY DEF Surjection
<1>. QED BY <1>2, <1>3, <1>4, FS_Surjection, Zenon

\* Every transaction commits a finite set of events with such an effect.
LEMMA TransactionEffect ==
    ASSUME TypeOK, RowInv, Transactions
    PROVE  \E E \in SUBSET Events : IsFiniteSet(E) /\ Commit(E) /\ Effect(E)
<1> USE MonitorConstants DEF Event, BridgeAdded, BridgeDeleted, IfaceAdded, IfaceDeleted,
                             NoIface
<1>1. ASSUME NEW b \in Bridges, NEW n \in 0..MaxIfaces, CreateBridge(b, n)
      PROVE  \E E \in SUBSET Events : IsFiniteSet(E) /\ Commit(E) /\ Effect(E)
  <2> DEFINE uplinks == used + 1 .. used + n
             gone == {b} \cap present
             E == {BridgeAdded(b)} \cup {BridgeDeleted(x) : x \in gone}
                  \cup {IfaceAdded(i) : i \in uplinks} \cup {IfaceDeleted(i) : i \in Uplinks(b)}
  <2>1. uplinks \in SUBSET Ifaces /\ Uplinks(b) \in SUBSET Ifaces
    BY <1>1 DEF CreateBridge, TypeOK, Ifaces, Uplinks
  <2>2. E \in SUBSET Events
    BY <2>1 DEF Events, Ifaces
  <2>3. IsFiniteSet(E)
    <3> HIDE DEF uplinks, BridgeAdded, BridgeDeleted, IfaceAdded, IfaceDeleted
    <3> DEFINE A == {BridgeDeleted(x) : x \in gone}
               B == {IfaceAdded(i) : i \in uplinks}
               C == {IfaceDeleted(i) : i \in Uplinks(b)}
    <3>1. A = {} \/ A = {BridgeDeleted(b)}
      OBVIOUS
    <3>2. IsFiniteSet({BridgeAdded(b)}) /\ IsFiniteSet({BridgeDeleted(b)})
      BY FS_Singleton, Zenon
    <3>3. IsFiniteSet(A)
      BY <3>1, <3>2, FS_EmptySet
    <3>4. IsFiniteSet(B) /\ IsFiniteSet(C)
      BY <2>1, FiniteEvents, Zenon
    <3> HIDE DEF A, B, C
    <3>5. IsFiniteSet(({BridgeAdded(b)} \cup A) \cup B)
      BY <3>2, <3>3, <3>4, FS_Union, Zenon
    <3>6. IsFiniteSet((({BridgeAdded(b)} \cup A) \cup B) \cup C)
      BY <3>4, <3>5, FS_Union, Zenon
    <3>. QED BY <3>6 DEF A, B, C
  <2>4. Commit(E)
    BY <1>1 DEF CreateBridge
  <2>5. Effect(E)
    <3>1. /\ present' \subseteq Bridges /\ swapped' \subseteq Bridges
          /\ row' \in [Ifaces -> Bridges \cup {NoBridge}]
          /\ used' \in used..MaxIfaces
          /\ swapped \subseteq swapped'
      BY <1>1 DEF CreateBridge, TypeOK, Ifaces
    <3>2. ASSUME NEW i \in Ifaces
          PROVE  \/ row'[i] = row[i] /\ IfaceDeleted(i) \notin E
                 \/ row'[i] = NoBridge /\ row[i] # NoBridge /\ IfaceDeleted(i) \in E
                 \/ /\ row'[i] # NoBridge /\ IfaceAdded(i) \in E /\ IfaceDeleted(i) \notin E
                    /\ used < i /\ i <= used'
      <4>1. IfaceDeleted(i) \in E <=> row[i] = b
        BY Zenon DEF Uplinks
      <4>2. i \in uplinks => row[i] = NoBridge /\ IfaceAdded(i) \in E
        BY SMTT(30) DEF TypeOK, RowInv, Ifaces
      <4>3. row'[i] = IF i \in uplinks THEN b ELSE IF row[i] = b THEN NoBridge ELSE row[i]
        BY <1>1, Zenon DEF CreateBridge
      <4>4. i \in uplinks => used < i /\ i <= used'
        BY <1>1 DEF CreateBridge, TypeOK, Ifaces
      <4> HIDE DEF E, uplinks
      <4>. QED BY <4>1, <4>2, <4>3, <4>4, ZenonT(30)
    <3>3. ASSUME NEW c \in Bridges
          PROVE  /\ c \in present' \ present => BridgeAdded(c) \in E
                 /\ BridgeDeleted(c) \in E => c \notin present' \/ c \in swapped'
      BY <1>1, Zenon DEF CreateBridge
    <3> HIDE DEF E
    <3>. QED BY <3>1, <3>2, <3>3, ZenonT(30) DEF Effect
  <2>. QED BY <2>2, <2>3, <2>4, <2>5, ZenonT(30)
<1>2. ASSUME NEW b \in Bridges, DeleteBridge(b)
      PROVE  \E E \in SUBSET Events : IsFiniteSet(E) /\ Commit(E) /\ Effect(E)
  <2> DEFINE E == {BridgeDeleted(b)} \cup {IfaceDeleted(i) : i \in Uplinks(b)}
  <2>1. Uplinks(b) \in SUBSET Ifaces
    BY DEF Uplinks
  <2>2. E \in SUBSET Events
    BY <2>1 DEF Events, Ifaces
  <2>3. IsFiniteSet(E)
    <3> HIDE DEF BridgeDeleted, IfaceDeleted
    <3>1. IsFiniteSet({BridgeDeleted(b)})
      BY FS_Singleton
    <3>2. IsFiniteSet({IfaceDeleted(i) : i \in Uplinks(b)})
      BY <2>1, FiniteEvents, Zenon
    <3>. QED BY <3>1, <3>2, FS_Union, ZenonT(30)
  <2>4. Commit(E)
    BY <1>2, Zenon DEF DeleteBridge
  <2>5. Effect(E)
    <3>1. /\ present' \subseteq Bridges /\ swapped' \subseteq Bridges
          /\ row' \in [Ifaces -> Bridges \cup {NoBridge}]
          /\ used' \in used..MaxIfaces
          /\ swapped \subseteq swapped'
      BY <1>2 DEF DeleteBridge, TypeOK, Ifaces
    <3>2. ASSUME NEW i \in Ifaces
          PROVE  \/ row'[i] = row[i] /\ IfaceDeleted(i) \notin E
                 \/ row'[i] = NoBridge /\ row[i] # NoBridge /\ IfaceDeleted(i) \in E
      <4>1. IfaceDeleted(i) \in E <=> row[i] = b
        BY Zenon DEF Uplinks
      <4>2. row'[i] = IF row[i] = b THEN NoBridge ELSE row[i]
        BY <1>2 DEF DeleteBridge
      <4> HIDE DEF E
      <4>. QED BY <4>1, <4>2
    <3>3. ASSUME NEW c \in Bridges
          PROVE  /\ c \in present' \ present => BridgeAdded(c) \in E
                 /\ BridgeDeleted(c) \in E => c \notin present' \/ c \in swapped'
      BY <1>2, Zenon DEF DeleteBridge
    <3> HIDE DEF E
    <3>. QED BY <3>1, <3>2, <3>3, ZenonT(30) DEF Effect
  <2>. QED BY <2>2, <2>3, <2>4, <2>5, Zenon
<1>3. ASSUME NEW b \in Bridges, AddUplink(b)
      PROVE  \E E \in SUBSET Events : IsFiniteSet(E) /\ Commit(E) /\ Effect(E)
  <2> DEFINE E == {IfaceAdded(used + 1)}
  <2>1. used + 1 \in Ifaces
    BY <1>3 DEF AddUplink, TypeOK, Ifaces
  <2>2. E \in SUBSET Events
    BY <2>1 DEF Events, Ifaces
  <2>3. IsFiniteSet(E) /\ Commit(E)
    BY <1>3, FS_Singleton, ZenonT(30) DEF AddUplink
  <2>4. Effect(E)
    BY <1>3, <2>1, SMTT(30) DEF AddUplink, Effect, TypeOK, RowInv, Ifaces
  <2>. QED BY <2>2, <2>3, <2>4, ZenonT(30)
<1>4. ASSUME NEW i \in Ifaces, DeleteUplink(i)
      PROVE  \E E \in SUBSET Events : IsFiniteSet(E) /\ Commit(E) /\ Effect(E)
  <2> DEFINE E == {IfaceDeleted(i)}
  <2>1. E \in SUBSET Events
    BY DEF Events, Ifaces
  <2>2. IsFiniteSet(E) /\ Commit(E)
    BY <1>4, FS_Singleton, ZenonT(30) DEF DeleteUplink
  <2>3. Effect(E)
    BY <1>4, SMTT(30) DEF DeleteUplink, Effect, TypeOK, Ifaces
  <2>. QED BY <2>1, <2>2, <2>3, Zenon
<1>. QED BY <1>1, <1>2, <1>3, <1>4, ZenonT(30) DEF Transactions

-----------------------------------------------------------------------------
(* The shape of the state *)

Shape == TypeOK /\ TaskShape /\ RowInv

\* What the first event to come is.
LEMMA NextEvent ==
    ASSUME TypeOK, events # <<>>
    PROVE  /\ Tail(events) \in Seq(Events)
           /\ Contents(events) = {Head(events)} \cup Contents(Tail(events))
           /\ Head(events).kind = "bridgeAdded" =>
                 Head(events).bridge \in Bridges /\ Head(events) = BridgeAdded(Head(events).bridge)
           /\ Head(events).kind = "bridgeDeleted" =>
                 Head(events).bridge \in Bridges /\ Head(events) = BridgeDeleted(Head(events).bridge)
           /\ Head(events).kind \in {"ifaceAdded", "ifaceDeleted"} =>
                 /\ Head(events) \in IfaceEvents
                 /\ Head(events).iface \in Ifaces
                 /\ Head(events) \in {IfaceAdded(Head(events).iface), IfaceDeleted(Head(events).iface)}
<1>1. /\ Head(events) \in Events /\ Tail(events) \in Seq(Events)
      /\ Contents(events) = {Head(events)} \cup Contents(Tail(events))
  BY ContentsOfTail DEF TypeOK
<1>2. \A e \in Events :
        /\ e.kind = "bridgeAdded" => e.bridge \in Bridges /\ e = BridgeAdded(e.bridge)
        /\ e.kind = "bridgeDeleted" => e.bridge \in Bridges /\ e = BridgeDeleted(e.bridge)
        /\ e.kind \in {"ifaceAdded", "ifaceDeleted"} =>
              /\ e \in IfaceEvents /\ e.iface \in Ifaces
              /\ e \in {IfaceAdded(e.iface), IfaceDeleted(e.iface)}
  BY MonitorConstants DEF Events, IfaceEvents, Ifaces, NoIface, Event, BridgeAdded, BridgeDeleted,
                          IfaceAdded, IfaceDeleted
<1>. QED BY <1>1, <1>2, SMTT(30)

\* What the first event in the channel is.
LEMMA NextReceived ==
    ASSUME TypeOK, ifaceCh # <<>>
    PROVE  /\ Tail(ifaceCh) \in Seq(IfaceEvents)
           /\ Len(Tail(ifaceCh)) <= Capacity
           /\ Contents(ifaceCh) = {Head(ifaceCh)} \cup Contents(Tail(ifaceCh))
           /\ Head(ifaceCh).iface \in Ifaces
           /\ Head(ifaceCh).kind = "ifaceAdded" => Head(ifaceCh) = IfaceAdded(Head(ifaceCh).iface)
           /\ Head(ifaceCh).kind = "ifaceDeleted" =>
                 Head(ifaceCh) = IfaceDeleted(Head(ifaceCh).iface)
<1>1. /\ Head(ifaceCh) \in IfaceEvents /\ Tail(ifaceCh) \in Seq(IfaceEvents)
      /\ Contents(ifaceCh) = {Head(ifaceCh)} \cup Contents(Tail(ifaceCh))
  BY ContentsOfTail DEF TypeOK
<1>2. \A e \in IfaceEvents :
        /\ e.iface \in Ifaces
        /\ e.kind = "ifaceAdded" => e = IfaceAdded(e.iface)
        /\ e.kind = "ifaceDeleted" => e = IfaceDeleted(e.iface)
  BY DEF Events, IfaceEvents, Ifaces, NoIface, Event, IfaceAdded, IfaceDeleted
<1>3. ifaceCh \in Seq(IfaceEvents) /\ Len(ifaceCh) \in Nat
  BY LenProperties DEF TypeOK
<1>4. Len(Tail(ifaceCh)) = Len(ifaceCh) - 1
  BY <1>3, HeadTailProperties
<1>5. Len(Tail(ifaceCh)) <= Capacity
  BY <1>3, <1>4, MonitorConstants DEF TypeOK
<1>. QED BY <1>1, <1>2, <1>5, ZenonT(30)

LEMMA ShapeStep == ASSUME Shape, [Next]_vars PROVE Shape'
<1> USE DEF Shape
<1>1. CASE Transactions
  <2>1. PICK E \in SUBSET Events : IsFiniteSet(E) /\ Commit(E) /\ Effect(E)
    BY <1>1, TransactionEffect
  <2>2. events' \in Seq(Events)
    BY <2>1, CommitEvents, ZenonT(30)
  <2>3. TypeOK'
    BY <2>1, <2>2, MonitorConstants, SMTT(30) DEF TypeOK, Commit, Effect
  <2>4. TaskShape' /\ RowInv'
    <3>1. TaskShape'
      BY <2>1 DEF TaskShape, Commit
    <3>2. ASSUME NEW i \in Ifaces, row'[i] # NoBridge PROVE i <= used'
      <4>1. row'[i] = row[i] \/ i <= used'
        BY <2>1, <3>2, ZenonT(30) DEF Effect
      <4>2. used \in Nat /\ used' \in Nat /\ used <= used'
        BY <2>1, MonitorConstants DEF Effect, TypeOK
      <4>. QED BY <3>2, <4>1, <4>2, MonitorConstants, SMTT(30) DEF RowInv, Ifaces
    <3>. QED BY <3>1, <3>2, ZenonT(30) DEF RowInv
  <2>. QED BY <2>3, <2>4
<1>2. CASE OnBridgeAdded
  BY <1>2, NextEvent, Zenon DEF OnBridgeAdded, ovsdb, TypeOK, TaskShape, RowInv
<1>3. CASE OnBridgeDeleted
  BY <1>3, NextEvent, ZenonT(30) DEF OnBridgeDeleted, ovsdb, TypeOK, TaskShape, RowInv
<1>4. CASE ForgetBridge
  BY <1>4 DEF ForgetBridge, ovsdb, TypeOK, TaskShape, RowInv, Entries
<1>5. CASE OnInterface
  <2>1. /\ Tail(events) \in Seq(Events)
        /\ Head(events) \in IfaceEvents /\ Head(events).iface \in Ifaces
    BY <1>5, NextEvent DEF OnInterface
  <2>2. ifaceCh' \in Seq(IfaceEvents) /\ Len(ifaceCh') <= Capacity
    <3>1. Append(ifaceCh, Head(events)) \in Seq(IfaceEvents)
          /\ Len(Append(ifaceCh, Head(events))) = Len(ifaceCh) + 1
          /\ Len(ifaceCh) \in Nat
      BY <2>1, ContentsOfAppend, LenProperties, SMTT(30) DEF TypeOK
    <3>2. CASE Len(ifaceCh) < Capacity
      <4>1. ifaceCh' = Append(ifaceCh, Head(events))
        BY <1>5, <3>2, SMTT(30) DEF OnInterface
      <4>2. Len(ifaceCh) + 1 <= Capacity
        BY <3>1, <3>2, MonitorConstants, SMTT(30)
      <4>. QED BY <3>1, <4>1, <4>2, SMTT(30)
    <3>3. CASE ~(Len(ifaceCh) < Capacity)
      BY <1>5, <3>3, SMTT(30) DEF OnInterface, TypeOK
    <3>. QED BY <3>2, <3>3, SMTT(30)
  <2>3. lost' \subseteq Ifaces
    BY <1>5, <2>1, ZenonT(30) DEF OnInterface, TypeOK
  <2>. QED BY <1>5, <2>1, <2>2, <2>3, ZenonT(30) DEF OnInterface, ovsdb, TypeOK, TaskShape, RowInv
<1>6. CASE ResolveInterface
  <2>1. /\ Tail(ifaceCh) \in Seq(IfaceEvents) /\ Len(Tail(ifaceCh)) <= Capacity
        /\ Head(ifaceCh).iface \in Ifaces
    BY <1>6, NextReceived, ZenonT(30) DEF ResolveInterface, Received
  <2>. QED BY <1>6, <2>1 DEF ResolveInterface, ovsdb, TypeOK, TaskShape, RowInv
<1>7. CASE ResolveFails
  <2>1. /\ Tail(ifaceCh) \in Seq(IfaceEvents) /\ Len(Tail(ifaceCh)) <= Capacity
        /\ Head(ifaceCh).iface \in Ifaces
    BY <1>7, NextReceived, SMTT(30) DEF ResolveFails, Received
  <2>. QED BY <1>7, <2>1, SMTT(30) DEF ResolveFails, ovsdb, TypeOK, TaskShape, RowInv
<1>8. CASE StoreNode
  BY <1>8, SMTT(30) DEF StoreNode, ovsdb, TypeOK, TaskShape, RowInv
<1>9. CASE HandleInterfaceDelete
  <2>1. /\ Tail(ifaceCh) \in Seq(IfaceEvents) /\ Len(Tail(ifaceCh)) <= Capacity
        /\ Head(ifaceCh).iface \in Ifaces
    BY <1>9, NextReceived DEF HandleInterfaceDelete, Received
  <2>2. \/ UNCHANGED <<numaMap, untold, task>>
        \/ \E b \in Bridges :
              /\ numaMap' \subseteq numaMap
              /\ untold' = untold \cup {b}
              /\ task' = [state |-> "notify", iface |-> Head(ifaceCh).iface, bridge |-> b]
    BY <1>9, Zenon DEF HandleInterfaceDelete
  <2>. QED BY <1>9, <2>1, <2>2, SMTT(30) DEF HandleInterfaceDelete, ovsdb, TypeOK, TaskShape, RowInv
<1>10. CASE Notify
  BY <1>10, Zenon DEF Notify, Idle, ovsdb, TypeOK, TaskShape, RowInv
<1>11. CASE UNCHANGED vars
  BY <1>11, ZenonT(30) DEF vars, ovsdb, TypeOK, TaskShape, RowInv
<1>. QED BY <1>1, <1>2, <1>3, <1>4, <1>5, <1>6, <1>7, <1>8, <1>9, <1>10, <1>11, ZenonT(30)
          DEF Next, CacheStep, InterfaceStep

LEMMA ShapeInit == Init => Shape
  <1> SUFFICES ASSUME Init PROVE Shape
    OBVIOUS
  <1>1. events \in Seq(Events) /\ ifaceCh \in Seq(IfaceEvents) /\ Len(ifaceCh) <= Capacity
    BY MonitorConstants DEF Init
  <1>2. task \in [state : {"idle", "store", "notify"},
                  iface : Ifaces \cup {NoIface}, bridge : Bridges \cup {NoBridge}]
    BY DEF Init, Idle
  <1>. QED BY <1>1, <1>2, MonitorConstants, SMTT(30) DEF Init, Shape, TypeOK, TaskShape, RowInv, Idle

\* The channel stays within its capacity, and only bridges and interfaces that
\* exist are stored and told of.
THEOREM MonitorTypes == Spec => []TypeOK
<1>1. Init => Shape
  BY ShapeInit
<1>2. Shape /\ [Next]_vars => Shape'
  BY ShapeStep, ZenonT(30)
<1>. QED BY <1>1, <1>2, PTL DEF Spec, Shape

-----------------------------------------------------------------------------
(* The events on their way *)

LEMMA EventsDiffer ==
    /\ \A i, j : IfaceAdded(i) # IfaceDeleted(j)
    /\ \A i, j : IfaceAdded(i) = IfaceAdded(j) => i = j
    /\ \A i, j : IfaceDeleted(i) = IfaceDeleted(j) => i = j
    /\ \A i, b : IfaceAdded(i) # BridgeAdded(b) /\ IfaceAdded(i) # BridgeDeleted(b)
    /\ \A i, b : IfaceDeleted(i) # BridgeAdded(b) /\ IfaceDeleted(i) # BridgeDeleted(b)
    /\ \A b, c : BridgeAdded(b) # BridgeDeleted(c)
    /\ \A b, c : BridgeAdded(b) = BridgeAdded(c) => b = c
    /\ \A b, c : BridgeDeleted(b) = BridgeDeleted(c) => b = c
    /\ \A i : IfaceAdded(i).iface = i /\ IfaceDeleted(i).iface = i
    /\ \A i : IfaceAdded(i).kind = "ifaceAdded" /\ IfaceDeleted(i).kind = "ifaceDeleted"
  BY DEF IfaceAdded, IfaceDeleted, BridgeAdded, BridgeDeleted, Event

\* A transaction adds its events.
LEMMA PendingCommit ==
    ASSUME Shape, NEW E \in SUBSET Events, IsFiniteSet(E), Commit(E), NEW e
    PROVE  Pending(e)' <=> Pending(e) \/ e \in E
<1>1. Contents(events') = Contents(events) \cup E
  BY CommitEvents DEF Shape
<1>2. ifaceCh' = ifaceCh
  BY DEF Commit
<1>. QED BY <1>1, <1>2, Zenon DEF Pending, Contents

\* The handlers of bridge events take no interface event.
LEMMA PendingBridge ==
    ASSUME Shape, OnBridgeAdded \/ OnBridgeDeleted, NEW i
    PROVE  /\ Pending(IfaceAdded(i))' <=> Pending(IfaceAdded(i))
           /\ Pending(IfaceDeleted(i))' <=> Pending(IfaceDeleted(i))
<1>1. /\ Contents(events) = {Head(events)} \cup Contents(events')
      /\ \E b : Head(events) \in {BridgeAdded(b), BridgeDeleted(b)}
      /\ ifaceCh' = ifaceCh
  BY NextEvent, Zenon DEF Shape, OnBridgeAdded, OnBridgeDeleted
<1>2. IfaceAdded(i) # Head(events) /\ IfaceDeleted(i) # Head(events)
  BY <1>1, EventsDiffer
<1>. QED BY <1>1, <1>2, Zenon DEF Pending, Contents

\* The handlers of interface events pass theirs on, or it is lost.
LEMMA PendingSend ==
    ASSUME Shape, OnInterface, NEW e
    PROVE  /\ Pending(e)' => Pending(e)
           /\ Pending(e) => Pending(e)' \/ e.iface \in lost'
<1>1. /\ Contents(events) = {Head(events)} \cup Contents(events')
      /\ Head(events) \in IfaceEvents
  BY NextEvent DEF Shape, OnInterface
<1>2. CASE Len(ifaceCh) < Capacity
  <2>1. ifaceCh' = Append(ifaceCh, Head(events))
    BY <1>2 DEF OnInterface
  <2>2. Contents(ifaceCh') = Contents(ifaceCh) \cup {Head(events)}
    BY <1>1, <2>1, ContentsOfAppend DEF Shape, TypeOK
  <2>. QED BY <1>1, <2>2, Zenon DEF Pending, Contents
<1>3. CASE ~(Len(ifaceCh) < Capacity)
  <2>1. ifaceCh' = ifaceCh /\ Head(events).iface \in lost'
    BY <1>3 DEF OnInterface
  <2>. QED BY <1>1, <2>1, Zenon DEF Pending, Contents
<1>. QED BY <1>2, <1>3

\* The interface goroutine takes the first event out of the channel.
LEMMA PendingReceive ==
    ASSUME Shape, ifaceCh # <<>>, ifaceCh' = Tail(ifaceCh), UNCHANGED events, NEW e
    PROVE  /\ Pending(e)' => Pending(e)
           /\ Pending(e) => Pending(e)' \/ e = Head(ifaceCh)
<1>1. Contents(ifaceCh) = {Head(ifaceCh)} \cup Contents(ifaceCh')
  BY NextReceived DEF Shape
<1>. QED BY <1>1 DEF Pending, Contents

-----------------------------------------------------------------------------
(* The map *)

\* When the database and the losses stay, it is enough that what is known and
\* what is on its way stay as far as they are needed.
LEMMA MapKept ==
    ASSUME Shape, MapInv, UNCHANGED <<row, used>>, lost \subseteq lost',
           \A i \in Ifaces :
              /\ Pending(IfaceDeleted(i))' => Pending(IfaceDeleted(i))
              /\ \A b \in Bridges : Known(b, i)' /\ Pending(IfaceDeleted(i)) =>
                    Pending(IfaceDeleted(i))' \/ i \in lost'
              /\ i \notin lost' /\ row[i] # NoBridge /\ Pending(IfaceAdded(i)) =>
                    Pending(IfaceAdded(i))' \/ Known(row[i], i)'
              /\ i \notin lost' /\ row[i] # NoBridge /\ Known(row[i], i) => Known(row[i], i)'
              /\ \A b \in Bridges : Known(b, i)' => Known(b, i) \/ b = row[i]
    PROVE  MapInv'
<1>1. DeletedInv'
  BY DEF MapInv, DeletedInv
<1>2. AddedInv'
  <2> SUFFICES ASSUME NEW i \in Ifaces, i \notin lost', row[i] # NoBridge
               PROVE  Pending(IfaceAdded(i))' \/ Known(row[i], i)'
    BY DEF AddedInv, Known
  <2>1. Pending(IfaceAdded(i)) \/ Known(row[i], i)
    BY Zenon DEF MapInv, AddedInv
  <2>. QED BY <2>1, ZenonT(30)
<1>3. KnownInv'
  <2> SUFFICES ASSUME NEW i \in Ifaces, NEW b \in Bridges, Known(b, i)'
               PROVE  /\ i <= used
                      /\ row[i] \in {b, NoBridge}
                      /\ row[i] = NoBridge => i \in lost' \/ Pending(IfaceDeleted(i))'
                      /\ \A c \in Bridges : Known(c, i)' => c = b
    BY DEF KnownInv, Known
  <2>1. Known(b, i) \/ b = row[i]
    BY Zenon
  <2>2. CASE Known(b, i)
    <3>1. /\ i <= used /\ row[i] \in {b, NoBridge}
          /\ row[i] = NoBridge => i \in lost \/ Pending(IfaceDeleted(i))
          /\ \A c \in Bridges : Known(c, i) => c = b
      BY <2>2, Zenon DEF MapInv, KnownInv
    <3>2. ASSUME NEW c \in Bridges, Known(c, i)' PROVE c = b
      BY <3>1, <3>2, MonitorConstants, Zenon
    <3>. QED BY <3>1, <3>2, Zenon
  <2>3. CASE b = row[i]
    <3>1. b # NoBridge /\ i <= used
      BY <2>3, MonitorConstants, ZenonT(30) DEF Shape, RowInv
    <3>2. ASSUME NEW c \in Bridges, Known(c, i)' PROVE c = b
      <4>1. Known(c, i) => row[i] \in {c, NoBridge}
        BY DEF MapInv, KnownInv
      <4>. QED BY <2>3, <3>1, <3>2, <4>1, SMTT(30)
    <3>. QED BY <2>3, <3>1, <3>2, Zenon
  <2>. QED BY <2>1, <2>2, <2>3, SMTT(30)
<1>. QED BY <1>1, <1>2, <1>3, Zenon DEF MapInv

\* The transactions of others.
LEMMA MapTransactions == ASSUME Shape, MapInv, Transactions PROVE MapInv'
<1>1. PICK E \in SUBSET Events : IsFiniteSet(E) /\ Commit(E) /\ Effect(E)
  BY TransactionEffect DEF Shape
<1>2. \A e : Pending(e)' <=> Pending(e) \/ e \in E
  BY <1>1, PendingCommit, ZenonT(30)
<1>3. /\ lost' = lost /\ used' >= used
      /\ \A i \in Ifaces, b \in Bridges : Known(b, i)' <=> Known(b, i)
  BY <1>1, MonitorConstants, SMTT(30) DEF Commit, Effect, Known, Shape, TypeOK
<1>4. /\ row \in [Ifaces -> Bridges \cup {NoBridge}] /\ used \in Nat /\ used' \in Nat
      /\ row' \in [Ifaces -> Bridges \cup {NoBridge}]
      /\ \A i \in Ifaces : i \in Nat
  BY <1>1, MonitorConstants, SMTT(30) DEF Shape, TypeOK, Effect, Ifaces
<1>5. ASSUME NEW i \in Ifaces
      PROVE  \/ row'[i] = row[i] /\ IfaceDeleted(i) \notin E
             \/ row'[i] = NoBridge /\ row[i] # NoBridge /\ IfaceDeleted(i) \in E
             \/ /\ row'[i] # NoBridge /\ IfaceAdded(i) \in E /\ IfaceDeleted(i) \notin E
                /\ used < i /\ i <= used'
  BY <1>1 DEF Effect
<1>6. ASSUME NEW i \in Ifaces, Pending(IfaceDeleted(i))'
      PROVE  i <= used' /\ row'[i] = NoBridge
  <2>1. CASE Pending(IfaceDeleted(i))
    <3>1. i <= used /\ row[i] = NoBridge
      BY <2>1 DEF MapInv, DeletedInv
    <3>. QED BY <1>3, <1>4, <1>5, <3>1, SMTT(30)
  <2>2. CASE IfaceDeleted(i) \in E
    <3>1. row'[i] = NoBridge /\ row[i] # NoBridge
      BY <1>5, <2>2, Zenon
    <3>2. i <= used
      BY <3>1, Zenon DEF Shape, RowInv
    <3>. QED BY <1>3, <1>4, <3>1, <3>2, SMTT(30)
  <2>. QED BY <1>2, <1>6, <2>1, <2>2, ZenonT(30)
<1>7. ASSUME NEW i \in Ifaces, i \notin lost', row'[i] # NoBridge
      PROVE  Pending(IfaceAdded(i))' \/ Known(row[i], i)'
  <2>1. IfaceAdded(i) \in E \/ row'[i] = row[i]
    BY <1>5, <1>7, Zenon
  <2>2. row'[i] = row[i] => Pending(IfaceAdded(i)) \/ Known(row[i], i)
    BY <1>3, <1>7, ZenonT(30) DEF MapInv, AddedInv
  <2>3. row'[i] = row[i] /\ Known(row[i], i) => Known(row[i], i)'
    BY <1>1 DEF Commit, Known
  <2>. QED BY <1>2, <2>1, <2>2, <2>3, ZenonT(30)
<1>8. ASSUME NEW i \in Ifaces, NEW b \in Bridges, Known(b, i)'
      PROVE  /\ i <= used'
             /\ row'[i] \in {b, NoBridge}
             /\ row'[i] = NoBridge => i \in lost' \/ Pending(IfaceDeleted(i))'
             /\ \A c \in Bridges : Known(c, i)' => c = b
  <2>1. /\ i <= used /\ row[i] \in {b, NoBridge}
        /\ row[i] = NoBridge => i \in lost \/ Pending(IfaceDeleted(i))
        /\ \A c \in Bridges : Known(c, i) => c = b
    BY <1>3, <1>8, ZenonT(30) DEF MapInv, KnownInv
  <2>2. i <= used' /\ \A c \in Bridges : Known(c, i)' => c = b
    BY <1>3, <1>4, <2>1, SMTT(30)
  <2>3. ~(used < i)
    BY <1>4, <2>1, SMTT(30)
  <2>4. row'[i] \in {b, NoBridge} /\ (row'[i] = NoBridge => i \in lost' \/ Pending(IfaceDeleted(i))')
    BY <1>2, <1>3, <1>5, <2>1, <2>3, SMTT(30)
  <2>. QED BY <2>2, <2>4, Zenon
<1>9. DeletedInv'
  BY <1>6 DEF DeletedInv
<1>10. AddedInv'
  BY <1>7 DEF AddedInv
<1>11. KnownInv'
  BY <1>8 DEF KnownInv
<1>. QED BY <1>9, <1>10, <1>11 DEF MapInv

LEMMA MapStep == ASSUME Shape, MapInv, [Next]_vars PROVE MapInv'
<1>1. CASE Transactions
  BY <1>1, MapTransactions, Zenon
<1>2. CASE OnBridgeAdded \/ OnBridgeDeleted
  <2>1. UNCHANGED <<row, used, numaMap, task, lost>>
    BY <1>2, Zenon DEF OnBridgeAdded, OnBridgeDeleted, ovsdb
  <2>2. \A i : /\ Pending(IfaceAdded(i))' <=> Pending(IfaceAdded(i))
               /\ Pending(IfaceDeleted(i))' <=> Pending(IfaceDeleted(i))
    BY <1>2, PendingBridge, Zenon
  <2>3. /\ \A i \in Ifaces, b \in Bridges : Known(b, i)' <=> Known(b, i)
        /\ \A i \in Ifaces : Known(row[i], i)' <=> Known(row[i], i)
    BY <2>1, Zenon DEF Known
  <2>. QED BY <2>1, <2>2, <2>3, MapKept
<1>3. CASE ForgetBridge
  <2>1. UNCHANGED <<row, used, task, events, ifaceCh>> /\ lost \subseteq lost'
    BY <1>3, Zenon DEF ForgetBridge, ovsdb
  <2>2. \A e : Pending(e)' <=> Pending(e)
    BY <2>1, Zenon DEF Pending, Contents
  <2>3. \A i \in Ifaces, b \in Bridges : Known(b, i)' => Known(b, i)
    BY <1>3, Zenon DEF ForgetBridge, Known
  <2>4. ASSUME NEW i \in Ifaces, i \notin lost', Known(row[i], i)
        PROVE  Known(row[i], i)'
    <3>1. <<row[i], i>> \in numaMap => row[i] # forget
      BY <1>3, <2>4, Zenon DEF ForgetBridge, Entries, Uplinks
    <3>2. <<row[i], i>> \in numaMap => <<row[i], i>> \in numaMap'
      BY <1>3, <3>1, Zenon DEF ForgetBridge
    <3>. QED BY <2>1, <2>4, <3>2, Zenon DEF Known
  <2>. QED BY <2>1, <2>2, <2>3, <2>4, MapKept
<1>4. CASE OnInterface
  <2>1. UNCHANGED <<row, used, numaMap, task>> /\ lost \subseteq lost'
    BY <1>4, Zenon DEF OnInterface, ovsdb
  <2>2. ASSUME NEW i \in Ifaces
        PROVE  /\ Pending(IfaceAdded(i)) => Pending(IfaceAdded(i))' \/ i \in lost'
               /\ Pending(IfaceDeleted(i)) => Pending(IfaceDeleted(i))' \/ i \in lost'
               /\ Pending(IfaceDeleted(i))' => Pending(IfaceDeleted(i))
    BY <1>4, PendingSend, EventsDiffer
  <2>3. /\ \A i \in Ifaces, b \in Bridges : Known(b, i)' <=> Known(b, i)
        /\ \A i \in Ifaces : Known(row[i], i)' <=> Known(row[i], i)
    BY <2>1, Zenon DEF Known
  <2>. QED BY <2>1, <2>2, <2>3, MapKept
<1>5. CASE ResolveInterface
  <2> DEFINE h == Head(ifaceCh).iface
  <2>1. /\ UNCHANGED <<row, used, numaMap, lost, events>> /\ ifaceCh' = Tail(ifaceCh)
        /\ ifaceCh # <<>> /\ Head(ifaceCh) = IfaceAdded(h)
    BY <1>5, NextReceived, Zenon DEF ResolveInterface, Received, ovsdb, Shape
  <2>2. ASSUME NEW i \in Ifaces
        PROVE  /\ Pending(IfaceDeleted(i))' <=> Pending(IfaceDeleted(i))
               /\ Pending(IfaceAdded(i)) => Pending(IfaceAdded(i))' \/ i = h
    BY <2>1, PendingReceive, EventsDiffer
  <2>3. /\ task.state # "store"
        /\ task'.state = "store" /\ task'.iface = h /\ task'.bridge = row[h]
    BY <1>5, Zenon DEF ResolveInterface, Received, Idle
  <2> HIDE DEF h
  <2>4. ASSUME NEW i \in Ifaces, NEW b \in Bridges, Known(b, i)'
        PROVE  Known(b, i) \/ b = row[i]
    BY <2>1, <2>3, <2>4, Zenon DEF Known
  <2>5. ASSUME NEW i \in Ifaces, Known(row[i], i) \/ i = h
        PROVE  Known(row[i], i)'
    <3>1. row'[i] = row[i] /\ numaMap' = numaMap
      BY <2>1
    <3>2. CASE Known(row[i], i)
      BY <2>3, <3>1, <3>2, Zenon DEF Known
    <3>3. CASE i = h
      BY <2>3, <3>1, <3>3, ZenonT(30) DEF Known
    <3>. QED BY <2>5, <3>2, <3>3, Zenon
  <2>. QED BY <2>1, <2>2, <2>4, <2>5, MapKept, Zenon
<1>6. CASE ResolveFails
  <2> DEFINE h == Head(ifaceCh).iface
  <2>1. /\ UNCHANGED <<row, used, numaMap, task, events>> /\ ifaceCh' = Tail(ifaceCh)
        /\ ifaceCh # <<>> /\ Head(ifaceCh) = IfaceAdded(h)
        /\ row[h] = NoBridge \/ h \in lost'
        /\ lost \subseteq lost'
    BY <1>6, NextReceived, Zenon DEF ResolveFails, Received, ovsdb, Shape
  <2>2. ASSUME NEW i \in Ifaces
        PROVE  /\ Pending(IfaceDeleted(i))' <=> Pending(IfaceDeleted(i))
               /\ Pending(IfaceAdded(i)) => Pending(IfaceAdded(i))' \/ i = h
    <3>1. /\ IfaceDeleted(i) # Head(ifaceCh)
          /\ IfaceAdded(i) = Head(ifaceCh) => i = h
      BY <2>1, EventsDiffer, Zenon
    <3>. QED BY <2>1, <3>1, PendingReceive, Zenon
  <2>3. /\ \A i \in Ifaces, b \in Bridges : Known(b, i)' <=> Known(b, i)
        /\ \A i \in Ifaces : Known(row[i], i)' <=> Known(row[i], i)
    BY <2>1, Zenon DEF Known
  <2>. QED BY <2>1, <2>2, <2>3, MapKept
<1>7. CASE StoreNode
  <2>1. UNCHANGED <<row, used, lost, events, ifaceCh>>
    BY <1>7, Zenon DEF StoreNode, ovsdb
  <2>2. \A e : Pending(e)' <=> Pending(e)
    BY <2>1 DEF Pending, Contents
  <2>3. task.state = "store" /\ task'.state = "notify"
        /\ numaMap' = numaMap \cup {<<task.bridge, task.iface>>}
    BY <1>7, Zenon DEF StoreNode, Shape, TypeOK
  <2>4. /\ \A i \in Ifaces, b \in Bridges : Known(b, i)' <=> Known(b, i)
        /\ \A i \in Ifaces : Known(row[i], i)' <=> Known(row[i], i)
    BY <2>1, <2>3, Zenon DEF Known
  <2>. QED BY <2>1, <2>2, <2>4, MapKept
<1>8. CASE HandleInterfaceDelete
  <2> DEFINE h == Head(ifaceCh).iface
  <2>1. /\ UNCHANGED <<row, used, lost, events>> /\ ifaceCh' = Tail(ifaceCh)
        /\ ifaceCh # <<>> /\ Head(ifaceCh) = IfaceDeleted(h) /\ h \in Ifaces
        /\ task = Idle
    BY <1>8, NextReceived, Zenon DEF HandleInterfaceDelete, Received, ovsdb, Shape
  <2>2. ASSUME NEW i \in Ifaces
        PROVE  /\ Pending(IfaceDeleted(i))' => Pending(IfaceDeleted(i))
               /\ Pending(IfaceDeleted(i)) => Pending(IfaceDeleted(i))' \/ i = h
               /\ Pending(IfaceAdded(i)) => Pending(IfaceAdded(i))'
    <3>1. /\ IfaceAdded(i) # Head(ifaceCh)
          /\ IfaceDeleted(i) = Head(ifaceCh) => i = h
      BY <2>1, EventsDiffer, Zenon
    <3>. QED BY <2>1, <3>1, PendingReceive, Zenon
  <2>3. row[h] = NoBridge
    <3>1. Pending(IfaceDeleted(h))
      BY <2>1, NextReceived DEF Shape, Pending
    <3>. QED BY <2>1, <3>1, ZenonT(30) DEF MapInv, DeletedInv
  <2>4. \/ /\ numaMap' = numaMap /\ task' = task
           /\ \A b \in Bridges : <<b, h>> \notin numaMap
        \/ \E b \in Bridges : /\ <<b, h>> \in numaMap /\ numaMap' = numaMap \ {<<b, h>>}
                             /\ task' = [state |-> "notify", iface |-> h, bridge |-> b]
    BY <1>8, Zenon DEF HandleInterfaceDelete
  <2>5. task.state # "store" /\ task'.state # "store"
    <3>1. task.state # "store"
      BY <2>1 DEF Idle
    <3>2. task' = task
          \/ \E b \in Bridges : task' = [state |-> "notify", iface |-> h, bridge |-> b]
      BY <2>4, Zenon
    <3>. QED BY <3>1, <3>2, SMTT(30)
  <2> HIDE DEF h
  <2>6. /\ \A b, i : Known(b, i) <=> <<b, i>> \in numaMap
        /\ \A b, i : Known(b, i)' <=> <<b, i>> \in numaMap'
        /\ \A i \in Ifaces : Known(row[i], i)' <=> <<row[i], i>> \in numaMap'
    <3>1. \A b, i : Known(b, i) <=> <<b, i>> \in numaMap
      BY <2>5 DEF Known
    <3>2. \A b, i : Known(b, i)' <=> <<b, i>> \in numaMap'
      BY <2>5 DEF Known
    <3>3. ASSUME NEW i \in Ifaces PROVE Known(row[i], i)' <=> <<row[i], i>> \in numaMap'
      <4>1. row'[i] = row[i]
        BY <2>1, Zenon
      <4>. QED BY <2>5, <4>1 DEF Known
    <3>. QED BY <3>1, <3>2, <3>3
  <2>7. \A b, c \in Bridges : <<b, h>> \in numaMap /\ <<c, h>> \in numaMap => b = c
    BY <2>1, <2>6 DEF MapInv, KnownInv
  <2>8. /\ \A b \in Bridges : <<b, h>> \notin numaMap'
        /\ \A i \in Ifaces \ {h} : \A b : <<b, i>> \in numaMap' <=> <<b, i>> \in numaMap
    BY <2>4, <2>7, Zenon
  <2>9. ASSUME NEW i \in Ifaces
        PROVE  /\ \A b \in Bridges : Known(b, i)' /\ Pending(IfaceDeleted(i)) =>
                     Pending(IfaceDeleted(i))' \/ i \in lost'
               /\ row[i] # NoBridge /\ Known(row[i], i) => Known(row[i], i)'
               /\ \A b \in Bridges : Known(b, i)' => Known(b, i)
    <3>1. CASE i = h
      BY <2>3, <2>6, <2>8, <3>1, Zenon
    <3>2. CASE i # h
      BY <2>2, <2>6, <2>8, <3>2, Zenon
    <3>. QED BY <3>1, <3>2
  <2>. QED BY <2>1, <2>2, <2>9, MapKept
<1>9. CASE Notify
  <2>1. UNCHANGED <<row, used, lost, events, ifaceCh, numaMap>>
        /\ task.state # "store" /\ task'.state # "store"
    BY <1>9, Zenon DEF Notify, ovsdb, Idle
  <2>2. \A e : Pending(e)' <=> Pending(e)
    BY <2>1, Zenon DEF Pending, Contents
  <2>3. /\ \A i \in Ifaces, b \in Bridges : Known(b, i)' <=> Known(b, i)
        /\ \A i \in Ifaces : Known(row[i], i)' <=> Known(row[i], i)
    BY <2>1, Zenon DEF Known
  <2>. QED BY <2>1, <2>2, <2>3, MapKept
<1>10. CASE UNCHANGED vars
  <2>1. UNCHANGED <<row, used, lost, events, ifaceCh, numaMap, task>>
    BY <1>10, Zenon DEF vars, ovsdb
  <2>2. \A e : Pending(e)' <=> Pending(e)
    BY <2>1, Zenon DEF Pending, Contents
  <2>3. /\ \A i \in Ifaces, b \in Bridges : Known(b, i)' <=> Known(b, i)
        /\ \A i \in Ifaces : Known(row[i], i)' <=> Known(row[i], i)
    BY <2>1 DEF Known
  <2>. QED BY <2>1, <2>2, <2>3, MapKept
<1>. QED BY <1>1, <1>2, <1>3, <1>4, <1>5, <1>6, <1>7, <1>8, <1>9, <1>10, SMTT(30)
          DEF Next, CacheStep, InterfaceStep

\* At rest the map agrees with OVSDB on every interface but those whose loss is
\* recorded: late lookups and the two goroutines cause no other error.
THEOREM MapErrors == Spec => []MapErrorsExplained
<1>1. Init => Shape /\ MapInv
  <2> SUFFICES ASSUME Init PROVE Shape /\ MapInv
    OBVIOUS
  <2>1. Shape
    BY ShapeInit
  <2>2. \A e : ~Pending(e)
    BY DEF Init, Pending, Contents
  <2>3. \A b, i : ~Known(b, i)
    BY DEF Init, Known, Idle
  <2>4. \A i \in Ifaces : row[i] = NoBridge
    BY DEF Init
  <2>. QED BY <2>1, <2>2, <2>3, <2>4 DEF MapInv, DeletedInv, AddedInv, KnownInv
<1>2. Shape /\ MapInv /\ [Next]_vars => (Shape /\ MapInv)'
  BY ShapeStep, MapStep
<1>3. Shape /\ MapInv => MapErrorsExplained
  <2> SUFFICES ASSUME Shape, MapInv, AtRest, NEW i \in Ifaces \ lost, NEW b \in Bridges
               PROVE  <<b, i>> \in numaMap <=> row[i] = b
    BY Zenon DEF MapErrorsExplained
  <2>1. \A e : ~Pending(e)
    BY DEF AtRest, Pending, Contents
  <2>2. \A c : Known(c, i) <=> <<c, i>> \in numaMap
    BY DEF AtRest, Known, Idle
  <2>3. row[i] = b => <<b, i>> \in numaMap
    BY <2>1, <2>2, MonitorConstants, Zenon DEF MapInv, AddedInv
  <2>4. <<b, i>> \in numaMap => row[i] = b
    BY <2>1, <2>2, Zenon DEF MapInv, KnownInv
  <2>. QED BY <2>3, <2>4
<1>. QED BY <1>1, <1>2, <1>3, PTL DEF Spec

-----------------------------------------------------------------------------
(* The notices *)

\* Taking the first event leaves the order of the others.
LEMMA OrderOfTail ==
    ASSUME Shape, OrderInv, events # <<>>, events' = Tail(events),
           present' = present, swapped' = swapped
    PROVE  /\ OrderInv'
           /\ \A b \in present \ swapped :
                 Head(events) = BridgeDeleted(b) => BridgeAdded(b) \in Contents(events')
<1>1. /\ Head(events) = events[1]
      /\ Len(events) \in Nat \ {0} /\ Len(events') = Len(events) - 1
      /\ \A k \in 1..Len(events') : events'[k] = events[k + 1]
  BY HeadTailProperties, EmptySeq DEF Shape, TypeOK
<1>2. ASSUME NEW k \in 1..Len(events'), NEW b \in present \ swapped,
             events'[k] = BridgeDeleted(b)
      PROVE  \E m \in k+1..Len(events') : events'[m] = BridgeAdded(b)
  <2>1. k + 1 \in 1..Len(events) /\ events[k + 1] = BridgeDeleted(b)
    BY <1>1, <1>2
  <2>2. PICK m \in k+1+1..Len(events) : events[m] = BridgeAdded(b)
    BY <2>1, Zenon DEF OrderInv
  <2>3. m - 1 \in k+1..Len(events') /\ events'[m - 1] = events[m]
    BY <1>1, <2>1
  <2>. QED BY <2>2, <2>3, Zenon
<1>3. ASSUME NEW b \in present \ swapped, Head(events) = BridgeDeleted(b)
      PROVE  BridgeAdded(b) \in Contents(events')
  <2>1. 1 \in 1..Len(events) /\ events[1] = BridgeDeleted(b)
    BY <1>1, <1>3
  <2>2. PICK m \in 1+1..Len(events) : events[m] = BridgeAdded(b)
    BY <2>1 DEF OrderInv
  <2>3. m - 1 \in 1..Len(events') /\ events'[m - 1] = events[m]
    BY <1>1
  <2>. QED BY <2>2, <2>3, Zenon DEF Contents
<1>4. OrderInv'
  BY <1>2, Zenon DEF OrderInv
<1>. QED BY <1>3, <1>4, Zenon

\* The transactions of others.
LEMMA ToldTransactions == ASSUME Shape, ToldInv, Transactions PROVE ToldInv'
<1>1. PICK E \in SUBSET Events : IsFiniteSet(E) /\ Commit(E) /\ Effect(E)
  BY TransactionEffect DEF Shape
<1>2. /\ Contents(events') = Contents(events) \cup E
      /\ Len(events) \in Nat /\ Len(events') \in Nat /\ Len(events) <= Len(events')
      /\ \A k \in 1..Len(events) : events'[k] = events[k]
      /\ \A k \in Len(events)+1..Len(events') : events'[k] \in E
      /\ \A e \in E : \E k \in Len(events)+1..Len(events') : events'[k] = e
  BY <1>1, CommitEvents, Zenon DEF Shape
<1>3. ASSUME NEW b \in present' \ swapped'
      PROVE  /\ b \in Bridges /\ b \notin swapped
             /\ b \in present \/ BridgeAdded(b) \in E
             /\ BridgeDeleted(b) \notin E
  BY <1>1, Zenon DEF Effect
<1>4. OrderInv'
  <2> SUFFICES ASSUME NEW k \in 1..Len(events'), NEW b \in present' \ swapped',
                      events'[k] = BridgeDeleted(b)
               PROVE  \E m \in k+1..Len(events') : events'[m] = BridgeAdded(b)
    BY DEF OrderInv
  <2>1. k \in 1..Len(events) /\ events[k] = BridgeDeleted(b)
    BY <1>2, <1>3
  <2>2. CASE b \in present
    <3>1. PICK m \in k+1..Len(events) : events[m] = BridgeAdded(b)
      BY <1>3, <2>1, <2>2, Zenon DEF ToldInv, OrderInv
    <3>2. m \in k+1..Len(events') /\ events'[m] = events[m]
      BY <1>2
    <3>. QED BY <3>1, <3>2, Zenon
  <2>3. CASE BridgeAdded(b) \in E
    <3>1. PICK m \in Len(events)+1..Len(events') : events'[m] = BridgeAdded(b)
      BY <1>2, <2>3, Zenon
    <3>2. m \in k+1..Len(events')
      BY <1>2, <2>1
    <3>. QED BY <3>1, <3>2, Zenon
  <2>. QED BY <1>3, <2>2, <2>3, Zenon
<1>5. ForgetInv'
  <2> SUFFICES ASSUME forget \in present' \ swapped' PROVE BridgeAdded(forget) \in Contents(events')
    BY <1>1, Zenon DEF ForgetInv, Commit
  <2>. QED BY <1>2, <1>3, Zenon DEF ToldInv, ForgetInv
<1>6. UntoldInv'
  <2> SUFFICES ASSUME NEW b \in (untold \cap present') \ swapped'
               PROVE  \/ task.state = "notify" /\ task.bridge = b
                      \/ BridgeAdded(b) \in Contents(events')
    BY <1>1, Zenon DEF UntoldInv, Commit
  <2>. QED BY <1>2, <1>3, Zenon DEF ToldInv, UntoldInv
<1>. QED BY <1>4, <1>5, <1>6 DEF ToldInv

LEMMA ToldStep == ASSUME Shape, ToldInv, [Next]_vars PROVE ToldInv'
<1> USE DEF ToldInv
<1>0. NoBridge \notin present
  BY MonitorConstants DEF Shape, TypeOK
<1>1. CASE Transactions
  BY <1>1, ToldTransactions, Zenon
<1>2. CASE OnBridgeAdded
  <2>1. /\ events # <<>> /\ events' = Tail(events) /\ present' = present /\ swapped' = swapped
        /\ forget' = NoBridge /\ untold' = {}
    BY <1>2, Zenon DEF OnBridgeAdded, ovsdb
  <2>. QED BY <1>0, <2>1, OrderOfTail DEF ForgetInv, UntoldInv
<1>3. CASE OnBridgeDeleted
  <2>1. /\ events # <<>> /\ events' = Tail(events) /\ present' = present /\ swapped' = swapped
        /\ Head(events) = BridgeDeleted(forget') /\ untold' = {}
    BY <1>3, NextEvent DEF OnBridgeDeleted, ovsdb, Shape
  <2>. QED BY <2>1, OrderOfTail, Zenon DEF ForgetInv, UntoldInv
<1>4. CASE ForgetBridge
  <2>1. /\ UNCHANGED <<present, swapped, events, task>>
        /\ forget' = NoBridge /\ untold' \subseteq untold \cup {forget}
    BY <1>4 DEF ForgetBridge, ovsdb
  <2>2. OrderInv' /\ ForgetInv'
    BY <1>0, <2>1 DEF OrderInv, ForgetInv
  <2>3. UntoldInv'
    BY <2>1, Zenon DEF ForgetInv, UntoldInv, Contents
  <2>. QED BY <2>2, <2>3
<1>5. CASE OnInterface
  <2>1. /\ events # <<>> /\ events' = Tail(events) /\ UNCHANGED <<present, swapped, task, untold>>
        /\ forget' = NoBridge
    BY <1>5 DEF OnInterface, ovsdb
  <2>2. \A b : BridgeAdded(b) \in Contents(events) => BridgeAdded(b) \in Contents(events')
    <3>1. Head(events).kind \in {"ifaceAdded", "ifaceDeleted"}
      BY <1>5, Zenon DEF OnInterface
    <3>2. /\ Contents(events) = {Head(events)} \cup Contents(events')
          /\ \E i : Head(events) \in {IfaceAdded(i), IfaceDeleted(i)}
      BY <2>1, <3>1, NextEvent DEF Shape
    <3>3. \A b : BridgeAdded(b) # Head(events)
      BY <3>2, EventsDiffer, SMTT(30)
    <3>. QED BY <3>2, <3>3, Zenon
  <2>. QED BY <1>0, <2>1, <2>2, OrderOfTail DEF ForgetInv, UntoldInv
<1>6. CASE ResolveInterface \/ ResolveFails
  <2>1. UNCHANGED <<present, swapped, events, forget, untold>> /\ task.state = "idle"
    BY <1>6 DEF ResolveInterface, ResolveFails, Received, Idle, ovsdb
  <2>2. OrderInv' /\ ForgetInv'
    BY <2>1 DEF OrderInv, ForgetInv, Contents
  <2>3. UntoldInv'
    BY <2>1, Zenon DEF UntoldInv, Contents
  <2>. QED BY <2>2, <2>3
<1>7. CASE StoreNode
  <2>1. /\ UNCHANGED <<present, swapped, events, forget>>
        /\ untold' = untold \cup {task.bridge} /\ task.state = "store"
        /\ task'.state = "notify" /\ task'.bridge = task.bridge
    BY <1>7, Zenon DEF StoreNode, ovsdb, Shape, TypeOK
  <2>2. OrderInv' /\ ForgetInv'
    BY <2>1 DEF OrderInv, ForgetInv, Contents
  <2>3. UntoldInv'
    BY <2>1, Zenon DEF UntoldInv, Contents
  <2>. QED BY <2>2, <2>3
<1>8. CASE HandleInterfaceDelete
  <2>1. UNCHANGED <<present, swapped, events, forget>> /\ task.state = "idle"
    BY <1>8, Zenon DEF HandleInterfaceDelete, Received, Idle, ovsdb
  <2>2. OrderInv' /\ ForgetInv'
    BY <2>1 DEF OrderInv, ForgetInv, Contents
  <2>3. \/ untold' = untold
        \/ \E b \in Bridges : /\ untold' = untold \cup {b}
                              /\ task'.state = "notify" /\ task'.bridge = b
    <3>1. \/ untold' = untold
          \/ \E b \in Bridges :
                /\ untold' = untold \cup {b}
                /\ task' = [state |-> "notify", iface |-> Head(ifaceCh).iface, bridge |-> b]
      BY <1>8, Zenon DEF HandleInterfaceDelete
    <3>. QED BY <3>1
  <2>4. UntoldInv'
    BY <2>1, <2>3 DEF UntoldInv, Contents
  <2>. QED BY <2>2, <2>4
<1>9. CASE Notify
  <2>1. /\ UNCHANGED <<present, swapped, events, forget>>
        /\ untold' = untold \ {task.bridge}
    BY <1>9, Zenon DEF Notify, ovsdb
  <2>2. OrderInv' /\ ForgetInv'
    BY <2>1 DEF OrderInv, ForgetInv, Contents
  <2>3. UntoldInv'
    BY <2>1, Zenon DEF UntoldInv, Contents
  <2>. QED BY <2>2, <2>3
<1>10. CASE UNCHANGED vars
  BY <1>10 DEF vars, ovsdb, OrderInv, ForgetInv, UntoldInv, Contents
<1>. QED BY <1>1, <1>2, <1>3, <1>4, <1>5, <1>6, <1>7, <1>8, <1>9, <1>10, SMTT(30)
          DEF Next, CacheStep, InterfaceStep

\* At rest the topology manager has read every existing bridge since its entries
\* last changed, unless the bridge was replaced in one transaction.
THEOREM ReaderIsTold == Spec => []ChangesAreTold
<1>1. Init => Shape /\ ToldInv
  <2> SUFFICES ASSUME Init PROVE Shape /\ ToldInv
    OBVIOUS
  <2>1. present = {} /\ events = <<>>
    BY DEF Init
  <2>. QED BY <2>1, ShapeInit DEF ToldInv, OrderInv, ForgetInv, UntoldInv
<1>2. Shape /\ ToldInv /\ [Next]_vars => (Shape /\ ToldInv)'
  BY ShapeStep, ToldStep
<1>3. Shape /\ ToldInv => ChangesAreTold
  <2> SUFFICES ASSUME ToldInv, AtRest, NEW b \in (untold \cap present) \ swapped PROVE FALSE
    BY DEF ChangesAreTold
  <2>. QED BY DEF ToldInv, UntoldInv, AtRest, Idle, Contents
<1>. QED BY <1>1, <1>2, <1>3, PTL DEF Spec

\* The entries of one bridge change at a time, and the change ends in a notice
\* for that bridge, unless it is the removal of a deleted bridge's entries, of
\* which the bridge notifier was told before.
THEOREM ChangesAnnounced == Spec => ChangesAreAnnounced
<1> DEFINE Announced ==
       \A b \in Bridges : Entries(b)' # Entries(b) =>
          /\ \A c \in Bridges \ {b} : Entries(c)' = Entries(c)
          /\ \/ task'.state = "notify" /\ task'.bridge = b
             \/ Entries(b)' = {} /\ forget = b
<1>1. ASSUME TypeOK, Next PROVE Announced
  <2>1. CASE numaMap' = numaMap
    BY <2>1 DEF Entries
  <2>2. CASE ForgetBridge
    <3>1. numaMap' = {e \in numaMap : e[1] # forget}
      BY <2>2 DEF ForgetBridge
    <3>2. \A b, i : <<b, i>> \in numaMap' <=> <<b, i>> \in numaMap /\ b # forget
      BY <3>1
    <3>3. \A b \in Bridges : Entries(b)' = IF b = forget THEN {} ELSE Entries(b)
      BY <3>2, Zenon DEF Entries
    <3>. QED BY <3>3
  <2>3. CASE StoreNode
    <3>1. /\ numaMap' = numaMap \cup {<<task.bridge, task.iface>>}
          /\ task'.state = "notify" /\ task'.bridge = task.bridge
      BY <2>3 DEF StoreNode, TypeOK
    <3>2. \A c \in Bridges : c # task.bridge => Entries(c)' = Entries(c)
      BY <3>1 DEF Entries
    <3>. QED BY <3>1, <3>2
  <2>4. CASE HandleInterfaceDelete /\ numaMap' # numaMap
    <3>1. PICK b \in Bridges :
             /\ numaMap' = numaMap \ {<<b, Head(ifaceCh).iface>>}
             /\ task' = [state |-> "notify", iface |-> Head(ifaceCh).iface, bridge |-> b]
      BY <2>4, Zenon DEF HandleInterfaceDelete
    <3>2. task'.state = "notify" /\ task'.bridge = b
      BY <3>1, Zenon
    <3>3. \A c \in Bridges : c # b => Entries(c)' = Entries(c)
      BY <3>1 DEF Entries
    <3>. QED BY <3>2, <3>3
  <2>5. \/ numaMap' = numaMap
        \/ ForgetBridge \/ StoreNode
        \/ HandleInterfaceDelete /\ numaMap' # numaMap
    BY <1>1, Zenon DEF Next, Transactions, CreateBridge, DeleteBridge, AddUplink, DeleteUplink, Commit,
                CacheStep, OnBridgeAdded, OnBridgeDeleted, OnInterface, InterfaceStep,
                ResolveInterface, ResolveFails, Notify, vars
  <2>. QED BY <2>1, <2>2, <2>3, <2>4, <2>5
<1>2. TypeOK /\ [Next]_vars => [Announced]_vars
  BY <1>1
<1>. QED BY <1>2, MonitorTypes, PTL DEF Spec, ChangesAreAnnounced

=============================================================================
