--------------------------- MODULE PortConfigProofs ---------------------------
(***************************************************************************)
(* parseClaimConfigs computes the reference definition, for lists of any   *)
(* length and any requests and VLAN IDs.                                   *)
(***************************************************************************)
EXTENDS PortConfig, TLAPS

TypeInv ==
    /\ configs \in Seq(Elements)
    /\ next \in 1..(Len(configs) + 1)
    /\ failed \in BOOLEAN
    /\ byRequest \in [Requests -> 0..Len(configs)]
    /\ defaultCfg \in 0..Len(configs)

\* The elements that decide for a request, and for all of them.
Named(r, i)  == Ours(i) /\ r \in configs[i].requests
General(i)   == Ours(i) /\ configs[i].requests = {}

\* What the loop remembers of the part of the list it has seen: nothing in it
\* was unacceptable but the element it failed at, and the latest element for
\* each request, and for all of them.
LoopInv ==
    /\ failed => \E i \in 1..(next - 1) : Ours(i) /\ ~Acceptable(configs[i])
    /\ ~failed =>
          /\ \A i \in 1..(next - 1) : Ours(i) => Acceptable(configs[i])
          /\ \A r \in Requests :
                /\ byRequest[r] < next
                /\ byRequest[r] # 0 => Named(r, byRequest[r])
                /\ \A i \in 1..(next - 1) : Named(r, i) => i <= byRequest[r]
          /\ defaultCfg < next
          /\ defaultCfg # 0 => General(defaultCfg)
          /\ \A i \in 1..(next - 1) : General(i) => i <= defaultCfg

\* validatePortConfig accepts what the reference definition accepts.
LEMMA SameParameters ==
    ASSUME NEW c \in Elements
    PROVE  Acceptable(c) <=> c.source = "claim" /\ c.wellFormed /\ validatePortConfig(c.params)
<1>1. c.params \in Parameters
  <2>1. None \in Parameters
    BY DEF None, Parameters
  <2>2. CASE c \in [driver : {TRUE}, source : {"claim"}, wellFormed : {TRUE},
                    params : Parameters, requests : SUBSET Requests]
    BY <2>2
  <2>3. CASE c \in {Element(FALSE, "claim", TRUE, None, {}), Element(TRUE, "class", FALSE, None, {}),
                    Element(TRUE, "other", TRUE, None, {}), Element(TRUE, "claim", FALSE, None, {})}
    <3>1. c.params = None
      BY <2>3 DEF Element
    <3>. QED BY <2>1, <3>1
  <2>. QED BY <2>2, <2>3, Zenon DEF Elements
<1>. DEFINE v == c.params.vlan
            g == c.params.policing
<1>2. v \in Vlans \cup {NoVlan} /\ g \in {"none", "rate", "partial"}
  BY <1>1 DEF Parameters
<1>3. v # NoVlan => v \in Int
  BY <1>2, ConfigConstants, Zenon
<1>4. v # NoVlan => (v \in 0..MaxVlan <=> v >= 0 /\ v <= MaxVlan)
  <2>1. MaxVlan \in Int
    BY DEF MaxVlan
  <2>2. ASSUME NEW n \in Int PROVE n \in 0..MaxVlan <=> n >= 0 /\ n <= MaxVlan
    BY <2>1
  <2>. QED BY <1>3, <2>2, Zenon
<1>5. (v = NoVlan \/ v \in 0..MaxVlan) <=> (v # NoVlan => v >= 0 /\ v <= MaxVlan)
  BY <1>4, Zenon
<1>6. g # "partial" <=> g = "none" \/ g = "rate"
  BY <1>2
<1>. QED BY <1>5, <1>6, Zenon DEF Acceptable, validatePortConfig

\* The largest element of a set is the only one.
LEMMA LastIs ==
    ASSUME NEW S, S \subseteq Nat, NEW k \in Nat,
           k = 0 => S = {}, k # 0 => k \in S, \A i \in S : i <= k
    PROVE  Last(S) = k
<1>1. CASE S = {}
  BY <1>1 DEF Last
<1>2. CASE S # {}
  <2>1. k \in S /\ \A j \in S : j <= k
    BY <1>2, Zenon
  <2>2. \A i \in S : (\A j \in S : j <= i) => i = k
    BY <2>1
  <2>. QED BY <1>2, <2>1, <2>2, Zenon DEF Last
<1>. QED BY <1>1, <1>2

\* Every round keeps the types.
LEMMA TypeStep ==
    ASSUME TypeInv, parseClaimConfig
    PROVE  TypeInv'
<1>1. next' \in 1..(Len(configs) + 1) /\ next \in 1..Len(configs) /\ UNCHANGED configs
  BY DEF TypeInv, parseClaimConfig
<1>2. failed' \in BOOLEAN
  BY Zenon DEF parseClaimConfig
<1>3. byRequest' \in [Requests -> 0..Len(configs)] /\ defaultCfg' \in 0..Len(configs)
  <2>1. CASE UNCHANGED <<byRequest, defaultCfg>>
    BY <2>1 DEF TypeInv
  <2>2. CASE store(configs[next])
    BY <1>1, <2>2 DEF TypeInv, store
  <2>. QED BY <2>1, <2>2, Zenon DEF parseClaimConfig
<1>. QED BY <1>1, <1>2, <1>3 DEF TypeInv

\* Every round extends what is remembered by one element.
LEMMA LoopStep ==
    ASSUME TypeInv, LoopInv, parseClaimConfig
    PROVE  LoopInv'
<1>. DEFINE c == configs[next]
            skip == ~c.driver \/ c.source = "class"
            good == c.source = "claim" /\ c.wellFormed /\ validatePortConfig(c.params)
<1>1. /\ next \in 1..Len(configs) /\ next' = next + 1 /\ ~failed /\ UNCHANGED configs
      /\ c \in Elements
  BY DEF TypeInv, parseClaimConfig
<1>2. good <=> Acceptable(c)
  BY <1>1, SameParameters, Zenon
<1>3. ~skip <=> Ours(next)
  BY Zenon DEF Ours
<1>4. failed' <=> ~skip /\ ~good
  BY Zenon DEF parseClaimConfig
<1>o. /\ \A i : Ours(i)' <=> Ours(i)
      /\ \A i, r : Named(r, i)' <=> Named(r, i)
      /\ \A i : General(i)' <=> General(i)
  BY <1>1, Zenon DEF Ours, Named, General
<1>r. 1..(next' - 1) = 1..(next - 1) \cup {next} /\ next \in Nat
  BY <1>1 DEF TypeInv
<1>5. CASE ~skip /\ ~good
  BY <1>1, <1>2, <1>3, <1>4, <1>5, <1>o, <1>r, Zenon DEF LoopInv
<1>a. ASSUME skip \/ good
      PROVE  ~failed' /\ \A i \in 1..(next' - 1) : Ours(i)' => Acceptable(configs'[i])
  BY <1>1, <1>2, <1>3, <1>4, <1>a, <1>o, <1>r, Zenon DEF LoopInv
<1>6. CASE skip
  <2>1. UNCHANGED <<byRequest, defaultCfg>>
    BY <1>6, Zenon DEF parseClaimConfig
  <2>2. \A r : ~Named(r, next) /\ ~General(next)
    BY <1>3, <1>6, Zenon DEF Named, General
  <2>3. byRequest \in [Requests -> Nat] /\ defaultCfg \in Nat
    BY DEF TypeInv
  <2>4. \A r \in Requests :
           /\ byRequest'[r] < next'
           /\ byRequest'[r] # 0 => Named(r, byRequest'[r])
           /\ \A i \in 1..(next' - 1) : Named(r, i) => i <= byRequest'[r]
    BY <1>1, <1>r, <2>1, <2>2, <2>3 DEF LoopInv
  <2>5. /\ defaultCfg' < next' /\ (defaultCfg' # 0 => General(defaultCfg'))
        /\ \A i \in 1..(next' - 1) : General(i) => i <= defaultCfg'
    BY <1>1, <1>r, <2>1, <2>2, <2>3 DEF LoopInv
  <2>. QED BY <1>a, <1>6, <1>o, <2>4, <2>5 DEF LoopInv
<1>7. CASE ~skip /\ good
  <2>1. store(c)
    BY <1>7, Zenon DEF parseClaimConfig
  <2>2. \A r : (Named(r, next) <=> r \in c.requests) /\ (General(next) <=> c.requests = {})
    BY <1>3, <1>7, Zenon DEF Named, General
  <2>3. byRequest \in [Requests -> Nat] /\ defaultCfg \in Nat
    BY DEF TypeInv
  <2>4. ASSUME NEW r \in Requests
        PROVE  /\ byRequest'[r] < next'
               /\ byRequest'[r] # 0 => Named(r, byRequest'[r])
               /\ \A i \in 1..(next' - 1) : Named(r, i) => i <= byRequest'[r]
    <3>1. byRequest'[r] = IF r \in c.requests THEN next ELSE byRequest[r]
      BY <2>1 DEF store
    <3>. QED BY <1>1, <1>r, <2>2, <2>3, <3>1 DEF LoopInv
  <2>5. /\ defaultCfg' < next' /\ (defaultCfg' # 0 => General(defaultCfg'))
        /\ \A i \in 1..(next' - 1) : General(i) => i <= defaultCfg'
    <3>1. defaultCfg' = IF c.requests = {} THEN next ELSE defaultCfg
      BY <2>1 DEF store
    <3>. QED BY <1>1, <1>r, <2>2, <2>3, <3>1 DEF LoopInv
  <2>. QED BY <1>a, <1>7, <1>o, <2>4, <2>5 DEF LoopInv
<1>. QED BY <1>5, <1>6, <1>7

\* The invariant holds before the first round.
LEMMA InitInv == Init => TypeInv /\ LoopInv
<1>. SUFFICES ASSUME Init PROVE TypeInv /\ LoopInv
  OBVIOUS
<1>1. PICK n \in 0..MaxConfigs : configs \in [1..n -> Elements]
  BY DEF Init
<1>2. configs \in Seq(Elements) /\ Len(configs) = n
  BY <1>1, ConfigConstants
<1>3. failed \in BOOLEAN
  BY Zenon DEF Init
<1>. QED BY <1>2, <1>3, ConfigConstants DEF Init, TypeInv, LoopInv

\* It holds after every round.
LEMMA InvHolds == Spec => [](TypeInv /\ LoopInv)
<1>1. TypeInv /\ LoopInv /\ [Next]_vars => (TypeInv /\ LoopInv)'
  <2>1. ASSUME TypeInv, LoopInv, UNCHANGED vars PROVE TypeInv' /\ LoopInv'
    BY <2>1 DEF vars, TypeInv, LoopInv, Named, General, Ours
  <2>. QED BY <2>1, TypeStep, LoopStep DEF Next
<1>. QED BY <1>1, InitInv, PTL DEF Spec

\* parseClaimConfigs and getConfig give every request the configuration of the
\* reference definition, and refuse exactly the lists with an element that is
\* not acceptable.
THEOREM ParserCorrect == Spec => []ParsedAsSpecified
<1>1. TypeInv /\ LoopInv => ParsedAsSpecified
  <2>. SUFFICES ASSUME TypeInv, LoopInv, Done PROVE ParsedAsSpecified
    BY DEF ParsedAsSpecified
  <2>1. CASE failed
    <3>1. \E i \in DOMAIN configs : Ours(i) /\ ~Acceptable(configs[i])
      BY <2>1 DEF LoopInv, TypeInv
    <3>. QED BY <2>1, <3>1 DEF ParsedAsSpecified
  <2>2. CASE ~failed
    <3>1. 1..(next - 1) = DOMAIN configs /\ DOMAIN configs \subseteq Nat /\ 0 \notin DOMAIN configs
      BY <2>2 DEF Done, TypeInv
    <3>2. \A i \in DOMAIN configs : Ours(i) => Acceptable(configs[i])
      BY <2>2, <3>1, Zenon DEF LoopInv
    <3>3. ASSUME NEW r \in Requests PROVE getConfig(r) = Expected(r)
      <4>. DEFINE named == {i \in DOMAIN configs : Named(r, i)}
                  general == {i \in DOMAIN configs : General(i)}
      <4>1. byRequest[r] \in Nat /\ defaultCfg \in Nat
        BY <3>3 DEF TypeInv
      <4>2. /\ byRequest[r] = 0 => named = {}
            /\ byRequest[r] # 0 => byRequest[r] \in named
            /\ \A i \in named : i <= byRequest[r]
        <5>1. /\ byRequest[r] < next /\ (byRequest[r] # 0 => Named(r, byRequest[r]))
              /\ \A i \in DOMAIN configs : Named(r, i) => i <= byRequest[r]
          BY <2>2, <3>1, <3>3, Zenon DEF LoopInv
        <5>2. byRequest[r] # 0 => byRequest[r] \in 1..(next - 1)
          BY <4>1, <5>1 DEF TypeInv
        <5>3. \A i \in DOMAIN configs : ~(i <= 0)
          BY <3>1
        <5>. QED BY <3>1, <5>1, <5>2, <5>3, Zenon
      <4>3. /\ defaultCfg = 0 => general = {}
            /\ defaultCfg # 0 => defaultCfg \in general
            /\ \A i \in general : i <= defaultCfg
        <5>1. /\ defaultCfg < next /\ (defaultCfg # 0 => General(defaultCfg))
              /\ \A i \in DOMAIN configs : General(i) => i <= defaultCfg
          BY <2>2, <3>1, Zenon DEF LoopInv
        <5>2. defaultCfg # 0 => defaultCfg \in 1..(next - 1)
          BY <4>1, <5>1 DEF TypeInv
        <5>3. \A i \in DOMAIN configs : ~(i <= 0)
          BY <3>1
        <5>. QED BY <3>1, <5>1, <5>2, <5>3, Zenon
      <4>4. named \subseteq Nat /\ general \subseteq Nat
        BY <3>1
      <4>5. Last(named) = byRequest[r] /\ Last(general) = defaultCfg
        BY <4>1, <4>2, <4>3, <4>4, LastIs
      <4>6. Expected(r) = IF named # {} THEN Last(named) ELSE Last(general)
        BY Zenon DEF Expected, Named, General
      <4>. QED BY <4>2, <4>5, <4>6 DEF getConfig
    <3>. QED BY <2>2, <3>2, <3>3 DEF ParsedAsSpecified
  <2>. QED BY <2>1, <2>2
<1>. QED BY <1>1, InvHolds, PTL

=============================================================================
