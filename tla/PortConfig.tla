------------------------------ MODULE PortConfig ------------------------------
(***************************************************************************)
(* Which OvsPortConfig a request of a claim gets: parseClaimConfigs goes   *)
(* through the configurations of the allocation in order, and getConfig    *)
(* picks one for the request of each allocation result.                    *)
(***************************************************************************)
EXTENDS Integers, Sequences

CONSTANTS
    Requests,       \* the requests of the claim
    Vlans,          \* VLAN IDs a configuration may carry
    MaxConfigs      \* bound on the length of the list

ASSUME ConfigConstants == Vlans \subseteq Int /\ MaxConfigs \in Nat

MaxVlan == 4095

\* The fields a configuration leaves out.
NoVlan == -100
None == [vlan |-> NoVlan, policing |-> "none"]

\* "partial" is a policing section without max_rate.
Parameters == [vlan : Vlans \cup {NoVlan}, policing : {"none", "rate", "partial"}]

\* An element of Allocation.Devices.Config: for this driver or another one,
\* its source, whether its JSON, kind and apiVersion are as expected, its
\* parameters, and the requests it is for (none stands for all of them).
Element(driver, source, wellFormed, params, requests) ==
    [driver |-> driver, source |-> source, wellFormed |-> wellFormed,
     params |-> params, requests |-> requests]

\* The fields that no longer matter after a rejection or a skip are fixed.
Elements ==
    {Element(FALSE, "claim", TRUE, None, {}), Element(TRUE, "class", FALSE, None, {}),
     Element(TRUE, "other", TRUE, None, {}), Element(TRUE, "claim", FALSE, None, {})}
    \cup [driver : {TRUE}, source : {"claim"}, wellFormed : {TRUE},
          params : Parameters, requests : SUBSET Requests]

VARIABLES
    configs,    \* the list
    next,       \* index of the element to look at
    byRequest,  \* claimPortConfigs: index of the element per request, 0 for none
    defaultCfg, \* index of the element for all requests, 0 for none
    failed      \* parseClaimConfigs returned an error

vars == <<configs, next, byRequest, defaultCfg, failed>>

Init ==
    /\ \E n \in 0..MaxConfigs : configs \in [1..n -> Elements]
    /\ next = 1
    /\ byRequest = [r \in Requests |-> 0]
    /\ defaultCfg = 0
    /\ failed = FALSE

validatePortConfig(p) ==
    /\ p.vlan = NoVlan \/ p.vlan \in 0..MaxVlan
    /\ p.policing # "partial"

\* Variant: the first configuration of a request stays.
storeFirst(c) ==
    IF c.requests = {}
    THEN defaultCfg' = next /\ UNCHANGED byRequest
    ELSE /\ byRequest' = [r \in Requests |->
                             IF r \in c.requests /\ byRequest[r] = 0 THEN next
                                                                     ELSE byRequest[r]]
         /\ UNCHANGED defaultCfg

store(c) ==
    IF c.requests = {}
    THEN defaultCfg' = next /\ UNCHANGED byRequest
    ELSE /\ byRequest' = [r \in Requests |->
                             IF r \in c.requests THEN next ELSE byRequest[r]]
         /\ UNCHANGED defaultCfg

\* One round of the loop.
parseClaimConfig ==
    /\ next <= Len(configs) /\ ~failed
    /\ next' = next + 1
    /\ LET c == configs[next]
           skip == ~c.driver \/ c.source = "class"
           good == c.source = "claim" /\ c.wellFormed /\ validatePortConfig(c.params)
       IN /\ failed' = (~skip /\ ~good)
          /\ IF ~skip /\ good THEN store(c) ELSE UNCHANGED <<byRequest, defaultCfg>>
    /\ UNCHANGED configs

Done == failed \/ next > Len(configs)

Next == parseClaimConfig \/ (Done /\ UNCHANGED vars)

Spec == Init /\ [][Next]_vars

\* The element whose parameters a request gets; 0 stands for the defaults.
getConfig(r) == IF byRequest[r] # 0 THEN byRequest[r] ELSE defaultCfg

-----------------------------------------------------------------------------
(* The reference definition *)

Ours(i) == configs[i].driver /\ configs[i].source # "class"

Acceptable(c) ==
    /\ c.source = "claim" /\ c.wellFormed
    /\ c.params.vlan # NoVlan => c.params.vlan >= 0 /\ c.params.vlan <= MaxVlan
    /\ c.params.policing = "none" \/ c.params.policing = "rate"

Last(S) == IF S = {} THEN 0 ELSE CHOOSE i \in S : \A j \in S : j <= i

\* Of the elements for this driver that come from the claim, the last one
\* that names the request; else the last one for all requests; else none.
Expected(r) ==
    LET named == {i \in DOMAIN configs : Ours(i) /\ r \in configs[i].requests}
        general == {i \in DOMAIN configs : Ours(i) /\ configs[i].requests = {}}
    IN IF named # {} THEN Last(named) ELSE Last(general)

\* A list with one unacceptable element is refused as a whole, wherever the
\* element stands and whether or not a request would use it; and every
\* request of an accepted list gets the configuration of the reference
\* definition, although the loop only ever remembers the latest.
ParsedAsSpecified ==
    Done => IF \E i \in DOMAIN configs : Ours(i) /\ ~Acceptable(configs[i])
            THEN failed
            ELSE ~failed /\ \A r \in Requests : getConfig(r) = Expected(r)

=============================================================================
