--------------------------- MODULE MCClaimLifecycle ---------------------------
(***************************************************************************)
(* Two instances of ClaimLifecycle.                                        *)
(* "Batch": one pod with two claims, which one call prepares together; one *)
(* of them has two requests, one per bridge, and the other shares a bridge *)
(* and a request name with it.                                             *)
(* "Live": two pods with one claim and one request each, which share the   *)
(* bridge, the request name and the name of the claim inside the pod.      *)
(***************************************************************************)
EXTENDS ClaimRefinement, TLC

CONSTANTS p1, p2, c1, c2, d1, d2, d3, b1, b2, r1, r2, u1, u2, n1, n2

BatchReservedFor  == c1 :> p1 @@ c2 :> p1
BatchPodClaimName == c1 :> n1 @@ c2 :> n2
BatchClaimOf      == d1 :> c1 @@ d2 :> c1 @@ d3 :> c2
BatchRequestOf    == d1 :> r1 @@ d2 :> r2 @@ d3 :> r1
BatchBridgeOf     == d1 :> b1 @@ d2 :> b2 @@ d3 :> b1

LiveReservedFor  == c1 :> p1 @@ c2 :> p2
LivePodClaimName == c1 :> n1 @@ c2 :> n1
LiveClaimOf      == d1 :> c1 @@ d3 :> c2
LiveRequestOf    == d1 :> r1 @@ d3 :> r1
LiveBridgeOf     == d1 :> b1 @@ d3 :> b1

MCUIDPrefix == c1 :> u1 @@ c2 :> u2

ASSUME NamesAssumption == DistinctDirs /\ DistinctPorts
=============================================================================
