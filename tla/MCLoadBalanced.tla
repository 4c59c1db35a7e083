--------------------------- MODULE MCLoadBalanced ---------------------------
(* LoadBalanced for TLC. *)
EXTENDS LoadBalanced, TLC

CONSTANTS a1, a2, a3   \* addresses

\* a1 and a2 are configured; a3 joins later.
TwoConfigured == <<a1, a2>>

\* a2 serves shorter requests only.
Limits == (a1 :> 5) @@ (a2 :> 2) @@ (a3 :> 4)

ReqSymmetry == Permutations(Req)
=============================================================================
