---------------------------- MODULE MCProxyCore ----------------------------
(* ProxyCore for TLC: the deployments and the admin requests of the runs. *)
EXTENDS ProxyCore, TLC

CONSTANTS p1, d1, x1   \* addresses

\* p1 and d1 are configured; x1 joins later.
ConfiguredPD == (p1 :> "prefill") @@ (d1 :> "decode") @@ (x1 :> "none")

\* d1 leaves, and x1 joins as a decode or as an aggregated instance and leaves.
Rotation == {<<d1, "decode">>, <<x1, "decode">>, <<x1, "aggregated">>}

\* x1 joins and leaves under both roles, next to d1, which stays.
Coming == {<<x1, "decode">>, <<x1, "aggregated">>}

Symmetry == Permutations(Req) \cup Permutations(Admin)
=============================================================================
