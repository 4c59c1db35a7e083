---------------------------- MODULE MCDiscovery ----------------------------
(* Discovery for TLC. *)
EXTENDS Discovery, TLC

CONSTANTS p1, d1   \* addresses

Configured == (p1 :> "prefill") @@ (d1 :> "decode")
=============================================================================
