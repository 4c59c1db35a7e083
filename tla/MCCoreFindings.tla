--------------------------- MODULE MCCoreFindings ---------------------------
(* CoreFindings for TLC. *)
EXTENDS CoreFindings, TLC

CONSTANTS p1, d1, d2   \* addresses

\* A prefill instance and two decode instances.
ConfiguredPDD == (p1 :> "prefill") @@ (d1 :> "decode") @@ (d2 :> "decode")

\* Removal of the prefill instance, retried at will.
RemovePrefill == {<<p1, "prefill">>}
=============================================================================
