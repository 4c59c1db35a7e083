--------------------------- MODULE MCFallbackLoad ---------------------------
(* FallbackLoad for TLC. *)
EXTENDS FallbackLoad, TLC

CONSTANTS a1, a2   \* addresses

TwoConfigured == <<a1, a2>>

SameLimit == [a \in Addr |-> 4]
=============================================================================
