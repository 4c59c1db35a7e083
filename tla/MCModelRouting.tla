--------------------------- MODULE MCModelRouting ---------------------------
(* ModelRouting for TLC: two instances of one model and one of another. *)
EXTENDS ModelRouting, TLC

CONSTANTS a1, a2, b1, m1, m2

TwoAndOne == a1 :> m1 @@ a2 :> m1 @@ b1 :> m2
ConfigOrder == <<a1, a2, b1>>

\* One strategy for all models, or the global one and m1's own.
TriedSchedulers ==
    {[n \in Name |-> s] : s \in Strategy}
      \cup {[n \in Name |-> IF n = m1 THEN "ring" ELSE "loadbalanced"],
            [n \in Name |-> IF n = m1 THEN "roundrobin" ELSE "ring"]}
=============================================================================
