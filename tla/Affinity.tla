------------------------------ MODULE Affinity ------------------------------
(***************************************************************************)
(* What a policy with affinity promises (docs/scheduling.md, Consistent    *)
(* Hash): every routing key has a home among the candidates of each pool   *)
(* of requests, and when an instance comes or goes only the keys move that *)
(* had it, or now have it, as their home.                                  *)
(***************************************************************************)
CONSTANTS Addr,   \* instances
          Pool,   \* what requests may ask for
          Key,    \* routing keys
          NoAddr  \* no home

VARIABLES candidates,  \* the instances that may serve a pool
          home         \* the instance that serves a key of a pool

Init == /\ candidates \in [Pool -> SUBSET Addr]
        /\ home \in [Pool \X Key -> Addr \cup {NoAddr}]
        /\ \A p \in Pool, k \in Key :
              IF candidates[p] = {} THEN home[p, k] = NoAddr
              ELSE home[p, k] \in candidates[p]

\* Instance a becomes a candidate of some pools, or ceases to be one.
Changes(a) ==
    LET before == candidates   was == home
        after  == candidates'  is  == home'
    IN  /\ \A p \in Pool : /\ after[p] \subseteq Addr
                           /\ after[p] \ {a} = before[p] \ {a}
        /\ \A p \in Pool, k \in Key :
              /\ IF after[p] = {} THEN is[p, k] = NoAddr ELSE is[p, k] \in after[p]
              /\ \/ is[p, k] = was[p, k]
                 \/ is[p, k] = a /\ a \in after[p] \ before[p]
                 \/ was[p, k] = a /\ a \in before[p] \ after[p]

Next == \E a \in Addr : Changes(a)

Spec == Init /\ [][Next]_<<candidates, home>>
=============================================================================
