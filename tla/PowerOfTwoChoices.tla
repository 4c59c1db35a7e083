------------------------- MODULE PowerOfTwoChoices --------------------------
(***************************************************************************)
(* scheduler/power_of_two.py: the policy keeps a table _load of its own,   *)
(* which completions lower, and is given the registry's counts with every  *)
(* request.  Only select, which the proxy never calls because its policy   *)
(* has a registry, would raise an entry of the table.                      *)
(***************************************************************************)
EXTENDS Naturals, FiniteSets

NoLoads == [a \in {} |-> 0]

\* add_worker: a worker that is there keeps its load.
AddLoad(own, a) ==
    [b \in DOMAIN own \cup {a} |-> IF b \in DOMAIN own THEN own[b] ELSE 0]

\* remove_worker
RemoveLoad(own, a) == [b \in DOMAIN own \ {a} |-> own[b]]

\* schedule_completion
LowerLoad(own, a) ==
    IF a \in DOMAIN own /\ own[a] > 0 THEN [own EXCEPT ![a] = @ - 1] ELSE own

\* Faulty: the policy's own table is compared, which nobody raises.
CurrentLoadOwn(loads, own) == own

\* The loads select_from compares: schedule hands it the registry's.
CurrentLoad(loads, own) == loads

\* select_from: any two of the candidates, and the less loaded one of them.
PairChoices(C, load) ==
    IF Cardinality(C) = 1 THEN C
    ELSE {a \in C : \E b \in C \ {a} : load[a] <= load[b]}
=============================================================================
