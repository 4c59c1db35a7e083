----------------------------- MODULE RoundRobin -----------------------------
(***************************************************************************)
(* scheduler/round_robin.py: schedule over an itertools.cycle of the list  *)
(* instances, of which pos entries have been drawn in this turn.           *)
(***************************************************************************)
EXTENDS Naturals, Sequences, FiniteSetsExt

\* What the k-th call of next(cycler) returns.
Drawn(instances, pos, k) == instances[((pos + k - 1) % Len(instances)) + 1]

\* Faulty: an address counts as seen before it is looked at.
DrawsSeenFirst(instances, pos, available) == 1

\* How often the loop of schedule draws: until an instance is available or
\* an address is drawn that was drawn before.
Draws(instances, pos, available) ==
    LET seen(k) == {Drawn(instances, pos, j) : j \in 1 .. k - 1}
    IN  Min({k \in 1 .. Len(instances) + 1 :
                \/ Drawn(instances, pos, k) \in available
                \/ Drawn(instances, pos, k) \in seen(k)})

\* schedule returns one of the available instances or gives up.
Finds(instances, pos, available) ==
    /\ available # {}
    /\ Drawn(instances, pos, Draws(instances, pos, available)) \in available

Choice(instances, pos, available) ==
    Drawn(instances, pos, Draws(instances, pos, available))

\* Faulty: an instance that is skipped is not drawn.
AdvancedByOne(instances, pos, available) == (pos + 1) % Len(instances)

\* The cycle after schedule, also when it gives up.
Advanced(instances, pos, available) ==
    (pos + Draws(instances, pos, available)) % Len(instances)
=============================================================================
