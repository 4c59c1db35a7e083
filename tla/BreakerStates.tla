--------------------------- MODULE BreakerStates ---------------------------
(***************************************************************************)
(* What the rest of the proxy can see of a circuit breaker: the value the  *)
(* `state` property would return if it were read now, the successes        *)
(* counted in HALF-OPEN and the pending-probe flag.  Time is abstracted:   *)
(* whether a failure trips a CLOSED breaker is a parameter of the          *)
(* operation, and the end of the OPEN timeout is an operation of its own.  *)
(* Module CircuitBreaker has the clock and the failure window, and is      *)
(* shown to implement these operations.                                    *)
(***************************************************************************)
EXTENDS Naturals

CONSTANT SuccessThreshold   \* successes in HALF-OPEN that close the circuit

\* The configuration does not check it: 0 works like 1.
ASSUME SuccessThresholdAssumption == SuccessThreshold \in Nat

BreakerState == {"closed", "open", "half-open"}

Breaker == [state : BreakerState, successes : Nat, pending : BOOLEAN]

\* A breaker as __init__ and as _close leave it.
ClosedBreaker == [state |-> "closed", successes |-> 0, pending |-> FALSE]

\* A breaker as _open leaves it.
OpenBreaker == [state |-> "open", successes |-> 0, pending |-> FALSE]

\* The OPEN timeout is over: `state` now reads HALF-OPEN.
AfterTimeout(b) == [state |-> "half-open", successes |-> 0, pending |-> b.pending]

\* record_failure; trips says whether the failure window is full.
AfterFailure(b, trips) ==
    IF b.state = "half-open" \/ (b.state = "closed" /\ trips)
      THEN OpenBreaker
      ELSE b

\* record_success.
AfterSuccess(b) ==
    IF b.state # "half-open" THEN b
    ELSE IF b.successes + 1 >= SuccessThreshold THEN ClosedBreaker
    ELSE [state |-> "half-open", successes |-> b.successes + 1, pending |-> FALSE]

\* The answer of allow_request, and the breaker it leaves behind.
Allows(b) == b.state = "closed" \/ (b.state = "half-open" /\ ~b.pending)

AfterAllow(b) == IF b.state = "half-open" THEN [b EXCEPT !.pending = TRUE] ELSE b
=============================================================================
