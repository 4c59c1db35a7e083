-------------------------- MODULE AbstractBreaker --------------------------
(***************************************************************************)
(* The promise of one circuit breaker to its callers, without a clock: the *)
(* transitions drawn in the header of circuit_breaker.py.                  *)
(***************************************************************************)
EXTENDS BreakerStates

VARIABLE breaker

Init == breaker = ClosedBreaker

\* The OPEN timeout ends.
TimeoutElapses == breaker.state = "open" /\ breaker' = AfterTimeout(breaker)

\* allow_request is called; a refusal changes nothing.
AllowRequest == Allows(breaker) /\ breaker' = AfterAllow(breaker)

\* A failed request is recorded.
RecordFailure == \E trips \in BOOLEAN : breaker' = AfterFailure(breaker, trips)

\* A successful request is recorded.
RecordSuccess == breaker' = AfterSuccess(breaker)

Next == TimeoutElapses \/ AllowRequest \/ RecordFailure \/ RecordSuccess

Spec == Init /\ [][Next]_breaker
=============================================================================
