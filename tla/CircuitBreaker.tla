--------------------------- MODULE CircuitBreaker ---------------------------
(***************************************************************************)
(* circuit_breaker.py with its clock: one breaker, its sliding window of   *)
(* failure timestamps and the OPEN timeout.  Callers may invoke its        *)
(* methods in any order and at any time.  The ghost variable log remembers *)
(* every failure recorded since the circuit last became CLOSED, which the  *)
(* code forgets when it purges.                                            *)
(***************************************************************************)
EXTENDS BreakerStates, Sequences, FiniteSets

CONSTANTS FailureThreshold,  \* failures within Window that trip the breaker
          Timeout,           \* timeout_duration_seconds
          Window,            \* window_duration_seconds
          MaxTime            \* bound: the clock stops here

\* A failure threshold of 0 works like 1; without a timeout there is no OPEN.
ASSUME BreakerAssumption == /\ FailureThreshold \in Nat \ {0}
                            /\ Timeout \in Nat \ {0}
                            /\ Window \in Nat
                            /\ MaxTime \in Nat

VARIABLES now,        \* the monotonic clock
          state,      \* _state
          failures,   \* _failure_timestamps
          openedAt,   \* _opened_at
          successes,  \* _half_open_successes
          pending,    \* _half_open_pending
          log         \* ghost: failures recorded since the circuit closed

breakerVars == <<state, failures, openedAt, successes, pending>>
vars == <<now, breakerVars, log>>

TypeOK == /\ now \in 0 .. MaxTime
          /\ state \in BreakerState
          /\ failures \in Seq(0 .. MaxTime)
          /\ openedAt \in 0 .. MaxTime
          /\ successes \in Nat
          /\ pending \in BOOLEAN
          /\ log \in Seq(0 .. MaxTime)

Init == /\ now = 0
        /\ state = "closed"
        /\ failures = << >>
        /\ openedAt = 0
        /\ successes = 0
        /\ pending = FALSE
        /\ log = << >>
-----------------------------------------------------------------------------
\* What the `state` property returns now.
CurrentState ==
    IF state = "open" /\ now - openedAt >= Timeout THEN "half-open" ELSE state

\* The counter after the property has been read: it starts over at HALF-OPEN.
CurrentSuccesses ==
    IF state = "open" /\ CurrentState = "half-open" THEN 0 ELSE successes

\* Faulty: a failure exactly Window old no longer counts.
PurgedTooEarly(ts, t) == SelectSeq(ts, LAMBDA x : x + Window > t)

\* Faulty: old failures are never forgotten.
PurgedNever(ts, t) == ts

\* _purge_old_failures: timestamps leave from the left while they are too old.
Purged(ts, t) ==
    LET first == CHOOSE i \in 1 .. Len(ts) + 1 :
                    /\ i <= Len(ts) => ts[i] + Window >= t
                    /\ \A j \in 1 .. i - 1 : ts[j] + Window < t
    IN  SubSeq(ts, first, Len(ts))

\* Faulty: _opened_at holds the deadline.
OpenUntil == /\ state' = "open"
             /\ openedAt' = now + Timeout
             /\ failures' = << >>
             /\ successes' = 0
             /\ pending' = FALSE

\* _open
Open == /\ state' = "open"
        /\ openedAt' = now
        /\ failures' = << >>
        /\ successes' = 0
        /\ pending' = FALSE

\* _close
Close == /\ state' = "closed"
         /\ failures' = << >>
         /\ successes' = 0
         /\ pending' = FALSE
         /\ UNCHANGED openedAt

\* A method that only reads `state`, which may move OPEN to HALF-OPEN.
ReadState == /\ state' = CurrentState
             /\ successes' = CurrentSuccesses
             /\ UNCHANGED <<now, failures, openedAt, pending, log>>

\* allow_request
AllowRequest ==
    /\ state' = CurrentState
    /\ successes' = CurrentSuccesses
    /\ pending' = (pending \/ CurrentState = "half-open")
    /\ UNCHANGED <<now, failures, openedAt, log>>

AllowAnswer ==
    CurrentState = "closed" \/ (CurrentState = "half-open" /\ ~pending)

\* record_failure on a breaker that reads HALF-OPEN: the probe failed.
FailureReopens ==
    /\ CurrentState = "half-open"
    /\ Open
    /\ UNCHANGED <<now, log>>

\* record_failure on a CLOSED breaker.
FailureCounted ==
    /\ CurrentState = "closed"
    /\ log' = Append(log, now)
    /\ LET window == Purged(Append(failures, now), now)
       IN  \/ /\ Len(window) >= FailureThreshold
              /\ Open
           \/ /\ Len(window) < FailureThreshold
              /\ failures' = window
              /\ UNCHANGED <<state, openedAt, successes, pending>>
    /\ UNCHANGED now

\* record_failure; on an OPEN breaker it changes nothing.
RecordFailure == FailureReopens \/ FailureCounted

\* Faulty: a success does not end its probe.
SuccessKeepsPending ==
    /\ CurrentState = "half-open"
    /\ CurrentSuccesses + 1 < SuccessThreshold
    /\ state' = "half-open"
    /\ successes' = CurrentSuccesses + 1
    /\ UNCHANGED <<now, failures, openedAt, pending, log>>

\* record_success that is not the last one needed.
SuccessCounted ==
    /\ CurrentState = "half-open"
    /\ CurrentSuccesses + 1 < SuccessThreshold
    /\ state' = "half-open"
    /\ successes' = CurrentSuccesses + 1
    /\ pending' = FALSE
    /\ UNCHANGED <<now, failures, openedAt, log>>

\* Faulty: a late success closes an OPEN circuit, too.
LateSuccessCloses ==
    /\ CurrentState # "closed"
    /\ CurrentSuccesses + 1 >= SuccessThreshold \/ CurrentState = "open"
    /\ Close
    /\ log' = << >>
    /\ UNCHANGED now

\* record_success that closes the circuit.
SuccessCloses ==
    /\ CurrentState = "half-open"
    /\ CurrentSuccesses + 1 >= SuccessThreshold
    /\ Close
    /\ log' = << >>
    /\ UNCHANGED now

\* record_success; on a CLOSED or OPEN breaker it changes nothing.
RecordSuccess == SuccessCounted \/ SuccessCloses

\* Time passes.
Tick == /\ now < MaxTime
        /\ now' = now + 1
        /\ UNCHANGED <<breakerVars, log>>

Next == ReadState \/ AllowRequest \/ RecordFailure \/ RecordSuccess \/ Tick

Spec == Init /\ [][Next]_vars
-----------------------------------------------------------------------------
\* The failures of log that a window ending now still covers.
InWindow(t) == {i \in 1 .. Len(log) : log[i] + Window >= t}

\* The sliding window loses nothing that still counts and keeps nothing that
\* does not: a circuit that reads CLOSED has seen fewer than FailureThreshold
\* failures within Window seconds, whatever record_failure purged or forgot.
\* The failures need not be consecutive, as docs/resilience.md:154, 163 and
\* 179 say they have to be: record_success on a CLOSED circuit forgets none
\* (circuit_breaker.py:139-142), so those on both sides of it count.
ClosedMeansBelowThreshold ==
    state = "closed" => Cardinality(InWindow(now)) < FailureThreshold

\* A CLOSED circuit opens only on a burst: at the moment it opens, at least
\* FailureThreshold of the recorded failures are at most Window seconds old,
\* with or without successes between them (see ClosedMeansBelowThreshold).
OpensOnlyOnBurst ==
    [][state = "closed" /\ state' = "open"
         => Cardinality(InWindow(now)') >= FailureThreshold]_vars

\* Once OPEN, a circuit denies requests for the whole timeout: no sequence of
\* calls, late results of earlier requests included, ends the wait early.
OpenHolds ==
    CurrentState = "open" /\ CurrentState' # "open" => now' >= openedAt + Timeout

OpenLastsTimeout == [][OpenHolds]_vars

\* What callers see of the breaker, as module BreakerStates describes it.
View == [state |-> CurrentState, successes |-> CurrentSuccesses, pending |-> pending]

Abstract == INSTANCE AbstractBreaker WITH breaker <- View

\* The timed breaker implements the untimed one the composed model uses.
RefinesAbstractBreaker == Abstract!Spec

\* No circuit was opened in the future, and successes are counted only in
\* HALF-OPEN.
CountersInOrder ==
    /\ now \in Nat /\ openedAt \in Nat /\ openedAt <= now
    /\ state \in BreakerState
    /\ successes \in Nat
    /\ state # "half-open" => successes = 0

\* A probe is pending only in HALF-OPEN.
PendingInOrder ==
    /\ pending \in BOOLEAN
    /\ state # "half-open" => pending = FALSE

\* The inductive invariant behind the refinement.
HalfOpenCounters == CountersInOrder /\ PendingInOrder
=============================================================================
