----------------------- MODULE CircuitBreaker_proofs -----------------------
(***************************************************************************)
(* The breaker with its clock and its failure window implements the        *)
(* untimed breaker that the composed model of the proxy uses, for every    *)
(* choice of thresholds, timeout and window.  Its failure window is exact: *)
(* the circuit is CLOSED only below the threshold and opens only on a      *)
(* burst.                                                                  *)
(***************************************************************************)
EXTENDS CircuitBreaker, SequenceTheorems, FiniteSetTheorems,
        WellFoundedInduction, TLAPS

\* A fresh breaker has idle counters.
LEMMA InitCounters == Init => HalfOpenCounters
  <1>1. Init => CountersInOrder
    BY DEF Init, CountersInOrder, BreakerState
  <1>2. Init => PendingInOrder
    BY DEF Init, PendingInOrder
  <1> QED
    BY <1>1, <1>2 DEF HalfOpenCounters

\* Reading `state` shows a state, and it shows HALF-OPEN if the field says so.
LEMMA CurrentStateFacts ==
    ASSUME CountersInOrder
    PROVE  /\ CurrentState \in BreakerState
           /\ CurrentSuccesses \in Nat
           /\ state = "half-open" => CurrentState = "half-open"
           /\ CurrentState # "half-open" => CurrentState = state
           /\ CurrentSuccesses = successes
  BY DEF CountersInOrder, CurrentState, CurrentSuccesses, BreakerState

\* Every method call, and the passing of time, keeps the counters in order.
LEMMA NextCounters == HalfOpenCounters /\ [Next]_vars => HalfOpenCounters'
  <1> SUFFICES ASSUME CountersInOrder, PendingInOrder, [Next]_vars
               PROVE  CountersInOrder' /\ PendingInOrder'
    BY DEF HalfOpenCounters
  <1>1. CASE ReadState \/ AllowRequest
    <2>1. CountersInOrder'
      BY <1>1, CurrentStateFacts DEF ReadState, AllowRequest, CountersInOrder
    <2>2. PendingInOrder'
      BY <1>1, CurrentStateFacts, Zenon DEF ReadState, AllowRequest, PendingInOrder
    <2> QED
      BY <2>1, <2>2
  <1>2. CASE FailureReopens \/ (FailureCounted /\ Open)
    <2>1. CountersInOrder'
      BY <1>2 DEF FailureReopens, FailureCounted, Open, CountersInOrder, BreakerState
    <2>2. PendingInOrder'
      BY <1>2 DEF FailureReopens, FailureCounted, Open, PendingInOrder
    <2> QED
      BY <2>1, <2>2
  <1>3. CASE FailureCounted /\ UNCHANGED <<state, openedAt, successes, pending>>
    <2>1. CountersInOrder'
      BY <1>3 DEF FailureCounted, CountersInOrder
    <2>2. PendingInOrder'
      BY <1>3 DEF FailureCounted, PendingInOrder
    <2> QED
      BY <2>1, <2>2
  <1>4. CASE SuccessCounted
    <2>1. CountersInOrder'
      BY <1>4, CurrentStateFacts DEF SuccessCounted, CountersInOrder, BreakerState
    <2>2. PendingInOrder'
      BY <1>4 DEF SuccessCounted, PendingInOrder
    <2> QED
      BY <2>1, <2>2
  <1>5. CASE SuccessCloses
    <2>1. CountersInOrder'
      BY <1>5 DEF SuccessCloses, Close, CountersInOrder, BreakerState
    <2>2. PendingInOrder'
      BY <1>5 DEF SuccessCloses, Close, PendingInOrder
    <2> QED
      BY <2>1, <2>2
  <1>6. CASE Tick \/ UNCHANGED vars
    <2>1. CountersInOrder'
      BY <1>6 DEF Tick, vars, breakerVars, CountersInOrder
    <2>2. PendingInOrder'
      BY <1>6 DEF Tick, vars, breakerVars, PendingInOrder
    <2> QED
      BY <2>1, <2>2
  <1> QED
    BY <1>1, <1>2, <1>3, <1>4, <1>5, <1>6
       DEF Next, RecordFailure, FailureCounted, RecordSuccess

\* The counters are in order in every reachable state.
THEOREM CountersInvariant == Spec => []HalfOpenCounters
  BY InitCounters, NextCounters, PTL DEF Spec

\* A breaker opened now reads OPEN now.
LEMMA OpenView ==
    ASSUME HalfOpenCounters, Open, now' = now
    PROVE  View' = OpenBreaker
  <1>1. CurrentState' = "open" /\ CurrentSuccesses' = 0
    BY BreakerAssumption
       DEF HalfOpenCounters, CountersInOrder, Open, CurrentState, CurrentSuccesses
  <1>2. pending' = FALSE
    BY DEF Open
  <1> QED
    BY <1>1, <1>2 DEF View, OpenBreaker

\* Every step of the timed breaker is a step of the untimed one, or invisible.
LEMMA StepRefines == HalfOpenCounters /\ [Next]_vars => [Abstract!Next]_View
  <1> SUFFICES ASSUME HalfOpenCounters, [Next]_vars
               PROVE  Abstract!Next \/ View' = View
    OBVIOUS
  <1> USE BreakerAssumption, SuccessThresholdAssumption
      DEF HalfOpenCounters, CountersInOrder, BreakerState
  <1>1. CASE ReadState
    BY <1>1 DEF ReadState, View, CurrentState, CurrentSuccesses
  <1>2. CASE AllowRequest
    <2>1. CASE CurrentState = "half-open" /\ ~pending
      <3>1. Allows(View)
        BY <2>1 DEF Allows, View
      <3>2. CurrentState' = "half-open" /\ CurrentSuccesses' = CurrentSuccesses /\ pending' = TRUE
        BY <1>2, <2>1 DEF AllowRequest, CurrentState, CurrentSuccesses
      <3>3. View' = AfterAllow(View)
        BY <2>1, <3>2 DEF View, AfterAllow
      <3> QED
        BY <3>1, <3>3 DEF Abstract!Next, Abstract!AllowRequest, Abstract!Allows,
           Abstract!AfterAllow, Allows, AfterAllow
    <2>2. CASE ~(CurrentState = "half-open" /\ ~pending)
      <3>1. CurrentState' = CurrentState /\ CurrentSuccesses' = CurrentSuccesses
        BY <1>2 DEF AllowRequest, CurrentState, CurrentSuccesses
      <3>2. pending' = pending
        BY <1>2, <2>2, Zenon DEF AllowRequest, PendingInOrder
      <3> QED
        BY <3>1, <3>2 DEF View
    <2> QED
      BY <2>1, <2>2
  <1>3. CASE RecordFailure
    <2>1. CASE FailureReopens
      <3>1. View' = AfterFailure(View, FALSE)
        BY <2>1, OpenView DEF FailureReopens, AfterFailure, View
      <3> QED
        BY <3>1 DEF Abstract!Next, Abstract!RecordFailure, Abstract!AfterFailure,
           Abstract!OpenBreaker, AfterFailure, OpenBreaker
    <2>2. CASE FailureCounted /\ Open
      <3>1. View' = AfterFailure(View, TRUE)
        BY <2>2, OpenView DEF FailureCounted, AfterFailure, View
      <3> QED
        BY <3>1 DEF Abstract!Next, Abstract!RecordFailure, Abstract!AfterFailure,
           Abstract!OpenBreaker, AfterFailure, OpenBreaker
    <2>3. CASE FailureCounted /\ UNCHANGED <<state, openedAt, successes, pending>>
      BY <2>3 DEF FailureCounted, View, CurrentState, CurrentSuccesses
    <2> QED
      BY <1>3, <2>1, <2>2, <2>3 DEF RecordFailure, FailureCounted
  <1>4. CASE RecordSuccess
    <2>1. View' = AfterSuccess(View)
      <3>1. CASE SuccessCounted
        <4>1. /\ CurrentState' = "half-open"
              /\ CurrentSuccesses' = CurrentSuccesses + 1
          BY <3>1 DEF SuccessCounted, CurrentState, CurrentSuccesses
        <4>2. pending' = FALSE
          BY <3>1 DEF SuccessCounted
        <4>3. View' = [state |-> "half-open", successes |-> CurrentSuccesses + 1,
                       pending |-> FALSE]
          BY <4>1, <4>2 DEF View
        <4>4. View.state = "half-open" /\ View.successes = CurrentSuccesses
          BY <3>1 DEF SuccessCounted, View
        <4>5. ~(View.successes + 1 >= SuccessThreshold)
          BY <3>1, <4>4, CurrentStateFacts DEF SuccessCounted
        <4> QED
          BY <4>3, <4>4, <4>5 DEF AfterSuccess
      <3>2. CASE SuccessCloses
        BY <3>2 DEF SuccessCloses, Close, View, CurrentState, CurrentSuccesses,
           AfterSuccess, ClosedBreaker
      <3> QED
        BY <1>4, <3>1, <3>2 DEF RecordSuccess
    <2> QED
      BY <2>1 DEF Abstract!Next, Abstract!RecordSuccess, Abstract!AfterSuccess,
         Abstract!ClosedBreaker, AfterSuccess, ClosedBreaker
  <1>5. CASE Tick
    <2>1. CASE CurrentState = "open" /\ CurrentState' = "half-open"
      <3>1. View.state = "open" /\ View' = AfterTimeout(View)
        <4>1. CurrentSuccesses' = 0 /\ pending' = pending
          BY <1>5, <2>1 DEF Tick, breakerVars, CurrentState, CurrentSuccesses
        <4>2. View' = [state |-> "half-open", successes |-> 0, pending |-> pending]
          BY <2>1, <4>1 DEF View
        <4>3. View.state = "open" /\ View.pending = pending
          BY <2>1 DEF View
        <4> QED
          BY <4>2, <4>3 DEF AfterTimeout
      <3> QED
        BY <3>1 DEF Abstract!Next, Abstract!TimeoutElapses, Abstract!AfterTimeout, AfterTimeout
    <2>2. CASE ~(CurrentState = "open" /\ CurrentState' = "half-open")
      BY <1>5, <2>2 DEF Tick, breakerVars, View, CurrentState, CurrentSuccesses
    <2> QED
      BY <2>1, <2>2
  <1>6. CASE UNCHANGED vars
    BY <1>6 DEF vars, breakerVars, View, CurrentState, CurrentSuccesses
  <1> QED
    BY <1>1, <1>2, <1>3, <1>4, <1>5, <1>6 DEF Next

\* The timed breaker implements the abstract one: what the proxy's model says
\* of a breaker holds of the code's, with its clock and its sliding window.
THEOREM Refinement == Spec => RefinesAbstractBreaker
  <1>1. Init => Abstract!Init
    BY DEF Init, Abstract!Init, Abstract!ClosedBreaker, ClosedBreaker, View,
       CurrentState, CurrentSuccesses
  <1> QED
    BY <1>1, StepRefines, CountersInvariant, PTL
       DEF Spec, RefinesAbstractBreaker, Abstract!Spec

\* No call sequence lets a request through before the OPEN timeout is over.
THEOREM OpenForTheTimeout == Spec => OpenLastsTimeout
  <1>1. HalfOpenCounters /\ [Next]_vars => [OpenHolds]_vars
    <2> SUFFICES ASSUME HalfOpenCounters, Next, CurrentState = "open",
                        CurrentState' # "open"
                 PROVE  now' >= openedAt + Timeout
      BY DEF OpenHolds
    <2> USE BreakerAssumption DEF HalfOpenCounters, CountersInOrder
    <2>1. CASE ReadState \/ AllowRequest
      BY <2>1 DEF ReadState, AllowRequest, CurrentState
    <2>2. CASE RecordFailure \/ RecordSuccess
      BY <2>2 DEF RecordFailure, FailureReopens, FailureCounted, RecordSuccess,
         SuccessCounted, SuccessCloses
    <2>3. CASE Tick
      BY <2>3 DEF Tick, breakerVars, CurrentState
    <2> QED
      BY <2>1, <2>2, <2>3 DEF Next
  <1> QED
    BY <1>1, CountersInvariant, PTL DEF Spec, OpenLastsTimeout
-----------------------------------------------------------------------------
(* The failure window *)

Time == 0 .. MaxTime

\* Failures were recorded in the order of time.
LogInOrder ==
    /\ \A i, j \in 1 .. Len(log) : i <= j => log[i] <= log[j]
    /\ \A i \in 1 .. Len(log) : log[i] <= now

\* The failures of log that _failure_timestamps no longer has.
Forgotten == Len(log) - Len(failures)

\* While the circuit is CLOSED the window is the end of the log; what is
\* missing from it is too old to count.
WindowIsEndOfLog ==
    state = "closed" =>
        /\ Forgotten \in Nat
        /\ Len(failures) < FailureThreshold
        /\ \A i \in 1 .. Len(failures) : failures[i] = log[Forgotten + i]
        /\ \A i \in 1 .. Forgotten : log[i] + Window < now

WindowInv == TypeOK /\ LogInOrder /\ WindowIsEndOfLog

\* Every non-empty set of natural numbers has a least element.
LEMMA LeastElement ==
    ASSUME NEW T, T \subseteq Nat, T # {}
    PROVE  \E x \in T : \A y \in T : x <= y
  <1> DEFINE R == OpToRel(<, Nat)
  <1>1. IsWellFoundedOn(R, Nat)
    BY NatLessThanWellFounded
  <1>2. \A x, y \in Nat : x < y => <<x, y>> \in R
    BY DEF OpToRel
  <1> HIDE DEF R
  <1>3. PICK x \in T : \A y \in T : ~(<<y, x>> \in R)
    BY <1>1, WFMin
  <1>4. ASSUME NEW y \in T PROVE x <= y
    <2>1. x \in Nat /\ y \in Nat
      OBVIOUS
    <2>2. ~(y < x)
      BY <1>2, <1>3, <2>1
    <2> QED
      BY <2>1, <2>2
  <1> QED
    BY <1>4

\* _purge_old_failures cuts the window before its first timestamp that still
\* counts.
LEMMA PurgedCuts ==
    ASSUME NEW ts \in Seq(Time), NEW t \in Time
    PROVE  \E first \in 1 .. Len(ts) + 1 :
              /\ Purged(ts, t) = SubSeq(ts, first, Len(ts))
              /\ first <= Len(ts) => ts[first] + Window >= t
              /\ \A j \in 1 .. first - 1 : ts[j] + Window < t
  <1> DEFINE Cut(i) == /\ i <= Len(ts) => ts[i] + Window >= t
                       /\ \A j \in 1 .. i - 1 : ts[j] + Window < t
             Fresh == {i \in 1 .. Len(ts) + 1 : i <= Len(ts) => ts[i] + Window >= t}
  <1>1. Len(ts) \in Nat /\ \A i \in 1 .. Len(ts) : ts[i] \in Nat
    BY LenProperties, BreakerAssumption DEF Time
  <1>2. Len(ts) + 1 \in Fresh
    BY <1>1
  <1>3. Fresh \subseteq Nat /\ Fresh # {}
    BY <1>1, <1>2
  <1>4. PICK x \in Fresh : \A y \in Fresh : x <= y
    BY <1>3, LeastElement
  <1>5. Cut(x)
    <2>1. x \in 1 .. Len(ts) + 1 /\ (x <= Len(ts) => ts[x] + Window >= t)
      BY <1>4
    <2>2. ASSUME NEW j \in 1 .. x - 1 PROVE ts[j] + Window < t
      <3>1. j \in 1 .. Len(ts) /\ j \notin Fresh
        BY <1>1, <1>4, <2>1
      <3> QED
        BY <1>1, <3>1, BreakerAssumption DEF Time
    <2> QED
      BY <2>1, <2>2
  <1>6. \E i \in 1 .. Len(ts) + 1 : Cut(i)
    BY <1>4, <1>5
  <1> DEFINE first == CHOOSE i \in 1 .. Len(ts) + 1 : Cut(i)
  <1>7. first \in 1 .. Len(ts) + 1 /\ Cut(first)
    BY <1>6
  <1>8. Purged(ts, t) = SubSeq(ts, first, Len(ts))
    BY DEF Purged
  <1> QED
    BY <1>7, <1>8

\* What record_failure makes of the log and the window of a CLOSED circuit:
\* the purged window is again the end of the log, what was purged is too old,
\* and what was kept still counts.
LEMMA FailureMovesWindow ==
    ASSUME WindowInv, state = "closed"
    PROVE  LET L == Append(log, now)
               W == Purged(Append(failures, now), now)
           IN  /\ W \in Seq(Time) /\ L \in Seq(Time)
               /\ Len(L) - Len(W) \in Nat
               /\ \A i \in 1 .. Len(W) : W[i] = L[Len(L) - Len(W) + i]
               /\ \A i \in 1 .. Len(L) - Len(W) : L[i] + Window < now
               /\ \A i \in 1 .. Len(W) : W[i] + Window >= now
               /\ \A i, j \in 1 .. Len(L) : i <= j => L[i] <= L[j]
               /\ \A i \in 1 .. Len(L) : L[i] <= now
  <1> DEFINE L == Append(log, now)
             ts == Append(failures, now)
             W == Purged(ts, now)
             k == Forgotten
             n == Len(ts)
  <1>1. /\ now \in Time /\ log \in Seq(Time) /\ failures \in Seq(Time)
        /\ Len(log) \in Nat /\ Len(failures) \in Nat /\ now \in Nat
        /\ Window \in Nat
    BY LenProperties, BreakerAssumption DEF WindowInv, TypeOK, Time
  <1>2. /\ \A i \in 1 .. Len(log) : log[i] \in Nat /\ log[i] <= now
        /\ \A i, j \in 1 .. Len(log) : i <= j => log[i] <= log[j]
    <2>1. \A i \in 1 .. Len(log) : log[i] \in Time
      BY <1>1, ElementOfSeq
    <2>2. LogInOrder /\ \A x \in Time : x \in Nat
      BY BreakerAssumption DEF WindowInv, Time
    <2> QED
      BY <2>1, <2>2 DEF LogInOrder
  <1>3. /\ L \in Seq(Time) /\ Len(L) = Len(log) + 1
        /\ \A i \in 1 .. Len(log) : L[i] = log[i]
        /\ L[Len(log) + 1] = now
    BY <1>1, AppendProperties
  <1>4. /\ ts \in Seq(Time) /\ n = Len(failures) + 1
        /\ \A i \in 1 .. Len(failures) : ts[i] = failures[i]
        /\ ts[Len(failures) + 1] = now
    BY <1>1, AppendProperties
  <1>5. /\ k \in Nat /\ Len(log) = k + Len(failures)
        /\ \A i \in 1 .. Len(failures) : failures[i] = log[k + i]
        /\ \A i \in 1 .. k : log[i] + Window < now
    BY <1>1 DEF WindowInv, WindowIsEndOfLog, Forgotten
  <1> HIDE DEF L, ts, k, n
  <1>6. n \in Nat /\ n > 0 /\ Len(L) = k + n /\ Len(log) = k + n - 1
    BY <1>1, <1>3, <1>4, <1>5
  <1>7. \A i \in 1 .. k + n : L[i] \in Nat /\ L[i] <= now
    <2> SUFFICES ASSUME NEW i \in 1 .. k + n PROVE L[i] \in Nat /\ L[i] <= now
      OBVIOUS
    <2>1. CASE i = k + n
      <3>1. i = Len(log) + 1
        BY <1>5, <1>6, <2>1
      <3> QED
        BY <1>1, <1>3, <3>1
    <2>2. CASE i # k + n
      <3>1. i \in 1 .. Len(log)
        BY <1>5, <1>6, <2>2
      <3> QED
        BY <1>2, <1>3, <3>1
    <2> QED
      BY <2>1, <2>2
  <1>8. \A i, j \in 1 .. k + n : i <= j => L[i] <= L[j]
    <2> SUFFICES ASSUME NEW i \in 1 .. k + n, NEW j \in 1 .. k + n, i <= j
                 PROVE  L[i] <= L[j]
      OBVIOUS
    <2>1. CASE j = k + n
      BY <1>3, <1>5, <1>6, <1>7, <2>1
    <2>2. CASE j # k + n
      <3>1. i \in 1 .. Len(log) /\ j \in 1 .. Len(log)
        BY <1>5, <1>6, <2>2
      <3> QED
        BY <1>2, <1>3, <3>1
    <2> QED
      BY <2>1, <2>2
  <1>9. ASSUME NEW i \in 1 .. n PROVE ts[i] = L[k + i]
    <2>1. CASE i = n
      BY <1>3, <1>4, <1>5, <1>6, <2>1
    <2>2. CASE i # n
      <3>1. i \in 1 .. Len(failures) /\ k + i \in 1 .. Len(log)
        BY <1>1, <1>4, <1>5, <1>6, <2>2
      <3> QED
        BY <1>3, <1>4, <1>5, <3>1
    <2> QED
      BY <2>1, <2>2
  <1>10. \A i \in 1 .. k : L[i] + Window < now
    <2>1. \A i \in 1 .. k : i \in 1 .. Len(log)
      BY <1>1, <1>5
    <2> QED
      BY <1>3, <1>5, <2>1
  <1>11. PICK first \in 1 .. n + 1 :
            /\ W = SubSeq(ts, first, n)
            /\ first <= n => ts[first] + Window >= now
            /\ \A j \in 1 .. first - 1 : ts[j] + Window < now
    BY <1>1, <1>4, PurgedCuts DEF n
  <1>12. first \in 1 .. n
    <2>1. ts[n] = now /\ n \in 1 .. n
      BY <1>4, <1>6
    <2> QED
      BY <1>1, <1>6, <1>11, <2>1
  <1>13. /\ W \in Seq(Time)
         /\ Len(W) = n - first + 1
         /\ \A i \in 1 .. n - first + 1 : W[i] = ts[first + i - 1]
    <2>1. \A i \in first .. n : ts[i] \in Time
      <3>1. \A i \in first .. n : i \in 1 .. n
        BY <1>6, <1>12
      <3> QED
        BY <1>4, <3>1, ElementOfSeq DEF n
    <2>2. first \in Int /\ n \in Int /\ first <= n
      BY <1>6, <1>12
    <2> QED
      BY <1>11, <2>1, <2>2, SubSeqProperties
  <1> HIDE DEF W
  <1>types. k \in Nat /\ n \in Nat /\ now \in Nat /\ first \in 1 .. n /\ Window \in Nat
    BY <1>1, <1>5, <1>6, <1>12
  <1>14. ASSUME NEW i \in 1 .. n - first + 1
         PROVE  W[i] = L[k + first - 1 + i] /\ W[i] + Window >= now
    <2> DEFINE m == first + i - 1
    <2>1. m \in 1 .. n /\ k + m = k + first - 1 + i /\ first <= m
      BY <1>types
    <2>2. W[i] = ts[m]
      BY <1>13
    <2> HIDE DEF m
    <2>3. W[i] = L[k + m]
      BY <1>9, <2>1, <2>2
    <2>4. k + first \in 1 .. k + n /\ k + m \in 1 .. k + n /\ k + first <= k + m
      BY <1>types, <2>1
    <2>5. L[k + first] <= L[k + m] /\ L[k + first] \in Nat /\ L[k + m] \in Nat
      BY <1>7, <1>8, <2>4
    <2>6. ts[first] = L[k + first] /\ ts[first] + Window >= now
      BY <1>9, <1>11, <1>12, <1>types
    <2> QED
      BY <1>types, <2>1, <2>3, <2>5, <2>6
  <1>old. ASSUME NEW i \in 1 .. k + first - 1 PROVE L[i] + Window < now
    <2>1. CASE i <= k
      BY <1>10, <1>types, <2>1
    <2>2. CASE i > k
      <3> DEFINE j == i - k
      <3>1. j \in 1 .. first - 1 /\ j \in 1 .. n /\ k + j = i
        BY <1>types, <2>2
      <3> HIDE DEF j
      <3>2. ts[j] + Window < now /\ ts[j] = L[k + j]
        BY <1>9, <1>11, <3>1
      <3> QED
        BY <3>1, <3>2
    <2> QED
      BY <1>types, <2>1, <2>2
  <1>15. Len(L) - Len(W) = k + first - 1 /\ k + first - 1 \in Nat
    BY <1>5, <1>6, <1>12, <1>13
  <1>16. /\ W \in Seq(Time) /\ L \in Seq(Time)
         /\ Len(L) - Len(W) \in Nat
         /\ \A i \in 1 .. Len(W) : W[i] = L[Len(L) - Len(W) + i]
         /\ \A i \in 1 .. Len(L) - Len(W) : L[i] + Window < now
         /\ \A i \in 1 .. Len(W) : W[i] + Window >= now
         /\ \A i, j \in 1 .. Len(L) : i <= j => L[i] <= L[j]
         /\ \A i \in 1 .. Len(L) : L[i] <= now
    BY <1>3, <1>6, <1>7, <1>8, <1>13, <1>14, <1>old, <1>15
  <1> QED
    BY <1>16 DEF L, W, ts

\* A fresh breaker has seen no failure.
LEMMA InitWindow == Init => WindowInv
  <1> SUFFICES ASSUME Init PROVE WindowInv
    OBVIOUS
  <1>1. Len(log) = 0 /\ Len(failures) = 0 /\ << >> \in Seq(0 .. MaxTime)
    BY EmptySeq DEF Init
  <1>2. TypeOK
    <2>1. pending \in BOOLEAN /\ state \in BreakerState
      BY DEF Init, BreakerState
    <2>2. /\ now \in 0 .. MaxTime /\ openedAt \in 0 .. MaxTime /\ successes \in Nat
          /\ failures \in Seq(0 .. MaxTime) /\ log \in Seq(0 .. MaxTime)
      BY <1>1, BreakerAssumption DEF Init
    <2> QED
      BY <2>1, <2>2 DEF TypeOK
  <1>3. LogInOrder /\ WindowIsEndOfLog
    BY <1>1, BreakerAssumption DEF LogInOrder, WindowIsEndOfLog, Forgotten
  <1> QED
    BY <1>2, <1>3 DEF WindowInv

\* Every method call, and the passing of time, keeps the window exact.
LEMMA NextWindow ==
    HalfOpenCounters /\ WindowInv /\ [Next]_vars => WindowInv'
  <1> SUFFICES ASSUME HalfOpenCounters, WindowInv, [Next]_vars PROVE WindowInv'
    OBVIOUS
  <1>types. /\ TypeOK /\ LogInOrder /\ WindowIsEndOfLog /\ CountersInOrder
            /\ CurrentState \in BreakerState
            /\ CurrentSuccesses \in Nat
            /\ CurrentState = "closed" <=> state = "closed"
            /\ << >> \in Seq(0 .. MaxTime) /\ Len(<< >>) = 0
    <2>1. CountersInOrder
      BY DEF HalfOpenCounters
    <2> QED
      BY <2>1, CurrentStateFacts, EmptySeq DEF WindowInv, CurrentState
  <1>nat. /\ now \in Nat /\ Window \in Nat
          /\ Len(log) \in Nat /\ Len(failures) \in Nat
          /\ \A i \in 1 .. Len(log) : log[i] \in Nat
    <2>1. \A i \in 1 .. Len(log) : log[i] \in 0 .. MaxTime
      BY <1>types, ElementOfSeq DEF TypeOK
    <2> QED
      BY <1>types, <2>1, LenProperties, BreakerAssumption DEF TypeOK
  \* A step of another kind than a failure in CLOSED: the log stays or starts
  \* over, and the circuit is not closed unless it was, or starts over.
  <1>1. ASSUME UNCHANGED <<now, failures, log>>, state' = "closed" => state = "closed"
        PROVE  LogInOrder' /\ WindowIsEndOfLog'
    BY <1>1, <1>types DEF LogInOrder, WindowIsEndOfLog, Forgotten
  <1>2. CASE ReadState
    <2>1. TypeOK'
      BY <1>2, <1>types DEF ReadState, TypeOK
    <2> QED
      BY <1>1, <1>2, <1>types, <2>1 DEF ReadState, WindowInv
  <1>3. CASE AllowRequest
    <2>1. pending' \in BOOLEAN
      BY <1>3, Zenon DEF AllowRequest
    <2>2. TypeOK'
      BY <1>3, <1>types, <2>1 DEF AllowRequest, TypeOK
    <2> QED
      BY <1>1, <1>3, <1>types, <2>2 DEF AllowRequest, WindowInv
  <1>4. ASSUME Open, log' \in Seq(0 .. MaxTime), LogInOrder', now' = now
        PROVE  WindowInv'
    <2>1. TypeOK'
      BY <1>4, <1>types DEF Open, TypeOK, BreakerState
    <2>2. WindowIsEndOfLog'
      BY <1>4 DEF Open, WindowIsEndOfLog
    <2> QED
      BY <1>4, <2>1, <2>2 DEF WindowInv
  <1>5. CASE FailureReopens
    <2>1. log' = log /\ now' = now /\ Open
      BY <1>5 DEF FailureReopens
    <2>2. LogInOrder'
      BY <1>types, <2>1 DEF LogInOrder
    <2> QED
      BY <1>4, <1>types, <2>1, <2>2 DEF TypeOK
  <1>6. CASE FailureCounted
    <2> DEFINE L == Append(log, now)
               W == Purged(Append(failures, now), now)
    <2>1. state = "closed" /\ log' = L /\ now' = now
      BY <1>6, <1>types DEF FailureCounted
    <2>2. /\ W \in Seq(Time) /\ L \in Seq(Time)
          /\ Len(L) - Len(W) \in Nat
          /\ \A i \in 1 .. Len(W) : W[i] = L[Len(L) - Len(W) + i]
          /\ \A i \in 1 .. Len(L) - Len(W) : L[i] + Window < now
          /\ \A i, j \in 1 .. Len(L) : i <= j => L[i] <= L[j]
          /\ \A i \in 1 .. Len(L) : L[i] <= now
      BY <2>1, FailureMovesWindow
    <2>3. \/ Open
          \/ /\ Len(W) < FailureThreshold /\ failures' = W
             /\ UNCHANGED <<state, openedAt, successes, pending>>
      BY <1>6 DEF FailureCounted
    <2> HIDE DEF L, W
    <2>4. LogInOrder'
      BY <2>1, <2>2 DEF LogInOrder
    <2>5. CASE Open
      BY <1>4, <2>1, <2>2, <2>4, <2>5 DEF Time
    <2>6. CASE ~Open
      <3>1. TypeOK'
        BY <1>types, <2>1, <2>2, <2>3, <2>6 DEF TypeOK, Time
      <3>2. WindowIsEndOfLog'
        BY <2>1, <2>2, <2>3, <2>6 DEF WindowIsEndOfLog, Forgotten
      <3> QED
        BY <2>4, <3>1, <3>2 DEF WindowInv
    <2> QED
      BY <2>5, <2>6
  <1>7. CASE SuccessCounted
    <2>1. pending' \in BOOLEAN /\ UNCHANGED <<now, failures, openedAt, log>>
      BY <1>7 DEF SuccessCounted
    <2>2. successes' \in Nat /\ state' \in BreakerState
      BY <1>7, <1>types DEF SuccessCounted, BreakerState
    <2>3. TypeOK'
      BY <1>types, <2>1, <2>2 DEF TypeOK
    <2> QED
      BY <1>1, <1>7, <2>3 DEF SuccessCounted, WindowInv
  <1>8. CASE SuccessCloses
    <2>1. log' = << >> /\ failures' = << >> /\ now' = now
      BY <1>8 DEF SuccessCloses, Close
    <2>2. TypeOK'
      BY <1>8, <1>types, <2>1 DEF SuccessCloses, Close, TypeOK, BreakerState
    <2>3. LogInOrder' /\ WindowIsEndOfLog'
      BY <1>types, <2>1, BreakerAssumption
         DEF LogInOrder, WindowIsEndOfLog, Forgotten
    <2> QED
      BY <2>2, <2>3 DEF WindowInv
  <1>9. CASE Tick
    <2>1. /\ now < MaxTime /\ now' = now + 1
          /\ UNCHANGED <<state, failures, openedAt, successes, pending, log>>
      BY <1>9 DEF Tick, breakerVars
    <2>2. TypeOK'
      BY <1>types, <2>1, BreakerAssumption DEF TypeOK
    <2>3. LogInOrder'
      BY <1>types, <1>nat, <2>1 DEF LogInOrder
    <2>4. WindowIsEndOfLog'
      <3>1. \A i \in 1 .. Forgotten : i \in 1 .. Len(log)
        BY <1>nat DEF Forgotten
      <3> QED
        BY <1>types, <1>nat, <2>1, <3>1 DEF WindowIsEndOfLog, Forgotten
    <2> QED
      BY <2>2, <2>3, <2>4 DEF WindowInv
  <1>10. CASE UNCHANGED vars
    <2>1. TypeOK'
      BY <1>10, <1>types DEF vars, breakerVars, TypeOK
    <2> QED
      BY <1>1, <1>10, <2>1 DEF vars, breakerVars, WindowInv
  <1> QED
    BY <1>2, <1>3, <1>5, <1>6, <1>7, <1>8, <1>9, <1>10
       DEF Next, RecordFailure, RecordSuccess

\* The window is exact in every reachable state.
THEOREM WindowInvariant == Spec => []WindowInv
  BY InitWindow, NextWindow, CountersInvariant, PTL DEF Spec

\* Every field of the breaker keeps its type.
THEOREM BreakerTypeCorrect == Spec => []TypeOK
  <1>1. WindowInv => TypeOK
    BY DEF WindowInv
  <1> QED
    BY <1>1, WindowInvariant, PTL

\* A CLOSED circuit has seen fewer than FailureThreshold failures within the
\* last Window seconds, whatever record_failure purged or forgot; successes
\* between the failures do not matter, against docs/resilience.md:154.
THEOREM ClosedIsBelowThreshold == Spec => []ClosedMeansBelowThreshold
  <1>1. WindowInv => ClosedMeansBelowThreshold
    <2> SUFFICES ASSUME WindowInv, state = "closed"
                 PROVE  Cardinality(InWindow(now)) < FailureThreshold
      BY DEF ClosedMeansBelowThreshold
    <2>1. /\ log \in Seq(0 .. MaxTime) /\ failures \in Seq(0 .. MaxTime)
          /\ Len(log) \in Nat /\ Len(failures) \in Nat /\ now \in Nat
          /\ Forgotten \in Nat /\ Len(failures) < FailureThreshold
          /\ \A i \in 1 .. Forgotten : log[i] + Window < now
      BY LenProperties, BreakerAssumption DEF WindowInv, TypeOK, WindowIsEndOfLog
    <2>2. \A i \in 1 .. Len(log) : log[i] \in 0 .. MaxTime
      BY <2>1, ElementOfSeq
    <2> DEFINE I == Forgotten + 1 .. Len(log)
    <2>3. InWindow(now) \subseteq I
      BY <2>1, <2>2, BreakerAssumption DEF InWindow
    <2>4. IsFiniteSet(I) /\ Cardinality(I) = Len(failures)
      <3>1. /\ Forgotten + 1 \in Int /\ Len(log) \in Int
            /\ Len(log) - (Forgotten + 1) + 1 = Len(failures)
            /\ Forgotten + 1 > Len(log) => Len(failures) = 0
        BY <2>1 DEF Forgotten
      <3> QED
        BY <3>1, FS_Interval
    <2> HIDE DEF I
    <2>5. /\ Cardinality(InWindow(now)) <= Cardinality(I)
          /\ Cardinality(InWindow(now)) \in Nat
      BY <2>3, <2>4, FS_Subset, FS_CardinalityType
    <2> QED
      BY <2>1, <2>4, <2>5, BreakerAssumption
  <1> QED
    BY <1>1, WindowInvariant, PTL

\* A CLOSED circuit opens only on a burst of FailureThreshold failures that
\* are all at most Window seconds old, consecutive or not.
THEOREM OpensOnBurst == Spec => OpensOnlyOnBurst
  <1>1. HalfOpenCounters /\ WindowInv /\ WindowInv' /\ [Next]_vars =>
           [state = "closed" /\ state' = "open"
               => Cardinality(InWindow(now)') >= FailureThreshold]_vars
    <2> SUFFICES ASSUME HalfOpenCounters, WindowInv, WindowInv', Next,
                        state = "closed", state' = "open"
                 PROVE  Cardinality(InWindow(now)') >= FailureThreshold
      OBVIOUS
    <2>1. CurrentState = "closed"
      BY DEF CurrentState
    <2>2. FailureCounted
      BY <2>1 DEF Next, ReadState, AllowRequest, RecordFailure, FailureReopens,
         RecordSuccess, SuccessCounted, SuccessCloses, Tick, breakerVars
    <2> DEFINE L == Append(log, now)
               W == Purged(Append(failures, now), now)
    <2>3. log' = L /\ now' = now /\ Len(W) >= FailureThreshold
      BY <2>2 DEF FailureCounted
    <2>4. /\ W \in Seq(Time) /\ L \in Seq(Time)
          /\ Len(L) - Len(W) \in Nat
          /\ \A i \in 1 .. Len(W) : W[i] = L[Len(L) - Len(W) + i]
          /\ \A i \in 1 .. Len(W) : W[i] + Window >= now
      BY FailureMovesWindow
    <2>5. Len(W) \in Nat /\ Len(L) \in Nat
      BY <2>4, LenProperties
    <2> HIDE DEF L, W
    <2> DEFINE k == Len(L) - Len(W)
               I == k + 1 .. Len(L)
    <2>6. k \in Nat /\ Len(L) = k + Len(W)
      BY <2>4, <2>5
    <2> HIDE DEF k
    <2>7. ASSUME NEW i \in I PROVE i \in InWindow(now)'
      <3>1. i - k \in 1 .. Len(W) /\ k + (i - k) = i /\ i \in 1 .. Len(L)
        BY <2>5, <2>6
      <3>2. L[k + (i - k)] + Window >= now
        BY <2>4, <3>1 DEF k
      <3> QED
        BY <2>3, <3>1, <3>2 DEF InWindow
    <2>8. IsFiniteSet(I) /\ Cardinality(I) = Len(W)
      <3>1. /\ k + 1 \in Int /\ Len(L) \in Int
            /\ Len(L) - (k + 1) + 1 = Len(W)
            /\ k + 1 > Len(L) => Len(W) = 0
        BY <2>5, <2>6
      <3> QED
        BY <3>1, FS_Interval
    <2>9. IsFiniteSet(InWindow(now)')
      <3>1. 1 \in Int /\ Len(L) \in Int
        BY <2>5
      <3>2. IsFiniteSet(1 .. Len(L))
        BY <3>1, FS_Interval
      <3>3. InWindow(now)' \subseteq 1 .. Len(L)
        BY <2>3 DEF InWindow
      <3> QED
        BY <3>2, <3>3, FS_Subset
    <2> HIDE DEF I
    <2>10. /\ Cardinality(I) <= Cardinality(InWindow(now)')
           /\ Cardinality(InWindow(now)') \in Nat
      BY <2>7, <2>9, FS_Subset, FS_CardinalityType
    <2> QED
      BY <2>3, <2>5, <2>8, <2>10, BreakerAssumption
  <1> QED
    BY <1>1, WindowInvariant, CountersInvariant, PTL DEF Spec, OpensOnlyOnBurst
=============================================================================
