-------------------------- MODULE ProxyCore_proofs --------------------------
(***************************************************************************)
(* Proofs of the safety properties of ProxyCore for any finite set of      *)
(* requests and any sets of addresses and admin requests.                  *)
(***************************************************************************)
EXTENDS ProxyCore, FiniteSetTheorems, TLAPS

\* A breaker stays a breaker whatever is recorded on it.
LEMMA BreakerOpsType ==
    ASSUME NEW b \in Breaker, NEW trips \in BOOLEAN
    PROVE  /\ AfterSuccess(b) \in Breaker
           /\ AfterFailure(b, trips) \in Breaker
           /\ AfterTimeout(b) \in Breaker
  <1>1. ClosedBreaker \in Breaker /\ OpenBreaker \in Breaker
    BY DEF Breaker, BreakerState, ClosedBreaker, OpenBreaker
  <1>2. AfterSuccess(b) \in Breaker
    <2>1. [state |-> "half-open", successes |-> b.successes + 1, pending |-> FALSE]
             \in Breaker
      BY DEF Breaker, BreakerState
    <2> QED
      BY <1>1, <2>1 DEF AfterSuccess
  <1>3. AfterFailure(b, trips) \in Breaker
    BY <1>1 DEF AfterFailure
  <1>4. AfterTimeout(b) \in Breaker
    BY DEF Breaker, BreakerState, AfterTimeout
  <1> QED
    BY <1>2, <1>3, <1>4

\* record_success and record_failure keep the table of breakers well typed.
LEMMA RecordedType ==
    ASSUME breaker \in [Addr -> Breaker], NEW A, NEW F, NEW trips
    PROVE  Recorded(A, F, trips) \in [Addr -> Breaker]
  <1> SUFFICES ASSUME NEW a \in Addr
               PROVE  Recorded(A, F, trips)[a] \in Breaker
    BY DEF Recorded
  <1> DEFINE b == IF a \in A THEN AfterSuccess(breaker[a]) ELSE breaker[a]
             t == a \in trips
  <1>1. b \in Breaker
    BY BreakerOpsType
  <1>2. t \in BOOLEAN
    OBVIOUS
  <1>3. AfterFailure(b, t) \in Breaker
    BY <1>1, <1>2, BreakerOpsType
  <1> QED
    BY <1>1, <1>3 DEF Recorded

\* The counts stay natural numbers.
LEMMA CountsType ==
    ASSUME active \in [Addr -> Nat], NEW A
    PROVE  /\ Incremented(A) \in [Addr -> Nat]
           /\ Decremented(A) \in [Addr -> Nat]
  BY DEF Incremented, Decremented

\* The only element on which two finite sets may differ decides by how much
\* their sizes differ.
LEMMA CardinalityStep ==
    ASSUME NEW S, IsFiniteSet(S), NEW T, NEW x,
           \A y : y # x => (y \in S <=> y \in T)
    PROVE  /\ x \in S /\ x \in T => Cardinality(T) = Cardinality(S)
           /\ x \notin S /\ x \notin T => Cardinality(T) = Cardinality(S)
           /\ x \notin S /\ x \in T => Cardinality(T) = Cardinality(S) + 1
           /\ x \in S /\ x \notin T => Cardinality(T) = Cardinality(S) - 1
  <1>1. CASE x \in S <=> x \in T
    <2>1. S = T
      BY <1>1
    <2> QED
      BY <1>1, <2>1
  <1>2. CASE x \notin S /\ x \in T
    <2>1. T = S \cup {x}
      BY <1>2
    <2> QED
      BY <1>2, <2>1, FS_AddElement
  <1>3. CASE x \in S /\ x \notin T
    <2>1. T = S \ {x}
      BY <1>3
    <2> QED
      BY <1>3, <2>1, FS_RemoveElement
  <1> QED
    BY <1>1, <1>2, <1>3

\* The holders of an instance are finitely many, so their number is a natural
\* number, which is 0 exactly when there is none.
LEMMA HoldersFinite ==
    ASSUME NEW a
    PROVE  /\ IsFiniteSet(Holders(a))
           /\ Cardinality(Holders(a)) \in Nat
           /\ Cardinality(Holders(a)) = 0 <=> Holders(a) = {}
  <1>1. Holders(a) \subseteq Req
    BY DEF Holders
  <1>2. IsFiniteSet(Holders(a))
    BY <1>1, RequestAssumption, FS_Subset
  <1> QED
    BY <1>2, FS_CardinalityType, FS_EmptySet

\* Every request but r keeps what it holds.
OthersKeep(r) ==
    \A q \in Req : q # r => /\ pre'[q] = pre[q] /\ dec'[q] = dec[q]
                            /\ preReleased'[q] = preReleased[q]
                            /\ decReleased'[q] = decReleased[q]
                            /\ agg'[q] = agg[q]

\* ActiveCountExact for one instance.
CountFits(a) == /\ active[a] <= Cardinality(Holders(a))
                /\ a \notin robbed => active[a] = Cardinality(Holders(a))

\* One decrement_active_requests of a.
OneLess(a) == active'[a] = IF active[a] > 0 THEN active[a] - 1 ELSE active[a]

\* If r alone changes what it holds on a, and the count of a moves with it,
\* the count stays as exact as it was.
LEMMA CountStep ==
    ASSUME ActiveCountExact, active \in [Addr -> Nat], robbed' = robbed,
           NEW r \in Req, OthersKeep(r), NEW a \in Addr,
           Holds(r, a) /\ Holds(r, a)' => active'[a] = active[a],
           ~Holds(r, a) /\ ~Holds(r, a)' => active'[a] = active[a],
           ~Holds(r, a) /\ Holds(r, a)' => active'[a] = active[a] + 1,
           Holds(r, a) /\ ~Holds(r, a)' => OneLess(a)
    PROVE  CountFits(a)'
  <1> DEFINE S == Holders(a)
             T == Holders(a)'
  <1>1. /\ IsFiniteSet(S) /\ Cardinality(S) \in Nat
        /\ r \in S => Cardinality(S) # 0
    BY HoldersFinite DEF ActiveCountExact
  <1>2. (r \in S <=> Holds(r, a)) /\ (r \in T <=> Holds(r, a)')
    BY DEF Holders
  <1>3. \A q : q # r => (q \in S <=> q \in T)
    BY DEF Holders, Holds, OthersKeep
  <1>4. active[a] <= Cardinality(S) /\ (a \notin robbed => active[a] = Cardinality(S))
    BY DEF ActiveCountExact
  <1> HIDE DEF S, T
  <1>5. /\ r \in S /\ r \in T => Cardinality(T) = Cardinality(S)
        /\ r \notin S /\ r \notin T => Cardinality(T) = Cardinality(S)
        /\ r \notin S /\ r \in T => Cardinality(T) = Cardinality(S) + 1
        /\ r \in S /\ r \notin T => Cardinality(T) = Cardinality(S) - 1
    BY <1>1, <1>3, CardinalityStep
  <1>6. active[a] \in Nat
    OBVIOUS
  <1>7. /\ active'[a] <= Cardinality(T)
        /\ a \notin robbed => active'[a] = Cardinality(T)
    BY <1>1, <1>2, <1>4, <1>5, <1>6 DEF OneLess
  <1> QED
    BY <1>7 DEF T, CountFits

-----------------------------------------------------------------------------
\* A request that gives up everything it holds keeps the invariant: the way
\* PrefillFails, HandoffFails, BodyEnds, BodyFails and every end of an
\* aggregated request leave.  An instance stays robbed while others hold it;
\* the last of them leaves a count of zero, which is exact again.
LEMMA EndsKeepsInvariant ==
    ASSUME IInv, NEW r \in Req, NEW ph \in AtRest, NEW k \in 0..2,
           Ends(r, ph, k),
           UNCHANGED <<role, status, monitorVars, adminVars>>,
           breaker' \in [Addr -> Breaker],
           prefillGauge' \in Int, decodeGauge' \in Int,
           active' \in [Addr -> Nat],
           \A a \in Addr : ~Holds(r, a) => active'[a] = active[a],
           \A a \in Addr : Holds(r, a) =>
              \/ OneLess(a)
              \/ k = 2 /\ a = agg[r] /\ active'[a] = IF active[a] > 1 THEN active[a] - 2 ELSE 0
    PROVE  IInv'
  <1> USE DEF IInv
  <1>1. TypeOK'
    <2>1. RegistryTypeOK'
      BY DEF TypeOK, RegistryTypeOK
    <2>2. MonitorTypeOK' /\ AdminTypeOK'
      BY DEF TypeOK, MonitorTypeOK, AdminTypeOK, monitorVars, adminVars
    <2>3. CompletionsTypeOK'
      BY DEF TypeOK, CompletionsTypeOK, Ends, AtRest, Phase
    <2> QED
      BY <2>1, <2>2, <2>3 DEF TypeOK
  <1>2. RequestShape'
    BY DEF TypeOK, CompletionsTypeOK, RequestShape, Ends, AtRest
  <1>3. TaskTargets' /\ UnregisteredNotDraining'
    BY DEF TaskTargets, UnregisteredNotDraining, adminVars
  <1>4. UnregisteredIdle'
    <2> SUFFICES ASSUME NEW a \in Addr, role[a] = "none" PROVE active'[a] = 0
      BY DEF UnregisteredIdle
    <2>1. active[a] = 0
      BY DEF UnregisteredIdle
    <2> QED
      BY <2>1 DEF OneLess
  <1>5. OthersKeep(r)
    BY DEF TypeOK, CompletionsTypeOK, OthersKeep, Ends
  <1>6. \A a \in Addr : Holders(a)' = Holders(a) \ {r}
    <2>1. \A a \in Addr : ~Holds(r, a)'
      BY RequestAssumption DEF TypeOK, CompletionsTypeOK, Holds, Ends
    <2> QED
      BY <1>5, <2>1 DEF Holders, Holds, OthersKeep
  <1>7. ASSUME NEW a \in Addr
        PROVE  /\ a \in robbed' => Holders(a)' # {}
               /\ a \in robbed /\ Holders(a)' # {} => a \in robbed'
               /\ k = 2 /\ a = agg[r] /\ Holders(a)' # {} => a \in robbed'
    BY <1>6 DEF Ends
  <1>8. HeldAreRegistered'
    <2> SUFFICES ASSUME NEW q \in Req PROVE
             /\ ~preReleased'[q] => pre'[q] \in robbed' \/ role[pre'[q]] = "prefill"
             /\ ~decReleased'[q] => dec'[q] \in robbed' \/ role[dec'[q]] = "decode"
             /\ agg'[q] # NoAddr => agg'[q] \in robbed' \/ role[agg'[q]] = "aggregated"
      BY DEF HeldAreRegistered
    <2>1. CASE q = r
      BY <2>1 DEF TypeOK, CompletionsTypeOK, Ends
    <2>2. CASE q # r
      <3>1. \A a \in Addr : a \in robbed /\ Holds(q, a) => a \in robbed'
        BY <1>6, <1>7, <2>2 DEF Holders
      <3>2. /\ ~preReleased[q] => pre[q] \in Addr
            /\ ~decReleased[q] => dec[q] \in Addr
            /\ agg[q] # NoAddr => agg[q] \in Addr
        BY DEF RequestShape, TypeOK, CompletionsTypeOK
      <3> QED
        BY <1>5, <2>2, <3>1, <3>2 DEF OthersKeep, HeldAreRegistered, Holds
    <2> QED
      BY <2>1, <2>2
  <1>9. ASSUME NEW a \in Addr
        PROVE  CountFits(a)'
    <2> DEFINE S == Holders(a)
               T == Holders(a)'
    <2>1. /\ IsFiniteSet(S) /\ Cardinality(S) \in Nat
          /\ active[a] <= Cardinality(S)
          /\ a \notin robbed => active[a] = Cardinality(S)
      BY HoldersFinite DEF ActiveCountExact
    <2>2. T = S \ {r} /\ (r \in S <=> Holds(r, a))
      BY <1>6 DEF Holders
    <2>3. active[a] \in Nat /\ active'[a] \in Nat
      BY DEF TypeOK, RegistryTypeOK
    <2>4. /\ a \in robbed /\ a \notin robbed' => T = {}
          /\ k = 2 /\ a = agg[r] /\ a \notin robbed' => T = {}
      BY <1>7
    <2>5. /\ ~Holds(r, a) => active'[a] = active[a]
          /\ Holds(r, a) =>
               \/ OneLess(a)
               \/ k = 2 /\ a = agg[r] /\ active'[a] = IF active[a] > 1 THEN active[a] - 2 ELSE 0
      OBVIOUS
    <2> HIDE DEF S, T
    <2>6. Cardinality({}) = 0
      BY FS_EmptySet
    <2>7. CASE r \notin S
      <3>1. T = S
        BY <2>2, <2>7
      <3>2. active'[a] = active[a] /\ (T = {} => Cardinality(T) = 0)
        BY <2>2, <2>5, <2>6, <2>7
      <3>3. /\ active'[a] <= Cardinality(T)
            /\ a \notin robbed' => active'[a] = Cardinality(T)
        BY <2>1, <2>3, <2>4, <3>1, <3>2
      <3> QED
        BY <3>3 DEF CountFits, T
    <2>8. CASE r \in S
      <3>1. Cardinality(T) = Cardinality(S) - 1 /\ Cardinality(T) \in Nat
        BY <2>1, <2>2, <2>8, FS_RemoveElement, FS_CardinalityType
      <3>2. T = {} => Cardinality(T) = 0
        BY <2>6
      <3>3. CASE OneLess(a)
        <4>1. /\ active'[a] <= Cardinality(T)
              /\ a \notin robbed' => active'[a] = Cardinality(T)
          BY <2>1, <2>3, <2>4, <3>1, <3>2, <3>3 DEF OneLess
        <4> QED
          BY <4>1 DEF CountFits, T
      <3>4. CASE k = 2 /\ a = agg[r] /\ active'[a] = IF active[a] > 1 THEN active[a] - 2 ELSE 0
        <4>1. /\ active'[a] <= Cardinality(T)
              /\ a \notin robbed' => active'[a] = Cardinality(T)
          BY <2>1, <2>3, <2>4, <3>1, <3>2, <3>4
        <4> QED
          BY <4>1 DEF CountFits, T
      <3> QED
        BY <2>2, <2>5, <2>8, <3>3, <3>4
    <2> QED
      BY <2>7, <2>8
  <1>10. ActiveCountExact'
    BY <1>9 DEF ActiveCountExact, CountFits
  <1> QED
    BY <1>1, <1>2, <1>3, <1>4, <1>8, <1>10

\* Every step of a completion request keeps the invariant.
LEMMA RequestStepKeepsInvariant ==
    ASSUME IInv, NEW r \in Req, RequestStep(r),
           UNCHANGED <<monitorVars, adminVars>>
    PROVE  IInv'
  <1> USE DEF IInv
  <1>types. /\ RegistryTypeOK /\ CompletionsTypeOK
            /\ MonitorTypeOK' /\ AdminTypeOK'
    BY DEF TypeOK, MonitorTypeOK, AdminTypeOK, monitorVars, adminVars
  <1>quiet. role' = role /\ status' = status
            => TaskTargets' /\ UnregisteredNotDraining'
    BY DEF TaskTargets, UnregisteredNotDraining, adminVars
  <1>idleLeft. ASSUME role' = role,
                      \A a \in Addr : active[a] = 0 /\ a \notin Registered => active'[a] = 0
               PROVE  UnregisteredIdle'
    BY <1>idleLeft DEF UnregisteredIdle, Registered
  \* What a release covers in each phase is what the request holds.
  <1>held. /\ phase[r] \in {"prefill", "handoff", "body", "decode"}
                => \A a \in Addr : a \in Unreleased(r) <=> Holds(r, a)
           /\ phase[r] = "agg" => \A a \in Addr : a \in {agg[r]} <=> Holds(r, a)
    BY <1>types, RequestAssumption
       DEF RequestShape, Unreleased, UnreleasedPrefill, Holds, CompletionsTypeOK
  <1>idle. phase[r] \in AtRest => \A a \in Addr : ~Holds(r, a)
    BY <1>types, RequestAssumption DEF RequestShape, Holds, AtRest, CompletionsTypeOK
  <1>1. ASSUME NEW p \in Addr, NEW d \in Addr, Schedule(r, p, d)
        PROVE  IInv'
    <2> USE <1>1 DEF Schedule
    <2>0. p # d
      BY DEF Available
    <2>1. TypeOK'
      <3>1. RegistryTypeOK'
        BY <1>types, CountsType DEF RegistryTypeOK
      <3>2. CompletionsTypeOK'
        BY <1>types DEF CompletionsTypeOK, Phase
      <3> QED
        BY <1>types, <3>1, <3>2 DEF TypeOK
    <2>2. RequestShape'
      BY <1>types, <2>0 DEF RequestShape, CompletionsTypeOK, AtRest
    <2>3. role[p] = "prefill" /\ role[d] = "decode"
      BY DEF Available
    <2>4. HeldAreRegistered'
      BY <1>types, <2>3 DEF HeldAreRegistered, CompletionsTypeOK
    <2>5. OthersKeep(r)
      BY <1>types DEF OthersKeep, CompletionsTypeOK
    <2>6. ASSUME NEW a \in Addr PROVE CountFits(a)'
      <3>1. ~Holds(r, a)
        BY <1>idle
      <3>2. Holds(r, a)' <=> a \in {p, d}
        BY <1>types, <1>idle, <3>1, RequestAssumption
           DEF Holds, CompletionsTypeOK, RequestShape, AtRest
      <3>3. active'[a] = IF a \in {p, d} THEN active[a] + 1 ELSE active[a]
        BY DEF Incremented
      <3> QED
        BY <1>types, <2>5, <3>1, <3>2, <3>3, CountStep DEF RegistryTypeOK
    <2>7. UnregisteredIdle'
      BY <1>idleLeft, <2>3 DEF Incremented, Registered
    <2> QED
      BY <1>quiet, <2>1, <2>2, <2>4, <2>6, <2>7 DEF ActiveCountExact, CountFits
  <1>2. ASSUME NEW p \in Addr \cup {NoAddr}, NEW d \in Addr \cup {NoAddr},
               ScheduleUndone(r, p, d)
        PROVE  IInv'
    <2>1. UNCHANGED <<role, status, active, requestVars>>
      BY <1>2 DEF ScheduleUndone
    <2>2. breaker' \in [Addr -> Breaker]
      BY <1>types, <1>2, RecordedType DEF ScheduleUndone, RegistryTypeOK
    <2>3. TypeOK'
      BY <1>types, <2>1, <2>2 DEF TypeOK, RegistryTypeOK, CompletionsTypeOK,
         requestVars, reservationVars, gaugeVars
    <2>4. RequestShape' /\ HeldAreRegistered' /\ ActiveCountExact' /\ UnregisteredIdle'
      BY <2>1 DEF RequestShape, HeldAreRegistered, ActiveCountExact, UnregisteredIdle,
         Holders, Holds, requestVars, reservationVars, gaugeVars
    <2> QED
      BY <1>quiet, <2>1, <2>3, <2>4
  <1>3. ASSUME NEW a \in Addr, ScheduleAggregated(r, a)
        PROVE  IInv'
    <2> USE <1>3 DEF ScheduleAggregated
    <2>1. TypeOK'
      <3>1. RegistryTypeOK'
        BY <1>types, CountsType DEF RegistryTypeOK
      <3>2. CompletionsTypeOK'
        BY <1>types DEF CompletionsTypeOK, Phase
      <3> QED
        BY <1>types, <3>1, <3>2 DEF TypeOK
    <2>2. RequestShape'
      BY <1>types, RequestAssumption DEF RequestShape, CompletionsTypeOK, AtRest
    <2>3. HeldAreRegistered'
      BY <1>types DEF HeldAreRegistered, CompletionsTypeOK, Available
    <2>4. OthersKeep(r)
      BY <1>types DEF OthersKeep, CompletionsTypeOK
    <2>5. ASSUME NEW b \in Addr PROVE CountFits(b)'
      <3>1. ~Holds(r, b)
        BY <1>idle
      <3>2. Holds(r, b)' <=> b = a
        BY <1>types, <3>1 DEF Holds, CompletionsTypeOK
      <3>3. active'[b] = IF b \in {a} THEN active[b] + 1 ELSE active[b]
        BY DEF Incremented
      <3> QED
        BY <1>types, <2>4, <3>1, <3>2, <3>3, CountStep DEF RegistryTypeOK
    <2>6. UnregisteredIdle'
      BY <1>idleLeft DEF Incremented, Registered, Available
    <2> QED
      BY <1>quiet, <2>1, <2>2, <2>3, <2>5, <2>6 DEF ActiveCountExact, CountFits
  <1>4. CASE PrefillDone(r) \/ HandoffDone(r)
    <2>1. /\ phase' = [phase EXCEPT ![r] = IF PrefillDone(r) THEN "handoff" ELSE "body"]
          /\ phase[r] \in {"prefill", "handoff"}
          /\ UNCHANGED <<registryVars, reservationVars, requestGauge, drift>>
      BY <1>4 DEF PrefillDone, HandoffDone, gaugeVars
    <2>2. prefillGauge' \in Int /\ decodeGauge' \in Int
      BY <1>4, <1>types DEF PrefillDone, HandoffDone, gaugeVars, CompletionsTypeOK
    <2>3. TypeOK'
      BY <1>types, <2>1, <2>2 DEF TypeOK, RegistryTypeOK, CompletionsTypeOK, Phase,
         registryVars, reservationVars
    <2>4. RequestShape'
      BY <1>types, <2>1 DEF RequestShape, CompletionsTypeOK, reservationVars
    <2>5. HeldAreRegistered' /\ ActiveCountExact' /\ UnregisteredIdle'
      BY <2>1 DEF HeldAreRegistered, ActiveCountExact, UnregisteredIdle, Holders, Holds,
         registryVars, reservationVars
    <2> QED
      BY <1>quiet, <2>1, <2>3, <2>4, <2>5 DEF registryVars
  <1>5. CASE StartDecode(r)
    <2> USE <1>5 DEF StartDecode, Release
    <2>1. TypeOK'
      <3>1. RegistryTypeOK'
        BY <1>types, CountsType, RecordedType DEF RegistryTypeOK
      <3>2. CompletionsTypeOK'
        BY <1>types DEF CompletionsTypeOK, Phase, gaugeVars
      <3> QED
        BY <1>types, <3>1, <3>2 DEF TypeOK
    <2>2. RequestShape'
      BY <1>types DEF RequestShape, CompletionsTypeOK
    <2>3. HeldAreRegistered'
      BY <1>types DEF HeldAreRegistered, CompletionsTypeOK
    <2>4. OthersKeep(r)
      BY <1>types DEF OthersKeep, CompletionsTypeOK
    <2>5. /\ ~preReleased[r] /\ ~decReleased[r] /\ agg[r] = NoAddr
          /\ pre[r] # dec[r]
          /\ UnreleasedPrefill(r) = {pre[r]}
      BY <1>types DEF RequestShape, UnreleasedPrefill
    <2>6. ASSUME NEW a \in Addr PROVE CountFits(a)'
      <3>1. Holds(r, a) <=> a \in {pre[r], dec[r]}
        BY <2>5, RequestAssumption DEF Holds
      <3>2. Holds(r, a)' <=> a = dec[r]
        BY <1>types, <2>5, RequestAssumption DEF Holds, CompletionsTypeOK
      <3>3. a = pre[r] => OneLess(a)
        BY <2>5 DEF Decremented, OneLess
      <3>4. a # pre[r] => active'[a] = active[a]
        BY <2>5 DEF Decremented
      <3> QED
        BY <1>types, <2>4, <2>5, <3>1, <3>2, <3>3, <3>4, CountStep DEF RegistryTypeOK
    <2>7. UnregisteredIdle'
      BY <1>idleLeft DEF Decremented
    <2> QED
      BY <1>quiet, <2>1, <2>2, <2>3, <2>6, <2>7 DEF ActiveCountExact, CountFits
  <1>6. CASE HandoffFails(r) \/ BodyEnds(r)
    <2>1. /\ Release(Unreleased(r), {}, {}) /\ Ends(r, "idle", 1)
          /\ phase[r] \in {"prefill", "handoff", "body", "decode"}
      BY <1>6 DEF HandoffFails, BodyEnds
    <2>2. prefillGauge' \in Int /\ decodeGauge' \in Int
      BY <1>6, <1>types DEF HandoffFails, BodyEnds, CompletionsTypeOK
    <2>3. breaker' \in [Addr -> Breaker]
      BY <1>types, <2>1, RecordedType DEF Release, RegistryTypeOK
    <2>4. /\ active' \in [Addr -> Nat]
          /\ \A a \in Addr : IF Holds(r, a) THEN OneLess(a) ELSE active'[a] = active[a]
      BY <1>held, <1>types, <2>1, CountsType DEF Release, Decremented, OneLess, RegistryTypeOK
    <2>5. UNCHANGED <<role, status>>
      BY <2>1 DEF Release
    <2> QED
      BY <2>1, <2>2, <2>3, <2>4, <2>5, EndsKeepsInvariant DEF AtRest
  <1>7. ASSUME NEW trips, PrefillFails(r, trips) \/ BodyFails(r, trips)
        PROVE  IInv'
    <2>1. /\ Release(Unreleased(r), FailuresOf(r), trips) /\ Ends(r, "failed", 1)
          /\ phase[r] \in {"prefill", "handoff", "body", "decode"}
      BY <1>7 DEF PrefillFails, BodyFails
    <2>2. prefillGauge' \in Int /\ decodeGauge' \in Int
      BY <1>7, <1>types DEF PrefillFails, BodyFails, CompletionsTypeOK
    <2>3. breaker' \in [Addr -> Breaker]
      BY <1>types, <2>1, RecordedType DEF Release, RegistryTypeOK
    <2>4. /\ active' \in [Addr -> Nat]
          /\ \A a \in Addr : IF Holds(r, a) THEN OneLess(a) ELSE active'[a] = active[a]
      BY <1>held, <1>types, <2>1, CountsType DEF Release, Decremented, OneLess, RegistryTypeOK
    <2>5. UNCHANGED <<role, status>>
      BY <2>1 DEF Release
    <2> QED
      BY <2>1, <2>2, <2>3, <2>4, <2>5, EndsKeepsInvariant DEF AtRest
  <1>8. ASSUME NEW ok \in BOOLEAN, AggregatedEnds(r, ok)
        PROVE  IInv'
    <2>1. prefillGauge' \in Int /\ decodeGauge' \in Int
      BY <1>8, <1>types DEF AggregatedEnds, CompletionsTypeOK
    <2>2. breaker' \in [Addr -> Breaker]
      BY <1>types, <1>8, RecordedType DEF AggregatedEnds, RegistryTypeOK
    <2>3. /\ active' \in [Addr -> Nat]
          /\ \A a \in Addr : IF Holds(r, a) THEN OneLess(a) ELSE active'[a] = active[a]
      BY <1>held, <1>types, <1>8, CountsType
         DEF AggregatedEnds, Decremented, OneLess, RegistryTypeOK
    <2>4. Ends(r, "idle", 1) /\ UNCHANGED <<role, status>>
      BY <1>8 DEF AggregatedEnds
    <2> QED
      BY <2>1, <2>2, <2>3, <2>4, EndsKeepsInvariant DEF AtRest
  <1>9. ASSUME NEW trips, AggregatedFails(r, trips)
        PROVE  IInv'
    <2>1. prefillGauge' \in Int /\ decodeGauge' \in Int
      BY <1>9, <1>types DEF AggregatedFails, CompletionsTypeOK
    <2>2. breaker' \in [Addr -> Breaker]
      BY <1>types, <1>9, RecordedType DEF AggregatedFails, RegistryTypeOK
    <2>3. /\ active' \in [Addr -> Nat]
          /\ \A a \in Addr : IF Holds(r, a) THEN OneLess(a) ELSE active'[a] = active[a]
      BY <1>held, <1>types, <1>9, CountsType
         DEF AggregatedFails, Decremented, OneLess, RegistryTypeOK
    <2>4. Ends(r, "failed", 1) /\ UNCHANGED <<role, status>>
      BY <1>9 DEF AggregatedFails
    <2> QED
      BY <2>1, <2>2, <2>3, <2>4, EndsKeepsInvariant DEF AtRest
  <1>10. ASSUME NEW ok \in BOOLEAN, NEW trips, AggregatedUnrenderable(r, ok, trips)
         PROVE  IInv'
    <2>1. prefillGauge' \in Int /\ decodeGauge' \in Int
      BY <1>10, <1>types DEF AggregatedUnrenderable, CompletionsTypeOK
    <2>2. breaker' \in [Addr -> Breaker]
      BY <1>types, <1>10, RecordedType DEF AggregatedUnrenderable, RegistryTypeOK
    <2>3. agg[r] \in Addr
      BY <1>10 DEF AggregatedUnrenderable, Registered
    <2>4. /\ active' \in [Addr -> Nat]
          /\ \A a \in Addr : ~Holds(r, a) => active'[a] = active[a]
          /\ \A a \in Addr : Holds(r, a) =>
                a = agg[r] /\ active'[a] = IF active[a] > 1 THEN active[a] - 2 ELSE 0
      BY <1>held, <1>types, <1>10, <2>3 DEF AggregatedUnrenderable, RegistryTypeOK
    <2>5. Ends(r, "failed", 2) /\ UNCHANGED <<role, status>>
      BY <1>10 DEF AggregatedUnrenderable
    <2> QED
      BY <2>1, <2>2, <2>4, <2>5, EndsKeepsInvariant DEF AtRest
  <1>11. ASSUME NEW streamed \in BOOLEAN, AggregatedGone(r, streamed)
         PROVE  IInv'
    <2>1. PICK k \in 0..2 : Ends(r, "idle", k)
      BY <1>11 DEF AggregatedGone
    <2>2. UNCHANGED <<registryVars, prefillGauge, decodeGauge>>
      BY <1>11 DEF AggregatedGone
    <2>3. \A a \in Addr : IF Holds(r, a) THEN OneLess(a) ELSE active'[a] = active[a]
      BY <1>held, <1>11, <2>2
         DEF AggregatedGone, UnregisteredIdle, Registered, OneLess, registryVars
    <2> QED
      BY <1>types, <2>1, <2>2, <2>3, EndsKeepsInvariant
         DEF AtRest, registryVars, RegistryTypeOK, CompletionsTypeOK
  <1> QED
    BY <1>1, <1>2, <1>3, <1>4, <1>5, <1>6, <1>7, <1>8, <1>9, <1>10, <1>11
       DEF RequestStep, RequestProgress
-----------------------------------------------------------------------------
\* Adding an unregistered instance, or removing one without active requests,
\* touches no reservation: nobody holds one on it, unless the count of the
\* instance was given back twice.
LEMMA RegistryChangeKeepsInvariant ==
    ASSUME IInv, NEW a \in Addr,
           UNCHANGED requestVars,
           MonitorTypeOK', AdminTypeOK', TaskTargets',
           \/ Remove(a) /\ active[a] = 0
           \/ \E rl \in Role : Add(a, rl) /\ a \notin Registered
    PROVE  IInv'
  <1> USE DEF IInv
  <1>1. active[a] = 0
    BY DEF Registered, UnregisteredIdle
  <1>2. a \notin robbed => Cardinality(Holders(a)) = 0 /\ \A r \in Req : ~Holds(r, a)
    BY <1>1, HoldersFinite DEF ActiveCountExact, Holders
  <1>3. TypeOK'
    <2>1. RegistryTypeOK'
      <3>1. ClosedBreaker \in Breaker
        BY DEF ClosedBreaker, Breaker, BreakerState
      <3> QED
        BY <3>1 DEF TypeOK, RegistryTypeOK, Add, Remove, Status
    <2>2. CompletionsTypeOK'
      BY DEF TypeOK, CompletionsTypeOK, requestVars, reservationVars, gaugeVars
    <2> QED
      BY <2>1, <2>2 DEF TypeOK
  <1>4. RequestShape'
    BY DEF RequestShape, requestVars, reservationVars
  <1>5. UnregisteredNotDraining'
    BY DEF UnregisteredNotDraining, Add, Remove, TypeOK, RegistryTypeOK, Role
  <1>6. \A b \in Addr : b # a => role'[b] = role[b] /\ active'[b] = active[b]
    BY DEF Add, Remove, TypeOK, RegistryTypeOK
  <1>7. HeldAreRegistered'
    BY <1>2, <1>6, RequestAssumption
       DEF HeldAreRegistered, RequestShape, Holds, requestVars, reservationVars, TypeOK,
           CompletionsTypeOK
  <1>8. \A b \in Addr : Holders(b)' = Holders(b)
    BY DEF Holders, Holds, requestVars, reservationVars
  <1>9. active'[a] = 0
    BY DEF Add, Remove, TypeOK, RegistryTypeOK
  <1>10. robbed' = robbed /\ Cardinality(Holders(a)) \in Nat
    BY HoldersFinite DEF requestVars, reservationVars
  <1>11. ActiveCountExact'
    BY <1>2, <1>6, <1>8, <1>9, <1>10 DEF ActiveCountExact
  <1>12. UnregisteredIdle'
    BY <1>6, <1>9 DEF UnregisteredIdle
  <1> QED
    BY <1>3, <1>4, <1>5, <1>7, <1>11, <1>12

\* A step that changes no role and no count, and marks no unregistered
\* instance as draining, keeps the invariant.
LEMMA StatusChangeKeepsInvariant ==
    ASSUME IInv, UNCHANGED <<role, active, requestVars>>,
           status' \in [Addr -> Status], breaker' \in [Addr -> Breaker],
           MonitorTypeOK', AdminTypeOK', TaskTargets', UnregisteredNotDraining'
    PROVE  IInv'
  <1> USE DEF IInv
  <1>1. TypeOK'
    BY DEF TypeOK, RegistryTypeOK, CompletionsTypeOK, requestVars, reservationVars,
           gaugeVars
  <1>2. RequestShape' /\ HeldAreRegistered' /\ ActiveCountExact' /\ UnregisteredIdle'
    BY DEF RequestShape, HeldAreRegistered, ActiveCountExact, UnregisteredIdle, Holders,
           Holds, requestVars, reservationVars
  <1> QED
    BY <1>1, <1>2

\* Every step of an admin request keeps the invariant.
LEMMA AdminStepKeepsInvariant ==
    ASSUME IInv, NEW t \in Admin, AdminStep(t), UNCHANGED requestVars
    PROVE  IInv'
  <1> USE DEF IInv
  <1>types. RegistryTypeOK /\ MonitorTypeOK /\ AdminTypeOK
    BY DEF TypeOK
  <1>answered. Answered(t) => TaskTargets' /\ task' \in [Admin -> Task]
    BY <1>types DEF Answered, IdleTask, TaskTargets, AdminTypeOK, Task, Op
  <1>still. registryVars' = registryVars
            => /\ UNCHANGED <<role, active>>
               /\ status' \in [Addr -> Status] /\ breaker' \in [Addr -> Breaker]
               /\ UnregisteredNotDraining'
    BY <1>types DEF registryVars, RegistryTypeOK, UnregisteredNotDraining
  <1>1. ASSUME NEW i \in AdminInput,
               RequestAdd(t, i[1], i[2]) \/ RequestRemove(t, i[1], i[2])
        PROVE  IInv'
    <2>1. i[1] \in Addr /\ i[2] \in Role
      BY CoreAssumption
    <2>2. PICK op \in {"validating", "removing"} :
             task' = [task EXCEPT ![t] = [op |-> op, addr |-> i[1], role |-> i[2]]]
      BY <1>1 DEF RequestAdd, RequestRemove
    <2>3. UNCHANGED <<registryVars, monitorVars, lock>>
      BY <1>1 DEF RequestAdd, RequestRemove
    <2>4. TaskTargets' /\ AdminTypeOK'
      BY <1>types, <2>1, <2>2, <2>3 DEF TaskTargets, AdminTypeOK, Task, Op
    <2>5. MonitorTypeOK'
      BY <1>types, <2>3 DEF MonitorTypeOK, monitorVars
    <2> QED
      BY <1>still, <2>3, <2>4, <2>5, StatusChangeKeepsInvariant
  <1>2. CASE Validated(t)
    <2>1. TaskTargets' /\ AdminTypeOK'
      <3>1. CASE Answered(t)
        BY <1>types, <1>2, <1>answered, <3>1 DEF Validated, AdminTypeOK
      <3>2. CASE task' = [task EXCEPT ![t].op = "adding"]
        BY <1>types, <1>2, <3>2 DEF Validated, TaskTargets, AdminTypeOK, Task, Op
      <3> QED
        BY <1>2, <3>1, <3>2 DEF Validated
    <2>2. MonitorTypeOK'
      BY <1>types, <1>2 DEF Validated, MonitorTypeOK, monitorVars
    <2> QED
      BY <1>2, <1>still, <2>1, <2>2, StatusChangeKeepsInvariant DEF Validated
  <1>3. CASE AddLocked(t)
    <2> DEFINE a == task[t].addr
    <2>1. a \in Addr /\ task[t].role \in Role
      BY <1>3 DEF AddLocked, TaskTargets
    <2>2. TaskTargets' /\ AdminTypeOK'
      BY <1>3, <1>types, <1>answered DEF AddLocked, AdminTypeOK
    <2>3. MonitorTypeOK'
      BY <1>3, <1>types, <2>1 DEF AddLocked, MonitorTypeOK
    <2>4. CASE a \in Registered
      BY <1>3, <1>still, <2>2, <2>3, <2>4, StatusChangeKeepsInvariant DEF AddLocked
    <2>5. CASE a \notin Registered
      <3>1. Add(a, task[t].role)
        BY <1>3, <2>5 DEF AddLocked
      <3> QED
        BY <2>1, <2>2, <2>3, <2>5, <3>1, RegistryChangeKeepsInvariant
    <2> QED
      BY <2>4, <2>5
  <1>4. CASE RemoveRefused(t) \/ DrainTimeout(t)
    <2>1. /\ UNCHANGED <<registryVars, monitorVars>> /\ Answered(t)
          /\ lock' \in {lock, NoTask}
      BY <1>4 DEF RemoveRefused, DrainTimeout
    <2>2. TaskTargets' /\ AdminTypeOK'
      BY <1>types, <1>answered, <2>1 DEF AdminTypeOK
    <2>3. MonitorTypeOK'
      BY <1>types, <2>1 DEF MonitorTypeOK, monitorVars
    <2> QED
      BY <1>still, <2>1, <2>2, <2>3, StatusChangeKeepsInvariant
  <1>5. CASE RemoveIdle(t) \/ DrainDone(t)
    <2> DEFINE a == task[t].addr
    <2>1. a \in Addr /\ active[a] = 0 /\ RemoveEverywhere(t)
      BY <1>5 DEF RemoveIdle, DrainDone, TaskTargets
    <2>2. TaskTargets' /\ AdminTypeOK'
      BY <1>types, <1>answered, <2>1 DEF RemoveEverywhere, AdminTypeOK
    <2>3. MonitorTypeOK'
      BY <1>types, <2>1 DEF RemoveEverywhere, MonitorTypeOK
    <2> QED
      BY <2>1, <2>2, <2>3, RegistryChangeKeepsInvariant DEF RemoveEverywhere
  <1>6. CASE StartDrain(t)
    <2> DEFINE a == task[t].addr
    <2>1. a \in Addr /\ role[a] # "none" /\ BeginDraining(a)
      BY <1>6 DEF StartDrain, TaskTargets, Role
    <2>2. TaskTargets' /\ AdminTypeOK'
      BY <1>6, <1>types DEF StartDrain, TaskTargets, AdminTypeOK, Task, Op
    <2>3. MonitorTypeOK'
      BY <1>6, <1>types DEF StartDrain, MonitorTypeOK, monitorVars
    <2>4. status' \in [Addr -> Status] /\ UnregisteredNotDraining'
      BY <1>types, <2>1 DEF BeginDraining, RegistryTypeOK, Status, UnregisteredNotDraining
    <2> QED
      BY <1>types, <2>1, <2>2, <2>3, <2>4, StatusChangeKeepsInvariant
         DEF BeginDraining, RegistryTypeOK
  <1> QED
    BY <1>1, <1>2, <1>3, <1>4, <1>5, <1>6 DEF AdminStep

\* Every step of the health monitor keeps the invariant.
LEMMA MonitorStepKeepsInvariant ==
    ASSUME IInv, MonitorStep, UNCHANGED <<adminVars, requestVars>>
    PROVE  IInv'
  <1> USE DEF IInv
  <1>1. AdminTypeOK' /\ TaskTargets'
    BY DEF TypeOK, AdminTypeOK, TaskTargets, adminVars
  <1>2. CASE ProbeAll
    BY <1>1, <1>2, StatusChangeKeepsInvariant
       DEF ProbeAll, registryVars, TypeOK, RegistryTypeOK, MonitorTypeOK,
           UnregisteredNotDraining
  <1>3. ASSUME NEW a \in Addr, NEW s \in {"healthy", "unhealthy"}, ProbeResult(a, s)
        PROVE  IInv'
    <2>1. MonitorTypeOK'
      BY <1>3 DEF ProbeResult, TypeOK, MonitorTypeOK
    <2>2. /\ UNCHANGED <<role, active, breaker>>
          /\ \/ status' = status
             \/ status' = [status EXCEPT ![a] = IF @ = "draining" THEN @ ELSE s]
      BY <1>3 DEF ProbeResult, Mark, registryVars
    <2>3. status' \in [Addr -> Status] /\ UnregisteredNotDraining'
      BY <2>2 DEF TypeOK, RegistryTypeOK, Status, UnregisteredNotDraining
    <2> QED
      BY <1>1, <2>1, <2>2, <2>3, StatusChangeKeepsInvariant DEF TypeOK, RegistryTypeOK
  <1> QED
    BY <1>2, <1>3 DEF MonitorStep
-----------------------------------------------------------------------------
\* The configured proxy satisfies the invariant before its first request.
LEMMA InitEstablishesInvariant == Init => IInv
  <1> SUFFICES ASSUME Init PROVE IInv
    OBVIOUS
  <1> USE DEF Init, CompletionsInit, AdminInit
  <1>1. TypeOK
    BY CoreAssumption
       DEF TypeOK, RegistryTypeOK, MonitorTypeOK, CompletionsTypeOK, AdminTypeOK,
           Registered, Status, Phase, Task, Op, IdleTask, Breaker, BreakerState,
           ClosedBreaker
  <1>2. /\ RequestShape /\ TaskTargets /\ UnregisteredNotDraining /\ UnregisteredIdle
        /\ HeldAreRegistered
    BY DEF RequestShape, TaskTargets, UnregisteredNotDraining, UnregisteredIdle,
           HeldAreRegistered, IdleTask
  <1>3. \A a \in Addr : Holders(a) = {}
    BY RequestAssumption DEF Holders, Holds
  <1>4. ActiveCountExact
    BY <1>3, FS_EmptySet DEF ActiveCountExact
  <1> QED
    BY <1>1, <1>2, <1>4 DEF IInv

\* Every step of the proxy keeps the invariant.
LEMMA NextKeepsInvariant == IInv /\ [Next]_vars => IInv'
  <1> SUFFICES ASSUME IInv, [Next]_vars PROVE IInv'
    OBVIOUS
  <1>1. ASSUME NEW r \in Req, RequestStep(r), UNCHANGED <<monitorVars, adminVars>>
        PROVE  IInv'
    BY <1>1, RequestStepKeepsInvariant
  <1>2. ASSUME NEW t \in Admin, AdminStep(t), UNCHANGED requestVars
        PROVE  IInv'
    BY <1>2, AdminStepKeepsInvariant
  <1>3. CASE MonitorStep /\ UNCHANGED <<adminVars, requestVars>>
    BY <1>3, MonitorStepKeepsInvariant
  <1>4. ASSUME NEW a \in Addr, BreakerTimeout(a),
               UNCHANGED <<monitorVars, adminVars, requestVars>>
        PROVE  IInv'
    <2>1. breaker' \in [Addr -> Breaker]
      BY <1>4, BreakerOpsType DEF BreakerTimeout, IInv, TypeOK, RegistryTypeOK
    <2> QED
      BY <1>4, <2>1, StatusChangeKeepsInvariant
         DEF BreakerTimeout, IInv, TypeOK, RegistryTypeOK, MonitorTypeOK, AdminTypeOK,
             TaskTargets, UnregisteredNotDraining, monitorVars, adminVars
  <1>5. CASE UNCHANGED vars
    BY <1>5, StatusChangeKeepsInvariant
       DEF vars, registryVars, monitorVars, adminVars, IInv, TypeOK, RegistryTypeOK,
           MonitorTypeOK, AdminTypeOK, TaskTargets, UnregisteredNotDraining
  <1> QED
    BY <1>1, <1>2, <1>3, <1>4, <1>5 DEF Next

\* The inductive invariant holds in every reachable state.
THEOREM Invariance == Spec => []IInv
  BY InitEstablishesInvariant, NextKeepsInvariant, PTL DEF Spec

\* Every variable keeps its type, whatever the interleaving.
THEOREM TypeCorrect == Spec => []TypeOK
  <1>1. IInv => TypeOK
    BY DEF IInv
  <1> QED
    BY <1>1, Invariance, PTL

\* active_request_count, which a removal waits on, is the number of requests
\* that hold a reservation, on every path through the handlers.  It may be too
\* low, never too high, while requests are in flight on an instance one of whose
\* answers could not be rendered and was given back twice.
THEOREM CountsAreExact == Spec => []ActiveCountExact
  <1>1. IInv => ActiveCountExact
    BY DEF IInv
  <1> QED
    BY <1>1, Invariance, PTL

\* No instance is removed or re-registered under a request that uses it, except
\* one whose count was given back twice (completions.py:1125).
THEOREM NeverRemovedInUse == Spec => []HeldAreRegistered
  <1>1. IInv => HeldAreRegistered
    BY DEF IInv
  <1> QED
    BY <1>1, Invariance, PTL

\* A completion request that changes what it holds on a draining instance
\* lets go of it: the lookups that pick instances skip draining ones.
LEMMA RequestsLeaveDraining ==
    ASSUME IInv, NEW r \in Req, RequestStep(r), NEW a \in Addr, status[a] = "draining"
    PROVE  /\ Holders(a)' \subseteq Holders(a)
           /\ status'[a] = "draining"
  <1> USE DEF IInv
  <1>types. CompletionsTypeOK
    BY DEF TypeOK
  <1>1. ASSUME OthersKeep(r), Holds(r, a)' => Holds(r, a)
        PROVE  Holders(a)' \subseteq Holders(a)
    BY <1>1 DEF Holders, Holds, OthersKeep
  <1>2. ASSUME NEW p \in Addr, NEW d \in Addr, Schedule(r, p, d)
        PROVE  OthersKeep(r) /\ (Holds(r, a)' => Holds(r, a)) /\ status' = status
    <2>1. p # a /\ d # a
      BY <1>2 DEF Schedule, Available
    <2> QED
      BY <1>types, <1>2, <2>1 DEF Schedule, OthersKeep, Holds, CompletionsTypeOK
  <1>3. ASSUME NEW p \in Addr \cup {NoAddr}, NEW d \in Addr \cup {NoAddr},
               ScheduleUndone(r, p, d)
        PROVE  OthersKeep(r) /\ (Holds(r, a)' => Holds(r, a)) /\ status' = status
    BY <1>3 DEF ScheduleUndone, OthersKeep, Holds, requestVars, reservationVars
  <1>4. ASSUME NEW b \in Addr, ScheduleAggregated(r, b)
        PROVE  OthersKeep(r) /\ (Holds(r, a)' => Holds(r, a)) /\ status' = status
    <2>1. b # a
      BY <1>4 DEF ScheduleAggregated, Available
    <2> QED
      BY <1>types, <1>4, <2>1 DEF ScheduleAggregated, OthersKeep, Holds, CompletionsTypeOK
  <1>5. CASE PrefillDone(r) \/ HandoffDone(r)
    BY <1>1, <1>5 DEF PrefillDone, HandoffDone, OthersKeep, Holds, registryVars,
       reservationVars
  <1>6. CASE StartDecode(r)
    <2>1. OthersKeep(r) /\ (Holds(r, a)' => Holds(r, a)) /\ status' = status
      BY <1>types, <1>6 DEF StartDecode, Release, OthersKeep, Holds, CompletionsTypeOK
    <2> QED
      BY <1>1, <2>1
  <1>7. ASSUME NEW ph, NEW k, Ends(r, ph, k)
        PROVE  OthersKeep(r) /\ ~Holds(r, a)'
    BY <1>types, <1>7, RequestAssumption DEF Ends, OthersKeep, Holds, CompletionsTypeOK
  <1>8. CASE \/ HandoffFails(r) \/ BodyEnds(r)
             \/ \E trips : PrefillFails(r, trips) \/ BodyFails(r, trips)
             \/ \E b \in BOOLEAN : AggregatedEnds(r, b) \/ AggregatedGone(r, b)
             \/ \E trips : AggregatedFails(r, trips)
             \/ \E trips, ok : AggregatedUnrenderable(r, ok, trips)
    <2>1. status' = status /\ \E ph, k : Ends(r, ph, k)
      BY <1>8 DEF HandoffFails, BodyEnds, PrefillFails, BodyFails, AggregatedEnds,
         AggregatedFails, AggregatedUnrenderable, AggregatedGone, Release, registryVars
    <2> QED
      BY <1>1, <1>7, <2>1
  <1> QED
    BY <1>1, <1>2, <1>3, <1>4, <1>5, <1>6, <1>8 DEF RequestStep, RequestProgress

\* A draining instance leaves the draining state only by being removed.
LEMMA AdminLeavesDraining ==
    ASSUME IInv, NEW t \in Admin, AdminStep(t), NEW a \in Addr, status[a] = "draining"
    PROVE  status'[a] = "draining" \/ role'[a] = "none"
  <1> USE DEF IInv
  <1>types. RegistryTypeOK
    BY DEF TypeOK
  <1>1. CASE registryVars' = registryVars
    BY <1>1 DEF registryVars
  <1>2. CASE AddLocked(t)
    <2>1. CASE task[t].addr = a
      <3>1. a \in Registered
        BY DEF UnregisteredNotDraining, Registered
      <3> QED
        BY <1>2, <2>1, <3>1 DEF AddLocked, registryVars
    <2>2. CASE task[t].addr # a
      BY <1>types, <1>2, <2>2 DEF AddLocked, Add, RegistryTypeOK, registryVars
    <2> QED
      BY <2>1, <2>2
  <1>3. CASE RemoveIdle(t) \/ DrainDone(t)
    BY <1>types, <1>3 DEF RemoveIdle, DrainDone, RemoveEverywhere, Remove, RegistryTypeOK
  <1>4. CASE StartDrain(t)
    BY <1>types, <1>4 DEF StartDrain, BeginDraining, RegistryTypeOK
  <1> QED
    BY <1>1, <1>2, <1>3, <1>4
       DEF AdminStep, RequestAdd, RequestRemove, Validated, RemoveRefused, DrainTimeout

\* From the moment it is draining an instance gets no new request and is
\* never back in rotation: removal is the only way out.
THEOREM DrainingNeverResumes == Spec => DrainingIsFinal
  <1>1. IInv /\ [Next]_vars => [DrainingStaysOut]_vars
    <2> SUFFICES ASSUME IInv, Next, NEW a \in Addr, status[a] = "draining"
                 PROVE  /\ Holders(a)' \subseteq Holders(a)
                        /\ status'[a] = "draining" \/ role'[a] = "none"
      BY DEF DrainingStaysOut
    <2>1. ASSUME UNCHANGED requestVars
          PROVE  Holders(a)' = Holders(a)
      BY <2>1 DEF Holders, Holds, requestVars, reservationVars
    <2>2. CASE \E r \in Req : RequestStep(r)
      BY <2>2, RequestsLeaveDraining
    <2>3. CASE \E t \in Admin : AdminStep(t) /\ UNCHANGED requestVars
      BY <2>1, <2>3, AdminLeavesDraining
    <2>4. CASE MonitorStep /\ UNCHANGED <<adminVars, requestVars>>
      BY <2>1, <2>4 DEF MonitorStep, ProbeAll, ProbeResult, Mark, registryVars, IInv,
         TypeOK, RegistryTypeOK
    <2>5. CASE \E b \in Addr : BreakerTimeout(b)
                  /\ UNCHANGED <<monitorVars, adminVars, requestVars>>
      BY <2>1, <2>5 DEF BreakerTimeout
    <2> QED
      BY <2>2, <2>3, <2>4, <2>5 DEF Next
  <1> QED
    BY <1>1, Invariance, PTL DEF Spec, DrainingIsFinal
-----------------------------------------------------------------------------
(* The gauges and the monitor's list *)

\* A gauge that counts the requests in the phases of P moves from g to h as
\* r enters or leaves them.
GaugeFollows(r, P, g, h) ==
    /\ (phase[r] \in P <=> phase'[r] \in P) => h = g
    /\ phase[r] \notin P /\ phase'[r] \in P => h = g + 1
    /\ phase[r] \in P /\ phase'[r] \notin P => h = g - 1

\* Such a gauge stays the number of the requests in these phases.
LEMMA GaugeStep ==
    ASSUME NEW r \in Req, NEW P, NEW g, NEW h,
           \A q \in Req : q # r => phase'[q] = phase[q],
           g = Cardinality(InPhase(P)), GaugeFollows(r, P, g, h)
    PROVE  h = Cardinality(InPhase(P)')
  <1> DEFINE S == InPhase(P)
             T == InPhase(P)'
  <1>1. IsFiniteSet(S)
    BY RequestAssumption, FS_Subset DEF InPhase
  <1>2. (r \in S <=> phase[r] \in P) /\ (r \in T <=> phase'[r] \in P)
    BY DEF InPhase
  <1>3. \A q : q # r => (q \in S <=> q \in T)
    BY DEF InPhase
  <1>4. Cardinality(S) = g
    OBVIOUS
  <1> HIDE DEF S, T
  <1>5. /\ r \in S /\ r \in T => Cardinality(T) = Cardinality(S)
        /\ r \notin S /\ r \notin T => Cardinality(T) = Cardinality(S)
        /\ r \notin S /\ r \in T => Cardinality(T) = Cardinality(S) + 1
        /\ r \in S /\ r \notin T => Cardinality(T) = Cardinality(S) - 1
    BY <1>1, <1>3, CardinalityStep
  <1>6. h = Cardinality(T)
    BY <1>2, <1>4, <1>5 DEF GaugeFollows
  <1> QED
    BY <1>6 DEF T

\* On each path through a handler the three gauges follow the phase of the
\* request.
LEMMA RequestMovesGauges ==
    ASSUME CompletionsTypeOK, NEW r \in Req, RequestStep(r)
    PROVE  /\ \A q \in Req : q # r => phase'[q] = phase[q]
           /\ GaugeFollows(r, Phase \ AtRest, requestGauge + drift, requestGauge' + drift')
           /\ GaugeFollows(r, {"prefill"}, prefillGauge, prefillGauge')
           /\ GaugeFollows(r, {"handoff", "body", "decode"}, decodeGauge, decodeGauge')
  <1> USE DEF CompletionsTypeOK, GaugeFollows, Phase, AtRest
  <1>1. CASE \E p, d \in Addr : Schedule(r, p, d)
    BY <1>1 DEF Schedule
  <1>2. CASE \E p, d \in Addr \cup {NoAddr} : ScheduleUndone(r, p, d)
    BY <1>2 DEF ScheduleUndone, requestVars, gaugeVars
  <1>3. CASE \E a \in Addr : ScheduleAggregated(r, a)
    BY <1>3 DEF ScheduleAggregated
  <1>4. CASE PrefillDone(r)
    BY <1>4 DEF PrefillDone
  <1>5. CASE HandoffDone(r)
    BY <1>5 DEF HandoffDone, gaugeVars
  <1>6. CASE HandoffFails(r)
    BY <1>6 DEF HandoffFails, Ends
  <1>7. CASE StartDecode(r)
    BY <1>7 DEF StartDecode, gaugeVars
  <1>8. CASE BodyEnds(r)
    BY <1>8 DEF BodyEnds, Ends
  <1>9. CASE \E b \in BOOLEAN : AggregatedEnds(r, b) \/ AggregatedGone(r, b)
    BY <1>9 DEF AggregatedEnds, AggregatedGone, Ends
  <1>10. CASE \E trips : PrefillFails(r, trips)
    BY <1>10 DEF PrefillFails, Ends
  <1>11. CASE \E trips : BodyFails(r, trips)
    BY <1>11 DEF BodyFails, Ends
  <1>12. CASE \E trips : AggregatedFails(r, trips)
    BY <1>12 DEF AggregatedFails, Ends
  <1>13. CASE \E trips, ok : AggregatedUnrenderable(r, ok, trips)
    BY <1>13 DEF AggregatedUnrenderable, Ends
  <1> QED
    BY <1>1, <1>2, <1>3, <1>4, <1>5, <1>6, <1>7, <1>8, <1>9, <1>10, <1>11, <1>12, <1>13
       DEF RequestStep, RequestProgress

\* Every step keeps the gauges balanced; only requests touch them.
LEMMA NextKeepsGauges == IInv /\ GaugesBalanced /\ [Next]_vars => GaugesBalanced'
  <1> SUFFICES ASSUME IInv, GaugesBalanced, [Next]_vars PROVE GaugesBalanced'
    OBVIOUS
  <1>1. ASSUME NEW r \in Req, RequestStep(r) PROVE GaugesBalanced'
    <2>1. CompletionsTypeOK
      BY DEF IInv, TypeOK
    <2>2. requestGauge' = Cardinality(InPhase(Phase \ AtRest)') - drift'
      <3>1. IsFiniteSet(InPhase(Phase \ AtRest))
        BY RequestAssumption, FS_Subset DEF InPhase
      <3>2. requestGauge + drift = Cardinality(InPhase(Phase \ AtRest))
        BY <2>1, <3>1, FS_CardinalityType DEF GaugesBalanced, CompletionsTypeOK
      <3>3. requestGauge' + drift' = Cardinality(InPhase(Phase \ AtRest)')
        BY <1>1, <2>1, <3>2, RequestMovesGauges, GaugeStep
      <3>4. requestGauge' \in Int /\ drift' \in Int
        BY NextKeepsInvariant DEF IInv, TypeOK, CompletionsTypeOK
      <3> QED
        BY <3>3, <3>4
    <2>3. prefillGauge' = Cardinality(InPhase({"prefill"})')
      BY <1>1, <2>1, RequestMovesGauges, GaugeStep DEF GaugesBalanced
    <2>4. decodeGauge' = Cardinality(InPhase({"handoff", "body", "decode"})')
      BY <1>1, <2>1, RequestMovesGauges, GaugeStep DEF GaugesBalanced
    <2> QED
      BY <2>2, <2>3, <2>4 DEF GaugesBalanced
  <1>2. CASE UNCHANGED requestVars
    BY <1>2 DEF GaugesBalanced, InPhase, requestVars, gaugeVars
  <1> QED
    BY <1>1, <1>2 DEF Next, vars

\* Each gauge of the metrics endpoint is the number of requests in its stage, on
\* every path through the handlers; the request gauge is off by exactly what
\* answers that cannot be rendered and bodies whose instance is gone made it.
THEOREM GaugesAreExact == Spec => []GaugesBalanced
  <1>1. Init => GaugesBalanced
    <2> SUFFICES ASSUME Init PROVE GaugesBalanced
      OBVIOUS
    <2>1. /\ InPhase(Phase \ AtRest) = {}
          /\ InPhase({"prefill"}) = {}
          /\ InPhase({"handoff", "body", "decode"}) = {}
      BY DEF Init, CompletionsInit, InPhase, AtRest
    <2>2. Cardinality({}) = 0
      BY FS_EmptySet
    <2> QED
      BY <2>1, <2>2 DEF Init, CompletionsInit, GaugesBalanced
  <1> QED
    BY <1>1, NextKeepsGauges, Invariance, PTL DEF Spec

\* A completion request changes no role.
LEMMA RequestKeepsRoles ==
    ASSUME NEW r \in Req, RequestStep(r)
    PROVE  role' = role
  BY DEF RequestStep, RequestProgress, Schedule, ScheduleUndone, ScheduleAggregated,
         PrefillDone, HandoffDone, HandoffFails, StartDecode, BodyEnds,
         AggregatedEnds, PrefillFails, BodyFails, AggregatedFails,
         AggregatedUnrenderable, AggregatedGone, Release, registryVars

\* Addition and removal change the registry and the monitor's list together.
LEMMA NextKeepsMonitor ==
    IInv /\ MonitorCoversRegistry /\ [Next]_vars => MonitorCoversRegistry'
  <1> SUFFICES ASSUME IInv, MonitorCoversRegistry, [Next]_vars
               PROVE  MonitorCoversRegistry'
    OBVIOUS
  <1>types. role \in [Addr -> Role \cup {"none"}]
    BY DEF IInv, TypeOK, RegistryTypeOK
  <1>1. ASSUME UNCHANGED <<role, nodes>> PROVE MonitorCoversRegistry'
    BY <1>1 DEF MonitorCoversRegistry, Registered
  <1>2. ASSUME NEW r \in Req, RequestStep(r), UNCHANGED <<monitorVars, adminVars>>
        PROVE  MonitorCoversRegistry'
    BY <1>1, <1>2, RequestKeepsRoles DEF monitorVars
  <1>3. ASSUME NEW t \in Admin, AdminStep(t) PROVE MonitorCoversRegistry'
    <2> DEFINE a == task[t].addr
    <2>1. task[t].op # "idle" => a \in Addr /\ task[t].role \in Role
      BY DEF IInv, TaskTargets
    <2>2. CASE AddLocked(t)
      <3>1. a \in Addr /\ task[t].role \in Role
        BY <2>1, <2>2 DEF AddLocked
      <3>2. CASE a \in Registered
        BY <1>1, <2>2, <3>2 DEF AddLocked, registryVars
      <3>3. CASE a \notin Registered
        <4>1. /\ role' = [role EXCEPT ![a] = task[t].role]
              /\ nodes' = IF MonitorEnabled THEN nodes \cup {a} ELSE nodes
          BY <2>2, <3>3 DEF AddLocked, Add
        <4>2. Registered' = Registered \cup {a}
          BY <1>types, <3>1, <4>1 DEF Registered, Role
        <4> QED
          BY <4>1, <4>2 DEF MonitorCoversRegistry
      <3> QED
        BY <3>2, <3>3
    <2>3. CASE RemoveIdle(t) \/ DrainDone(t)
      <3>1. /\ a \in Addr
            /\ role' = [role EXCEPT ![a] = "none"]
            /\ nodes' = nodes \ {a}
        BY <2>1, <2>3 DEF RemoveIdle, DrainDone, RemoveEverywhere, Remove
      <3>2. Registered' = Registered \ {a}
        BY <1>types, <3>1 DEF Registered
      <3> QED
        BY <3>1, <3>2 DEF MonitorCoversRegistry
    <2> QED
      BY <1>1, <1>3, <2>2, <2>3
         DEF AdminStep, RequestAdd, RequestRemove, Validated, RemoveRefused,
             StartDrain, BeginDraining, DrainTimeout, registryVars, monitorVars
  <1>4. CASE MonitorStep
    BY <1>1, <1>4 DEF MonitorStep, ProbeAll, ProbeResult, Mark, registryVars
  <1>5. CASE \E a \in Addr : BreakerTimeout(a) /\ UNCHANGED monitorVars
    BY <1>1, <1>5 DEF BreakerTimeout, monitorVars
  <1>6. CASE UNCHANGED vars
    BY <1>1, <1>6 DEF vars, registryVars, monitorVars
  <1> QED
    BY <1>2, <1>3, <1>4, <1>5, <1>6 DEF Next

\* The health monitor probes exactly the registered instances: none is
\* forgotten, and a removed one is not probed for ever.
THEOREM MonitorAlwaysCovers == Spec => []MonitorCoversRegistry
  <1>1. Init => MonitorCoversRegistry
    BY DEF Init, MonitorCoversRegistry
  <1> QED
    BY <1>1, NextKeepsMonitor, Invariance, PTL DEF Spec
=============================================================================
