------------------------ MODULE ModelRouting_proofs ------------------------
(***************************************************************************)
(* The lists, the cached policies and the registry stay in step, for any   *)
(* number of instances and models, although a removal goes by the model it *)
(* read before the drain and a policy by the instances it was built from.  *)
(***************************************************************************)
EXTENDS ModelRouting, CollectionFacts

\* One list without repetitions for each name.
ListsAreLists == /\ listed \in [Name -> Seq(Addr)]
                 /\ \A n \in Name : IsInjective(listed[n])

\* get_from_instance goes by the lists and misses nobody.
RegisteredAreListed == Registered \subseteq AllListed

\* The model a removal read is still the one of its instance, or there was
\* none and it was detected since; then no named list has the instance.
RemovalInStep ==
    removal # Idle =>
        /\ status[removal.addr] = "draining"
        /\ \/ removal.model = model[removal.addr]
           \/ /\ removal.model = NoName
              /\ removal.addr \in strays
              /\ \A m \in Model : removal.addr \notin ToSet(listed[m])

\* A cached policy lacks only instances that were detected after it was built.
PoliciesCover ==
    \A m \in built \ {NoName} : RegisteredFor(m) \ workers[m] \subseteq late

\* The inductive invariant.
RoutingInv ==
    /\ RoutingTypeOK /\ ListsAreLists
    /\ RegisteredAreListed /\ RemovalInStep
    /\ NamedListsExact /\ NoStrangers /\ PoliciesCover
-----------------------------------------------------------------------------
\* The configuration names finitely many addresses.
LEMMA AddrFinite == IsFiniteSet(Addr) /\ Cardinality(Addr) \in Nat
  <1>1. Order \in Seq(Addr) /\ Len(Order) \in Nat /\ DOMAIN Order = 1 .. Len(Order)
    BY RoutingAssumption, LenProperties
  <1>2. IsFiniteSet(1 .. Len(Order))
    BY <1>1, FS_Interval
  <1>3. Order \in Surjection(1 .. Len(Order), Addr)
    BY <1>1, RoutingAssumption, ElementOfSeq DEF Surjection, ToSet
  <1>4. IsFiniteSet(Addr)
    BY <1>2, <1>3, FS_Surjection
  <1> QED
    BY <1>4, FS_CardinalityType

\* A list without repetitions is no longer than the addresses are many.
LEMMA InjectiveBound ==
    ASSUME NEW s \in Seq(Addr), IsInjective(s)
    PROVE  Len(s) \in 0 .. Cardinality(Addr)
  <1>1. Len(s) \in Nat /\ DOMAIN s = 1 .. Len(s) /\ s \in [1 .. Len(s) -> Addr]
    BY LenProperties, ElementOfSeq
  <1>2. s \in Injection(1 .. Len(s), Addr)
    BY <1>1 DEF Injection, IsInjective
  <1>3. Cardinality(1 .. Len(s)) <= Cardinality(Addr)
    BY <1>2, AddrFinite, FS_Injection
  <1>4. Cardinality(1 .. Len(s)) = Len(s)
    BY <1>1, FS_Interval
  <1> QED
    BY <1>1, <1>3, <1>4, AddrFinite

\* get_aggregated_instances: who is registered, up and of the model.
LEMMA AvailableFacts ==
    ASSUME RoutingTypeOK, NEW m
    PROVE  /\ AvailableFor(m) \in Seq(Addr)
           /\ IsInjective(AvailableFor(m))
           /\ ToSet(AvailableFor(m)) =
                 {a \in Registered : status[a] = "up" /\ (m = NoName \/ model[a] = m)}
           /\ Len(AvailableFor(m)) \in 0 .. Cardinality(Addr)
           /\ AvailableFor(m) # << >> =>
                 Len(AvailableFor(m)) > 0 /\ ToSet(AvailableFor(m)) # {}
           /\ AvailableFor(m) = << >> => ToSet(AvailableFor(m)) = {}
  <1> DEFINE P == {a \in Addr : status[a] = "up" /\ (m = NoName \/ model[a] = m)}
             s == AvailableFor(m)
  <1>1. registry \in Seq(Addr) /\ IsInjective(registry) /\ Registered \subseteq Addr
    BY ElementOfSeq, LenProperties DEF RoutingTypeOK, Registered, ToSet
  <1>2. s = Where(registry, P)
    BY DEF AvailableFor
  <1> HIDE DEF P
  <1>3. s \in Seq(Addr) /\ IsInjective(s) /\ ToSet(s) = Registered \cap P
    BY <1>1, <1>2, WhereFacts DEF Registered
  <1>4. Len(s) \in 0 .. Cardinality(Addr)
    BY <1>3, InjectiveBound
  <1>5. s # << >> => Len(s) > 0 /\ ToSet(s) # {}
    BY <1>3, EmptySeq, LenProperties DEF ToSet
  <1>6. s = << >> => ToSet(s) = {}
    BY DEF ToSet
  <1> QED
    BY <1>1, <1>3, <1>4, <1>5, <1>6 DEF P

\* The instances of a model that has a name are registered under it.
LEMMA InstancesFacts ==
    ASSUME NamedListsExact, NEW m \in Model
    PROVE  InstancesFor(m) = RegisteredFor(m)
  BY DEF NamedListsExact, InstancesFor
-----------------------------------------------------------------------------
\* The configured lists are exact, and no policy is cached.
LEMMA InitRouting == Init => RoutingInv
  <1> SUFFICES ASSUME Init PROVE RoutingInv
    OBVIOUS
  <1>1. PICK C \in (SUBSET Addr) \ {{}}, U \in SUBSET Nameless :
             /\ registry = Where(Order, C)
             /\ model = [a \in Addr |-> CASE a \notin C -> NoModel
                                          [] a \in C \cap U -> NoName
                                          [] a \in C \ U -> Serves[a]]
    BY DEF Init
  <1>2. registry \in Seq(Addr) /\ IsInjective(registry) /\ Registered = C
    <2>1. Order \in Seq(Addr) /\ ToSet(Order) = Addr /\ IsInjective(Order)
      BY RoutingAssumption
    <2>2. /\ Where(Order, C) \in Seq(Addr) /\ IsInjective(Where(Order, C))
          /\ ToSet(Where(Order, C)) = ToSet(Order) \cap C
      BY <2>1, WhereFacts
    <2> QED
      BY <1>1, <2>1, <2>2 DEF Registered
  <1>3. \A a \in Addr : /\ a \notin C => model[a] = NoModel
                        /\ a \in C => model[a] \in Name
    BY <1>1, RoutingAssumption DEF Name
  <1>4. model \in [Addr -> Name \cup {NoModel}]
        /\ \A a \in Addr : model[a] = NoModel <=> a \notin Registered
    BY <1>1, <1>2, <1>3, RoutingAssumption DEF Name
  <1>5. ASSUME NEW n \in Name
        PROVE  /\ listed[n] \in Seq(Addr) /\ IsInjective(listed[n])
               /\ ToSet(listed[n]) = RegisteredFor(n)
    <2>1. listed[n] = Where(registry, {a \in Addr : model[a] = n})
      BY DEF Init
    <2> QED
      BY <1>2, <2>1, WhereFacts DEF RegisteredFor, Registered
  <1>6. ListsAreLists
    BY <1>5 DEF Init, ListsAreLists
  <1>7. RoutingTypeOK
    <2>1. counter \in [Name -> 0 .. Cardinality(Addr)]
      BY AddrFinite DEF Init
    <2> QED
      BY <1>2, <1>4, <1>5, <2>1, RoutingAssumption DEF Init, RoutingTypeOK
  <1>8. RegisteredAreListed
    BY <1>2, <1>3, <1>5 DEF RegisteredAreListed, AllListed, RegisteredFor
  <1>9. RemovalInStep /\ NoStrangers /\ PoliciesCover
    BY DEF Init, RemovalInStep, NoStrangers, PoliciesCover
  <1>10. NamedListsExact
    BY <1>5 DEF NamedListsExact, Name
  <1> QED
    BY <1>6, <1>7, <1>8, <1>9, <1>10 DEF RoutingInv

\* A request moves the counter of its model, and may build its policy.
LEMMA PolicyUsedKeeps ==
    ASSUME RoutingInv, NEW m \in Name, PolicyUsed(m), active' \in [Addr -> Nat],
           UNCHANGED <<registry, model, status, listed, strategy, downgraded,
                       removal, adding, late, strays>>
    PROVE  RoutingInv'
  <1>1. RoutingTypeOK /\ ListsAreLists /\ NamedListsExact /\ NoStrangers /\ PoliciesCover
    BY DEF RoutingInv
  <1>2. counter' \in [Name -> 0 .. Cardinality(Addr)]
    <2>1. CASE AvailableFor(m) # << >>
      <3>1. CounterAfter(m) \in 0 .. Cardinality(Addr)
        <4> DEFINE n == Len(AvailableFor(m))
        <4>1. n \in 1 .. Cardinality(Addr) /\ Cardinality(Addr) \in Nat /\ counter[m] \in Nat
          BY <1>1, <2>1, AvailableFacts, AddrFinite DEF RoutingTypeOK
        <4>2. CounterAfter(m) = (counter[m] % n) + 1
          BY DEF CounterAfter
        <4> HIDE DEF n
        <4>3. counter[m] % n \in 0 .. n - 1
          BY <4>1
        <4> QED
          BY <4>1, <4>2, <4>3
      <3> QED
        BY <1>1, <3>1 DEF PolicyUsed, RoutingTypeOK
    <2>2. CASE AvailableFor(m) = << >>
      BY <1>1, <2>2 DEF PolicyUsed, RoutingTypeOK
    <2> QED
      BY <2>1, <2>2
  <1>3. InstancesFor(m) \subseteq Addr /\ (m \in Model => InstancesFor(m) = RegisteredFor(m))
    <2>1. ToSet(listed[m]) \subseteq Addr /\ Registered \subseteq Addr
      BY <1>1, ElementOfSeq, LenProperties, SMTT(20)
         DEF RoutingTypeOK, ListsAreLists, Registered, ToSet
    <2> QED
      BY <1>1, <2>1, InstancesFacts DEF InstancesFor, RegisteredFor
  <1>4. /\ WorkersOf(m) \subseteq Addr
        /\ m \in built => WorkersOf(m) = workers[m]
        /\ m \in Model \ built => WorkersOf(m) = RegisteredFor(m)
    BY <1>1, <1>3 DEF WorkersOf, RoutingTypeOK
  <1>5. /\ \/ built' = built /\ workers' = workers
           \/ built' = built \cup {m} /\ workers' = [workers EXCEPT ![m] = WorkersOf(m)]
    BY DEF PolicyUsed
  <1>6. /\ workers' \in [Name -> SUBSET Addr] /\ built' \subseteq Name
        /\ \A k \in built' : \/ k \in built /\ workers'[k] = workers[k]
                             \/ k = m /\ workers'[k] = WorkersOf(m)
    <2>1. workers \in [Name -> SUBSET Addr] /\ built \subseteq Name
      BY <1>1 DEF RoutingTypeOK
    <2>2. CASE built' = built /\ workers' = workers
      BY <2>1, <2>2
    <2>3. CASE built' = built \cup {m} /\ workers' = [workers EXCEPT ![m] = WorkersOf(m)]
      BY <1>4, <2>1, <2>3
    <2> QED
      BY <1>5, <2>2, <2>3
  <1>7. \A k \in built' \ {NoName} : k \in Model
    BY <1>6 DEF Name
  <1>8. RoutingTypeOK'
    BY <1>1, <1>2, <1>6 DEF RoutingTypeOK, Registered
  <1>9. \A k \in Name : RegisteredFor(k)' = RegisteredFor(k)
    BY DEF RegisteredFor, Registered
  <1>10. ListsAreLists' /\ RegisteredAreListed' /\ RemovalInStep' /\ NamedListsExact'
    BY <1>1 DEF RoutingInv, ListsAreLists, RegisteredAreListed, RemovalInStep,
       NamedListsExact, AllListed, Registered, RegisteredFor
  <1>11. ASSUME NEW k \in built' \ {NoName}
         PROVE  /\ workers'[k] \ RegisteredFor(k) \subseteq strays
                /\ RegisteredFor(k) \ workers'[k] \subseteq late
    <2>1. CASE k \in built /\ workers'[k] = workers[k]
      BY <1>1, <1>11, <2>1 DEF NoStrangers, PoliciesCover
    <2>2. CASE ~(k \in built /\ workers'[k] = workers[k])
      <3>1. k = m /\ workers'[k] = WorkersOf(m)
        BY <1>6, <1>11, <2>2
      <3>2. m \in Model
        BY <1>7, <1>11, <3>1
      <3>3. m \notin built
        BY <1>4, <2>2, <3>1
      <3> QED
        BY <1>4, <3>1, <3>2, <3>3
    <2> QED
      BY <2>1, <2>2
  <1>12. NoStrangers' /\ PoliciesCover'
    BY <1>6, <1>9, <1>11 DEF NoStrangers, PoliciesCover
  <1> QED
    BY <1>8, <1>10, <1>12 DEF RoutingInv

\* Requests that are served or refused.
LEMMA RequestKeeps ==
    ASSUME RoutingInv, NEW m \in Name, Serve(m) \/ Refuse(m)
    PROVE  RoutingInv'
  <1>1. active \in [Addr -> Nat]
    BY DEF RoutingInv, RoutingTypeOK
  <1>2. active' \in [Addr -> Nat] /\ PolicyUsed(m)
    <2>1. CASE Serve(m)
      <3>1. PICK a \in Selectable(m) : active' = [active EXCEPT ![a] = @ + 1]
        BY <2>1 DEF Serve
      <3>2. active' \in [Addr -> Nat]
        <4>1. CASE a \in Addr
          BY <1>1, <3>1, <4>1
        <4>2. CASE a \notin Addr
          BY <1>1, <3>1, <4>2
        <4> QED
          BY <4>1, <4>2
      <3> QED
        BY <2>1, <3>2 DEF Serve
    <2>2. CASE Refuse(m)
      BY <1>1, <2>2 DEF Refuse, registryVars
    <2> QED
      BY <2>1, <2>2
  <1>3. UNCHANGED <<registry, model, status, listed, strategy, downgraded,
                    removal, adding, late, strays>>
    BY DEF Serve, Refuse, registryVars
  <1> QED
    BY <1>2, <1>3, PolicyUsedKeeps

\* Steps that touch neither the lists nor the policies nor a model.
LEMMA QuietKeeps ==
    ASSUME RoutingInv,
           \/ \E a \in Addr : Complete(a) \/ Validate(a) \/ StartRemoval(a)
           \/ \E a \in Flaky : StatusChanges(a)
           \/ \E m \in Untokenized : Downgrade(m)
           \/ AddRefused \/ RemovalTimesOut \/ UNCHANGED vars
    PROVE  RoutingInv'
  <1>1. UNCHANGED <<registry, model, listed, strategy, built, workers, counter, late, strays>>
    BY DEF Complete, Validate, StartRemoval, StatusChanges, Downgrade, AddRefused,
       RemovalTimesOut, vars, registryVars, policyVars
  <1>2. RoutingTypeOK /\ RemovalInStep
    BY DEF RoutingInv
  <1>3. Registered \subseteq Addr /\ Flaky \subseteq Addr /\ NoAddr \notin Addr
        /\ Untokenized \subseteq Model
    BY <1>2, ElementOfSeq, LenProperties, RoutingAssumption DEF RoutingTypeOK, Registered, ToSet
  <1>4. /\ ListsAreLists' /\ RegisteredAreListed' /\ NamedListsExact'
        /\ NoStrangers' /\ PoliciesCover'
    BY <1>1 DEF RoutingInv, ListsAreLists, RegisteredAreListed, NamedListsExact,
       NoStrangers, PoliciesCover, AllListed, Registered, RegisteredFor
  <1>5. ASSUME /\ status' \in [Addr -> {"up", "down", "draining"}]
               /\ active' \in [Addr -> Nat] /\ downgraded' \subseteq Model
               /\ removal' = Idle \/ removal' \in [addr : Registered, model : Name]
               /\ adding' \in Addr \cup {NoAddr}
               /\ RemovalInStep'
        PROVE  RoutingInv'
    <2>1. RoutingTypeOK'
      BY <1>1, <1>2, <1>5 DEF RoutingTypeOK, Registered
    <2> QED
      BY <1>4, <1>5, <2>1 DEF RoutingInv
  <1>6. /\ status \in [Addr -> {"up", "down", "draining"}]
        /\ active \in [Addr -> Nat] /\ downgraded \subseteq Model
        /\ removal = Idle \/ removal \in [addr : Registered, model : Name]
        /\ adding \in Addr \cup {NoAddr}
    BY <1>2 DEF RoutingTypeOK
  <1>7. ASSUME UNCHANGED <<status, removal>> PROVE RemovalInStep'
    BY <1>1, <1>2, <1>7 DEF RemovalInStep
  <1>8. ASSUME NEW a \in Addr, Complete(a) PROVE RoutingInv'
    BY <1>5, <1>6, <1>7, <1>8 DEF Complete
  <1>9. ASSUME NEW a \in Addr, Validate(a) PROVE RoutingInv'
    BY <1>5, <1>6, <1>7, <1>9 DEF Validate, registryVars
  <1>10. ASSUME NEW a \in Addr, StartRemoval(a) PROVE RoutingInv'
    <2>1. a \in Registered /\ model[a] \in Name
      BY <1>2, <1>10 DEF StartRemoval, RoutingTypeOK
    <2>2. /\ removal' \in [addr : Registered, model : Name]
          /\ removal'.addr = a /\ removal'.model = model[a]
      BY <1>10, <2>1 DEF StartRemoval
    <2>3. status' \in [Addr -> {"up", "down", "draining"}] /\ status'[a] = "draining"
      BY <1>6, <1>10 DEF StartRemoval
    <2>4. RemovalInStep'
      BY <1>1, <2>2, <2>3 DEF RemovalInStep
    <2> QED
      BY <1>5, <1>6, <1>10, <2>2, <2>3, <2>4 DEF StartRemoval
  <1>11. ASSUME NEW a \in Flaky, StatusChanges(a) PROVE RoutingInv'
    <2>1. status' \in [Addr -> {"up", "down", "draining"}]
      BY <1>3, <1>6, <1>11 DEF StatusChanges
    <2>2. \A b \in Addr : status[b] = "draining" => status'[b] = "draining"
      BY <1>3, <1>6, <1>11 DEF StatusChanges
    <2>3. removal # Idle => removal.addr \in Addr
      BY <1>3, <1>6
    <2>4. RemovalInStep'
      BY <1>1, <1>2, <1>11, <2>2, <2>3 DEF StatusChanges, RemovalInStep
    <2> QED
      BY <1>5, <1>6, <1>11, <2>1, <2>4 DEF StatusChanges
  <1>12. ASSUME NEW m \in Untokenized, Downgrade(m) PROVE RoutingInv'
    BY <1>3, <1>5, <1>6, <1>7, <1>12 DEF Downgrade, registryVars
  <1>13. ASSUME AddRefused PROVE RoutingInv'
    BY <1>5, <1>6, <1>7, <1>13 DEF AddRefused, registryVars
  <1>14. ASSUME RemovalTimesOut PROVE RoutingInv'
    <2>1. RemovalInStep'
      BY <1>14 DEF RemovalTimesOut, RemovalInStep
    <2> QED
      BY <1>5, <1>6, <1>14, <2>1 DEF RemovalTimesOut, registryVars
  <1>15. ASSUME UNCHANGED vars PROVE RoutingInv'
    BY <1>5, <1>6, <1>7, <1>15 DEF vars, registryVars
  <1> QED
    BY <1>8, <1>9, <1>10, <1>11, <1>12, <1>13, <1>14, <1>15

\* A model is detected: its instance was in no named list.
LEMMA DetectKeeps ==
    ASSUME RoutingInv, NEW a \in Addr, Detect(a)
    PROVE  RoutingInv'
  <1>1. /\ RoutingTypeOK /\ ListsAreLists /\ RegisteredAreListed /\ RemovalInStep
        /\ NamedListsExact /\ NoStrangers /\ PoliciesCover
    BY DEF RoutingInv
  <1>2. /\ model[a] = NoName /\ Serves[a] \in Model /\ NoName \notin Model
        /\ NoModel \notin Name /\ a \in Registered
    BY <1>1, RoutingAssumption DEF Detect, RoutingTypeOK, Name
  <1>3. /\ model' \in [Addr -> Name \cup {NoModel}]
        /\ model'[a] = Serves[a]
        /\ \A b \in Addr \ {a} : model'[b] = model[b]
    BY <1>1, <1>2 DEF Detect, RoutingTypeOK, Name
  <1>4. /\ UNCHANGED <<registry, status, active, listed, strategy, downgraded,
                       built, workers, counter, removal, adding>>
        /\ late \subseteq late' /\ strays \subseteq strays'
        /\ Serves[a] \in built => a \in late'
        /\ status[a] = "draining" => a \in strays'
    BY DEF Detect, policyVars
  <1>5. Registered \subseteq Addr /\ Registered' = Registered
    BY <1>1, <1>4, ElementOfSeq, LenProperties DEF RoutingTypeOK, Registered, ToSet
  <1>6. RoutingTypeOK'
    BY <1>1, <1>2, <1>3, <1>4, <1>5 DEF RoutingTypeOK, Name
  <1>7. \A m \in Model : /\ RegisteredFor(m) \subseteq RegisteredFor(m)'
                         /\ RegisteredFor(m)' \subseteq RegisteredFor(m) \cup {a}
                         /\ m # Serves[a] => RegisteredFor(m)' = RegisteredFor(m)
                         /\ a \notin RegisteredFor(m)
    BY <1>2, <1>3, <1>5 DEF RegisteredFor
  <1>8. ListsAreLists' /\ RegisteredAreListed'
    BY <1>1, <1>4, <1>5 DEF ListsAreLists, RegisteredAreListed, AllListed
  <1>9. NamedListsExact'
    BY <1>1, <1>4, <1>7 DEF NamedListsExact
  <1>10. \A m \in built \ {NoName} : m \in Model
    BY <1>1 DEF RoutingTypeOK, Name
  <1>11. NoStrangers'
    BY <1>1, <1>4, <1>7, <1>10 DEF NoStrangers
  <1>12. PoliciesCover'
    BY <1>1, <1>4, <1>7, <1>10 DEF PoliciesCover
  <1>13. RemovalInStep'
    <2> SUFFICES ASSUME removal # Idle
                 PROVE  /\ status[removal.addr] = "draining"
                        /\ \/ removal.model = model'[removal.addr]
                           \/ /\ removal.model = NoName
                              /\ removal.addr \in strays'
                              /\ \A m \in Model : removal.addr \notin ToSet(listed[m])
      BY <1>4 DEF RemovalInStep
    <2>1. removal.addr \in Addr /\ status[removal.addr] = "draining"
      BY <1>1, <1>5 DEF RoutingTypeOK, RemovalInStep
    <2>2. CASE removal.addr # a
      BY <1>1, <1>3, <1>4, <2>1, <2>2 DEF RemovalInStep
    <2>3. CASE removal.addr = a
      <3>1. \A m \in Model : a \notin ToSet(listed[m])
        BY <1>1, <1>7 DEF NamedListsExact
      <3>2. removal.model = NoName
        BY <1>1, <1>2, <2>3 DEF RemovalInStep
      <3> QED
        BY <1>4, <2>1, <2>3, <3>1, <3>2
    <2> QED
      BY <2>2, <2>3
  <1> QED
    BY <1>6, <1>8, <1>9, <1>11, <1>12, <1>13 DEF RoutingInv

\* An address that was not registered joins the registry, the list of its
\* model and the policy of its model, if there is one.
LEMMA AddKeeps ==
    ASSUME RoutingInv, Add
    PROVE  RoutingInv'
  <1>1. /\ RoutingTypeOK /\ ListsAreLists /\ RegisteredAreListed
        /\ NamedListsExact /\ NoStrangers /\ PoliciesCover
    BY DEF RoutingInv
  <1>2. PICK a \in Addr : a = adding /\ a \notin Registered
    BY DEF Add
  <1>3. PICK n \in Model : n = Serves[a]
    BY RoutingAssumption
  <1>4. n \in Name /\ NoName \notin Model /\ NoModel \notin Name
    BY RoutingAssumption DEF Name
  <1>5. /\ registry' = Append(registry, a)
        /\ model' = [model EXCEPT ![a] = n]
        /\ listed' = [listed EXCEPT ![n] = Append(listed[n], a)]
        /\ workers' = IF n \in built THEN [workers EXCEPT ![n] = workers[n] \cup {a}]
                      ELSE workers
        /\ adding' = NoAddr /\ removal = Idle
        /\ UNCHANGED <<status, active, strategy, downgraded, built, counter,
                       removal, late, strays>>
    BY <1>2, <1>3 DEF Add, Register
  <1>6. registry' \in Seq(Addr) /\ IsInjective(registry') /\ Registered' = Registered \cup {a}
    BY <1>1, <1>2, <1>5, AppendFacts DEF RoutingTypeOK, Registered
  <1>7. /\ model' \in [Addr -> Name \cup {NoModel}] /\ model'[a] = n
        /\ \A b \in Addr \ {a} : model'[b] = model[b]
    BY <1>1, <1>4, <1>5 DEF RoutingTypeOK
  <1>8. Registered \subseteq Addr
    BY <1>1, ElementOfSeq, LenProperties DEF RoutingTypeOK, Registered, ToSet
  <1>9. \A m \in Model :
            RegisteredFor(m)' = RegisteredFor(m) \cup (IF m = n THEN {a} ELSE {})
    BY <1>2, <1>6, <1>7, <1>8 DEF RegisteredFor
  <1>10. a \notin ToSet(listed[n])
    BY <1>1, <1>2 DEF NamedListsExact, RegisteredFor
  <1>11. /\ listed'[n] \in Seq(Addr) /\ IsInjective(listed'[n])
         /\ ToSet(listed'[n]) = ToSet(listed[n]) \cup {a}
         /\ \A m \in Name \ {n} : listed'[m] = listed[m]
         /\ listed' \in [Name -> Seq(Addr)]
    <2>1. /\ Append(listed[n], a) \in Seq(Addr) /\ IsInjective(Append(listed[n], a))
          /\ ToSet(Append(listed[n], a)) = ToSet(listed[n]) \cup {a}
      BY <1>1, <1>4, <1>10, AppendFacts DEF ListsAreLists
    <2> QED
      BY <1>1, <1>4, <1>5, <2>1 DEF ListsAreLists
  <1>12. ListsAreLists'
    BY <1>1, <1>11 DEF ListsAreLists
  <1>13. /\ workers' \in [Name -> SUBSET Addr]
         /\ \A m \in built : \/ m # n /\ workers'[m] = workers[m]
                             \/ m = n /\ workers'[m] = workers[m] \cup {a}
    <2>1. CASE n \in built
      BY <1>1, <1>4, <1>5, <2>1 DEF RoutingTypeOK
    <2>2. CASE n \notin built
      BY <1>1, <1>5, <2>2 DEF RoutingTypeOK
    <2> QED
      BY <2>1, <2>2
  <1>14. RoutingTypeOK'
    <2>1. \A b \in Addr : (model'[b] = NoModel <=> b \notin Registered')
      BY <1>1, <1>4, <1>6, <1>7 DEF RoutingTypeOK
    <2>2. \A m \in Name : listed'[m] \in Seq(Addr)
      BY <1>11
    <2> QED
      BY <1>1, <1>5, <1>6, <1>7, <1>13, <2>1, <2>2 DEF RoutingTypeOK
  <1>15. RegisteredAreListed'
    <2>1. \A m \in Name : ToSet(listed[m]) \subseteq ToSet(listed'[m])
      BY <1>11
    <2> QED
      BY <1>1, <1>4, <1>6, <1>11, <2>1 DEF RegisteredAreListed, AllListed
  <1>16. RemovalInStep'
    BY <1>5 DEF RemovalInStep
  <1>17. NamedListsExact'
    BY <1>1, <1>4, <1>9, <1>11 DEF NamedListsExact, Name
  <1>18. \A m \in built \ {NoName} : m \in Model
    BY <1>1 DEF RoutingTypeOK, Name
  <1>19. NoStrangers'
    BY <1>1, <1>5, <1>9, <1>13, <1>18 DEF NoStrangers
  <1>20. PoliciesCover'
    BY <1>1, <1>5, <1>9, <1>13, <1>18 DEF PoliciesCover
  <1> QED
    BY <1>12, <1>14, <1>15, <1>16, <1>17, <1>19, <1>20 DEF RoutingInv

\* A drained instance leaves the registry, and the list and the policy of
\* the model that was read before the drain.
LEMMA FinishRemovalKeeps ==
    ASSUME RoutingInv, FinishRemoval
    PROVE  RoutingInv'
  <1>1. /\ RoutingTypeOK /\ ListsAreLists /\ RegisteredAreListed /\ RemovalInStep
        /\ NamedListsExact /\ NoStrangers /\ PoliciesCover
    BY DEF RoutingInv
  <1>2. Registered \subseteq Addr
    BY <1>1, ElementOfSeq, LenProperties DEF RoutingTypeOK, Registered, ToSet
  <1>3. PICK a \in Registered, n \in Name : a = removal.addr /\ n = removal.model
    BY <1>1 DEF FinishRemoval, RoutingTypeOK
  <1>4. /\ registry' = Where(registry, Addr \ {a})
        /\ model' = [model EXCEPT ![a] = NoModel]
        /\ status' = [status EXCEPT ![a] = "up"]
        /\ listed' = [listed EXCEPT ![n] = RemoveFirst(listed[n], a)]
        /\ workers' = [workers EXCEPT ![n] = workers[n] \ {a}]
        /\ late' = late \ {a} /\ removal' = Idle
        /\ UNCHANGED <<active, strategy, downgraded, built, counter, adding, strays>>
    BY <1>3 DEF FinishRemoval, Unregister
  <1>5. registry' \in Seq(Addr) /\ IsInjective(registry') /\ Registered' = Registered \ {a}
    <2>1. /\ registry' \in Seq(Addr) /\ IsInjective(registry')
          /\ ToSet(registry') = ToSet(registry) \cap (Addr \ {a})
      BY <1>1, <1>4, WhereFacts DEF RoutingTypeOK
    <2> QED
      BY <1>2, <2>1 DEF Registered
  <1>6. /\ model' \in [Addr -> Name \cup {NoModel}] /\ model'[a] = NoModel
        /\ \A b \in Addr \ {a} : model'[b] = model[b]
    BY <1>1, <1>2, <1>4 DEF RoutingTypeOK
  <1>7. \A m \in Name : RegisteredFor(m)' = RegisteredFor(m) \ {a}
    BY <1>2, <1>5, <1>6 DEF RegisteredFor
  <1>8. /\ listed'[n] \in Seq(Addr) /\ IsInjective(listed'[n])
        /\ ToSet(listed'[n]) = ToSet(listed[n]) \ {a}
        /\ \A m \in Name \ {n} : listed'[m] = listed[m]
        /\ listed' \in [Name -> Seq(Addr)]
    <2>1. /\ RemoveFirst(listed[n], a) \in Seq(Addr)
          /\ IsInjective(RemoveFirst(listed[n], a))
          /\ ToSet(RemoveFirst(listed[n], a)) = ToSet(listed[n]) \ {a}
      BY <1>1, RemoveFirstFacts DEF ListsAreLists
    <2> QED
      BY <1>1, <1>4, <2>1 DEF ListsAreLists
  <1>9. ListsAreLists'
    BY <1>1, <1>8 DEF ListsAreLists
  <1>10. /\ workers' \in [Name -> SUBSET Addr]
         /\ workers'[n] = workers[n] \ {a}
         /\ \A m \in Name \ {n} : workers'[m] = workers[m]
    BY <1>1, <1>4 DEF RoutingTypeOK
  <1>11. RoutingTypeOK'
    <2>1. \A b \in Addr : (model'[b] = NoModel <=> b \notin Registered')
      BY <1>1, <1>5, <1>6 DEF RoutingTypeOK
    <2>2. \A m \in Name : listed'[m] \in Seq(Addr)
      BY <1>8
    <2>3. status' \in [Addr -> {"up", "down", "draining"}]
      BY <1>1, <1>4 DEF RoutingTypeOK
    <2> QED
      BY <1>1, <1>4, <1>5, <1>6, <1>10, <2>1, <2>2, <2>3 DEF RoutingTypeOK
  <1>12. RegisteredAreListed'
    <2>1. \A m \in Name : ToSet(listed[m]) \ {a} \subseteq ToSet(listed'[m])
      BY <1>8
    <2> QED
      BY <1>1, <1>5, <2>1 DEF RegisteredAreListed, AllListed
  <1>13. RemovalInStep'
    BY <1>4 DEF RemovalInStep
  <1>14. \/ n = model[a]
         \/ a \in strays /\ \A m \in Model : a \notin ToSet(listed[m])
    BY <1>1, <1>3 DEF FinishRemoval, RemovalInStep
  <1>15. NamedListsExact'
    <2> SUFFICES ASSUME NEW m \in Model
                 PROVE  ToSet(listed'[m]) \subseteq RegisteredFor(m) \ {a}
                        /\ IsInjective(listed'[m])
      BY <1>7 DEF NamedListsExact, Name
    <2>1. ToSet(listed[m]) \subseteq RegisteredFor(m) /\ IsInjective(listed[m])
      BY <1>1 DEF NamedListsExact
    <2>2. CASE m = n
      BY <1>8, <2>1, <2>2
    <2>3. CASE m # n
      <3>1. a \notin ToSet(listed[m])
        BY <1>14, <2>1, <2>3 DEF RegisteredFor
      <3> QED
        BY <1>8, <2>1, <2>3, <3>1 DEF Name
    <2> QED
      BY <2>2, <2>3
  <1>16. \A m \in built \ {NoName} : m \in Model /\ m \in Name
    BY <1>1 DEF RoutingTypeOK, Name
  <1>17. NoStrangers'
    <2> SUFFICES ASSUME NEW m \in built \ {NoName}
                 PROVE  workers'[m] \ (RegisteredFor(m) \ {a}) \subseteq strays
      BY <1>4, <1>7, <1>16 DEF NoStrangers
    <2>1. workers[m] \ RegisteredFor(m) \subseteq strays
      BY <1>1 DEF NoStrangers
    <2>2. CASE m = n
      BY <1>10, <2>1, <2>2
    <2>3. CASE m # n
      <3>1. a \in RegisteredFor(m) => a \in strays
        BY <1>14, <2>3 DEF RegisteredFor
      <3> QED
        BY <1>10, <1>16, <2>1, <2>3, <3>1
    <2> QED
      BY <2>2, <2>3
  <1>18. PoliciesCover'
    BY <1>1, <1>4, <1>7, <1>10, <1>16 DEF PoliciesCover
  <1> QED
    BY <1>9, <1>11, <1>12, <1>13, <1>15, <1>17, <1>18 DEF RoutingInv

\* Every step keeps lists, policies and registry in step.
LEMMA NextRouting == RoutingInv /\ [Next]_vars => RoutingInv'
  <1> SUFFICES ASSUME RoutingInv, [Next]_vars PROVE RoutingInv'
    OBVIOUS
  <1>1. CASE \E m \in Name : Serve(m) \/ Refuse(m)
    BY <1>1, RequestKeeps
  <1>2. CASE \E a \in Addr : Detect(a)
    BY <1>2, DetectKeeps
  <1>3. CASE Add
    BY <1>3, AddKeeps
  <1>4. CASE FinishRemoval
    BY <1>4, FinishRemovalKeeps
  <1>5. CASE \/ \E a \in Addr : Complete(a) \/ Validate(a) \/ StartRemoval(a)
             \/ \E a \in Flaky : StatusChanges(a)
             \/ \E m \in Untokenized : Downgrade(m)
             \/ AddRefused \/ RemovalTimesOut \/ UNCHANGED vars
    BY <1>5, QuietKeeps
  <1> QED
    BY <1>1, <1>2, <1>3, <1>4, <1>5 DEF Next

\* The inductive invariant holds in every reachable state.
THEOREM RoutingInvariant == Spec => []RoutingInv
  BY InitRouting, NextRouting, PTL DEF Spec

\* Registry, lists, policies and counters keep their types; a round-robin
\* counter never exceeds the number of addresses.
THEOREM RoutingTypeCorrect == Spec => []RoutingTypeOK
  <1>1. RoutingInv => RoutingTypeOK
    BY DEF RoutingInv
  <1> QED
    BY <1>1, RoutingInvariant, PTL

\* The lists of named models hold registered instances of those models.
THEOREM NamedListsAlwaysExact == Spec => []NamedListsExact
  <1>1. RoutingInv => NamedListsExact
    BY DEF RoutingInv
  <1> QED
    BY <1>1, RoutingInvariant, PTL

\* A cached policy keeps no instance that left or has another model.
THEOREM NeverStrangers == Spec => []NoStrangers
  <1>1. RoutingInv => NoStrangers
    BY DEF RoutingInv
  <1> QED
    BY <1>1, RoutingInvariant, PTL

\* The probing endpoints reach every registered instance and prefer live ones.
THEOREM ProbesAlwaysReachLive == Spec => []ProbesReachLive
  <1>1. ASSUME RoutingInv PROVE ProbesReachLive
    <2> DEFINE up == ToSet(AvailableFor(NoName))
    <2>1. Registered \subseteq AllListed
      BY <1>1 DEF RoutingInv, RegisteredAreListed
    <2>2. up \subseteq Registered /\ (AvailableFor(NoName) # << >> => up # {})
      BY <1>1, AvailableFacts DEF RoutingInv
    <2> QED
      BY <2>1, <2>2 DEF ProbesReachLive, ProbeTargets
  <1> QED
    BY <1>1, RoutingInvariant, PTL

\* A request of a model with an available instance is served, unless the
\* model is on a ring that knows none of the available ones.
LEMMA ServedFromInv ==
    ASSUME RoutingInv, NEW m \in Model, AvailableFor(m) # << >>
    PROVE  \/ Selectable(m) # {}
           \/ StrategyOf(m) = "ring" /\ ToSet(AvailableFor(m)) \subseteq late
  <1> DEFINE s == AvailableFor(m)
             C == ToSet(s)
  <1>1. RoutingTypeOK /\ NamedListsExact /\ PoliciesCover
    BY DEF RoutingInv
  <1>2. C # {} /\ C \subseteq RegisteredFor(m) /\ C \subseteq Addr
    <2>1. NoName \notin Model /\ Registered \subseteq Addr
      BY <1>1, ElementOfSeq, LenProperties, RoutingAssumption
         DEF RoutingTypeOK, Registered, ToSet
    <2> QED
      BY <1>1, <2>1, AvailableFacts DEF RegisteredFor
  <1>3. InstancesFor(m) = RegisteredFor(m) /\ InstancesFor(m) # {}
    BY <1>1, <1>2, InstancesFacts
  <1>4. StrategyOf(m) \in {"loadbalanced", "roundrobin", "ring", "power_of_two"}
    BY <1>1 DEF RoutingTypeOK, StrategyOf, Strategy, Name
  <1>5. CASE StrategyOf(m) = "loadbalanced"
    BY <1>2, <1>3, <1>5 DEF Selectable
  <1>6. CASE StrategyOf(m) = "roundrobin"
    BY <1>2, <1>3, <1>6 DEF Selectable
  <1>7. CASE StrategyOf(m) = "power_of_two"
    <2>1. \A a \in C : active[a] \in Nat
      BY <1>1, <1>2 DEF RoutingTypeOK
    <2>2. PICK k \in {active[a] : a \in C} : \A l \in {active[a] : a \in C} : k <= l
      BY <1>2, <2>1, LeastElement
    <2>3. PICK a \in C : \A b \in C : active[a] <= active[b]
      BY <2>2
    <2>4. C = {a} \/ \E b \in C \ {a} : active[a] <= active[b]
      BY <2>3
    <2>5. Selectable(m) = {c \in C : C = {c} \/ \E b \in C \ {c} : active[c] <= active[b]}
      BY <1>2, <1>3, <1>7 DEF Selectable
    <2> HIDE DEF C
    <2> QED
      BY <2>3, <2>4, <2>5
  <1>8. CASE StrategyOf(m) = "ring"
    <2>1. Selectable(m) = C \cap WorkersOf(m)
      BY <1>2, <1>3, <1>8 DEF Selectable
    <2>2. CASE m \in built
      <3>1. RegisteredFor(m) \ workers[m] \subseteq late
        BY <1>1, <2>2, RoutingAssumption DEF PoliciesCover
      <3> QED
        BY <1>2, <1>8, <2>1, <2>2, <3>1 DEF WorkersOf
    <2>3. CASE m \notin built
      BY <1>2, <1>3, <2>1, <2>3 DEF WorkersOf
    <2> QED
      BY <2>2, <2>3
  <1> QED
    BY <1>4, <1>5, <1>6, <1>7, <1>8

\* Requests are refused only for the reasons ServedIfAvailable names.
THEOREM AlwaysServedIfAvailable == Spec => []ServedIfAvailable
  <1>1. RoutingInv => ServedIfAvailable
    BY ServedFromInv DEF ServedIfAvailable
  <1> QED
    BY <1>1, RoutingInvariant, PTL
=============================================================================
