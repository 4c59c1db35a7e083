-------------------------- MODULE Discovery_proofs --------------------------
(***************************************************************************)
(* Proofs about node discovery, for any sets of addresses and models, any  *)
(* configured lists and any set of loadable tokenizers.                    *)
(*                                                                         *)
(* HealthyAreListed is inductive with the types alone.  OneLoader is not:  *)
(* a probe that sees a new model becomes its loader, so the proof has to   *)
(* know that nobody loads a model that was never notified, and the next    *)
(* cycle starts every probe anew, so it has to know that no loader is left *)
(* behind when the loop sleeps.                                            *)
(***************************************************************************)
EXTENDS Discovery, FiniteSetTheorems, TLAPS

\* The probes that await a tokenizer are the ones that name a model.
LoadersNameTheirModel ==
    \A a \in Addr : probe[a].model # NoModel <=> probe[a].at = "tokenizer"

\* A model whose tokenizer is under way has one probe that loads it; any
\* other model has none.
LoaderIsUnique ==
    \A m \in Model :
        IF m \in notified /\ tokenizer[m] = "none"
          THEN \E a \in Addr : \A b \in Addr : probe[b].model = m <=> b = a
          ELSE \A b \in Addr : probe[b].model # m

\* A tokenizer is made only for a model that was notified.
LoadedWereNotified == \A m \in Model : tokenizer[m] # "none" => m \in notified

\* The loop sleeps only when the probes of its cycle are over.
SleepsWhenDone ==
    cycle = "sleeping" => \A a \in Addr : probe[a].at = "done"

\* A probe under way was taken from the list of a role.
ProbesKnowTheirRole == \A a \in Addr : probe[a].at # "done" => probe[a].role \in Role

ProbeInv == /\ LoadersNameTheirModel
            /\ LoaderIsUnique
            /\ LoadedWereNotified
            /\ SleepsWhenDone
            /\ ProbesKnowTheirRole

IInv == DiscoveryTypeOK /\ HealthyAreListed /\ ProbeInv

\* Counting the loaders adds nothing to their being unique.
LEMMA OneLoaderFromUnique == LoaderIsUnique => OneLoader
<1> SUFFICES ASSUME LoaderIsUnique, NEW m \in Model
             PROVE  Cardinality({a \in Addr : probe[a].model = m})
                      = IF m \in notified /\ tokenizer[m] = "none" THEN 1 ELSE 0
  BY DEF OneLoader
<1> DEFINE L == {a \in Addr : probe[a].model = m}
<1>1. CASE m \in notified /\ tokenizer[m] = "none"
  <2>1. PICK a \in Addr : \A b \in Addr : probe[b].model = m <=> b = a
    BY <1>1 DEF LoaderIsUnique
  <2>2. L = {a}
    BY <2>1
  <2>3. Cardinality(L) = 1
    BY <2>2, FS_Singleton
  <2> QED BY <1>1, <2>3
<1>2. CASE ~(m \in notified /\ tokenizer[m] = "none")
  <2>1. L = {}
    BY <1>2 DEF LoaderIsUnique
  <2>2. Cardinality(L) = 0
    BY <2>1, FS_EmptySet
  <2> QED BY <1>2, <2>2
<1> QED BY <1>1, <1>2

\* The records a probe goes through are probes.
LEMMA ProbeRecords ==
    ASSUME NEW p \in Probe, NEW m \in Model
    PROVE  /\ Done \in Probe
           /\ [p EXCEPT !.at = "models"] \in Probe
           /\ [p EXCEPT !.at = "tokenizer", !.model = m] \in Probe
  BY DEF Probe, Done

\* Started gives every listed address a probe that loads nothing.
LEMMA StartedProbes ==
    ASSUME NEW lists \in [Addr -> Role \cup {"none"}]
    PROVE  /\ Started(lists) \in [Addr -> Probe]
           /\ \A a \in Addr : /\ Started(lists)[a].model = NoModel
                              /\ Started(lists)[a].at # "tokenizer"
                              /\ \/ Started(lists)[a].at = "done"
                                 \/ Started(lists)[a].role \in Role
  BY DEF Started, Probe, Done

\* A probe that loads nothing may end.
LEMMA FinishKeepsLoaders ==
    ASSUME DiscoveryTypeOK, ProbeInv, NEW a \in Addr,
           probe[a].at # "tokenizer", Finish(a),
           UNCHANGED <<cycle, notified, tokenizer, strict>>
    PROVE  ProbeInv' /\ probe' \in [Addr -> Probe]
<1>1. /\ probe' \in [Addr -> Probe]
      /\ probe'[a].at = "done" /\ probe'[a].model = NoModel
      /\ \A b \in Addr : b # a => probe'[b] = probe[b]
  BY DEF Finish, DiscoveryTypeOK, Done, Probe
<1>2. probe[a].model = NoModel
  BY DEF ProbeInv, LoadersNameTheirModel
<1>3. \A b \in Addr : probe'[b].model = probe[b].model
  BY <1>1, <1>2
<1>4. LoadersNameTheirModel'
  BY <1>1 DEF ProbeInv, LoadersNameTheirModel
<1>5. LoaderIsUnique'
  BY <1>3 DEF ProbeInv, LoaderIsUnique
<1>6. LoadedWereNotified' /\ SleepsWhenDone' /\ ProbesKnowTheirRole'
  BY <1>1 DEF ProbeInv, LoadedWereNotified, SleepsWhenDone, ProbesKnowTheirRole
<1> QED BY <1>1, <1>4, <1>5, <1>6 DEF ProbeInv

\* _notify_model_discovered makes a probe the loader of its model only when
\* no probe is or was.
LEMMA NotifyKeepsLoaders ==
    ASSUME DiscoveryTypeOK, ProbeInv, NEW a \in Addr, NEW m \in Model,
           probe[a].at \in {"health", "models"}, Notify(a, m),
           UNCHANGED <<cycle, tokenizer, strict>>
    PROVE  /\ ProbeInv'
           /\ probe' \in [Addr -> Probe]
           /\ notified' \subseteq Model
<1>1. CASE m \in notified
  BY <1>1, FinishKeepsLoaders DEF Notify, DiscoveryTypeOK
<1>2. CASE m \notin notified
  <2>1. /\ notified' = notified \cup {m}
        /\ probe' = [probe EXCEPT ![a].at = "tokenizer", ![a].model = m]
    BY <1>2 DEF Notify
  <2>2. /\ probe \in [Addr -> Probe]
        /\ probe[a] \in Probe
    BY DEF DiscoveryTypeOK
  <2>3. /\ probe'[a] = [probe[a] EXCEPT !.at = "tokenizer", !.model = m]
        /\ \A b \in Addr : b # a => probe'[b] = probe[b]
        /\ probe' \in [Addr -> Probe]
    BY <2>1, <2>2, ProbeRecords
  <2>4. /\ probe'[a].at = "tokenizer" /\ probe'[a].model = m
        /\ probe'[a].role = probe[a].role
    BY <2>2, <2>3 DEF Probe
  <2>5. m # NoModel /\ probe[a].model = NoModel
    BY DiscoveryAssumption DEF ProbeInv, LoadersNameTheirModel
  <2>6. LoadersNameTheirModel'
    BY <2>3, <2>4, <2>5 DEF ProbeInv, LoadersNameTheirModel
  <2>7. tokenizer[m] = "none"
    BY <1>2 DEF ProbeInv, LoadedWereNotified
  <2>8. LoaderIsUnique'
    <3> SUFFICES ASSUME NEW n \in Model
                 PROVE  IF n \in notified' /\ tokenizer'[n] = "none"
                          THEN \E c \in Addr : \A b \in Addr :
                                  probe'[b].model = n <=> b = c
                          ELSE \A b \in Addr : probe'[b].model # n
      BY DEF LoaderIsUnique
    <3>1. CASE n = m
      <4>1. \A b \in Addr : probe[b].model # m
        BY <1>2 DEF ProbeInv, LoaderIsUnique
      <4>2. \A b \in Addr : probe'[b].model = m <=> b = a
        BY <4>1, <2>3, <2>4
      <4> QED BY <3>1, <4>2, <2>1, <2>7
    <3>2. CASE n # m
      <4>1. n # NoModel
        BY DiscoveryAssumption
      <4>2. \A b \in Addr : probe'[b].model = n <=> probe[b].model = n
        BY <2>3, <2>4, <2>5, <3>2, <4>1
      <4>3. n \in notified' <=> n \in notified
        BY <2>1, <3>2
      <4> QED BY <4>2, <4>3 DEF ProbeInv, LoaderIsUnique
    <3> QED BY <3>1, <3>2
  <2>9. LoadedWereNotified' /\ SleepsWhenDone'
    BY <2>1 DEF ProbeInv, LoadedWereNotified, SleepsWhenDone
  <2>10. ProbesKnowTheirRole'
    BY <2>3, <2>4 DEF ProbeInv, ProbesKnowTheirRole
  <2> QED BY <2>1, <2>3, <2>6, <2>8, <2>9, <2>10 DEF ProbeInv, DiscoveryTypeOK
<1> QED BY <1>1, <1>2

\* Discarding an address from a healthy set leaves only listed ones there.
LEMMA DiscardKeepsHealthy ==
    ASSUME DiscoveryTypeOK, HealthyAreListed, NEW a \in Addr, Discard(a),
           UNCHANGED role
    PROVE  HealthyAreListed' /\ healthy' \in [Role -> SUBSET Addr]
<1>1. \A rl \in Role : healthy'[rl] \subseteq healthy[rl]
  BY DEF Discard, DiscoveryTypeOK
<1> QED
  BY <1>1 DEF Discard, DiscoveryTypeOK, HealthyAreListed, Listed

\* An address is added to the healthy set of the role it has.
LEMMA AddKeepsHealthy ==
    ASSUME DiscoveryTypeOK, HealthyAreListed, NEW a \in Addr,
           NEW rl \in Role, role' \in [Addr -> Role \cup {"none"}],
           role'[a] = rl, \A b \in Addr : b # a => role'[b] = role[b],
           role[a] \in {rl, "none"},
           healthy' = [healthy EXCEPT ![rl] = @ \cup {a}]
    PROVE  HealthyAreListed' /\ healthy' \in [Role -> SUBSET Addr]
<1>1. healthy' \in [Role -> SUBSET Addr]
  BY DEF DiscoveryTypeOK
<1>2. ASSUME NEW s \in Role, NEW b \in healthy'[s] PROVE b \in Addr /\ role'[b] = s
  <2>1. b \in Addr
    BY <1>1
  <2>2. CASE s = rl /\ b = a
    BY <2>2
  <2>3. CASE ~(s = rl /\ b = a)
    <3>1. b \in healthy[s] /\ role[b] = s
      BY <2>3 DEF DiscoveryTypeOK, HealthyAreListed, Listed
    <3>2. role[b] # "none"
      BY <3>1 DEF Role
    <3> QED BY <2>1, <2>3, <3>1, <3>2
  <2> QED BY <2>1, <2>2, <2>3
<1> QED BY <1>1, <1>2 DEF HealthyAreListed, Listed

\* What a probe answers keeps the invariant, also for an address that left
\* its list, or came back under another role, while the answer was awaited.
LEMMA ProbeStepKeepsInvariant ==
    ASSUME IInv, NEW a \in Addr, ProbeStep(a)
    PROVE  IInv'
<1>types. /\ DiscoveryTypeOK /\ HealthyAreListed /\ ProbeInv
          /\ role \in [Addr -> Role \cup {"none"}]
          /\ model \in [Addr -> Model \cup {NoModel}]
          /\ probe \in [Addr -> Probe]
          /\ probe[a] \in Probe
          /\ healthy \in [Role -> SUBSET Addr]
  BY DEF IInv, DiscoveryTypeOK
<1>1. CASE HealthOk(a)
  <2>1. /\ probe[a].at = "health"
        /\ UNCHANGED <<role, model, up, cycle, ready, tokenizer, strict>>
    BY <1>1 DEF HealthOk
  <2>2. CASE role[a] # probe[a].role
    BY <1>1, <2>1, <2>2, <1>types, DiscardKeepsHealthy, FinishKeepsLoaders
       DEF HealthOk, IInv, DiscoveryTypeOK
  <2>3. CASE role[a] = probe[a].role
    <3>1. role[a] \in Role
      BY <2>1, <2>3, <1>types DEF ProbeInv, ProbesKnowTheirRole
    <3>2. healthy' = [healthy EXCEPT ![role[a]] = @ \cup {a}]
      BY <1>1, <2>3 DEF HealthOk
    <3>3. HealthyAreListed' /\ healthy' \in [Role -> SUBSET Addr]
      BY <2>1, <3>1, <3>2, <1>types, AddKeepsHealthy
    <3>4. CASE model[a] # NoModel
      <4>1. model[a] \in Model /\ Notify(a, model[a])
        BY <1>1, <2>3, <3>4, <1>types DEF HealthOk
      <4> QED
        BY <2>1, <3>3, <4>1, <1>types, NotifyKeepsLoaders
           DEF IInv, DiscoveryTypeOK
    <3>5. CASE model[a] = NoModel
      <4>1. /\ probe' = [probe EXCEPT ![a].at = "models"]
            /\ notified' = notified
        BY <1>1, <2>3, <3>5 DEF HealthOk
      <4>2. /\ probe'[a] = [probe[a] EXCEPT !.at = "models"]
            /\ \A b \in Addr : b # a => probe'[b] = probe[b]
            /\ probe' \in [Addr -> Probe]
        BY <4>1, <1>types DEF Probe
      <4>3. /\ probe'[a].at = "models"
            /\ probe'[a].model = probe[a].model
            /\ probe'[a].role = probe[a].role
        BY <4>2, <1>types DEF Probe
      <4>4. \A b \in Addr : probe'[b].model = probe[b].model
        BY <4>2, <4>3
      <4>5. LoadersNameTheirModel'
        BY <2>1, <4>2, <4>3, <1>types, ZenonT(30) DEF ProbeInv, LoadersNameTheirModel
      <4>6. LoaderIsUnique' /\ LoadedWereNotified'
        BY <2>1, <4>1, <4>4, <1>types
           DEF ProbeInv, LoaderIsUnique, LoadedWereNotified
      <4>7. SleepsWhenDone' /\ ProbesKnowTheirRole'
        BY <2>1, <4>2, <4>3, <1>types
           DEF ProbeInv, SleepsWhenDone, ProbesKnowTheirRole
      <4> QED
        BY <2>1, <3>3, <4>1, <4>2, <4>5, <4>6, <4>7, <1>types
           DEF IInv, DiscoveryTypeOK, ProbeInv
    <3> QED BY <3>4, <3>5
  <2> QED BY <2>2, <2>3
<1>2. CASE HealthFails(a)
  BY <1>2, <1>types, DiscardKeepsHealthy, FinishKeepsLoaders
     DEF HealthFails, IInv, DiscoveryTypeOK
<1>3. CASE ModelsFail(a)
  BY <1>3, <1>types, FinishKeepsLoaders
     DEF ModelsFail, IInv, DiscoveryTypeOK, HealthyAreListed, Listed
<1>4. CASE TokenizerDone(a)
  <2> DEFINE m == probe[a].model
  <2>1. /\ probe[a].at = "tokenizer"
        /\ tokenizer' = [tokenizer EXCEPT ![m] = Loaded(m)]
        /\ Finish(a)
        /\ Discard(a) \/ UNCHANGED healthy
        /\ UNCHANGED <<role, model, up, cycle, ready, notified, strict>>
    BY <1>4 DEF TokenizerDone
  <2>2. HealthyAreListed' /\ healthy' \in [Role -> SUBSET Addr]
    BY <2>1, <1>types, DiscardKeepsHealthy DEF HealthyAreListed, Listed
  <2>3. m \in Model
    BY <2>1, <1>types DEF ProbeInv, LoadersNameTheirModel, Probe
  <2>4. Loaded(m) \in {"loaded", "fallback", "failed"}
    BY DEF Loaded
  <2>5. /\ tokenizer' \in [Model -> {"none", "loaded", "fallback", "failed"}]
        /\ tokenizer'[m] # "none"
        /\ \A n \in Model : n # m => tokenizer'[n] = tokenizer[n]
    BY <2>1, <2>3, <2>4, <1>types DEF DiscoveryTypeOK
  <2>6. /\ probe' \in [Addr -> Probe]
        /\ probe'[a].at = "done" /\ probe'[a].model = NoModel
        /\ \A b \in Addr : b # a => probe'[b] = probe[b]
    BY <2>1, <1>types DEF Finish, Done, Probe
  <2>7. m \in notified /\ \A b \in Addr : b # a => probe[b].model # m
    BY <2>3, <1>types DEF ProbeInv, LoaderIsUnique
  <2>8. LoadersNameTheirModel' /\ SleepsWhenDone' /\ ProbesKnowTheirRole'
    BY <2>1, <2>6, <1>types
       DEF ProbeInv, LoadersNameTheirModel, SleepsWhenDone, ProbesKnowTheirRole
  <2>9. LoadedWereNotified'
    BY <2>1, <2>5, <2>7, <1>types DEF ProbeInv, LoadedWereNotified
  <2>10. LoaderIsUnique'
    <3> SUFFICES ASSUME NEW n \in Model
                 PROVE  IF n \in notified' /\ tokenizer'[n] = "none"
                          THEN \E c \in Addr : \A b \in Addr :
                                  probe'[b].model = n <=> b = c
                          ELSE \A b \in Addr : probe'[b].model # n
      BY DEF LoaderIsUnique
    <3>1. n # NoModel
      BY DiscoveryAssumption
    <3>2. CASE n = m
      BY <2>5, <2>6, <2>7, <3>1, <3>2
    <3>3. CASE n # m
      <4>1. \A b \in Addr : probe'[b].model = n <=> probe[b].model = n
        BY <2>6, <3>1, <3>3
      <4> QED BY <2>1, <2>5, <3>3, <4>1, <1>types DEF ProbeInv, LoaderIsUnique
    <3> QED BY <3>2, <3>3
  <2> QED
    BY <2>1, <2>2, <2>5, <2>6, <2>8, <2>9, <2>10, <1>types
       DEF IInv, DiscoveryTypeOK, ProbeInv
<1>5. ASSUME NEW m \in Model, ModelsAnswer(a, m) PROVE IInv'
  <2>1. /\ probe[a].at = "models"
        /\ UNCHANGED <<role, up, cycle, healthy, ready, tokenizer, strict>>
    BY <1>5 DEF ModelsAnswer
  <2>2. HealthyAreListed'
    BY <2>1, <1>types DEF HealthyAreListed, Listed
  <2>3. CASE role[a] = "none"
    BY <1>5, <2>1, <2>2, <2>3, <1>types, FinishKeepsLoaders
       DEF ModelsAnswer, IInv, DiscoveryTypeOK
  <2>4. CASE role[a] # "none"
    <3>1. model' = [model EXCEPT ![a] = m] /\ Notify(a, m)
      BY <1>5, <2>4 DEF ModelsAnswer
    <3>2. model' \in [Addr -> Model \cup {NoModel}]
      BY <3>1, <1>types
    <3> QED
      BY <2>1, <2>2, <3>1, <3>2, <1>types, NotifyKeepsLoaders
         DEF IInv, DiscoveryTypeOK
  <2> QED BY <2>3, <2>4
<1> QED BY <1>1, <1>2, <1>3, <1>4, <1>5 DEF ProbeStep

\* The loop and the changes at runtime keep the invariant.
LEMMA OtherStepKeepsInvariant ==
    ASSUME IInv,
           \/ ProbeAll \/ CycleEnds
           \/ \E a \in Addr :
                 \/ RemoveInstance(a) \/ ServerChanges(a)
                 \/ \E rl \in Role, m \in Model : AddInstance(a, rl, m)
    PROVE  IInv'
<1>types. /\ DiscoveryTypeOK /\ HealthyAreListed /\ ProbeInv
          /\ role \in [Addr -> Role \cup {"none"}]
          /\ model \in [Addr -> Model \cup {NoModel}]
          /\ probe \in [Addr -> Probe]
          /\ healthy \in [Role -> SUBSET Addr]
  BY DEF IInv, DiscoveryTypeOK
\* A step that leaves the probes and what they load alone.
<1>loaders. UNCHANGED <<cycle, probe, notified, tokenizer, strict>> => ProbeInv'
  BY <1>types DEF ProbeInv, LoadersNameTheirModel, LoaderIsUnique,
                  LoadedWereNotified, SleepsWhenDone, ProbesKnowTheirRole
<1>1. CASE ProbeAll
  <2>1. /\ cycle = "sleeping" /\ cycle' = "probing"
        /\ probe' = Started(role)
        /\ UNCHANGED <<role, model, up, healthy, ready, notified, tokenizer, strict>>
    BY <1>1 DEF ProbeAll
  <2>2. /\ probe' \in [Addr -> Probe]
        /\ \A a \in Addr : /\ probe'[a].model = NoModel
                           /\ probe'[a].at # "tokenizer"
                           /\ probe'[a].at = "done" \/ probe'[a].role \in Role
    BY <2>1, <1>types, StartedProbes
  <2>3. \A a \in Addr : probe[a].model = NoModel
    BY <2>1, <1>types DEF ProbeInv, SleepsWhenDone, LoadersNameTheirModel
  <2>4. LoaderIsUnique'
    BY <2>1, <2>2, <2>3, <1>types, SMTT(20) DEF ProbeInv, LoaderIsUnique
  <2>5. /\ LoadersNameTheirModel' /\ LoadedWereNotified'
        /\ SleepsWhenDone' /\ ProbesKnowTheirRole'
    BY <2>1, <2>2, <1>types
       DEF ProbeInv, LoadersNameTheirModel, LoadedWereNotified,
           SleepsWhenDone, ProbesKnowTheirRole
  <2> QED
    BY <2>1, <2>2, <2>4, <2>5, <1>types
       DEF IInv, DiscoveryTypeOK, ProbeInv, HealthyAreListed, Listed
<1>2. CASE CycleEnds
  <2>1. ready' \in BOOLEAN
    BY <1>2, <1>types DEF CycleEnds, DiscoveryTypeOK
  <2>2. ProbeInv'
    BY <1>2, <1>types
       DEF CycleEnds, ProbeInv, LoadersNameTheirModel, LoaderIsUnique,
           LoadedWereNotified, SleepsWhenDone, ProbesKnowTheirRole
  <2> QED
    BY <1>2, <2>1, <2>2, <1>types
       DEF CycleEnds, IInv, DiscoveryTypeOK, HealthyAreListed, Listed
<1>3. ASSUME NEW a \in Addr, RemoveInstance(a) PROVE IInv'
  <2>1. /\ role' \in [Addr -> Role \cup {"none"}]
        /\ model' \in [Addr -> Model \cup {NoModel}]
        /\ healthy' \in [Role -> SUBSET Addr]
        /\ \A b \in Addr : b # a => role'[b] = role[b]
    BY <1>3, <1>types DEF RemoveInstance
  <2>2. \A s \in Role : healthy'[s] \subseteq healthy[s] \ {a}
    BY <1>3, <1>types DEF RemoveInstance, HealthyAreListed, Listed
  <2>3. HealthyAreListed'
    BY <2>1, <2>2, <1>types DEF HealthyAreListed, Listed
  <2> QED
    BY <1>3, <2>1, <2>3, <1>types, <1>loaders
       DEF RemoveInstance, IInv, DiscoveryTypeOK
<1>4. ASSUME NEW a \in Addr, ServerChanges(a) PROVE IInv'
  BY <1>4, <1>types, <1>loaders
     DEF ServerChanges, IInv, DiscoveryTypeOK, HealthyAreListed, Listed
<1>5. ASSUME NEW a \in Addr, NEW rl \in Role, NEW m \in Model,
             AddInstance(a, rl, m)
      PROVE  IInv'
  <2>1. /\ role[a] = "none"
        /\ role' \in [Addr -> Role \cup {"none"}]
        /\ model' \in [Addr -> Model \cup {NoModel}]
        /\ role'[a] = rl
        /\ \A b \in Addr : b # a => role'[b] = role[b]
        /\ healthy' = [healthy EXCEPT ![rl] = @ \cup {a}]
    BY <1>5, <1>types DEF AddInstance
  <2>2. HealthyAreListed' /\ healthy' \in [Role -> SUBSET Addr]
    BY <2>1, <1>types, AddKeepsHealthy
  <2> QED
    BY <1>5, <2>1, <2>2, <1>types, <1>loaders
       DEF AddInstance, IInv, DiscoveryTypeOK
<1> QED BY <1>1, <1>2, <1>3, <1>4, <1>5

\* The configured instances, before the first answer.
LEMMA InitInvariant == Init => IInv
<1> SUFFICES ASSUME Init PROVE IInv
  OBVIOUS
<1>1. DiscoveryTypeOK
  <2>1. probe \in [Addr -> Probe]
    BY StartedProbes, DiscoveryAssumption DEF Init
  <2>2. model \in [Addr -> Model \cup {NoModel}]
    BY DEF Init
  <2> QED BY <2>1, <2>2, DiscoveryAssumption DEF Init, DiscoveryTypeOK
<1>2. HealthyAreListed
  BY DEF Init, HealthyAreListed
<1>3. ProbeInv
  <2>1. \A a \in Addr : /\ probe[a].model = NoModel
                        /\ probe[a].at # "tokenizer"
                        /\ probe[a].at = "done" \/ probe[a].role \in Role
    BY StartedProbes, DiscoveryAssumption DEF Init
  <2>2. /\ cycle = "probing" /\ notified = {}
        /\ \A m \in Model : tokenizer[m] = "none" /\ m # NoModel
    BY DiscoveryAssumption DEF Init
  <2> QED
    BY <2>1, <2>2
       DEF ProbeInv, LoadersNameTheirModel, LoaderIsUnique,
           LoadedWereNotified, SleepsWhenDone, ProbesKnowTheirRole
<1> QED BY <1>1, <1>2, <1>3 DEF IInv

\* Every step keeps the invariant.
LEMMA NextKeepsInvariant == IInv /\ [Next]_vars => IInv'
<1>1. IInv /\ UNCHANGED vars => IInv'
  BY DEF vars, IInv, DiscoveryTypeOK, HealthyAreListed, Listed, ProbeInv,
         LoadersNameTheirModel, LoaderIsUnique, LoadedWereNotified,
         SleepsWhenDone, ProbesKnowTheirRole
<1> QED
  BY <1>1, ProbeStepKeepsInvariant, OtherStepKeepsInvariant DEF Next
-----------------------------------------------------------------------------
\* The conjunction is invariant; each theorem below is a part of it.
LEMMA Invariance == Spec => []IInv
  BY InitInvariant, NextKeepsInvariant, PTL DEF Spec

\* Lists, probes, healthy sets and tokenizers stay in their ranges.
THEOREM DiscoveryTypeCorrect == Spec => []DiscoveryTypeOK
  BY Invariance, PTL DEF IInv

\* The healthy sets hold only instances of the current lists, each under the
\* role it has now, whatever is removed or added while its probe is in flight.
THEOREM HealthyAlwaysListed == Spec => []HealthyAreListed
  BY Invariance, PTL DEF IInv

\* A model's tokenizer is being loaded by exactly one probe from the first
\* time the model is seen until ensure_tokenizer returns, and by none before
\* or after.
THEOREM OneLoaderAlways == Spec => []OneLoader
<1>1. IInv => OneLoader
  BY OneLoaderFromUnique DEF IInv, ProbeInv
<1> QED BY <1>1, Invariance, PTL
=============================================================================
