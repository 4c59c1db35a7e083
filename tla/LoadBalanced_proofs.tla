------------------------ MODULE LoadBalanced_proofs ------------------------
(***************************************************************************)
(* The counters of the load-balanced policy are exact for any number of    *)
(* instances and requests, and so the instance a request is given really   *)
(* is a least-loaded one.                                                  *)
(***************************************************************************)
EXTENDS LoadBalanced, CollectionFacts

\* Every list has one entry for each instance.
Aligned == /\ Len(utils) = Len(instances)
           /\ Len(bs) = Len(instances)
           /\ Len(modelLen) = Len(instances)

\* An instance that holds a request is listed: removals wait for the drain.
HeldAreListed == \A r \in Req : held[r] # NoHold => held[r].addr \in ToSet(instances)

\* The entries at the index of an address are about that address.
EntriesExact ==
    \A i \in DOMAIN instances, a \in Addr : instances[i] = a =>
        modelLen[i] = ModelLen[a] /\ bs[i] = Batch(a) /\ utils[i] = Tokens(a)

\* The inductive invariant.
LoadInv == LoadTypeOK /\ Aligned /\ HeldAreListed /\ EntriesExact
-----------------------------------------------------------------------------
\* The domains of the lists, and the types of their entries.
LEMMA ListFacts ==
    ASSUME LoadTypeOK, Aligned
    PROVE  /\ Len(instances) \in Nat
           /\ DOMAIN instances = 1 .. Len(instances)
           /\ DOMAIN utils = 1 .. Len(instances)
           /\ DOMAIN bs = 1 .. Len(instances)
           /\ DOMAIN modelLen = 1 .. Len(instances)
           /\ \A i \in 1 .. Len(instances) :
                 /\ instances[i] \in Addr
                 /\ utils[i] \in Nat /\ bs[i] \in Nat /\ modelLen[i] \in Nat
  BY LenProperties, ElementOfSeq DEF LoadTypeOK, Aligned

\* What the invariant says of the counters.
LEMMA InvExact == LoadInv => CountersExact
  BY ListFacts DEF LoadInv, Aligned, EntriesExact, CountersExact

\* A hold has an address or none, and a length.
LEMMA HoldFacts ==
    ASSUME LoadTypeOK, NEW r \in Req
    PROVE  /\ held[r].len \in Nat
           /\ held[r] # NoHold => held[r] \in Hold /\ held[r].addr \in Addr
           /\ held[r].addr \in Addr => held[r] # NoHold
           /\ held[r] = NoHold => held[r].len = 0
  <1>1. held[r] \in Hold \cup {NoHold}
    BY DEF LoadTypeOK
  <1>2. NoHold.len = 0 /\ NoHold.addr = "none"
    BY DEF NoHold
  <1>3. \A h \in Hold : h.len \in Nat /\ h.addr \in Addr
    BY LoadAssumption DEF Hold
  <1> QED
    BY <1>1, <1>2, <1>3, LoadAssumption

\* The requests on an instance are finitely many, and so are their tokens.
LEMMA LoadFacts ==
    ASSUME LoadTypeOK, NEW a
    PROVE  /\ On(a) \subseteq Req /\ IsFiniteSet(On(a))
           /\ Batch(a) \in Nat
           /\ Batch(a) = 0 <=> On(a) = {}
           /\ \A r \in On(a) : Length[r] \in Nat
           /\ Tokens(a) \in Nat
           /\ On(a) = {} => Tokens(a) = 0
           /\ \A r \in On(a) : Tokens(a) = held[r].len + Total(Length, On(a) \ {r})
  <1>1. On(a) \subseteq Req
    BY DEF On
  <1>2. IsFiniteSet(On(a))
    BY <1>1, LoadAssumption, FS_Subset
  <1>3. Batch(a) \in Nat /\ (Batch(a) = 0 <=> On(a) = {})
    BY <1>2, FS_CardinalityType, FS_EmptySet DEF Batch
  <1>4. \A r \in Req : Length[r] = held[r].len /\ Length[r] \in Nat
    BY HoldFacts DEF Length
  <1>5. /\ Total(Length, {}) = 0 /\ Total(Length, On(a)) \in Nat
        /\ \A r \in On(a) : Total(Length, On(a)) = Length[r] + Total(Length, On(a) \ {r})
    BY <1>1, <1>2, <1>4, TotalWithout
  <1> QED
    BY <1>1, <1>2, <1>3, <1>4, <1>5 DEF Tokens

\* Counting a request in or out changes the load of its instance alone.
LEMMA LoadMoves ==
    ASSUME LoadTypeOK, LoadTypeOK', NEW r \in Req, NEW a \in Addr,
           \A q \in Req \ {r} : held'[q] = held[q]
    PROVE  /\ (held[r] = NoHold /\ held'[r].addr = a) =>
                 /\ \A b \in Addr \ {a} : Batch(b)' = Batch(b) /\ Tokens(b)' = Tokens(b)
                 /\ Batch(a)' = Batch(a) + 1
                 /\ Tokens(a)' = Tokens(a) + held'[r].len
           /\ (held'[r] = NoHold /\ held[r].addr = a) =>
                 /\ \A b \in Addr \ {a} : Batch(b)' = Batch(b) /\ Tokens(b)' = Tokens(b)
                 /\ Batch(a)' = Batch(a) - 1
                 /\ Tokens(a)' = Tokens(a) - held[r].len
  <1>1. \A q \in Req \ {r} : Length'[q] = Length[q]
    BY DEF Length
  <1>2. \A b : On(b) \subseteq Req /\ On(b)' \subseteq Req
    BY DEF On
  <1>3. NoHold.addr \notin Addr
    BY LoadAssumption DEF NoHold
  <1>4. ASSUME NEW b, On(b)' = On(b), r \notin On(b)
        PROVE  Batch(b)' = Batch(b) /\ Tokens(b)' = Tokens(b)
    <2>1. Batch(b)' = Batch(b)
      BY <1>4 DEF Batch
    <2>2. \A x \in On(b) : Length[x] = Length'[x] /\ Length[x] \in Nat
      BY <1>1, <1>2, <1>4, LoadFacts
    <2>3. Total(Length, On(b)) = Total(Length', On(b))
      BY <2>2, LoadFacts, TotalSame
    <2> QED
      BY <1>4, <2>1, <2>3 DEF Tokens
  <1>5. /\ IsFiniteSet(On(a)') /\ Tokens(a)' \in Nat
        /\ \A q \in On(a)' : Length'[q] \in Nat
    <2>1. IsFiniteSet(On(a)')
      BY <1>2, LoadAssumption, FS_Subset
    <2>2. \A q \in Req : held'[q].len \in Nat
      <3>1. \A q \in Req : held'[q] \in Hold \cup {NoHold}
        BY DEF LoadTypeOK
      <3>2. NoHold.len = 0 /\ \A h \in Hold : h.len \in Nat
        BY LoadAssumption DEF NoHold, Hold
      <3> QED
        BY <3>1, <3>2
    <2>3. \A q \in On(a)' : Length'[q] \in Nat
      BY <1>2, <2>2 DEF Length
    <2> QED
      BY <2>1, <2>3, TotalWithout DEF Tokens
  <1>6. ASSUME held[r] = NoHold, held'[r].addr = a
        PROVE  /\ \A b \in Addr \ {a} : Batch(b)' = Batch(b) /\ Tokens(b)' = Tokens(b)
               /\ Batch(a)' = Batch(a) + 1
               /\ Tokens(a)' = Tokens(a) + held'[r].len
    <2>1. r \notin On(a) /\ On(a)' = On(a) \cup {r} /\ r \in On(a)' /\ On(a)' \ {r} = On(a)
      BY <1>3, <1>6 DEF On
    <2>2. \A b \in Addr \ {a} : r \notin On(b) /\ On(b)' = On(b)
      BY <1>3, <1>6 DEF On
    <2>3. Batch(a)' = Batch(a) + 1
      BY <2>1, LoadFacts, FS_AddElement DEF Batch
    <2>4. Tokens(a)' = Length'[r] + Total(Length', On(a))
      <3>1. IsFiniteSet(On(a)') /\ \A q \in On(a)' : Length'[q] \in Nat
        BY <1>5
      <3> QED
        BY <2>1, <3>1, TotalWithout DEF Tokens
    <2>5. Total(Length', On(a)) = Tokens(a)
      <3>1. \A x \in On(a) : Length[x] = Length'[x] /\ Length[x] \in Nat
        BY <1>1, <1>2, <2>1, LoadFacts
      <3> QED
        BY <3>1, LoadFacts, TotalSame DEF Tokens
    <2>6. Length'[r] = held'[r].len /\ Length'[r] \in Nat /\ Tokens(a) \in Nat
      BY <1>5, <2>1, LoadFacts DEF Length
    <2> QED
      BY <1>4, <2>2, <2>3, <2>4, <2>5, <2>6
  <1>7. ASSUME held'[r] = NoHold, held[r].addr = a
        PROVE  /\ \A b \in Addr \ {a} : Batch(b)' = Batch(b) /\ Tokens(b)' = Tokens(b)
               /\ Batch(a)' = Batch(a) - 1
               /\ Tokens(a)' = Tokens(a) - held[r].len
    <2>1. r \in On(a) /\ On(a)' = On(a) \ {r}
      BY <1>3, <1>7 DEF On
    <2>2. \A b \in Addr \ {a} : r \notin On(b) /\ On(b)' = On(b)
      BY <1>3, <1>7 DEF On
    <2>3. Batch(a)' = Batch(a) - 1
      BY <2>1, LoadFacts, FS_RemoveElement DEF Batch
    <2>4. Tokens(a) = held[r].len + Total(Length, On(a)')
      BY <2>1, LoadFacts
    <2>5. Total(Length, On(a)') = Tokens(a)'
      <3>1. \A x \in On(a)' : Length[x] = Length'[x] /\ Length[x] \in Nat
        BY <1>1, <1>2, <2>1, LoadFacts
      <3> QED
        BY <3>1, <1>5, TotalSame DEF Tokens
    <2>6. held[r].len \in Nat /\ Tokens(a)' \in Nat
      BY <1>5, HoldFacts
    <2> QED
      BY <1>4, <2>2, <2>3, <2>4, <2>5, <2>6
  <1> QED
    BY <1>6, <1>7
-----------------------------------------------------------------------------
\* A set of indices has some on which a measure is least, and a first one.
LEMMA Minimisers ==
    ASSUME NEW C, C \subseteq Nat, C # {}, NEW f, \A i \in C : f[i] \in Nat
    PROVE  LET M == {i \in C : \A j \in C : f[i] <= f[j]}
           IN  M # {} /\ Min(M) \in M
  <1> DEFINE M == {i \in C : \A j \in C : f[i] <= f[j]}
  <1>1. PICK n \in {f[i] : i \in C} : \A k \in {f[i] : i \in C} : n <= k
    BY LeastElement
  <1>2. M # {} /\ M \subseteq Nat
    <2>1. PICK i \in C : f[i] = n
      BY <1>1
    <2>2. \A j \in C : f[i] <= f[j]
      BY <1>1, <2>1
    <2> QED
      BY <2>2
  <1>3. \E x \in M : \A y \in M : x <= y
    BY <1>2, LeastElement
  <1>4. Min(M) \in M
    BY <1>3 DEF Min
  <1> QED
    BY <1>2, <1>4

\* The policy chooses a candidate, and one with the least load it knows of.
LEMMA ChoiceFacts ==
    ASSUME LoadInv, NEW C \in SUBSET DOMAIN instances, C # {}
    PROVE  /\ Choice(C) \in C
           /\ \A j \in C : AtMostAsLoaded(instances[Choice(C)], instances[j])
  <1> DEFINE I == Choice(C)
  <1>1. /\ C \subseteq Nat
        /\ \A i \in C : utils[i] \in Nat /\ bs[i] \in Nat
        /\ \A i \in C : bs[i] = Batch(instances[i]) /\ utils[i] = Tokens(instances[i])
    BY ListFacts, InvExact DEF LoadInv, CountersExact
  <1>2. CASE kind = "prefill"
    <2>1. I = Min({i \in C : \A j \in C : utils[i] <= utils[j]})
      BY <1>2 DEF Choice, PrefillChoice
    <2>2. I \in C /\ \A j \in C : utils[I] <= utils[j]
      BY <1>1, <2>1, Minimisers
    <2> QED
      BY <1>1, <1>2, <2>2 DEF AtMostAsLoaded
  <1>3. CASE kind # "prefill"
    <2> DEFINE B == {i \in C : \A j \in C : bs[i] <= bs[j]}
               D == {i \in B : \A j \in B : utils[i] <= utils[j]}
    <2>1. B # {} /\ Min(B) \in B
      BY <1>1, Minimisers
    <2>2. I = IF \E i \in B : bs[i] = 0 THEN Min(B) ELSE Min(D)
      BY <1>3 DEF Choice, DecodeChoice
    <2>3. Min(D) \in D
      BY <1>1, <2>1, Minimisers
    <2>4. I \in B
      BY <2>1, <2>2, <2>3
    <2>5. \A j \in B : utils[I] <= utils[j]
      <3>1. CASE \E i \in B : bs[i] = 0
        <4>1. bs[I] = 0
          BY <1>1, <2>4, <3>1
        <4>2. utils[I] = 0
          BY <1>1, <2>4, <4>1, LoadFacts DEF LoadInv
        <4> QED
          BY <1>1, <4>2
      <3>2. CASE ~ \E i \in B : bs[i] = 0
        BY <2>2, <2>3, <3>2
      <3> QED
        BY <3>1, <3>2
    <2>6. I \in C /\ \A j \in C : bs[I] <= bs[j]
      BY <2>4
    <2>7. ASSUME NEW j \in C PROVE bs[I] < bs[j] \/ (bs[I] = bs[j] /\ utils[I] <= utils[j])
      <3>1. CASE bs[I] = bs[j]
        <4>1. j \in B
          BY <2>6, <3>1
        <4> QED
          BY <2>5, <3>1, <4>1
      <3>2. CASE bs[I] # bs[j]
        BY <1>1, <2>6, <3>2
      <3> QED
        BY <3>1, <3>2
    <2> HIDE DEF I, B, D
    <2> QED
      BY <1>1, <1>3, <2>6, <2>7 DEF AtMostAsLoaded, I
  <1> QED
    BY <1>2, <1>3

\* Every index _schedule considers is an index of the list.
LEMMA CandidateFacts ==
    ASSUME LoadInv, NEW len, NEW maxTokens
    PROVE  Candidates(len, maxTokens) \in SUBSET DOMAIN instances
  BY ListFacts DEF LoadInv, Candidates

\* The index of a listed address.
LEMMA IndexFacts ==
    ASSUME LoadInv, NEW a \in ToSet(instances)
    PROVE  LET i == CHOOSE j \in DOMAIN instances : instances[j] = a
           IN  i \in DOMAIN instances /\ instances[i] = a
  BY DEF ToSet
-----------------------------------------------------------------------------
\* The policy starts with zero counters.
LEMMA InitLoad == Init => LoadInv
  <1> SUFFICES ASSUME Init PROVE LoadInv
    OBVIOUS
  <1>1. Len(Configured) \in Nat /\ DOMAIN Configured = 1 .. Len(Configured)
        /\ \A i \in 1 .. Len(Configured) : Configured[i] \in Addr
    BY LoadAssumption, LenProperties, ElementOfSeq
  <1>2. /\ utils \in Seq(Nat) /\ Len(utils) = Len(Configured)
        /\ bs \in Seq(Nat) /\ Len(bs) = Len(Configured)
        /\ modelLen \in Seq(Nat) /\ Len(modelLen) = Len(Configured)
    <2>1. \A i \in 1 .. Len(Configured) : ModelLen[Configured[i]] \in Nat
      BY <1>1, LoadAssumption
    <2> QED
      BY <1>1, <2>1, IsASeq, LenProperties DEF Init, Zeros
  <1>3. LoadTypeOK
    BY <1>2, LoadAssumption DEF Init, LoadTypeOK
  <1>4. Aligned
    BY <1>2 DEF Init, Aligned
  <1>5. HeldAreListed
    BY DEF Init, HeldAreListed
  <1>6. \A a \in Addr : On(a) = {}
    BY LoadAssumption DEF Init, On, NoHold
  <1>7. \A a \in Addr : Batch(a) = 0 /\ Tokens(a) = 0
    BY <1>3, <1>6, LoadFacts
  <1>8. EntriesExact
    BY <1>1, <1>2, <1>7 DEF Init, EntriesExact, Zeros
  <1> QED
    BY <1>3, <1>4, <1>5, <1>8 DEF LoadInv

\* Two states with the same list, holds and counters that changed at i alone.
LEMMA CountersMove ==
    ASSUME LoadInv, LoadTypeOK', Aligned', UNCHANGED <<instances, modelLen>>,
           NEW i \in DOMAIN instances, NEW a \in Addr, instances[i] = a,
           \A b \in Addr \ {a} : Batch(b)' = Batch(b) /\ Tokens(b)' = Tokens(b),
           \A j \in DOMAIN instances \ {i} : bs'[j] = bs[j] /\ utils'[j] = utils[j],
           bs'[i] = Batch(a)', utils'[i] = Tokens(a)'
    PROVE  EntriesExact'
  <1> SUFFICES ASSUME NEW j \in DOMAIN instances, NEW b \in Addr, instances[j] = b
               PROVE  modelLen[j] = ModelLen[b] /\ bs'[j] = Batch(b)' /\ utils'[j] = Tokens(b)'
    BY DEF EntriesExact
  <1>1. modelLen[j] = ModelLen[b] /\ bs[j] = Batch(b) /\ utils[j] = Tokens(b)
    BY DEF LoadInv, EntriesExact
  <1>2. CASE j = i
    BY <1>1, <1>2
  <1>3. CASE j # i
    <2>1. b # a
      BY <1>3 DEF LoadInv, LoadTypeOK, IsInjective
    <2> QED
      BY <1>1, <1>3, <2>1
  <1> QED
    BY <1>2, <1>3

\* A request is counted at an index of the list.
LEMMA ScheduleKeeps ==
    ASSUME LoadInv, NEW r \in Req, NEW len \in Lengths, NEW m \in MaxTokens,
           Schedule(r, len, m)
    PROVE  LoadInv'
  <1>1. LoadTypeOK /\ Aligned /\ HeldAreListed /\ EntriesExact
    BY DEF LoadInv
  <1>2. PICK i \in DOMAIN instances, a \in Addr :
             i = Choice(Candidates(len, TokensAsked(m))) /\ a = instances[i]
    <2> DEFINE C == Candidates(len, TokensAsked(m))
    <2>1. C \in SUBSET DOMAIN instances /\ C # {}
      BY CandidateFacts DEF Schedule
    <2> QED
      BY <1>1, <2>1, ChoiceFacts, ListFacts
  <1>3. /\ held[r] = NoHold
        /\ bs' = [bs EXCEPT ![i] = bs[i] + 1]
        /\ utils' = [utils EXCEPT ![i] = utils[i] + len]
        /\ held' = [held EXCEPT ![r] = [addr |-> a, len |-> len]]
        /\ UNCHANGED <<kind, instances, modelLen, available>>
    BY <1>2 DEF Schedule
  <1>4. /\ len \in Nat /\ utils[i] \in Nat /\ bs[i] \in Nat
        /\ i \in 1 .. Len(utils) /\ i \in 1 .. Len(bs)
        /\ utils[i] = Tokens(a) /\ bs[i] = Batch(a)
    BY <1>1, <1>2, ListFacts, LoadAssumption DEF Aligned, EntriesExact
  <1>5. /\ utils' \in Seq(Nat) /\ Len(utils') = Len(utils)
        /\ utils'[i] = utils[i] + len
        /\ \A j \in DOMAIN instances \ {i} : utils'[j] = utils[j]
    <2>1. utils[i] + len \in Nat
      BY <1>4
    <2> QED
      BY <1>1, <1>3, <1>4, <2>1, ExceptSeq, ListFacts DEF LoadTypeOK
  <1>6. /\ bs' \in Seq(Nat) /\ Len(bs') = Len(bs)
        /\ bs'[i] = bs[i] + 1
        /\ \A j \in DOMAIN instances \ {i} : bs'[j] = bs[j]
    <2>1. bs[i] + 1 \in Nat
      BY <1>4
    <2> QED
      BY <1>1, <1>3, <1>4, <2>1, ExceptSeq, ListFacts DEF LoadTypeOK
  <1>7. /\ held' \in [Req -> Hold \cup {NoHold}]
        /\ held'[r].addr = a /\ held'[r].len = len
        /\ \A q \in Req \ {r} : held'[q] = held[q]
    <2>1. [addr |-> a, len |-> len] \in Hold
      BY DEF Hold
    <2> QED
      BY <1>1, <1>3, <2>1 DEF LoadTypeOK
  <1>8. LoadTypeOK'
    BY <1>1, <1>3, <1>5, <1>6, <1>7 DEF LoadTypeOK
  <1>9. Aligned'
    BY <1>1, <1>3, <1>5, <1>6 DEF Aligned
  <1>10. HeldAreListed'
    <2>1. a \in ToSet(instances)
      BY <1>2 DEF ToSet
    <2> QED
      BY <1>1, <1>3, <1>7, <2>1 DEF HeldAreListed
  <1>11. /\ \A b \in Addr \ {a} : Batch(b)' = Batch(b) /\ Tokens(b)' = Tokens(b)
         /\ Batch(a)' = Batch(a) + 1
         /\ Tokens(a)' = Tokens(a) + len
    BY <1>1, <1>3, <1>7, <1>8, LoadMoves
  <1>12. EntriesExact'
    <2>1. bs'[i] = Batch(a)' /\ utils'[i] = Tokens(a)'
      BY <1>4, <1>5, <1>6, <1>11
    <2>2. UNCHANGED <<instances, modelLen>>
      BY <1>3
    <2>3. \A j \in DOMAIN instances \ {i} : bs'[j] = bs[j] /\ utils'[j] = utils[j]
      BY <1>5, <1>6
    <2> QED
      BY <1>2, <1>8, <1>9, <1>11, <2>1, <2>2, <2>3, CountersMove
  <1> QED
    BY <1>8, <1>9, <1>10, <1>12 DEF LoadInv

\* A request is counted out where it was counted in.  If no request is left,
\* every counter is reset, and every instance really is idle.
LEMMA CompleteKeeps ==
    ASSUME LoadInv, NEW r \in Req, Complete(r)
    PROVE  LoadInv'
  <1>1. LoadTypeOK /\ Aligned /\ HeldAreListed /\ EntriesExact
    BY DEF LoadInv
  <1>2. PICK a \in Addr, n \in Nat : a = held[r].addr /\ n = held[r].len /\ a \in ToSet(instances)
    BY <1>1, HoldFacts DEF Complete, HeldAreListed
  <1>3. PICK i \in DOMAIN instances :
             /\ i = (CHOOSE j \in DOMAIN instances : instances[j] = held[r].addr)
             /\ instances[i] = a
    BY <1>2, IndexFacts
  <1>4. /\ utils[i] \in Nat /\ bs[i] \in Nat
        /\ i \in 1 .. Len(utils) /\ i \in 1 .. Len(bs)
        /\ utils[i] = Tokens(a) /\ bs[i] = Batch(a)
    BY <1>1, <1>3, ListFacts DEF Aligned, EntriesExact
  <1>5. r \in On(a) /\ bs[i] # 0 /\ utils[i] - n \in Nat
    <2>1. r \in On(a)
      BY <1>2 DEF On
    <2>2. Batch(a) # 0
      BY <1>1, <2>1, LoadFacts
    <2>3. Tokens(a) = held[r].len + Total(Length, On(a) \ {r})
      BY <1>1, <2>1, LoadFacts
    <2>4. Total(Length, On(a) \ {r}) \in Nat
      <3>1. IsFiniteSet(On(a) \ {r}) /\ \A q \in On(a) \ {r} : Length[q] \in Nat
        BY <1>1, LoadFacts, FS_Subset
      <3> QED
        BY <3>1, TotalWithout
    <2> QED
      BY <1>2, <1>4, <2>1, <2>2, <2>3, <2>4
  <1> DEFINE left == [bs EXCEPT ![i] = bs[i] - 1]
  <1>6. /\ held[r] # NoHold
        /\ held' = [held EXCEPT ![r] = NoHold]
        /\ bs' = left
        /\ utils' = IF \A j \in DOMAIN left : left[j] = 0
                      THEN Zeros(Len(instances))
                      ELSE [utils EXCEPT ![i] = utils[i] - n]
        /\ UNCHANGED <<kind, instances, modelLen, available>>
    BY <1>2, <1>3, <1>5 DEF Complete
  <1> HIDE DEF left
  <1>7. /\ bs' \in Seq(Nat) /\ Len(bs') = Len(bs)
        /\ bs'[i] = bs[i] - 1
        /\ \A j \in DOMAIN instances \ {i} : bs'[j] = bs[j]
    <2>1. bs[i] - 1 \in Nat
      BY <1>4, <1>5
    <2> QED
      BY <1>1, <1>4, <1>6, <2>1, ExceptSeq, ListFacts DEF LoadTypeOK, left
  <1>8. utils' \in Seq(Nat) /\ Len(utils') = Len(utils)
    <2>1. [utils EXCEPT ![i] = utils[i] - n] \in Seq(Nat)
          /\ Len([utils EXCEPT ![i] = utils[i] - n]) = Len(utils)
      BY <1>1, <1>4, <1>5, ExceptSeq DEF LoadTypeOK
    <2>2. Zeros(Len(instances)) \in Seq(Nat) /\ Len(Zeros(Len(instances))) = Len(utils)
      BY <1>1, ListFacts DEF Zeros, Aligned
    <2> QED
      BY <1>6, <2>1, <2>2
  <1>9. /\ held' \in [Req -> Hold \cup {NoHold}]
        /\ held'[r] = NoHold
        /\ \A q \in Req \ {r} : held'[q] = held[q]
    BY <1>1, <1>6 DEF LoadTypeOK
  <1>10. LoadTypeOK'
    BY <1>1, <1>6, <1>7, <1>8, <1>9 DEF LoadTypeOK
  <1>11. Aligned'
    BY <1>1, <1>6, <1>7, <1>8 DEF Aligned
  <1>12. HeldAreListed'
    BY <1>1, <1>6, <1>9 DEF HeldAreListed
  <1>13. /\ \A b \in Addr \ {a} : Batch(b)' = Batch(b) /\ Tokens(b)' = Tokens(b)
         /\ Batch(a)' = Batch(a) - 1
         /\ Tokens(a)' = Tokens(a) - n
    BY <1>1, <1>2, <1>9, <1>10, LoadMoves
  <1>14. \A j \in DOMAIN instances, b \in Addr : instances[j] = b => bs'[j] = Batch(b)'
    <2> SUFFICES ASSUME NEW j \in DOMAIN instances, NEW b \in Addr, instances[j] = b
                 PROVE  bs'[j] = Batch(b)'
      OBVIOUS
    <2>1. CASE j = i
      BY <1>3, <1>4, <1>7, <1>13, <2>1
    <2>2. CASE j # i
      <3>1. b # a
        BY <1>1, <1>3, <2>2 DEF LoadTypeOK, IsInjective
      <3> QED
        BY <1>1, <1>7, <1>13, <2>2, <3>1 DEF EntriesExact
    <2> QED
      BY <2>1, <2>2
  <1>15. EntriesExact'
    <2>1. CASE \A j \in DOMAIN left : left[j] = 0
      <3>1. \A j \in DOMAIN instances : utils'[j] = 0 /\ bs'[j] = 0
        BY <1>1, <1>6, <1>7, <2>1, ListFacts, LenProperties DEF Zeros, Aligned
      <3>2. ASSUME NEW b \in Addr, Batch(b)' = 0 PROVE Tokens(b)' = 0
        <4>1. On(b)' = {}
          <5>1. IsFiniteSet(On(b)')
            BY LoadAssumption, FS_Subset DEF On
          <5> QED
            BY <3>2, <5>1, FS_EmptySet DEF Batch
        <4> QED
          BY <4>1, TotalWithout, FS_EmptySet DEF Tokens
      <3> QED
        BY <1>1, <1>6, <1>14, <3>1, <3>2 DEF EntriesExact
    <2>2. CASE ~ \A j \in DOMAIN left : left[j] = 0
      <3>1. utils' = [utils EXCEPT ![i] = utils[i] - n]
        BY <1>6, <2>2
      <3>2. /\ utils'[i] = utils[i] - n
            /\ \A j \in DOMAIN instances \ {i} : utils'[j] = utils[j]
        BY <1>1, <1>4, <3>1, ListFacts
      <3>3. bs'[i] = Batch(a)' /\ utils'[i] = Tokens(a)'
        BY <1>4, <1>7, <1>13, <3>2
      <3>4. UNCHANGED <<instances, modelLen>>
        BY <1>6
      <3> QED
        BY <1>3, <1>7, <1>10, <1>11, <1>13, <3>2, <3>3, <3>4, CountersMove
    <2> QED
      BY <2>1, <2>2
  <1> QED
    BY <1>10, <1>11, <1>12, <1>15 DEF LoadInv

\* Without a change of the holds the loads stay.
LEMMA SameLoad ==
    ASSUME UNCHANGED held, NEW a
    PROVE  Batch(a)' = Batch(a) /\ Tokens(a)' = Tokens(a)
  BY DEF Batch, Tokens, On, Length

\* A new instance is appended to every list; it holds no request yet.
LEMMA AddInstanceKeeps ==
    ASSUME LoadInv, NEW a \in Addr, AddInstance(a)
    PROVE  LoadInv'
  <1>1. LoadTypeOK /\ Aligned /\ HeldAreListed /\ EntriesExact
    BY DEF LoadInv
  <1>2. ModelLen[a] \in Nat
    BY LoadAssumption
  <1> DEFINE n == Len(instances)
  <1>3. /\ instances' \in Seq(Addr) /\ Len(instances') = n + 1
        /\ utils' \in Seq(Nat) /\ Len(utils') = n + 1
        /\ bs' \in Seq(Nat) /\ Len(bs') = n + 1
        /\ modelLen' \in Seq(Nat) /\ Len(modelLen') = n + 1
    BY <1>1, <1>2, AppendProperties DEF AddInstance, LoadTypeOK, Aligned
  <1>4. /\ instances'[n + 1] = a /\ utils'[n + 1] = 0
        /\ bs'[n + 1] = 0 /\ modelLen'[n + 1] = ModelLen[a]
    BY <1>1, <1>2, AppendProperties DEF AddInstance, LoadTypeOK, Aligned
  <1>5. \A j \in 1 .. n : /\ instances'[j] = instances[j] /\ utils'[j] = utils[j]
                          /\ bs'[j] = bs[j] /\ modelLen'[j] = modelLen[j]
    BY <1>1, <1>2, AppendProperties DEF AddInstance, LoadTypeOK, Aligned
  <1>6. IsInjective(instances') /\ ToSet(instances') = ToSet(instances) \cup {a}
    BY <1>1, AppendFacts DEF AddInstance, LoadTypeOK
  <1>7. LoadTypeOK'
    BY <1>1, <1>3, <1>6 DEF AddInstance, LoadTypeOK
  <1>8. Aligned'
    BY <1>3 DEF Aligned
  <1>9. HeldAreListed'
    BY <1>1, <1>6 DEF AddInstance, HeldAreListed
  <1>10. On(a) = {}
    <2>1. \A r \in Req : held[r].addr = a => a \in ToSet(instances)
      BY <1>1, HoldFacts DEF HeldAreListed
    <2> QED
      BY <2>1 DEF AddInstance, On
  <1>11. Batch(a) = 0 /\ Tokens(a) = 0
    BY <1>1, <1>10, LoadFacts
  <1>12. EntriesExact'
    <2> SUFFICES ASSUME NEW j \in DOMAIN instances', NEW b \in Addr, instances'[j] = b
                 PROVE  modelLen'[j] = ModelLen[b] /\ bs'[j] = Batch(b) /\ utils'[j] = Tokens(b)
      BY SameLoad, ZenonT(30) DEF AddInstance, EntriesExact
    <2>1. j \in 1 .. n \/ j = n + 1
      BY <1>1, <1>3, LenProperties, ListFacts
    <2>2. CASE j = n + 1
      BY <1>4, <1>11, <2>2
    <2>3. CASE j \in 1 .. n
      BY <1>1, <1>5, <2>3, ListFacts DEF EntriesExact
    <2> QED
      BY <2>1, <2>2, <2>3
  <1> QED
    BY <1>7, <1>8, <1>9, <1>12 DEF LoadInv

\* A drained instance leaves every list at the same index.
LEMMA RemoveInstanceKeeps ==
    ASSUME LoadInv, NEW a \in Addr, RemoveInstance(a)
    PROVE  LoadInv'
  <1>1. LoadTypeOK /\ Aligned /\ HeldAreListed /\ EntriesExact
    BY DEF LoadInv
  <1> DEFINE n == Len(instances)
  <1>2. PICK i \in 1 .. n :
             /\ i = (CHOOSE j \in DOMAIN instances : instances[j] = a)
             /\ instances[i] = a
    BY <1>1, IndexFacts, ListFacts DEF RemoveInstance
  <1> DEFINE old(j) == IF j < i THEN j ELSE j + 1
  <1>3. /\ instances' = RemoveAt(instances, i) /\ utils' = RemoveAt(utils, i)
        /\ bs' = RemoveAt(bs, i) /\ modelLen' = RemoveAt(modelLen, i)
        /\ available' = available \ {a} /\ UNCHANGED <<kind, held>>
        /\ \A r \in Req : held[r].addr # a
    BY <1>2 DEF RemoveInstance
  <1>4. ASSUME NEW S, NEW s \in Seq(S), Len(s) = n
         PROVE  /\ RemoveAt(s, i) \in Seq(S) /\ Len(RemoveAt(s, i)) = n - 1 /\ n \in Nat
                /\ \A j \in 1 .. n - 1 : RemoveAt(s, i)[j] = s[old(j)]
    BY <1>4, RemoveAtFacts
  <1> HIDE DEF old
  <1>5. /\ instances' \in Seq(Addr) /\ Len(instances') = n - 1 /\ n \in Nat
        /\ \A j \in 1 .. n - 1 : instances'[j] = instances[old(j)]
    BY <1>1, <1>3, <1>4 DEF LoadTypeOK
  <1>6. /\ utils' \in Seq(Nat) /\ Len(utils') = n - 1
        /\ \A j \in 1 .. n - 1 : utils'[j] = utils[old(j)]
    BY <1>1, <1>3, <1>4 DEF LoadTypeOK, Aligned
  <1>7. /\ bs' \in Seq(Nat) /\ Len(bs') = n - 1
        /\ \A j \in 1 .. n - 1 : bs'[j] = bs[old(j)]
    BY <1>1, <1>3, <1>4 DEF LoadTypeOK, Aligned
  <1>8. /\ modelLen' \in Seq(Nat) /\ Len(modelLen') = n - 1
        /\ \A j \in 1 .. n - 1 : modelLen'[j] = modelLen[old(j)]
    BY <1>1, <1>3, <1>4 DEF LoadTypeOK, Aligned
  <1>9. IsInjective(instances') /\ ToSet(instances') = ToSet(instances) \ {a}
    BY <1>1, <1>2, <1>3, RemoveAtInjective DEF LoadTypeOK
  <1>10. LoadTypeOK'
    BY <1>1, <1>3, <1>5, <1>6, <1>7, <1>8, <1>9 DEF LoadTypeOK
  <1>11. Aligned'
    BY <1>5, <1>6, <1>7, <1>8 DEF Aligned
  <1>12. HeldAreListed'
    BY <1>1, <1>3, <1>9 DEF HeldAreListed
  <1>13. EntriesExact'
    <2> SUFFICES ASSUME NEW j \in DOMAIN instances', NEW b \in Addr, instances'[j] = b
                 PROVE  modelLen'[j] = ModelLen[b] /\ bs'[j] = Batch(b) /\ utils'[j] = Tokens(b)
      BY <1>3, SameLoad DEF EntriesExact
    <2>1. j \in 1 .. n - 1
      BY <1>5, LenProperties
    <2>2. old(j) \in DOMAIN instances
      BY <1>1, <1>5, <2>1, ListFacts DEF old
    <2> QED
      BY <1>1, <1>5, <1>6, <1>7, <1>8, <2>1, <2>2, ZenonT(30) DEF EntriesExact
  <1> QED
    BY <1>10, <1>11, <1>12, <1>13 DEF LoadInv

\* Every step of the policy keeps the counters exact.
LEMMA NextLoad == LoadInv /\ [Next]_vars => LoadInv'
  <1> SUFFICES ASSUME LoadInv, [Next]_vars PROVE LoadInv'
    OBVIOUS
  <1>1. ASSUME NEW a \in Addr, AvailabilityChanges(a) PROVE LoadInv'
    <2>1. LoadTypeOK'
      BY <1>1 DEF LoadInv, LoadTypeOK, AvailabilityChanges, tables
    <2>2. Aligned' /\ HeldAreListed'
      BY <1>1 DEF LoadInv, Aligned, HeldAreListed, AvailabilityChanges, tables
    <2>3. EntriesExact'
      BY <1>1, SameLoad DEF LoadInv, EntriesExact, AvailabilityChanges, tables
    <2> QED
      BY <2>1, <2>2, <2>3 DEF LoadInv
  <1>2. ASSUME UNCHANGED vars PROVE LoadInv'
    <2>1. LoadTypeOK'
      BY <1>2 DEF LoadInv, LoadTypeOK, vars, tables
    <2>2. Aligned' /\ HeldAreListed'
      BY <1>2 DEF LoadInv, Aligned, HeldAreListed, vars, tables
    <2>3. EntriesExact'
      BY <1>2, SameLoad DEF LoadInv, EntriesExact, vars, tables
    <2> QED
      BY <2>1, <2>2, <2>3 DEF LoadInv
  <1> QED
    BY <1>1, <1>2, ScheduleKeeps, CompleteKeeps, AddInstanceKeeps,
       RemoveInstanceKeeps DEF Next

\* The inductive invariant holds in every reachable state.
THEOREM LoadInvariant == Spec => []LoadInv
  BY InitLoad, NextLoad, PTL DEF Spec

\* The lists stay lists of the right things, without a repeated instance.
THEOREM LoadTypeCorrect == Spec => []LoadTypeOK
  <1>1. LoadInv => LoadTypeOK
    BY DEF LoadInv
  <1> QED
    BY <1>1, LoadInvariant, PTL

\* The counters are what the requests in flight add up to.
THEOREM CountersAlwaysExact == Spec => []CountersExact
  BY InvExact, LoadInvariant, PTL

\* A request that is scheduled goes to a least-loaded instance of those that
\* admit it: the choice looks at every candidate, and counters are real loads.
LEMMA ScheduleLeast ==
    ASSUME LoadInv, NEW r \in Req, NEW len \in Lengths, NEW m \in MaxTokens,
           Schedule(r, len, m)
    PROVE  GivenLeastLoaded(r, len + TokensAsked(m))
  <1> DEFINE need == len + TokensAsked(m)
             C == Candidates(len, TokensAsked(m))
             i == Choice(C)
             a == instances[i]
  <1>1. LoadTypeOK /\ Aligned /\ EntriesExact
    BY DEF LoadInv
  <1>2. C \in SUBSET DOMAIN instances /\ C # {}
    BY CandidateFacts DEF Schedule
  <1>3. held'[r] = [addr |-> a, len |-> len]
    BY <1>1 DEF Schedule, LoadTypeOK
  <1>4. i \in C /\ \A j \in C : AtMostAsLoaded(a, instances[j])
    BY <1>2, ChoiceFacts
  <1>5. \A j \in DOMAIN instances :
            instances[j] \in Addr /\ modelLen[j] = ModelLen[instances[j]]
    BY <1>1, ListFacts DEF EntriesExact
  <1>6. \A j \in DOMAIN instances :
            j \in C <=> need <= modelLen[j] /\ instances[j] \in available
    BY <1>1, ListFacts DEF Candidates
  <1> HIDE DEF C, i, need
  <1>7. a \in available /\ need <= ModelLen[a]
    BY <1>2, <1>4, <1>5, <1>6
  <1>8. ASSUME NEW b \in available, need <= ModelLen[b]
        PROVE  AtMostAsLoaded(a, b)
    <2>1. PICK j \in DOMAIN instances : instances[j] = b
      BY <1>1 DEF LoadTypeOK, ToSet
    <2>2. j \in C
      BY <1>5, <1>6, <1>8, <2>1
    <2> QED
      BY <1>4, <2>1, <2>2
  <1>9. held'[r].addr = a
    BY <1>3
  <1> QED
    BY <1>7, <1>8, <1>9 DEF GivenLeastLoaded, need

\* Every request is given an instance of the least real load among all the
\* available instances that admit it.
THEOREM AlwaysLeastLoaded == Spec => LeastLoaded
  <1>1. LoadInv /\ [Next]_vars =>
            [\A r \in Req, len \in Lengths, m \in MaxTokens :
                Schedule(r, len, m) => GivenLeastLoaded(r, len + TokensAsked(m))]_vars
    BY ScheduleLeast
  <1> QED
    BY <1>1, LoadInvariant, PTL DEF Spec, LeastLoaded
=============================================================================
