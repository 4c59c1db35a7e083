-------------------------- MODULE CollectionFacts --------------------------
(***************************************************************************)
(* What the operations on lists and the sums of the models compute, for    *)
(* every argument.  The definitions are recursive; each fact is shown for  *)
(* the least argument it could fail for, which cannot exist: a non-empty   *)
(* set of naturals has a least element.                                    *)
(***************************************************************************)
EXTENDS Collections, SequenceTheorems, FiniteSetTheorems,
        WellFoundedInduction, TLAPS

\* A non-empty set of naturals has a least element.
LEMMA LeastElement ==
    ASSUME NEW T, T \subseteq Nat, T # {}
    PROVE  \E x \in T : \A y \in T : x <= y
  <1> DEFINE R == OpToRel(<, Nat)
  <1>1. IsWellFoundedOn(R, Nat)
    BY NatLessThanWellFounded
  <1>2. \A x, y \in Nat : x < y => <<x, y>> \in R
    BY DEF OpToRel
  <1> HIDE DEF R
  <1>3. PICK x \in T : \A y \in T : ~(<<y, x>> \in R)
    BY <1>1, WFMin
  <1>4. ASSUME NEW y \in T PROVE x <= y
    <2>1. x \in Nat /\ y \in Nat
      OBVIOUS
    <2>2. ~(y < x)
      BY <1>2, <1>3, <2>1
    <2> QED
      BY <2>1, <2>2
  <1> QED
    BY <1>4

-----------------------------------------------------------------------------
(* Lists *)

\* list.append
LEMMA AppendFacts ==
    ASSUME NEW S, NEW s \in Seq(S), NEW x \in S
    PROVE  /\ Append(s, x) \in Seq(S)
           /\ ToSet(Append(s, x)) = ToSet(s) \cup {x}
           /\ IsInjective(s) /\ x \notin ToSet(s) => IsInjective(Append(s, x))
  <1> DEFINE t == Append(s, x)
  <1>1. /\ t \in Seq(S) /\ Len(s) \in Nat
        /\ DOMAIN s = 1 .. Len(s) /\ DOMAIN t = 1 .. Len(s) + 1
        /\ \A i \in 1 .. Len(s) : t[i] = s[i]
        /\ t[Len(s) + 1] = x
    BY AppendProperties, LenProperties
  <1> HIDE DEF t
  <1>2. DOMAIN t = DOMAIN s \cup {Len(s) + 1}
    BY <1>1
  <1>3. ToSet(t) = ToSet(s) \cup {x}
    BY <1>1, <1>2 DEF ToSet
  <1>4. ASSUME IsInjective(s), x \notin ToSet(s),
               NEW i \in DOMAIN t, NEW j \in DOMAIN t, t[i] = t[j]
        PROVE  i = j
    <2>1. CASE i \in DOMAIN s /\ j \in DOMAIN s
      BY <1>1, <1>4, <2>1 DEF IsInjective
    <2>2. CASE i = Len(s) + 1 /\ j \in DOMAIN s
      BY <1>1, <1>4, <2>2 DEF ToSet
    <2>3. CASE j = Len(s) + 1 /\ i \in DOMAIN s
      BY <1>1, <1>4, <2>3 DEF ToSet
    <2> QED
      BY <1>2, <2>1, <2>2, <2>3
  <1> QED
    BY <1>1, <1>3, <1>4 DEF IsInjective, t

\* list.pop(i): the entries after i move up by one.
LEMMA RemoveAtFacts ==
    ASSUME NEW S, NEW s \in Seq(S), NEW i \in 1 .. Len(s)
    PROVE  /\ RemoveAt(s, i) \in Seq(S)
           /\ Len(s) \in Nat
           /\ Len(RemoveAt(s, i)) = Len(s) - 1
           /\ \A j \in 1 .. Len(s) - 1 :
                 RemoveAt(s, i)[j] = IF j < i THEN s[j] ELSE s[j + 1]
  <1> DEFINE l == SubSeq(s, 1, i - 1)
             r == SubSeq(s, i + 1, Len(s))
  <1>1. Len(s) \in Nat /\ i \in Nat
    BY LenProperties
  <1>2. /\ l \in Seq(S) /\ Len(l) = i - 1
        /\ \A j \in 1 .. i - 1 : l[j] = s[j]
    BY <1>1, SubSeqProperties
  <1>3. /\ r \in Seq(S) /\ Len(r) = Len(s) - i
        /\ \A j \in 1 .. Len(s) - i : r[j] = s[i + j]
    BY <1>1, SubSeqProperties
  <1>4. RemoveAt(s, i) = l \o r
    BY DEF RemoveAt
  <1> HIDE DEF l, r
  <1>5. /\ l \o r \in Seq(S) /\ Len(l \o r) = Len(s) - 1
        /\ \A j \in 1 .. Len(s) - 1 :
              (l \o r)[j] = IF j < i THEN s[j] ELSE s[j + 1]
    BY <1>1, <1>2, <1>3, ConcatProperties
  <1> QED
    BY <1>1, <1>4, <1>5

\* Popping an entry of a list without repetitions removes just that value.
LEMMA RemoveAtInjective ==
    ASSUME NEW S, NEW s \in Seq(S), IsInjective(s), NEW i \in 1 .. Len(s)
    PROVE  /\ IsInjective(RemoveAt(s, i))
           /\ ToSet(RemoveAt(s, i)) = ToSet(s) \ {s[i]}
  <1> DEFINE t == RemoveAt(s, i)
             old(j) == IF j < i THEN j ELSE j + 1
  <1>1. /\ Len(s) \in Nat /\ DOMAIN s = 1 .. Len(s) /\ DOMAIN t = 1 .. Len(s) - 1
        /\ \A j \in DOMAIN t : t[j] = s[old(j)]
    BY RemoveAtFacts, LenProperties, ZenonT(30)
  <1>2. \A j \in DOMAIN t : old(j) \in DOMAIN s /\ old(j) # i
    BY <1>1
  <1>3. \A j, k \in DOMAIN t : old(j) = old(k) => j = k
    BY <1>1
  <1>4. ASSUME NEW k \in DOMAIN s, k # i PROVE \E j \in DOMAIN t : old(j) = k
    <2>1. CASE k < i
      BY <1>1, <2>1
    <2>2. CASE k > i
      <3>1. k - 1 \in DOMAIN t /\ old(k - 1) = k
        BY <1>1, <2>2
      <3> QED
        BY <3>1
    <2> QED
      BY <1>1, <1>4, <2>1, <2>2
  <1> HIDE DEF t, old
  <1>5. IsInjective(t)
    BY <1>1, <1>2, <1>3 DEF IsInjective
  <1>6. ToSet(t) = ToSet(s) \ {s[i]}
    BY <1>1, <1>2, <1>4 DEF ToSet, IsInjective
  <1> QED
    BY <1>5, <1>6 DEF t

\* list.remove(x)
LEMMA RemoveFirstFacts ==
    ASSUME NEW S, NEW s \in Seq(S), IsInjective(s), NEW x
    PROVE  /\ RemoveFirst(s, x) \in Seq(S)
           /\ IsInjective(RemoveFirst(s, x))
           /\ ToSet(RemoveFirst(s, x)) = ToSet(s) \ {x}
  <1>1. Len(s) \in Nat /\ DOMAIN s = 1 .. Len(s)
    BY LenProperties
  <1>2. CASE x \in ToSet(s)
    <2> DEFINE I == {i \in 1 .. Len(s) : s[i] = x}
    <2>1. I # {} /\ I \subseteq Nat
      BY <1>1, <1>2 DEF ToSet
    <2>2. Min(I) \in I
      BY <2>1, LeastElement DEF Min
    <2>3. RemoveFirst(s, x) = RemoveAt(s, Min(I))
      <3>1. \E i \in 1 .. Len(s) : s[i] = x
        BY <2>1
      <3>2. SelectInSeq(s, LAMBDA v : v = x) = Min(I)
        BY <2>1, Zenon DEF SelectInSeq
      <3> QED
        BY <3>1, <3>2, Zenon DEF RemoveFirst
    <2>4. Min(I) \in 1 .. Len(s) /\ s[Min(I)] = x
      BY <2>2
    <2> HIDE DEF I
    <2>5. /\ RemoveAt(s, Min(I)) \in Seq(S)
          /\ IsInjective(RemoveAt(s, Min(I)))
          /\ ToSet(RemoveAt(s, Min(I))) = ToSet(s) \ {s[Min(I)]}
      BY <2>4, RemoveAtFacts, RemoveAtInjective
    <2> QED
      BY <2>3, <2>4, <2>5
  <1>3. CASE x \notin ToSet(s)
    <2>1. RemoveFirst(s, x) = s
      BY <1>1, <1>3 DEF RemoveFirst, ToSet
    <2> QED
      BY <1>3, <2>1
  <1> QED
    BY <1>2, <1>3

\* list.remove(x) on any list: only an x can be missing afterwards.
LEMMA RemoveFirstKeeps ==
    ASSUME NEW S, NEW s \in Seq(S), NEW x
    PROVE  /\ RemoveFirst(s, x) \in Seq(S)
           /\ \A y \in ToSet(s) : y # x => y \in ToSet(RemoveFirst(s, x))
  <1>1. Len(s) \in Nat /\ DOMAIN s = 1 .. Len(s)
    BY LenProperties
  <1>2. CASE x \in ToSet(s)
    <2> DEFINE I == {i \in 1 .. Len(s) : s[i] = x}
               m == Min(I)
               t == RemoveAt(s, m)
    <2>1. I # {} /\ I \subseteq Nat
      BY <1>1, <1>2 DEF ToSet
    <2>2. m \in I
      BY <2>1, LeastElement DEF Min
    <2>3. RemoveFirst(s, x) = t
      <3>1. \E i \in 1 .. Len(s) : s[i] = x
        BY <2>1
      <3>2. SelectInSeq(s, LAMBDA v : v = x) = m
        BY <2>1, Zenon DEF SelectInSeq
      <3> QED
        BY <3>1, <3>2, Zenon DEF RemoveFirst
    <2>4. m \in 1 .. Len(s) /\ s[m] = x
      BY <2>2
    <2> HIDE DEF I, m
    <2>5. /\ t \in Seq(S) /\ DOMAIN t = 1 .. Len(s) - 1
          /\ \A j \in 1 .. Len(s) - 1 : t[j] = IF j < m THEN s[j] ELSE s[j + 1]
      BY <2>4, RemoveAtFacts, LenProperties
    <2> HIDE DEF t
    <2>6. ASSUME NEW k \in 1 .. Len(s), s[k] # x PROVE \E j \in DOMAIN t : t[j] = s[k]
      <3>1. CASE k < m
        <4>1. k \in 1 .. Len(s) - 1
          BY <1>1, <2>4, <3>1
        <4> QED
          BY <2>5, <3>1, <4>1
      <3>2. CASE k > m
        <4>1. k - 1 \in 1 .. Len(s) - 1 /\ ~(k - 1 < m) /\ (k - 1) + 1 = k
          BY <1>1, <2>4, <3>2
        <4> QED
          BY <2>5, <4>1
      <3> QED
        BY <1>1, <2>4, <2>6, <3>1, <3>2
    <2> QED
      BY <1>1, <2>3, <2>5, <2>6 DEF ToSet
  <1>3. CASE x \notin ToSet(s)
    <2>1. RemoveFirst(s, x) = s
      BY <1>1, <1>3 DEF RemoveFirst, ToSet
    <2> QED
      BY <2>1
  <1> QED
    BY <1>2, <1>3
-----------------------------------------------------------------------------
(* Filters *)

\* t, with x if the filter lets it pass.
Extended(t, x, C) == IF x \in C THEN Append(t, x) ELSE t

\* g holds what the comprehension has after each of the first n entries.
Filters(g, s, C, n) ==
    g[0] = << >> /\ \A i \in 1 .. n : g[i] = Extended(g[i - 1], s[i], C)

\* There is such a function: the recursion of Where defines something.
LEMMA FiltersExist ==
    ASSUME NEW S, NEW s \in Seq(S), NEW C
    PROVE  \E g \in [0 .. Len(s) -> Seq(S)] : Filters(g, s, C, Len(s))
  <1> DEFINE Good(n) == \E g \in [0 .. n -> Seq(S)] : Filters(g, s, C, n)
             Bad == {n \in 0 .. Len(s) : ~Good(n)}
  <1>1. Good(0)
    <2> DEFINE z == [i \in 0 .. 0 |-> << >>]
    <2>1. z \in [0 .. 0 -> Seq(S)] /\ Filters(z, s, C, 0)
      BY DEF Filters
    <2> QED
      BY <2>1
  <1>2. ASSUME NEW n \in 1 .. Len(s), Good(n - 1) PROVE Good(n)
    <2>1. PICK g \in [0 .. n - 1 -> Seq(S)] : Filters(g, s, C, n - 1)
      BY <1>2
    <2> DEFINE last == Extended(g[n - 1], s[n], C)
               h == [i \in 0 .. n |-> IF i < n THEN g[i] ELSE last]
    <2>2. last \in Seq(S)
      <3>1. g[n - 1] \in Seq(S) /\ s[n] \in S
        BY ElementOfSeq
      <3> QED
        BY <3>1 DEF Extended
    <2>3. h \in [0 .. n -> Seq(S)]
      BY <2>2
    <2>4. \A i \in 0 .. n - 1 : h[i] = g[i]
      OBVIOUS
    <2>5. h[n] = last
      OBVIOUS
    <2> HIDE DEF h
    <2>6. Filters(h, s, C, n)
      <3>1. h[0] = << >> /\ h[n] = Extended(h[n - 1], s[n], C)
        BY <2>1, <2>4, <2>5 DEF Filters
      <3>2. ASSUME NEW i \in 1 .. n - 1
            PROVE  h[i] = Extended(h[i - 1], s[i], C)
        <4>1. i \in 0 .. n - 1 /\ i - 1 \in 0 .. n - 1
          OBVIOUS
        <4> QED
          BY <2>1, <2>4, <4>1 DEF Filters
      <3> QED
        BY <3>1, <3>2 DEF Filters
    <2> QED
      BY <2>3, <2>6
  <1>3. Len(s) \in Nat
    BY LenProperties
  <1>4. Bad = {}
    <2> SUFFICES ASSUME Bad # {} PROVE FALSE
      OBVIOUS
    <2> HIDE DEF Good
    <2>0. Bad \subseteq Nat
      BY <1>3
    <2>1. PICK n \in Bad : \A k \in Bad : n <= k
      BY <2>0, LeastElement
    <2>2. n \in 1 .. Len(s)
      BY <2>1, <1>1, <1>3
    <2>3. Good(n - 1)
      BY <2>1, <2>2, <1>3
    <2> QED
      BY <2>1, <2>2, <2>3, <1>2
  <1> QED
    BY <1>3, <1>4

\* Where is the last value of one.
LEMMA WhereFilters ==
    ASSUME NEW S, NEW s \in Seq(S), NEW C
    PROVE  \E g : Filters(g, s, C, Len(s)) /\ Where(s, C) = g[Len(s)]
  <1> DEFINE Step(g, i) == IF i = 0 THEN << >>
                           ELSE IF s[i] \in C THEN Append(g[i - 1], s[i]) ELSE g[i - 1]
             Eq(g) == g = [i \in 0 .. Len(s) |-> Step(g, i)]
             it == CHOOSE g : Eq(g)
  <1>1. Len(s) \in Nat
    BY LenProperties
  <1>2. ASSUME NEW g, NEW i \in 1 .. Len(s)
        PROVE  Step(g, i) = Extended(g[i - 1], s[i], C)
    BY DEF Extended
  <1>3. \A g : Step(g, 0) = << >>
    OBVIOUS
  <1>4. 0 .. Len(s) = {0} \cup 1 .. Len(s)
    BY <1>1
  <1>5. Where(s, C) = it[Len(s)]
    BY Zenon DEF Where
  <1> HIDE DEF Step
  <1>6. PICK f \in [0 .. Len(s) -> Seq(S)] : Filters(f, s, C, Len(s))
    BY FiltersExist
  <1>7. \A i \in 0 .. Len(s) : f[i] = Step(f, i)
    BY <1>2, <1>3, <1>4, <1>6 DEF Filters
  <1>8. Eq(f)
    BY <1>7
  <1>9. Eq(it)
    BY <1>8
  <1> HIDE DEF it
  <1>10. Filters(it, s, C, Len(s))
    BY <1>1, <1>2, <1>3, <1>9 DEF Filters
  <1> QED
    BY <1>5, <1>10

\* A comprehension keeps exactly the entries that pass, each as often.
LEMMA WhereFacts ==
    ASSUME NEW S, NEW s \in Seq(S), NEW C
    PROVE  /\ Where(s, C) \in Seq(S)
           /\ ToSet(Where(s, C)) = ToSet(s) \cap C
           /\ IsInjective(s) => IsInjective(Where(s, C))
  <1>1. PICK g : Filters(g, s, C, Len(s)) /\ Where(s, C) = g[Len(s)]
    BY WhereFilters
  <1>2. Len(s) \in Nat /\ DOMAIN s = 1 .. Len(s) /\ \A i \in 1 .. Len(s) : s[i] \in S
    BY LenProperties, ElementOfSeq
  <1> DEFINE First(n) == {s[i] : i \in 1 .. n}
             Good(n) == /\ g[n] \in Seq(S)
                        /\ ToSet(g[n]) = First(n) \cap C
                        /\ IsInjective(s) => IsInjective(g[n])
             Bad == {n \in 0 .. Len(s) : ~Good(n)}
  <1>3. Good(0)
    <2>1. g[0] = << >>
      BY <1>1, <1>2 DEF Filters
    <2>2. ToSet(<< >>) = {}
      BY DEF ToSet
    <2>3. First(0) = {}
      OBVIOUS
    <2>4. IsInjective(<< >>)
      BY DEF IsInjective
    <2> QED
      BY <2>1, <2>2, <2>3, <2>4
  <1>4. ASSUME NEW n \in 1 .. Len(s), Good(n - 1) PROVE Good(n)
    <2> DEFINE before == g[n - 1]
    <2>1. before \in Seq(S) /\ s[n] \in S /\ n - 1 \in 0 .. Len(s) /\ n \in 0 .. Len(s)
      BY <1>2, <1>4
    <2>2. First(n) = First(n - 1) \cup {s[n]}
      <3>1. 1 .. n = (1 .. n - 1) \cup {n}
        BY <1>2
      <3> QED
        BY <3>1
    <2>3. CASE s[n] \in C
      <3>1. g[n] = Append(before, s[n])
        BY <1>1, <2>3 DEF Filters, Extended
      <3>2. /\ g[n] \in Seq(S)
            /\ ToSet(g[n]) = ToSet(before) \cup {s[n]}
            /\ IsInjective(before) /\ s[n] \notin ToSet(before) => IsInjective(g[n])
        BY <2>1, <3>1, AppendFacts
      <3>3. ASSUME IsInjective(s), NEW i \in 1 .. n - 1 PROVE s[n] # s[i]
        <4>1. i \in DOMAIN s /\ n \in DOMAIN s /\ i # n
          BY <1>2
        <4> QED
          BY <3>3, <4>1 DEF IsInjective
      <3> QED
        BY <1>4, <2>2, <2>3, <3>2, <3>3
    <2>4. CASE s[n] \notin C
      <3>1. g[n] = before
        BY <1>1, <2>4 DEF Filters, Extended
      <3> QED
        BY <1>4, <2>2, <2>4, <3>1
    <2> QED
      BY <2>3, <2>4
  <1> HIDE DEF Good
  <1>5. Bad = {}
    <2> SUFFICES ASSUME Bad # {} PROVE FALSE
      OBVIOUS
    <2>0. Bad \subseteq Nat
      BY <1>2
    <2>1. PICK n \in Bad : \A k \in Bad : n <= k
      BY <2>0, LeastElement
    <2>2. n \in 1 .. Len(s)
      BY <2>1, <1>2, <1>3
    <2>3. Good(n - 1)
      BY <2>1, <2>2, <1>2
    <2> QED
      BY <2>1, <2>2, <2>3, <1>4
  <1>6. Good(Len(s))
    BY <1>2, <1>5
  <1>7. First(Len(s)) = ToSet(s)
    BY <1>2 DEF ToSet
  <1> QED
    BY <1>1, <1>6, <1>7 DEF Good
-----------------------------------------------------------------------------
(* Sums *)

\* The element a sum takes first.
One(s) == CHOOSE x \in s : TRUE

\* g adds up the weights w on each set of F.
Sums(g, w, F) ==
    \A s \in F : g[s] = IF s = {} THEN 0 ELSE w[One(s)] + g[s \ {One(s)}]

UpTo(R, n) == {s \in SUBSET R : Cardinality(s) <= n}

\* A set without one of its elements is smaller by one.
LEMMA OneLess ==
    ASSUME NEW R, IsFiniteSet(R), NEW s \in SUBSET R, NEW x \in s
    PROVE  /\ Cardinality(s) \in Nat /\ Cardinality(s) > 0
           /\ s \ {x} \in SUBSET R 
           /\ Cardinality(s \ {x}) = Cardinality(s) - 1
  <1>1. IsFiniteSet(s)
    BY FS_Subset
  <1>2. Cardinality(s) \in Nat /\ Cardinality(s \ {x}) = Cardinality(s) - 1
    BY <1>1, FS_CardinalityType, FS_RemoveElement
  <1>3. Cardinality(s) # 0
    BY <1>1, FS_EmptySet
  <1> QED
    BY <1>2, <1>3

\* One picks an element.
LEMMA OneIn == ASSUME NEW s, s # {} PROVE One(s) \in s
  BY DEF One

\* There are sums: the recursion of Total defines something.
LEMMA SumsExist ==
    ASSUME NEW R, IsFiniteSet(R), NEW w, \A x \in R : w[x] \in Nat
    PROVE  \E g \in [SUBSET R -> Nat] : Sums(g, w, SUBSET R)
  <1> DEFINE Good(n) == \E g \in [UpTo(R, n) -> Nat] : Sums(g, w, UpTo(R, n))
             Bad == {n \in Nat : ~Good(n)}
  <1>1. Good(0)
    <2> DEFINE z == [s \in UpTo(R, 0) |-> 0]
    <2>1. ASSUME NEW s \in UpTo(R, 0), NEW x \in s PROVE FALSE
      <3>1. s \in SUBSET R /\ Cardinality(s) <= 0
        BY DEF UpTo
      <3>2. Cardinality(s) \in Nat /\ Cardinality(s) > 0
        BY <3>1, OneLess
      <3> QED
        BY <3>1, <3>2
    <2>2. Sums(z, w, UpTo(R, 0))
      BY <2>1 DEF Sums
    <2> QED
      BY <2>2
  <1>2. ASSUME NEW n \in Nat, n > 0, Good(n - 1) PROVE Good(n)
    <2>1. PICK g \in [UpTo(R, n - 1) -> Nat] : Sums(g, w, UpTo(R, n - 1))
      BY <1>2
    <2> DEFINE Step(s) == IF s = {} THEN 0 ELSE w[One(s)] + g[s \ {One(s)}]
               h == [s \in UpTo(R, n) |-> Step(s)]
    <2>2. ASSUME NEW s \in UpTo(R, n), s # {}
          PROVE  One(s) \in R /\ s \ {One(s)} \in UpTo(R, n - 1)
      BY <2>2, OneIn, OneLess DEF UpTo
    <2>3. h \in [UpTo(R, n) -> Nat]
      <3>1. \A s \in UpTo(R, n) : Step(s) \in Nat
        BY <2>2
      <3> QED
        BY <3>1
    <2>4. UpTo(R, n - 1) \subseteq UpTo(R, n)
      <3>1. \A s \in SUBSET R : Cardinality(s) \in Nat
        BY FS_Subset, FS_CardinalityType
      <3> QED
        BY <3>1 DEF UpTo
    <2>5. \A s \in UpTo(R, n - 1) : h[s] = g[s]
      BY <2>1, <2>4 DEF Sums
    <2>6. Sums(h, w, UpTo(R, n))
      BY <2>2, <2>4, <2>5 DEF Sums
    <2> QED
      BY <2>3, <2>6
  <1>3. Bad = {}
    <2> SUFFICES ASSUME Bad # {} PROVE FALSE
      OBVIOUS
    <2>1. PICK n \in Bad : \A k \in Bad : n <= k
      BY LeastElement
    <2>2. n > 0
      BY <2>1, <1>1
    <2>3. Good(n - 1)
      BY <2>1, <2>2
    <2> QED
      BY <2>1, <2>2, <2>3, <1>2
  <1> DEFINE N == Cardinality(R)
  <1>4. N \in Nat /\ UpTo(R, N) = SUBSET R
    BY FS_CardinalityType, FS_Subset DEF UpTo
  <1>5. Good(N)
    BY <1>3, <1>4
  <1> QED
    BY <1>4, <1>5

\* Two such functions agree wherever the weights do.
LEMMA SumsAgree ==
    ASSUME NEW R, IsFiniteSet(R), NEW S \in SUBSET R, NEW w, NEW v,
           \A x \in S : w[x] = v[x],
           NEW g, Sums(g, w, SUBSET S), NEW h, Sums(h, v, SUBSET R)
    PROVE  g[S] = h[S]
  <1> DEFINE Bad == {Cardinality(s) : s \in {t \in SUBSET S : g[t] # h[t]}}
  <1>1. Bad \subseteq Nat
    BY FS_Subset, FS_CardinalityType
  <1>2. Bad = {}
    <2> SUFFICES ASSUME Bad # {} PROVE FALSE
      OBVIOUS
    <2>1. PICK n \in Bad : \A k \in Bad : n <= k
      BY <1>1, LeastElement
    <2>2. PICK s \in SUBSET S : g[s] # h[s] /\ Cardinality(s) = n
      BY <2>1
    <2>3. s # {}
      BY <2>2 DEF Sums
    <2>4. One(s) \in s
      BY <2>3, OneIn
    <2> DEFINE r == s \ {One(s)}
    <2>5. Cardinality(r) < n /\ Cardinality(r) \in Nat
      BY <2>2, <2>4, OneLess
    <2>6. g[r] = h[r]
      BY <2>1, <2>5, <1>1
    <2>7. g[s] = w[One(s)] + g[r] /\ h[s] = v[One(s)] + h[r]
      BY <2>3 DEF Sums
    <2> QED
      BY <2>2, <2>4, <2>6, <2>7
  <1> QED
    BY <1>2

\* The order of the addition does not matter: any element may come first.
LEMMA SumsRemove ==
    ASSUME NEW R, IsFiniteSet(R), NEW w, \A x \in R : w[x] \in Nat,
           NEW g \in [SUBSET R -> Nat], Sums(g, w, SUBSET R),
           NEW S \in SUBSET R, NEW x \in S
    PROVE  g[S] = w[x] + g[S \ {x}]
  <1> DEFINE Wrong == {t \in SUBSET R : \E y \in t : g[t] # w[y] + g[t \ {y}]}
             Bad == {Cardinality(t) : t \in Wrong}
  <1>1. Bad \subseteq Nat
    BY FS_Subset, FS_CardinalityType
  <1>2. Bad = {}
    <2> SUFFICES ASSUME Bad # {} PROVE FALSE
      OBVIOUS
    <2>1. PICK n \in Bad : \A k \in Bad : n <= k
      BY <1>1, LeastElement
    <2>2. PICK s \in SUBSET R : s \in Wrong /\ Cardinality(s) = n
      BY <2>1
    <2>3. PICK y \in s : g[s] # w[y] + g[s \ {y}]
      BY <2>2
    <2> DEFINE c == One(s)
    <2>4. c \in s
      BY <2>3, OneIn
    <2>5. g[s] = w[c] + g[s \ {c}]
      BY <2>3 DEF Sums
    <2>6. c # y
      BY <2>3, <2>5
    <2>7. ASSUME NEW z \in s PROVE s \ {z} \notin Wrong
      <3>1. s \ {z} \in SUBSET R /\ Cardinality(s \ {z}) < n
        BY <2>2, OneLess
      <3>2. SUFFICES ASSUME Cardinality(s \ {z}) \in Bad PROVE FALSE
        BY <3>1
      <3>3. n <= Cardinality(s \ {z}) /\ n \in Nat /\ Cardinality(s \ {z}) \in Nat
        BY <3>2, <2>1, <1>1
      <3> QED
        BY <3>1, <3>3
    <2> DEFINE rest == s \ {c, y}
    <2>8. g[s \ {c}] = w[y] + g[rest]
      <3>1. (s \ {c}) \ {y} = rest /\ y \in s \ {c}
        BY <2>6
      <3> QED
        BY <2>4, <2>7, <3>1
    <2>9. g[s \ {y}] = w[c] + g[rest]
      <3>1. (s \ {y}) \ {c} = rest /\ c \in s \ {y}
        BY <2>6, <2>4
      <3> QED
        BY <2>7, <3>1
    <2>10. w[c] \in Nat /\ w[y] \in Nat /\ g[rest] \in Nat
      BY <2>4
    <2> HIDE DEF rest, c
    <2> QED
      BY <2>3, <2>5, <2>8, <2>9, <2>10
  <1> QED
    BY <1>2

\* Total is such a sum.
LEMMA TotalSums ==
    ASSUME NEW R, IsFiniteSet(R), NEW w, \A x \in R : w[x] \in Nat
    PROVE  \E g : Sums(g, w, SUBSET R) /\ Total(w, R) = g[R]
  <1> DEFINE Eq(g) == g = [s \in SUBSET R |-> IF s = {} THEN 0 
                            ELSE w[CHOOSE x \in s : TRUE] + g[s \ {CHOOSE x \in s : TRUE}]]
  <1>1. \E g : Eq(g)
    <2>1. PICK g \in [SUBSET R -> Nat] : Sums(g, w, SUBSET R)
      BY SumsExist
    <2>2. Eq(g)
      BY <2>1 DEF Sums, One
    <2> QED
      BY <2>2
  <1> DEFINE it == CHOOSE g : Eq(g)
  <1>2. Eq(it)
    BY <1>1
  <1>3. Sums(it, w, SUBSET R)
    <2> HIDE DEF it
    <2> QED
    BY <1>2 DEF Sums, One
  <1>4. Total(w, R) = it[R]
    BY Zenon DEF Total, MapThenSumSet, MapThenFoldSet
  <1> QED
    BY <1>3, <1>4

\* Taking any element out of a set takes its weight out of the total.
LEMMA TotalWithout ==
    ASSUME NEW R, IsFiniteSet(R), NEW w, \A x \in R : w[x] \in Nat
    PROVE  /\ Total(w, {}) = 0
           /\ Total(w, R) \in Nat
           /\ \A x \in R : Total(w, R) = w[x] + Total(w, R \ {x})
  <1>1. PICK g \in [SUBSET R -> Nat] : Sums(g, w, SUBSET R)
    BY SumsExist
  <1>2. ASSUME NEW S \in SUBSET R PROVE Total(w, S) = g[S]
    <2>1. IsFiniteSet(S)
      BY FS_Subset
    <2>2. PICK h : Sums(h, w, SUBSET S) /\ Total(w, S) = h[S]
      BY <2>1, TotalSums
    <2>3. h[S] = g[S]
      BY <1>1, <2>2, SumsAgree
    <2> QED
      BY <2>2, <2>3
  <1>3. g[{}] = 0
    BY <1>1 DEF Sums
  <1>4. \A x \in R : g[R] = w[x] + g[R \ {x}]
    BY <1>1, SumsRemove
  <1> QED
    BY <1>2, <1>3, <1>4

\* A total depends on the weights of the elements alone.
LEMMA TotalSame ==
    ASSUME NEW R, IsFiniteSet(R), NEW w, NEW v, \A x \in R : w[x] = v[x] /\ w[x] \in Nat
    PROVE  Total(w, R) = Total(v, R)
  <1>1. PICK g : Sums(g, w, SUBSET R) /\ Total(w, R) = g[R]
    BY TotalSums
  <1>2. PICK h : Sums(h, v, SUBSET R) /\ Total(v, R) = h[R]
    BY TotalSums
  <1> QED
    BY <1>1, <1>2, SumsAgree
-----------------------------------------------------------------------------
(* Loops *)

\* Induction, for sets.
LEMMA InductionUpTo ==
    ASSUME NEW N \in Nat, NEW P, 0 \in P, \A n \in 1 .. N : n - 1 \in P => n \in P
    PROVE  \A n \in 0 .. N : n \in P
  <1> DEFINE Bad == {n \in 0 .. N : n \notin P}
  <1> SUFFICES ASSUME Bad # {} PROVE FALSE
    OBVIOUS
  <1>1. Bad \subseteq Nat
    OBVIOUS
  <1>2. PICK n \in Bad : \A k \in Bad : n <= k
    BY <1>1, LeastElement
  <1>3. n \in 1 .. N /\ n \notin P
    BY <1>2
  <1>4. n - 1 \in 0 .. N /\ n - 1 \notin Bad
    BY <1>2, <1>3
  <1> QED
    BY <1>3, <1>4

\* The values a variable has before a loop and after each of its N passes.
Passes(g, base, step, N) ==
    g = [n \in 0 .. N |-> IF n = 0 THEN base ELSE step[n][g[n - 1]]]

\* A loop of N passes can be run.
LEMMA LoopsRun ==
    ASSUME NEW N \in Nat, NEW base, NEW step
    PROVE  \E g : Passes(g, base, step, N)
  <1> DEFINE P == {n \in 0 .. N : \E g : Passes(g, base, step, n)}
  <1>1. 0 \in P
    <2> DEFINE z == [n \in 0 .. 0 |-> base]
    <2>1. Passes(z, base, step, 0)
      BY DEF Passes
    <2> QED
      BY <2>1
  <1>2. ASSUME NEW n \in 1 .. N, n - 1 \in P PROVE n \in P
    <2>1. PICK g : Passes(g, base, step, n - 1)
      BY <1>2
    <2> DEFINE last == step[n][g[n - 1]]
               h == [k \in 0 .. n |-> IF k = n THEN last ELSE g[k]]
    <2>2. /\ \A k \in 0 .. n - 1 : h[k] = g[k]
          /\ h[n] = last
          /\ h = [k \in 0 .. n |-> h[k]]
      OBVIOUS
    <2> HIDE DEF h, last
    <2>3. ASSUME NEW k \in 0 .. n
          PROVE  h[k] = IF k = 0 THEN base ELSE step[k][h[k - 1]]
      <3>1. CASE k = n
        <4>1. k # 0 /\ k - 1 \in 0 .. n - 1
          BY <3>1
        <4> QED
          BY <2>2, <3>1, <4>1 DEF last
      <3>2. CASE k # n
        <4>1. k \in 0 .. n - 1 /\ (k # 0 => k - 1 \in 0 .. n - 1)
          BY <3>2
        <4>2. g[k] = IF k = 0 THEN base ELSE step[k][g[k - 1]]
          BY <2>1, <4>1 DEF Passes
        <4> QED
          BY <2>2, <4>1, <4>2
      <3> QED
        BY <3>1, <3>2
    <2>4. Passes(h, base, step, n)
      <3>1. h = [k \in 0 .. n |-> IF k = 0 THEN base ELSE step[k][h[k - 1]]]
        BY <2>2, <2>3
      <3> QED
        BY <3>1 DEF Passes
    <2> QED
      BY <2>4
  <1> HIDE DEF P
  <1>3. N \in 0 .. N /\ \A n \in 0 .. N : n \in P
    BY <1>1, <1>2, InductionUpTo
  <1> QED
    BY <1>3 DEF P

\* What holds of the n-th value if each pass keeps it up: R[n] is the set of
\* the values for which it does.
LEMMA LoopsStay ==
    ASSUME NEW N \in Nat, NEW R, NEW g, g[0] \in R[0],
           \A n \in 1 .. N : g[n - 1] \in R[n - 1] => g[n] \in R[n]
    PROVE  \A n \in 0 .. N : g[n] \in R[n]
  <1> DEFINE P == {n \in 0 .. N : g[n] \in R[n]}
  <1>1. 0 \in P
    OBVIOUS
  <1>2. ASSUME NEW n \in 1 .. N, n - 1 \in P PROVE n \in P
    BY <1>2
  <1> HIDE DEF P
  <1>3. \A n \in 0 .. N : n \in P
    BY <1>1, <1>2, InductionUpTo
  <1> QED
    BY <1>3 DEF P

\* A loop that can be run and what holds of it.
LEMMA LoopsReach ==
    ASSUME NEW N \in Nat, NEW R, NEW base \in R[0], NEW step,
           \A n \in 1 .. N : \A r \in R[n - 1] : step[n][r] \in R[n]
    PROVE  \E g : Passes(g, base, step, N) /\ \A n \in 0 .. N : g[n] \in R[n]
  <1>1. PICK g : Passes(g, base, step, N)
    BY LoopsRun
  <1>2. \A n \in 0 .. N : g[n] = IF n = 0 THEN base ELSE step[n][g[n - 1]]
    BY <1>1 DEF Passes
  <1>3. g[0] \in R[0]
    BY <1>2
  <1>4. ASSUME NEW n \in 1 .. N, g[n - 1] \in R[n - 1] PROVE g[n] \in R[n]
    <2>1. n \in 0 .. N /\ n # 0
      OBVIOUS
    <2>2. g[n] = step[n][g[n - 1]]
      BY <1>2, <2>1
    <2> QED
      BY <1>4, <2>2
  <1>5. \A n \in 0 .. N : g[n] \in R[n]
    BY <1>3, <1>4, LoopsStay
  <1> QED
    BY <1>1, <1>5
-----------------------------------------------------------------------------
(* Sorted lists *)

\* t is s with e inserted at i: the entries from i on move down by one.
Inserted(t, s, i, e) == /\ DOMAIN t = 1 .. Len(s) + 1
                        /\ \A j \in 1 .. i - 1 : t[j] = s[j]
                        /\ t[i] = e
                        /\ \A j \in i + 1 .. Len(s) + 1 : t[j] = s[j - 1]

\* list.insert(i, e)
LEMMA InsertAtFacts ==
    ASSUME NEW S, NEW s \in Seq(S), NEW i \in 1 .. Len(s) + 1, NEW e \in S
    PROVE  /\ InsertAt(s, i, e) \in Seq(S)
           /\ Inserted(InsertAt(s, i, e), s, i, e)
  <1> DEFINE l == SubSeq(s, 1, i - 1)
             r == SubSeq(s, i, Len(s))
             m == l \o <<e>>
  <1>1. Len(s) \in Nat /\ i \in Nat
    BY LenProperties
  <1>2. /\ l \in Seq(S) /\ Len(l) = i - 1
        /\ \A j \in 1 .. i - 1 : l[j] = s[j]
    BY <1>1, SubSeqProperties
  <1>3. /\ r \in Seq(S) /\ Len(r) = Len(s) - i + 1
        /\ \A j \in 1 .. Len(s) - i + 1 : r[j] = s[i + j - 1]
    BY <1>1, SubSeqProperties
  <1>4. InsertAt(s, i, e) = m \o r
    BY DEF InsertAt
  <1> HIDE DEF l, r
  <1>5. <<e>> \in Seq(S) /\ Len(<<e>>) = 1 /\ <<e>>[1] = e
    OBVIOUS
  <1>6. /\ m \in Seq(S) /\ Len(m) = i
        /\ \A j \in 1 .. i : m[j] = IF j < i THEN s[j] ELSE e
    BY <1>1, <1>2, <1>5, ConcatProperties
  <1> HIDE DEF m
  <1>7. /\ m \o r \in Seq(S) /\ Len(m \o r) = Len(s) + 1
        /\ \A j \in 1 .. Len(s) + 1 :
              (m \o r)[j] = IF j < i THEN s[j] ELSE IF j = i THEN e ELSE s[j - 1]
    <2>1. /\ m \o r \in Seq(S) /\ Len(m \o r) = Len(m) + Len(r)
          /\ \A j \in 1 .. Len(m) + Len(r) :
                (m \o r)[j] = IF j <= Len(m) THEN m[j] ELSE r[j - Len(m)]
      BY <1>3, <1>6, ConcatProperties
    <2>2. Len(m) = i /\ Len(r) = Len(s) - i + 1 /\ Len(m) + Len(r) = Len(s) + 1
      BY <1>1, <1>3, <1>6
    <2>3. ASSUME NEW j \in 1 .. Len(s) + 1
          PROVE  (m \o r)[j] = IF j < i THEN s[j] ELSE IF j = i THEN e ELSE s[j - 1]
      <3>1. (m \o r)[j] = IF j <= i THEN m[j] ELSE r[j - i]
        BY <2>1, <2>2
      <3>2. CASE j <= i
        <4>1. j \in 1 .. i
          BY <1>1, <3>2
        <4>2. (m \o r)[j] = IF j < i THEN s[j] ELSE e
          BY <1>6, <3>1, <3>2, <4>1
        <4> QED
          BY <1>1, <3>2, <4>2
      <3>3. CASE ~(j <= i)
        <4>1. j - i \in 1 .. Len(s) - i + 1 /\ i + (j - i) - 1 = j - 1
          BY <1>1, <3>3
        <4>2. (m \o r)[j] = s[j - 1]
          BY <1>3, <3>1, <3>3, <4>1
        <4> QED
          BY <1>1, <3>3, <4>2
      <3> QED
        BY <3>2, <3>3
    <2> QED
      BY <2>1, <2>2, <2>3
  <1>8. DOMAIN (m \o r) = 1 .. Len(s) + 1
    BY <1>7, LenProperties
  <1>9. /\ \A j \in 1 .. i - 1 : j \in 1 .. Len(s) + 1 /\ j < i
        /\ \A j \in i + 1 .. Len(s) + 1 : j \in 1 .. Len(s) + 1 /\ ~(j < i) /\ j # i
    BY <1>1
  <1>10. /\ \A j \in 1 .. i - 1 : (m \o r)[j] = s[j]
         /\ (m \o r)[i] = e
         /\ \A j \in i + 1 .. Len(s) + 1 : (m \o r)[j] = s[j - 1]
    BY <1>1, <1>7, <1>9
  <1> QED
    BY <1>4, <1>7, <1>8, <1>10 DEF Inserted

Increasing(s) == \A i, j \in DOMAIN s : i < j => s[i] < s[j]

\* It is enough to compare neighbours.
LEMMA IncreasingByNeighbours ==
    ASSUME NEW s \in Seq(Nat)
    PROVE  Increasing(s) <=> \A i \in 1 .. Len(s) - 1 : s[i] < s[i + 1]
  <1>1. Len(s) \in Nat /\ DOMAIN s = 1 .. Len(s) /\ \A i \in 1 .. Len(s) : s[i] \in Nat
    BY LenProperties, ElementOfSeq
  <1>2. ASSUME Increasing(s), NEW i \in 1 .. Len(s) - 1 PROVE s[i] < s[i + 1]
    <2>1. i \in DOMAIN s /\ i + 1 \in DOMAIN s /\ i < i + 1
      BY <1>1
    <2> QED
      BY <1>2, <2>1 DEF Increasing
  <1>3. ASSUME \A i \in 1 .. Len(s) - 1 : s[i] < s[i + 1],
               NEW i \in DOMAIN s, NEW j \in DOMAIN s, i < j
        PROVE  s[i] < s[j]
    <2> DEFINE P == {n \in Nat : i + 1 + n \in DOMAIN s => s[i] < s[i + 1 + n]}
               N == j - i - 1
    <2>1. N \in Nat /\ i + 1 + N = j /\ i + 1 + 0 = i + 1
      BY <1>1, <1>3
    <2>2. 0 \in P
      <3>1. i \in 1 .. Len(s) - 1
        BY <1>1, <1>3
      <3> QED
        BY <1>3, <2>1, <3>1
    <2>3. ASSUME NEW n \in 1 .. N, n - 1 \in P PROVE n \in P
      <3> SUFFICES ASSUME i + 1 + n \in DOMAIN s PROVE s[i] < s[i + 1 + n]
        BY <2>1
      <3> DEFINE k == i + n
      <3>1. n \in Nat /\ i \in 1 .. Len(s) /\ i + 1 + n <= Len(s)
        BY <1>1, <2>1
      <3>2. /\ i + 1 + (n - 1) = k /\ i + 1 + n = k + 1
            /\ k \in 1 .. Len(s) - 1 /\ k \in DOMAIN s /\ k + 1 \in DOMAIN s
        <4>1. k \in Nat /\ 1 <= k /\ k + 1 <= Len(s)
          <5> HIDE DEF N, P
          <5> QED
            BY <1>1, <3>1
        <4>2. i + 1 + (n - 1) = k /\ i + 1 + n = k + 1
          <5> HIDE DEF N, P
          <5> QED
            BY <3>1
        <4> HIDE DEF N, P, k
        <4>3. k \in 1 .. Len(s) - 1 /\ k \in 1 .. Len(s) /\ k + 1 \in 1 .. Len(s)
          BY <1>1, <4>1
        <4> QED
          BY <1>1, <4>2, <4>3
      <3>3. s[i] < s[k]
        BY <2>3, <3>2
      <3> HIDE DEF k, N, P
      <3>4. s[k] < s[k + 1]
        BY <1>3, <3>2
      <3>5. s[i] \in Nat /\ s[k] \in Nat /\ s[k + 1] \in Nat
        BY <1>1, <3>2
      <3>6. s[i] < s[k + 1]
        <4>1. \A a, b, c \in Nat : a < b /\ b < c => a < c
          OBVIOUS
        <4> QED
          BY <3>3, <3>4, <3>5, <4>1
      <3> QED
        BY <3>2, <3>6
    <2> HIDE DEF P
    <2>4. N \in P
      <3>1. \A n \in 0 .. N : n \in P
        BY <2>1, <2>2, <2>3, InductionUpTo
      <3> QED
        BY <2>1, <3>1
    <2> QED
      BY <2>1, <2>4 DEF P
  <1> QED
    BY <1>2, <1>3 DEF Increasing

\* What bisect counts is a prefix of the list.
LEMMA PrefixCount ==
    ASSUME NEW n \in Nat, NEW D \in SUBSET (1 .. n),
           \A i \in D : \A j \in 1 .. n : j < i => j \in D
    PROVE  Cardinality(D) \in 0 .. n /\ \A i \in 1 .. n : i \in D <=> i <= Cardinality(D)
  <1> DEFINE Above == {m \in Nat : \A i \in D : i <= m}
  <1>1. n \in Above /\ Above \subseteq Nat
    OBVIOUS
  <1>2. PICK m \in Above : \A k \in Above : m <= k
    BY <1>1, LeastElement
  <1>3. m \in 0 .. n /\ \A i \in D : i <= m
    BY <1>1, <1>2
  <1>4. m # 0 => m \in D
    <2> SUFFICES ASSUME m # 0, m \notin D PROVE FALSE
      OBVIOUS
    <2>1. m - 1 \in Nat /\ \A i \in D : i <= m - 1
      BY <1>3
    <2>2. m <= m - 1
      BY <1>2, <2>1
    <2> QED
      BY <1>3, <2>2
  <1> HIDE DEF Above
  <1>5. D = 1 .. m
    <2>1. ASSUME NEW i \in 1 .. m PROVE i \in D
      <3>1. i \in 1 .. n /\ m \in D /\ (i = m \/ i < m)
        BY <1>3, <1>4
      <3> QED
        BY <3>1
    <2>2. ASSUME NEW i \in D PROVE i \in 1 .. m
      BY <1>3
    <2> QED
      BY <2>1, <2>2
  <1>6. Cardinality(1 .. m) = m
    BY <1>3, FS_Interval
  <1> QED
    BY <1>3, <1>5, <1>6

\* Removing entries keeps any relation between earlier and later ones.
LEMMA WhereOrdered ==
    ASSUME NEW S, NEW s \in Seq(S), NEW C, NEW T,
           \A i, j \in DOMAIN s : i < j => <<s[i], s[j]>> \in T
    PROVE  LET w == Where(s, C)
           IN  \A i, j \in DOMAIN w : i < j => <<w[i], w[j]>> \in T
  <1>1. PICK g : Filters(g, s, C, Len(s)) /\ Where(s, C) = g[Len(s)]
    BY WhereFilters
  <1>2. Len(s) \in Nat /\ DOMAIN s = 1 .. Len(s) /\ \A i \in 1 .. Len(s) : s[i] \in S
    BY LenProperties, ElementOfSeq
  <1> DEFINE Before(w, n) == \A k \in DOMAIN w : \A j \in n + 1 .. Len(s) : <<w[k], s[j]>> \in T
             Ordered(w) == \A i, j \in DOMAIN w : i < j => <<w[i], w[j]>> \in T
             P == {n \in 0 .. Len(s) : g[n] \in Seq(S) /\ Ordered(g[n]) /\ Before(g[n], n)}
  <1>3. 0 \in P
    <2>1. g[0] = << >>
      BY <1>1 DEF Filters
    <2>2. DOMAIN g[0] = {} /\ g[0] \in Seq(S)
      BY <2>1
    <2>3. 0 \in 0 .. Len(s)
      BY <1>2
    <2> QED
      BY <2>2, <2>3
  <1>4. ASSUME NEW n \in 1 .. Len(s), n - 1 \in P PROVE n \in P
    <2> DEFINE v == g[n - 1]
               w == g[n]
    <2>1. v \in Seq(S) /\ Ordered(v) /\ Before(v, n - 1)
      BY <1>4
    <2>2. w = Extended(v, s[n], C)
      BY <1>1 DEF Filters
    <2>3. n \in n - 1 + 1 .. Len(s) /\ \A j \in n + 1 .. Len(s) : j \in n - 1 + 1 .. Len(s)
      BY <1>2
    <2> HIDE DEF v, w
    <2>4. CASE s[n] \notin C
      <3>1. w = v
        BY <2>2, <2>4 DEF Extended
      <3> QED
        BY <1>2, <2>1, <2>3, <3>1 DEF w
    <2>5. CASE s[n] \in C
      <3>1. w = Append(v, s[n]) /\ s[n] \in S
        BY <1>2, <2>2, <2>5 DEF Extended
      <3>2. /\ w \in Seq(S) /\ Len(v) \in Nat
            /\ DOMAIN v = 1 .. Len(v) /\ DOMAIN w = 1 .. Len(v) + 1
            /\ \A i \in 1 .. Len(v) : w[i] = v[i]
            /\ w[Len(v) + 1] = s[n]
        BY <2>1, <3>1, AppendProperties, LenProperties
      <3>3. Ordered(w)
        <4> SUFFICES ASSUME NEW i \in DOMAIN w, NEW j \in DOMAIN w, i < j
                     PROVE  <<w[i], w[j]>> \in T
          OBVIOUS
        <4>1. i \in DOMAIN v /\ w[i] = v[i]
          BY <3>2
        <4>2. CASE j = Len(v) + 1
          <5>1. w[j] = s[n]
            BY <3>2, <4>2
          <5> QED
            BY <2>1, <2>3, <4>1, <5>1
        <4>3. CASE j # Len(v) + 1
          <5>1. j \in DOMAIN v /\ w[j] = v[j]
            BY <3>2, <4>3
          <5> QED
            BY <2>1, <4>1, <5>1
        <4> QED
          BY <4>2, <4>3
      <3>4. Before(w, n)
        <4> SUFFICES ASSUME NEW k \in DOMAIN w, NEW j \in n + 1 .. Len(s)
                     PROVE  <<w[k], s[j]>> \in T
          OBVIOUS
        <4>1. CASE k = Len(v) + 1
          <5>1. w[k] = s[n] /\ n \in DOMAIN s /\ j \in DOMAIN s /\ n < j
            BY <1>2, <3>2, <4>1
          <5> QED
            BY <5>1
        <4>2. CASE k # Len(v) + 1
          <5>1. k \in DOMAIN v /\ w[k] = v[k]
            BY <3>2, <4>2
          <5> QED
            BY <2>1, <2>3, <5>1
        <4> QED
          BY <4>1, <4>2
      <3> HIDE DEF Ordered, Before
      <3> QED
        BY <1>2, <3>2, <3>3, <3>4 DEF w
    <2> QED
      BY <2>4, <2>5
  <1> HIDE DEF P
  <1>5. Len(s) \in P
    <2>1. \A n \in 0 .. Len(s) : n \in P
      BY <1>2, <1>3, <1>4, InductionUpTo
    <2> QED
      BY <1>2, <2>1
  <1> QED
    BY <1>1, <1>5 DEF P
=============================================================================
