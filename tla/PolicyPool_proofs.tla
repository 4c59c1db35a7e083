-------------------------- MODULE PolicyPool_proofs --------------------------
(***************************************************************************)
(* The scheduling policies for any number of instances, models and         *)
(* requests: round robin is even and finds who is available, power of two  *)
(* choices avoids the busiest, the rings stay exact and move only the keys *)
(* they must; and topology expansion for all sizes.                        *)
(***************************************************************************)
EXTENDS PolicyPool, CollectionFacts
-----------------------------------------------------------------------------
(* The cycler *)

\* The cycle is short: one lap and one more draw, from anywhere in it.
LEMMA Wraps ==
    ASSUME NEW n \in Nat \ {0}, NEW x \in 0 .. 2 * n - 1
    PROVE  x % n = IF x < n THEN x ELSE x - n
  OBVIOUS

\* Round robin draws at most once more than the list is long.
LEMMA DrawsBounded ==
    ASSUME NEW s, NEW n \in Nat \ {0}, Len(s) = n, NEW p \in 0 .. n - 1, NEW C
    PROVE  /\ Draws(s, p, C) \in 1 .. n + 1
           /\ \/ Drawn(s, p, Draws(s, p, C)) \in C
              \/ \E e \in 1 .. Draws(s, p, C) - 1 :
                    Drawn(s, p, e) = Drawn(s, p, Draws(s, p, C))
           /\ \A e \in 1 .. Draws(s, p, C) - 1 : Drawn(s, p, e) \notin C
           /\ Advanced(s, p, C) \in 0 .. n - 1
  <1> DEFINE K == {k \in 1 .. n + 1 :
                     \/ Drawn(s, p, k) \in C
                     \/ Drawn(s, p, k) \in {Drawn(s, p, j) : j \in 1 .. k - 1}}
             d == Draws(s, p, C)
  <1>1. d = Min(K)
    BY DEF Draws
  <1>2. n + 1 \in K
    <2>1. Drawn(s, p, n + 1) = Drawn(s, p, 1)
      <3>1. p % n = p /\ (p + n) % n = p
        <4> DEFINE w == p + n
        <4>1. w \in 0 .. 2 * n - 1 /\ ~(w < n) /\ p \in 0 .. 2 * n - 1 /\ w - n = p
          OBVIOUS
        <4> HIDE DEF w
        <4>2. w % n = w - n
          BY <4>1, Wraps
        <4>3. p % n = p
          BY <4>1
        <4> QED
          BY <4>1, <4>2, <4>3, Zenon DEF w
      <3>2. p + (n + 1) - 1 = p + n /\ p + 1 - 1 = p
        OBVIOUS
      <3> QED
        BY <3>1, <3>2 DEF Drawn
    <2>2. 1 \in 1 .. (n + 1) - 1 /\ n + 1 \in 1 .. n + 1
      OBVIOUS
    <2> QED
      BY <2>1, <2>2
  <1>3. d \in K /\ \A k \in K : d <= k
    <2> HIDE DEF d
    <2>1. K \subseteq Nat
      OBVIOUS
    <2> HIDE DEF K
    <2>2. \E x \in K : \A y \in K : x <= y
      BY <1>2, <2>1, LeastElement
    <2> QED
      BY <1>1, <2>2 DEF Min
  <1> HIDE DEF d
  <1>4. d \in 1 .. n + 1
    BY <1>3
  <1>5. ASSUME NEW e \in 1 .. d - 1 PROVE Drawn(s, p, e) \notin C
    <2>1. e \in 1 .. n + 1 /\ e < d
      BY <1>4
    <2>2. e \notin K
      BY <1>3, <1>4, <2>1
    <2> QED
      BY <2>1, <2>2
  <1>6. Drawn(s, p, d) \in C \/ \E e \in 1 .. d - 1 : Drawn(s, p, e) = Drawn(s, p, d)
    BY <1>3
  <1>7. Advanced(s, p, C) \in 0 .. n - 1
    <2>1. p + d \in Nat /\ Advanced(s, p, C) = (p + d) % n
      BY <1>4 DEF Advanced, d
    <2> QED
      BY <2>1
  <1> QED
    BY <1>4, <1>5, <1>6, <1>7 DEF d

\* The draw that meets the x-th entry (counted from 0) in the next lap.
DrawOf(p, n, x) == IF x >= p THEN x - p + 1 ELSE x - p + n + 1

\* On a list without repetitions round robin stops at the first candidate
\* clockwise from where the cycler stands, and the cycler right after it.
LEMMA RoundRobinFinds ==
    ASSUME NEW S, NEW s \in Seq(S), IsInjective(s), NEW p \in 0 .. Len(s) - 1,
           NEW C, C \cap ToSet(s) # {}
    PROVE  \E x \in 0 .. Len(s) - 1 :
              /\ s[x + 1] \in C
              /\ Choice(s, p, C) = s[x + 1]
              /\ Advanced(s, p, C) = IF x + 1 = Len(s) THEN 0 ELSE x + 1
              /\ \A y \in 0 .. Len(s) - 1 :
                    s[y + 1] \in C => DrawOf(p, Len(s), x) <= DrawOf(p, Len(s), y)
  <1> DEFINE n == Len(s)
             d == Draws(s, p, C)
  <1>1. n \in Nat \ {0} /\ DOMAIN s = 1 .. n
    BY LenProperties
  <1> HIDE DEF n
  <1>2. /\ d \in 1 .. n + 1
        /\ Drawn(s, p, d) \in C \/ \E e \in 1 .. d - 1 : Drawn(s, p, e) = Drawn(s, p, d)
        /\ \A e \in 1 .. d - 1 : Drawn(s, p, e) \notin C
    BY <1>1, DrawsBounded DEF n
  <1> HIDE DEF d
  <1>3. p \in 0 .. n - 1
    BY DEF n
  <1>4. ASSUME NEW e \in 1 .. n + 1, p + e - 1 < 2 * n
        PROVE  (p + e - 1) % n = IF p + e - 1 < n THEN p + e - 1 ELSE p + e - 1 - n
    <2>1. p + e - 1 \in 0 .. 2 * n - 1
      BY <1>1, <1>3, <1>4
    <2> DEFINE Wrap(w) == w % n
    <2>2. \A w \in 0 .. 2 * n - 1 : Wrap(w) = IF w < n THEN w ELSE w - n
      BY <1>1, Wraps
    <2> HIDE DEF Wrap
    <2>3. Wrap(p + e - 1) = IF p + e - 1 < n THEN p + e - 1 ELSE p + e - 1 - n
      BY <1>1, <1>3, <2>1, <2>2
    <2> QED
      BY <2>3 DEF Wrap
  <1>5. \A y \in 0 .. n - 1 : DrawOf(p, n, y) \in 1 .. n
    BY <1>1, <1>3 DEF DrawOf
  <1>6. ASSUME NEW y \in 0 .. n - 1
         PROVE  Drawn(s, p, DrawOf(p, n, y)) = s[y + 1]
    <2> DEFINE e == DrawOf(p, n, y)
    <2>1. e \in 1 .. n + 1 /\ p + e - 1 < 2 * n
          /\ (IF p + e - 1 < n THEN p + e - 1 ELSE p + e - 1 - n) = y
      BY <1>1, <1>3 DEF DrawOf
    <2> HIDE DEF e
    <2>2. (p + e - 1) % n = y
      BY <1>4, <2>1
    <2> QED
      BY <2>2 DEF Drawn, n, e
  <1>7. PICK z \in 0 .. n - 1 : s[z + 1] \in C
    <2>1. PICK i \in 1 .. n : s[i] \in C
      BY <1>1 DEF ToSet
    <2>2. i - 1 \in 0 .. n - 1 /\ (i - 1) + 1 = i
      BY <1>1
    <2> QED
      BY <2>1, <2>2
  <1>8. \A y \in 0 .. n - 1 : s[y + 1] \in C => d <= DrawOf(p, n, y)
    <2> SUFFICES ASSUME NEW y \in 0 .. n - 1, s[y + 1] \in C, ~(d <= DrawOf(p, n, y))
                 PROVE  FALSE
      OBVIOUS
    <2>1. DrawOf(p, n, y) \in 1 .. d - 1
      BY <1>1, <1>2, <1>5
    <2> QED
      BY <1>2, <1>6, <2>1
  <1>9. d \in 1 .. n
    <2>1. d <= DrawOf(p, n, z) /\ DrawOf(p, n, z) \in 1 .. n
      BY <1>5, <1>7, <1>8
    <2> QED
      BY <1>1, <1>2, <2>1
  <1> DEFINE at(e) == IF p + e - 1 < n THEN p + e - 1 ELSE p + e - 1 - n
  <1>10. ASSUME NEW e \in 1 .. n
        PROVE  /\ at(e) \in 0 .. n - 1
               /\ Drawn(s, p, e) = s[at(e) + 1]
               /\ DrawOf(p, n, at(e)) = e
    <2>1. e \in 1 .. n + 1 /\ p + e - 1 < 2 * n
      BY <1>1, <1>3
    <2>2. (p + e - 1) % n = at(e)
      BY <1>4, <2>1
    <2>3. at(e) \in 0 .. n - 1 /\ DrawOf(p, n, at(e)) = e
      BY <1>1, <1>3 DEF DrawOf
    <2> QED
      BY <2>2, <2>3 DEF Drawn, n
  <1> DEFINE x == at(d)
  <1>11. Drawn(s, p, d) \in C
    <2> SUFFICES ASSUME NEW e \in 1 .. d - 1, Drawn(s, p, e) = Drawn(s, p, d)
                 PROVE  FALSE
      BY <1>2
    <2>1. e \in 1 .. n /\ e # d
      BY <1>1, <1>9
    <2>2. s[at(e) + 1] = s[at(d) + 1] /\ at(e) \in 0 .. n - 1 /\ at(d) \in 0 .. n - 1
      BY <1>9, <1>10, <2>1
    <2> HIDE DEF at
    <2>3. at(e) + 1 \in DOMAIN s /\ at(d) + 1 \in DOMAIN s
      BY <1>1, <2>2
    <2>4. at(e) + 1 = at(d) + 1
      BY <2>2, <2>3 DEF IsInjective
    <2>5. at(e) = at(d)
      BY <2>2, <2>4
    <2> QED
      BY <1>9, <1>10, <2>1, <2>5
  <1>12. x \in 0 .. n - 1 /\ Drawn(s, p, d) = s[x + 1] /\ DrawOf(p, n, x) = d
    BY <1>9, <1>10
  <1>13. Advanced(s, p, C) = IF x + 1 = n THEN 0 ELSE x + 1
    <2>1. Advanced(s, p, C) = (p + d) % n
      BY DEF Advanced, d, n
    <2>2. (p + d) % n = IF p + d < n THEN p + d ELSE p + d - n
      <3>1. p + d \in 0 .. 2 * n - 1
        BY <1>1, <1>9, <1>3
      <3> DEFINE Wrap(w) == w % n
      <3>2. \A w \in 0 .. 2 * n - 1 : Wrap(w) = IF w < n THEN w ELSE w - n
        BY <1>1, Wraps
      <3> HIDE DEF Wrap
      <3>3. Wrap(p + d) = IF p + d < n THEN p + d ELSE p + d - n
        BY <1>1, <1>9, <1>3, <3>1, <3>2
      <3> QED
        BY <3>3 DEF Wrap
    <2>3. (IF p + d < n THEN p + d ELSE p + d - n) = IF x + 1 = n THEN 0 ELSE x + 1
      BY <1>1, <1>9, <1>3
    <2> QED
      BY <2>1, <2>2, <2>3
  <1> HIDE DEF x
  <1>14. Choice(s, p, C) = s[x + 1]
    BY <1>12 DEF Choice, d
  <1> QED
    BY <1>8, <1>11, <1>12, <1>13, <1>14 DEF n
-----------------------------------------------------------------------------
(* The rings: places in their lists *)

\* bisect on a sorted list.
LEMMA BisectFacts ==
    ASSUME NEW s \in Seq(Nat), Increasing(s), NEW h \in Nat
    PROVE  /\ Len(s) \in Nat /\ DOMAIN s = 1 .. Len(s)
           /\ BisectLeft(s, h) \in 0 .. Len(s) /\ BisectRight(s, h) \in 0 .. Len(s)
           /\ \A i \in 1 .. Len(s) : s[i] \in Nat /\ (s[i] < h <=> i <= BisectLeft(s, h))
                                                  /\ (s[i] <= h <=> i <= BisectRight(s, h))
           /\ h \notin ToSet(s) => BisectLeft(s, h) = BisectRight(s, h)
  <1>1. Len(s) \in Nat /\ DOMAIN s = 1 .. Len(s) /\ \A i \in 1 .. Len(s) : s[i] \in Nat
    BY LenProperties, ElementOfSeq
  <1> DEFINE L == {i \in DOMAIN s : s[i] < h}
             R == {i \in DOMAIN s : s[i] <= h}
  <1>2. \A i \in L : \A j \in 1 .. Len(s) : j < i => j \in L
    BY <1>1 DEF Increasing
  <1>3. \A i \in R : \A j \in 1 .. Len(s) : j < i => j \in R
    BY <1>1 DEF Increasing
  <1>4. L \in SUBSET (1 .. Len(s)) /\ R \in SUBSET (1 .. Len(s))
    BY <1>1
  <1>5. \A i \in 1 .. Len(s) : (s[i] < h <=> i \in L) /\ (s[i] <= h <=> i \in R)
    BY <1>1
  <1>6. h \notin ToSet(s) => L = R
    BY <1>1 DEF ToSet
  <1>7. BisectLeft(s, h) = Cardinality(L) /\ BisectRight(s, h) = Cardinality(R)
    BY DEF BisectLeft, BisectRight
  <1> HIDE DEF L, R
  <1>8. /\ Cardinality(L) \in 0 .. Len(s)
        /\ \A i \in 1 .. Len(s) : i \in L <=> i <= Cardinality(L)
    BY <1>1, <1>2, <1>4, PrefixCount
  <1>9. /\ Cardinality(R) \in 0 .. Len(s)
        /\ \A i \in 1 .. Len(s) : i \in R <=> i <= Cardinality(R)
    BY <1>1, <1>3, <1>4, PrefixCount
  <1> QED
    BY <1>1, <1>5, <1>6, <1>7, <1>8, <1>9

\* insort of a number that is not there.
LEMMA InsortFacts ==
    ASSUME NEW s \in Seq(Nat), Increasing(s), NEW h \in Nat, h \notin ToSet(s)
    PROVE  LET t == InsertAt(s, BisectRight(s, h) + 1, h)
           IN  t \in Seq(Nat) /\ Increasing(t) /\ ToSet(t) = ToSet(s) \cup {h}
  <1> DEFINE b == BisectRight(s, h) + 1
             t == InsertAt(s, b, h)
  <1>1. /\ Len(s) \in Nat /\ DOMAIN s = 1 .. Len(s) /\ b \in 1 .. Len(s) + 1
        /\ \A i \in 1 .. Len(s) : s[i] \in Nat /\ (s[i] <= h <=> i < b)
    <2>1. /\ Len(s) \in Nat /\ DOMAIN s = 1 .. Len(s) /\ BisectRight(s, h) \in 0 .. Len(s)
          /\ \A i \in 1 .. Len(s) : s[i] \in Nat /\ (s[i] <= h <=> i <= BisectRight(s, h))
      BY BisectFacts
    <2> QED
      BY <2>1
  <1>2. \A i \in 1 .. Len(s) : s[i] # h
    BY <1>1 DEF ToSet
  <1> HIDE DEF b
  <1>3. /\ t \in Seq(Nat) /\ DOMAIN t = 1 .. Len(s) + 1
        /\ \A j \in 1 .. b - 1 : t[j] = s[j]
        /\ t[b] = h
        /\ \A j \in b + 1 .. Len(s) + 1 : t[j] = s[j - 1]
    <2>1. b \in 1 .. Len(s) + 1
      BY <1>1
    <2>2. t \in Seq(Nat) /\ Inserted(t, s, b, h)
      BY <2>1, InsertAtFacts
    <2> QED
      BY <2>2 DEF Inserted
  <1> HIDE DEF t
  <1>4. Increasing(t)
    <2> SUFFICES ASSUME NEW i \in 1 .. Len(s) + 1, NEW j \in 1 .. Len(s) + 1, i < j
                 PROVE  t[i] < t[j]
      BY <1>3 DEF Increasing
    <2>1. \A k, l \in 1 .. Len(s) : k < l => s[k] < s[l]
      BY <1>1 DEF Increasing
    <2>2. CASE j < b
      <3>1. t[i] = s[i] /\ t[j] = s[j] /\ i \in 1 .. Len(s) /\ j \in 1 .. Len(s)
        BY <1>1, <1>3, <2>2
      <3> QED
        BY <2>1, <3>1
    <2>3. CASE j = b
      <3>1. t[i] = s[i] /\ t[j] = h /\ i \in 1 .. Len(s) /\ i < b
        BY <1>1, <1>3, <2>3
      <3>2. s[i] <= h /\ s[i] # h /\ s[i] \in Nat
        BY <1>1, <1>2, <3>1
      <3> QED
        BY <3>1, <3>2
    <2>4. CASE j > b
      <3>1. t[j] = s[j - 1] /\ j - 1 \in 1 .. Len(s) /\ ~(j - 1 < b) /\ s[j - 1] \in Nat
        BY <1>1, <1>3, <2>4, SMTT(20)
      <3>2. h < s[j - 1]
        BY <1>1, <3>1
      <3>3. CASE i < b
        <4>1. t[i] = s[i] /\ i \in 1 .. Len(s)
          BY <1>1, <1>3, <3>3
        <4>2. s[i] <= h /\ s[i] \in Nat
          BY <1>1, <3>3, <4>1
        <4> QED
          BY <3>1, <3>2, <4>1, <4>2
      <3>4. CASE i = b
        BY <1>3, <3>1, <3>2, <3>4
      <3>5. CASE i > b
        <4>1. t[i] = s[i - 1] /\ i - 1 \in 1 .. Len(s) /\ i - 1 < j - 1
          BY <1>1, <1>3, <3>5
        <4> QED
          BY <2>1, <3>1, <4>1
      <3> QED
        BY <1>1, <3>3, <3>4, <3>5
    <2> QED
      BY <1>1, <2>2, <2>3, <2>4
  <1>5. ToSet(t) = ToSet(s) \cup {h}
    <2>1. ASSUME NEW j \in 1 .. Len(s) + 1 PROVE t[j] \in ToSet(s) \cup {h}
      <3>1. CASE j < b
        <4>1. j \in DOMAIN s /\ t[j] = s[j]
          BY <1>1, <1>3, <3>1
        <4> QED
          BY <4>1 DEF ToSet
      <3>2. CASE j = b
        BY <1>3, <3>2
      <3>3. CASE j > b
        <4>1. j - 1 \in DOMAIN s /\ t[j] = s[j - 1]
          BY <1>1, <1>3, <3>3
        <4> QED
          BY <4>1 DEF ToSet
      <3> QED
        BY <1>1, <3>1, <3>2, <3>3
    <2>2. ASSUME NEW i \in 1 .. Len(s) PROVE \E j \in 1 .. Len(s) + 1 : t[j] = s[i]
      <3>1. CASE i < b
        <4>1. i \in 1 .. Len(s) + 1 /\ i \in 1 .. b - 1
          BY <1>1, <3>1
        <4> QED
          BY <1>3, <4>1
      <3>2. CASE ~(i < b)
        <4>1. i + 1 \in 1 .. Len(s) + 1 /\ i + 1 \in b + 1 .. Len(s) + 1 /\ (i + 1) - 1 = i
          BY <1>1, <3>2
        <4>2. t[i + 1] = s[(i + 1) - 1]
          BY <1>3, <4>1
        <4> QED
          BY <4>1, <4>2
      <3> QED
        BY <3>1, <3>2
    <2>3. t[b] = h /\ b \in 1 .. Len(s) + 1
      BY <1>1, <1>3
    <2>4. ToSet(t) = {t[j] : j \in 1 .. Len(s) + 1} /\ ToSet(s) = {s[i] : i \in 1 .. Len(s)}
      BY <1>1, <1>3, Zenon DEF ToSet
    <2> HIDE DEF ToSet
    <2> QED
      BY <2>1, <2>2, <2>3, <2>4, Zenon
  <1> QED
    BY <1>3, <1>4, <1>5 DEF t, b

\* The removal of a number that is there.
LEMMA DeleteFacts ==
    ASSUME NEW s \in Seq(Nat), Increasing(s), NEW h \in ToSet(s)
    PROVE  LET t == RemoveAt(s, BisectLeft(s, h) + 1)
           IN  t \in Seq(Nat) /\ Increasing(t) /\ ToSet(t) = ToSet(s) \ {h}
  <1> DEFINE b == BisectLeft(s, h) + 1
             t == RemoveAt(s, b)
  <1>1. Len(s) \in Nat /\ DOMAIN s = 1 .. Len(s) /\ \A i \in 1 .. Len(s) : s[i] \in Nat
    BY LenProperties, ElementOfSeq
  <1>2. PICK m \in 1 .. Len(s) : s[m] = h
    BY <1>1 DEF ToSet
  <1>3. BisectLeft(s, h) \in 0 .. Len(s)
        /\ \A i \in 1 .. Len(s) : s[i] < h <=> i <= BisectLeft(s, h)
    <2>1. h \in Nat
      BY <1>1, <1>2
    <2> QED
      BY <2>1, BisectFacts
  <1> HIDE DEF b
  <1>4. b = m
    <2>1. ~(m <= BisectLeft(s, h))
      BY <1>1, <1>2, <1>3
    <2>2. \A i \in 1 .. Len(s) : i < m => s[i] < h
      BY <1>1, <1>2 DEF Increasing
    <2>3. m - 1 <= BisectLeft(s, h)
      <3>1. m # 1 => m - 1 \in 1 .. Len(s) /\ m - 1 < m
        BY <1>1
      <3> QED
        BY <1>3, <2>2, <3>1
    <2> QED
      BY <1>3, <2>1, <2>3 DEF b
  <1>5. IsInjective(s)
    <2> SUFFICES ASSUME NEW i \in 1 .. Len(s), NEW j \in 1 .. Len(s), s[i] = s[j], i # j
                 PROVE  FALSE
      BY <1>1 DEF IsInjective
    <2>1. i < j \/ j < i
      BY <1>1
    <2> QED
      BY <1>1, <2>1, SMTT(20) DEF Increasing
  <1>6. /\ t \in Seq(Nat) /\ DOMAIN t = 1 .. Len(s) - 1
        /\ \A j \in 1 .. Len(s) - 1 : t[j] = IF j < b THEN s[j] ELSE s[j + 1]
        /\ ToSet(t) = ToSet(s) \ {h}
    <2>1. b \in 1 .. Len(s) /\ s[b] = h
      BY <1>2, <1>4
    <2>2. /\ t \in Seq(Nat) /\ Len(t) = Len(s) - 1
          /\ \A j \in 1 .. Len(s) - 1 : t[j] = IF j < b THEN s[j] ELSE s[j + 1]
      BY <2>1, RemoveAtFacts, Zenon
    <2>3. ToSet(t) = ToSet(s) \ {h}
      BY <1>5, <2>1, RemoveAtInjective
    <2> QED
      BY <2>2, <2>3, LenProperties
  <1> HIDE DEF t
  <1>7. Increasing(t)
    <2> SUFFICES ASSUME NEW i \in 1 .. Len(s) - 1, NEW j \in 1 .. Len(s) - 1, i < j
                 PROVE  t[i] < t[j]
      BY <1>6 DEF Increasing
    <2> DEFINE old(k) == IF k < b THEN k ELSE k + 1
    <2>1. t[i] = s[old(i)] /\ t[j] = s[old(j)]
      BY <1>6
    <2>2. old(i) \in DOMAIN s /\ old(j) \in DOMAIN s /\ old(i) < old(j)
      BY <1>1, <1>4
    <2> HIDE DEF old
    <2> QED
      BY <2>1, <2>2 DEF Increasing
  <1> QED
    BY <1>6, <1>7 DEF t, b
-----------------------------------------------------------------------------
(* The ring of ConsistentHash *)

Rings == [workers : SUBSET Addr, keys : Seq(Nat),
          map : UNION {[D -> Addr] : D \in SUBSET Nat}]

\* The ring r is exactly the virtual nodes V.
Holds(r, V) == /\ DOMAIN r.map = {Hash[v] : v \in V}
               /\ \A v \in V : r.map[Hash[v]] = v[1]
               /\ ToSet(r.keys) = DOMAIN r.map
               /\ Increasing(r.keys)

\* In between, when some virtual nodes of a are in the ring.
Between(W, V) == {r \in Rings : r.workers = W /\ Holds(r, V)}

\* Virtual nodes have different hashes.
LEMMA HashFacts ==
    ASSUME NEW v \in Addr \X Index
    PROVE  /\ Hash[v] \in Nat
           /\ \A w \in Addr \X Index : Hash[v] = Hash[w] => v = w
  BY HashAssumption DEF Index

\* The types of a ring's fields.
LEMMA RingFields ==
    ASSUME NEW r \in Rings
    PROVE  /\ r.workers \in SUBSET Addr /\ r.keys \in Seq(Nat)
           /\ DOMAIN r.map \in SUBSET Nat /\ r.map \in [DOMAIN r.map -> Addr]
           /\ r = [workers |-> r.workers, keys |-> r.keys, map |-> r.map]
  BY DEF Rings

\* A ring is made of its fields.
LEMMA RingOf ==
    ASSUME NEW W \in SUBSET Addr, NEW s \in Seq(Nat), NEW D \in SUBSET Nat,
           NEW f \in [D -> Addr]
    PROVE  [workers |-> W, keys |-> s, map |-> f] \in Rings
  BY DEF Rings

\* A new virtual node enters the ring.
LEMMA AddNodeFacts ==
    ASSUME NEW W, NEW V \in SUBSET (Addr \X Index), NEW r \in Between(W, V),
           NEW a \in Addr, NEW i \in Index, <<a, i>> \notin V
    PROVE  AddNode(r, a, i) \in Between(W, V \cup {<<a, i>>})
  <1> DEFINE h == Hash[a, i]
             D == DOMAIN r.map
             f == [g \in D \cup {h} |-> IF g = h THEN a ELSE r.map[g]]
             s == InsertAt(r.keys, BisectRight(r.keys, h) + 1, h)
             u == AddNode(r, a, i)
  <1>1. r \in Rings /\ r.workers = W /\ Holds(r, V)
    BY DEF Between
  <1>2. h \in Nat /\ \A w \in V : Hash[w] # h
    <2>1. <<a, i>> \in Addr \X Index
      OBVIOUS
    <2> QED
      BY <2>1, HashFacts
  <1>3. h \notin D
    BY <1>1, <1>2 DEF Holds
  <1>4. /\ r.keys \in Seq(Nat) /\ Increasing(r.keys) /\ ToSet(r.keys) = D
        /\ D \in SUBSET Nat /\ r.map \in [D -> Addr] /\ W \in SUBSET Addr
    BY <1>1, RingFields DEF Holds
  <1>5. u = [workers |-> W, keys |-> s, map |-> f]
    BY <1>1, <1>3, Zenon DEF AddNode
  <1>6. s \in Seq(Nat) /\ Increasing(s) /\ ToSet(s) = D \cup {h}
    <2> HIDE DEF h, D
    <2> QED
      BY <1>2, <1>3, <1>4, InsortFacts
  <1>7. f \in [D \cup {h} -> Addr] /\ D \cup {h} \in SUBSET Nat
    BY <1>2, <1>4
  <1>8. f[h] = a /\ \A w \in V : f[Hash[w]] = w[1]
    BY <1>1, <1>2 DEF Holds
  <1>9. D \cup {h} = {Hash[v] : v \in V \cup {<<a, i>>}} /\ DOMAIN f = D \cup {h}
    BY <1>1 DEF Holds
  <1> HIDE DEF s, f, u
  <1>10. u \in Rings
    <2> HIDE DEF h, D
    <2> QED
      BY <1>4, <1>5, <1>6, <1>7, RingOf
  <1>11. u.workers = W /\ u.keys = s /\ u.map = f
    BY <1>5
  <1>12. \A v \in V \cup {<<a, i>>} : f[Hash[v]] = v[1]
    <2>1. ASSUME NEW v, v = <<a, i>> PROVE f[Hash[v]] = v[1]
      BY <1>8, <2>1
    <2> QED
      BY <1>8, <2>1
  <1>13. Holds(u, V \cup {<<a, i>>})
    BY <1>6, <1>9, <1>11, <1>12 DEF Holds
  <1> QED
    BY <1>10, <1>11, <1>13 DEF Between, u

\* A virtual node leaves the ring.
LEMMA RemoveNodeFacts ==
    ASSUME NEW W, NEW V \in SUBSET (Addr \X Index), NEW r \in Between(W, V),
           NEW a \in Addr, NEW i \in Index, <<a, i>> \in V
    PROVE  RemoveNode(r, a, i) \in Between(W, V \ {<<a, i>>})
  <1> DEFINE h == Hash[a, i]
             D == DOMAIN r.map
             f == [g \in D \ {h} |-> r.map[g]]
             s == RemoveAt(r.keys, BisectLeft(r.keys, h) + 1)
             u == RemoveNode(r, a, i)
  <1>1. r \in Rings /\ r.workers = W /\ Holds(r, V)
    BY DEF Between
  <1>2. h \in Nat /\ \A w \in V \ {<<a, i>>} : Hash[w] # h
    <2>1. <<a, i>> \in Addr \X Index
      OBVIOUS
    <2> QED
      BY <2>1, HashFacts
  <1>3. h \in D /\ r.map[h] = a
    <2>1. <<a, i>>[1] = a
      OBVIOUS
    <2> QED
      BY <1>1, <2>1 DEF Holds
  <1>4. /\ r.keys \in Seq(Nat) /\ Increasing(r.keys) /\ ToSet(r.keys) = D
        /\ D \in SUBSET Nat /\ r.map \in [D -> Addr] /\ W \in SUBSET Addr
    BY <1>1, RingFields DEF Holds
  <1>5. u = [workers |-> W, keys |-> s, map |-> f]
    BY <1>1, <1>3, Zenon DEF RemoveNode
  <1>6. s \in Seq(Nat) /\ Increasing(s) /\ ToSet(s) = D \ {h}
    <2> HIDE DEF h, D
    <2> QED
      BY <1>3, <1>4, DeleteFacts
  <1>7. f \in [D \ {h} -> Addr] /\ D \ {h} \in SUBSET Nat
    BY <1>4
  <1>8. \A w \in V \ {<<a, i>>} : f[Hash[w]] = w[1]
    BY <1>1, <1>2 DEF Holds
  <1>9. D \ {h} = {Hash[v] : v \in V \ {<<a, i>>}} /\ DOMAIN f = D \ {h}
    BY <1>1, <1>2, ZenonT(30) DEF Holds
  <1> HIDE DEF s, f, u
  <1>10. u \in Rings
    <2> HIDE DEF h, D
    <2> QED
      BY <1>4, <1>5, <1>6, <1>7, RingOf
  <1>11. u.workers = W /\ u.keys = s /\ u.map = f
    BY <1>5
  <1>12. Holds(u, V \ {<<a, i>>})
    BY <1>6, <1>8, <1>9, <1>11 DEF Holds
  <1> QED
    BY <1>10, <1>11, <1>12 DEF Between, u

\* The complete rings with the workers W.
RingsOf(W) == Between(W, W \X Index)

\* _add_worker_unlocked turns a complete ring into a complete ring.
LEMMA AddWorkerFacts ==
    ASSUME NEW W \in SUBSET Addr, NEW r \in RingsOf(W), NEW a \in Addr
    PROVE  AddWorker(r, a) \in RingsOf(W \cup {a})
  <1>1. r \in Rings /\ r.workers = W /\ Holds(r, W \X Index)
    BY DEF RingsOf, Between
  <1>2. CASE a \in W
    <2>1. AddWorker(r, a) = r /\ W \cup {a} = W
      BY <1>1, <1>2 DEF AddWorker
    <2> QED
      BY <2>1
  <1>3. CASE a \notin W
    <2> DEFINE N == VirtualNodes
               X == W \cup {a}
               base == [workers |-> r.workers \cup {a}, keys |-> r.keys, map |-> r.map]
               V(n) == (W \X Index) \cup ({a} \X (0 .. n - 1))
               R == [n \in 0 .. N |-> Between(X, V(n))]
               step == [n \in 1 .. N |-> [x \in Rings |-> AddNode(x, a, n - 1)]]
               Body(g, n) == IF n = 0 THEN base ELSE AddNode(g[n - 1], a, n - 1)
               Eq(g) == g = [n \in 0 .. N |-> Body(g, n)]
               it == CHOOSE g : Eq(g)
    <2>1. N \in Nat \ {0} /\ Index = 0 .. N - 1
      BY HashAssumption DEF Index
    <2>2. base \in R[0]
      <3>1. base = [workers |-> X, keys |-> r.keys, map |-> r.map]
        BY <1>1
      <3> HIDE DEF base
      <3>2. base \in Rings
        <4> HIDE DEF X
        <4>1. X \in SUBSET Addr
          BY DEF X
        <4> QED
          BY <1>1, <3>1, <4>1, RingFields, RingOf
      <3>3. V(0) = W \X Index
        OBVIOUS
      <3>4. Holds(base, V(0)) /\ base.workers = X
        BY <1>1, <3>1, <3>3 DEF Holds
      <3>5. R[0] = Between(X, V(0))
        BY <2>1
      <3> QED
        BY <3>2, <3>4, <3>5 DEF Between
    <2>3. ASSUME NEW n \in 1 .. N, NEW x \in R[n - 1]
          PROVE  x \in Rings /\ AddNode(x, a, n - 1) \in R[n]
      <3>1. n - 1 \in 0 .. N /\ n \in 0 .. N /\ n - 1 \in Index
        BY <2>1
      <3>2. x \in Between(X, V(n - 1))
        BY <3>1
      <3>3. V(n - 1) \in SUBSET (Addr \X Index) /\ <<a, n - 1>> \notin V(n - 1)
        <4>1. \A k \in 0 .. (n - 1) - 1 : k \in Index /\ k # n - 1
          BY <2>1
        <4> QED
          BY <1>3, <4>1
      <3>4. V(n) = V(n - 1) \cup {<<a, n - 1>>}
        <4>1. 0 .. n - 1 = (0 .. (n - 1) - 1) \cup {n - 1}
          BY <2>1
        <4> QED
          BY <4>1
      <3>5. R[n] = Between(X, V(n))
        BY <3>1
      <3> HIDE DEF V, R, X
      <3>6. AddNode(x, a, n - 1) \in Between(X, V(n - 1) \cup {<<a, n - 1>>})
        BY <3>1, <3>2, <3>3, AddNodeFacts
      <3> QED
        BY <3>2, <3>4, <3>5, <3>6 DEF Between
    <2>4. AddWorker(r, a) = it[N]
      BY <1>1, <1>3, Zenon DEF AddWorker
    <2>5. R[N] = RingsOf(X)
      <3>1. V(N) = X \X Index
        <4>1. Index = 0 .. N - 1
          BY <2>1
        <4> QED
          BY <4>1
      <3>2. R[N] = Between(X, V(N))
        BY <2>1
      <3> QED
        BY <3>1, <3>2, Zenon DEF RingsOf
    <2> HIDE DEF R, base, X
    <2>6. \A n \in 1 .. N : \A x \in R[n - 1] : step[n][x] = AddNode(x, a, n - 1)
      BY <2>3
    <2>7. \A n \in 1 .. N : \A x \in R[n - 1] : step[n][x] \in R[n]
      BY <2>3, <2>6
    <2> HIDE DEF step, V, N
    <2>8. PICK g : Passes(g, base, step, N) /\ \A n \in 0 .. N : g[n] \in R[n]
      <3>1. N \in Nat
        BY <2>1
      <3> HIDE DEF Body, Eq, it
      <3>2. \A n \in 1 .. N : \A x \in R[n - 1] : step[n][x] \in R[n]
        BY <2>7
      <3> QED
        BY <2>2, <3>1, <3>2, LoopsReach
    <2>9. Eq(g)
      <3>1. ASSUME NEW n \in 0 .. N
            PROVE  (IF n = 0 THEN base ELSE step[n][g[n - 1]]) = Body(g, n)
        <4>1. n # 0 => n \in 1 .. N /\ n - 1 \in 0 .. N
          BY <2>1
        <4> QED
          BY <2>6, <2>8, <4>1
      <3> HIDE DEF Body
      <3>2. [n \in 0 .. N |-> IF n = 0 THEN base ELSE step[n][g[n - 1]]]
              = [n \in 0 .. N |-> Body(g, n)]
        BY <3>1
      <3> QED
        BY <2>8, <3>2 DEF Passes
    <2>10. Eq(it)
      BY <2>9
    <2> HIDE DEF it
    <2>11. it[0] \in R[0]
      BY <2>1, <2>2, <2>10
    <2>12. ASSUME NEW n \in 1 .. N, it[n - 1] \in R[n - 1] PROVE it[n] \in R[n]
      <3>1. n \in 0 .. N /\ n # 0
        BY <2>1
      <3>2. it[n] = AddNode(it[n - 1], a, n - 1)
        BY <2>10, <3>1
      <3> QED
        BY <2>3, <2>12, <3>2
    <2>13. \A n \in 0 .. N : it[n] \in R[n]
      BY <2>1, <2>11, <2>12, LoopsStay
    <2> QED
      BY <2>1, <2>4, <2>5, <2>13 DEF X
  <1> QED
    BY <1>2, <1>3
\* _remove_worker_unlocked turns a complete ring into a complete ring.
LEMMA RemoveWorkerFacts ==
    ASSUME NEW W \in SUBSET Addr, NEW r \in RingsOf(W), NEW a \in Addr
    PROVE  RemoveWorker(r, a) \in RingsOf(W \ {a})
  <1>1. r \in Rings /\ r.workers = W /\ Holds(r, W \X Index)
    BY DEF RingsOf, Between
  <1>2. CASE a \notin W
    <2>1. RemoveWorker(r, a) = r /\ W \ {a} = W
      BY <1>1, <1>2 DEF RemoveWorker
    <2> QED
      BY <2>1
  <1>3. CASE a \in W
    <2> DEFINE N == VirtualNodes
               X == W \ {a}
               base == [workers |-> r.workers \ {a}, keys |-> r.keys, map |-> r.map]
               V(n) == (W \X Index) \ ({a} \X (0 .. n - 1))
               R == [n \in 0 .. N |-> Between(X, V(n))]
               step == [n \in 1 .. N |-> [x \in Rings |-> RemoveNode(x, a, n - 1)]]
               Body(g, n) == IF n = 0 THEN base ELSE RemoveNode(g[n - 1], a, n - 1)
               Eq(g) == g = [n \in 0 .. N |-> Body(g, n)]
               it == CHOOSE g : Eq(g)
    <2>1. N \in Nat \ {0} /\ Index = 0 .. N - 1
      BY HashAssumption DEF Index
    <2>2. base \in R[0]
      <3>1. base = [workers |-> X, keys |-> r.keys, map |-> r.map]
        BY <1>1
      <3> HIDE DEF base
      <3>2. base \in Rings
        <4> HIDE DEF X
        <4>1. X \in SUBSET Addr
          BY DEF X
        <4> QED
          BY <1>1, <3>1, <4>1, RingFields, RingOf
      <3>3. V(0) = W \X Index
        OBVIOUS
      <3>4. Holds(base, V(0)) /\ base.workers = X
        BY <1>1, <3>1, <3>3 DEF Holds
      <3>5. R[0] = Between(X, V(0))
        BY <2>1
      <3> QED
        BY <3>2, <3>4, <3>5 DEF Between
    <2>3. ASSUME NEW n \in 1 .. N, NEW x \in R[n - 1]
          PROVE  x \in Rings /\ RemoveNode(x, a, n - 1) \in R[n]
      <3>1. n - 1 \in 0 .. N /\ n \in 0 .. N /\ n - 1 \in Index
        BY <2>1
      <3>2. x \in Between(X, V(n - 1))
        BY <3>1
      <3>3. V(n - 1) \in SUBSET (Addr \X Index) /\ <<a, n - 1>> \in V(n - 1)
        <4>1. n - 1 \notin 0 .. (n - 1) - 1
          BY <2>1
        <4>2. <<a, n - 1>> \in W \X Index
          BY <1>3, <3>1
        <4>3. W \X Index \subseteq Addr \X Index
          OBVIOUS
        <4> QED
          BY <4>1, <4>2, <4>3
      <3>4. V(n) = V(n - 1) \ {<<a, n - 1>>}
        <4>1. 0 .. n - 1 = (0 .. (n - 1) - 1) \cup {n - 1}
          BY <2>1
        <4> QED
          BY <4>1
      <3>5. R[n] = Between(X, V(n))
        BY <3>1
      <3> HIDE DEF V, R, X
      <3>6. RemoveNode(x, a, n - 1) \in Between(X, V(n - 1) \ {<<a, n - 1>>})
        BY <3>1, <3>2, <3>3, RemoveNodeFacts
      <3> QED
        BY <3>2, <3>4, <3>5, <3>6 DEF Between
    <2>4. RemoveWorker(r, a) = it[N]
      BY <1>1, <1>3, Zenon DEF RemoveWorker
    <2>5. R[N] = RingsOf(X)
      <3>1. V(N) = X \X Index
        <4>1. Index = 0 .. N - 1
          BY <2>1
        <4> QED
          BY <4>1
      <3>2. R[N] = Between(X, V(N))
        BY <2>1
      <3> QED
        BY <3>1, <3>2, Zenon DEF RingsOf
    <2> HIDE DEF R, base, X
    <2>6. \A n \in 1 .. N : \A x \in R[n - 1] : step[n][x] = RemoveNode(x, a, n - 1)
      BY <2>3
    <2>7. \A n \in 1 .. N : \A x \in R[n - 1] : step[n][x] \in R[n]
      BY <2>3, <2>6
    <2> HIDE DEF step, V, N
    <2>8. PICK g : Passes(g, base, step, N) /\ \A n \in 0 .. N : g[n] \in R[n]
      <3>1. N \in Nat
        BY <2>1
      <3> HIDE DEF Body, Eq, it
      <3>2. \A n \in 1 .. N : \A x \in R[n - 1] : step[n][x] \in R[n]
        BY <2>7
      <3> QED
        BY <2>2, <3>1, <3>2, LoopsReach
    <2>9. Eq(g)
      <3>1. ASSUME NEW n \in 0 .. N
            PROVE  (IF n = 0 THEN base ELSE step[n][g[n - 1]]) = Body(g, n)
        <4>1. n # 0 => n \in 1 .. N /\ n - 1 \in 0 .. N
          BY <2>1
        <4> QED
          BY <2>6, <2>8, <4>1
      <3> HIDE DEF Body
      <3>2. [n \in 0 .. N |-> IF n = 0 THEN base ELSE step[n][g[n - 1]]]
              = [n \in 0 .. N |-> Body(g, n)]
        BY <3>1
      <3> QED
        BY <2>8, <3>2 DEF Passes
    <2>10. Eq(it)
      BY <2>9
    <2> HIDE DEF it
    <2>11. it[0] \in R[0]
      BY <2>1, <2>2, <2>10
    <2>12. ASSUME NEW n \in 1 .. N, it[n - 1] \in R[n - 1] PROVE it[n] \in R[n]
      <3>1. n \in 0 .. N /\ n # 0
        BY <2>1
      <3>2. it[n] = RemoveNode(it[n - 1], a, n - 1)
        BY <2>10, <3>1
      <3> QED
        BY <2>3, <2>12, <3>2
    <2>13. \A n \in 0 .. N : it[n] \in R[n]
      BY <2>1, <2>11, <2>12, LoopsStay
    <2> QED
      BY <2>1, <2>4, <2>5, <2>13 DEF X
  <1> QED
    BY <1>2, <1>3
-----------------------------------------------------------------------------
(* The ring of CacheAware *)

PairRings == [workers : SUBSET Addr, keys : Seq(Nat), owners : Seq(Addr)]

\* Place j of the lists is the virtual node v.
At(r, j, v) == r.keys[j] = Hash[v] /\ r.owners[j] = v[1]

\* The lists are parallel, sorted, and exactly the virtual nodes V.
HoldsPairs(r, V) ==
    /\ Len(r.owners) = Len(r.keys)
    /\ Increasing(r.keys)
    /\ \A j \in 1 .. Len(r.keys) : \E v \in V : At(r, j, v)
    /\ \A v \in V : \E j \in 1 .. Len(r.keys) : At(r, j, v)

PairsBetween(W, V) == {r \in PairRings : r.workers = W /\ HoldsPairs(r, V)}

\* A new virtual node enters both lists.
LEMMA InsertNodeFacts ==
    ASSUME NEW W, NEW V \in SUBSET (Addr \X Index), NEW r \in PairsBetween(W, V),
           NEW a \in Addr, NEW i \in Index, <<a, i>> \notin V
    PROVE  InsertNode(r, a, i) \in PairsBetween(W, V \cup {<<a, i>>})
  <1> DEFINE h == Hash[a, i]
             n == Len(r.keys)
             b == BisectLeft(r.keys, h) + 1
             s == InsertAt(r.keys, b, h)
             o == InsertAt(r.owners, b, a)
             u == InsertNode(r, a, i)
             U == V \cup {<<a, i>>}
  <1>1. r \in PairRings /\ r.workers = W /\ HoldsPairs(r, V)
    BY DEF PairsBetween
  <1>2. h \in Nat /\ \A w \in V : Hash[w] # h
    <2>1. <<a, i>> \in Addr \X Index
      OBVIOUS
    <2> QED
      BY <2>1, HashFacts
  <1>3. /\ r.keys \in Seq(Nat) /\ r.owners \in Seq(Addr) /\ W \in SUBSET Addr
        /\ Increasing(r.keys) /\ Len(r.owners) = n /\ n \in Nat /\ DOMAIN r.keys = 1 .. n
    BY <1>1, LenProperties DEF PairRings, HoldsPairs
  <1>4. h \notin ToSet(r.keys)
    <2>1. ASSUME NEW j \in 1 .. n PROVE r.keys[j] # h
      <3>1. PICK v \in V : At(r, j, v)
        BY <1>1 DEF HoldsPairs
      <3> HIDE DEF h
      <3> QED
        BY <1>2, <3>1 DEF At
    <2> QED
      BY <1>3, <2>1 DEF ToSet
  <1>5. b \in 1 .. n + 1 /\ s \in Seq(Nat) /\ Increasing(s)
    <2> HIDE DEF h
    <2>1. BisectLeft(r.keys, h) = BisectRight(r.keys, h) /\ BisectLeft(r.keys, h) \in 0 .. n
      BY <1>2, <1>3, <1>4, BisectFacts
    <2>2. s = InsertAt(r.keys, BisectRight(r.keys, h) + 1, h)
      BY <2>1
    <2>3. s \in Seq(Nat) /\ Increasing(s)
      BY <1>2, <1>3, <1>4, <2>2, InsortFacts
    <2>4. b \in 1 .. n + 1
      BY <1>3, <2>1
    <2> QED
      BY <2>3, <2>4
  <1>6. u = [workers |-> W, keys |-> s, owners |-> o]
    BY <1>1, Zenon DEF InsertNode
  <1> HIDE DEF b, h
  <1>7. Inserted(s, r.keys, b, h) /\ o \in Seq(Addr) /\ Inserted(o, r.owners, b, a)
    <2>1. b \in 1 .. Len(r.keys) + 1 /\ b \in 1 .. Len(r.owners) + 1
      BY <1>3, <1>5
    <2> QED
      BY <1>2, <1>3, <2>1, InsertAtFacts
  <1> HIDE DEF s, o, u, n
  <1>8. Len(s) = n + 1 /\ Len(o) = n + 1
    BY <1>3, <1>5, <1>7, LenProperties DEF Inserted, n
  <1>9. u.workers = W /\ u.keys = s /\ u.owners = o /\ u \in PairRings
    BY <1>3, <1>5, <1>6, <1>7 DEF PairRings
  <1>10. /\ \A j \in 1 .. b - 1 : u.keys[j] = r.keys[j] /\ u.owners[j] = r.owners[j]
         /\ u.keys[b] = h /\ u.owners[b] = a
         /\ \A j \in b + 1 .. n + 1 : /\ u.keys[j] = r.keys[j - 1]
                                      /\ u.owners[j] = r.owners[j - 1]
    BY <1>3, <1>7, <1>9 DEF Inserted, n
  <1>11. At(u, b, <<a, i>>)
    <2>1. <<a, i>>[1] = a
      OBVIOUS
    <2> QED
      BY <1>10, <2>1 DEF At, h
  <1>12. ASSUME NEW j \in 1 .. n + 1 PROVE \E v \in U : At(u, j, v)
    <2>1. CASE j < b
      <3>1. j \in 1 .. b - 1 /\ j \in 1 .. n
        BY <1>3, <1>5, <2>1
      <3>2. PICK v \in V : At(r, j, v)
        BY <1>1, <3>1 DEF HoldsPairs, n
      <3>3. At(u, j, v)
        BY <1>10, <3>1, <3>2 DEF At
      <3> QED
        BY <3>3
    <2>2. CASE j = b
      BY <1>11, <2>2
    <2>3. CASE j > b
      <3>1. j \in b + 1 .. n + 1 /\ j - 1 \in 1 .. n
        BY <1>3, <1>5, <2>3
      <3>2. PICK v \in V : At(r, j - 1, v)
        BY <1>1, <3>1 DEF HoldsPairs, n
      <3>3. At(u, j, v)
        BY <1>10, <3>1, <3>2 DEF At
      <3> QED
        BY <3>3
    <2> QED
      BY <1>3, <1>5, <2>1, <2>2, <2>3
  <1>13. ASSUME NEW v \in U PROVE \E j \in 1 .. n + 1 : At(u, j, v)
    <2>1. CASE v = <<a, i>>
      BY <1>5, <1>11, <2>1
    <2>2. CASE v \in V
      <3>1. PICK j \in 1 .. n : At(r, j, v)
        BY <1>1, <2>2 DEF HoldsPairs, n
      <3>2. CASE j < b
        <4>1. j \in 1 .. b - 1 /\ j \in 1 .. n + 1
          BY <1>3, <1>5, <3>2
        <4>2. At(u, j, v)
          BY <1>10, <3>1, <4>1 DEF At
        <4> QED
          BY <4>1, <4>2
      <3>3. CASE ~(j < b)
        <4>1. j + 1 \in b + 1 .. n + 1 /\ (j + 1) - 1 = j /\ j + 1 \in 1 .. n + 1
          BY <1>3, <1>5, <3>3
        <4>2. u.keys[j + 1] = r.keys[(j + 1) - 1] /\ u.owners[j + 1] = r.owners[(j + 1) - 1]
          BY <1>10, <4>1
        <4>3. At(u, j + 1, v)
          BY <3>1, <4>1, <4>2 DEF At
        <4> QED
          BY <4>1, <4>3
      <3> QED
        BY <3>2, <3>3
    <2> QED
      BY <2>1, <2>2
  <1>14. HoldsPairs(u, U)
    BY <1>5, <1>8, <1>9, <1>12, <1>13 DEF HoldsPairs
  <1> QED
    BY <1>9, <1>14 DEF PairsBetween, u

\* The complete rings with the workers W.
PairsOf(W) == PairsBetween(W, W \X Index)

\* ConsistentHashRing.add_worker turns a complete ring into a complete ring.
LEMMA JoinRingFacts ==
    ASSUME NEW W \in SUBSET Addr, NEW r \in PairsOf(W), NEW a \in Addr
    PROVE  JoinRing(r, a) \in PairsOf(W \cup {a})
  <1>1. r \in PairRings /\ r.workers = W /\ HoldsPairs(r, W \X Index)
    BY DEF PairsOf, PairsBetween
  <1>2. CASE a \in W
    <2>1. JoinRing(r, a) = r /\ W \cup {a} = W
      BY <1>1, <1>2 DEF JoinRing
    <2> QED
      BY <2>1
  <1>3. CASE a \notin W
    <2> DEFINE N == VirtualNodes
               X == W \cup {a}
               base == [workers |-> r.workers \cup {a}, keys |-> r.keys, owners |-> r.owners]
               V(n) == (W \X Index) \cup ({a} \X (0 .. n - 1))
               R == [n \in 0 .. N |-> PairsBetween(X, V(n))]
               step == [n \in 1 .. N |-> [x \in PairRings |-> InsertNode(x, a, n - 1)]]
               Body(g, n) == IF n = 0 THEN base ELSE InsertNode(g[n - 1], a, n - 1)
               Eq(g) == g = [n \in 0 .. N |-> Body(g, n)]
               it == CHOOSE g : Eq(g)
    <2>1. N \in Nat \ {0} /\ Index = 0 .. N - 1
      BY HashAssumption DEF Index
    <2>2. base \in R[0]
      <3>1. base = [workers |-> X, keys |-> r.keys, owners |-> r.owners]
        BY <1>1
      <3> HIDE DEF base
      <3>2. base \in PairRings
        <4> HIDE DEF X
        <4>1. X \in SUBSET Addr
          BY DEF X
        <4> QED
          BY <1>1, <3>1, <4>1 DEF PairRings
      <3>3. V(0) = W \X Index
        OBVIOUS
      <3>4. HoldsPairs(base, V(0)) /\ base.workers = X
        BY <1>1, <3>1, <3>3 DEF HoldsPairs, At
      <3>5. R[0] = PairsBetween(X, V(0))
        BY <2>1
      <3> QED
        BY <3>2, <3>4, <3>5 DEF PairsBetween
    <2>3. ASSUME NEW n \in 1 .. N, NEW x \in R[n - 1]
          PROVE  x \in PairRings /\ InsertNode(x, a, n - 1) \in R[n]
      <3>1. n - 1 \in 0 .. N /\ n \in 0 .. N /\ n - 1 \in Index
        BY <2>1
      <3>2. x \in PairsBetween(X, V(n - 1))
        BY <3>1
      <3>3. V(n - 1) \in SUBSET (Addr \X Index) /\ <<a, n - 1>> \notin V(n - 1)
        <4>1. \A k \in 0 .. (n - 1) - 1 : k \in Index /\ k # n - 1
          BY <2>1
        <4> QED
          BY <1>3, <4>1
      <3>4. V(n) = V(n - 1) \cup {<<a, n - 1>>}
        <4>1. 0 .. n - 1 = (0 .. (n - 1) - 1) \cup {n - 1}
          BY <2>1
        <4> QED
          BY <4>1
      <3>5. R[n] = PairsBetween(X, V(n))
        BY <3>1
      <3> HIDE DEF V, R, X
      <3>6. InsertNode(x, a, n - 1) \in PairsBetween(X, V(n - 1) \cup {<<a, n - 1>>})
        BY <3>1, <3>2, <3>3, InsertNodeFacts
      <3> QED
        BY <3>2, <3>4, <3>5, <3>6 DEF PairsBetween
    <2>4. JoinRing(r, a) = it[N]
      BY <1>1, <1>3, Zenon DEF JoinRing
    <2>5. R[N] = PairsOf(X)
      <3>1. V(N) = X \X Index
        <4>1. Index = 0 .. N - 1
          BY <2>1
        <4> QED
          BY <4>1
      <3>2. R[N] = PairsBetween(X, V(N))
        BY <2>1
      <3> QED
        BY <3>1, <3>2, Zenon DEF PairsOf
    <2> HIDE DEF R, base, X
    <2>6. \A n \in 1 .. N : \A x \in R[n - 1] : step[n][x] = InsertNode(x, a, n - 1)
      BY <2>3
    <2>7. \A n \in 1 .. N : \A x \in R[n - 1] : step[n][x] \in R[n]
      BY <2>3, <2>6
    <2> HIDE DEF step, V, N
    <2>8. PICK g : Passes(g, base, step, N) /\ \A n \in 0 .. N : g[n] \in R[n]
      <3>1. N \in Nat
        BY <2>1
      <3> HIDE DEF Body, Eq, it
      <3>2. \A n \in 1 .. N : \A x \in R[n - 1] : step[n][x] \in R[n]
        BY <2>7
      <3> QED
        BY <2>2, <3>1, <3>2, LoopsReach
    <2>9. Eq(g)
      <3>1. ASSUME NEW n \in 0 .. N
            PROVE  (IF n = 0 THEN base ELSE step[n][g[n - 1]]) = Body(g, n)
        <4>1. n # 0 => n \in 1 .. N /\ n - 1 \in 0 .. N
          BY <2>1
        <4> QED
          BY <2>6, <2>8, <4>1
      <3> HIDE DEF Body
      <3>2. [n \in 0 .. N |-> IF n = 0 THEN base ELSE step[n][g[n - 1]]]
              = [n \in 0 .. N |-> Body(g, n)]
        BY <3>1
      <3> QED
        BY <2>8, <3>2 DEF Passes
    <2>10. Eq(it)
      BY <2>9
    <2> HIDE DEF it
    <2>11. it[0] \in R[0]
      BY <2>1, <2>2, <2>10
    <2>12. ASSUME NEW n \in 1 .. N, it[n - 1] \in R[n - 1] PROVE it[n] \in R[n]
      <3>1. n \in 0 .. N /\ n # 0
        BY <2>1
      <3>2. it[n] = InsertNode(it[n - 1], a, n - 1)
        BY <2>10, <3>1
      <3> QED
        BY <2>3, <2>12, <3>2
    <2>13. \A n \in 0 .. N : it[n] \in R[n]
      BY <2>1, <2>11, <2>12, LoopsStay
    <2> QED
      BY <2>1, <2>4, <2>5, <2>13 DEF X
  <1> QED
    BY <1>2, <1>3
\* ConsistentHashRing.remove_worker turns a complete ring into a complete ring.
LEMMA LeaveRingFacts ==
    ASSUME NEW W \in SUBSET Addr, NEW r \in PairsOf(W), NEW a \in Addr
    PROVE  LeaveRing(r, a) \in PairsOf(W \ {a})
  <1>1. r \in PairRings /\ r.workers = W /\ HoldsPairs(r, W \X Index)
    BY DEF PairsOf, PairsBetween
  <1>2. CASE a \notin W
    <2>1. LeaveRing(r, a) = r /\ W \ {a} = W
      BY <1>1, <1>2 DEF LeaveRing
    <2> QED
      BY <2>1
  <1>3. CASE a \in W
    <2> DEFINE n == Len(r.keys)
               S == Nat \X Addr
               places == Zip(r.keys, r.owners)
               C == {kw \in ToSet(places) : kw[2] # a}
               kept == Where(places, C)
               T == {pq \in S \X S : pq[1][1] < pq[2][1]}
               s == [j \in DOMAIN kept |-> kept[j][1]]
               o == [j \in DOMAIN kept |-> kept[j][2]]
               u == LeaveRing(r, a)
               X == W \ {a}
    <2>1. /\ r.keys \in Seq(Nat) /\ r.owners \in Seq(Addr)
          /\ Increasing(r.keys) /\ Len(r.owners) = n /\ n \in Nat /\ DOMAIN r.keys = 1 .. n
          /\ \A j \in 1 .. n : r.keys[j] \in Nat /\ r.owners[j] \in Addr
      BY <1>1, LenProperties, ElementOfSeq DEF PairRings, HoldsPairs
    <2>2. /\ places \in Seq(S) /\ DOMAIN places = 1 .. n
          /\ \A j \in 1 .. n : places[j] = <<r.keys[j], r.owners[j]>>
      <3>1. places = [j \in 1 .. n |-> <<r.keys[j], r.owners[j]>>]
        BY <2>1 DEF Zip
      <3> HIDE DEF places
      <3>2. \A j \in 1 .. n : <<r.keys[j], r.owners[j]>> \in S
        BY <2>1
      <3> QED
        BY <2>1, <3>1, <3>2
    <2>3. u = [workers |-> X, keys |-> s, owners |-> o]
      BY <1>1, <1>3, Zenon DEF LeaveRing
    <2>4. ToSet(places) = {places[j] : j \in 1 .. n}
      BY <2>2, Zenon DEF ToSet
    <2> HIDE DEF places, S
    <2>5. kept \in Seq(S) /\ ToSet(kept) = ToSet(places) \cap C
      BY <2>2, WhereFacts
    <2>6. \A j, k \in DOMAIN kept : j < k => <<kept[j], kept[k]>> \in T
      <3>1. ASSUME NEW j \in DOMAIN places, NEW k \in DOMAIN places, j < k
            PROVE  <<places[j], places[k]>> \in T
        <4>1. r.keys[j] < r.keys[k]
          BY <2>1, <2>2, <3>1 DEF Increasing
        <4>2. places[j] \in S /\ places[k] \in S
          BY <2>2, ElementOfSeq, LenProperties
        <4>3. places[j][1] = r.keys[j] /\ places[k][1] = r.keys[k]
          BY <2>2
        <4> QED
          BY <4>1, <4>2, <4>3
      <3> HIDE DEF T, C
      <3> QED
        BY <2>2, <3>1, WhereOrdered
    <2> HIDE DEF kept, C
    <2>7. /\ Len(kept) \in Nat /\ DOMAIN kept = 1 .. Len(kept)
          /\ \A j \in 1 .. Len(kept) : kept[j] \in S
      BY <2>5, LenProperties, ElementOfSeq
    <2>8. \A j \in 1 .. Len(kept) : kept[j][1] \in Nat /\ kept[j][2] \in Addr
      BY <2>7 DEF S
    <2>9. /\ s \in Seq(Nat) /\ o \in Seq(Addr) /\ Len(s) = Len(kept) /\ Len(o) = Len(kept)
          /\ \A j \in 1 .. Len(kept) : s[j] = kept[j][1] /\ o[j] = kept[j][2]
      <3>1. s \in [1 .. Len(kept) -> Nat] /\ o \in [1 .. Len(kept) -> Addr]
        BY <2>7, <2>8
      <3>2. s \in Seq(Nat) /\ o \in Seq(Addr) /\ Len(s) = Len(kept) /\ Len(o) = Len(kept)
        BY <2>7, <3>1
      <3> QED
        BY <2>7, <3>2
    <2>10. Increasing(s)
      <3> SUFFICES ASSUME NEW j \in DOMAIN kept, NEW k \in DOMAIN kept, j < k
                   PROVE  kept[j][1] < kept[k][1]
        BY <2>7, <2>9, LenProperties DEF Increasing
      <3>1. <<kept[j], kept[k]>> \in T
        BY <2>6
      <3> QED
        BY <3>1
    <2> HIDE DEF s, o, u
    <2>11. u \in PairRings /\ u.workers = X /\ u.keys = s /\ u.owners = o
      BY <2>3, <2>9 DEF PairRings
    <2>12. ASSUME NEW j \in 1 .. Len(kept) PROVE \E v \in X \X Index : At(u, j, v)
      <3>1. kept[j] \in ToSet(places) /\ kept[j][2] # a
        <4>1. kept[j] \in ToSet(kept)
          BY <2>7 DEF ToSet
        <4> QED
          BY <2>5, <4>1 DEF C
      <3>2. PICK m \in 1 .. n : kept[j] = places[m]
        BY <2>4, <3>1
      <3>3. PICK v \in W \X Index : At(r, m, v)
        BY <1>1, <3>2 DEF HoldsPairs
      <3>4. kept[j][1] = r.keys[m] /\ kept[j][2] = r.owners[m]
        BY <2>2, <3>2
      <3>5. v \in X \X Index
        BY <3>1, <3>3, <3>4 DEF At
      <3>6. At(u, j, v)
        BY <2>9, <2>11, <3>3, <3>4 DEF At
      <3> QED
        BY <3>5, <3>6
    <2>13. ASSUME NEW v \in X \X Index PROVE \E j \in 1 .. Len(kept) : At(u, j, v)
      <3>1. v \in W \X Index /\ v[1] # a
        OBVIOUS
      <3>2. PICK m \in 1 .. n : At(r, m, v)
        BY <1>1, <3>1 DEF HoldsPairs
      <3>3. places[m][1] = Hash[v] /\ places[m][2] = v[1]
        BY <2>2, <3>2 DEF At
      <3>4. places[m] \in ToSet(kept)
        BY <2>4, <2>5, <3>1, <3>3 DEF C
      <3>5. PICK j \in 1 .. Len(kept) : kept[j] = places[m]
        BY <2>7, <3>4 DEF ToSet
      <3>6. At(u, j, v)
        BY <2>9, <2>11, <3>3, <3>5 DEF At
      <3> QED
        BY <3>6
    <2>14. HoldsPairs(u, X \X Index)
      BY <2>9, <2>10, <2>11, <2>12, <2>13 DEF HoldsPairs
    <2> QED
      BY <2>11, <2>14 DEF PairsOf, PairsBetween, u
  <1> QED
    BY <1>2, <1>3
-----------------------------------------------------------------------------
(* The ring of the global policy *)

\* The complete rings of the global policy.
CompleteRings(W) == IF policy = "consistent_hash" THEN RingsOf(W) ELSE PairsOf(W)

AnyRing == Rings \cup PairRings

\* The ring before the first worker.
LEMMA NewRingFacts ==
    ASSUME HasRing
    PROVE  NewRing \in CompleteRings({})
  <1> DEFINE f == [h \in {} |-> 0]
             e == << >>
  <1>1. e \in Seq(Nat) /\ e \in Seq(Addr) /\ Len(e) = 0 /\ ToSet(e) = {} /\ Increasing(e)
        /\ {} \X Index = {}
    BY DEF ToSet, Increasing
  <1>2. CASE policy = "consistent_hash"
    <2>1. NewRing = [workers |-> {}, keys |-> e, map |-> f]
      BY <1>2 DEF NewRing, EmptyRing
    <2>2. f \in [{} -> Addr] /\ DOMAIN f = {}
      OBVIOUS
    <2> HIDE DEF f, e
    <2>3. NewRing \in Rings
      <3>1. {} \in SUBSET Addr /\ {} \in SUBSET Nat
        OBVIOUS
      <3> QED
        BY <1>1, <2>1, <2>2, <3>1, RingOf
    <2>4. NewRing.workers = {} /\ NewRing.keys = e /\ NewRing.map = f
      BY <2>1
    <2>5. Holds(NewRing, {} \X Index)
      BY <1>1, <2>2, <2>4 DEF Holds
    <2> QED
      BY <1>2, <2>3, <2>4, <2>5 DEF CompleteRings, RingsOf, Between
  <1>3. CASE policy = "cache_aware"
    <2>1. NewRing = [workers |-> {}, keys |-> e, owners |-> e]
      BY <1>3 DEF NewRing, EmptyLists
    <2> HIDE DEF e
    <2>2. NewRing \in PairRings
      BY <1>1, <2>1 DEF PairRings
    <2>3. NewRing.workers = {} /\ NewRing.keys = e /\ NewRing.owners = e
      BY <2>1
    <2>4. HoldsPairs(NewRing, {} \X Index)
      BY <1>1, <2>3 DEF HoldsPairs
    <2> QED
      BY <1>3, <2>2, <2>3, <2>4 DEF CompleteRings, PairsOf, PairsBetween
  <1> QED
    BY <1>2, <1>3 DEF HasRing

\* Additions and removals go from complete rings to complete rings.
LEMMA RingChanges ==
    ASSUME HasRing, NEW W \in SUBSET Addr, NEW r \in CompleteRings(W), NEW a \in Addr
    PROVE  /\ r \in AnyRing
           /\ Added(r, a) \in CompleteRings(W \cup {a})
           /\ Removed(r, a) \in CompleteRings(W \ {a})
  <1>1. CASE policy = "consistent_hash"
    <2>1. \A X : CompleteRings(X) = RingsOf(X)
      BY <1>1 DEF CompleteRings
    <2>2. Added(r, a) = AddWorker(r, a) /\ Removed(r, a) = RemoveWorker(r, a)
      BY <1>1 DEF Added, Removed
    <2>3. r \in Rings /\ r \in RingsOf(W)
      BY <2>1 DEF RingsOf, Between
    <2> QED
      BY <2>1, <2>2, <2>3, AddWorkerFacts, RemoveWorkerFacts DEF AnyRing
  <1>2. CASE policy = "cache_aware"
    <2>1. \A X : CompleteRings(X) = PairsOf(X)
      BY <1>2 DEF CompleteRings
    <2>2. Added(r, a) = JoinRing(r, a) /\ Removed(r, a) = LeaveRing(r, a)
      BY <1>2 DEF Added, Removed
    <2>3. r \in PairRings /\ r \in PairsOf(W)
      BY <2>1 DEF PairsOf, PairsBetween
    <2> QED
      BY <2>1, <2>2, <2>3, JoinRingFacts, LeaveRingFacts DEF AnyRing
  <1> QED
    BY <1>1, <1>2 DEF HasRing

\* The ring of a list of workers, one added after the other.
LEMMA BuiltFacts ==
    ASSUME HasRing, NEW w \in Seq(Addr)
    PROVE  Built(w) \in CompleteRings(ToSet(w))
  <1> DEFINE N == Len(w)
             First(n) == {w[j] : j \in 1 .. n}
             R == [n \in 0 .. N |-> CompleteRings(First(n))]
             step == [n \in 1 .. N |-> [x \in AnyRing |-> Added(x, w[n])]]
             Body(g, n) == IF n = 0 THEN NewRing ELSE Added(g[n - 1], w[n])
             Eq(g) == g = [n \in 0 .. N |-> Body(g, n)]
             it == CHOOSE g : Eq(g)
  <1>1. N \in Nat /\ DOMAIN w = 1 .. N /\ \A j \in 1 .. N : w[j] \in Addr
    BY LenProperties, ElementOfSeq
  <1>2. NewRing \in R[0]
    <2>1. First(0) = {} /\ 0 \in 0 .. N
      BY <1>1
    <2>2. R[0] = CompleteRings({})
      BY <2>1
    <2> HIDE DEF R
    <2> QED
      BY <2>2, NewRingFacts
  <1>3. ASSUME NEW n \in 1 .. N, NEW x \in R[n - 1]
        PROVE  x \in AnyRing /\ Added(x, w[n]) \in R[n]
    <2>1. n - 1 \in 0 .. N /\ n \in 0 .. N /\ w[n] \in Addr
      BY <1>1
    <2>2. x \in CompleteRings(First(n - 1)) /\ R[n] = CompleteRings(First(n))
      BY <2>1
    <2>3. First(n) = First(n - 1) \cup {w[n]}
      <3>1. 1 .. n = (1 .. n - 1) \cup {n}
        BY <1>1
      <3> QED
        BY <3>1
    <2>4. First(n - 1) \in SUBSET Addr
      <3>1. \A j \in 1 .. n - 1 : j \in 1 .. N
        BY <1>1
      <3> QED
        BY <1>1, <3>1
    <2> HIDE DEF First, R
    <2>5. x \in AnyRing /\ Added(x, w[n]) \in CompleteRings(First(n - 1) \cup {w[n]})
      BY <2>1, <2>2, <2>4, RingChanges
    <2> QED
      BY <2>2, <2>3, <2>5
  <1>4. Built(w) = it[N]
    BY Zenon DEF Built
  <1>5. R[N] = CompleteRings(ToSet(w))
    <2>1. First(N) = ToSet(w) /\ N \in 0 .. N
      BY <1>1 DEF ToSet
    <2> HIDE DEF First
    <2> QED
      BY <2>1
  <1> HIDE DEF R, First
  <1>6. \A n \in 1 .. N : \A x \in R[n - 1] : step[n][x] = Added(x, w[n])
    BY <1>3
  <1>7. \A n \in 1 .. N : \A x \in R[n - 1] : step[n][x] \in R[n]
    BY <1>3, <1>6
  <1> HIDE DEF step
  <1>8. PICK g : Passes(g, NewRing, step, N) /\ \A n \in 0 .. N : g[n] \in R[n]
    <2> HIDE DEF Body, Eq, it, N
    <2> QED
      BY <1>1, <1>2, <1>7, LoopsReach
  <1>9. Eq(g)
    <2>1. ASSUME NEW n \in 0 .. N
          PROVE  (IF n = 0 THEN NewRing ELSE step[n][g[n - 1]]) = Body(g, n)
      <3>1. n # 0 => n \in 1 .. N /\ n - 1 \in 0 .. N
        BY <1>1
      <3> QED
        BY <1>6, <1>8, <3>1
    <2> HIDE DEF Body
    <2>2. [n \in 0 .. N |-> IF n = 0 THEN NewRing ELSE step[n][g[n - 1]]]
            = [n \in 0 .. N |-> Body(g, n)]
      BY <2>1
    <2> QED
      BY <1>8, <2>2 DEF Passes
  <1>10. Eq(it)
    BY <1>9
  <1> HIDE DEF it
  <1>11. it[0] \in R[0]
    BY <1>1, <1>2, <1>10
  <1>12. ASSUME NEW n \in 1 .. N, it[n - 1] \in R[n - 1] PROVE it[n] \in R[n]
    <2>1. n \in 0 .. N /\ n # 0
      BY <1>1
    <2>2. it[n] = Added(it[n - 1], w[n])
      BY <1>10, <2>1
    <2> QED
      BY <1>3, <1>12, <2>2
  <1>13. \A n \in 0 .. N : it[n] \in R[n]
    BY <1>1, <1>11, <1>12, LoopsStay
  <1> QED
    BY <1>1, <1>4, <1>5, <1>13
-----------------------------------------------------------------------------
(* The invariant *)

Turn == [pool : SUBSET Addr, mixed : BOOLEAN, lead : [Addr -> Nat]]
Wave == [pool : SUBSET Addr, mixed : BOOLEAN]

\* An instance with a role is in the list of that role.
RoleIsListed == \A a \in Addr : role[a] \in Role => a \in ToSet(list[role[a]])

\* While every request had the candidates t.pool, those that are ahead by one
\* are those the cycler, standing at p in the list s, will come to last.
InTurn(t, s, p) ==
    ~t.mixed =>
        /\ \A a \in Addr : t.lead[a] \in {0, 1}
        /\ t.pool = {} => \A a \in Addr : t.lead[a] = 0
        /\ t.pool # {} => IsInjective(s) /\ \E a \in t.pool : t.lead[a] = 0
        /\ \A x, y \in 0 .. Len(s) - 1 :
              (/\ s[x + 1] \in t.pool /\ s[y + 1] \in t.pool
               /\ DrawOf(p, Len(s), x) < DrawOf(p, Len(s), y))
                 => t.lead[s[x + 1]] <= t.lead[s[y + 1]]

\* The inductive invariant.
PoolInv == /\ topology \in Deployments \cup {NoTopology}
           /\ policy \in Policy
           /\ list \in [Role -> Seq(Addr)]
           /\ pos \in [Role -> Nat]
           /\ PoolTypeOK
           /\ RoleIsListed
           /\ \A rl \in Role : InTurn(turn[rl], list[rl], pos[rl])
-----------------------------------------------------------------------------
(* The ghost of the cyclers *)

\* The ghost stays well-formed whoever of the candidates is served.
LEMMA TurnTyped ==
    ASSUME NEW t \in Turn, NEW s, NEW C \in SUBSET Addr, C # {}, NEW a \in Addr
    PROVE  TurnAfter(t, s, C, a) \in Turn
  <1> DEFINE mixed == t.mixed \/ t.pool \notin {{}, C} \/ ~IsInjective(s)
             more == [t.lead EXCEPT ![a] = @ + 1]
             least == Min({more[b] : b \in C})
             lead == [b \in Addr |-> IF mixed \/ b \notin C THEN 0 ELSE more[b] - least]
  <1>1. more \in [Addr -> Nat]
    BY DEF Turn
  <1>2. least \in Nat /\ \A b \in C : least <= more[b]
    <2> DEFINE V == {more[b] : b \in C}
    <2>1. V \subseteq Nat /\ V # {} /\ \A b \in C : more[b] \in V
      BY <1>1
    <2> HIDE DEF V, more
    <2>2. Min(V) \in V /\ \A v \in V : Min(V) <= v
      BY <2>1, LeastElement DEF Min
    <2> QED
      BY <2>1, <2>2 DEF V
  <1>3. mixed \in BOOLEAN
    BY DEF IsInjective
  <1>4. TurnAfter(t, s, C, a) = [pool |-> IF mixed THEN {} ELSE C, mixed |-> mixed,
                                 lead |-> lead]
    BY DEF TurnAfter
  <1> HIDE DEF more, least, mixed
  <1>5. lead \in [Addr -> Nat]
    <2>1. ASSUME NEW b \in Addr, b \in C PROVE more[b] - least \in Nat
      BY <1>1, <1>2, <2>1
    <2> QED
      BY <2>1
  <1> QED
    BY <1>3, <1>4, <1>5 DEF Turn

\* Serving the first candidate clockwise keeps the order of the leads.
LEMMA TurnKept ==
    ASSUME NEW s \in Seq(Addr), NEW p \in 0 .. Len(s) - 1,
           NEW C \in SUBSET Addr, C # {}, C \subseteq ToSet(s),
           NEW t \in Turn, InTurn(t, s, p)
    PROVE  InTurn(TurnAfter(t, s, C, Choice(s, p, C)), s, Advanced(s, p, C))
  <1> DEFINE n == Len(s)
             a == Choice(s, p, C)
             q == Advanced(s, p, C)
             u == TurnAfter(t, s, C, a)
  <1> SUFFICES ASSUME ~t.mixed, t.pool \in {{}, C}, IsInjective(s)
               PROVE  InTurn(u, s, q)
    BY DEF TurnAfter, InTurn
  <1>1. n \in Nat \ {0} /\ DOMAIN s = 1 .. n /\ \A i \in 1 .. n : s[i] \in Addr
    BY LenProperties, ElementOfSeq
  <1>2. PICK x \in 0 .. n - 1 :
           /\ s[x + 1] \in C
           /\ a = s[x + 1]
           /\ q = IF x + 1 = n THEN 0 ELSE x + 1
           /\ \A y \in 0 .. n - 1 :
                 s[y + 1] \in C => DrawOf(p, n, x) <= DrawOf(p, n, y)
    <2>1. C \cap ToSet(s) # {}
      OBVIOUS
    <2> QED
      BY <2>1, RoundRobinFinds
  <1> HIDE DEF a, q
  <1> DEFINE more == [t.lead EXCEPT ![a] = @ + 1]
             least == Min({more[b] : b \in C})
  <1>3. u = [pool |-> C, mixed |-> FALSE,
             lead |-> [b \in Addr |-> IF b \notin C THEN 0 ELSE more[b] - least]]
    <2> DEFINE mixed == t.mixed \/ t.pool \notin {{}, C} \/ ~IsInjective(s)
    <2>1. mixed = FALSE
      BY DEF Turn, IsInjective
    <2>2. u = [pool |-> IF mixed THEN {} ELSE C, mixed |-> mixed,
               lead |-> [b \in Addr |-> IF mixed \/ b \notin C THEN 0
                                        ELSE more[b] - least]]
      BY DEF TurnAfter
    <2> HIDE DEF mixed, more, least, u
    <2> QED
      BY <2>1, <2>2
  <1> HIDE DEF u
  <1>4. a \in C /\ a \in Addr
    BY <1>1, <1>2
  <1>5. t.lead \in [Addr -> Nat] /\ \A b \in Addr : t.lead[b] \in {0, 1}
    BY DEF InTurn, Turn
  \* Every candidate has its place in the list.
  <1>6. ASSUME NEW b \in C PROVE \E y \in 0 .. n - 1 : s[y + 1] = b
    <2>1. PICK i \in 1 .. n : s[i] = b
      BY <1>1, <1>6 DEF ToSet
    <2>2. i - 1 \in 0 .. n - 1 /\ (i - 1) + 1 = i
      BY <1>1
    <2> QED
      BY <2>1, <2>2
  \* The next in turn is not ahead.
  <1>7. t.lead[a] = 0
    <2>1. CASE t.pool = {}
      BY <1>4, <2>1 DEF InTurn
    <2>2. CASE t.pool = C
      <3>1. PICK b \in C : t.lead[b] = 0
        BY <2>2 DEF InTurn
      <3>2. PICK y \in 0 .. n - 1 : s[y + 1] = b
        BY <1>6
      <3>3. DrawOf(p, n, x) \in Int /\ DrawOf(p, n, y) \in Int
        BY <1>1 DEF DrawOf, n
      <3>4. x = y \/ DrawOf(p, n, x) < DrawOf(p, n, y)
        <4>1. DrawOf(p, n, x) <= DrawOf(p, n, y)
          BY <1>2, <3>2
        <4>2. DrawOf(p, n, x) = DrawOf(p, n, y) => x = y
          BY <1>1 DEF DrawOf
        <4> QED
          BY <3>3, <4>1, <4>2
      <3>5. CASE DrawOf(p, n, x) < DrawOf(p, n, y)
        <4>1. t.lead[a] <= t.lead[b]
          BY <1>2, <2>2, <3>2, <3>5 DEF InTurn
        <4> QED
          BY <1>4, <1>5, <3>1, <4>1
      <3> QED
        BY <1>2, <3>1, <3>2, <3>4, <3>5
    <2> QED
      BY <2>1, <2>2
  <1>8. more \in [Addr -> Nat] /\ more[a] = 1
        /\ \A b \in Addr : b # a => more[b] = t.lead[b]
    BY <1>4, <1>5, <1>7
  <1> HIDE DEF more
  \* The cycler meets x last, and the others in the order they had.
  <1>9. ASSUME NEW y \in 0 .. n - 1, NEW z \in 0 .. n - 1,
               s[y + 1] \in C, s[z + 1] \in C, DrawOf(q, n, y) < DrawOf(q, n, z)
        PROVE  y # x /\ (z = x \/ DrawOf(p, n, y) < DrawOf(p, n, z))
    <2>1. DrawOf(p, n, x) <= DrawOf(p, n, y) /\ DrawOf(p, n, x) <= DrawOf(p, n, z)
      BY <1>2, <1>9
    <2>2. p \in 0 .. n - 1
      OBVIOUS
    <2> HIDE DEF n
    <2> QED
      BY <1>1, <1>2, <1>9, <2>1, <2>2 DEF DrawOf
  <1>10. ASSUME NEW y \in 0 .. n - 1, NEW z \in 0 .. n - 1,
                s[y + 1] \in C, s[z + 1] \in C, DrawOf(q, n, y) < DrawOf(q, n, z)
         PROVE  more[s[y + 1]] <= more[s[z + 1]]
    <2>1. y # x /\ (z = x \/ DrawOf(p, n, y) < DrawOf(p, n, z))
      BY <1>9, <1>10
    <2>2. s[y + 1] # a
      <3>1. y + 1 \in DOMAIN s /\ x + 1 \in DOMAIN s /\ y + 1 # x + 1
        BY <1>1, <2>1
      <3> QED
        BY <1>2, <3>1 DEF IsInjective
    <2>3. s[y + 1] \in Addr /\ s[z + 1] \in Addr
      BY <1>10
    <2>4. more[s[y + 1]] = t.lead[s[y + 1]] /\ more[s[y + 1]] \in {0, 1}
      BY <1>5, <1>8, <2>2, <2>3
    <2>5. CASE z = x
      <3>1. more[s[z + 1]] = 1
        BY <1>2, <1>8, <2>5
      <3> QED
        BY <2>4, <3>1
    <2>6. CASE z # x /\ DrawOf(p, n, y) < DrawOf(p, n, z)
      <3>1. s[z + 1] # a
        <4>1. z + 1 \in DOMAIN s /\ x + 1 \in DOMAIN s /\ z + 1 # x + 1
          BY <1>1, <2>6
        <4> QED
          BY <1>2, <4>1 DEF IsInjective
      <3>2. more[s[z + 1]] = t.lead[s[z + 1]]
        BY <1>8, <2>3, <3>1
      <3>3. t.lead[s[y + 1]] <= t.lead[s[z + 1]]
        <4>1. CASE t.pool = {}
          <5>1. t.lead[s[y + 1]] = 0 /\ t.lead[s[z + 1]] = 0
            BY <2>3, <4>1 DEF InTurn
          <5> QED
            BY <5>1
        <4>2. CASE t.pool = C
          BY <1>10, <2>6, <4>2 DEF InTurn
        <4> QED
          BY <4>1, <4>2
      <3> QED
        BY <2>4, <3>2, <3>3
    <2> QED
      BY <2>1, <2>5, <2>6
  <1>11. \A b \in C : more[b] \in {0, 1}
    BY <1>5, <1>8
  <1>12. /\ least \in {0, 1} /\ \A b \in C : least <= more[b]
         /\ \E b \in C : more[b] = least
    <2> DEFINE V == {more[b] : b \in C}
    <2>1. V \subseteq {0, 1} /\ V \subseteq Nat /\ V # {} /\ \A b \in C : more[b] \in V
      BY <1>11
    <2>2. \A v \in V : \E b \in C : more[b] = v
      OBVIOUS
    <2> HIDE DEF V
    <2>3. Min(V) \in V /\ \A v \in V : Min(V) <= v
      BY <2>1, LeastElement DEF Min
    <2> QED
      BY <2>1, <2>2, <2>3 DEF V
  <1> HIDE DEF least
  <1>13. /\ ~u.mixed /\ u.pool = C
         /\ \A b \in Addr : b \in C => u.lead[b] = more[b] - least
         /\ \A b \in Addr : b \notin C => u.lead[b] = 0
    BY <1>3
  <1>14. \A b \in Addr : u.lead[b] \in {0, 1}
    <2>1. ASSUME NEW b \in Addr, b \in C PROVE u.lead[b] \in {0, 1}
      <3>1. more[b] \in {0, 1} /\ least <= more[b] /\ u.lead[b] = more[b] - least
        BY <1>11, <1>12, <1>13, <2>1
      <3> QED
        BY <1>12, <3>1
    <2> QED
      BY <1>13, <2>1
  <1>15. \E b \in C : u.lead[b] = 0
    <2>1. PICK b \in C : more[b] = least
      BY <1>12
    <2>2. u.lead[b] = more[b] - least
      BY <1>13
    <2> QED
      BY <1>12, <2>1, <2>2
  <1>16. ASSUME NEW y \in 0 .. n - 1, NEW z \in 0 .. n - 1,
                s[y + 1] \in C, s[z + 1] \in C, DrawOf(q, n, y) < DrawOf(q, n, z)
         PROVE  u.lead[s[y + 1]] <= u.lead[s[z + 1]]
    <2>1. more[s[y + 1]] <= more[s[z + 1]]
      BY <1>10, <1>16
    <2>2. /\ u.lead[s[y + 1]] = more[s[y + 1]] - least
          /\ u.lead[s[z + 1]] = more[s[z + 1]] - least
      BY <1>13, <1>16
    <2>3. more[s[y + 1]] \in {0, 1} /\ more[s[z + 1]] \in {0, 1}
      BY <1>11, <1>16
    <2> QED
      BY <1>12, <2>1, <2>2, <2>3
  <1> QED
    BY <1>13, <1>14, <1>15, <1>16 DEF InTurn
-----------------------------------------------------------------------------
(* ProxyServer.__init__ *)

\* The lists from config.instances have addresses in them.
LEMMA ListedTyped ==
    ASSUME NEW rl \in Role
    PROVE  Listed(rl) \in Seq(Addr)
  <1> DEFINE N == Len(Instances)
             first(i) == \A j \in 1 .. i - 1 : \/ Instances[j].addr # Instances[i].addr
                                               \/ Instances[j].role # rl
             passing == {i \in DOMAIN Instances : Instances[i].role = rl /\ first(i)}
             ids == [i \in DOMAIN Instances |-> i]
             kept == Where(ids, passing)
  <1>1. /\ N \in Nat /\ DOMAIN Instances = 1 .. N
        /\ \A i \in 1 .. N : Instances[i].addr \in Addr
    <2> DEFINE R == [addr : Addr, role : Role, model : Model]
    <2>1. Instances \in Seq(R)
      BY PoolAssumption
    <2>2. \A e \in R : e.addr \in Addr /\ e.model \in Model
      OBVIOUS
    <2> HIDE DEF R
    <2>3. \A i \in 1 .. Len(Instances) : Instances[i] \in R
      BY <2>1, ElementOfSeq
    <2> QED
      BY <2>1, <2>2, <2>3, LenProperties
  <1>2. ids \in Seq(1 .. N)
    BY <1>1, IsASeq
  <1>3. Listed(rl) = [k \in DOMAIN kept |-> Instances[kept[k]].addr]
    BY DEF Listed
  <1> HIDE DEF N, passing, ids
  <1>4. kept \in Seq(1 .. N)
    BY <1>2, WhereFacts
  <1> HIDE DEF kept
  <1>5. Len(kept) \in Nat /\ DOMAIN kept = 1 .. Len(kept)
        /\ \A k \in 1 .. Len(kept) : kept[k] \in 1 .. N
    BY <1>4, LenProperties, ElementOfSeq
  <1>6. [k \in 1 .. Len(kept) |-> Instances[kept[k]].addr] \in Seq(Addr)
    BY <1>1, <1>5, IsASeq
  <1> QED
    BY <1>3, <1>5, <1>6

\* So do the lists of every deployment.
LEMMA ListsTyped ==
    ASSUME topology \in {t \in Deployments : Valid(t)} \cup {NoTopology}
    PROVE  Lists \in [Role -> Seq(Addr)]
  <1>1. CASE topology = NoTopology
    BY <1>1, ListedTyped DEF Lists
  <1>2. CASE topology # NoTopology
    <2>1. topology.dp \in Nat /\ Range(ExpandTopology(topology)) \subseteq Addr
      BY <1>2, PoolAssumption
    <2> DEFINE E == ExpandTopology(topology)
    <2>2. DOMAIN E = 1 .. topology.dp /\ E = [k \in 1 .. topology.dp |-> E[k]]
      BY DEF ExpandTopology
    <2> HIDE DEF E
    <2>3. \A k \in 1 .. topology.dp : E[k] \in Addr
      BY <2>1, <2>2 DEF Range, E
    <2>4. E \in Seq(Addr)
      <3>1. [k \in 1 .. topology.dp |-> E[k]] \in Seq(Addr)
        BY <2>1, <2>3, IsASeq
      <3> QED
        BY <2>2, <3>1, Zenon
    <2>5. DecodeList \in Seq(Addr)
      BY PoolAssumption
    <2> QED
      BY <1>2, <2>4, <2>5 DEF Lists, Role, E
  <1> QED
    BY <1>1, <1>2

\* So do the models.
LEMMA ModelsTyped == ModelsConfigured \in [Addr -> Asked]
  <1> SUFFICES ASSUME NEW a \in Addr PROVE ModelsConfigured[a] \in Asked
    BY DEF ModelsConfigured
  <1> DEFINE at == {i \in DOMAIN Instances : Instances[i].addr = a}
  <1>1. /\ Len(Instances) \in Nat /\ DOMAIN Instances = 1 .. Len(Instances)
        /\ \A i \in DOMAIN Instances : Instances[i].model \in Model
    <2> DEFINE R == [addr : Addr, role : Role, model : Model]
    <2>1. Instances \in Seq(R)
      BY PoolAssumption
    <2>2. \A e \in R : e.addr \in Addr /\ e.model \in Model
      OBVIOUS
    <2> HIDE DEF R
    <2>3. \A i \in 1 .. Len(Instances) : Instances[i] \in R
      BY <2>1, ElementOfSeq
    <2> QED
      BY <2>1, <2>2, <2>3, LenProperties
  <1>2. ModelsConfigured[a] = IF at = {} THEN AnyModel ELSE Instances[Min(at)].model
    BY DEF ModelsConfigured
  <1>3. at \subseteq Nat /\ at \subseteq DOMAIN Instances
    BY <1>1
  <1> HIDE DEF at
  <1>4. at # {} => Min(at) \in at
    BY <1>3, LeastElement DEF Min
  <1> QED
    BY <1>1, <1>2, <1>3, <1>4 DEF Asked

\* Nobody is ahead when a turn begins.
LEMMA NoTurnFacts ==
    /\ NoTurn \in [Role -> Turn]
    /\ \A rl \in Role : \A s, p : InTurn(NoTurn[rl], s, p)
  <1>1. NoTurn \in [Role -> Turn]
    BY DEF NoTurn, Turn
  <1>2. ASSUME NEW rl \in Role, NEW s, NEW p PROVE InTurn(NoTurn[rl], s, p)
    <2>1. NoTurn[rl].pool = {} /\ \A a \in Addr : NoTurn[rl].lead[a] = 0
      BY DEF NoTurn
    <2> QED
      BY <2>1 DEF InTurn
  <1> QED
    BY <1>1, <1>2

\* The ghost of power of two choices is well-formed after a request and after
\* anything else.
LEMMA WaveTyped ==
    ASSUME PoolInv
    PROVE  /\ wave \in [Role -> Wave]
           /\ WaveOver \in [Role -> Wave]
           /\ \A p \in Pool : [wave EXCEPT ![p[1]] = WaveAfter(@, p)] \in [Role -> Wave]
  <1>1. wave \in [Role -> Wave]
    BY DEF PoolInv, PoolTypeOK, Wave
  <1>2. WaveOver \in [Role -> Wave]
    BY DEF WaveOver, Wave
  <1>3. ASSUME NEW p \in Pool PROVE WaveAfter(wave[p[1]], p) \in Wave
    <2>1. p[1] \in Role /\ wave[p[1]] \in Wave
      BY <1>1 DEF Pool
    <2>2. Candidates(p) \in SUBSET Addr
      BY DEF Candidates, PoolInv, PoolTypeOK, Registered
    <2>3. wave[p[1]].mixed \in BOOLEAN
      BY <2>1 DEF Wave
    <2> DEFINE mixed == \/ wave[p[1]].mixed \/ wave[p[1]].pool \notin {{}, Candidates(p)}
                        \/ policy # "power_of_two" \/ UsesRoundRobin(p)
               pool == IF mixed THEN {} ELSE Candidates(p)
    <2>4. mixed \in BOOLEAN
      BY <2>3
    <2>5. pool \in SUBSET Addr
      BY <2>2
    <2>6. WaveAfter(wave[p[1]], p) = [pool |-> pool, mixed |-> mixed]
      BY DEF WaveAfter
    <2> HIDE DEF mixed, pool
    <2> QED
      BY <2>4, <2>5, <2>6 DEF Wave
  <1> QED
    BY <1>1, <1>2, <1>3

\* The initial states.
LEMMA PoolInit == Init => PoolInv
  <1> SUFFICES ASSUME Init PROVE PoolInv
    OBVIOUS
  <1>1. list \in [Role -> Seq(Addr)]
    BY ListsTyped DEF Init
  <1>2. /\ role \in [Addr -> Role \cup {"none"}]
        /\ \A a \in Addr : /\ role[a] = "prefill" => a \in ToSet(list["prefill"])
                           /\ role[a] = "decode" => a \in ToSet(list["decode"])
    BY DEF Init, Role
  <1>3. model \in [Addr -> Asked]
    BY ModelsTyped, PoolAssumption DEF Init, Asked
  <1>4. pos \in [Role -> Nat] /\ \A rl \in Role : pos[rl] = 0
    BY DEF Init
  <1>5. turn \in [Role -> Turn] /\ \A rl \in Role : \A s, p : InTurn(turn[rl], s, p)
    BY NoTurnFacts DEF Init
  <1>6. topology \in Deployments \cup {NoTopology} /\ policy \in Policy
    BY DEF Init
  <1>7. downgraded \subseteq Model /\ available \subseteq Registered /\ active \in [Addr -> Nat]
    BY DEF Init
  <1>10. wave \in [Role -> Wave]
    BY DEF Init, NoWave, Wave
  <1>8. PoolTypeOK
    BY <1>1, <1>2, <1>3, <1>4, <1>5, <1>7, <1>10 DEF PoolTypeOK, Turn, Wave
  <1>9. RoleIsListed
    BY <1>2 DEF RoleIsListed, Role
  <1> QED
    BY <1>1, <1>4, <1>5, <1>6, <1>8, <1>9 DEF PoolInv
-----------------------------------------------------------------------------
(* Requests *)

\* Candidates are listed, so there is a cycle to draw from.
LEMMA CandidateFacts ==
    ASSUME PoolInv, NEW p \in Pool
    PROVE  /\ p[1] \in Role /\ list[p[1]] \in Seq(Addr) /\ Len(list[p[1]]) \in Nat
           /\ Candidates(p) \in SUBSET Addr
           /\ Candidates(p) \subseteq ToSet(list[p[1]])
           /\ Candidates(p) # {} => /\ Len(list[p[1]]) \in Nat \ {0}
                                    /\ pos[p[1]] \in 0 .. Len(list[p[1]]) - 1
  <1>1. p[1] \in Role
    BY DEF Pool
  <1>2. list[p[1]] \in Seq(Addr)
    BY <1>1 DEF PoolInv
  <1>3. Len(list[p[1]]) \in Nat /\ DOMAIN list[p[1]] = 1 .. Len(list[p[1]])
    BY <1>2, LenProperties
  <1>4. Candidates(p) \in SUBSET Addr
    BY DEF PoolInv, PoolTypeOK, Candidates, Registered
  <1>5. Candidates(p) \subseteq ToSet(list[p[1]])
    BY <1>1, <1>4 DEF PoolInv, RoleIsListed, Candidates
  <1>6. ASSUME Candidates(p) # {}
        PROVE  Len(list[p[1]]) \in Nat \ {0} /\ pos[p[1]] \in 0 .. Len(list[p[1]]) - 1
    <2>1. Len(list[p[1]]) # 0
      BY <1>3, <1>5, <1>6 DEF ToSet
    <2>2. pos[p[1]] = 0 \/ pos[p[1]] \in 1 .. Len(list[p[1]]) - 1
      BY <1>1 DEF PoolInv, PoolTypeOK
    <2> QED
      BY <1>3, <2>1, <2>2
  <1> QED
    BY <1>1, <1>2, <1>3, <1>4, <1>5, <1>6

\* The cycler stays on the list.
LEMMA CyclerFacts ==
    ASSUME PoolInv, NEW p \in Pool
    PROVE  /\ CyclerAfter(p) \in [Role -> Nat]
           /\ \A rl \in Role : \/ CyclerAfter(p)[rl] = 0
                               \/ CyclerAfter(p)[rl] \in 1 .. Len(list[rl]) - 1
           /\ \A rl \in Role : rl # p[1] => CyclerAfter(p)[rl] = pos[rl]
           /\ UsesRoundRobin(p) /\ Candidates(p) # {} =>
                 CyclerAfter(p)[p[1]] = Advanced(list[p[1]], pos[p[1]], Candidates(p))
           /\ ~(UsesRoundRobin(p) /\ Candidates(p) # {}) => CyclerAfter(p) = pos
  <1>1. /\ pos \in [Role -> Nat]
        /\ \A rl \in Role : pos[rl] = 0 \/ pos[rl] \in 1 .. Len(list[rl]) - 1
    BY DEF PoolInv, PoolTypeOK
  <1>2. CASE UsesRoundRobin(p) /\ Candidates(p) # {}
    <2> DEFINE n == Len(list[p[1]])
               q == Advanced(list[p[1]], pos[p[1]], Candidates(p))
    <2>1. p[1] \in Role /\ n \in Nat \ {0} /\ pos[p[1]] \in 0 .. n - 1
      BY <1>2, CandidateFacts
    <2>2. q \in 0 .. n - 1
      BY <2>1, DrawsBounded
    <2>3. CyclerAfter(p) = [pos EXCEPT ![p[1]] = q]
      BY <1>2 DEF CyclerAfter
    <2> HIDE DEF q
    <2>4. q \in Nat /\ (q = 0 \/ q \in 1 .. n - 1)
      BY <2>1, <2>2
    <2> QED
      BY <1>1, <1>2, <2>1, <2>3, <2>4 DEF q
  <1>3. CASE ~(UsesRoundRobin(p) /\ Candidates(p) # {})
    BY <1>1, <1>3 DEF CyclerAfter
  <1> QED
    BY <1>2, <1>3

\* On a list without repetitions round robin serves the request.
LEMMA RoundRobinServes ==
    ASSUME PoolInv, NEW p \in Pool, UsesRoundRobin(p), Candidates(p) # {},
           IsInjective(list[p[1]])
    PROVE  Finds(list[p[1]], pos[p[1]], Candidates(p))
  <1> DEFINE s == list[p[1]]
             C == Candidates(p)
  <1>1. s \in Seq(Addr) /\ pos[p[1]] \in 0 .. Len(s) - 1 /\ C \cap ToSet(s) # {}
    BY CandidateFacts
  <1>2. Choice(s, pos[p[1]], C) \in C
    <2> HIDE DEF C, s
    <2>1. IsInjective(s)
      BY DEF s
    <2> QED
      BY <1>1, <2>1, RoundRobinFinds
  <1> QED
    BY <1>2 DEF Finds, Choice

\* Whom round robin chooses.
LEMMA RoundRobinSelects ==
    ASSUME NEW p, NEW k, UsesRoundRobin(p), Candidates(p) # {}
    PROVE  Selections(p, k) = IF Finds(list[p[1]], pos[p[1]], Candidates(p))
                                THEN {Choice(list[p[1]], pos[p[1]], Candidates(p))}
                                ELSE {}
  BY DEF Selections

\* A served request.
LEMMA ServeKeeps ==
    ASSUME PoolInv, NEW p \in Pool, Serve(p)
    PROVE  PoolInv'
  <1>1. PICK a \in UNION {Selections(p, k) : k \in Key} :
           /\ active' = [active EXCEPT ![a] = @ + 1]
           /\ pos' = CyclerAfter(p)
           /\ turn' = IF UsesRoundRobin(p)
                        THEN [turn EXCEPT ![p[1]] =
                                 TurnAfter(@, list[p[1]], Candidates(p), a)]
                        ELSE turn
    BY DEF Serve
  <1>2. UNCHANGED <<topology, policy, downgraded, role, model, available, list, ring>>
    BY DEF Serve
  <1>3. turn \in [Role -> Turn] /\ \A rl \in Role : InTurn(turn[rl], list[rl], pos[rl])
    BY DEF PoolInv, PoolTypeOK, Turn
  <1>4. Candidates(p) # {}
    BY <1>1 DEF Selections
  <1>5. turn' \in [Role -> Turn] /\ \A rl \in Role : InTurn(turn'[rl], list[rl], pos'[rl])
    <2>1. CASE UsesRoundRobin(p)
      <3> DEFINE s == list[p[1]]
                 C == Candidates(p)
                 q == pos[p[1]]
                 u == TurnAfter(turn[p[1]], s, C, a)
      <3>1. a = Choice(s, q, C) /\ a \in C
        BY <1>1, <1>4, <2>1, RoundRobinSelects DEF Finds, Choice
      <3>2. /\ p[1] \in Role /\ s \in Seq(Addr) /\ q \in 0 .. Len(s) - 1
            /\ C \in SUBSET Addr /\ C # {} /\ C \subseteq ToSet(s)
        BY <1>4, CandidateFacts
      <3>3. turn[p[1]] \in Turn /\ InTurn(turn[p[1]], s, q)
        BY <1>3, <3>2
      <3> HIDE DEF s, C, q
      <3>4. u \in Turn
        BY <3>1, <3>2, <3>3, TurnTyped
      <3>5. InTurn(u, s, Advanced(s, q, C))
        BY <3>1, <3>2, <3>3, TurnKept
      <3> HIDE DEF u
      <3>6. turn' = [turn EXCEPT ![p[1]] = u]
        BY <1>1, <2>1 DEF u, s, C
      <3>7. pos'[p[1]] = Advanced(s, q, C) /\ \A rl \in Role : rl # p[1] => pos'[rl] = pos[rl]
        BY <1>1, <1>4, <2>1, CyclerFacts DEF s, C, q
      <3>8. ASSUME NEW rl \in Role PROVE InTurn(turn'[rl], list[rl], pos'[rl])
        <4>1. CASE rl = p[1]
          <5>1. turn'[rl] = u /\ list[rl] = s /\ pos'[rl] = Advanced(s, q, C)
            BY <1>3, <3>2, <3>6, <3>7, <4>1 DEF s
          <5> QED
            BY <3>5, <5>1
        <4>2. CASE rl # p[1]
          <5>1. turn'[rl] = turn[rl] /\ pos'[rl] = pos[rl]
            BY <1>3, <3>6, <3>7, <4>2
          <5> QED
            BY <1>3, <5>1
        <4> QED
          BY <4>1, <4>2
      <3> QED
        BY <1>3, <3>4, <3>6, <3>8
    <2>2. CASE ~UsesRoundRobin(p)
      <3>1. turn' = turn /\ pos' = pos
        BY <1>1, <2>2, CyclerFacts
      <3> QED
        BY <1>3, <3>1
    <2> QED
      BY <2>1, <2>2
  <1>6. /\ pos' \in [Role -> Nat]
        /\ \A rl \in Role : pos'[rl] = 0 \/ pos'[rl] \in 1 .. Len(list[rl]) - 1
    BY <1>1, CyclerFacts
  <1>7. active' \in [Addr -> Nat]
    <2>1. active \in [Addr -> Nat]
      BY DEF PoolInv, PoolTypeOK
    <2>2. \A b \in Addr : active'[b] = IF b = a THEN active[b] + 1 ELSE active[b]
      BY <1>1, <2>1
    <2>3. active' = [b \in Addr |-> active'[b]]
      BY <1>1, <2>1
    <2> QED
      BY <2>1, <2>2, <2>3
  <1>10. wave' \in [Role -> Wave]
    BY WaveTyped DEF Serve
  <1>8. PoolTypeOK'
    BY <1>2, <1>5, <1>6, <1>7, <1>10 DEF PoolInv, PoolTypeOK, Registered, Turn, Wave
  <1>9. RoleIsListed'
    BY <1>2 DEF PoolInv, RoleIsListed
  <1> QED
    BY <1>2, <1>5, <1>6, <1>8, <1>9 DEF PoolInv

\* A refused request: round robin refuses one that has candidates only on a
\* list with repetitions, where nobody counts the turns.
LEMMA RefuseKeeps ==
    ASSUME PoolInv, NEW p \in Pool, Refuse(p)
    PROVE  PoolInv'
  <1>1. PICK k \in Key : Selections(p, k) = {}
    BY DEF Refuse
  <1>2. /\ pos' = CyclerAfter(p)
        /\ UNCHANGED <<topology, policy, downgraded, registryVars, list, ring, turn, wave>>
    BY DEF Refuse
  <1>3. ASSUME NEW rl \in Role PROVE InTurn(turn[rl], list[rl], pos'[rl])
    <2>1. InTurn(turn[rl], list[rl], pos[rl])
      BY DEF PoolInv
    <2>2. CASE pos'[rl] = pos[rl]
      BY <2>1, <2>2
    <2>3. CASE pos'[rl] # pos[rl]
      <3>1. rl = p[1] /\ UsesRoundRobin(p) /\ Candidates(p) # {}
        BY <1>2, <2>3, CyclerFacts
      <3>2. ~Finds(list[rl], pos[rl], Candidates(p))
        BY <1>1, <3>1, RoundRobinSelects
      <3>3. ~IsInjective(list[rl])
        BY <3>1, <3>2, RoundRobinServes
      <3>4. turn[rl].mixed \/ turn[rl].pool = {}
        BY <2>1, <3>3 DEF InTurn
      <3> QED
        BY <2>1, <3>4 DEF InTurn
    <2> QED
      BY <2>2, <2>3
  <1>4. /\ pos' \in [Role -> Nat]
        /\ \A rl \in Role : pos'[rl] = 0 \/ pos'[rl] \in 1 .. Len(list[rl]) - 1
    BY <1>2, CyclerFacts
  <1>5. PoolTypeOK'
    BY <1>2, <1>4 DEF PoolInv, PoolTypeOK, Registered, registryVars
  <1>6. RoleIsListed'
    BY <1>2 DEF PoolInv, RoleIsListed, registryVars
  <1> QED
    BY <1>2, <1>3, <1>4, <1>5, <1>6 DEF PoolInv
-----------------------------------------------------------------------------
(* Changes of the pool *)

\* add_instance appends the address to the list of its role.
LEMMA JoinKeeps ==
    ASSUME PoolInv, NEW a \in Addr, NEW rl \in Role, NEW m \in Model, Join(a, rl, m)
    PROVE  PoolInv'
  <1>1. /\ role' = [role EXCEPT ![a] = rl]
        /\ model' = [model EXCEPT ![a] = m]
        /\ available' = available \cup {a}
        /\ list' = [list EXCEPT ![rl] = Append(@, a)]
        /\ pos' = [pos EXCEPT ![rl] = 0]
        /\ turn' = NoTurn
        /\ UNCHANGED <<topology, policy, downgraded, active>>
    BY DEF Join
  <1>2. list[rl] \in Seq(Addr)
    BY DEF PoolInv
  <1>3. /\ Append(list[rl], a) \in Seq(Addr)
        /\ ToSet(Append(list[rl], a)) = ToSet(list[rl]) \cup {a}
    BY <1>2, AppendFacts
  <1>4. list' \in [Role -> Seq(Addr)] /\ list'[rl] = Append(list[rl], a)
        /\ \A r \in Role : r # rl => list'[r] = list[r]
    BY <1>1, <1>3 DEF PoolInv
  <1>5. /\ pos' \in [Role -> Nat]
        /\ \A r \in Role : pos'[r] = 0 \/ pos'[r] \in 1 .. Len(list'[r]) - 1
    <2>1. /\ pos \in [Role -> Nat]
          /\ \A r \in Role : pos[r] = 0 \/ pos[r] \in 1 .. Len(list[r]) - 1
      BY DEF PoolInv, PoolTypeOK
    <2> QED
      BY <1>1, <1>4, <2>1
  <1>6. turn' \in [Role -> Turn]
        /\ \A r \in Role : InTurn(turn'[r], list'[r], pos'[r])
    BY <1>1, NoTurnFacts
  <1>7. /\ role \in [Addr -> Role \cup {"none"}] /\ model \in [Addr -> Asked]
        /\ \A b \in available : b \in Addr /\ role[b] # "none"
    BY DEF PoolInv, PoolTypeOK, Registered
  <1>8. role' \in [Addr -> Role \cup {"none"}] /\ model' \in [Addr -> Asked]
    BY <1>1, <1>7 DEF Asked
  <1>9. \A b \in available' : b \in Addr /\ role'[b] # "none"
    BY <1>1, <1>7 DEF Role
  <1>12. wave' \in [Role -> Wave]
    BY WaveTyped DEF Join
  <1>10. PoolTypeOK'
    BY <1>1, <1>4, <1>5, <1>6, <1>8, <1>9, <1>12
    DEF PoolInv, PoolTypeOK, Registered, Turn, Wave
  <1>11. RoleIsListed'
    <2> SUFFICES ASSUME NEW b \in Addr, role'[b] \in Role
                 PROVE  b \in ToSet(list'[role'[b]])
      BY DEF RoleIsListed
    <2>1. CASE b = a
      BY <1>1, <1>3, <1>4, <1>7, <2>1
    <2>2. CASE b # a
      <3>1. role'[b] = role[b] /\ b \in ToSet(list[role[b]])
        BY <1>1, <1>7, <2>2 DEF PoolInv, RoleIsListed
      <3>2. CASE role[b] = rl
        BY <1>3, <1>4, <3>1, <3>2
      <3>3. CASE role[b] # rl
        BY <1>4, <3>1, <3>3
      <3> QED
        BY <3>2, <3>3
    <2> QED
      BY <2>1, <2>2
  <1> QED
    BY <1>1, <1>4, <1>5, <1>6, <1>10, <1>11 DEF PoolInv

\* The entries drain_and_remove_instance takes out are those of one address.
LEMMA LeaveKeeps ==
    ASSUME PoolInv, NEW a \in Addr, Leave(a)
    PROVE  PoolInv'
  <1> DEFINE rl == role[a]
  <1>1. /\ role' = [role EXCEPT ![a] = "none"]
        /\ model' = [model EXCEPT ![a] = AnyModel]
        /\ available' = available \ {a}
        /\ list' = [list EXCEPT ![rl] = Without(@, a)]
        /\ pos' = [pos EXCEPT ![rl] = 0]
        /\ turn' = NoTurn
        /\ UNCHANGED <<topology, policy, downgraded, active>>
    BY DEF Leave
  <1>2. /\ role \in [Addr -> Role \cup {"none"}] /\ model \in [Addr -> Asked]
        /\ \A b \in available : b \in Addr /\ role[b] # "none"
    BY DEF PoolInv, PoolTypeOK, Registered
  <1>3. rl \in Role
    BY <1>2 DEF Leave, Registered
  <1>4. list[rl] \in Seq(Addr)
    BY <1>3 DEF PoolInv
  <1>5. /\ Without(list[rl], a) \in Seq(Addr)
        /\ \A b \in ToSet(list[rl]) : b # a => b \in ToSet(Without(list[rl], a))
    <2>1. /\ RemoveFirst(list[rl], a) \in Seq(Addr)
          /\ \A b \in ToSet(list[rl]) : b # a => b \in ToSet(RemoveFirst(list[rl], a))
      BY <1>4, RemoveFirstKeeps
    <2>2. /\ Without(list[rl], a) \in Seq(Addr)
          /\ \A b \in ToSet(RemoveFirst(list[rl], a)) :
                b # a => b \in ToSet(Without(list[rl], a))
      BY <2>1, RemoveFirstKeeps DEF Without
    <2> QED
      BY <2>1, <2>2
  <1> HIDE DEF rl
  <1>6. list' \in [Role -> Seq(Addr)] /\ list'[rl] = Without(list[rl], a)
        /\ \A r \in Role : r # rl => list'[r] = list[r]
    BY <1>1, <1>3, <1>5 DEF PoolInv
  <1>7. /\ pos' \in [Role -> Nat]
        /\ \A r \in Role : pos'[r] = 0 \/ pos'[r] \in 1 .. Len(list'[r]) - 1
    <2>1. /\ pos \in [Role -> Nat]
          /\ \A r \in Role : pos[r] = 0 \/ pos[r] \in 1 .. Len(list[r]) - 1
      BY DEF PoolInv, PoolTypeOK
    <2> QED
      BY <1>1, <1>3, <1>6, <2>1
  <1>8. turn' \in [Role -> Turn]
        /\ \A r \in Role : InTurn(turn'[r], list'[r], pos'[r])
    BY <1>1, NoTurnFacts
  <1>9. role' \in [Addr -> Role \cup {"none"}] /\ model' \in [Addr -> Asked]
    BY <1>1, <1>2 DEF Asked
  <1>10. \A b \in available' : b \in Addr /\ role'[b] # "none"
    BY <1>1, <1>2
  <1>13. wave' \in [Role -> Wave]
    BY WaveTyped DEF Leave
  <1>11. PoolTypeOK'
    BY <1>1, <1>6, <1>7, <1>8, <1>9, <1>10, <1>13
    DEF PoolInv, PoolTypeOK, Registered, Turn, Wave
  <1>12. RoleIsListed'
    <2> SUFFICES ASSUME NEW b \in Addr, role'[b] \in Role
                 PROVE  b \in ToSet(list'[role'[b]])
      BY DEF RoleIsListed
    <2>1. b # a
      BY <1>1, <1>2 DEF Role
    <2>2. role'[b] = role[b] /\ b \in ToSet(list[role[b]])
      BY <1>1, <1>2, <2>1 DEF PoolInv, RoleIsListed
    <2> QED
      BY <1>5, <1>6, <2>1, <2>2
  <1> QED
    BY <1>1, <1>6, <1>7, <1>8, <1>11, <1>12 DEF PoolInv

\* Availability, completions and downgrades leave lists and cyclers alone.
LEMMA OthersKeep ==
    ASSUME PoolInv,
           \/ \E a \in Addr : Complete(a) \/ AvailabilityChanges(a)
           \/ \E m \in Untokenized[policy] : Downgrade(m)
           \/ UNCHANGED vars
    PROVE  PoolInv'
  <1>1. UNCHANGED <<topology, policy, role, model, list, pos>>
    BY DEF Complete, AvailabilityChanges, Downgrade, vars, registryVars, poolVars
  <1>2. turn' \in {turn, NoTurn}
    BY DEF Complete, AvailabilityChanges, Downgrade, vars
  <1>3. turn' \in [Role -> Turn] /\ \A rl \in Role : InTurn(turn'[rl], list[rl], pos[rl])
    BY <1>2, NoTurnFacts DEF PoolInv, PoolTypeOK, Turn
  <1>4. active' \in [Addr -> Nat]
    BY DEF PoolInv, PoolTypeOK, Complete, AvailabilityChanges, Downgrade, vars, registryVars
  <1>5. available' \subseteq Registered
    BY DEF PoolInv, PoolTypeOK, Complete, AvailabilityChanges, Downgrade, vars, registryVars
  <1>6. downgraded' \subseteq Model
    <2>1. Untokenized[policy] \subseteq Model
      BY PoolAssumption DEF PoolInv
    <2> QED
      BY <2>1 DEF PoolInv, PoolTypeOK, Complete, AvailabilityChanges, Downgrade, vars
  <1>9. wave' \in [Role -> Wave]
    <2>1. wave' \in {wave, WaveOver}
      BY DEF Complete, AvailabilityChanges, Downgrade, vars
    <2> QED
      BY <2>1, WaveTyped
  <1>7. PoolTypeOK'
    BY <1>1, <1>3, <1>4, <1>5, <1>6, <1>9 DEF PoolInv, PoolTypeOK, Registered, Turn, Wave
  <1>8. RoleIsListed'
    BY <1>1 DEF PoolInv, RoleIsListed
  <1> QED
    BY <1>1, <1>3, <1>7, <1>8 DEF PoolInv

\* The invariant holds whatever the deployment and the policy.
THEOREM PoolInvariant == Spec => []PoolInv
  <1>1. PoolInv /\ [Next]_vars => PoolInv'
    <2> SUFFICES ASSUME PoolInv, [Next]_vars PROVE PoolInv'
      OBVIOUS
    <2>1. ASSUME NEW p \in Pool, Refuse(p) PROVE PoolInv'
      BY <2>1, RefuseKeeps
    <2>2. ASSUME NEW p \in Pool, Serve(p) PROVE PoolInv'
      BY <2>2, ServeKeeps
    <2>3. ASSUME NEW a \in Addr, Leave(a) PROVE PoolInv'
      BY <2>3, LeaveKeeps
    <2>4. ASSUME NEW j \in Joining, NEW m \in Model, Join(j[1], j[2], m) PROVE PoolInv'
      <3>1. j[1] \in Addr /\ j[2] \in Role
        BY PoolAssumption
      <3> QED
        BY <2>4, <3>1, JoinKeeps
    <2> QED
      BY <2>1, <2>2, <2>3, <2>4, OthersKeep DEF Next
  <1> QED
    BY PoolInit, <1>1, PTL DEF Spec

\* PoolTypeOK: the registry, the lists, the cyclers (which always stand on an
\* entry of their list, or at the start of an empty one) and the ghost.
THEOREM PoolTypeCorrect == Spec => []PoolTypeOK
  <1>1. PoolInv => PoolTypeOK
    BY DEF PoolInv
  <1> QED
    BY PoolInvariant, <1>1, PTL

\* EvenShare: while the pool stays as it is and all requests of a role have
\* the same candidates, round robin never gives one of them two requests
\* more than another (round_robin.py, schedule), however long the list and
\* wherever the cycler was when they began.
THEOREM RoundRobinIsEven == Spec => []EvenShare
  <1>1. PoolInv => EvenShare
    <2> SUFFICES ASSUME PoolInv, NEW rl \in Role, NEW a \in Addr, ~turn[rl].mixed
                 PROVE  turn[rl].lead[a] <= 1
      BY DEF EvenShare
    <2>1. turn[rl].lead[a] \in {0, 1}
      BY DEF PoolInv, InTurn
    <2> QED
      BY <2>1
  <1> QED
    BY PoolInvariant, <1>1, PTL

-----------------------------------------------------------------------------
(* The ring follows the registry *)

\* The inductive invariant of the ring: it is complete for the instances
\* that are registered now.
RingInv == HasRing => ring \in CompleteRings(Registered)

\* The workers ProxyServer.__init__ gives the policy are those it registers.
LEMMA RingInit == Init => RingInv
  <1> SUFFICES ASSUME Init, HasRing PROVE ring \in CompleteRings(Registered)
    BY DEF RingInv
  <1> DEFINE s == list["prefill"]
             t == list["decode"]
  <1>1. s \in Seq(Addr) /\ t \in Seq(Addr)
    BY PoolInit DEF PoolInv, Role
  <1>2. ToSet(s \o t) = ToSet(s) \cup ToSet(t) /\ s \o t \in Seq(Addr)
    <2> HIDE DEF s, t
    <2>1. /\ s \o t \in Seq(Addr) /\ Len(s) \in Nat /\ Len(t) \in Nat
          /\ DOMAIN s = 1 .. Len(s) /\ DOMAIN t = 1 .. Len(t)
          /\ DOMAIN (s \o t) = 1 .. Len(s) + Len(t)
          /\ \A i \in 1 .. Len(s) + Len(t) :
                (s \o t)[i] = IF i <= Len(s) THEN s[i] ELSE t[i - Len(s)]
      BY <1>1, ConcatProperties, LenProperties
    <2> DEFINE u == s \o t
    <2> HIDE DEF u
    <2>2. ASSUME NEW i \in DOMAIN u PROVE u[i] \in ToSet(s) \cup ToSet(t)
      <3>1. CASE i <= Len(s)
        <4>1. i \in DOMAIN s /\ u[i] = s[i]
          BY <2>1, <3>1 DEF u
        <4> QED
          BY <4>1 DEF ToSet
      <3>2. CASE ~(i <= Len(s))
        <4>1. i - Len(s) \in DOMAIN t /\ u[i] = t[i - Len(s)]
          BY <2>1, <3>2 DEF u
        <4> QED
          BY <4>1 DEF ToSet
      <3> QED
        BY <3>1, <3>2
    <2>3. ASSUME NEW i \in DOMAIN s PROVE s[i] \in ToSet(u)
      <3>1. i \in DOMAIN u /\ u[i] = s[i]
        BY <2>1 DEF u
      <3> QED
        BY <3>1 DEF ToSet
    <2>4. ASSUME NEW i \in DOMAIN t PROVE t[i] \in ToSet(u)
      <3>1. i + Len(s) \in DOMAIN u /\ u[i + Len(s)] = t[(i + Len(s)) - Len(s)]
            /\ (i + Len(s)) - Len(s) = i
        BY <2>1 DEF u
      <3> QED
        BY <3>1 DEF ToSet
    <2>5. ToSet(u) = ToSet(s) \cup ToSet(t)
      BY <2>2, <2>3, <2>4 DEF ToSet
    <2> QED
      BY <2>1, <2>5 DEF u
  <1>3. ToSet(s) \subseteq Addr /\ ToSet(t) \subseteq Addr
    <2>1. /\ DOMAIN s = 1 .. Len(s) /\ \A i \in 1 .. Len(s) : s[i] \in Addr
          /\ DOMAIN t = 1 .. Len(t) /\ \A i \in 1 .. Len(t) : t[i] \in Addr
      BY <1>1, LenProperties, ElementOfSeq
    <2> QED
      BY <2>1 DEF ToSet
  <1>4. Registered = ToSet(s) \cup ToSet(t)
    <2>1. \A a \in Addr : role[a] = CASE a \in ToSet(s) -> "prefill"
                                      [] a \in ToSet(t) -> "decode"
                                      [] OTHER          -> "none"
      BY DEF Init
    <2> HIDE DEF s, t
    <2> QED
      BY <1>3, <2>1 DEF Registered
  <1>5. ring = Built(s \o t)
    BY DEF Init
  <1> HIDE DEF s, t
  <1> QED
    BY <1>2, <1>4, <1>5, BuiltFacts

\* Every step that registers or removes an instance does the same to the ring.
LEMMA RingStep ==
    ASSUME PoolInv, RingInv, [Next]_vars
    PROVE  RingInv'
  <1>1. policy' = policy
    BY DEF Next, Refuse, Serve, Complete, Leave, AvailabilityChanges, Join, Downgrade, vars
  <1> SUFFICES ASSUME HasRing PROVE ring' \in CompleteRings(Registered')
    <2>1. HasRing' <=> HasRing
      BY <1>1 DEF HasRing
    <2>2. (CompleteRings(Registered))' = CompleteRings(Registered')
      BY <1>1 DEF CompleteRings
    <2> QED
      BY <2>1, <2>2 DEF RingInv
  <1>2. /\ ring \in CompleteRings(Registered) /\ Registered \in SUBSET Addr
        /\ role \in [Addr -> Role \cup {"none"}]
    BY DEF RingInv, Registered, PoolInv, PoolTypeOK
  <1>3. CASE UNCHANGED <<role, ring>>
    BY <1>2, <1>3 DEF Registered
  <1>4. ASSUME NEW a \in Addr, Leave(a) PROVE ring' \in CompleteRings(Registered')
    <2>1. role' = [role EXCEPT ![a] = "none"] /\ ring' = Removed(ring, a)
      BY <1>4 DEF Leave
    <2>2. Registered' = Registered \ {a}
      BY <1>2, <2>1 DEF Registered
    <2> QED
      BY <1>2, <2>1, <2>2, RingChanges
  <1>5. ASSUME NEW j \in Joining, NEW m \in Model, Join(j[1], j[2], m)
        PROVE  ring' \in CompleteRings(Registered')
    <2> DEFINE a == j[1]
               rl == j[2]
    <2>1. a \in Addr /\ rl \in Role /\ rl # "none"
      BY PoolAssumption DEF Role
    <2>2. role' = [role EXCEPT ![a] = rl] /\ ring' = Added(ring, a)
      BY <1>5 DEF Join
    <2> HIDE DEF a, rl
    <2>3. Registered' = Registered \cup {a}
      BY <1>2, <2>1, <2>2 DEF Registered
    <2> QED
      BY <1>2, <2>1, <2>2, <2>3, RingChanges
  <1>6. \/ UNCHANGED <<role, ring>>
        \/ \E a \in Addr : Leave(a)
        \/ \E j \in Joining, m \in Model : Join(j[1], j[2], m)
    <2>1. \A a : Finished(ring, a) = ring
      BY DEF Finished, HasRing
    <2> QED
      BY <2>1 DEF Next, Refuse, Serve, Complete, AvailabilityChanges, Downgrade, vars,
                  registryVars, poolVars
  <1> QED
    BY <1>3, <1>4, <1>5, <1>6

\* The ring is always complete for the registered instances.
THEOREM RingInvariant == Spec => [](PoolInv /\ RingInv)
  <1>1. PoolInv /\ RingInv /\ [Next]_vars => RingInv'
    BY RingStep
  <1> QED
    BY PoolInvariant, RingInit, <1>1, PTL DEF Spec

\* RingExact: whatever instances joined and left, and in which order, either
\* ring holds exactly the virtual nodes of the registered instances, sorted
\* (consistent_hash.py, _add_worker_unlocked and _remove_worker_unlocked;
\* cache_aware.py, add_worker and remove_worker).
THEOREM RingAlwaysExact == Spec => []RingExact
  <1>1. ASSUME RingInv, policy = "consistent_hash"
        PROVE  WellFormed(ring) /\ ring.workers = Registered
    <2> DEFINE W == Registered
    <2>1. ring \in Rings /\ ring.workers = W /\ Holds(ring, W \X Index)
      BY <1>1 DEF RingInv, HasRing, CompleteRings, RingsOf, Between
    <2>2. ring.keys \in Seq(Nat)
      BY <2>1, RingFields
    <2>3. \A i \in 1 .. Len(ring.keys) - 1 : ring.keys[i] < ring.keys[i + 1]
      BY <2>1, <2>2, IncreasingByNeighbours DEF Holds
    <2> HIDE DEF W
    <2> QED
      BY <2>1, <2>3 DEF WellFormed, Holds, W
  <1>2. ASSUME RingInv, policy = "cache_aware"
        PROVE  Parallel(ring) /\ ring.workers = Registered
    <2> DEFINE W == Registered
               n == Len(ring.keys)
    <2>1. ring \in PairRings /\ ring.workers = W /\ HoldsPairs(ring, W \X Index)
      BY <1>2 DEF RingInv, HasRing, CompleteRings, PairsOf, PairsBetween
    <2>2. ring.keys \in Seq(Nat) /\ n \in Nat /\ Len(ring.owners) = n
      BY <2>1, LenProperties DEF PairRings, HoldsPairs
    <2>3. \A i \in 1 .. n - 1 : ring.keys[i] < ring.keys[i + 1]
      BY <2>1, <2>2, IncreasingByNeighbours DEF HoldsPairs
    <2> HIDE DEF W
    <2>4. ToSet(Zip(ring.keys, ring.owners)) = {<<ring.keys[j], ring.owners[j]>> : j \in 1 .. n}
      BY <2>2 DEF Zip, ToSet
    <2>5. ASSUME NEW j \in 1 .. n
          PROVE  \E v \in W \X Index : <<ring.keys[j], ring.owners[j]>> = <<Hash[v], v[1]>>
      BY <2>1 DEF HoldsPairs, At
    <2>6. ASSUME NEW v \in W \X Index
          PROVE  \E j \in 1 .. n : <<ring.keys[j], ring.owners[j]>> = <<Hash[v], v[1]>>
      BY <2>1 DEF HoldsPairs, At
    <2>7. ToSet(Zip(ring.keys, ring.owners)) = {<<Hash[v], v[1]>> : v \in W \X Index}
      <3> DEFINE place(j) == <<ring.keys[j], ring.owners[j]>>
                 node(v) == <<Hash[v], v[1]>>
      <3>1. /\ \A j \in 1 .. n : \E v \in W \X Index : place(j) = node(v)
            /\ \A v \in W \X Index : \E j \in 1 .. n : place(j) = node(v)
        BY <2>5, <2>6
      <3> HIDE DEF place, node
      <3>2. {place(j) : j \in 1 .. n} = {node(v) : v \in W \X Index}
        BY <3>1
      <3> QED
        BY <2>4, <3>2, Zenon DEF place, node
    <2> QED
      BY <2>1, <2>2, <2>3, <2>7 DEF Parallel, W
  <1>3. RingInv => RingExact
    BY <1>1, <1>2 DEF RingExact
  <1> QED
    BY RingInvariant, <1>3, PTL
-----------------------------------------------------------------------------
(* Where a ring sends a key *)

\* Going clockwise from k, the place g comes no later than h.
Sooner(k, g, h) == IF g > k THEN h <= k \/ g <= h ELSE h <= k /\ g <= h

\* Of all virtual nodes of the candidates C, one of x comes first.  The ring
\* does not appear in it: this is what makes homes independent of the others.
IsHome(x, C, k) ==
    /\ x \in C
    /\ \E i \in Index : \A w \in C \X Index : Sooner(k, Hash[x, i], Hash[w])

\* A home changes only when the instance that comes or goes is concerned.
LEMMA HomesStay ==
    ASSUME NEW C \in SUBSET Addr, NEW D \in SUBSET Addr, NEW a, C \ {a} = D \ {a},
           NEW k \in Nat, NEW x, NEW y, IsHome(x, C, k), IsHome(y, D, k)
    PROVE  \/ y = x
           \/ y = a /\ a \in D \ C
           \/ x = a /\ a \in C \ D
  <1>1. x \in C /\ y \in D
    BY DEF IsHome
  <1>2. CASE x \notin D
    BY <1>1, <1>2
  <1>3. CASE y \notin C
    BY <1>1, <1>3
  <1>4. CASE x \in D /\ y \in C
    <2>1. PICK i \in Index : \A w \in C \X Index : Sooner(k, Hash[x, i], Hash[w])
      BY DEF IsHome
    <2>2. PICK j \in Index : \A w \in D \X Index : Sooner(k, Hash[y, j], Hash[w])
      BY DEF IsHome
    <2>3. <<x, i>> \in D \X Index /\ <<y, j>> \in C \X Index
      BY <1>4
    <2>4. Sooner(k, Hash[x, i], Hash[y, j]) /\ Sooner(k, Hash[y, j], Hash[x, i])
      BY <2>1, <2>2, <2>3
    <2>5. /\ Hash[x, i] \in Nat /\ Hash[y, j] \in Nat
          /\ Hash[x, i] = Hash[y, j] => <<x, i>> = <<y, j>>
      <3>1. <<x, i>> \in Addr \X Index /\ <<y, j>> \in Addr \X Index
        BY <2>3
      <3> QED
        BY <3>1, HashFacts
    <2>6. Hash[x, i] = Hash[y, j]
      <3>1. \A g, h \in Nat : Sooner(k, g, h) /\ Sooner(k, h, g) => g = h
        BY DEF Sooner
      <3> QED
        BY <2>4, <2>5, <3>1
    <2> QED
      BY <2>5, <2>6
  <1> QED
    BY <1>2, <1>3, <1>4

\* The places s with the owners o are exactly the virtual nodes V, in order.
Placed(s, o, V) ==
    /\ s \in Seq(Nat) /\ Increasing(s)
    /\ \A j \in 1 .. Len(s) : \E v \in V : s[j] = Hash[v] /\ o[j] = v[1]
    /\ \A v \in V : \E j \in 1 .. Len(s) : s[j] = Hash[v] /\ o[j] = v[1]

\* The places of the candidates, as Python counts them.
Hits(s, o, C) == {m \in 0 .. Len(s) - 1 : o[m + 1] \in C}

\* The scan of select_from and lookup_from ends at the key's home.
LEMMA ScanFindsHome ==
    ASSUME NEW W \in SUBSET Addr, NEW s, NEW o, Placed(s, o, W \X Index),
           NEW C \in SUBSET W, C # {}, NEW k \in Nat
    PROVE  LET e == NearestFrom(BisectRight(s, k) % Len(s), Hits(s, o, C))
           IN  Hits(s, o, C) # {} /\ e \in Hits(s, o, C) /\ IsHome(o[e + 1], C, k)
  <1> DEFINE n == Len(s)
             H == Hits(s, o, C)
             b == BisectRight(s, k)
             ahead == {m \in H : m >= b % n}
             e == NearestFrom(b % n, H)
  <1>1. s \in Seq(Nat) /\ Increasing(s)
    BY DEF Placed
  <1>2. /\ n \in Nat /\ DOMAIN s = 1 .. n /\ b \in 0 .. n
        /\ \A j \in 1 .. n : s[j] \in Nat /\ (s[j] <= k <=> j <= b)
    BY <1>1, BisectFacts
  <1>3. ASSUME NEW v \in C \X Index
        PROVE  \E m \in H : s[m + 1] = Hash[v] /\ o[m + 1] = v[1]
    <2>1. v \in W \X Index
      OBVIOUS
    <2>2. PICK j \in 1 .. n : s[j] = Hash[v] /\ o[j] = v[1]
      BY <2>1 DEF Placed
    <2>3. j - 1 \in 0 .. n - 1 /\ (j - 1) + 1 = j /\ v[1] \in C
      BY <1>2, <2>1
    <2>4. j - 1 \in H
      BY <2>2, <2>3 DEF Hits
    <2> QED
      BY <2>2, <2>3, <2>4
  <1>4. H # {}
    <2>1. PICK c \in C : TRUE
      OBVIOUS
    <2>2. <<c, 0>> \in C \X Index
      BY HashAssumption DEF Index
    <2> QED
      BY <1>3, <2>2
  <1>5. H \subseteq 0 .. n - 1 /\ n > 0
    BY <1>2, <1>4 DEF Hits
  <1> HIDE DEF H, b, n
  <1>6. b % n = IF b = n THEN 0 ELSE b
    BY <1>2, <1>5
  <1>7. /\ e \in H
        /\ \A m \in H : Sooner(k, s[e + 1], s[m + 1])
    <2>1. \A m \in H : m \in 0 .. n - 1 /\ m + 1 \in 1 .. n /\ s[m + 1] \in Nat
                       /\ (s[m + 1] <= k <=> m < b)
      BY <1>2, <1>5
    <2>2. ASSUME NEW l \in H, NEW m \in H, l <= m PROVE s[l + 1] <= s[m + 1]
      <3>1. l = m \/ l + 1 < m + 1
        BY <2>1, <2>2
      <3> QED
        BY <1>1, <1>2, <2>1, <3>1 DEF Increasing
    <2>3. CASE ahead # {}
      <3>1. e = Min(ahead)
        BY <2>3 DEF NearestFrom
      <3>2. ahead \subseteq Nat
        BY <2>1
      <3> HIDE DEF ahead
      <3>3. e \in ahead /\ \A m \in ahead : e <= m
        BY <2>3, <3>1, <3>2, LeastElement DEF Min
      <3> HIDE DEF e
      <3>4. e \in H /\ e >= b % n /\ \A m \in H : m >= b % n => e <= m
        BY <3>3 DEF ahead
      <3>5. ASSUME NEW m \in H PROVE Sooner(k, s[e + 1], s[m + 1])
        <4>1. /\ s[e + 1] \in Nat /\ s[m + 1] \in Nat /\ m \in Nat /\ e \in Nat
              /\ (s[e + 1] <= k <=> e < b) /\ (s[m + 1] <= k <=> m < b)
          BY <2>1, <3>4
        <4>2. e <= m => s[e + 1] <= s[m + 1]
          BY <2>2, <3>4
        <4>3. CASE b = n
          <5>1. e <= m /\ m < b /\ e < b
            BY <1>2, <1>6, <2>1, <3>4, <4>1, <4>3
          <5> QED
            BY <4>1, <4>2, <5>1 DEF Sooner
        <4>4. CASE b # n
          <5>1. ~(e < b) /\ (m < b \/ e <= m)
            BY <1>2, <1>6, <3>4, <4>1, <4>4
          <5> QED
            BY <4>1, <4>2, <5>1 DEF Sooner
        <4> QED
          BY <4>3, <4>4
      <3> QED
        BY <3>4, <3>5
    <2>4. CASE ahead = {}
      <3>1. e = Min(H)
        BY <2>4 DEF NearestFrom
      <3>2. H \subseteq Nat /\ \A m \in H : ~(m >= b % n)
        BY <2>1, <2>4
      <3> HIDE DEF e, ahead
      <3>3. e \in H /\ \A m \in H : e <= m
        BY <1>4, <3>1, <3>2, LeastElement DEF Min
      <3>4. ASSUME NEW m \in H PROVE Sooner(k, s[e + 1], s[m + 1])
        <4>1. /\ s[e + 1] \in Nat /\ s[m + 1] \in Nat /\ m \in Nat /\ e \in Nat
              /\ (s[e + 1] <= k <=> e < b) /\ (s[m + 1] <= k <=> m < b)
          BY <2>1, <3>3
        <4>2. s[e + 1] <= s[m + 1]
          BY <2>2, <3>3
        <4>3. m < b /\ e < b
          BY <1>2, <1>6, <3>2, <3>3, <4>1
        <4> QED
          BY <4>1, <4>2, <4>3 DEF Sooner
      <3> QED
        BY <3>3, <3>4
    <2> QED
      BY <2>3, <2>4
  <1> HIDE DEF e
  <1>8. PICK v \in W \X Index : s[e + 1] = Hash[v] /\ o[e + 1] = v[1]
    <2>1. e + 1 \in 1 .. n
      BY <1>2, <1>5, <1>7
    <2> QED
      BY <2>1 DEF Placed, n
  <1>9. o[e + 1] \in C
    BY <1>7 DEF H, Hits
  <1>10. \A w \in C \X Index : Sooner(k, Hash[v], Hash[w])
    BY <1>3, <1>7, <1>8
  <1>11. v[2] \in Index /\ v = <<o[e + 1], v[2]>>
    BY <1>8
  <1>12. IsHome(o[e + 1], C, k)
    <2> DEFINE x == o[e + 1]
    <2>1. Hash[v] = Hash[x, v[2]]
      BY <1>11
    <2> HIDE DEF x
    <2>2. \A w \in C \X Index : Sooner(k, Hash[x, v[2]], Hash[w])
      BY <1>10, <2>1
    <2> QED
      BY <1>9, <1>11, <2>2 DEF IsHome, x
  <1> QED
    BY <1>4, <1>7, <1>12 DEF H, e, b, n

\* Both rings send a key to its home.
LEMMA HomeFacts ==
    ASSUME PoolInv, RingInv, HasRing, NEW p \in Pool, NEW k \in Key
    PROVE  /\ Candidates(p) = {} => Home(p, k) = NoAddr
           /\ Candidates(p) # {} => IsHome(Home(p, k), Candidates(p), k)
  <1> DEFINE W == Registered
             C == Candidates(p)
             s == ring.keys
             n == Len(s)
             start == BisectRight(s, k) % n
  <1>1. W \in SUBSET Addr /\ C \in SUBSET W /\ k \in Nat
    BY PoolAssumption DEF PoolInv, PoolTypeOK, Candidates, Registered
  <1>2. CASE policy = "consistent_hash"
    <2> DEFINE o == [j \in 1 .. n |-> ring.map[s[j]]]
               hits == {m \in 0 .. n - 1 : ring.map[s[m + 1]] \in C}
    <2>1. ring \in Rings /\ Holds(ring, W \X Index)
      BY <1>2 DEF RingInv, HasRing, CompleteRings, RingsOf, Between
    <2>2. s \in Seq(Nat) /\ n \in Nat /\ DOMAIN s = 1 .. n
      BY <2>1, RingFields, LenProperties
    <2>3. Home(p, k) = IF hits = {} THEN NoAddr ELSE ring.map[s[NearestFrom(start, hits) + 1]]
      BY <1>2, Zenon DEF Home, SelectFrom, Start
    <2>4. Placed(s, o, W \X Index)
      <3> HIDE DEF W
      <3>1. ASSUME NEW j \in 1 .. n PROVE \E v \in W \X Index : s[j] = Hash[v] /\ o[j] = v[1]
        <4>1. s[j] \in DOMAIN ring.map
          BY <2>1, <2>2 DEF Holds, ToSet
        <4>2. PICK v \in W \X Index : s[j] = Hash[v]
          BY <2>1, <4>1 DEF Holds
        <4> QED
          BY <2>1, <4>2 DEF Holds
      <3>2. ASSUME NEW v \in W \X Index PROVE \E j \in 1 .. n : s[j] = Hash[v] /\ o[j] = v[1]
        <4>1. Hash[v] \in ToSet(s) /\ ring.map[Hash[v]] = v[1]
          BY <2>1 DEF Holds
        <4>2. PICK j \in 1 .. n : s[j] = Hash[v]
          BY <2>2, <4>1 DEF ToSet
        <4> QED
          BY <4>1, <4>2
      <3> QED
        BY <2>1, <2>2, <3>1, <3>2 DEF Placed, Holds
    <2>5. \A m \in 0 .. n - 1 : o[m + 1] = ring.map[s[m + 1]]
      BY <2>2
    <2>6. hits = Hits(s, o, C) /\ hits \subseteq 0 .. n - 1
      BY <2>5 DEF Hits
    <2> HIDE DEF o, hits, s, n, C, W
    <2>7. CASE C = {}
      <3>1. hits = {}
        BY <2>7 DEF hits
      <3> QED
        BY <2>3, <2>7, <3>1 DEF C
    <2>8. CASE C # {}
      <3> DEFINE e == NearestFrom(start, hits)
      <3>1. hits # {} /\ e \in hits /\ IsHome(o[e + 1], C, k)
        BY <1>1, <2>4, <2>6, <2>8, ScanFindsHome DEF n
      <3> HIDE DEF e
      <3>2. o[e + 1] = ring.map[s[e + 1]]
        BY <2>5, <2>6, <3>1
      <3>3. Home(p, k) = o[e + 1]
        BY <2>3, <3>1, <3>2 DEF e
      <3> QED
        BY <2>8, <3>1, <3>3 DEF C
    <2> QED
      BY <2>7, <2>8
  <1>3. CASE policy = "cache_aware"
    <2> DEFINE o == ring.owners
               hits == {m \in 0 .. n - 1 : o[m + 1] \in C}
    <2>1. ring \in PairRings /\ HoldsPairs(ring, W \X Index)
      BY <1>3 DEF RingInv, HasRing, CompleteRings, PairsOf, PairsBetween
    <2>2. Home(p, k) = IF hits = {} THEN NoAddr ELSE o[NearestFrom(start, hits) + 1]
      <3>1. policy # "consistent_hash"
        BY <1>3
      <3> QED
        BY <3>1, Zenon DEF Home, LookupFrom, Start
    <2>3. Placed(s, o, W \X Index)
      <3> HIDE DEF W
      <3> QED
        BY <2>1 DEF PairRings, HoldsPairs, At, Placed
    <2>4. hits = Hits(s, o, C)
      BY DEF Hits
    <2> HIDE DEF o, hits, s, n, C, W
    <2>5. CASE C = {}
      <3>1. hits = {}
        BY <2>5 DEF hits
      <3> QED
        BY <2>2, <2>5, <3>1 DEF C
    <2>6. CASE C # {}
      <3> DEFINE e == NearestFrom(start, hits)
      <3>1. hits # {} /\ IsHome(o[e + 1], C, k)
        BY <1>1, <2>3, <2>4, <2>6, ScanFindsHome DEF n
      <3> HIDE DEF e
      <3>2. Home(p, k) = o[e + 1]
        BY <2>2, <3>1 DEF e
      <3> QED
        BY <2>6, <3>1, <3>2 DEF C
    <2> QED
      BY <2>5, <2>6
  <1> QED
    BY <1>2, <1>3 DEF HasRing

\* Of any two or more instances power of two choices can take one.
LEMMA PairsExist ==
    ASSUME PoolInv, NEW C \in SUBSET Addr, C # {}
    PROVE  PairChoices(C, active) # {}
  <1>1. active \in [Addr -> Nat]
    BY DEF PoolInv, PoolTypeOK
  <1>2. CASE Cardinality(C) = 1
    BY <1>2 DEF PairChoices
  <1>3. CASE Cardinality(C) # 1
    <2> DEFINE T == {active[a] : a \in C}
    <2>1. T # {} /\ T \subseteq Nat
      BY <1>1
    <2>2. PICK x \in T : \A y \in T : x <= y
      BY <2>1, LeastElement
    <2>3. PICK a \in C : active[a] = x
      BY <2>2
    <2>4. C # {a}
      BY <1>3, FS_Singleton
    <2>5. PICK b \in C : b # a
      BY <2>4
    <2>6. active[a] <= active[b]
      BY <2>2, <2>3
    <2> QED
      BY <1>3, <2>5, <2>6 DEF PairChoices
  <1> QED
    BY <1>2, <1>3

\* FindsAvailable: whatever the policy and however the pool came about, a
\* request finds an instance whenever one of its role and model is available;
\* round robin may only miss one on a list with an address twice
\* (round_robin.py:41-42).
THEOREM AlwaysFindsAvailable == Spec => []FindsAvailable
  <1>1. ASSUME PoolInv, RingInv, NEW p \in Pool, NEW k \in Key, Candidates(p) # {},
               ~(UsesRoundRobin(p) /\ ~IsInjective(list[p[1]]))
        PROVE  Selections(p, k) # {}
    <2> DEFINE C == Candidates(p)
    <2>1. C \in SUBSET Addr /\ C # {}
      BY <1>1, CandidateFacts
    <2>2. CASE UsesRoundRobin(p)
      BY <1>1, <2>2, RoundRobinServes, RoundRobinSelects
    <2>3. CASE ~UsesRoundRobin(p) /\ HasRing
      <3>1. Home(p, k) \in C
        BY <1>1, <2>3, HomeFacts DEF IsHome
      <3>2. Home(p, k) # NoAddr
        BY <2>1, <3>1, PoolAssumption
      <3>3. Selections(p, k) = {Home(p, k)} \ {NoAddr}
        <4>1. CASE policy = "consistent_hash"
          BY <1>1, <2>3, <4>1 DEF Selections, Home
        <4>2. CASE policy = "cache_aware"
          BY <1>1, <2>3, <4>2 DEF Selections, Home
        <4> QED
          BY <2>3, <4>1, <4>2 DEF HasRing
      <3> QED
        BY <3>2, <3>3
    <2>4. CASE ~UsesRoundRobin(p) /\ policy = "power_of_two"
      <3>1. Selections(p, k) = PairChoices(C, active)
        BY <1>1, <2>4 DEF Selections, CurrentLoad
      <3> QED
        BY <1>1, <2>1, <3>1, PairsExist
    <2>5. policy \in Policy
      BY <1>1 DEF PoolInv
    <2> QED
      BY <2>2, <2>3, <2>4, <2>5 DEF Policy, UsesRoundRobin, HasRing
  <1>2. PoolInv /\ RingInv => FindsAvailable
    BY <1>1 DEF FindsAvailable
  <1> QED
    BY RingInvariant, <1>2, PTL
-----------------------------------------------------------------------------
(* Power of two choices *)

\* Whatever the policy, it returns a candidate.
LEMMA SelectionsAreCandidates ==
    ASSUME PoolInv, RingInv, NEW p \in Pool, NEW k \in Key, NEW a \in Selections(p, k)
    PROVE  a \in Candidates(p)
  <1>1. Candidates(p) # {}
    BY DEF Selections
  <1>2. CASE UsesRoundRobin(p)
    BY <1>1, <1>2, RoundRobinSelects DEF Finds, Choice
  <1>3. CASE ~UsesRoundRobin(p) /\ HasRing
    <2>1. Home(p, k) \in Candidates(p)
      BY <1>1, <1>3, HomeFacts DEF IsHome
    <2>2. Selections(p, k) = {Home(p, k)} \ {NoAddr}
      <3>1. CASE policy = "consistent_hash"
        BY <1>1, <1>3, <3>1 DEF Selections, Home
      <3>2. CASE policy = "cache_aware"
        BY <1>1, <1>3, <3>2 DEF Selections, Home
      <3> QED
        BY <1>3, <3>1, <3>2 DEF HasRing
    <2> QED
      BY <2>1, <2>2
  <1>4. CASE ~UsesRoundRobin(p) /\ policy = "power_of_two"
    BY <1>1, <1>4 DEF Selections, PairChoices
  <1>5. policy \in Policy
    BY DEF PoolInv
  <1> QED
    BY <1>2, <1>3, <1>4, <1>5 DEF Policy, UsesRoundRobin, HasRing

\* Nobody in C is two requests ahead of all the others.
Level(C, n) ==
    \A a \in C : \/ n[a] <= 1 \/ C = {a}
                 \/ \E b \in C \ {a} : n[a] <= n[b] + 1

\* The invariant of the waves: all requests of the role went to candidates of
\* the wave, which have that role still.
LevelInv ==
    \A rl \in Role : ~wave[rl].mixed =>
        /\ \A a \in Addr : role[a] = rl /\ active[a] > 0 => a \in wave[rl].pool
        /\ \A a \in wave[rl].pool : role[a] = rl
        /\ Level(wave[rl].pool, active)

\* A request that power of two choices places keeps the candidates level.
LEMMA PairsLevel ==
    ASSUME NEW C \in SUBSET Addr, IsFiniteSet(C), NEW n \in [Addr -> Nat],
           Level(C, n), NEW a \in PairChoices(C, n)
    PROVE  Level(C, [n EXCEPT ![a] = @ + 1])
  <1> DEFINE m == [n EXCEPT ![a] = @ + 1]
  <1>1. a \in C
    BY DEF PairChoices
  <1>2. \A b \in C : m[b] = (IF b = a THEN n[b] + 1 ELSE n[b]) /\ n[b] \in Nat
    BY <1>1
  <1> HIDE DEF m
  <1>3. C = {a} \/ \E b \in C \ {a} : n[a] <= n[b]
    <2>1. CASE Cardinality(C) = 1
      BY <1>1, <2>1, FS_Singleton
    <2>2. CASE Cardinality(C) # 1
      BY <2>2 DEF PairChoices
    <2> QED
      BY <2>1, <2>2
  <1>4. ASSUME NEW c \in C
        PROVE  m[c] <= 1 \/ C = {c} \/ \E b \in C \ {c} : m[c] <= m[b] + 1
    <2>1. CASE c = a
      BY <1>1, <1>2, <1>3, <2>1
    <2>2. CASE c # a
      <3>1. n[c] <= 1 \/ C = {c} \/ \E b \in C \ {c} : n[c] <= n[b] + 1
        BY DEF Level
      <3>2. \A b \in C : n[b] <= m[b]
        BY <1>2
      <3> QED
        BY <1>1, <1>2, <2>2, <3>1, <3>2
    <2> QED
      BY <2>1, <2>2
  <1> QED
    BY <1>4 DEF Level, m

\* A served request of a wave.
LEMMA ServeLevel ==
    ASSUME PoolInv, RingInv, LevelInv, NEW p \in Pool, Serve(p)
    PROVE  LevelInv'
  <1> SUFFICES ASSUME NEW rl \in Role, ~wave'[rl].mixed
               PROVE  /\ \A b \in Addr : role'[b] = rl /\ active'[b] > 0 => b \in wave'[rl].pool
                      /\ \A b \in wave'[rl].pool : role'[b] = rl
                      /\ Level(wave'[rl].pool, active')
    BY DEF LevelInv, Level
  <1> DEFINE C == Candidates(p)
             w == wave[p[1]]
  <1>0. PICK a \in UNION {Selections(p, k) : k \in Key} :
            active' = [active EXCEPT ![a] = @ + 1]
    BY DEF Serve
  <1>1. PICK k \in Key : a \in Selections(p, k)
    BY <1>0
  <1>2. role' = role /\ wave' = [wave EXCEPT ![p[1]] = WaveAfter(w, p)]
    BY DEF Serve
  <1>3. /\ wave \in [Role -> Wave] /\ active \in [Addr -> Nat] /\ p[1] \in Role
        /\ C \in SUBSET Addr /\ IsFiniteSet(C) /\ \A b \in C : role[b] = p[1]
    BY CandidateFacts, FS_Subset, PoolAssumption DEF PoolInv, PoolTypeOK, Wave, Candidates
  <1>4. C # {}
    BY <1>1 DEF Selections
  <1>5. CASE rl = p[1]
    <2>1. wave'[rl] = WaveAfter(w, p)
      BY <1>2, <1>3, <1>5
    <2>2. /\ ~w.mixed /\ w.pool \in {{}, C} /\ wave'[rl].pool = C
          /\ policy = "power_of_two" /\ ~UsesRoundRobin(p)
      BY <2>1 DEF WaveAfter
    <2>3. a \in PairChoices(C, active)
      BY <1>1, <1>4, <2>2 DEF Selections, CurrentLoad
    <2>4. /\ \A b \in Addr : role[b] = rl /\ active[b] > 0 => b \in w.pool
          /\ Level(w.pool, active)
      BY <1>5, <2>2 DEF LevelInv
    <2>5. Level(C, active)
      <3>1. CASE w.pool = C
        BY <2>4, <3>1
      <3>2. CASE w.pool = {}
        <4>1. \A b \in C : active[b] = 0
          BY <1>3, <1>5, <2>4, <3>2
        <4> QED
          BY <4>1 DEF Level
      <3> QED
        BY <2>2, <3>1, <3>2
    <2> HIDE DEF C, w
    <2>6. Level(C, active')
      BY <1>0, <1>3, <2>3, <2>5, PairsLevel
    <2>7. a \in C
      BY <2>3 DEF PairChoices
    <2>8. ASSUME NEW b \in Addr, role[b] = rl, active'[b] > 0 PROVE b \in C
      <3>1. CASE b = a
        BY <2>7, <3>1
      <3>2. CASE b # a
        <4>1. active[b] > 0
          BY <1>0, <1>3, <2>8, <3>2
        <4> QED
          BY <2>2, <2>4, <2>8, <4>1
      <3> QED
        BY <3>1, <3>2
    <2> QED
      BY <1>2, <1>3, <1>5, <2>2, <2>6, <2>8
  <1>6. CASE rl # p[1]
    <2>1. wave'[rl] = wave[rl]
      BY <1>2, <1>3, <1>6
    <2>2. /\ \A b \in Addr : role[b] = rl /\ active[b] > 0 => b \in wave[rl].pool
          /\ \A b \in wave[rl].pool : role[b] = rl
          /\ Level(wave[rl].pool, active)
      BY <2>1 DEF LevelInv
    <2>3. a \in C
      BY <1>1, SelectionsAreCandidates
    <2>4. \A b \in Addr : role[b] = rl => active'[b] = active[b]
      BY <1>0, <1>3, <1>6, <2>3
    <2>5. wave[rl].pool \subseteq Addr
      BY <1>3 DEF Wave
    <2>6. Level(wave[rl].pool, active')
      BY <2>2, <2>4, <2>5 DEF Level
    <2> QED
      BY <1>2, <2>1, <2>2, <2>4, <2>6
  <1> QED
    BY <1>5, <1>6

\* PairsKeepLevel: while requests with the same candidates arrive at an idle
\* role and none of them ends, power of two choices never lets an instance
\* get two requests ahead of all other candidates, whatever pairs it draws,
\* because it compares the registry's counts and not its own table
\* (power_of_two.py:118).
THEOREM PairsAlwaysLevel == Spec => []PairsKeepLevel
  <1>1. Init => LevelInv
    BY DEF Init, NoWave, LevelInv, Level
  <1>2. PoolInv /\ RingInv /\ LevelInv /\ [Next]_vars => LevelInv'
    <2> SUFFICES ASSUME PoolInv, RingInv, LevelInv, [Next]_vars PROVE LevelInv'
      OBVIOUS
    <2>1. ASSUME NEW p \in Pool, Serve(p) PROVE LevelInv'
      BY <2>1, ServeLevel
    <2>2. CASE wave' = WaveOver
      <3>1. ASSUME NEW rl \in Role, ~wave'[rl].mixed
            PROVE  /\ \A a \in Addr : ~(role'[a] = rl /\ active'[a] > 0)
                   /\ wave'[rl].pool = {}
        BY <2>2, <3>1 DEF WaveOver
      <3> QED
        BY <3>1 DEF LevelInv, Level
    <2>3. CASE UNCHANGED <<wave, role, active>>
      BY <2>3 DEF LevelInv, Level
    <2>4. \/ \E p \in Pool : Serve(p)
          \/ wave' = WaveOver
          \/ UNCHANGED <<wave, role, active>>
      BY DEF Next, Refuse, Complete, Leave, AvailabilityChanges, Join, Downgrade, vars,
             registryVars
    <2> QED
      BY <2>1, <2>2, <2>3, <2>4
  <1>3. LevelInv => PairsKeepLevel
    BY DEF LevelInv, Level, PairsKeepLevel
  <1> QED
    BY RingInvariant, <1>1, <1>2, <1>3, PTL DEF Spec
-----------------------------------------------------------------------------
(* Both rings implement Affinity *)

\* What the abstract specification sees in a state of the pool.
Seen == /\ Pools \in [Pool -> SUBSET Addr]
        /\ Homes \in [Pool \X Key -> Addr \cup {NoAddr}]
        /\ \A p \in Pool, k \in Key :
              /\ Pools[p] = {} => Homes[p, k] = NoAddr
              /\ Pools[p] # {} => IsHome(Homes[p, k], Pools[p], k)

LEMMA AbstractState == PoolInv /\ RingInv => Seen
  <1> SUFFICES ASSUME PoolInv, RingInv PROVE Seen
    OBVIOUS
  <1>1. \A p \in Pool : Candidates(p) \in SUBSET Addr
    BY CandidateFacts
  <1>2. Pools \in [Pool -> SUBSET Addr]
    BY <1>1 DEF Pools
  <1>3. ASSUME NEW p \in Pool, NEW k \in Key
        PROVE  /\ Pools[p] = {} => Homes[p, k] = NoAddr
               /\ Pools[p] # {} => IsHome(Homes[p, k], Pools[p], k)
    <2>1. <<p, k>> \in Pool \X Key /\ <<p, k>>[1] = p /\ <<p, k>>[2] = k
      OBVIOUS
    <2>2. Homes[p, k] = IF HasRing THEN Home(p, k) ELSE NoAddr
      BY <2>1 DEF Homes
    <2>3. Pools[p] = IF HasRing THEN Candidates(p) ELSE {}
      BY DEF Pools
    <2>4. HasRing => /\ Candidates(p) = {} => Home(p, k) = NoAddr
                     /\ Candidates(p) # {} => IsHome(Home(p, k), Candidates(p), k)
      BY HomeFacts
    <2> QED
      BY <2>2, <2>3, <2>4
  <1>4. Homes \in [Pool \X Key -> Addr \cup {NoAddr}]
    <2>1. ASSUME NEW pk \in Pool \X Key PROVE Homes[pk] \in Addr \cup {NoAddr}
      <3>1. PICK p \in Pool, k \in Key : pk = <<p, k>>
        OBVIOUS
      <3>2. Homes[p, k] = NoAddr \/ (Homes[p, k] \in Pools[p] /\ Pools[p] \subseteq Addr)
        BY <1>2, <1>3 DEF IsHome
      <3> QED
        BY <3>1, <3>2
    <2>2. Homes = [pk \in Pool \X Key |-> Homes[pk]]
      BY DEF Homes
    <2> QED
      BY <2>1, <2>2
  <1> QED
    BY <1>2, <1>3, <1>4 DEF Seen

\* The steps that can move a key concern one instance.
LEMMA OneInstance ==
    ASSUME PoolInv, [Next]_vars
    PROVE  \/ UNCHANGED <<Pools, Homes>>
           \/ \E a \in Addr : \A p \in Pool : Pools'[p] \ {a} = Pools[p] \ {a}
  <1>1. policy' = policy
    BY DEF Next, Refuse, Serve, Complete, Leave, AvailabilityChanges, Join, Downgrade, vars
  <1>2. HasRing' <=> HasRing
    BY <1>1 DEF HasRing
  <1>3. /\ role \in [Addr -> Role \cup {"none"}] /\ model \in [Addr -> Asked]
        /\ available \subseteq Addr
    BY DEF PoolInv, PoolTypeOK, Registered
  <1>4. CASE UNCHANGED <<role, model, available>> /\ (HasRing => ring' = ring)
    <2>1. \A p \in Pool : Candidates(p)' = Candidates(p)
      BY <1>4 DEF Candidates
    <2>2. ASSUME HasRing PROVE \A p \in Pool, k \in Key : Home(p, k)' = Home(p, k)
      BY <1>1, <1>4, <2>1, <2>2 DEF Home
    <2>3. Pools' = Pools
      BY <1>2, <2>1 DEF Pools
    <2>4. Homes' = Homes
      <3>1. HasRing => \A pk \in Pool \X Key : Home(pk[1], pk[2])' = Home(pk[1], pk[2])
        BY <2>2
      <3> QED
        BY <1>2, <3>1 DEF Homes
    <2> QED
      BY <2>3, <2>4
  <1>5. ASSUME NEW a \in Addr,
               \A b \in Addr \ {a} : /\ role'[b] = role[b] /\ model'[b] = model[b]
                                     /\ b \in available' <=> b \in available,
               available' \subseteq Addr
        PROVE  \A p \in Pool : Pools'[p] \ {a} = Pools[p] \ {a}
    <2>1. ASSUME NEW p \in Pool PROVE Candidates(p)' \ {a} = Candidates(p) \ {a}
      BY <1>3, <1>5 DEF Candidates
    <2>2. ASSUME NEW p \in Pool
          PROVE  /\ Pools[p] = IF HasRing THEN Candidates(p) ELSE {}
                 /\ Pools'[p] = IF HasRing THEN Candidates(p)' ELSE {}
      BY <1>2 DEF Pools
    <2> QED
      BY <2>1, <2>2
  <1>6. ASSUME NEW a \in Addr, AvailabilityChanges(a) \/ Leave(a)
        PROVE  \A p \in Pool : Pools'[p] \ {a} = Pools[p] \ {a}
    <2>1. /\ \A b \in Addr \ {a} : /\ role'[b] = role[b] /\ model'[b] = model[b]
                                   /\ b \in available' <=> b \in available
          /\ available' \subseteq Addr
      BY <1>3, <1>6 DEF AvailabilityChanges, Leave
    <2> QED
      BY <1>5, <2>1
  <1>7. ASSUME NEW j \in Joining, NEW m \in Model, Join(j[1], j[2], m)
        PROVE  \E a \in Addr : \A p \in Pool : Pools'[p] \ {a} = Pools[p] \ {a}
    <2> DEFINE a == j[1]
    <2>1. a \in Addr
      BY PoolAssumption
    <2>2. /\ role' = [role EXCEPT ![a] = j[2]] /\ model' = [model EXCEPT ![a] = m]
          /\ available' = available \cup {a}
      BY <1>7 DEF Join
    <2> HIDE DEF a
    <2>3. /\ \A b \in Addr \ {a} : /\ role'[b] = role[b] /\ model'[b] = model[b]
                                   /\ b \in available' <=> b \in available
          /\ available' \subseteq Addr
      BY <1>3, <2>1, <2>2
    <2> QED
      BY <1>5, <2>1, <2>3
  <1>8. \/ UNCHANGED <<role, model, available>> /\ (HasRing => ring' = ring)
        \/ \E a \in Addr : AvailabilityChanges(a) \/ Leave(a)
        \/ \E j \in Joining, m \in Model : Join(j[1], j[2], m)
    <2>1. HasRing => \A a : Finished(ring, a) = ring
      BY DEF Finished, HasRing
    <2> QED
      BY <2>1 DEF Next, Refuse, Serve, Complete, Downgrade, vars, registryVars, poolVars
  <1> QED
    BY <1>4, <1>6, <1>7, <1>8

\* Every step is one of Affinity or leaves all homes alone.
LEMMA AffinityStep ==
    ASSUME PoolInv, [Next]_vars, Seen, Seen'
    PROVE  [Abstract!Next]_<<Pools, Homes>>
  <1>1. CASE UNCHANGED <<Pools, Homes>>
    BY <1>1
  <1>2. ASSUME NEW a \in Addr, \A p \in Pool : Pools'[p] \ {a} = Pools[p] \ {a}
        PROVE  Abstract!Changes(a)
    <2>1. ASSUME NEW p \in Pool
          PROVE  Pools'[p] \subseteq Addr /\ Pools[p] \subseteq Addr
      BY DEF Seen
    <2>2. ASSUME NEW p \in Pool, NEW k \in Key
          PROVE  /\ IF Pools'[p] = {} THEN Homes'[p, k] = NoAddr ELSE Homes'[p, k] \in Pools'[p]
                 /\ \/ Homes'[p, k] = Homes[p, k]
                    \/ Homes'[p, k] = a /\ a \in Pools'[p] \ Pools[p]
                    \/ Homes[p, k] = a /\ a \in Pools[p] \ Pools'[p]
      <3> DEFINE C == Pools[p]
                 D == Pools'[p]
                 x == Homes[p, k]
                 y == Homes'[p, k]
      <3>1. /\ C \in SUBSET Addr /\ D \in SUBSET Addr /\ C \ {a} = D \ {a}
            /\ k \in Nat
        BY <1>2, <2>1, PoolAssumption
      <3>2. /\ C = {} => x = NoAddr
            /\ C # {} => IsHome(x, C, k)
            /\ D = {} => y = NoAddr
            /\ D # {} => IsHome(y, D, k)
        BY DEF Seen
      <3> HIDE DEF C, D, x, y
      <3>3. C # {} /\ D # {} => \/ y = x
                                \/ y = a /\ a \in D \ C
                                \/ x = a /\ a \in C \ D
        BY <3>1, <3>2, HomesStay
      <3>4. (C # {} => x \in C) /\ (D # {} => y \in D)
        BY <3>2 DEF IsHome
      <3> QED
        BY <3>1, <3>2, <3>3, <3>4 DEF C, D, x, y
    <2> QED
      BY <1>2, <2>1, <2>2 DEF Abstract!Changes
  <1> QED
    BY <1>1, <1>2, OneInstance DEF Abstract!Next

\* RefinesAffinity: under either ring, when an instance is added, removed,
\* drained, found unhealthy or tripped, only the keys move that had it or now
\* have it as their home, whatever the hashes (consistent_hash.py,
\* select_from; cache_aware.py, lookup_from).
THEOREM RingsImplementAffinity == Spec => RefinesAffinity
  <1>1. Seen => Abstract!Init
    <2> SUFFICES ASSUME Seen PROVE Abstract!Init
      OBVIOUS
    <2>1. ASSUME NEW p \in Pool, NEW k \in Key
          PROVE  IF Pools[p] = {} THEN Homes[p, k] = NoAddr ELSE Homes[p, k] \in Pools[p]
      BY DEF Seen, IsHome
    <2> QED
      BY <2>1 DEF Abstract!Init, Seen
  <1>2. PoolInv /\ Seen /\ Seen' /\ [Next]_vars => [Abstract!Next]_<<Pools, Homes>>
    BY AffinityStep
  <1> QED
    BY <1>1, <1>2, AbstractState, RingInvariant, PTL
       DEF Spec, RefinesAffinity, Abstract!Spec
-----------------------------------------------------------------------------
(* Division *)

\* Quotient and remainder.
LEMMA Division ==
    ASSUME NEW i \in Nat, NEW q \in Nat \ {0}
    PROVE  /\ i \div q \in Nat /\ i % q \in 0 .. q - 1
           /\ i = q * (i \div q) + (i % q)
  OBVIOUS

\* They are the only ones.
LEMMA Quotient ==
    ASSUME NEW i \in Nat, NEW q \in Nat \ {0}, NEW m \in Nat, NEW r \in 0 .. q - 1,
           i = q * m + r
    PROVE  i \div q = m /\ i % q = r
  OBVIOUS

LEMMA SameParts ==
    ASSUME NEW q \in Nat \ {0}, NEW m \in Nat, NEW n \in Nat,
           NEW r \in 0 .. q - 1, NEW s \in 0 .. q - 1, q * m + r = q * n + s
    PROVE  m = n /\ r = s
  <1> DEFINE i == q * m + r
  <1>1. i \in Nat /\ i = q * m + r /\ i = q * n + s
    OBVIOUS
  <1> HIDE DEF i
  <1>2. i \div q = m /\ i % q = r
    BY <1>1, Quotient
  <1>3. i \div q = n /\ i % q = s
    BY <1>1, Quotient
  <1> QED
    BY <1>2, <1>3

\* Multiples of q.
LEMMA Multiple ==
    ASSUME NEW i \in Nat, NEW q \in Nat \ {0}, NEW m \in Nat, i = q * m
    PROVE  i \div q = m /\ i % q = 0
  <1>1. i = q * m + 0 /\ 0 \in 0 .. q - 1
    OBVIOUS
  <1> QED
    BY <1>1, Quotient
-----------------------------------------------------------------------------
(* Topology expansion *)

\* 1 is the only odd divisor of n.
OddFree(n) == \A d, e \in Nat : n = d * e => d = 1 \/ \E c \in Nat : d = 2 * c

LEMMA Parity == \A x \in Nat : \E c \in Nat : x = 2 * c \/ x = 2 * c + 1
  <1> SUFFICES ASSUME NEW x \in Nat PROVE \E c \in Nat : x = 2 * c \/ x = 2 * c + 1
    OBVIOUS
  <1>1. x \div 2 \in Nat /\ (x = 2 * (x \div 2) \/ x = 2 * (x \div 2) + 1)
    OBVIOUS
  <1> QED
    BY <1>1

\* A number above 1 without odd divisors is even, and so is its half.
LEMMA Halves ==
    ASSUME NEW n \in Nat \ {0}, OddFree(n), n # 1
    PROVE  \E z \in Nat \ {0} : n = 2 * z /\ z < n /\ OddFree(z)
  <1>1. n = n * 1 /\ n \in Nat /\ 1 \in Nat
    OBVIOUS
  <1>2. PICK z \in Nat : n = 2 * z
    BY <1>1 DEF OddFree
  <1>3. z \in Nat \ {0} /\ z < n
    BY <1>2
  <1>4. ASSUME NEW d \in Nat, NEW e \in Nat, z = d * e
        PROVE  d = 1 \/ \E c \in Nat : d = 2 * c
    <2>1. n = d * (2 * e) /\ 2 * e \in Nat
      BY <1>2, <1>4
    <2> QED
      BY <2>1 DEF OddFree
  <1> QED
    BY <1>2, <1>3, <1>4 DEF OddFree

\* If an even number is a product and one factor is odd the other is even.
LEMMA OtherFactorEven ==
    ASSUME NEW z \in Nat, NEW d \in Nat, NEW e \in Nat, 2 * z = d * e,
           ~ \E c \in Nat : d = 2 * c
    PROVE  \E h \in Nat : e = 2 * h /\ z = d * h
  <1>1. PICK c \in Nat : d = 2 * c + 1
    BY Parity
  <1>2. PICK h \in Nat : e = 2 * h \/ e = 2 * h + 1
    BY Parity
  <1>3. e # 2 * h + 1
    <2> SUFFICES ASSUME e = 2 * h + 1 PROVE FALSE
      OBVIOUS
    <2> DEFINE x == 2 * (c * h) + c + h
    <2>1. x \in Nat /\ (2 * c + 1) * (2 * h + 1) = 2 * x + 1
      OBVIOUS
    <2>2. 2 * z = 2 * x + 1
      BY <1>1, <2>1
    <2> HIDE DEF x
    <2> QED
      BY <2>1, <2>2
  <1>4. e = 2 * h
    BY <1>2, <1>3
  <1>5. z = d * h
    BY <1>4
  <1> QED
    BY <1>4, <1>5

\* Twice a number without odd divisors has none.
LEMMA DoubleOddFree ==
    ASSUME NEW n \in Nat, OddFree(n)
    PROVE  OddFree(2 * n)
  <1> SUFFICES ASSUME NEW d \in Nat, NEW e \in Nat, 2 * n = d * e,
                      ~ \E c \in Nat : d = 2 * c
               PROVE  d = 1
    BY DEF OddFree
  <1>1. PICK h \in Nat : e = 2 * h /\ n = d * h
    BY OtherFactorEven, ZenonT(30)
  <1> QED
    BY <1>1 DEF OddFree

\* What _is_power_of_two accepts has no odd divisor.
LEMMA PowersAreOddFree ==
    ASSUME NEW N \in Nat, PowerOfTwo(N)
    PROVE  N \in Nat \ {0} /\ OddFree(N)
  <1> DEFINE F == {x \in Nat \ {0} : OddFree(x)}
             R == [n \in 0 .. N |-> F]
             step == [n \in 1 .. N |-> [x \in Nat |-> 2 * x]]
             Body(g, n) == IF n = 0 THEN 1 ELSE 2 * g[n - 1]
             Eq(g) == g = [n \in 0 .. N |-> Body(g, n)]
             it == CHOOSE g : Eq(g)
  <1>1. 1 \in F
    <2>1. ASSUME NEW d \in Nat, NEW e \in Nat, 1 = d * e PROVE d = 1
      BY <2>1
    <2> QED
      BY <2>1 DEF OddFree
  <1>2. ASSUME NEW x \in F PROVE 2 * x \in F
    <2>1. x \in Nat \ {0} /\ 2 * x \in Nat \ {0}
      OBVIOUS
    <2> QED
      BY <2>1, DoubleOddFree
  <1>3. F \subseteq Nat
    OBVIOUS
  <1>4. \E n \in 0 .. N : N = it[n]
    BY Zenon DEF PowerOfTwo
  <1> HIDE DEF F
  <1>5. \A n \in 0 .. N : R[n] = F
    OBVIOUS
  <1> HIDE DEF R
  <1>6. \A n \in 1 .. N : n - 1 \in 0 .. N /\ n \in 0 .. N /\ n # 0
    OBVIOUS
  <1>7. \A n \in 1 .. N : \A x \in R[n - 1] : step[n][x] = 2 * x /\ step[n][x] \in R[n]
    <2> SUFFICES ASSUME NEW n \in 1 .. N, NEW x \in F PROVE step[n][x] = 2 * x /\ 2 * x \in F
      BY <1>5, <1>6
    <2>1. x \in Nat
      BY <1>3
    <2>2. step[n][x] = 2 * x
      BY <2>1
    <2> QED
      BY <1>2, <2>2
  <1> HIDE DEF step
  <1>8. PICK g : Passes(g, 1, step, N) /\ \A n \in 0 .. N : g[n] \in R[n]
    <2> HIDE DEF Body, Eq, it
    <2>1. 1 \in R[0]
      BY <1>1, <1>5
    <2> QED
      BY <1>7, <2>1, LoopsReach
  <1>9. Eq(g)
    <2>1. ASSUME NEW n \in 0 .. N
          PROVE  (IF n = 0 THEN 1 ELSE step[n][g[n - 1]]) = Body(g, n)
      <3>1. n # 0 => n \in 1 .. N /\ n - 1 \in 0 .. N
        OBVIOUS
      <3> QED
        BY <1>7, <1>8, <3>1
    <2> HIDE DEF Body
    <2>2. [n \in 0 .. N |-> IF n = 0 THEN 1 ELSE step[n][g[n - 1]]]
            = [n \in 0 .. N |-> Body(g, n)]
      BY <2>1
    <2> QED
      BY <1>8, <2>2 DEF Passes
  <1>10. Eq(it)
    BY <1>9
  <1> HIDE DEF it
  <1>11. it[0] \in R[0]
    BY <1>1, <1>5, <1>10
  <1>12. ASSUME NEW n \in 1 .. N, it[n - 1] \in R[n - 1] PROVE it[n] \in R[n]
    <2>1. it[n] = 2 * it[n - 1]
      BY <1>6, <1>10
    <2> QED
      BY <1>2, <1>5, <1>6, <1>12, <2>1
  <1>13. \A n \in 0 .. N : it[n] \in R[n]
    BY <1>11, <1>12, LoopsStay
  <1> QED
    BY <1>4, <1>5, <1>13 DEF F

\* The product of two powers of two is one.
LEMMA ProductOddFree ==
    ASSUME NEW m \in Nat \ {0}, NEW n \in Nat \ {0}, OddFree(m), OddFree(n)
    PROVE  OddFree(m * n)
  <1> DEFINE Bad == {x \in Nat \ {0} : OddFree(x) /\ ~OddFree(x * n)}
  <1> SUFFICES ASSUME Bad # {} PROVE FALSE
    OBVIOUS
  <1>1. PICK x \in Bad : \A y \in Bad : x <= y
    <2>1. Bad \subseteq Nat
      OBVIOUS
    <2> QED
      BY <2>1, LeastElement
  <1>2. x \in Nat \ {0} /\ OddFree(x) /\ ~OddFree(x * n)
    BY <1>1
  <1>3. x # 1
    <2>1. 1 * n = n
      OBVIOUS
    <2> QED
      BY <1>2, <2>1
  <1>4. PICK z \in Nat \ {0} : x = 2 * z /\ z < x /\ OddFree(z)
    BY <1>2, <1>3, Halves
  <1>5. OddFree(z * n)
    BY <1>1, <1>2, <1>4
  <1>6. x * n = 2 * (z * n) /\ z * n \in Nat
    BY <1>4
  <1>7. OddFree(2 * (z * n))
    BY <1>5, <1>6, DoubleOddFree
  <1> QED
    BY <1>2, <1>6, <1>7

\* Of a power of two and a factor of a multiple of it by another power of two
\* one divides the other: an instance fills a node, shares it, or spans some.
LEMMA OneDividesOther ==
    ASSUME NEW tp \in Nat \ {0}, NEW dp \in Nat \ {0}, OddFree(tp), OddFree(dp),
           NEW w \in Nat \ {0}, NEW l \in Nat \ {0}, tp * dp = l * w
    PROVE  \E q \in Nat \ {0} : w = tp * q \/ tp = w * q
  <1> DEFINE Divides(x, y) == \E q \in Nat \ {0} : y = x * q \/ x = y * q
             Bad == {x \in Nat \ {0} :
                       /\ OddFree(x)
                       /\ \E y, k \in Nat \ {0} : x * dp = k * y /\ ~Divides(x, y)}
  <1> SUFFICES ASSUME Bad # {} PROVE FALSE
    <2>1. tp \notin Bad => Divides(tp, w)
      <3> HIDE DEF Divides
      <3> QED
        OBVIOUS
    <2> QED
      BY <2>1
  <1> HIDE DEF Divides
  <1>1. PICK x \in Bad : \A z \in Bad : x <= z
    <2>1. Bad \subseteq Nat
      OBVIOUS
    <2> QED
      BY <2>1, LeastElement
  <1>2. x \in Nat \ {0} /\ OddFree(x)
    BY <1>1
  <1>3. PICK y \in Nat \ {0}, k \in Nat \ {0} : x * dp = k * y /\ ~Divides(x, y)
    BY <1>1
  <1>4. CASE x = 1
    <2>1. y = x * y
      BY <1>4
    <2> QED
      BY <1>3, <2>1 DEF Divides
  <1>5. CASE y = 1
    <2>1. x = y * x
      BY <1>2, <1>5
    <2> QED
      BY <1>2, <1>3, <2>1 DEF Divides
  <1>6. CASE x # 1 /\ y # 1
    <2>1. PICK z \in Nat \ {0} : x = 2 * z /\ z < x /\ OddFree(z)
      BY <1>2, <1>6, Halves
    <2>2. PICK c \in Nat : y = 2 * c
      <3>1. OddFree(x * dp)
        BY <1>2, ProductOddFree
      <3>2. x * dp = y * k
        BY <1>2, <1>3
      <3> QED
        BY <1>6, <3>1, <3>2 DEF OddFree
    <2>3. c \in Nat \ {0} /\ z * dp = k * c
      BY <1>3, <2>1, <2>2
    <2>4. Divides(z, c)
      <3>1. z \notin Bad
        BY <1>1, <1>2, <2>1
      <3> QED
        BY <2>1, <2>3, <3>1
    <2>5. PICK q \in Nat \ {0} : c = z * q \/ z = c * q
      BY <2>4 DEF Divides
    <2>6. y = x * q \/ x = y * q
      BY <2>1, <2>2, <2>5
    <2> QED
      BY <1>3, <2>6 DEF Divides
  <1> QED
    BY <1>4, <1>5, <1>6

\* What Valid makes of the sizes: with P instances to a node that has any, and
\* one such node in S, there are c such nodes, and S nodes carry the ranks of
\* P instances.
Fits(T, D, w, L, P, S, c) ==
    /\ {T, D, w, P, S, c} \subseteq Nat \ {0} /\ L \in Nat
    /\ D = P * c /\ L = S * c
    /\ \/ S = 1 /\ w = T * P
       \/ P = 1 /\ T = w * S

LEMMA ValidFits ==
    ASSUME NEW t \in Deployments, Valid(t)
    PROVE  \E c \in Nat : Fits(t.tp, t.dp, t.world, Len(t.nodes), PerNode(t), Stride(t), c)
  <1> DEFINE T == t.tp
             D == t.dp
             w == t.world
             L == Len(t.nodes)
             P == PerNode(t)
             S == Stride(t)
  <1>1. /\ T \in Nat \ {0} /\ D \in Nat \ {0} /\ w \in Nat \ {0} /\ L \in Nat
        /\ OddFree(T) /\ OddFree(D) /\ T * D = L * w
    <2>1. {T, D, w} \subseteq Nat /\ L \in Nat
      BY PoolAssumption, LenProperties
    <2> QED
      BY <2>1, PowersAreOddFree DEF Valid
  <1>2. /\ P = IF T <= w THEN w \div T ELSE 1
        /\ S = IF T <= w THEN 1 ELSE T \div w
    BY DEF PerNode, Stride
  <1> HIDE DEF T, D, w, L, P, S
  <1>3. L # 0
    <2>1. T * D # 0 /\ 0 * w = 0
      BY <1>1
    <2> QED
      BY <1>1, <2>1
  <1>4. PICK q \in Nat \ {0} : w = T * q \/ T = w * q
    BY <1>1, <1>3, OneDividesOther
  <1>5. CASE T <= w
    <2>1. \E k \in Nat \ {0} : w = T * k
      <3>1. CASE w = T * q
        BY <3>1
      <3>2. CASE T = w * q
        <4>1. q = 1
          BY <1>1, <1>4, <1>5, <3>2
        <4>2. w = T * 1
          BY <1>1, <3>2, <4>1
        <4> QED
          BY <4>2
      <3> QED
        BY <1>4, <3>1, <3>2
    <2>2. PICK k \in Nat \ {0} : w = T * k
      BY <2>1
    <2>3. w \div T = k
      <3>1. w \in Nat /\ T \in Nat \ {0} /\ k \in Nat /\ w = T * k
        BY <1>1, <2>2
      <3> QED
        BY <3>1, Multiple
    <2>4. P = k /\ S = 1
      BY <1>2, <1>5, <2>3
    <2>5. D = P * L
      <3>1. T * D = T * (k * L)
        BY <1>1, <2>2
      <3> QED
        BY <1>1, <2>4, <3>1
    <2>6. Fits(T, D, w, L, P, S, L)
      BY <1>1, <1>3, <2>2, <2>4, <2>5 DEF Fits
    <2> QED
      BY <1>1, <2>6 DEF T, D, w, L, P, S
  <1>6. CASE ~(T <= w)
    <2>1. T = w * q
      <3>1. w # T * q
        BY <1>1, <1>4, <1>6
      <3> QED
        BY <1>4, <3>1
    <2>2. T \div w = q
      <3>1. T \in Nat /\ w \in Nat \ {0} /\ q \in Nat /\ T = w * q
        BY <1>1, <2>1
      <3> QED
        BY <3>1, Multiple
    <2>3. P = 1 /\ S = q
      BY <1>2, <1>6, <2>2
    <2>4. L = S * D
      <3>1. w * (q * D) = w * L
        BY <1>1, <2>1
      <3> QED
        BY <1>1, <2>3, <3>1
    <2>5. Fits(T, D, w, L, P, S, D)
      BY <1>1, <2>1, <2>3, <2>4 DEF Fits
    <2> QED
      BY <1>1, <2>5 DEF T, D, w, L, P, S
  <1> QED
    BY <1>5, <1>6

\* The node of the first rank of the i-th instance: the instances fill one
\* node with instances after the other.
LEMMA FirstRank ==
    ASSUME NEW T, NEW D, NEW w, NEW L, NEW P, NEW S, NEW c,
           Fits(T, D, w, L, P, S, c), NEW i \in 0 .. D - 1
    PROVE  /\ i \div P \in 0 .. c - 1 /\ i % P \in 0 .. P - 1
           /\ i = P * (i \div P) + (i % P)
           /\ (i * T) \div w = S * (i \div P)
           /\ S * (i \div P) \in 0 .. L - 1
  <1>1. /\ T \in Nat \ {0} /\ D \in Nat \ {0} /\ w \in Nat \ {0} /\ L \in Nat
        /\ P \in Nat \ {0} /\ S \in Nat \ {0} /\ c \in Nat \ {0}
        /\ D = P * c /\ L = S * c /\ i \in Nat /\ i < D
    BY DEF Fits
  <1> DEFINE m == i \div P
             r == i % P
  <1>2. m \in Nat /\ r \in 0 .. P - 1 /\ i = P * m + r
    <2>1. P \in Nat \ {0} /\ i \in Nat
      BY <1>1
    <2> QED
      BY <2>1, Division
  <1> HIDE DEF m, r
  <1>3. m < c
    <2> SUFFICES ASSUME c <= m PROVE FALSE
      BY <1>1, <1>2
    <2>1. P * c <= P * m
      BY <1>1, <1>2
    <2> QED
      BY <1>1, <1>2, <2>1
  <1>4. (i * T) \div w = S * m
    <2>1. i * T \in Nat /\ S * m \in Nat
      BY <1>1, <1>2
    <2>2. \A x, y \in Nat : \A z \in 0 .. w - 1 : x = w * y + z => x \div w = y
      <3> SUFFICES ASSUME NEW x \in Nat, NEW y \in Nat, NEW z \in 0 .. w - 1, x = w * y + z
                   PROVE  x \div w = y
        OBVIOUS
      <3>1. w \in Nat \ {0}
        BY <1>1
      <3> QED
        BY <3>1, Quotient
    <2>3. CASE S = 1 /\ w = T * P
      <3>1. i * T = w * (S * m) + T * r
        BY <1>1, <1>2, <2>3
      <3>2. T * r \in 0 .. w - 1
        <4>1. T * r \in Nat
          BY <1>1, <1>2
        <4>2. T * r < T * P
          BY <1>1, <1>2
        <4> QED
          BY <1>1, <2>3, <4>1, <4>2
      <3> QED
        BY <1>1, <2>1, <2>2, <3>1, <3>2
    <2>4. CASE P = 1 /\ T = w * S
      <3>1. i = m
        BY <1>1, <1>2, <2>4
      <3>2. i * T = w * (S * m) + 0 /\ 0 \in 0 .. w - 1
        BY <1>1, <1>2, <2>4, <3>1
      <3> QED
        BY <1>1, <2>1, <2>2, <3>2
    <2> QED
      BY <2>3, <2>4 DEF Fits
  <1>5. S * m \in 0 .. L - 1
    <2>1. S * m \in Nat /\ S * m < S * c
      BY <1>1, <1>2, <1>3
    <2> QED
      BY <1>1, <2>1
  <1> QED
    BY <1>1, <1>2, <1>3, <1>4, <1>5 DEF m, r

\* The instances of one node are consecutive, and numbered there in order.
LEMMA Endpoints ==
    ASSUME NEW t \in Deployments, NEW P, NEW S, NEW c,
           Fits(t.tp, t.dp, t.world, Len(t.nodes), P, S, c), NEW i \in 0 .. t.dp - 1
    PROVE  /\ MainNode(t, i) = S * (i \div P)
           /\ LocalIndex(t, i) = i % P
  <1>1. /\ t.dp \in Nat /\ P \in Nat \ {0} /\ S \in Nat \ {0} /\ i \in Nat
    BY DEF Fits
  <1>2. ASSUME NEW j \in 0 .. t.dp - 1
        PROVE  /\ MainNode(t, j) = S * (j \div P)
               /\ j \div P \in Nat /\ j % P \in 0 .. P - 1
               /\ j = P * (j \div P) + (j % P)
    <2>1. /\ j \div P \in 0 .. c - 1 /\ j % P \in 0 .. P - 1
          /\ j = P * (j \div P) + (j % P)
          /\ (j * t.tp) \div t.world = S * (j \div P)
      BY FirstRank
    <2> QED
      BY <2>1 DEF MainNode
  <1> DEFINE m == i \div P
             r == i % P
             before == {j \in 0 .. i - 1 : MainNode(t, j) = MainNode(t, i)}
  <1>3. m \in Nat /\ r \in 0 .. P - 1 /\ i = P * m + r /\ MainNode(t, i) = S * m
    BY <1>2
  <1> HIDE DEF m, r
  <1>4. P * m \in Nat /\ P * m <= i
    BY <1>1, <1>3
  <1>5. before = P * m .. i - 1
    <2>1. ASSUME NEW j \in 0 .. i - 1
          PROVE  MainNode(t, j) = MainNode(t, i) <=> P * m <= j
      <3> DEFINE k == j \div P
                 s == j % P
      <3>1. j \in 0 .. t.dp - 1 /\ j \in Nat /\ j < i
        BY <1>1
      <3>2. MainNode(t, j) = S * k /\ k \in Nat /\ s \in 0 .. P - 1 /\ j = P * k + s
        BY <1>2, <3>1
      <3> HIDE DEF k, s
      <3>3. S * k = S * m <=> k = m
        BY <1>1, <1>3, <3>2
      <3>4. k = m => P * m <= j
        BY <1>1, <1>3, <3>2
      <3>5. k < m => j < P * m
        <4> SUFFICES ASSUME k < m PROVE j < P * m
          OBVIOUS
        <4>1. P * (k + 1) <= P * m /\ P * (k + 1) = P * k + P
          BY <1>1, <1>3, <3>2
        <4> QED
          BY <1>1, <1>4, <3>2, <4>1
      <3>6. ~(m < k)
        <4> SUFFICES ASSUME m < k PROVE FALSE
          OBVIOUS
        <4>1. P * (m + 1) <= P * k /\ P * (m + 1) = P * m + P
          BY <1>1, <1>3, <3>2
        <4> QED
          BY <1>1, <1>3, <3>1, <3>2, <4>1
      <3> QED
        BY <1>3, <1>4, <3>1, <3>2, <3>3, <3>4, <3>5, <3>6
    <2> QED
      BY <1>1, <1>4, <2>1
  <1>6. Cardinality(P * m .. i - 1) = r
    <2> DEFINE a == P * m
    <2>1. a \in Int /\ i - 1 \in Int /\ a + r = i /\ r \in Nat
      BY <1>1, <1>3, <1>4
    <2> HIDE DEF a
    <2>2. Cardinality(a .. i - 1) = IF a > i - 1 THEN 0 ELSE (i - 1) - a + 1
      BY <2>1, FS_Interval
    <2>3. Cardinality(a .. i - 1) = r
      BY <1>1, <2>1, <2>2
    <2> QED
      BY <2>3 DEF a
  <1>7. LocalIndex(t, i) = Cardinality(before)
    BY DEF LocalIndex
  <1> QED
    BY <1>3, <1>5, <1>6, <1>7 DEF m, r

\* The k-th instance is the one numbered r on the m-th node with instances.
IsAt(t, P, S, k, m, r) ==
    /\ k - 1 = P * m + r /\ S * m + 1 \in DOMAIN t.nodes
    /\ ((k - 1) * t.tp) \div t.world = S * m
    /\ ExpandTopology(t)[k] = <<Host(t.nodes[S * m + 1]), Port(t.nodes[S * m + 1]) + r>>

\* expand_topology, entry by entry.
LEMMA Expanded ==
    ASSUME NEW t \in Deployments, NEW P, NEW S, NEW c,
           Fits(t.tp, t.dp, t.world, Len(t.nodes), P, S, c), NEW k \in 1 .. t.dp
    PROVE  \E m \in 0 .. c - 1, r \in 0 .. P - 1 : IsAt(t, P, S, k, m, r)
  <1>1. t.dp \in Nat /\ k - 1 \in 0 .. t.dp - 1
    BY DEF Fits
  <1> DEFINE i == k - 1
             m == i \div P
             r == i % P
  <1>2. i \in 0 .. t.dp - 1
    BY <1>1
  <1> HIDE DEF i
  <1>3. /\ m \in 0 .. c - 1 /\ r \in 0 .. P - 1 /\ i = P * m + r
        /\ (i * t.tp) \div t.world = S * m /\ S * m \in 0 .. Len(t.nodes) - 1
    BY <1>2, FirstRank
  <1>4. MainNode(t, i) = S * m /\ LocalIndex(t, i) = r
    BY <1>2, Endpoints
  <1>5. ExpandTopology(t)[k] = <<Host(t.nodes[MainNode(t, i) + 1]),
                                 Port(t.nodes[MainNode(t, i) + 1]) + LocalIndex(t, i)>>
    BY <1>1 DEF ExpandTopology, i
  <1> HIDE DEF m, r
  <1>6. S * m + 1 \in DOMAIN t.nodes
    <2>1. Len(t.nodes) \in Nat /\ DOMAIN t.nodes = 1 .. Len(t.nodes)
      BY PoolAssumption, LenProperties
    <2> QED
      BY <1>3, <2>1
  <1>7. ExpandTopology(t)[k] = <<Host(t.nodes[S * m + 1]), Port(t.nodes[S * m + 1]) + r>>
    BY <1>4, <1>5
  <1> QED
    BY <1>3, <1>6, <1>7 DEF i, IsAt

\* No two instances share an endpoint if the nodes' port ranges are disjoint.
LEMMA ExpandedApart ==
    ASSUME NEW t \in Deployments, Valid(t), NodesApart(t)
    PROVE  IsInjective(ExpandTopology(t))
  <1> DEFINE P == PerNode(t)
             S == Stride(t)
             E == ExpandTopology(t)
  <1>1. PICK c \in Nat : Fits(t.tp, t.dp, t.world, Len(t.nodes), P, S, c)
    BY ValidFits
  <1>2. /\ DOMAIN E = 1 .. t.dp /\ t.dp \in Nat
        /\ P \in Nat \ {0} /\ S \in Nat \ {0}
        /\ \A n \in DOMAIN t.nodes : Port(t.nodes[n]) \in Nat
    BY <1>1, PoolAssumption DEF ExpandTopology, Fits, Range
  <1>3. \A m, n \in DOMAIN t.nodes : m # n /\ Host(t.nodes[m]) = Host(t.nodes[n]) =>
           \/ Port(t.nodes[m]) + P <= Port(t.nodes[n])
           \/ Port(t.nodes[n]) + P <= Port(t.nodes[m])
    BY DEF NodesApart
  <1>4. \A k \in 1 .. t.dp : \E m \in 0 .. c - 1, r \in 0 .. P - 1 : IsAt(t, P, S, k, m, r)
    BY <1>1, Expanded
  <1> HIDE DEF P, S, E
  <1>5. ASSUME NEW k \in 1 .. t.dp, NEW l \in 1 .. t.dp, E[k] = E[l] PROVE k = l
    <2>1. PICK m \in 0 .. c - 1, r \in 0 .. P - 1 : IsAt(t, P, S, k, m, r)
      BY <1>4
    <2>2. PICK n \in 0 .. c - 1, s \in 0 .. P - 1 : IsAt(t, P, S, l, n, s)
      BY <1>4
    <2> DEFINE x == S * m + 1
               y == S * n + 1
    <2>3. /\ Host(t.nodes[x]) = Host(t.nodes[y])
          /\ Port(t.nodes[x]) + r = Port(t.nodes[y]) + s
          /\ x \in DOMAIN t.nodes /\ y \in DOMAIN t.nodes
      <3>1. /\ E[k] = <<Host(t.nodes[x]), Port(t.nodes[x]) + r>>
            /\ E[l] = <<Host(t.nodes[y]), Port(t.nodes[y]) + s>>
            /\ x \in DOMAIN t.nodes /\ y \in DOMAIN t.nodes
        BY <2>1, <2>2 DEF IsAt, E
      <3>2. <<Host(t.nodes[x]), Port(t.nodes[x]) + r>> = <<Host(t.nodes[y]), Port(t.nodes[y]) + s>>
        BY <1>5, <3>1
      <3>3. \A a, b, d, e : <<a, b>> = <<d, e>> => a = d /\ b = e
        OBVIOUS
      <3> HIDE DEF x, y
      <3> QED
        BY <3>1, <3>2, <3>3, Zenon
    <2>4. x = y
      <3> HIDE DEF x, y
      <3> SUFFICES ASSUME x # y PROVE FALSE
        OBVIOUS
      <3>1. \/ Port(t.nodes[x]) + P <= Port(t.nodes[y])
            \/ Port(t.nodes[y]) + P <= Port(t.nodes[x])
        BY <1>3, <2>3
      <3>2. Port(t.nodes[x]) \in Nat /\ Port(t.nodes[y]) \in Nat
        BY <1>2, <2>3
      <3>3. r \in Nat /\ s \in Nat /\ r < P /\ s < P /\ P \in Nat
        BY <1>2
      <3> QED
        BY <2>3, <3>1, <3>2, <3>3
    <2>5. m = n
      BY <1>2, <2>4
    <2>6. r = s
      <3>1. Port(t.nodes[x]) \in Nat /\ Port(t.nodes[x]) + r = Port(t.nodes[x]) + s
        BY <1>2, <2>3, <2>4
      <3> HIDE DEF x
      <3> QED
        BY <1>2, <3>1
    <2>7. k - 1 = l - 1
      BY <2>1, <2>2, <2>5, <2>6 DEF IsAt
    <2> QED
      BY <1>2, <2>7
  <1> QED
    BY <1>2, <1>5 DEF IsInjective, E

\* The instances whose first rank is on the n-th node.
StartOn(t, n) == {j \in 1 .. t.dp : (j - 1) * t.tp \in (n - 1) * t.world .. n * t.world - 1}

\* They are those that main_node_index puts there.
LEMMA StartsOn ==
    ASSUME NEW x \in Nat, NEW w \in Nat \ {0}, NEW n \in Nat \ {0}
    PROVE  x \in (n - 1) * w .. n * w - 1 <=> x \div w = n - 1
  <1> DEFINE q == x \div w
             r == x % w
  <1>1. q \in Nat /\ r \in 0 .. w - 1 /\ x = w * q + r
    BY Division
  <1> HIDE DEF q, r
  <1>2. n * w = (n - 1) * w + w /\ (n - 1) * w \in Nat
    OBVIOUS
  <1>3. q = n - 1 => x \in (n - 1) * w .. n * w - 1
    <2> SUFFICES ASSUME q = n - 1 PROVE x \in (n - 1) * w .. n * w - 1
      OBVIOUS
    <2>1. x = (n - 1) * w + r
      BY <1>1
    <2> QED
      BY <1>1, <1>2, <2>1
  <1>4. q < n - 1 => x < (n - 1) * w
    <2> SUFFICES ASSUME q < n - 1 PROVE x < (n - 1) * w
      OBVIOUS
    <2>1. w * (q + 1) <= (n - 1) * w /\ w * (q + 1) = w * q + w
      BY <1>1
    <2> QED
      BY <1>1, <1>2, <2>1
  <1>5. n - 1 < q => n * w <= x
    <2> SUFFICES ASSUME n - 1 < q PROVE n * w <= x
      OBVIOUS
    <2>1. n * w <= w * q
      BY <1>1
    <2> QED
      BY <1>1, <1>2, <2>1
  <1>6. q = n - 1 \/ q < n - 1 \/ n - 1 < q
    BY <1>1
  <1>7. x \in (n - 1) * w .. n * w - 1 => (n - 1) * w <= x /\ ~(n * w <= x)
    BY <1>2
  <1> QED
    BY <1>1, <1>2, <1>3, <1>4, <1>5, <1>6, <1>7 DEF q

\* The endpoints of the instances of a node are those its range reserves.
LEMMA ExpandedOn ==
    ASSUME NEW t \in Deployments, Valid(t), NEW n \in DOMAIN t.nodes
    PROVE  {ExpandTopology(t)[i] : i \in StartOn(t, n)}
             = IF (n - 1) % Stride(t) = 0
                 THEN {<<Host(t.nodes[n]), Port(t.nodes[n]) + j>> : j \in 0 .. PerNode(t) - 1}
                 ELSE {}
  <1> DEFINE P == PerNode(t)
             S == Stride(t)
             E == ExpandTopology(t)
             A == {E[i] : i \in StartOn(t, n)}
             B == {<<Host(t.nodes[n]), Port(t.nodes[n]) + j>> : j \in 0 .. P - 1}
  <1>1. PICK c \in Nat : Fits(t.tp, t.dp, t.world, Len(t.nodes), P, S, c)
    BY ValidFits
  <1>2. /\ t.tp \in Nat /\ t.dp \in Nat /\ t.world \in Nat \ {0}
        /\ P \in Nat \ {0} /\ S \in Nat \ {0}
        /\ t.dp = P * c /\ Len(t.nodes) = S * c
    BY <1>1 DEF Fits
  <1>3. n \in Nat \ {0} /\ n <= S * c
    <2>1. Len(t.nodes) \in Nat /\ DOMAIN t.nodes = 1 .. Len(t.nodes)
      BY PoolAssumption, LenProperties
    <2> QED
      BY <1>2, <2>1
  <1>4. \A k \in 1 .. t.dp : \E m \in 0 .. c - 1, r \in 0 .. P - 1 : IsAt(t, P, S, k, m, r)
    BY <1>1, Expanded
  <1> HIDE DEF P, S, E
  <1>5. ASSUME NEW k \in 1 .. t.dp, NEW m \in 0 .. c - 1, NEW r \in 0 .. P - 1,
               IsAt(t, P, S, k, m, r)
        PROVE  /\ k \in StartOn(t, n) <=> S * m = n - 1
               /\ S * m = n - 1 => E[k] = <<Host(t.nodes[n]), Port(t.nodes[n]) + r>>
    <2> DEFINE x == (k - 1) * t.tp
    <2>1. x \in Nat
      BY <1>2
    <2>2. x \div t.world = S * m
      BY <1>5 DEF IsAt
    <2>3. k \in StartOn(t, n) <=> x \in (n - 1) * t.world .. n * t.world - 1
      BY DEF StartOn
    <2> HIDE DEF x
    <2>4. k \in StartOn(t, n) <=> S * m = n - 1
      <3>1. t.world \in Nat \ {0} /\ n \in Nat \ {0}
        BY <1>2, <1>3
      <3>2. x \in (n - 1) * t.world .. n * t.world - 1 <=> x \div t.world = n - 1
        BY <2>1, <3>1, StartsOn
      <3> QED
        BY <2>2, <2>3, <3>2
    <2>5. S * m = n - 1 => S * m + 1 = n
      BY <1>3
    <2>6. E[k] = <<Host(t.nodes[S * m + 1]), Port(t.nodes[S * m + 1]) + r>>
      BY <1>5 DEF IsAt, E
    <2> QED
      BY <2>4, <2>5, <2>6
  <1>6. CASE (n - 1) % S = 0
    <2> DEFINE h == (n - 1) \div S
    <2>1. h \in Nat /\ n - 1 = S * h
      <3>1. n - 1 \in Nat
        BY <1>3
      <3>2. h \in Nat /\ n - 1 = S * h + ((n - 1) % S)
        <4>1. S \in Nat \ {0}
          BY <1>2
        <4> QED
          BY <3>1, <4>1, Division
      <3> HIDE DEF h
      <3> QED
        BY <1>2, <1>6, <3>2
    <2> HIDE DEF h
    <2>2. h < c
      <3> SUFFICES ASSUME c <= h PROVE FALSE
        BY <2>1
      <3>1. S * c <= S * h
        BY <1>2, <2>1
      <3> QED
        BY <1>2, <1>3, <2>1, <3>1
    <2>3. S * h = n - 1
      BY <2>1
    <2>4. ASSUME NEW k \in StartOn(t, n) PROVE E[k] \in B
      <3>1. k \in 1 .. t.dp
        BY DEF StartOn
      <3>2. PICK m \in 0 .. c - 1, r \in 0 .. P - 1 : IsAt(t, P, S, k, m, r)
        BY <1>4, <3>1
      <3>3. E[k] = <<Host(t.nodes[n]), Port(t.nodes[n]) + r>>
        BY <1>5, <2>4, <3>1, <3>2
      <3> QED
        BY <3>3
    <2>5. ASSUME NEW j \in 0 .. P - 1
          PROVE  \E k \in StartOn(t, n) : E[k] = <<Host(t.nodes[n]), Port(t.nodes[n]) + j>>
      <3> DEFINE k == P * h + j + 1
      <3>1. k \in 1 .. t.dp
        <4>1. P * (h + 1) <= P * c /\ P * (h + 1) = P * h + P /\ P * h \in Nat
          BY <1>2, <2>1, <2>2
        <4> QED
          BY <1>2, <4>1
      <3>2. PICK m \in 0 .. c - 1, r \in 0 .. P - 1 : IsAt(t, P, S, k, m, r)
        BY <1>4, <3>1
      <3>3. P * h + j = P * m + r
        <4>1. k - 1 = P * m + r
          BY <3>2 DEF IsAt
        <4>2. k - 1 = P * h + j
          BY <1>2, <2>1
        <4> HIDE DEF k
        <4> QED
          BY <4>1, <4>2
      <3>4. m = h /\ r = j
        <4>1. P \in Nat \ {0} /\ h \in Nat /\ m \in Nat
          BY <1>2, <2>1
        <4> HIDE DEF k
        <4> QED
          BY <3>3, <4>1, SameParts
      <3> HIDE DEF k
      <3>5. S * m = n - 1
        BY <2>3, <3>4
      <3>6. k \in StartOn(t, n) /\ E[k] = <<Host(t.nodes[n]), Port(t.nodes[n]) + r>>
        BY <1>5, <3>1, <3>2, <3>5
      <3> QED
        BY <3>4, <3>6
    <2>6. A = B
      BY <2>4, <2>5
    <2> QED
      BY <1>6, <2>6 DEF P, S, E
  <1>7. CASE (n - 1) % S # 0
    <2>1. ASSUME NEW k \in StartOn(t, n) PROVE FALSE
      <3>1. k \in 1 .. t.dp
        BY DEF StartOn
      <3>2. PICK m \in 0 .. c - 1, r \in 0 .. P - 1 : IsAt(t, P, S, k, m, r)
        BY <1>4, <3>1
      <3>3. S * m = n - 1
        BY <1>5, <2>1, <3>1, <3>2
      <3>4. (n - 1) % S = 0
        <4> DEFINE y == n - 1
        <4>1. y \in Nat /\ S \in Nat \ {0} /\ m \in Nat /\ y = S * m
          BY <1>2, <1>3, <3>2, <3>3
        <4> HIDE DEF y
        <4>2. y % S = 0
          BY <4>1, Multiple
        <4> QED
          BY <4>2 DEF y
      <3> QED
        BY <1>7, <3>4
    <2>2. A = {}
      BY <2>1
    <2> QED
      BY <1>7, <2>2 DEF P, S, E
  <1> QED
    BY <1>6, <1>7

\* The deployment was validated and stays as it is.
Deployed == topology \in {t \in Deployments : Valid(t)} \cup {NoTopology}

\* ExpansionSound: whatever the node list and the sizes that
\* validate_topology accepts, expand_topology puts on every node the instances
\* whose first rank is there, on consecutive ports from its base port, and no
\* two share an endpoint if the port ranges of the nodes are disjoint.
THEOREM ExpansionAlwaysSound == Spec => []ExpansionSound
  <1>1. Init => Deployed
    BY DEF Init, Deployed
  <1>2. Deployed /\ [Next]_vars => Deployed'
    <2> SUFFICES ASSUME Deployed, [Next]_vars PROVE Deployed'
      OBVIOUS
    <2>1. topology' = topology
      BY DEF Next, vars, Refuse, Serve, Complete, Leave, AvailabilityChanges, Join, Downgrade
    <2> QED
      BY <2>1 DEF Deployed
  <1>3. Deployed => ExpansionSound
    <2> SUFFICES ASSUME Deployed, topology # NoTopology PROVE ExpansionSound
      BY DEF ExpansionSound
    <2>1. topology \in Deployments /\ Valid(topology)
      BY DEF Deployed
    <2>2. NodesApart(topology) => IsInjective(ExpandTopology(topology))
      BY <2>1, ExpandedApart
    <2>3. ASSUME NEW n \in DOMAIN topology.nodes
          PROVE  {ExpandTopology(topology)[i] : i \in StartOn(topology, n)}
                   = IF (n - 1) % Stride(topology) = 0
                       THEN {<<Host(topology.nodes[n]), Port(topology.nodes[n]) + j>> :
                                j \in 0 .. PerNode(topology) - 1}
                       ELSE {}
      BY <2>1, ExpandedOn
    <2> QED
      BY <2>2, <2>3, Zenon DEF ExpansionSound, StartOn
  <1> QED
    BY <1>1, <1>2, <1>3, PTL DEF Spec
=============================================================================
