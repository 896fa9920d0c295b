---------------------------- MODULE TableLemmas -----------------------------
(***************************************************************************)
(* Lemmas about the bounded tables of the code: the slot that a search     *)
(* from the front finds, how many entries or handles there can be, what is *)
(* left of an array that is compacted, and where the entries of a sequence *)
(* flattened into one come from.                                           *)
(***************************************************************************)
EXTENDS Naturals, Sequences, SequencesExt, SequenceFilter, FiniteSetsExt,
        WellFoundedInduction, FiniteSetTheorems, SequenceTheorems, TLAPS

\* A finite set of naturals has a least element: the smallest of its initial parts
\* has one element.
LEMMA MinIsLeast ==
  ASSUME NEW S \in SUBSET Nat, S # {}, IsFiniteSet(S)
  PROVE  Min(S) \in S /\ \A n \in S : Min(S) <= n
<1> DEFINE UpTo(k) == {j \in S : j <= k}
           Parts == {UpTo(k) : k \in S}
<1>1. Parts \subseteq FiniteSubsetsOf(S) /\ Parts # {}
  <2>1. \A k \in S : UpTo(k) \in FiniteSubsetsOf(S)
    BY FS_Subset DEF FiniteSubsetsOf
  <2> QED
    BY <2>1
<1>2. PICK P \in Parts : \A Q \in Parts : <<Q, P>> \notin StrictSubsetOrdering(S)
  <2> HIDE DEF Parts
  <2> QED
    BY <1>1, FS_StrictSubsetOrderingWellFounded, WFMin
<1>3. PICK m \in S : P = UpTo(m)
  BY <1>2
<1>4. ASSUME NEW n \in S PROVE m <= n
  <2>1. SUFFICES ASSUME ~(m <= n) PROVE FALSE
    OBVIOUS
  <2>2. UpTo(n) \in Parts /\ <<UpTo(n), P>> \notin StrictSubsetOrdering(S)
    BY <1>2
  <2>3. m \in UpTo(m) /\ m \notin UpTo(n)
    BY <2>1
  <2>4. UpTo(n) \subseteq UpTo(m)
    <3>1. m \in Nat /\ n \in Nat /\ n <= m
      BY <2>1
    <3>2. \A j \in S : j \in Nat
      OBVIOUS
    <3>3. \A j \in S : j <= n => j <= m
      BY <3>1, <3>2
    <3> QED
      BY <3>3
  <2> QED
    BY <1>3, <2>2, <2>3, <2>4 DEF StrictSubsetOrdering
<1> QED
  BY <1>4 DEF Min

-----------------------------------------------------------------------------
(* Entries that are told apart by a slot are no more than the slots. *)
LEMMA OneEntryPerSlot ==
    ASSUME NEW n \in Nat, NEW m \in Nat, NEW f \in [1..n -> 1..m],
           \A i, j \in 1..n : f[i] = f[j] => i = j
    PROVE  n <= m
<1>1. f \in Injection(1..n, 1..m)
  BY DEF Injection, IsInjective
<1>2. IsFiniteSet(1..m) /\ Cardinality(1..n) = n /\ Cardinality(1..m) = m
  BY FS_Interval
<1> QED
  BY <1>1, <1>2, FS_Injection

(* Each slot gives out each of its generations once. *)
LEMMA OneEntryPerGeneration ==
    ASSUME NEW n \in Nat, NEW a \in Nat, NEW b \in Nat,
           NEW f \in [1..n -> [index: 1..a, generation: 1..b]],
           \A i, j \in 1..n : f[i] = f[j] => i = j
    PROVE  n <= a * b
<1> DEFINE g == [i \in 1..n |-> <<f[i].index, f[i].generation>>]
<1>1. g \in Injection(1..n, (1..a) \X (1..b))
  <2>1. g \in [1..n -> (1..a) \X (1..b)]
    OBVIOUS
  <2>2. ASSUME NEW i \in 1..n, NEW j \in 1..n, g[i] = g[j] PROVE i = j
    <3>1. f[i].index = f[j].index /\ f[i].generation = f[j].generation
      BY <2>2
    <3>2. \A e \in [index: 1..a, generation: 1..b] :
             e = [index |-> e.index, generation |-> e.generation]
      OBVIOUS
    <3>3. f[i] \in [index: 1..a, generation: 1..b] /\ f[j] \in [index: 1..a, generation: 1..b]
      OBVIOUS
    <3> HIDE DEF g
    <3>4. f[i] = f[j]
      BY <3>1, <3>2, <3>3
    <3> QED
      BY <3>4
  <2> QED
    BY <2>1, <2>2 DEF Injection, IsInjective
<1>2. /\ IsFiniteSet(1..a) /\ IsFiniteSet(1..b)
      /\ Cardinality(1..n) = n /\ Cardinality(1..a) = a /\ Cardinality(1..b) = b
  BY FS_Interval
<1>3. /\ IsFiniteSet((1..a) \X (1..b))
      /\ Cardinality((1..a) \X (1..b)) = a * b
  <2> DEFINE A == 1..a
             B == 1..b
  <2>1. IsFiniteSet(A) /\ IsFiniteSet(B) /\ Cardinality(A) = a /\ Cardinality(B) = b
    BY <1>2
  <2> HIDE DEF A, B
  <2>2. IsFiniteSet(A \X B) /\ Cardinality(A \X B) = Cardinality(A) * Cardinality(B)
    BY <2>1, FS_Product
  <2>3. IsFiniteSet(A \X B) /\ Cardinality(A \X B) = a * b
    BY <2>1, <2>2, Zenon
  <2> QED
    BY <2>3 DEF A, B
<1> HIDE DEF g
<1>4. Cardinality(1..n) <= Cardinality((1..a) \X (1..b))
  BY <1>1, <1>3, FS_Injection
<1> QED
  BY <1>2, <1>3, <1>4

-----------------------------------------------------------------------------
(* Arrays as sequences: their entries, a change of one and an addition. *)
LEMMA EntriesOf ==
    ASSUME NEW S, NEW q \in Seq(S)
    PROVE  /\ Len(q) \in Nat /\ DOMAIN q = 1..Len(q)
           /\ \A i \in 1..Len(q) : q[i] \in S
  OBVIOUS

LEMMA EntryChanged ==
    ASSUME NEW S, NEW q \in Seq(S), NEW i \in DOMAIN q, NEW e \in S
    PROVE  /\ [q EXCEPT ![i] = e] \in Seq(S)
           /\ Len([q EXCEPT ![i] = e]) = Len(q)
           /\ DOMAIN [q EXCEPT ![i] = e] = DOMAIN q
           /\ [q EXCEPT ![i] = e][i] = e
           /\ \A j \in DOMAIN q : j # i => [q EXCEPT ![i] = e][j] = q[j]
<1> DEFINE r == [q EXCEPT ![i] = e]
<1>1. DOMAIN r = 1..Len(q) /\ Len(q) \in Nat /\ \A j \in 1..Len(q) : r[j] \in S
  OBVIOUS
<1>2. r = [j \in 1..Len(q) |-> r[j]]
  BY <1>1
<1> HIDE DEF r
<1>3. r \in Seq(S) /\ Len(r) = Len(q)
  BY <1>1, <1>2
<1> QED
  BY <1>1, <1>3 DEF r

LEMMA EntryAdded ==
    ASSUME NEW S, NEW q \in Seq(S), NEW e \in S
    PROVE  /\ Append(q, e) \in Seq(S)
           /\ Len(Append(q, e)) = Len(q) + 1
           /\ DOMAIN Append(q, e) = DOMAIN q \cup {Len(q) + 1}
           /\ Append(q, e)[Len(q) + 1] = e
           /\ \A j \in DOMAIN q : Append(q, e)[j] = q[j]
  OBVIOUS

LEMMA EntryTaken ==
    ASSUME NEW S, NEW q \in Seq(S), q # <<>>
    PROVE  /\ Tail(q) \in Seq(S) /\ Head(q) = q[1] /\ 1 \in DOMAIN q
           /\ Len(Tail(q)) = Len(q) - 1
           /\ \A j \in 1..Len(Tail(q)) : j + 1 \in DOMAIN q /\ Tail(q)[j] = q[j + 1]
  OBVIOUS

-----------------------------------------------------------------------------
(* Counting the kept entries goes up by one at each of them. *)
LEMMA Counting ==
    ASSUME NEW s, NEW keep, NEW i \in Nat
    PROVE  /\ CountKept(s, keep, 0) = 0
           /\ CountKept(s, keep, i) \in Nat
           /\ s[i + 1] \in keep => CountKept(s, keep, i + 1) = CountKept(s, keep, i) + 1
           /\ s[i + 1] \notin keep => CountKept(s, keep, i + 1) = CountKept(s, keep, i)
<1> DEFINE upTo(k) == {j \in 1..k : s[j] \in keep}
<1>1. ASSUME NEW k \in Nat PROVE IsFiniteSet(upTo(k)) /\ Cardinality(upTo(k)) \in Nat
  <2>1. IsFiniteSet(1..k) /\ upTo(k) \in SUBSET (1..k)
    BY FS_Interval
  <2> QED
    BY <2>1, FS_Subset, FS_CardinalityType
<1>2. upTo(0) = {} /\ Cardinality({}) = 0
  BY FS_EmptySet
<1>3. CASE s[i + 1] \in keep
  <2>1. upTo(i + 1) = upTo(i) \cup {i + 1} /\ i + 1 \notin upTo(i)
    BY <1>3
  <2> HIDE DEF upTo
  <2>2. Cardinality(upTo(i + 1)) = Cardinality(upTo(i)) + 1
    BY <1>1, <2>1, FS_AddElement
  <2> QED
    BY <1>1, <1>2, <1>3, <2>2 DEF CountKept, upTo
<1>4. CASE s[i + 1] \notin keep
  <2>1. upTo(i + 1) = upTo(i)
    BY <1>4
  <2> QED
    BY <1>1, <1>2, <1>4, <2>1 DEF CountKept
<1> QED
  BY <1>3, <1>4

(* It never goes down. *)
LEMMA CountingGrows ==
    ASSUME NEW s, NEW keep, NEW i \in Nat, NEW j \in Nat, i <= j
    PROVE  CountKept(s, keep, i) <= CountKept(s, keep, j)
<1> DEFINE upTo(k) == {p \in 1..k : s[p] \in keep}
<1>1. IsFiniteSet(1..j) /\ upTo(j) \in SUBSET (1..j) /\ upTo(i) \in SUBSET upTo(j)
  BY FS_Interval
<1>2. IsFiniteSet(upTo(j))
  BY <1>1, FS_Subset
<1>3. Cardinality(upTo(i)) <= Cardinality(upTo(j))
  <2> HIDE DEF upTo
  <2> QED
    BY <1>1, <1>2, FS_Subset
<1> QED
  BY <1>3 DEF CountKept

(* No two kept entries have the same count. *)
LEMMA CountsDiffer ==
    ASSUME NEW s, NEW keep, NEW i \in Nat \ {0}, NEW j \in Nat \ {0},
           s[i] \in keep, s[j] \in keep, i < j
    PROVE  CountKept(s, keep, i) < CountKept(s, keep, j)
<1>1. j - 1 \in Nat /\ i <= j - 1 /\ (j - 1) + 1 = j
  OBVIOUS
<1>2. CountKept(s, keep, i) <= CountKept(s, keep, j - 1)
  BY <1>1, CountingGrows
<1>3. CountKept(s, keep, j) = CountKept(s, keep, j - 1) + 1
  BY <1>1, Counting
<1>4. CountKept(s, keep, i) \in Nat /\ CountKept(s, keep, j - 1) \in Nat
  BY <1>1, Counting
<1> QED
  BY <1>2, <1>3, <1>4

LEMMA PlacesDiffer ==
    ASSUME NEW s, NEW keep, NEW i \in Nat \ {0}, NEW j \in Nat \ {0},
           s[i] \in keep, s[j] \in keep, CountKept(s, keep, i) = CountKept(s, keep, j)
    PROVE  i = j
<1>1. CountKept(s, keep, i) \in Nat /\ CountKept(s, keep, j) \in Nat
  BY Counting
<1>2. ~(i < j) /\ ~(j < i)
  BY <1>1, CountsDiffer
<1> QED
  BY <1>2

(* The k-th of the kept entries is there: the first whose count reaches k. *)
LEMMA PlacesAre ==
    ASSUME NEW s, Len(s) \in Nat, NEW keep, NEW k \in 1..CountKept(s, keep, Len(s))
    PROVE  /\ PlaceOf(s, keep, k) \in 1..Len(s)
           /\ s[PlaceOf(s, keep, k)] \in keep
           /\ CountKept(s, keep, PlaceOf(s, keep, k)) = k
<1> DEFINE n == Len(s)
           C(i) == CountKept(s, keep, i)
           Reached == {i \in 1..n : C(i) >= k}
<1>1. \A i \in Nat : C(i) \in Nat
  BY Counting
<1>2. C(0) = 0 /\ n \in Nat /\ C(n) >= k /\ k \in Nat /\ k >= 1
  BY <1>1, Counting
<1>3. n \in Reached
  BY <1>2
<1>4. Reached \in SUBSET Nat /\ IsFiniteSet(Reached)
  <2>1. IsFiniteSet(1..n) /\ Reached \in SUBSET (1..n)
    BY <1>2, FS_Interval
  <2> QED
    BY <2>1, FS_Subset
<1>5. PICK i \in Reached : \A j \in Reached : i <= j
  <2> HIDE DEF Reached
  <2> QED
    BY <1>3, <1>4, MinIsLeast
<1>6. i \in 1..n /\ i - 1 \in Nat /\ (i - 1) + 1 = i /\ C(i) >= k
  BY <1>2
<1>7. C(i - 1) < k
  <2>1. CASE i = 1
    BY <2>1, <1>2
  <2>2. CASE i # 1
    <3>1. i - 1 \in 1..n /\ i - 1 \notin Reached
      BY <2>2, <1>2, <1>5, <1>6
    <3> QED
      BY <3>1, <1>1, <1>2, <1>6
  <2> QED
    BY <2>1, <2>2
<1>8. (s[i] \in keep => C(i) = C(i - 1) + 1) /\ (s[i] \notin keep => C(i) = C(i - 1))
  <2>1. \A j \in Nat : /\ s[j + 1] \in keep => C(j + 1) = C(j) + 1
                       /\ s[j + 1] \notin keep => C(j + 1) = C(j)
    BY Counting
  <2> HIDE DEF C
  <2> QED
    BY <1>6, <2>1
<1>9. s[i] \in keep /\ C(i) = k
  <2>1. C(i) \in Nat /\ C(i - 1) \in Nat /\ k \in Nat /\ C(i - 1) < k /\ C(i) >= k
    BY <1>1, <1>2, <1>6, <1>7
  <2> HIDE DEF C
  <2> QED
    BY <2>1, <1>8
<1>10. \E j \in 1..Len(s) : s[j] \in keep /\ CountKept(s, keep, j) = k
  BY <1>6, <1>9
<1> QED
  BY <1>10 DEF PlaceOf

(***************************************************************************)
(* What is kept is there, in the order in which it was, and nothing else.  *)
(***************************************************************************)
LEMMA KeptIs ==
    ASSUME NEW S, NEW s \in Seq(S), NEW keep
    PROVE  /\ Kept(s, keep) \in Seq(S)
           /\ Len(Kept(s, keep)) = CountKept(s, keep, Len(s))
           /\ \A k \in 1..Len(Kept(s, keep)) :
                /\ PlaceOf(s, keep, k) \in 1..Len(s)
                /\ s[PlaceOf(s, keep, k)] \in keep
                /\ Kept(s, keep)[k] = s[PlaceOf(s, keep, k)]
           /\ \A k, l \in 1..Len(Kept(s, keep)) :
                k < l => PlaceOf(s, keep, k) < PlaceOf(s, keep, l)
           /\ \A i \in 1..Len(s) : s[i] \in keep =>
                \E k \in 1..Len(Kept(s, keep)) : PlaceOf(s, keep, k) = i
<1> DEFINE m == CountKept(s, keep, Len(s))
           p(k) == PlaceOf(s, keep, k)
<1>1. Len(s) \in Nat /\ m \in Nat
  BY Counting
<1>2. \A k \in 1..m : p(k) \in 1..Len(s) /\ s[p(k)] \in keep /\ CountKept(s, keep, p(k)) = k
  BY <1>1, PlacesAre
<1> HIDE DEF p
<1>3. Kept(s, keep) = [k \in 1..m |-> s[p(k)]]
  BY DEF Kept, p
<1> HIDE DEF m
<1>4. \A k \in 1..m : s[p(k)] \in S
  BY <1>2
<1>5. Kept(s, keep) \in Seq(S) /\ Len(Kept(s, keep)) = m
  BY <1>1, <1>3, <1>4
<1>6. ASSUME NEW k \in 1..m, NEW l \in 1..m, k < l PROVE p(k) < p(l)
  <2>1. /\ p(k) \in Nat /\ p(l) \in Nat
        /\ CountKept(s, keep, p(k)) = k /\ CountKept(s, keep, p(l)) = l
    BY <1>2
  <2>2. ~(p(l) <= p(k))
    BY <2>1, <1>6, <1>1, CountingGrows
  <2> QED
    BY <2>1, <2>2
<1>7. ASSUME NEW i \in 1..Len(s), s[i] \in keep PROVE \E k \in 1..m : p(k) = i
  <2> DEFINE k == CountKept(s, keep, i)
  <2>1. k \in Nat /\ CountKept(s, keep, 0) = 0
    BY Counting
  <2>2. k <= m
    BY <1>1, CountingGrows DEF m
  <2>3. k >= 1
    <3>1. i - 1 \in Nat /\ (i - 1) + 1 = i
      OBVIOUS
    <3>2. CountKept(s, keep, i) = CountKept(s, keep, i - 1) + 1 /\ CountKept(s, keep, i - 1) \in Nat
      BY <3>1, <1>7, Counting
    <3> QED
      BY <3>2
  <2>4. k \in 1..m
    BY <1>1, <2>1, <2>2, <2>3
  <2>5. p(k) \in Nat \ {0} /\ s[p(k)] \in keep /\ CountKept(s, keep, p(k)) = k
    BY <1>2, <2>4
  <2>6. p(k) = i
    BY <1>7, <2>5, PlacesDiffer
  <2> QED
    BY <2>4, <2>6
<1> QED
  <2>1. \A k \in 1..m : Kept(s, keep)[k] = s[p(k)]
    BY <1>3
  <2> QED
    BY <1>2, <1>5, <1>6, <1>7, <2>1 DEF p, m

(* The entries of t are those of s that are kept, from places that go up. *)
AreTheKept(t, p, s, keep) ==
    /\ p \in [1..Len(t) -> 1..Len(s)]
    /\ \A k, l \in 1..Len(t) : k < l => p[k] < p[l]
    /\ \A k \in 1..Len(t) : s[p[k]] \in keep /\ t[k] = s[p[k]]
    /\ \A i \in 1..Len(s) : s[i] \in keep => \E k \in 1..Len(t) : p[k] = i

(* And it is the only sequence that is. *)
LEMMA KeptFromPlaces ==
    ASSUME NEW S, NEW s \in Seq(S), NEW keep, NEW t \in Seq(S), NEW p,
           AreTheKept(t, p, s, keep)
    PROVE  t = Kept(s, keep)
<1> USE DEF AreTheKept
<1> DEFINE m == Len(t)
           n == Len(s)
           upTo(i) == {j \in 1..i : s[j] \in keep}
<1>1. m \in Nat /\ n \in Nat /\ \A k \in 1..m : p[k] \in Nat
  OBVIOUS
<1>2. ASSUME NEW l \in 0..m, NEW i \in 0..n,
             \A k \in 1..m : p[k] <= i <=> k <= l
      PROVE  CountKept(s, keep, i) = l
  <2> DEFINE q == [k \in 1..l |-> p[k]]
  <2>1. \A k \in 1..l : k \in 1..m /\ p[k] \in upTo(i)
    BY <1>1, <1>2
  <2>2. \A j \in upTo(i) : \E k \in 1..l : p[k] = j
    <3> TAKE j \in upTo(i)
    <3>1. j \in 1..n /\ s[j] \in keep /\ j <= i
      BY <1>1
    <3>2. PICK k \in 1..m : p[k] = j
      BY <3>1
    <3> QED
      BY <1>1, <1>2, <3>1, <3>2
  <2>3. \A k1, k2 \in 1..l : p[k1] = p[k2] => k1 = k2
    <3> TAKE k1, k2 \in 1..l
    <3>1. k1 \in 1..m /\ k2 \in 1..m /\ p[k1] \in Nat /\ p[k2] \in Nat
      BY <1>1, <2>1
    <3>2. (k1 < k2 => p[k1] < p[k2]) /\ (k2 < k1 => p[k2] < p[k1])
      BY <3>1
    <3> QED
      BY <1>1, <3>1, <3>2
  <2> HIDE DEF upTo
  <2>4. q \in Bijection(1..l, upTo(i))
    BY <2>1, <2>2, <2>3 DEF Bijection, Injection, Surjection, IsInjective
  <2>5. ExistsBijection(1..l, upTo(i))
    BY <2>4 DEF ExistsBijection
  <2>6. Cardinality(upTo(i)) = l
    BY <1>1, <2>5, FS_CountingElements
  <2> QED
    BY <2>6 DEF CountKept, upTo
<1>3. CountKept(s, keep, n) = m
  <2>1. \A k \in 1..m : p[k] <= n <=> k <= m
    BY <1>1
  <2>2. m \in 0..m /\ n \in 0..n
    BY <1>1
  <2> HIDE DEF m, n
  <2> QED
    BY <1>2, <2>1, <2>2
<1>4. ASSUME NEW l \in 1..m PROVE PlaceOf(s, keep, l) = p[l]
  <2>1. \A k \in 1..m : p[k] <= p[l] <=> k <= l
    <3> TAKE k \in 1..m
    <3>1. /\ p[k] \in Nat /\ p[l] \in Nat
          /\ k < l => p[k] < p[l]
          /\ l < k => p[l] < p[k]
      BY <1>1
    <3> QED
      BY <1>1, <3>1
  <2>2. CountKept(s, keep, p[l]) = l
    <3>1. l \in 0..m /\ p[l] \in 0..n
      BY <1>1
    <3> QED
      BY <1>2, <2>1, <3>1
  <2>3. /\ PlaceOf(s, keep, l) \in 1..n /\ s[PlaceOf(s, keep, l)] \in keep
        /\ CountKept(s, keep, PlaceOf(s, keep, l)) = l
    BY <1>1, <1>3, PlacesAre
  <2>4. PlaceOf(s, keep, l) \in Nat \ {0} /\ p[l] \in Nat \ {0} /\ s[p[l]] \in keep
    BY <1>1, <2>3
  <2> QED
    BY <2>2, <2>3, <2>4, PlacesDiffer
<1>5. Kept(s, keep) = [k \in 1..m |-> s[p[k]]]
  BY <1>3, <1>4 DEF Kept
<1>6. t = [k \in 1..m |-> t[k]]
  OBVIOUS
<1> QED
  BY <1>5, <1>6

(* Where everything is kept, nothing changes. *)
LEMMA KeptAll ==
    ASSUME NEW S, NEW s \in Seq(S), NEW keep, \A i \in 1..Len(s) : s[i] \in keep
    PROVE  Kept(s, keep) = s
<1> DEFINE p == [k \in 1..Len(s) |-> k]
<1>1. AreTheKept(s, p, s, keep)
  BY DEF AreTheKept
<1> HIDE DEF p
<1> QED
  BY <1>1, KeptFromPlaces

(* Keeping twice is keeping what both keep. *)
LEMMA KeptTwice ==
    ASSUME NEW S, NEW s \in Seq(S), NEW keep, NEW too
    PROVE  Kept(Kept(s, keep), too) = Kept(s, keep \cap too)
<1> DEFINE t == Kept(s, keep)
           u == Kept(t, too)
           p == [k \in 1..Len(u) |-> PlaceOf(s, keep, PlaceOf(t, too, k))]
<1>1. /\ t \in Seq(S)
      /\ \A k \in 1..Len(t) :
            /\ PlaceOf(s, keep, k) \in 1..Len(s)
            /\ s[PlaceOf(s, keep, k)] \in keep
            /\ t[k] = s[PlaceOf(s, keep, k)]
      /\ \A k, l \in 1..Len(t) : k < l => PlaceOf(s, keep, k) < PlaceOf(s, keep, l)
      /\ \A i \in 1..Len(s) : s[i] \in keep => \E k \in 1..Len(t) : PlaceOf(s, keep, k) = i
  BY KeptIs
<1> HIDE DEF t
<1>2. /\ u \in Seq(S)
      /\ \A k \in 1..Len(u) :
            /\ PlaceOf(t, too, k) \in 1..Len(t)
            /\ t[PlaceOf(t, too, k)] \in too
            /\ u[k] = t[PlaceOf(t, too, k)]
      /\ \A k, l \in 1..Len(u) : k < l => PlaceOf(t, too, k) < PlaceOf(t, too, l)
      /\ \A i \in 1..Len(t) : t[i] \in too => \E k \in 1..Len(u) : PlaceOf(t, too, k) = i
  BY <1>1, KeptIs
<1> HIDE DEF u
<1>3. p \in [1..Len(u) -> 1..Len(s)]
  BY <1>1, <1>2
<1>4. \A k, l \in 1..Len(u) : k < l => p[k] < p[l]
  BY <1>1, <1>2
<1>5. \A k \in 1..Len(u) : s[p[k]] \in keep \cap too /\ u[k] = s[p[k]]
  BY <1>1, <1>2
<1>6. ASSUME NEW i \in 1..Len(s), s[i] \in keep \cap too PROVE \E k \in 1..Len(u) : p[k] = i
  <2>1. PICK j \in 1..Len(t) : PlaceOf(s, keep, j) = i
    BY <1>1, <1>6
  <2>2. t[j] \in too
    BY <1>1, <1>6, <2>1
  <2>3. PICK k \in 1..Len(u) : PlaceOf(t, too, k) = j
    BY <1>2, <2>2
  <2> QED
    BY <2>1, <2>3
<1> HIDE DEF p
<1>7. AreTheKept(u, p, s, keep \cap too)
  BY <1>3, <1>4, <1>5, <1>6 DEF AreTheKept
<1>8. u = Kept(s, keep \cap too)
  BY <1>2, <1>7, KeptFromPlaces
<1> QED
  BY <1>8 DEF u, t

(* Of two arrays whose entries are kept at the same places, the same places are kept. *)
KeepAlike(s, keep, t, too) ==
    /\ Len(s) = Len(t)
    /\ \A i \in 1..Len(s) : s[i] \in keep <=> t[i] \in too

LEMMA KeptAlike ==
    ASSUME NEW S, NEW s \in Seq(S), NEW keep, NEW T, NEW t \in Seq(T), NEW too,
           KeepAlike(s, keep, t, too)
    PROVE  /\ Len(Kept(s, keep)) = Len(Kept(t, too))
           /\ \A k \in 1..Len(Kept(s, keep)) : PlaceOf(s, keep, k) = PlaceOf(t, too, k)
<1> Len(s) = Len(t) /\ \A i \in 1..Len(s) : s[i] \in keep <=> t[i] \in too
  BY DEF KeepAlike
<1>1. ASSUME NEW i \in 0..Len(s) PROVE CountKept(s, keep, i) = CountKept(t, too, i)
  <2>1. {j \in 1..i : s[j] \in keep} = {j \in 1..i : t[j] \in too}
    OBVIOUS
  <2> QED
    BY <2>1 DEF CountKept
<1>2. Len(Kept(s, keep)) = Len(Kept(t, too))
  <2>1. Len(s) \in 0..Len(s)
    OBVIOUS
  <2> QED
    BY <1>1, <2>1, KeptIs
<1>3. ASSUME NEW k PROVE PlaceOf(s, keep, k) = PlaceOf(t, too, k)
  <2>1. \A i \in 1..Len(s) : (s[i] \in keep /\ CountKept(s, keep, i) = k)
                              <=> (t[i] \in too /\ CountKept(t, too, i) = k)
    BY <1>1
  <2> QED
    BY <2>1, Zenon DEF PlaceOf
<1> QED
  BY <1>2, <1>3

(* What goes is gone, and nothing else. *)
LEMMA WithoutIs ==
    ASSUME NEW S, NEW s \in Seq(S), NEW x
    PROVE  /\ Without(s, x) \in Seq(S)
           /\ \A k \in 1..Len(Without(s, x)) :
                Without(s, x)[k] # x /\ \E i \in 1..Len(s) : Without(s, x)[k] = s[i]
           /\ \A i \in 1..Len(s) :
                s[i] # x => \E k \in 1..Len(Without(s, x)) : Without(s, x)[k] = s[i]
           /\ (\A i, j \in 1..Len(s) : s[i] = s[j] => i = j) =>
                \A k, l \in 1..Len(Without(s, x)) :
                    Without(s, x)[k] = Without(s, x)[l] => k = l
<1> DEFINE keep == {s[i] : i \in 1..Len(s)} \ {x}
<1>1. Without(s, x) = Kept(s, keep)
  BY DEF Without
<1>2. \A i \in 1..Len(s) : s[i] \in keep <=> s[i] # x
  OBVIOUS
<1> HIDE DEF keep
<1> DEFINE w == Kept(s, keep)
           p(k) == PlaceOf(s, keep, k)
<1>3. /\ w \in Seq(S)
      /\ \A k \in 1..Len(w) : p(k) \in 1..Len(s) /\ s[p(k)] \in keep /\ w[k] = s[p(k)]
      /\ \A k, l \in 1..Len(w) : k < l => p(k) < p(l)
      /\ \A i \in 1..Len(s) : s[i] \in keep => \E k \in 1..Len(w) : p(k) = i
  BY KeptIs
<1> HIDE DEF w, p
<1>4. \A k \in 1..Len(w) : w[k] # x /\ \E i \in 1..Len(s) : w[k] = s[i]
  BY <1>2, <1>3
<1>5. \A i \in 1..Len(s) : s[i] # x => \E k \in 1..Len(w) : w[k] = s[i]
  BY <1>2, <1>3
<1>6. ASSUME \A i, j \in 1..Len(s) : s[i] = s[j] => i = j,
             NEW k \in 1..Len(w), NEW l \in 1..Len(w), w[k] = w[l]
      PROVE  k = l
  <2>1. p(k) = p(l) /\ p(k) \in Nat
    <3>1. w[k] = s[p(k)] /\ p(k) \in 1..Len(s)
      BY <1>3
    <3>2. w[l] = s[p(l)] /\ p(l) \in 1..Len(s)
      BY <1>3
    <3>3. s[p(k)] = s[p(l)]
      BY <1>6, <3>1, <3>2
    <3> QED
      BY <1>6, <3>1, <3>2, <3>3
  <2>2. ~(p(k) < p(l)) /\ ~(p(l) < p(k)) /\ Len(w) \in Nat
    BY <1>3, <2>1
  <2> QED
    BY <1>3, <2>2
<1> QED
  BY <1>1, <1>3, <1>4, <1>5, <1>6 DEF w

(* What is kept depends on the entries there are, and on nothing else. *)
LEMMA KeptSame ==
    ASSUME NEW S, NEW s \in Seq(S), NEW keep, NEW too,
           \A i \in 1..Len(s) : s[i] \in keep <=> s[i] \in too
    PROVE  Kept(s, keep) = Kept(s, too)
<1>1. KeepAlike(s, keep, s, too)
  BY DEF KeepAlike
<1>2. /\ Len(Kept(s, keep)) = Len(Kept(s, too))
      /\ \A k \in 1..Len(Kept(s, keep)) : PlaceOf(s, keep, k) = PlaceOf(s, too, k)
  BY <1>1, KeptAlike
<1>3. \A with : /\ Kept(s, with) \in Seq(S)
                /\ \A k \in 1..Len(Kept(s, with)) : Kept(s, with)[k] = s[PlaceOf(s, with, k)]
  BY KeptIs
<1>4. \A k \in 1..Len(Kept(s, keep)) : Kept(s, keep)[k] = Kept(s, too)[k]
  BY <1>2, <1>3
<1> QED
  BY <1>2, <1>3, <1>4

(* Arrays that hold x and y at the same places lose them alike. *)
HoldAlike(s, x, t, y) ==
    /\ Len(s) = Len(t)
    /\ \A i \in 1..Len(s) : s[i] = x <=> t[i] = y

LEMMA WithoutAlike ==
    ASSUME NEW S, NEW s \in Seq(S), NEW x, NEW T, NEW t \in Seq(T), NEW y,
           HoldAlike(s, x, t, y)
    PROVE  /\ Len(Without(s, x)) = Len(Without(t, y))
           /\ \A k \in 1..Len(Without(s, x)) : \E i \in 1..Len(s) :
                s[i] # x /\ Without(s, x)[k] = s[i] /\ Without(t, y)[k] = t[i]
<1> DEFINE keep == {s[i] : i \in 1..Len(s)} \ {x}
           too == {t[i] : i \in 1..Len(t)} \ {y}
<1> Len(s) = Len(t) /\ \A i \in 1..Len(s) : s[i] = x <=> t[i] = y
  BY DEF HoldAlike
<1>1. Without(s, x) = Kept(s, keep) /\ Without(t, y) = Kept(t, too)
  BY DEF Without
<1>2. \A i \in 1..Len(s) : s[i] \in keep <=> s[i] # x
  OBVIOUS
<1>3. KeepAlike(s, keep, t, too)
  BY DEF KeepAlike
<1> HIDE DEF keep, too
<1>4. /\ Len(Kept(s, keep)) = Len(Kept(t, too))
      /\ \A k \in 1..Len(Kept(s, keep)) : PlaceOf(s, keep, k) = PlaceOf(t, too, k)
  BY <1>3, KeptAlike
<1>5. \A k \in 1..Len(Kept(s, keep)) :
        /\ PlaceOf(s, keep, k) \in 1..Len(s)
        /\ s[PlaceOf(s, keep, k)] \in keep
        /\ Kept(s, keep)[k] = s[PlaceOf(s, keep, k)]
  BY KeptIs
<1>6. \A k \in 1..Len(Kept(t, too)) : Kept(t, too)[k] = t[PlaceOf(t, too, k)]
  BY KeptIs
<1> QED
  BY <1>1, <1>2, <1>4, <1>5, <1>6

-----------------------------------------------------------------------------
(* Sequences: parts, reversal, and sequences flattened into one.             *)

LEMMA Concatenated ==
    ASSUME NEW S, NEW p \in Seq(S), NEW q \in Seq(S)
    PROVE  p \o q \in Seq(S)
  OBVIOUS

LEMMA Reversed ==
    ASSUME NEW S, NEW q \in Seq(S)
    PROVE  Reverse(q) \in Seq(S) /\ Len(Reverse(q)) = Len(q)
<1>1. Len(q) \in Nat /\ \A i \in 1..Len(q) : q[(Len(q) - i) + 1] \in S
  OBVIOUS
<1> QED
  BY <1>1 DEF Reverse

LEMMA FirstPart ==
    ASSUME NEW S, NEW q \in Seq(S), NEW n \in Nat, n <= Len(q)
    PROVE  SubSeq(q, 1, n) \in Seq(S) /\ Len(SubSeq(q, 1, n)) = n
  BY SubSeqProperties

LEMMA ContainsIs ==
    ASSUME NEW S, NEW q \in Seq(S), NEW e
    PROVE  Contains(q, e) <=> \E i \in DOMAIN q : q[i] = e
  BY DEF Contains

\* A sequence is a prefix of itself and of itself with one more entry.
LEMMA PrefixGrows ==
    ASSUME NEW S, NEW q \in Seq(S), NEW r, r = q \/ \E h \in S : r = Append(q, h)
    PROVE  IsPrefix(q, r)
<1>1. Len(q) \in Nat /\ Len(q) <= Len(r) /\ r \in Seq(S)
  OBVIOUS
<1>2. \A i \in 1..Len(q) : q[i] = r[i]
  OBVIOUS
<1>3. SubSeq(q, 1, Len(q)) = SubSeq(r, 1, Len(q))
  BY <1>2
<1> QED
  BY <1>1, <1>3 DEF IsPrefix

LEMMA KeptIsShorter ==
    ASSUME NEW S, NEW q \in Seq(S), NEW keep
    PROVE  Len(Kept(q, keep)) \in Nat /\ Len(Kept(q, keep)) <= Len(q)
<1> DEFINE f == [k \in 1..Len(Kept(q, keep)) |-> PlaceOf(q, keep, k)]
<1>1. /\ Kept(q, keep) \in Seq(S)
      /\ \A k \in 1..Len(Kept(q, keep)) : PlaceOf(q, keep, k) \in 1..Len(q)
      /\ \A k, l \in 1..Len(Kept(q, keep)) :
            k < l => PlaceOf(q, keep, k) < PlaceOf(q, keep, l)
  BY KeptIs
<1>2. Len(Kept(q, keep)) \in Nat /\ Len(q) \in Nat
  BY <1>1
<1>3. f \in [1..Len(Kept(q, keep)) -> 1..Len(q)]
  BY <1>1
<1>4. ASSUME NEW k \in 1..Len(Kept(q, keep)), NEW l \in 1..Len(Kept(q, keep)), f[k] = f[l]
      PROVE  k = l
  <2>1. ~(k < l) /\ ~(l < k)
    BY <1>1, <1>2, <1>4
  <2> QED
    BY <1>2, <2>1
<1> HIDE DEF f
<1> QED
  BY <1>2, <1>3, <1>4, OneEntryPerSlot

\* The accumulator of FlattenSeq exists: its shortest part that did not would only
\* lack its last entry.
LEMMA FlattenIs ==
    ASSUME NEW S, NEW seqs \in Seq(Seq(S))
    PROVE  \E f : /\ f = [i \in 1..Len(seqs) |->
                            IF i = 1 THEN seqs[i] ELSE f[i - 1] \o seqs[i]]
<1> DEFINE IsAcc(f, n) ==
             f = [i \in 1..n |-> IF i = 1 THEN seqs[i] ELSE f[i - 1] \o seqs[i]]
           Bad == {n \in 0..Len(seqs) : ~\E f : IsAcc(f, n)}
<1>1. Len(seqs) \in Nat
  OBVIOUS
<1>2. Bad = {}
  <2> SUFFICES ASSUME Bad # {} PROVE FALSE
    OBVIOUS
  <2>1. Bad \in SUBSET Nat /\ IsFiniteSet(Bad) /\ Bad \subseteq 0..Len(seqs)
    <3>1. IsFiniteSet(0..Len(seqs)) /\ 0..Len(seqs) \subseteq Nat
      BY <1>1, FS_Interval
    <3>2. Bad \subseteq 0..Len(seqs)
      OBVIOUS
    <3> HIDE DEF Bad
    <3> QED
      BY <3>1, <3>2, FS_Subset
  <2> DEFINE m == Min(Bad)
  <2>2. m \in Bad /\ \A n \in Bad : m <= n
    <3> HIDE DEF Bad
    <3> QED
      BY <2>1, MinIsLeast
  <2> HIDE DEF m
  <2>3. m # 0
    <3>1. IsAcc(<<>>, 0)
      OBVIOUS
    <3> HIDE DEF IsAcc
    <3>2. 0 \notin Bad
      BY <3>1
    <3> HIDE DEF Bad
    <3> QED
      BY <2>2, <3>2
  <2>4. m \in Nat /\ m - 1 \in 0..Len(seqs) /\ m - 1 \notin Bad
    <3> HIDE DEF Bad
    <3>1. m \in 0..Len(seqs)
      BY <2>1, <2>2
    <3>2. m \in Nat /\ m - 1 \in 0..Len(seqs) /\ ~(m <= m - 1)
      BY <1>1, <2>3, <3>1
    <3> QED
      BY <2>2, <3>2
  <2>5. PICK g : IsAcc(g, m - 1)
    BY <2>4
  <2> DEFINE f == [i \in 1..m |-> IF i < m THEN g[i]
                                  ELSE IF i = 1 THEN seqs[i] ELSE g[i - 1] \o seqs[i]]
             Next1(h, i) == IF i = 1 THEN seqs[i] ELSE h[i - 1] \o seqs[i]
  <2>6. \A i \in 1..m : f[i] = Next1(f, i)
    <3> TAKE i \in 1..m
    <3>1. CASE i = m
      <4>1. i # 1 => i - 1 \in 1..m /\ i - 1 < m
        BY <2>4, <3>1
      <4>2. i # 1 => f[i - 1] = g[i - 1]
        BY <4>1
      <4> QED
        BY <2>4, <3>1, <4>2
    <3>2. CASE i # m
      <4>1. i \in 1..(m - 1) /\ i < m
        BY <2>4, <3>2
      <4>2. g[i] = Next1(g, i)
        BY <2>5, <4>1
      <4>3. i # 1 => f[i - 1] = g[i - 1]
        BY <2>4, <4>1
      <4> QED
        BY <4>1, <4>2, <4>3
    <3> QED
      BY <3>1, <3>2
  <2>7. IsAcc(f, m)
    <3>1. f = [i \in 1..m |-> f[i]]
      OBVIOUS
    <3> HIDE DEF f
    <3>2. [i \in 1..m |-> f[i]] = [i \in 1..m |-> Next1(f, i)]
      BY <2>6
    <3> QED
      BY <3>1, <3>2
  <2> QED
    BY <2>2, <2>7
<1>3. Len(seqs) \in 0..Len(seqs)
  BY <1>1
<1>4. \E f : IsAcc(f, Len(seqs))
  <2> HIDE DEF IsAcc
  <2> QED
    BY <1>2, <1>3
<1> QED
  BY <1>4

LEMMA FlattenAccumulates ==
    ASSUME NEW S, NEW seqs \in Seq(Seq(S)), Len(seqs) # 0
    PROVE  \E acc : /\ FlattenSeq(seqs) = acc[Len(seqs)]
                    /\ \A i \in 1..Len(seqs) :
                          acc[i] = IF i = 1 THEN seqs[i] ELSE acc[i - 1] \o seqs[i]
<1> DEFINE Acc(f) == f = [i \in 1..Len(seqs) |->
                            IF i = 1 THEN seqs[i] ELSE f[i - 1] \o seqs[i]]
           acc == CHOOSE f : Acc(f)
           F(i) == IF i = 1 THEN seqs[i] ELSE acc[i - 1] \o seqs[i]
<1>1. FlattenSeq(seqs) = acc[Len(seqs)]
  BY DEF FlattenSeq
<1>2. Acc(acc)
  BY FlattenIs
<1> HIDE DEF acc
<1>3. acc = [i \in 1..Len(seqs) |-> F(i)]
  BY <1>2
<1>4. \A i \in 1..Len(seqs) : acc[i] = F(i)
  <2> HIDE DEF F
  <2> QED
    BY <1>3
<1> QED
  BY <1>1, <1>4

LEMMA Flattened ==
    ASSUME NEW S, NEW seqs \in Seq(Seq(S))
    PROVE  FlattenSeq(seqs) \in Seq(S)
<1>1. Len(seqs) \in Nat /\ \A i \in 1..Len(seqs) : seqs[i] \in Seq(S)
  OBVIOUS
<1>2. CASE Len(seqs) = 0
  BY <1>2 DEF FlattenSeq
<1>3. CASE Len(seqs) # 0
  <2>1. PICK acc : /\ FlattenSeq(seqs) = acc[Len(seqs)]
                   /\ \A i \in 1..Len(seqs) :
                         acc[i] = IF i = 1 THEN seqs[i] ELSE acc[i - 1] \o seqs[i]
    BY <1>3, FlattenAccumulates
  <2> DEFINE Bad == {i \in 1..Len(seqs) : acc[i] \notin Seq(S)}
  <2>2. Bad = {}
    <3> SUFFICES ASSUME Bad # {} PROVE FALSE
      OBVIOUS
    <3>1. Bad \in SUBSET Nat /\ IsFiniteSet(Bad)
      <4>1. IsFiniteSet(1..Len(seqs))
        BY <1>1, FS_Interval
      <4> QED
        BY <1>1, <4>1, FS_Subset
    <3> DEFINE m == Min(Bad)
    <3>2. m \in Bad /\ \A n \in Bad : m <= n
      <4> HIDE DEF Bad
      <4> QED
        BY <3>1, MinIsLeast
    <3> HIDE DEF m
    <3>3. m \in 1..Len(seqs) /\ m # 1
      BY <1>1, <2>1, <3>2
    <3>4. m - 1 \in 1..Len(seqs) /\ m - 1 \notin Bad
      BY <1>1, <3>2, <3>3
    <3>5. acc[m - 1] \in Seq(S) /\ seqs[m] \in Seq(S)
      BY <1>1, <3>3, <3>4
    <3>6. acc[m] = acc[m - 1] \o seqs[m]
      BY <2>1, <3>3
    <3>7. acc[m] \in Seq(S)
      BY <3>5, <3>6, Concatenated
    <3> QED
      BY <3>2, <3>7
  <2>3. Len(seqs) \in 1..Len(seqs)
    BY <1>1, <1>3
  <2> QED
    BY <2>1, <2>2, <2>3
<1> QED
  BY <1>2, <1>3

\* The k-th entry of out is entry place[k] of the piece piece[k], of the first n pieces;
\* each of their entries is there, in order.
Laid(seqs, n, out, piece, place) ==
    /\ piece \in [DOMAIN out -> 1..n] /\ place \in [DOMAIN out -> Nat]
    /\ \A k \in DOMAIN out :
          place[k] \in DOMAIN seqs[piece[k]] /\ out[k] = seqs[piece[k]][place[k]]
    /\ \A p \in 1..n : \A q \in DOMAIN seqs[p] :
          \E k \in DOMAIN out : piece[k] = p /\ place[k] = q
    /\ \A k, l \in DOMAIN out : k < l =>
          piece[k] < piece[l] \/ (piece[k] = piece[l] /\ place[k] < place[l])

LEMMA OnePieceLaid ==
    ASSUME NEW S, NEW seqs \in Seq(Seq(S)), Len(seqs) # 0
    PROVE  \E piece, place : Laid(seqs, 1, seqs[1], piece, place)
<1>1. PICK s : s = seqs[1]
  OBVIOUS
<1>2. DOMAIN s \subseteq Nat
  <2>1. s \in Seq(S)
    BY <1>1
  <2> QED
    BY <2>1
<1> DEFINE piece == [k \in DOMAIN s |-> 1]
           place == [k \in DOMAIN s |-> k]
<1>3. piece \in [DOMAIN s -> 1..1] /\ place \in [DOMAIN s -> Nat]
  BY <1>2
<1>4. \A k \in DOMAIN s : piece[k] = 1 /\ place[k] = k
  OBVIOUS
<1> HIDE DEF piece, place
<1>5. Laid(seqs, 1, s, piece, place)
  <2>1. \A p \in 1..1 : p = 1
    OBVIOUS
  <2> QED
    BY <1>1, <1>2, <1>3, <1>4, <2>1 DEF Laid
<1> QED
  BY <1>1, <1>5

LEMMA AnotherPieceLaid ==
    ASSUME NEW S, NEW seqs \in Seq(Seq(S)), NEW n \in Nat, NEW out \in Seq(S),
           n + 1 \in DOMAIN seqs,
           \E piece, place : Laid(seqs, n, out, piece, place)
    PROVE  \E piece, place : Laid(seqs, n + 1, out \o seqs[n + 1], piece, place)
<1>1. PICK piece, place : Laid(seqs, n, out, piece, place)
  OBVIOUS
<1>2. PICK m : m = Len(out)
  OBVIOUS
<1>3. PICK s : s = seqs[n + 1]
  OBVIOUS
<1>4. /\ s \in Seq(S) /\ m \in Nat /\ Len(s) \in Nat /\ DOMAIN s = 1..Len(s)
      /\ DOMAIN out = 1..m /\ DOMAIN (out \o s) = 1..(m + Len(s))
      /\ \A k \in 1..m : (out \o s)[k] = out[k]
      /\ \A k \in 1..(m + Len(s)) : k > m => (out \o s)[k] = s[k - m] /\ k - m \in 1..Len(s)
  BY <1>2, <1>3
<1> DEFINE piece1 == [k \in 1..(m + Len(s)) |-> IF k <= m THEN piece[k] ELSE n + 1]
           place1 == [k \in 1..(m + Len(s)) |-> IF k <= m THEN place[k] ELSE k - m]
<1>5. /\ \A k \in 1..m : piece[k] \in 1..n /\ place[k] \in Nat
      /\ \A k \in 1..m : place[k] \in DOMAIN seqs[piece[k]] /\ out[k] = seqs[piece[k]][place[k]]
      /\ \A p \in 1..n : \A q \in DOMAIN seqs[p] : \E k \in 1..m : piece[k] = p /\ place[k] = q
      /\ \A k, l \in 1..m : k < l =>
            piece[k] < piece[l] \/ (piece[k] = piece[l] /\ place[k] < place[l])
  <2>1. DOMAIN out = 1..m
    BY <1>4
  <2>2. piece \in [1..m -> 1..n] /\ place \in [1..m -> Nat]
    BY <1>1, <2>1 DEF Laid
  <2>3. \A k \in 1..m : place[k] \in DOMAIN seqs[piece[k]] /\ out[k] = seqs[piece[k]][place[k]]
    BY <1>1, <2>1 DEF Laid
  <2>4. \A p \in 1..n : \A q \in DOMAIN seqs[p] : \E k \in 1..m : piece[k] = p /\ place[k] = q
    BY <1>1, <2>1 DEF Laid
  <2>5. \A k, l \in 1..m : k < l =>
          piece[k] < piece[l] \/ (piece[k] = piece[l] /\ place[k] < place[l])
    BY <1>1, <2>1 DEF Laid
  <2>6. \A k \in 1..m : piece[k] \in 1..n /\ place[k] \in Nat
    BY <2>2
  <2> QED
    BY <2>3, <2>4, <2>5, <2>6
<1>6. \A k \in 1..(m + Len(s)) :
        \/ k \in 1..m /\ piece1[k] = piece[k] /\ place1[k] = place[k]
        \/ /\ k > m /\ k - m \in 1..Len(s)
           /\ piece1[k] = n + 1 /\ place1[k] = k - m
  BY <1>4
<1>7. /\ piece1 \in [DOMAIN (out \o s) -> 1..(n + 1)]
      /\ place1 \in [DOMAIN (out \o s) -> Nat]
  <2>1. \A k \in 1..(m + Len(s)) : piece1[k] \in 1..(n + 1) /\ place1[k] \in Nat
    <3> HIDE DEF piece1, place1
    <3> TAKE k \in 1..(m + Len(s))
    <3>1. CASE k \in 1..m /\ piece1[k] = piece[k] /\ place1[k] = place[k]
      <4>1. piece[k] \in 1..n /\ place[k] \in Nat
        BY <1>5, <3>1
      <4> QED
        BY <3>1, <4>1
    <3>2. CASE k > m /\ k - m \in 1..Len(s) /\ piece1[k] = n + 1 /\ place1[k] = k - m
      BY <1>4, <3>2
    <3> QED
      BY <1>6, <3>1, <3>2
  <2> QED
    BY <1>4, <2>1
<1> HIDE DEF piece1, place1
<1>8. \A k \in DOMAIN (out \o s) :
        place1[k] \in DOMAIN seqs[piece1[k]] /\ (out \o s)[k] = seqs[piece1[k]][place1[k]]
  <2> TAKE k \in DOMAIN (out \o s)
  <2>1. CASE k \in 1..m /\ piece1[k] = piece[k] /\ place1[k] = place[k]
    BY <1>4, <1>5, <2>1
  <2>2. CASE k > m /\ k - m \in 1..Len(s) /\ piece1[k] = n + 1 /\ place1[k] = k - m
    BY <1>3, <1>4, <2>2
  <2> QED
    BY <1>4, <1>6, <2>1, <2>2
<1>9. ASSUME NEW p \in 1..(n + 1), NEW q \in DOMAIN seqs[p]
      PROVE  \E k \in DOMAIN (out \o s) : piece1[k] = p /\ place1[k] = q
  <2>1. CASE p = n + 1
    <3>1. q \in 1..Len(s) /\ m + q \in 1..(m + Len(s)) /\ m + q > m /\ (m + q) - m = q
      BY <1>3, <1>4, <1>9, <2>1
    <3>2. piece1[m + q] = p /\ place1[m + q] = q
      BY <1>4, <1>6, <2>1, <3>1
    <3> QED
      BY <1>4, <3>1, <3>2
  <2>2. CASE p \in 1..n
    <3>1. PICK k \in 1..m : piece[k] = p /\ place[k] = q
      BY <1>5, <1>9, <2>2
    <3>2. k \in 1..(m + Len(s)) /\ ~(k > m)
      BY <1>4, <3>1
    <3> QED
      BY <1>4, <1>6, <3>1, <3>2
  <2> QED
    BY <1>9, <2>1, <2>2
<1>10. ASSUME NEW k \in DOMAIN (out \o s), NEW l \in DOMAIN (out \o s), k < l
       PROVE  piece1[k] < piece1[l] \/ (piece1[k] = piece1[l] /\ place1[k] < place1[l])
  <2>1. k \in 1..(m + Len(s)) /\ l \in 1..(m + Len(s))
    BY <1>4, <1>10
  <2>2. CASE l \in 1..m /\ piece1[l] = piece[l] /\ place1[l] = place[l]
    <3>1. k \in 1..m /\ piece1[k] = piece[k] /\ place1[k] = place[k]
      BY <1>4, <1>6, <1>10, <2>1, <2>2
    <3> QED
      BY <1>5, <1>10, <2>2, <3>1
  <2>3. CASE l > m /\ l - m \in 1..Len(s) /\ piece1[l] = n + 1 /\ place1[l] = l - m
    <3>1. CASE k \in 1..m /\ piece1[k] = piece[k] /\ place1[k] = place[k]
      <4>1. piece[k] \in 1..n
        BY <1>5, <3>1
      <4> QED
        BY <2>3, <3>1, <4>1
    <3>2. CASE k > m /\ k - m \in 1..Len(s) /\ piece1[k] = n + 1 /\ place1[k] = k - m
      BY <1>4, <1>10, <2>1, <2>3, <3>2
    <3> QED
      BY <1>6, <2>1, <3>1, <3>2
  <2> QED
    BY <1>6, <2>1, <2>2, <2>3
<1>11. Laid(seqs, n + 1, out \o s, piece1, place1)
  BY <1>7, <1>8, <1>9, <1>10 DEF Laid
<1> QED
  BY <1>3, <1>11

\* By the first pieces that could not be laid out: the last of them could be added.
LEMMA FlattenLaid ==
    ASSUME NEW S, NEW seqs \in Seq(Seq(S))
    PROVE  \E piece, place : Laid(seqs, Len(seqs), FlattenSeq(seqs), piece, place)
<1>1. Len(seqs) \in Nat /\ \A i \in 1..Len(seqs) : seqs[i] \in Seq(S)
  OBVIOUS
<1>2. CASE Len(seqs) = 0
  <2>1. FlattenSeq(seqs) = <<>> /\ DOMAIN <<>> = {}
    BY <1>2 DEF FlattenSeq
  <2>2. Laid(seqs, Len(seqs), FlattenSeq(seqs), <<>>, <<>>)
    BY <1>2, <2>1 DEF Laid
  <2> QED
    BY <2>2
<1>3. CASE Len(seqs) # 0
  <2>1. PICK acc : /\ FlattenSeq(seqs) = acc[Len(seqs)]
                   /\ \A i \in 1..Len(seqs) :
                         acc[i] = IF i = 1 THEN seqs[i] ELSE acc[i - 1] \o seqs[i]
    BY <1>3, FlattenAccumulates
  <2> DEFINE Can(i) == acc[i] \in Seq(S) /\ \E piece, place : Laid(seqs, i, acc[i], piece, place)
             Bad == {i \in 1..Len(seqs) : ~Can(i)}
  <2>2. Bad = {}
    <3> SUFFICES ASSUME Bad # {} PROVE FALSE
      OBVIOUS
    <3> HIDE DEF Can
    <3>1. Bad \in SUBSET Nat /\ IsFiniteSet(Bad)
      <4>1. IsFiniteSet(1..Len(seqs))
        BY <1>1, FS_Interval
      <4> QED
        BY <1>1, <4>1, FS_Subset
    <3> DEFINE m == Min(Bad)
    <3>2. m \in Bad /\ \A n \in Bad : m <= n
      <4> HIDE DEF Bad
      <4> QED
        BY <3>1, MinIsLeast
    <3> HIDE DEF m
    <3>3. Can(1)
      <4>1. acc[1] = seqs[1] /\ seqs[1] \in Seq(S)
        BY <1>1, <1>3, <2>1
      <4> QED
        BY <1>3, <4>1, OnePieceLaid DEF Can
    <3>4. m \in 1..Len(seqs) /\ m # 1
      BY <1>1, <3>2, <3>3
    <3>5. m - 1 \in 1..Len(seqs) /\ ~(m <= m - 1) /\ m - 1 \in Nat /\ (m - 1) + 1 = m
      BY <1>1, <3>4
    <3>6. Can(m - 1)
      BY <3>2, <3>5
    <3>7. acc[m] = acc[m - 1] \o seqs[m]
      BY <2>1, <3>4
    <3>8. acc[m - 1] \in Seq(S) /\ seqs[m] \in Seq(S)
          /\ \E piece, place : Laid(seqs, m - 1, acc[m - 1], piece, place)
      BY <1>1, <3>4, <3>6 DEF Can
    <3>9. acc[m] \in Seq(S)
      BY <3>7, <3>8, Concatenated
    <3>10. m \in DOMAIN seqs
      BY <1>1, <3>4
    <3>11. \E piece, place : Laid(seqs, m, acc[m - 1] \o seqs[m], piece, place)
      BY <3>5, <3>8, <3>10, AnotherPieceLaid
    <3>12. Can(m)
      BY <3>7, <3>9, <3>11 DEF Can
    <3> QED
      BY <3>2, <3>12
  <2>3. Len(seqs) \in 1..Len(seqs)
    BY <1>1, <1>3
  <2>4. Can(Len(seqs))
    <3> HIDE DEF Can
    <3> QED
      BY <2>2, <2>3
  <2> QED
    BY <2>1, <2>4
<1> QED
  BY <1>2, <1>3
=============================================================================
