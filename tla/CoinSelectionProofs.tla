------------------------ MODULE CoinSelectionProofs -------------------------
(***************************************************************************)
(* What the coin selection returns, for every store: a sorted arrangement  *)
(* of the spendable notes, and the shortest prefix of it that is enough.   *)
(***************************************************************************)
EXTENDS CoinSelection, FiniteSetTheorems, SequenceTheorems, TLAPS

\* A store whose notes have amounts.
Amounts(notes) == \A i \in DOMAIN notes : notes[i].amount \in Nat

\* LeastElement: a non-empty set of natural numbers has a least element, and Min
\* is that.
LEMMA LeastElement ==
    ASSUME NEW S \in SUBSET Nat, S # {}
    PROVE  Min(S) \in S /\ \A y \in S : Min(S) <= y
  <1>1. \E x \in S : \A y \in S : ~ (<<y, x>> \in OpToRel(<, Nat))
    BY WFMin, NatLessThanWellFounded
  <1>2. \A x, y \in Nat : y < x => <<y, x>> \in OpToRel(<, Nat)
    BY Zenon DEF OpToRel
  <1>3. \E x \in S : \A y \in S : x <= y
    <2>1. PICK x \in S : \A y \in S : ~ (<<y, x>> \in OpToRel(<, Nat))
      BY <1>1, Zenon
    <2>2. \A y \in S : ~ (y < x)
      BY <2>1, <1>2, Zenon
    <2> QED
      BY <2>2
  <1> QED
    BY <1>3 DEF Min

\* GreatestElement: a bounded non-empty set of natural numbers has a greatest
\* element, and Max is that.
LEMMA GreatestElement ==
    ASSUME NEW n \in Nat, NEW S \in SUBSET (0..n), S # {}
    PROVE  Max(S) \in S /\ \A y \in S : y <= Max(S)
  <1> DEFINE gaps == {n - x : x \in S}
  <1>1. gaps \in SUBSET Nat /\ gaps # {}
    <2>1. \A x \in S : n - x \in Nat
      OBVIOUS
    <2> QED
      BY <2>1
  <1>2. PICK g \in gaps : \A y \in gaps : g <= y
    <2> HIDE DEF gaps
    <2> QED
      BY <1>1, LeastElement
  <1>3. PICK x \in S : g = n - x
    BY <1>2
  <1>4. \A y \in S : n - x <= n - y
    BY <1>2, <1>3
  <1>5. \A y \in S : y <= x
    <2> HIDE DEF gaps
    <2>1. SUFFICES ASSUME NEW y \in S PROVE y <= x
      OBVIOUS
    <2>2. x \in Int /\ y \in Int
      OBVIOUS
    <2>3. n - x <= n - y
      BY <1>4
    <2> QED
      BY <2>2, <2>3
  <1>6. \E z \in S : \A y \in S : z >= y
    BY <1>5
  <1>7. Max(S) \in S /\ \A y \in S : Max(S) >= y
    BY <1>6 DEF Max
  <1> QED
    BY <1>7

\* LastOfInterval: the greatest of 1..k is k.
LEMMA LastOfInterval ==
    ASSUME NEW k \in Nat \ {0}
    PROVE  Max(1..k) = k
  <1> DEFINE S == 1..k
  <1>1. S \in SUBSET (0..k) /\ k \in S
    OBVIOUS
  <1>2. S # {}
    BY <1>1
  <1>3. \A x \in S : x \in Int /\ x <= k
    OBVIOUS
  <1> HIDE DEF S
  <1>4. Max(S) \in S /\ \A y \in S : y <= Max(S)
    BY <1>1, <1>2, GreatestElement
  <1>5. k <= Max(S) /\ Max(S) <= k /\ Max(S) \in Int
    BY <1>1, <1>3, <1>4, Zenon
  <1>6. Max(S) = k
    BY <1>5
  <1> QED
    BY <1>6 DEF S

(***************************************************************************)
(* The order of getSpendableNotes.                                         *)
(***************************************************************************)
\* BeforeIsTotal: of two positions of the store one comes before the other.
LEMMA BeforeIsTotal ==
    ASSUME NEW n \in Nat, NEW notes, DOMAIN notes = 1..n, Amounts(notes),
           NEW i \in 1..n, NEW j \in 1..n, i # j
    PROVE  Before(notes, i, j) \/ Before(notes, j, i)
  <1>1. notes[i].amount \in Nat /\ notes[j].amount \in Nat
    BY Zenon DEF Amounts
  <1> QED
    BY <1>1 DEF Before

\* BeforeIsTransitive: and the order has no cycles.
LEMMA BeforeIsTransitive ==
    ASSUME NEW n \in Nat, NEW notes, DOMAIN notes = 1..n, Amounts(notes),
           NEW i \in 1..n, NEW j \in 1..n, NEW k \in 1..n,
           Before(notes, k, i), Before(notes, i, j)
    PROVE  Before(notes, k, j)
  <1>1. notes[i].amount \in Nat /\ notes[j].amount \in Nat /\ notes[k].amount \in Nat
    BY Zenon DEF Amounts
  <1> QED
    BY <1>1 DEF Before

\* RankGrows: the rank of a kept note is a position of the result, and a note that
\* comes before another has the smaller rank.
LEMMA RankGrows ==
    ASSUME NEW n \in Nat, NEW notes, DOMAIN notes = 1..n, Amounts(notes),
           NEW kept \in SUBSET (1..n)
    PROVE  /\ IsFiniteSet(kept) /\ Cardinality(kept) \in Nat
           /\ \A i \in kept : Rank(notes, kept, i) \in 1..Cardinality(kept)
           /\ \A i, j \in kept : Before(notes, i, j) => Rank(notes, kept, i) < Rank(notes, kept, j)
  <1> DEFINE Pred(i) == {j \in kept : Before(notes, j, i)}
  <1>1. IsFiniteSet(kept) /\ Cardinality(kept) \in Nat
    <2>1. IsFiniteSet(1..n)
      BY FS_Interval
    <2>2. IsFiniteSet(kept)
      BY <2>1, FS_Subset
    <2> QED
      BY <2>2, FS_CardinalityType
  <1>2. \A i \in kept : /\ IsFiniteSet(Pred(i)) /\ Cardinality(Pred(i)) \in Nat
                        /\ Cardinality(Pred(i)) <= Cardinality(kept)
                        /\ Cardinality(Pred(i)) = Cardinality(kept) => Pred(i) = kept
    BY <1>1, FS_Subset, FS_CardinalityType
  <1>3. \A i \in kept : notes[i].amount \in Nat /\ i \in Nat
    <2>1. \A i \in kept : i \in Nat /\ i \in DOMAIN notes
      OBVIOUS
    <2> QED
      BY <2>1, Zenon DEF Amounts
  <1>4. \A i \in kept : i \notin Pred(i)
    BY <1>3 DEF Before
  <1>5. \A i \in kept : Cardinality(Pred(i)) < Cardinality(kept)
    <2>1. SUFFICES ASSUME NEW i \in kept PROVE Cardinality(Pred(i)) < Cardinality(kept)
      OBVIOUS
    <2>2. Cardinality(Pred(i)) # Cardinality(kept)
      BY <1>2, <1>4, Zenon
    <2>3. Cardinality(Pred(i)) <= Cardinality(kept) /\ Cardinality(Pred(i)) \in Nat
      BY <1>2, Zenon
    <2> HIDE DEF Pred
    <2> QED
      BY <1>1, <2>2, <2>3
  <1>6. ASSUME NEW i \in kept, NEW j \in kept, Before(notes, i, j)
        PROVE  Cardinality(Pred(i)) < Cardinality(Pred(j))
    <2>1. Pred(i) \subseteq Pred(j)
      <3>1. SUFFICES ASSUME NEW k \in Pred(i) PROVE k \in Pred(j)
        OBVIOUS
      <3>2. k \in kept /\ Before(notes, k, i)
        OBVIOUS
      <3>3. k \in 1..n /\ i \in 1..n /\ j \in 1..n
        BY <3>2
      <3>4. Before(notes, k, j)
        BY <1>6, <3>2, <3>3, BeforeIsTransitive
      <3> QED
        BY <3>2, <3>4
    <2>2. i \in Pred(j)
      BY <1>6
    <2>3. Pred(i) # Pred(j)
      BY <1>4, <2>2
    <2>4. Cardinality(Pred(i)) <= Cardinality(Pred(j))
          /\ (Cardinality(Pred(j)) = Cardinality(Pred(i)) => Pred(j) = Pred(i))
      BY <1>2, <2>1, FS_Subset
    <2>5. Cardinality(Pred(i)) \in Nat /\ Cardinality(Pred(j)) \in Nat
      BY <1>2, Zenon
    <2>6. Cardinality(Pred(j)) # Cardinality(Pred(i))
      BY <2>3, <2>4, Zenon
    <2> HIDE DEF Pred
    <2> QED
      BY <2>4, <2>5, <2>6
  <1>7. \A i \in kept : Rank(notes, kept, i) = 1 + Cardinality(Pred(i))
    BY DEF Rank
  <1> HIDE DEF Pred
  <1>8. \A i \in kept : Rank(notes, kept, i) \in 1..Cardinality(kept)
    BY <1>1, <1>2, <1>5, <1>7
  <1>9. \A i, j \in kept : Before(notes, i, j) => Rank(notes, kept, i) < Rank(notes, kept, j)
    BY <1>2, <1>6, <1>7
  <1> QED
    BY <1>1, <1>8, <1>9

\* Arrangement(notes, kept): where each element of the result comes from.
Arrangement(notes, kept) ==
    [k \in 1..Cardinality(kept) |-> CHOOSE i \in kept : Rank(notes, kept, i) = k]

\* RankIsInjective: two kept notes have different ranks.
LEMMA RankIsInjective ==
    ASSUME NEW n \in Nat, NEW notes, DOMAIN notes = 1..n, Amounts(notes),
           NEW kept \in SUBSET (1..n), NEW i \in kept, NEW j \in kept,
           Rank(notes, kept, i) = Rank(notes, kept, j)
    PROVE  i = j
  <1>1. Rank(notes, kept, i) \in 1..Cardinality(kept) /\ Cardinality(kept) \in Nat
    BY RankGrows
  <1>2. Rank(notes, kept, i) \in Nat
    BY <1>1
  <1>3. Before(notes, i, j) => Rank(notes, kept, i) < Rank(notes, kept, j)
    BY RankGrows
  <1>4. Before(notes, j, i) => Rank(notes, kept, j) < Rank(notes, kept, i)
    BY RankGrows
  <1>5. ~ Before(notes, i, j) /\ ~ Before(notes, j, i)
    BY <1>2, <1>3, <1>4
  <1>6. i \in 1..n /\ j \in 1..n
    OBVIOUS
  <1> QED
    BY <1>5, <1>6, BeforeIsTotal

\* RankIsOnto: every position of the result is the rank of a kept note.
LEMMA RankIsOnto ==
    ASSUME NEW n \in Nat, NEW notes, DOMAIN notes = 1..n, Amounts(notes),
           NEW kept \in SUBSET (1..n), NEW k \in 1..Cardinality(kept)
    PROVE  \E i \in kept : Rank(notes, kept, i) = k
  <1> DEFINE m == Cardinality(kept)
             f == [i \in kept |-> Rank(notes, kept, i)]
  <1>1. m \in Nat /\ IsFiniteSet(kept)
    BY RankGrows
  <1>2. f \in [kept -> 1..m]
    BY RankGrows
  <1>3. \A i, j \in kept : f[i] = f[j] => i = j
    BY RankIsInjective
  <1>4. f \in Injection(kept, 1..m)
    BY <1>2, <1>3 DEF Injection, IsInjective
  <1>5. IsFiniteSet(1..m) /\ Cardinality(1..m) = m
    BY <1>1, FS_Interval
  <1>6. f \in Surjection(kept, 1..m)
    BY <1>4, <1>5, FS_Injection
  <1> QED
    BY <1>6 DEF Surjection

\* ArrangementSorts: the result holds every kept note once, and an earlier note
\* is before a later one.
LEMMA ArrangementSorts ==
    ASSUME NEW n \in Nat, NEW notes, DOMAIN notes = 1..n, Amounts(notes),
           NEW kept \in SUBSET (1..n)
    PROVE  /\ Cardinality(kept) \in Nat
           /\ Arrangement(notes, kept) \in Bijection(1..Cardinality(kept), kept)
           /\ \A k, l \in 1..Cardinality(kept) :
                 k < l => Before(notes, Arrangement(notes, kept)[k], Arrangement(notes, kept)[l])
           /\ LargestFirst(notes, kept) =
                 [k \in 1..Cardinality(kept) |-> notes[Arrangement(notes, kept)[k]]]
  <1> DEFINE m == Cardinality(kept)
             f == Arrangement(notes, kept)
             R(i) == Rank(notes, kept, i)
  <1>1. m \in Nat
    BY RankGrows
  <1>2. \A k \in 1..m : f[k] \in kept /\ R(f[k]) = k
    BY RankIsOnto DEF Arrangement
  <1>3. f \in [1..m -> kept]
    BY <1>2 DEF Arrangement
  <1>4. \A k, l \in 1..m : f[k] = f[l] => k = l
    BY <1>2, Zenon
  <1>5. \A i \in kept : R(i) \in 1..m
    BY RankGrows
  <1>6. \A i \in kept : f[R(i)] = i
    <2>1. \A i \in kept : f[R(i)] \in kept /\ R(f[R(i)]) = R(i)
      BY <1>2, <1>5, Zenon
    <2>2. \A i, j \in kept : R(i) = R(j) => i = j
      BY RankIsInjective
    <2> HIDE DEF R
    <2> QED
      BY <2>1, <2>2, Zenon
  <1>7. f \in Bijection(1..m, kept)
    BY <1>3, <1>4, <1>5, <1>6 DEF Bijection, Injection, Surjection, IsInjective
  <1>8. \A k, l \in 1..m : k < l => Before(notes, f[k], f[l])
    <2>1. SUFFICES ASSUME NEW k \in 1..m, NEW l \in 1..m, k < l
                   PROVE  Before(notes, f[k], f[l])
      OBVIOUS
    <2>2. f[k] \in kept /\ f[l] \in kept /\ R(f[k]) = k /\ R(f[l]) = l
      BY <1>2
    <2>3. f[k] # f[l]
      BY <1>1, <1>4, <2>1
    <2>4. Before(notes, f[k], f[l]) \/ Before(notes, f[l], f[k])
      <3>1. f[k] \in 1..n /\ f[l] \in 1..n
        BY <2>2
      <3> QED
        BY <2>3, <3>1, BeforeIsTotal
    <2>5. Before(notes, f[l], f[k]) => R(f[l]) < R(f[k])
      BY <2>2, RankGrows
    <2>6. ~ (l < k)
      BY <1>1, <2>1
    <2> QED
      BY <2>2, <2>4, <2>5, <2>6
  <1>9. LargestFirst(notes, kept) = [k \in 1..m |-> notes[f[k]]]
    BY DEF LargestFirst, Arrangement
  <1> QED
    BY <1>1, <1>7, <1>8, <1>9

(***************************************************************************)
(* TotalAmount.                                                            *)
(***************************************************************************)
\* IsFold(g, k, a): g is the fold that adds up the amounts a, from the last
\* position of a set on.
IsFold(g, k, a) ==
    g = [s \in SUBSET (1..k) |-> IF s = {} THEN 0 ELSE g[s \ {Max(s)}] + a[Max(s)].amount]

\* FoldExists: there is such a function for every length.
LEMMA FoldExists ==
    ASSUME NEW n \in Nat, NEW a
    PROVE  \E g : IsFold(g, n, a)
  <1> DEFINE Bad == {k \in 0..n : ~ \E g : IsFold(g, k, a)}
  <1>1. SUFFICES ASSUME Bad # {} PROVE FALSE
    OBVIOUS
  <1>2. PICK k \in Bad : \A j \in Bad : k <= j
    <2>1. Bad \in SUBSET Nat
      OBVIOUS
    <2> HIDE DEF Bad
    <2> QED
      BY <1>1, <2>1, LeastElement
  <1>3. k \in 0..n /\ ~ \E g : IsFold(g, k, a)
    BY <1>2
  <1>4. k # 0
    <2> DEFINE z == [s \in SUBSET (1..0) |-> 0]
    <2>1. SUBSET (1..0) = {{}}
      OBVIOUS
    <2>2. IsFold(z, 0, a)
      BY <2>1 DEF IsFold
    <2> QED
      BY <1>3, <2>2
  <1>5. PICK g : IsFold(g, k - 1, a)
    <2>1. k - 1 \in 0..n /\ ~ (k <= k - 1)
      BY <1>3, <1>4
    <2> QED
      BY <1>2, <2>1
  <1> DEFINE low == SUBSET (1..(k - 1))
             h == [s \in SUBSET (1..k) |->
                     IF k \in s THEN g[s \ {k}] + a[k].amount ELSE g[s]]
  <1>6. \A s \in low : g[s] = IF s = {} THEN 0 ELSE g[s \ {Max(s)}] + a[Max(s)].amount
    BY <1>5 DEF IsFold
  <1>7. ASSUME NEW s \in SUBSET (1..k)
        PROVE  h[s] = IF s = {} THEN 0 ELSE h[s \ {Max(s)}] + a[Max(s)].amount
    <2>1. CASE k \in s
      <3>1. s \in SUBSET (0..k) /\ s # {} /\ k \in Nat
        BY <1>3, <2>1
      <3>2. Max(s) \in s /\ \A y \in s : y <= Max(s)
        <4> HIDE DEF h, low
        <4> QED
          BY <3>1, GreatestElement
      <3>3. Max(s) = k
        <4>1. Max(s) \in 1..k
          BY <3>2
        <4>2. k <= Max(s)
          BY <2>1, <3>2, Zenon
        <4> QED
          BY <1>3, <4>1, <4>2
      <3>4. s \ {k} \in SUBSET (1..k) /\ k \notin s \ {k}
        OBVIOUS
      <3>5. h[s \ {k}] = g[s \ {k}]
        BY <3>4
      <3>6. h[s] = g[s \ {k}] + a[k].amount
        BY <2>1
      <3> QED
        BY <3>1, <3>3, <3>5, <3>6
    <2>2. CASE k \notin s
      <3>1. s \in low
        BY <1>3, <2>2
      <3>2. h[s] = g[s]
        BY <2>2
      <3>3. CASE s = {}
        BY <1>6, <3>1, <3>2, <3>3
      <3>4. CASE s # {}
        <4>1. k \notin s \ {Max(s)} /\ s \ {Max(s)} \in SUBSET (1..k)
          BY <2>2
        <4>2. h[s \ {Max(s)}] = g[s \ {Max(s)}]
          BY <4>1
        <4> HIDE DEF h, low
        <4> QED
          BY <1>6, <3>1, <3>2, <3>4, <4>2
      <3> QED
        BY <3>3, <3>4
    <2> QED
      BY <2>1, <2>2
  <1>8. DOMAIN h = SUBSET (1..k) /\ h = [s \in SUBSET (1..k) |-> h[s]]
    OBVIOUS
  <1> HIDE DEF h
  <1>9. IsFold(h, k, a)
    BY <1>7, <1>8 DEF IsFold
  <1> QED
    BY <1>3, <1>9

\* IsSum(t, n, notes): t[k] is what the first k of n notes are worth.
IsSum(t, n, notes) ==
    /\ t \in [0..n -> Nat]
    /\ t[0] = 0
    /\ \A k \in 1..n : t[k] = t[k - 1] + notes[k].amount

\* TotalIsSum: TotalAmount adds up the amounts from the first note to the last.
LEMMA TotalIsSum ==
    ASSUME NEW n \in Nat, NEW notes, DOMAIN notes = 1..n, Amounts(notes)
    PROVE  \E t : IsSum(t, n, notes) /\ TotalAmount(notes) = t[n]
  <1> DEFINE g == CHOOSE f : IsFold(f, n, notes)
             t == [k \in 0..n |-> g[1..k]]
  <1>1. IsFold(g, n, notes)
    BY FoldExists
  <1>2. TotalAmount(notes) = g[1..n]
    BY DEF TotalAmount, FoldLeft, MapThenFoldSet, IsFold
  <1> HIDE DEF g
  <1>3. \A s \in SUBSET (1..n) :
           g[s] = IF s = {} THEN 0 ELSE g[s \ {Max(s)}] + notes[Max(s)].amount
    BY <1>1 DEF IsFold
  <1>4. t[0] = 0
    <2>1. 1..0 = {} /\ 0 \in 0..n
      OBVIOUS
    <2>2. g[1..0] = 0
      BY <1>3, <2>1
    <2> QED
      BY <2>1, <2>2
  <1>5. ASSUME NEW k \in 1..n
        PROVE  t[k] = t[k - 1] + notes[k].amount
    <2>1. 1..k # {} /\ k \in Nat \ {0} /\ k - 1 \in 0..n
      <3>1. k \in Nat \ {0} /\ k - 1 \in 0..n /\ 1 \in 1..k
        OBVIOUS
      <3> QED
        BY <3>1
    <2>3. Max(1..k) = k
      BY <2>1, LastOfInterval
    <2>4. (1..k) \ {k} = 1..(k - 1)
      OBVIOUS
    <2>5. g[1..k] = g[1..(k - 1)] + notes[k].amount
      <3>1. 1..k \in SUBSET (1..n)
        OBVIOUS
      <3>2. g[1..k] = g[(1..k) \ {Max(1..k)}] + notes[Max(1..k)].amount
        BY <1>3, <2>1, <3>1, Zenon
      <3> QED
        BY <2>3, <2>4, <3>2
    <2> QED
      BY <2>1, <2>5
  <1> HIDE DEF t
  <1>6. \A k \in 0..n : t[k] \in Nat
    <2> DEFINE Bad == {k \in 0..n : t[k] \notin Nat}
    <2>1. SUFFICES ASSUME Bad # {} PROVE FALSE
      OBVIOUS
    <2>2. PICK k \in Bad : \A j \in Bad : k <= j
      <3>1. Bad \in SUBSET Nat
        OBVIOUS
      <3> HIDE DEF Bad
      <3> QED
        BY <2>1, <3>1, LeastElement
    <2>3. k \in 1..n
      BY <1>4, <2>2
    <2>4. k - 1 \in 0..n /\ ~ (k <= k - 1)
      BY <2>3
    <2>5. t[k - 1] \in Nat
      BY <2>2, <2>4
    <2>6. notes[k].amount \in Nat
      BY <2>3, Zenon DEF Amounts
    <2>7. t[k] \in Nat
      BY <1>5, <2>3, <2>5, <2>6
    <2> QED
      BY <2>2, <2>7
  <1>7. t \in [0..n -> Nat] /\ t[n] = g[1..n]
    BY <1>6 DEF t
  <1> QED
    BY <1>2, <1>4, <1>5, <1>7 DEF IsSum

\* SumIsUnique: what the first notes are worth does not depend on those after
\* them.
LEMMA SumIsUnique ==
    ASSUME NEW n \in Nat, NEW m \in Nat, NEW a, NEW b, NEW t, NEW u,
           IsSum(t, n, a), IsSum(u, m, b), m <= n,
           \A k \in 1..m : a[k].amount = b[k].amount
    PROVE  \A k \in 0..m : t[k] = u[k]
  <1> DEFINE Bad == {k \in 0..m : t[k] # u[k]}
  <1>1. SUFFICES ASSUME Bad # {} PROVE FALSE
    OBVIOUS
  <1>2. PICK k \in Bad : \A j \in Bad : k <= j
    <2>1. Bad \in SUBSET Nat
      OBVIOUS
    <2> HIDE DEF Bad
    <2> QED
      BY <1>1, <2>1, LeastElement
  <1>3. k \in 1..m
    BY <1>2 DEF IsSum
  <1>4. k - 1 \in 0..m /\ ~ (k <= k - 1) /\ k \in 1..n
    BY <1>3
  <1>5. t[k - 1] = u[k - 1]
    BY <1>2, <1>4
  <1>6. t[k] = u[k]
    BY <1>3, <1>4, <1>5 DEF IsSum
  <1> QED
    BY <1>2, <1>6

\* PrefixSum: the sums of a store are the totals of its prefixes.
LEMMA PrefixSum ==
    ASSUME NEW n \in Nat, NEW notes, DOMAIN notes = 1..n, Amounts(notes),
           NEW t, IsSum(t, n, notes), NEW k \in 0..n
    PROVE  TotalAmount(SubSeq(notes, 1, k)) = t[k]
  <1> DEFINE p == SubSeq(notes, 1, k)
             A == {notes[i] : i \in 1..n}
  <1>1. p \in Seq(A) /\ Len(p) = k /\ \A i \in 1..k : p[i] = notes[i]
    <2>1. \A i \in 1..k : notes[i] \in A
      OBVIOUS
    <2> HIDE DEF A
    <2>2. /\ p \in Seq(A)
          /\ Len(p) = IF 1 <= k THEN k - 1 + 1 ELSE 0
          /\ \A i \in 1..(k - 1 + 1) : p[i] = notes[1 + i - 1]
      BY <2>1, SubSeqProperties
    <2> HIDE DEF p
    <2> QED
      BY <2>2
  <1>2. DOMAIN p = 1..k
    <2> HIDE DEF p, A
    <2> QED
      BY <1>1, LenProperties
  <1> HIDE DEF p
  <1>3. Amounts(p)
    BY <1>1, <1>2 DEF Amounts
  <1>4. PICK u : IsSum(u, k, p) /\ TotalAmount(p) = u[k]
    BY <1>2, <1>3, TotalIsSum
  <1>5. u[k] = t[k]
    <2>1. \A i \in 1..k : notes[i].amount = p[i].amount
      BY <1>1
    <2>2. k <= n /\ k \in Nat /\ k \in 0..k
      OBVIOUS
    <2>3. \A i \in 0..k : t[i] = u[i]
      BY <1>4, <2>1, <2>2, SumIsUnique
    <2> QED
      BY <2>2, <2>3
  <1> QED
    BY <1>4, <1>5 DEF p

(***************************************************************************)
(* getSpendableNotes and selectNotesForTransfer.                           *)
(***************************************************************************)
\* The positions of the notes that a transfer may spend.
Spendable(notes) == {i \in DOMAIN notes : IsSpendable(notes[i], 0)}

\* SortedSpendable: getSpendableNotes returns the spendable notes of the store,
\* each once, largest first.
LEMMA SortedSpendable ==
    ASSUME NEW n \in Nat, NEW notes, DOMAIN notes = 1..n, Amounts(notes)
    PROVE  LET sorted == GetSpendableNotes(notes, 0)
               place == Arrangement(notes, Spendable(notes))
               m == Cardinality(Spendable(notes))
           IN  /\ Spendable(notes) \in SUBSET (1..n)
               /\ m \in Nat
               /\ place \in Bijection(1..m, Spendable(notes))
               /\ sorted = [k \in 1..m |-> notes[place[k]]]
               /\ Amounts(sorted)
               /\ \A k, l \in 1..m : k <= l => sorted[k].amount >= sorted[l].amount
  <1> DEFINE kept == Spendable(notes)
             sorted == GetSpendableNotes(notes, 0)
             place == Arrangement(notes, kept)
             m == Cardinality(kept)
  <1>1. kept \in SUBSET (1..n)
    BY DEF Spendable
  <1>2. sorted = LargestFirst(notes, kept)
    BY DEF GetSpendableNotes, Spendable
  <1> HIDE DEF kept
  <1>3. /\ m \in Nat
        /\ place \in Bijection(1..m, kept)
        /\ \A k, l \in 1..m : k < l => Before(notes, place[k], place[l])
        /\ LargestFirst(notes, kept) = [k \in 1..m |-> notes[place[k]]]
    BY <1>1, ArrangementSorts
  <1> HIDE DEF sorted, m, place
  <1>4. sorted = [k \in 1..m |-> notes[place[k]]]
    BY <1>2, <1>3
  <1>5. \A k \in 1..m : place[k] \in kept /\ place[k] \in 1..n
    BY <1>1, <1>3 DEF Bijection, Injection
  <1>6. \A k \in 1..m : sorted[k].amount \in Nat
    BY <1>4, <1>5 DEF Amounts
  <1>7. Amounts(sorted)
    BY <1>4, <1>6 DEF Amounts
  <1>8. ASSUME NEW k \in 1..m, NEW l \in 1..m, k <= l
        PROVE  sorted[k].amount >= sorted[l].amount
    <2>1. CASE k = l
      BY <1>6, <2>1
    <2>2. CASE k < l
      <3>1. Before(notes, place[k], place[l])
        BY <1>3, <2>2
      <3>2. sorted[k] = notes[place[k]] /\ sorted[l] = notes[place[l]]
        BY <1>4
      <3>3. sorted[k].amount > sorted[l].amount \/ sorted[k].amount = sorted[l].amount
        BY <3>1, <3>2 DEF Before
      <3> QED
        BY <1>6, <3>3
    <2> QED
      BY <1>8, <2>1, <2>2, <1>3
  <1> QED
    BY <1>1, <1>3, <1>4, <1>7, <1>8 DEF kept, sorted, m, place

\* Reaches(k, notes, target, maxNotes, t): the first k of the sorted notes, whose
\* sums are t, may be selected.
Reaches(k, notes, target, maxNotes, t) ==
    k \in 1..Cardinality(Spendable(notes)) /\ k <= maxNotes /\ t[k] >= target

\* IsShortest(sel, k, ...): sel holds the first k of the sorted notes, and no fewer
\* would do.
IsShortest(sel, k, notes, target, maxNotes, t) ==
    /\ Reaches(k, notes, target, maxNotes, t)
    /\ \A j : Reaches(j, notes, target, maxNotes, t) => k <= j
    /\ sel.selected = [i \in 1..k |-> notes[Arrangement(notes, Spendable(notes))[i]]]
    /\ TotalAmount(sel.selected) = t[k]
    /\ sel.total = t[k]
    /\ sel.change = t[k] - target

\* SelectionSound: a selection succeeds when some prefix of the sorted notes, of at
\* most maxNotes, reaches the target; it is the shortest of them, and the change
\* is what it exceeds the target by.
LEMMA SelectionSound ==
    ASSUME NEW n \in Nat, NEW notes, DOMAIN notes = 1..n, Amounts(notes),
           NEW target \in Nat, NEW maxNotes \in Nat,
           NEW t, IsSum(t, Cardinality(Spendable(notes)), GetSpendableNotes(notes, 0))
    PROVE  LET sel == SelectNotesForTransfer(notes, target, maxNotes) IN
           /\ sel.ok \in BOOLEAN
           /\ sel.ok <=> \E k : Reaches(k, notes, target, maxNotes, t)
           /\ sel.ok => \E k : IsShortest(sel, k, notes, target, maxNotes, t)
  <1> DEFINE sorted == GetSpendableNotes(notes, 0)
             place == Arrangement(notes, Spendable(notes))
             m == Cardinality(Spendable(notes))
             prefixes == ReachingPrefixes(sorted, target, maxNotes)
             k == Min(prefixes)
             sel == SelectNotesForTransfer(notes, target, maxNotes)
             good == {j \in 1..m : j <= maxNotes /\ t[j] >= target}
  <1>1. /\ m \in Nat
        /\ sorted = [j \in 1..m |-> notes[place[j]]]
        /\ Amounts(sorted)
    BY SortedSpendable
  <1>2. sel = IF sorted = <<>> THEN Failed("No spendable notes available")
              ELSE IF prefixes = {} THEN Failed("Insufficient balance")
              ELSE [ok |-> TRUE, selected |-> SubSeq(sorted, 1, k),
                    total |-> TotalAmount(SubSeq(sorted, 1, k)),
                    change |-> TotalAmount(SubSeq(sorted, 1, k)) - target]
    BY DEF SelectNotesForTransfer
  <1>3. IsSum(t, m, sorted)
    OBVIOUS
  <1> HIDE DEF sorted, m, place, sel
  <1>4. Len(sorted) = m /\ DOMAIN sorted = 1..m /\ (sorted = <<>> => m = 0)
    <2>1. sorted \in Seq({notes[place[j]] : j \in 1..m})
      BY <1>1
    <2> QED
      BY <1>1, <2>1
  <1>5. \A j \in 0..m : TotalAmount(SubSeq(sorted, 1, j)) = t[j]
    BY <1>1, <1>3, <1>4, PrefixSum
  <1>6. prefixes = good
    BY <1>1, <1>4, <1>5 DEF ReachingPrefixes
  <1> HIDE DEF prefixes, k
  <1>7. sel.ok \in BOOLEAN /\ (sel.ok <=> sorted # <<>> /\ prefixes # {})
    BY <1>2 DEF Failed
  <1>8. sel.ok <=> \E j \in 1..m : j <= maxNotes /\ t[j] >= target
    BY <1>1, <1>4, <1>6, <1>7
  <1>9. ASSUME sel.ok
        PROVE  /\ k \in 1..m /\ k <= maxNotes /\ t[k] >= target
               /\ \A j \in 1..m : j <= maxNotes /\ t[j] >= target => k <= j
               /\ sel.selected = [i \in 1..k |-> notes[place[i]]]
               /\ TotalAmount(sel.selected) = t[k]
               /\ sel.total = t[k]
               /\ sel.change = t[k] - target
    <2>1. good \in SUBSET Nat /\ good # {}
      BY <1>1, <1>6, <1>7, <1>9
    <2>2. k \in good /\ \A j \in good : k <= j
      <3> HIDE DEF good
      <3> QED
        BY <1>6, <2>1, LeastElement DEF k
    <2>3. k \in 1..m /\ k <= maxNotes /\ t[k] >= target
      BY <2>2
    <2>4. \A j \in 1..m : j <= maxNotes /\ t[j] >= target => k <= j
      BY <2>2
    <2>5. /\ sel.selected = SubSeq(sorted, 1, k)
          /\ sel.total = TotalAmount(SubSeq(sorted, 1, k))
          /\ sel.change = TotalAmount(SubSeq(sorted, 1, k)) - target
      BY <1>2, <1>7, <1>9
    <2>6. TotalAmount(SubSeq(sorted, 1, k)) = t[k]
      BY <1>1, <1>5, <2>3
    <2>7. SubSeq(sorted, 1, k) = [i \in 1..k |-> notes[place[i]]]
      BY <1>1, <2>3
    <2> QED
      BY <2>3, <2>4, <2>5, <2>6, <2>7
  <1>10. sel.ok <=> \E j : Reaches(j, notes, target, maxNotes, t)
    BY <1>8 DEF Reaches, m
  <1>11. sel.ok => IsShortest(sel, k, notes, target, maxNotes, t)
    BY <1>9 DEF IsShortest, Reaches, m, place
  <1> QED
    BY <1>7, <1>10, <1>11, Zenon DEF sel
=============================================================================
