--------------------------- MODULE PureCallsProofs --------------------------
(***************************************************************************)
(* The coin selection for every store, target and limit, and the lookup of *)
(* an input in every table that probing can build.                         *)
(***************************************************************************)
EXTENDS PureCalls, CoinSelectionProofs

(***************************************************************************)
(* The worth of a set of coins.                                            *)
(***************************************************************************)
\* Pick(s): the element that the sum takes next.
Pick(s) == CHOOSE x \in s : TRUE

\* UpTo(U, k): the subsets of U with at most k elements.
UpTo(U, k) == {s \in SUBSET U : Cardinality(s) <= k}

\* AddsUp(g, F, a): g adds up the amounts a over the sets of F, one element after
\* the other.
AddsUp(g, F, a) ==
    g = [s \in F |-> IF s = {} THEN 0 ELSE a[Pick(s)].amount + g[s \ {Pick(s)}]]

\* SmallerSet: the picked element is one of the set, and the set without it is smaller.
LEMMA SmallerSet ==
    ASSUME NEW U, IsFiniteSet(U), NEW s \in SUBSET U, s # {}
    PROVE  /\ Pick(s) \in s
           /\ IsFiniteSet(s) /\ Cardinality(s) \in Nat \ {0}
           /\ \A x \in s : /\ s \ {x} \in SUBSET U
                           /\ Cardinality(s \ {x}) = Cardinality(s) - 1
  <1>1. Pick(s) \in s
    BY DEF Pick
  <1>2. IsFiniteSet(s)
    BY FS_Subset
  <1>3. Cardinality(s) \in Nat
    BY <1>2, FS_CardinalityType
  <1>4. Cardinality(s) # 0
    BY <1>2, FS_EmptySet
  <1>5. ASSUME NEW x \in s PROVE Cardinality(s \ {x}) = Cardinality(s) - 1
    BY <1>2, FS_RemoveElement
  <1> QED
    BY <1>1, <1>2, <1>3, <1>4, <1>5

\* FinitePositions: the first n positions are a finite set.
LEMMA FinitePositions ==
    ASSUME NEW n \in Nat
    PROVE  IsFiniteSet(1..n)
  BY FS_Interval

\* AddsUpExists: there is such a function for the subsets of a finite set.
LEMMA AddsUpExists ==
    ASSUME NEW U, IsFiniteSet(U), NEW a
    PROVE  \E g : AddsUp(g, SUBSET U, a)
  <1> DEFINE n == Cardinality(U)
             Bad == {k \in 0..n : ~ \E g : AddsUp(g, UpTo(U, k), a)}
  <1>1. n \in Nat
    BY FS_CardinalityType
  <1> HIDE DEF n
  <1>2. ASSUME Bad # {} PROVE FALSE
    <2>1. PICK k \in Bad : \A j \in Bad : k <= j
      <3>1. Bad \in SUBSET Nat
        BY <1>1
      <3> HIDE DEF Bad
      <3> QED
        BY <1>2, <3>1, LeastElement
    <2>2. k \in 0..n /\ ~ \E g : AddsUp(g, UpTo(U, k), a)
      BY <2>1
    <2>3. k # 0
      <3>1. UpTo(U, 0) = {{}}
        <4>1. {} \in UpTo(U, 0)
          BY FS_EmptySet DEF UpTo
        <4>2. ASSUME NEW s \in UpTo(U, 0), s # {} PROVE FALSE
          <5>1. s \in SUBSET U /\ Cardinality(s) <= 0
            BY <4>2 DEF UpTo
          <5> QED
            BY <4>2, <5>1, SmallerSet
        <4> QED
          BY <4>1, <4>2
      <3> DEFINE z == [s \in UpTo(U, 0) |-> 0]
      <3>2. AddsUp(z, UpTo(U, 0), a)
        BY <3>1 DEF AddsUp
      <3> QED
        BY <2>2, <3>2
    <2>4. PICK g : AddsUp(g, UpTo(U, k - 1), a)
      <3>1. k - 1 \in 0..n /\ ~ (k <= k - 1)
        BY <1>1, <2>2, <2>3
      <3> QED
        BY <2>1, <3>1
    <2> DEFINE F == UpTo(U, k)
               h == [s \in F |-> IF s = {} THEN 0 ELSE a[Pick(s)].amount + g[s \ {Pick(s)}]]
    <2>5. ASSUME NEW s \in F
          PROVE  h[s] = IF s = {} THEN 0 ELSE a[Pick(s)].amount + h[s \ {Pick(s)}]
      <3>1. CASE s = {}
        BY <3>1
      <3>2. CASE s # {}
        <4> DEFINE r == s \ {Pick(s)}
        <4>1. s \in SUBSET U /\ Cardinality(s) <= k
          BY DEF UpTo
        <4>2. r \in SUBSET U /\ Cardinality(r) = Cardinality(s) - 1 /\ Cardinality(s) \in Nat
          BY <3>2, <4>1, SmallerSet
        <4> HIDE DEF r
        <4>3. r \in UpTo(U, k - 1) /\ r \in F
          BY <1>1, <2>2, <4>1, <4>2 DEF UpTo
        <4>4. g[r] = IF r = {} THEN 0 ELSE a[Pick(r)].amount + g[r \ {Pick(r)}]
          BY <2>4, <4>3 DEF AddsUp
        <4>5. h[r] = IF r = {} THEN 0 ELSE a[Pick(r)].amount + g[r \ {Pick(r)}]
          BY <4>3
        <4>6. h[s] = a[Pick(s)].amount + g[r]
          BY <3>2 DEF r
        <4> HIDE DEF h
        <4> QED
          BY <3>2, <4>4, <4>5, <4>6 DEF r
      <3> QED
        BY <3>1, <3>2
    <2>6. h = [s \in F |-> h[s]]
      OBVIOUS
    <2> HIDE DEF h
    <2>7. AddsUp(h, F, a)
      BY <2>5, <2>6 DEF AddsUp
    <2> QED
      BY <2>2, <2>7
  <1>3. \E g : AddsUp(g, UpTo(U, n), a)
    <2>1. n \in 0..n
      BY <1>1
    <2> QED
      BY <1>2, <2>1
  <1>4. UpTo(U, n) = SUBSET U
    <2>1. \A s \in SUBSET U : Cardinality(s) <= n
      BY FS_Subset DEF n
    <2> QED
      BY <2>1 DEF UpTo
  <1> QED
    BY <1>3, <1>4

\* IsWorth(h, n, a): h[s] is the sum of the amounts a over s, whatever element is
\* taken first.
IsWorth(h, n, a) ==
    \A s \in SUBSET (1..n) :
        /\ h[s] \in Nat
        /\ s = {} => h[s] = 0
        /\ \A x \in s : h[s] = a[x].amount + h[s \ {x}]

\* SumOf(a, s): as Worth has it.
SumOf(a, coins) == MapThenSumSet(LAMBDA i : a[i].amount, coins)

\* SumIsWorth: MapThenSumSet is this sum.
LEMMA SumIsWorth ==
    ASSUME NEW n \in Nat, NEW a, DOMAIN a = 1..n, Amounts(a)
    PROVE  \E h : IsWorth(h, n, a) /\ \A s \in SUBSET (1..n) : SumOf(a, s) = h[s]
  <1> DEFINE U == 1..n
  <1>1. IsFiniteSet(U) /\ \A x \in U : a[x].amount \in Nat
    <2>1. IsFiniteSet(U)
      BY FinitePositions
    <2>2. \A x \in U : a[x].amount \in Nat
      BY Zenon DEF Amounts
    <2> QED
      BY <2>1, <2>2
  <1> HIDE DEF U
  <1>2. PICK h : AddsUp(h, SUBSET U, a)
    BY <1>1, AddsUpExists
  <1>3. \A s \in SUBSET U :
           h[s] = IF s = {} THEN 0 ELSE a[Pick(s)].amount + h[s \ {Pick(s)}]
    BY <1>2 DEF AddsUp
  <1> DEFINE Good(s) == /\ h[s] \in Nat
                        /\ \A x \in s : h[s] = a[x].amount + h[s \ {x}]
             Bad == {Cardinality(s) : s \in {r \in SUBSET U : ~ Good(r)}}
  <1>4. \A s \in SUBSET U : Good(s)
    <2> SUFFICES ASSUME \E s \in SUBSET U : ~ Good(s) PROVE FALSE
      OBVIOUS
    <2>1. Bad \in SUBSET Nat /\ Bad # {}
      <3>1. \A s \in SUBSET U : Cardinality(s) \in Nat
        BY <1>1, FS_Subset, FS_CardinalityType
      <3> HIDE DEF Good
      <3> QED
        BY <3>1
    <2>2. PICK k \in Bad : \A j \in Bad : k <= j
      <3> HIDE DEF Bad
      <3> QED
        BY <2>1, LeastElement
    <2>3. PICK s \in SUBSET U : ~ Good(s) /\ k = Cardinality(s)
      <3> HIDE DEF Good
      <3> QED
        BY <2>2
    <2>4. ASSUME NEW r \in SUBSET U, Cardinality(r) < k PROVE Good(r)
      <3> HIDE DEF Good
      <3>1. Cardinality(r) \in Nat /\ k \in Nat
        BY <1>1, <2>1, <2>2, FS_Subset, FS_CardinalityType
      <3> QED
        BY <2>2, <2>4, <3>1
    <2>5. s # {}
      <3>1. ASSUME s = {} PROVE Good(s)
        <4>1. h[s] = 0
          BY <1>3, <3>1
        <4> QED
          BY <3>1, <4>1
      <3> QED
        BY <2>3, <3>1
    <2> DEFINE c == Pick(s)
    <2>6. /\ c \in s /\ k \in Nat \ {0}
          /\ \A x \in s : s \ {x} \in SUBSET U /\ Cardinality(s \ {x}) = k - 1
      BY <1>1, <2>3, <2>5, SmallerSet
    <2>7. h[s] = a[c].amount + h[s \ {c}]
      BY <1>3, <2>5
    <2> HIDE DEF c
    <2>8. \A x \in s : Good(s \ {x}) /\ a[x].amount \in Nat
      <3> HIDE DEF Good
      <3> QED
        BY <1>1, <2>4, <2>6
    <2>9. h[s] \in Nat
      <3>1. h[s \ {c}] \in Nat /\ a[c].amount \in Nat
        BY <2>6, <2>8
      <3> QED
        BY <2>7, <3>1
    <2>10. ASSUME NEW x \in s PROVE h[s] = a[x].amount + h[s \ {x}]
      <3>1. CASE x = c
        BY <2>7, <3>1
      <3>2. CASE x # c
        <4>1. x \in s \ {c} /\ c \in s \ {x} /\ (s \ {c}) \ {x} = (s \ {x}) \ {c}
          BY <2>6, <3>2
        <4> DEFINE r == (s \ {x}) \ {c}
        <4>2. h[s \ {c}] = a[x].amount + h[r] /\ h[s \ {c}] \in Nat
          <5>1. Good(s \ {c})
            BY <2>6, <2>8, Zenon
          <5> QED
            BY <4>1, <5>1
        <4>3. h[s \ {x}] = a[c].amount + h[r] /\ h[s \ {x}] \in Nat
          <5>1. Good(s \ {x})
            BY <2>8, Zenon
          <5> QED
            BY <4>1, <5>1
        <4>4. h[r] \in Nat
          <5>1. s \ {x} \in SUBSET U /\ s \ {x} # {}
            BY <2>6, <4>1
          <5> DEFINE w == s \ {x}
          <5>2. r \in SUBSET U /\ Cardinality(r) = Cardinality(s \ {x}) - 1
            <6>1. w \in SUBSET U /\ w # {} /\ c \in w
              BY <4>1, <5>1
            <6> HIDE DEF w
            <6>2. w \ {c} \in SUBSET U /\ Cardinality(w \ {c}) = Cardinality(w) - 1
              BY <1>1, <6>1, SmallerSet
            <6> QED
              BY <6>2 DEF w
          <5>3. Cardinality(r) < k
            BY <2>6, <5>2
          <5> QED
            BY <2>4, <5>2, <5>3
        <4>5. a[x].amount \in Nat /\ a[c].amount \in Nat
          BY <2>6, <2>8
        <4> HIDE DEF r
        <4> QED
          BY <2>7, <4>2, <4>3, <4>4, <4>5
      <3> QED
        BY <3>1, <3>2
    <2> QED
      BY <2>3, <2>9, <2>10
  <1>5. IsWorth(h, n, a)
    <2>1. h[{}] = 0
      BY <1>3
    <2> QED
      BY <1>4, <2>1 DEF IsWorth, U
  <1>6. ASSUME NEW S \in SUBSET U PROVE SumOf(a, S) = h[S]
    <2> DEFINE g == CHOOSE f : AddsUp(f, SUBSET S, a)
    <2>1. IsFiniteSet(S)
      BY <1>1, FS_Subset
    <2>2. AddsUp(g, SUBSET S, a)
      BY <2>1, AddsUpExists
    <2>3. SumOf(a, S) = g[S]
      BY DEF SumOf, MapThenSumSet, MapThenFoldSet, AddsUp, Pick
    <2> HIDE DEF g
    <2> DEFINE Differ == {Cardinality(s) : s \in {r \in SUBSET S : g[r] # h[r]}}
    <2>4. ASSUME Differ # {} PROVE FALSE
      <3>1. Differ \in SUBSET Nat
        BY <2>1, FS_Subset, FS_CardinalityType
      <3>2. PICK k \in Differ : \A j \in Differ : k <= j
        <4> HIDE DEF Differ
        <4> QED
          BY <2>4, <3>1, LeastElement
      <3>3. PICK s \in SUBSET S : g[s] # h[s] /\ Cardinality(s) = k
        BY <3>2
      <3>4. /\ g[s] = IF s = {} THEN 0 ELSE a[Pick(s)].amount + g[s \ {Pick(s)}]
            /\ h[s] = IF s = {} THEN 0 ELSE a[Pick(s)].amount + h[s \ {Pick(s)}]
        BY <1>3, <2>2, <3>3 DEF AddsUp
      <3>5. s # {}
        BY <3>3, <3>4
      <3> DEFINE r == s \ {Pick(s)}
      <3>6. r \in SUBSET S /\ Cardinality(r) = k - 1 /\ k \in Nat \ {0}
        BY <2>1, <3>3, <3>5, SmallerSet
      <3>7. g[r] # h[r]
        BY <3>3, <3>4, <3>5
      <3> HIDE DEF r
      <3>8. k - 1 \in Differ
        BY <3>6, <3>7
      <3> QED
        BY <3>2, <3>6, <3>8
    <2>5. g[S] = h[S]
      BY <2>4
    <2> QED
      BY <2>3, <2>5
  <1> QED
    BY <1>5, <1>6 DEF U

(***************************************************************************)
(* The greedy choice.                                                      *)
(***************************************************************************)
\* First(place, k): the positions, in the store, of the first k sorted notes.
First(place, k) == {place[i] : i \in 1..k}

\* FirstShape: there are k of them, and the last is the one the first k - 1 lack.
LEMMA FirstShape ==
    ASSUME NEW m \in Nat, NEW K, NEW place \in Bijection(1..m, K), NEW k \in 0..m
    PROVE  /\ First(place, k) \in SUBSET K
           /\ IsFiniteSet(First(place, k)) /\ Cardinality(First(place, k)) = k
           /\ k # 0 => /\ place[k] \in First(place, k)
                       /\ First(place, k) \ {place[k]} = First(place, k - 1)
  <1> DEFINE f == [i \in 1..k |-> place[i]]
             F == First(place, k)
  <1>1. /\ \A i \in 1..m : place[i] \in K
        /\ \A i, j \in 1..m : place[i] = place[j] => i = j
    BY DEF Bijection, Injection, IsInjective
  <1>2. \A i \in 1..k : i \in 1..m
    OBVIOUS
  <1>3. F \in SUBSET K
    BY <1>1, <1>2 DEF First
  <1>4. f \in Bijection(1..k, F)
    <2>1. f \in [1..k -> F]
      BY DEF First
    <2>2. \A i, j \in 1..k : f[i] = f[j] => i = j
      BY <1>1, <1>2
    <2>3. \A x \in F : \E i \in 1..k : f[i] = x
      BY DEF First
    <2> HIDE DEF f, F
    <2>4. f \in Injection(1..k, F) /\ f \in Surjection(1..k, F)
      BY <2>1, <2>2, <2>3 DEF Injection, IsInjective, Surjection
    <2> QED
      BY <2>4 DEF Bijection
  <1>5. IsFiniteSet(1..k) /\ Cardinality(1..k) = k
    BY FS_Interval
  <1>6. IsFiniteSet(F) /\ Cardinality(F) = k
    <2>1. ExistsBijection(1..k, F)
      BY <1>4 DEF ExistsBijection
    <2> HIDE DEF F
    <2> QED
      BY <1>5, <2>1, FS_Bijection
  <1>7. ASSUME k # 0 PROVE place[k] \in F /\ F \ {place[k]} = First(place, k - 1)
    <2>1. k \in 1..k /\ \A i \in 1..k : i # k <=> i \in 1..(k - 1)
      BY <1>7
    <2>2. \A i \in 1..k : place[i] = place[k] => i = k
      BY <1>1, <1>2, <2>1
    <2>3. \A i \in 1..(k - 1) : i \in 1..k
      OBVIOUS
    <2> QED
      BY <2>1, <2>2, <2>3, Zenon DEF First
  <1> QED
    BY <1>3, <1>6, <1>7

\* IsBest(h, t, m, K, place): of the sets of coins of one size none is worth more
\* than the first of the sorted notes, which are worth their sum.
IsBest(h, t, m, K, place) ==
    /\ \A k \in 0..m : h[First(place, k)] = t[k]
    /\ \A S \in SUBSET K : Cardinality(S) \in 0..m /\ h[S] <= t[Cardinality(S)]

\* GreedyIsBest: the largest notes of a store are the best choice of any size.
LEMMA GreedyIsBest ==
    ASSUME NEW n \in Nat, NEW notes, DOMAIN notes = 1..n, Amounts(notes),
           NEW h, IsWorth(h, n, notes),
           NEW t, IsSum(t, Cardinality(Spendable(notes)), GetSpendableNotes(notes, 0))
    PROVE  IsBest(h, t, Cardinality(Spendable(notes)), Spendable(notes),
                  Arrangement(notes, Spendable(notes)))
  <1> DEFINE K == Spendable(notes)
             sorted == GetSpendableNotes(notes, 0)
             place == Arrangement(notes, K)
             m == Cardinality(K)
  <1>1. /\ K \in SUBSET (1..n)
        /\ m \in Nat
        /\ place \in Bijection(1..m, K)
        /\ sorted = [k \in 1..m |-> notes[place[k]]]
        /\ Amounts(sorted)
        /\ \A k, l \in 1..m : k <= l => sorted[k].amount >= sorted[l].amount
    BY SortedSpendable
  <1>2. IsSum(t, m, sorted)
    OBVIOUS
  <1> HIDE DEF K, sorted, place, m
  <1>3. /\ \A k \in 0..m : t[k] \in Nat
        /\ t[0] = 0
        /\ \A k \in 1..m : t[k] = t[k - 1] + sorted[k].amount
    BY <1>2 DEF IsSum
  <1>4. \A k \in 1..m : sorted[k] = notes[place[k]] /\ sorted[k].amount \in Nat
    BY <1>1 DEF Amounts
  <1>5. \A s \in SUBSET K : /\ h[s] \in Nat
                            /\ s = {} => h[s] = 0
                            /\ \A x \in s : h[s] = notes[x].amount + h[s \ {x}]
    BY <1>1 DEF IsWorth
  <1>6. \A k \in 0..m : h[First(place, k)] = t[k]
    <2> DEFINE Bad == {k \in 0..m : h[First(place, k)] # t[k]}
    <2>1. SUFFICES ASSUME Bad # {} PROVE FALSE
      OBVIOUS
    <2>2. PICK k \in Bad : \A j \in Bad : k <= j
      <3>1. Bad \in SUBSET Nat
        BY <1>1
      <3> HIDE DEF Bad
      <3> QED
        BY <2>1, <3>1, LeastElement
    <2>3. k \in 0..m /\ h[First(place, k)] # t[k]
      BY <2>2
    <2>4. k # 0
      <3>1. First(place, 0) = {}
        BY DEF First
      <3> QED
        BY <1>3, <1>5, <2>3, <3>1
    <2>5. k \in 1..m /\ k - 1 \in 0..m /\ ~ (k <= k - 1)
      BY <1>1, <2>3, <2>4
    <2>6. h[First(place, k - 1)] = t[k - 1]
      BY <2>2, <2>5
    <2>7. /\ First(place, k) \in SUBSET K /\ place[k] \in First(place, k)
          /\ First(place, k) \ {place[k]} = First(place, k - 1)
      BY <1>1, <2>3, <2>4, FirstShape
    <2>8. h[First(place, k)] = notes[place[k]].amount + h[First(place, k - 1)]
      BY <1>5, <2>7
    <2>9. t[k - 1] \in Nat /\ sorted[k].amount \in Nat /\ t[k] = t[k - 1] + sorted[k].amount
      BY <1>3, <1>4, <2>5
    <2>10. sorted[k] = notes[place[k]]
      BY <1>4, <2>5
    <2> QED
      BY <2>3, <2>6, <2>8, <2>9, <2>10
  <1>7. IsFiniteSet(K)
    <2>1. IsFiniteSet(1..n)
      BY FinitePositions
    <2> QED
      BY <1>1, <2>1, FS_Subset
  <1>8. \A S \in SUBSET K : Cardinality(S) \in 0..m
    <2>1. ASSUME NEW S \in SUBSET K PROVE IsFiniteSet(S) /\ Cardinality(S) <= m
      BY <1>7, FS_Subset DEF m
    <2>2. ASSUME NEW S \in SUBSET K PROVE Cardinality(S) \in Nat
      BY <2>1, FS_CardinalityType
    <2> QED
      BY <1>1, <2>1, <2>2
  <1>9. \A S \in SUBSET K : h[S] <= t[Cardinality(S)]
    <2> DEFINE Worse == {S \in SUBSET K : ~ (h[S] <= t[Cardinality(S)])}
               Bad == {Cardinality(S) : S \in Worse}
    <2>1. SUFFICES ASSUME Bad # {} PROVE FALSE
      OBVIOUS
    <2>2. PICK j \in Bad : \A i \in Bad : j <= i
      <3>1. Bad \in SUBSET Nat
        BY <1>1, <1>8
      <3> HIDE DEF Bad
      <3> QED
        BY <2>1, <3>1, LeastElement
    <2>3. PICK S \in SUBSET K : ~ (h[S] <= t[Cardinality(S)]) /\ j = Cardinality(S)
      BY <2>2
    <2>4. j \in 0..m /\ h[S] \in Nat /\ t[j] \in Nat
      BY <1>3, <1>5, <1>8, <2>3
    <2>5. S # {}
      <3>1. ASSUME S = {} PROVE h[S] = 0 /\ j = 0
        BY <1>5, <2>3, <3>1, FS_EmptySet
      <3> QED
        BY <1>3, <2>3, <3>1
    <2>6. j \in 1..m /\ \A x \in S : S \ {x} \in SUBSET K /\ Cardinality(S \ {x}) = j - 1
      <3>1. /\ Cardinality(S) \in Nat \ {0}
            /\ \A x \in S : S \ {x} \in SUBSET K /\ Cardinality(S \ {x}) = Cardinality(S) - 1
        BY <1>7, <2>5, SmallerSet
      <3>2. j = Cardinality(S)
        BY <2>3
      <3>3. j \in 1..m
        BY <1>1, <2>4, <3>1, <3>2
      <3> QED
        BY <3>1, <3>2, <3>3
    <2> DEFINE Q == {i \in 1..m : place[i] \in S}
               q == Max(Q)
    <2>7. \A x \in S : \E i \in 1..m : place[i] = x
      BY <1>1 DEF Bijection, Surjection
    <2>8. q \in Q /\ \A i \in Q : i <= q
      <3>1. Q \in SUBSET (0..m) /\ Q # {}
        BY <2>5, <2>7
      <3> HIDE DEF Q
      <3> QED
        BY <1>1, <3>1, GreatestElement
    <2> HIDE DEF q
    <2>9. q \in 1..m /\ place[q] \in S
      BY <2>8
    <2>10. j <= q
      <3>1. S \in SUBSET First(place, q)
        <4>1. ASSUME NEW x \in S PROVE x \in First(place, q)
          <5>1. PICK i \in 1..m : place[i] = x
            BY <2>7
          <5>2. i <= q /\ i \in 1..q
            BY <2>8, <2>9, <5>1
          <5> QED
            BY <5>1, <5>2 DEF First
        <4> QED
          BY <4>1
      <3>2. q \in 0..m
        BY <1>1, <2>9
      <3>3. IsFiniteSet(First(place, q)) /\ Cardinality(First(place, q)) = q
        BY <1>1, <3>2, FirstShape
      <3> QED
        BY <2>3, <3>1, <3>3, FS_Subset
    <2>11. h[S] = notes[place[q]].amount + h[S \ {place[q]}]
      BY <1>5, <2>3, <2>9
    <2>12. h[S \ {place[q]}] <= t[j - 1]
      <3> DEFINE r == S \ {place[q]}
      <3>1. r \in SUBSET K /\ Cardinality(r) = j - 1
        BY <2>6, <2>9
      <3> HIDE DEF r
      <3>2. ASSUME ~ (h[r] <= t[Cardinality(r)]) PROVE j <= j - 1
        BY <2>2, <3>1, <3>2
      <3>3. ~ (j <= j - 1)
        BY <2>4
      <3> QED
        BY <3>1, <3>2, <3>3 DEF r
    <2>13. notes[place[q]].amount <= sorted[j].amount
      BY <1>1, <1>4, <2>6, <2>9, <2>10
    <2>14. /\ t[j] = t[j - 1] + sorted[j].amount /\ t[j - 1] \in Nat
           /\ sorted[j].amount \in Nat /\ notes[place[q]].amount \in Nat
           /\ h[S \ {place[q]}] \in Nat
      <3>1. j - 1 \in 0..m
        BY <1>1, <2>6
      <3>2. S \ {place[q]} \in SUBSET K
        BY <2>6, <2>9
      <3> QED
        BY <1>3, <1>4, <1>5, <2>6, <2>9, <3>1, <3>2
    <2> QED
      BY <2>3, <2>11, <2>12, <2>13, <2>14
  <1>10. IsBest(h, t, m, K, place)
    BY <1>6, <1>8, <1>9 DEF IsBest
  <1> QED
    BY <1>10 DEF m, K, place

\* SelectionDecided: a selection succeeds exactly when some set of coins is affordable,
\* and then it is one of the smallest of them.
LEMMA SelectionDecided ==
    ASSUME call \in Selections,
           outcome = SelectNotesForTransfer(call.notes, call.target, call.maxNotes)
    PROVE  /\ outcome.ok <=> Affordable # {}
           /\ outcome.ok => /\ ids \in Affordable
                            /\ outcome.change = Worth(ids) - call.target
                            /\ Cardinality(ids) = Len(outcome.selected)
                            /\ \A coins \in Affordable : Cardinality(ids) <= Cardinality(coins)
  <1> DEFINE notes == call.notes
             target == call.target
             max == call.maxNotes
             K == Spendable(notes)
             m == Cardinality(K)
             place == Arrangement(notes, K)
             sorted == GetSpendableNotes(notes, 0)
  <1>1. target \in Nat /\ max \in Nat /\ \E s \in Stores : notes = Numbered(s)
    BY CallAssumption DEF Selections
  <1>2. PICK s \in Stores : notes = Numbered(s)
    BY <1>1
  <1> DEFINE n == Len(s)
  <1>3. /\ n \in Nat /\ DOMAIN s = 1..n
        /\ \A i \in 1..n : s[i].amount \in Nat /\ s[i].spent \in BOOLEAN
    <2> DEFINE R == [amount : Nat, leafIndex : Nat \cup {None}, spent : BOOLEAN]
    <2>1. s \in Seq(R)
      BY CallAssumption
    <2>2. \A r \in R : r.amount \in Nat /\ r.spent \in BOOLEAN
      OBVIOUS
    <2> HIDE DEF R
    <2>3. Len(s) \in Nat /\ DOMAIN s = 1..Len(s) /\ \A i \in 1..Len(s) : s[i] \in R
      BY <2>1
    <2> QED
      BY <2>2, <2>3
  <1> HIDE DEF n
  <1>4. /\ DOMAIN notes = 1..n
        /\ \A i \in 1..n : /\ notes[i].id = i /\ notes[i].amount \in Nat
                           /\ notes[i].spent \in BOOLEAN
    BY <1>2, <1>3 DEF Numbered
  <1>5. Amounts(notes)
    BY <1>4, Zenon DEF Amounts
  <1>6. Coins = K
    <2>1. \A i \in 1..n : notes[i].amount >= 0
      BY <1>4
    <2> QED
      BY <1>4, <2>1, Zenon DEF Coins, Spendable, IsSpendable
  <1> HIDE DEF notes, target, max
  <1>7. PICK h : IsWorth(h, n, notes) /\ \A S \in SUBSET (1..n) : SumOf(notes, S) = h[S]
    <2>1. n \in Nat /\ DOMAIN notes = 1..n /\ Amounts(notes)
      BY <1>3, <1>4, <1>5, Zenon
    <2> HIDE DEF K, m, place, sorted
    <2>2. \E h : IsWorth(h, n, notes) /\ \A S \in SUBSET (1..n) : SumOf(notes, S) = h[S]
      BY <2>1, SumIsWorth, Zenon
    <2> QED
      BY <2>2, Zenon
  <1>8. /\ K \in SUBSET (1..n)
        /\ m \in Nat
        /\ place \in Bijection(1..m, K)
        /\ sorted = [k \in 1..m |-> notes[place[k]]]
        /\ Amounts(sorted)
    BY <1>3, <1>4, <1>5, SortedSpendable
  <1>9. PICK t : IsSum(t, m, sorted)
    <2>1. DOMAIN sorted = 1..m
      BY <1>8
    <2> HIDE DEF sorted, m
    <2> QED
      BY <1>8, <2>1, TotalIsSum
  <1>10. IsBest(h, t, m, K, place)
    BY <1>3, <1>4, <1>5, <1>7, <1>9, GreedyIsBest
  <1>11. /\ outcome.ok \in BOOLEAN
         /\ outcome.ok <=> \E k : Reaches(k, notes, target, max, t)
         /\ outcome.ok => \E k : IsShortest(outcome, k, notes, target, max, t)
    <2> DEFINE sel == SelectNotesForTransfer(notes, target, max)
    <2>1. /\ sel.ok \in BOOLEAN
          /\ sel.ok <=> \E k : Reaches(k, notes, target, max, t)
          /\ sel.ok => \E k : IsShortest(sel, k, notes, target, max, t)
      BY <1>1, <1>3, <1>4, <1>5, <1>9, SelectionSound
    <2>2. outcome = sel
      BY DEF notes, target, max
    <2> HIDE DEF sel
    <2> QED
      BY <2>1, <2>2, Zenon
  <1>12. \A S \in SUBSET K : Worth(S) = h[S]
    <2>1. \A S : Worth(S) = SumOf(notes, S)
      BY DEF Worth, SumOf, notes
    <2> QED
      BY <1>7, <1>8, <2>1
  <1> HIDE DEF K, place, sorted, m
  <1>13. \A S : S \in Affordable <=> /\ S \in SUBSET K /\ S # {}
                                     /\ Cardinality(S) <= max /\ h[S] >= target
    BY <1>6, <1>12, Zenon DEF Affordable, max, target
  <1>14. /\ \A k \in 0..m : h[First(place, k)] = t[k]
         /\ \A S \in SUBSET K : Cardinality(S) \in 0..m /\ h[S] <= t[Cardinality(S)]
         /\ \A k \in 0..m : t[k] \in Nat
    BY <1>9, <1>10 DEF IsBest, IsSum
  <1>15. \A S \in SUBSET K : h[S] \in Nat
    BY <1>7, <1>8 DEF IsWorth
  <1>16. IsFiniteSet(K)
    <2>1. IsFiniteSet(1..n)
      BY <1>3, FinitePositions
    <2> QED
      BY <1>8, <2>1, FS_Subset
  <1>17. ASSUME NEW S \in Affordable PROVE Reaches(Cardinality(S), notes, target, max, t)
    <2>1. S \in SUBSET K /\ S # {} /\ Cardinality(S) <= max /\ h[S] >= target
      BY <1>13
    <2>2. Cardinality(S) \in Nat \ {0}
      BY <1>16, <2>1, SmallerSet
    <2>3. Cardinality(S) \in 0..m /\ h[S] <= t[Cardinality(S)]
      BY <1>14, <2>1
    <2>4. h[S] \in Nat /\ t[Cardinality(S)] \in Nat
      BY <1>14, <1>15, <2>1, <2>3
    <2>5. Cardinality(S) \in 1..m /\ t[Cardinality(S)] >= target
      BY <1>1, <1>8, <2>1, <2>2, <2>3, <2>4
    <2> QED
      BY <2>1, <2>5 DEF Reaches, m, K
  <1>18. ASSUME NEW k, Reaches(k, notes, target, max, t)
         PROVE  /\ k \in 1..m /\ First(place, k) \in Affordable
                /\ Cardinality(First(place, k)) = k /\ Worth(First(place, k)) = t[k]
    <2>1. k \in 1..m /\ k <= max /\ t[k] >= target /\ k \in 0..m
      BY <1>8, <1>18 DEF Reaches, m, K
    <2>2. /\ First(place, k) \in SUBSET K /\ Cardinality(First(place, k)) = k
          /\ place[k] \in First(place, k)
      BY <1>8, <2>1, FirstShape
    <2>3. h[First(place, k)] = t[k]
      BY <1>14, <2>1
    <2>4. First(place, k) # {}
      BY <2>2
    <2> QED
      BY <1>12, <1>13, <2>1, <2>2, <2>3, <2>4
  <1>19. outcome.ok <=> Affordable # {}
    BY <1>11, <1>17, <1>18
  <1>20. ASSUME outcome.ok
         PROVE  /\ ids \in Affordable
                /\ outcome.change = Worth(ids) - call.target
                /\ Cardinality(ids) = Len(outcome.selected)
                /\ \A coins \in Affordable : Cardinality(ids) <= Cardinality(coins)
    <2>1. PICK k : IsShortest(outcome, k, notes, target, max, t)
      BY <1>11, <1>20
    <2>2. /\ Reaches(k, notes, target, max, t)
          /\ \A j : Reaches(j, notes, target, max, t) => k <= j
          /\ outcome.selected = [i \in 1..k |-> notes[place[i]]]
          /\ outcome.change = t[k] - target
      BY <2>1 DEF IsShortest, place, K
    <2>3. /\ k \in 1..m /\ First(place, k) \in Affordable
          /\ Cardinality(First(place, k)) = k /\ Worth(First(place, k)) = t[k]
      BY <1>18, <2>2
    <2>4. \A i \in 1..k : i \in 1..m /\ place[i] \in 1..n
      <3>1. \A i \in 1..m : place[i] \in K
        BY <1>8 DEF Bijection, Injection
      <3>2. \A i \in 1..k : i \in 1..m
        BY <1>8, <2>3
      <3>3. \A x \in K : x \in 1..n
        BY <1>8, Zenon
      <3> QED
        BY <3>1, <3>2, <3>3, Zenon
    <2>5. /\ DOMAIN outcome.selected = 1..k
          /\ \A i \in 1..k : outcome.selected[i].id = place[i]
      BY <1>4, <2>2, <2>4 DEF notes
    <2>6. ids = First(place, k)
      BY <2>5, Zenon DEF ids, First
    <2>7. Len(outcome.selected) = k
      BY <1>8, <2>2, <2>3
    <2>8. \A coins \in Affordable : k <= Cardinality(coins)
      BY <1>17, <2>2
    <2> QED
      BY <2>2, <2>3, <2>6, <2>7, <2>8 DEF target
  <1> QED
    BY <1>19, <1>20

(***************************************************************************)
(* The table.                                                              *)
(***************************************************************************)
\* Home(h, d): the slot d places after the home of the hash h.
Home(h, d) == (h + d) % TableSize

\* ModuloFacts: what of the division by q the probing of a table needs.
LEMMA ModuloFacts ==
    ASSUME NEW q \in Nat \ {0}, NEW h \in Nat
    PROVE  /\ \A d \in Nat : (h + d) % q \in 0..(q - 1)
           /\ \A p \in 0..(q - 1) : \E d \in 0..(q - 1) : (h + d) % q = p
           /\ \A d \in Nat : ((h % q) + d) % q = (h + d) % q
  <1> DEFINE a == h \div q
             r == h % q
  <1>1. a \in Nat /\ r \in 0..(q - 1) /\ h = q * a + r
    OBVIOUS
  <1> HIDE DEF a, r
  <1>2. \A b \in Nat, w \in 0..(q - 1) : (q * b + w) % q = w
    OBVIOUS
  <1>3. \A d \in Nat : (h + d) % q \in 0..(q - 1)
    OBVIOUS
  <1>4. ASSUME NEW p \in 0..(q - 1) PROVE \E d \in 0..(q - 1) : (h + d) % q = p
    <2>1. CASE r <= p
      <3>1. p - r \in 0..(q - 1) /\ h + (p - r) = q * a + p
        BY <1>1, <2>1
      <3>2. (q * a + p) % q = p
        BY <1>1, <1>2
      <3> QED
        BY <3>1, <3>2
    <2>2. CASE ~ (r <= p)
      <3>1. (p - r) + q \in 0..(q - 1) /\ h + ((p - r) + q) = (q * a + q) + p
        BY <1>1, <2>2
      <3>2. q * a + q = q * (a + 1) /\ a + 1 \in Nat
        BY <1>1
      <3>3. (q * (a + 1) + p) % q = p
        BY <1>2, <3>2
      <3> QED
        BY <3>1, <3>2, <3>3
    <2> QED
      BY <2>1, <2>2
  <1>5. ASSUME NEW d \in Nat PROVE (r + d) % q = (h + d) % q
    <2> DEFINE b == (r + d) \div q
               w == (r + d) % q
    <2>1. b \in Nat /\ w \in 0..(q - 1) /\ r + d = q * b + w
      BY <1>1
    <2> HIDE DEF b, w
    <2>2. h + d = (q * a + q * b) + w
      BY <1>1, <2>1
    <2>3. q * a + q * b = q * (a + b) /\ a + b \in Nat
      BY <1>1, <2>1
    <2>4. (q * (a + b) + w) % q = w
      BY <1>2, <2>1, <2>3
    <2>5. (h + d) % q = w
      BY <2>2, <2>3, <2>4
    <2> QED
      BY <2>5 DEF w
  <1> QED
    BY <1>3, <1>4, <1>5 DEF r

\* What a slot may hold.
SlotRecord == [hash : Nat, signalid : Nat, signalsize : Nat]

\* Holds(map, k, hashes): the table holds the first k hashes, each at the end of a run
\* of taken slots from its home on, and its other slots are empty.
Holds(map, k, hashes) ==
    /\ map \in [0..(TableSize - 1) -> SlotRecord]
    /\ \A p \in 0..(TableSize - 1) : map[p].signalid = 0 => map[p].hash = 0
    /\ \A p \in 0..(TableSize - 1) : map[p].signalid # 0 =>
          /\ map[p].signalid \in 1..k
          /\ map[p].hash = hashes[map[p].signalid]
          /\ \E d \in 0..(TableSize - 1) :
                /\ p = Home(map[p].hash, d)
                /\ \A e \in 0..(d - 1) : map[Home(map[p].hash, e)].signalid # 0
    /\ \A j \in 1..k : \E p \in 0..(TableSize - 1) : map[p].signalid = j
    /\ \A p, q \in 0..(TableSize - 1) :
          map[p].signalid # 0 /\ map[p].signalid = map[q].signalid => p = q

\* SlotLeft: a table that holds fewer hashes than it has slots has one left.
LEMMA SlotLeft ==
    ASSUME NEW map, NEW hashes, NEW k \in Nat, k < TableSize, Holds(map, k, hashes)
    PROVE  \E p \in 0..(TableSize - 1) : map[p].signalid = 0
  <1> DEFINE S == 0..(TableSize - 1)
             I == 1..k
             f == [p \in S |-> map[p].signalid]
  <1>1. TableSize \in Nat \ {0}
    BY CallAssumption
  <1>2. SUFFICES ASSUME \A p \in S : map[p].signalid # 0 PROVE FALSE
    OBVIOUS
  <1>3. f \in [S -> I]
    BY <1>2 DEF Holds
  <1>4. /\ IsFiniteSet(S) /\ Cardinality(S) = TableSize
        /\ IsFiniteSet(I) /\ Cardinality(I) = k
    <2>1. IsFiniteSet(S) /\ Cardinality(S) = TableSize
      BY <1>1, FS_Interval
    <2>2. IsFiniteSet(I) /\ Cardinality(I) = k
      BY FS_Interval
    <2> QED
      BY <2>1, <2>2
  <1>5. \A p, q \in S : f[p] = f[q] => p = q
    <2>1. \A p, q \in S : map[p].signalid # 0 /\ map[p].signalid = map[q].signalid => p = q
      BY Zenon DEF Holds
    <2> QED
      BY <1>2, <2>1
  <1> HIDE DEF S, I, f
  <1>6. Cardinality(I) < Cardinality(S)
    BY <1>4
  <1>7. \E p, q \in S : p # q /\ f[p] = f[q]
    BY <1>3, <1>4, <1>6, FS_PigeonHole
  <1> QED
    BY <1>5, <1>7

\* InsertHolds: Insert adds the next hash to such a table.
LEMMA InsertHolds ==
    ASSUME NEW map, NEW hashes, NEW k \in Nat, k < TableSize, Holds(map, k, hashes),
           hashes[k + 1] \in Hashes
    PROVE  Holds(Insert(map, k + 1, hashes[k + 1]), k + 1, hashes)
  <1> DEFINE S == 0..(TableSize - 1)
             h == hashes[k + 1]
             X == {x \in S : map[Home(h, x)].signalid = 0}
             d == Min(X)
             p0 == Home(h, d)
             new == [hash |-> h, signalid |-> k + 1, signalsize |-> 1]
             map2 == Insert(map, k + 1, h)
  <1>1. TableSize \in Nat \ {0} /\ h \in Nat \ {0}
    BY CallAssumption
  <1>2. \A x \in Nat : Home(h, x) \in S
    BY <1>1, ModuloFacts DEF Home
  <1>3. X # {} /\ X \in SUBSET Nat
    <2>1. PICK p \in S : map[p].signalid = 0
      BY SlotLeft
    <2>2. PICK x \in S : Home(h, x) = p
      BY <1>1, ModuloFacts DEF Home
    <2>3. x \in X
      BY <2>1, <2>2
    <2> QED
      BY <1>1, <2>3
  <1>4. d \in X /\ \A x \in X : d <= x
    <2> HIDE DEF X
    <2> QED
      BY <1>3, LeastElement
  <1>5. map2 = [map EXCEPT ![p0] = new]
    BY DEF Insert, Home
  <1> HIDE DEF d, map2
  <1>6. d \in S /\ d \in Nat /\ p0 \in S /\ map[p0].signalid = 0
    BY <1>1, <1>2, <1>4
  <1>7. \A e \in 0..(d - 1) : Home(h, e) \in S /\ map[Home(h, e)].signalid # 0
    <2>1. ASSUME NEW e \in 0..(d - 1) PROVE Home(h, e) \in S /\ map[Home(h, e)].signalid # 0
      <3>1. e \in S /\ e \in Nat /\ ~ (d <= e)
        BY <1>1, <1>6
      <3>2. e \notin X
        BY <1>4, <3>1
      <3> QED
        BY <1>2, <3>1, <3>2
    <2> QED
      BY <2>1
  <1> HIDE DEF p0, X, new, S
  <1>8. map \in [S -> SlotRecord]
    BY DEF Holds, S
  <1>9. map2[p0] = new /\ \A p \in S : p # p0 => map2[p] = map[p]
    BY <1>5, <1>6, <1>8
  <1>10. new.hash = h /\ new.signalid = k + 1 /\ new.signalsize = 1 /\ new \in SlotRecord
    BY <1>1 DEF new, SlotRecord
  <1>11. map2 \in [S -> SlotRecord]
    BY <1>5, <1>6, <1>8, <1>10
  <1>12. /\ \A p \in S : map[p].signalid = 0 => map[p].hash = 0
         /\ \A p \in S : map[p].signalid # 0 =>
                /\ map[p].signalid \in 1..k
                /\ map[p].hash = hashes[map[p].signalid]
                /\ \E x \in S : /\ p = Home(map[p].hash, x)
                                /\ \A e \in 0..(x - 1) : map[Home(map[p].hash, e)].signalid # 0
         /\ \A j \in 1..k : \E p \in S : map[p].signalid = j
         /\ \A p, q \in S : map[p].signalid # 0 /\ map[p].signalid = map[q].signalid => p = q
    BY DEF Holds, S
  <1>13. k + 1 # 0 /\ \A j \in 1..k : j \in 1..(k + 1) /\ j # k + 1
    OBVIOUS
  <1>14. \A p \in S : map[p].signalid # 0 => map2[p].signalid # 0
    BY <1>9, <1>10, <1>13
  <1>15. \A p \in S : map2[p].signalid = 0 => map2[p].hash = 0
    BY <1>9, <1>10, <1>12, <1>13
  <1>16. ASSUME NEW p \in S, map2[p].signalid # 0
         PROVE  /\ map2[p].signalid \in 1..(k + 1)
                /\ map2[p].hash = hashes[map2[p].signalid]
                /\ \E x \in S : /\ p = Home(map2[p].hash, x)
                                /\ \A e \in 0..(x - 1) : map2[Home(map2[p].hash, e)].signalid # 0
    <2>1. CASE p = p0
      <3>1. k + 1 \in 1..(k + 1) /\ map2[p].hash = h /\ map2[p].signalid = k + 1
        BY <1>9, <1>10, <2>1
      <3>2. \A e \in 0..(d - 1) : map2[Home(h, e)].signalid # 0
        BY <1>7, <1>14
      <3>3. p = Home(h, d)
        BY <2>1 DEF p0
      <3> QED
        BY <1>6, <3>1, <3>2, <3>3
    <2>2. CASE p # p0
      <3>1. map2[p] = map[p]
        BY <1>9, <2>2
      <3>2. PICK x \in S : /\ p = Home(map[p].hash, x)
                           /\ \A e \in 0..(x - 1) : map[Home(map[p].hash, e)].signalid # 0
        BY <1>12, <1>16, <3>1
      <3>3. map[p].hash \in Nat
        BY <1>8 DEF SlotRecord
      <3>4. ASSUME NEW e \in 0..(x - 1) PROVE map2[Home(map[p].hash, e)].signalid # 0
        <4>1. e \in Nat
          <5>1. x \in Int
            BY <1>1 DEF S
          <5> QED
            BY <5>1
        <4>2. Home(map[p].hash, e) \in S
          BY <1>1, <3>3, <4>1, ModuloFacts DEF Home, S
        <4> QED
          BY <1>14, <3>2, <4>2
      <3>5. map[p].signalid \in 1..k /\ map[p].hash = hashes[map[p].signalid]
        BY <1>12, <1>16, <3>1
      <3>6. map2[p].signalid \in 1..(k + 1) /\ map2[p].hash = hashes[map2[p].signalid]
        BY <1>13, <3>1, <3>5
      <3>7. \E y \in S : /\ p = Home(map2[p].hash, y)
                        /\ \A e \in 0..(y - 1) : map2[Home(map2[p].hash, e)].signalid # 0
        <4>1. /\ p = Home(map2[p].hash, x)
              /\ \A e \in 0..(x - 1) : map2[Home(map2[p].hash, e)].signalid # 0
          BY <3>1, <3>2, <3>4, Zenon
        <4> QED
          BY <4>1, Zenon
      <3> QED
        BY <3>6, <3>7, Zenon
    <2> QED
      BY <2>1, <2>2
  <1>17. ASSUME NEW j \in 1..(k + 1) PROVE \E p \in S : map2[p].signalid = j
    <2>1. CASE j = k + 1
      BY <1>6, <1>9, <1>10, <2>1
    <2>2. CASE j # k + 1
      <3>1. j \in 1..k /\ j # 0
        BY <2>2
      <3>2. PICK p \in S : map[p].signalid = j
        BY <1>12, <3>1
      <3>3. p # p0
        BY <1>6, <3>1, <3>2
      <3> QED
        BY <1>9, <3>2, <3>3
    <2> QED
      BY <2>1, <2>2
  <1>18. ASSUME NEW p \in S, NEW q \in S, map2[p].signalid # 0,
                map2[p].signalid = map2[q].signalid
         PROVE  p = q
    <2>1. \A x \in S : x # p0 => map2[x].signalid # k + 1
      <3>1. \A x \in S : map[x].signalid # k + 1
        BY <1>12, <1>13
      <3> QED
        BY <1>9, <3>1
    <2> QED
      BY <1>9, <1>10, <1>12, <1>18, <2>1
  <1>19. Holds(map2, k + 1, hashes)
    BY <1>11, <1>15, <1>16, <1>17, <1>18 DEF Holds, S
  <1> QED
    BY <1>19 DEF map2

\* The table before the first hash.
EmptyTable == [p \in 0..(TableSize - 1) |-> EmptySlot]

\* IsFilling(g, k, hashes, order): g is the fold that fills the table with the hashes of
\* a set of positions.
IsFilling(g, k, hashes, order) ==
    g = [s \in SUBSET (1..k) |->
            IF s = {} THEN EmptyTable
            ELSE Insert(g[s \ {Max(s)}], order[Max(s)], hashes[order[Max(s)]])]

\* FillingExists: there is such a function for every length.
LEMMA FillingExists ==
    ASSUME NEW n \in Nat, NEW a, NEW o
    PROVE  \E g : IsFilling(g, n, a, o)
  <1> DEFINE Bad == {k \in 0..n : ~ \E g : IsFilling(g, k, a, o)}
             Put(map, i) == Insert(map, o[i], a[o[i]])
  <1>1. SUFFICES ASSUME Bad # {} PROVE FALSE
    OBVIOUS
  <1>2. PICK k \in Bad : \A j \in Bad : k <= j
    <2>1. Bad \in SUBSET Nat
      OBVIOUS
    <2> HIDE DEF Bad
    <2> QED
      BY <1>1, <2>1, LeastElement
  <1>3. k \in 0..n /\ ~ \E g : IsFilling(g, k, a, o)
    BY <1>2
  <1>4. k # 0
    <2> DEFINE z == [s \in SUBSET (1..0) |-> EmptyTable]
    <2>1. SUBSET (1..0) = {{}}
      OBVIOUS
    <2>2. IsFilling(z, 0, a, o)
      BY <2>1 DEF IsFilling
    <2> QED
      BY <1>3, <2>2
  <1>5. PICK g : IsFilling(g, k - 1, a, o)
    <2>1. k - 1 \in 0..n /\ ~ (k <= k - 1)
      BY <1>3, <1>4
    <2> QED
      BY <1>2, <2>1
  <1> DEFINE low == SUBSET (1..(k - 1))
             h == [s \in SUBSET (1..k) |-> IF k \in s THEN Put(g[s \ {k}], k) ELSE g[s]]
  <1>6. \A s \in low : g[s] = IF s = {} THEN EmptyTable ELSE Put(g[s \ {Max(s)}], Max(s))
    BY <1>5 DEF IsFilling
  <1> HIDE DEF Put
  <1>7. ASSUME NEW s \in SUBSET (1..k)
        PROVE  h[s] = IF s = {} THEN EmptyTable ELSE Put(h[s \ {Max(s)}], Max(s))
    <2>1. CASE k \in s
      <3>1. s \in SUBSET (0..k) /\ s # {} /\ k \in Nat
        BY <1>3, <2>1
      <3>2. Max(s) \in s /\ \A y \in s : y <= Max(s)
        <4> HIDE DEF h, low
        <4> QED
          BY <3>1, GreatestElement
      <3>3. Max(s) = k
        <4>1. Max(s) \in 1..k
          BY <3>2
        <4>2. k <= Max(s)
          BY <2>1, <3>2, Zenon
        <4> QED
          BY <1>3, <4>1, <4>2
      <3>4. s \ {k} \in SUBSET (1..k) /\ k \notin s \ {k}
        OBVIOUS
      <3>5. h[s \ {k}] = g[s \ {k}]
        BY <3>4
      <3>6. h[s] = Put(g[s \ {k}], k)
        BY <2>1
      <3> QED
        BY <3>1, <3>3, <3>5, <3>6
    <2>2. CASE k \notin s
      <3>1. s \in low
        BY <1>3, <2>2
      <3>2. h[s] = g[s]
        BY <2>2
      <3>3. CASE s = {}
        BY <1>6, <3>1, <3>2, <3>3
      <3>4. CASE s # {}
        <4>1. k \notin s \ {Max(s)} /\ s \ {Max(s)} \in SUBSET (1..k)
          BY <2>2
        <4>2. h[s \ {Max(s)}] = g[s \ {Max(s)}]
          BY <4>1
        <4> HIDE DEF h, low
        <4> QED
          BY <1>6, <3>1, <3>2, <3>4, <4>2
      <3> QED
        BY <3>3, <3>4
    <2> QED
      BY <2>1, <2>2
  <1>8. h = [s \in SUBSET (1..k) |-> h[s]]
    OBVIOUS
  <1> HIDE DEF h
  <1>9. IsFilling(h, k, a, o)
    BY <1>7, <1>8 DEF IsFilling, Put
  <1> QED
    BY <1>3, <1>9

\* TableHolds: the table made of n hashes holds them, up to a full table.
LEMMA TableHolds ==
    ASSUME NEW n \in 0..TableSize, NEW hashes \in [1..n -> Hashes]
    PROVE  Holds(Table(hashes), n, hashes)
  <1> DEFINE o == [k \in DOMAIN hashes |-> k]
             g == CHOOSE f : IsFilling(f, n, hashes, o)
  <1>1. TableSize \in Nat \ {0} /\ n \in Nat /\ n <= TableSize
    BY CallAssumption
  <1>2. IsFilling(g, n, hashes, o)
    BY <1>1, FillingExists
  <1>3. Table(hashes) = g[1..n]
    <2>1. DOMAIN o = 1..n
      OBVIOUS
    <2> QED
      BY <2>1 DEF Table, FoldLeft, MapThenFoldSet, IsFilling, EmptyTable
  <1>4. \A k \in 1..n : o[k] = k
    OBVIOUS
  <1> HIDE DEF g, o
  <1>5. \A s \in SUBSET (1..n) :
           g[s] = IF s = {} THEN EmptyTable
                  ELSE Insert(g[s \ {Max(s)}], o[Max(s)], hashes[o[Max(s)]])
    BY <1>2 DEF IsFilling
  <1> DEFINE Bad == {k \in 0..n : ~ Holds(g[1..k], k, hashes)}
  <1>6. ASSUME Bad # {} PROVE FALSE
    <2>1. PICK k \in Bad : \A j \in Bad : k <= j
      <3>1. Bad \in SUBSET Nat
        BY <1>1
      <3> HIDE DEF Bad
      <3> QED
        BY <1>6, <3>1, LeastElement
    <2>2. k \in 0..n /\ ~ Holds(g[1..k], k, hashes)
      BY <2>1
    <2>3. k # 0
      <3>1. 1..0 = {}
        OBVIOUS
      <3>2. g[1..0] = EmptyTable
        BY <1>5, <3>1
      <3>3. /\ EmptyTable \in [0..(TableSize - 1) -> SlotRecord]
            /\ \A p \in 0..(TableSize - 1) :
                  EmptyTable[p].signalid = 0 /\ EmptyTable[p].hash = 0
        BY DEF EmptyTable, EmptySlot, SlotRecord
      <3>4. Holds(EmptyTable, 0, hashes)
        BY <3>1, <3>3 DEF Holds
      <3> QED
        BY <2>2, <3>2, <3>4
    <2>4. k \in 1..n /\ k - 1 \in 0..n /\ k - 1 \in Nat /\ k - 1 < TableSize /\ ~ (k <= k - 1)
      BY <1>1, <2>2, <2>3
    <2>5. Holds(g[1..(k - 1)], k - 1, hashes)
      BY <2>1, <2>4
    <2>6. g[1..k] = Insert(g[1..(k - 1)], k, hashes[k])
      <3>1. 1..k \in SUBSET (1..n) /\ k \in 1..k /\ (1..k) \ {k} = 1..(k - 1)
        BY <1>1, <2>4
      <3>2. Max(1..k) = k
        BY <2>4, LastOfInterval
      <3>3. 1..k # {}
        BY <3>1
      <3>4. g[1..k] = Insert(g[(1..k) \ {Max(1..k)}], o[Max(1..k)], hashes[o[Max(1..k)]])
        BY <1>5, <3>1, <3>3, Zenon
      <3>5. o[k] = k
        BY <1>4, <2>4
      <3> QED
        BY <3>1, <3>2, <3>4, <3>5
    <2> DEFINE c == k - 1
    <2>7. c + 1 = k /\ hashes[k] \in Hashes /\ c \in Nat /\ c < TableSize
      BY <2>4
    <2> HIDE DEF c
    <2>8. Holds(g[1..c], c, hashes)
      BY <2>5 DEF c
    <2>9. Holds(Insert(g[1..c], c + 1, hashes[c + 1]), c + 1, hashes)
      BY <2>7, <2>8, InsertHolds
    <2>10. Holds(Insert(g[1..c], k, hashes[k]), k, hashes)
      BY <2>7, <2>9
    <2> QED
      BY <2>2, <2>6, <2>10 DEF c
  <1>7. Holds(g[1..n], n, hashes)
    <2>1. n \in 0..n
      BY <1>1
    <2> QED
      BY <1>6, <2>1
  <1> QED
    BY <1>3, <1>7

\* ProbingFinds: the search finds what such a table holds, and nothing else.
LEMMA ProbingFinds ==
    ASSUME NEW n \in Nat, NEW hashes \in [1..n -> Hashes], NEW map, Holds(map, n, hashes),
           NEW h \in Hashes
    PROVE  LET pos == GetInputSignalHashPosition(map, h) IN
           IF \E j \in 1..n : hashes[j] = h
           THEN pos \in DOMAIN map /\ map[pos].hash = h
           ELSE pos = NotFound
  <1> DEFINE S == 0..(TableSize - 1)
             pos == GetInputSignalHashPosition(map, h)
             home == h % TableSize
             Slot(k) == (home + k) % TableSize
             stops == {k \in 1..(TableSize - 1) : map[Slot(k)].hash = h \/ map[Slot(k)].signalid = 0}
             stop == Slot(Min(stops))
  <1>1. TableSize \in Nat \ {0} /\ h \in Nat \ {0}
    BY CallAssumption
  <1>2. DOMAIN map = S
    BY DEF Holds
  <1>3. Cardinality(S) = TableSize
    BY <1>1, FS_Interval
  <1>4. pos = IF map[home].hash = h THEN home
              ELSE IF stops = {} THEN NotFound
              ELSE IF map[stop].hash = h THEN stop ELSE NotFound
    BY <1>2, <1>3 DEF GetInputSignalHashPosition
  <1>5. /\ \A d \in Nat : Home(h, d) \in S /\ Slot(d) = Home(h, d)
        /\ home \in S /\ Home(h, 0) = home
    <2>1. /\ \A d \in Nat : (h + d) % TableSize \in 0..(TableSize - 1)
          /\ \A d \in Nat : ((h % TableSize) + d) % TableSize = (h + d) % TableSize
      BY <1>1, ModuloFacts
    <2>2. h + 0 = h /\ 0 \in Nat
      BY <1>1
    <2>3. Home(h, 0) = home
      BY <2>2 DEF Home
    <2>4. \A d \in Nat : Home(h, d) \in S /\ Slot(d) = Home(h, d)
      BY <2>1, Zenon DEF Home
    <2> QED
      BY <2>2, <2>3, <2>4, Zenon
  <1> HIDE DEF pos, home, S, Slot
  <1>6. stops # {} => Min(stops) \in stops /\ \A k \in stops : Min(stops) <= k
    <2>1. stops \in SUBSET Nat
      BY <1>1
    <2> HIDE DEF stops
    <2> QED
      BY <2>1, LeastElement
  <1>7. /\ \A p \in S : map[p].signalid = 0 => map[p].hash = 0
        /\ \A p \in S : map[p].signalid # 0 =>
              /\ map[p].signalid \in 1..n
              /\ map[p].hash = hashes[map[p].signalid]
              /\ \E d \in S : /\ p = Home(map[p].hash, d)
                              /\ \A e \in 0..(d - 1) : map[Home(map[p].hash, e)].signalid # 0
        /\ \A j \in 1..n : \E p \in S : map[p].signalid = j
    BY DEF Holds, S
  <1>8. ASSUME NEW j \in 1..n, hashes[j] = h
        PROVE  pos \in DOMAIN map /\ map[pos].hash = h
    <2>1. PICK p \in S : map[p].signalid = j
      BY <1>7
    <2>2. map[p].signalid # 0 /\ map[p].hash = h
      BY <1>7, <1>8, <2>1
    <2>3. PICK d \in S : /\ p = Home(h, d)
                         /\ \A e \in 0..(d - 1) : map[Home(h, e)].signalid # 0
      BY <1>7, <2>2
    <2>4. CASE map[home].hash = h
      BY <1>2, <1>4, <1>5, <2>4
    <2>5. CASE map[home].hash # h
      <3>1. d # 0
        BY <1>5, <2>2, <2>3, <2>5
      <3>2. d \in 1..(TableSize - 1) /\ d \in Nat
        BY <1>1, <3>1 DEF S
      <3>3. d \in stops
        BY <1>5, <2>2, <2>3, <3>2
      <3> DEFINE k == Min(stops)
      <3>4. k \in stops /\ k <= d
        <4> HIDE DEF stops
        <4> QED
          BY <1>6, <3>3
      <3> HIDE DEF k
      <3>5. k \in 1..(TableSize - 1) /\ (map[Slot(k)].hash = h \/ map[Slot(k)].signalid = 0)
        BY <3>4
      <3>6. k \in Nat /\ Slot(k) = Home(h, k) /\ Slot(k) \in S
        BY <1>5, <3>5
      <3>7. map[Slot(k)].hash = h
        <4>1. CASE k = d
          BY <2>2, <2>3, <3>6, <4>1
        <4>2. CASE k # d
          <5>1. k \in 0..(d - 1)
            BY <3>2, <3>4, <3>6, <4>2
          <5>2. map[Slot(k)].signalid # 0
            BY <2>3, <3>6, <5>1
          <5> QED
            BY <3>5, <5>2
        <4> QED
          BY <4>1, <4>2
      <3>8. stops # {}
        BY <3>3
      <3>9. pos = Slot(k)
        <4> HIDE DEF stops
        <4> QED
          BY <1>4, <2>5, <3>7, <3>8 DEF k
      <3> QED
        BY <1>2, <3>6, <3>7, <3>9
    <2> QED
      BY <2>4, <2>5
  <1>9. ASSUME ~ \E j \in 1..n : hashes[j] = h
        PROVE  pos = NotFound
    <2>1. \A p \in S : map[p].hash # h
      BY <1>1, <1>7, <1>9
    <2>2. ASSUME stops # {} PROVE stop \in S
      <3>1. Min(stops) \in Nat
        <4>1. Min(stops) \in stops
          <5> HIDE DEF stops
          <5> QED
            BY <1>6, <2>2
        <4> QED
          BY <4>1
      <3> HIDE DEF stops
      <3> QED
        BY <1>5, <3>1
    <2> HIDE DEF stop, stops
    <2> QED
      BY <1>4, <1>5, <2>1, <2>2
  <1>10. IF \E j \in 1..n : hashes[j] = h
         THEN pos \in DOMAIN map /\ map[pos].hash = h
         ELSE pos = NotFound
    BY <1>8, <1>9
  <1> QED
    BY <1>10 DEF pos

(***************************************************************************)
(* The specification.                                                      *)
(***************************************************************************)
\* CallInv: an outcome is that of the call.
CallInv ==
    /\ call \in Selections \cup Lookups
    /\ outcome # None =>
          \/ /\ call.fn = "select"
             /\ outcome = SelectNotesForTransfer(call.notes, call.target, call.maxNotes)
          \/ /\ call.fn = "lookup"
             /\ outcome = [position |-> GetInputSignalHashPosition(Table(call.hashes), call.h)]

\* CallInvariant: CallInv is inductive.
LEMMA CallInvariant == Spec => []CallInv
  <1>1. Init => CallInv
    BY DEF Init, CallInv
  <1>2. CallInv /\ [Select \/ Lookup]_vars => CallInv'
    BY DEF CallInv, Select, Lookup, vars
  <1> QED
    BY <1>1, <1>2, PTL DEF Spec

\* CallKinds: the calls that are selections.
LEMMA CallKinds ==
    ASSUME call \in Selections \cup Lookups
    PROVE  /\ call.fn = "select" => call \in Selections
           /\ call.fn = "lookup" => call \in Lookups
  BY DEF Selections, Lookups

\* CompleteAlways: for every store, target and positive limit, the greedy loop of
\* selectNotesForTransfer fails only when no choice of notes would do.
THEOREM CompleteAlways == Spec => []SelectionComplete
  <1>1. CallInv => SelectionComplete
    BY CallKinds, SelectionDecided DEF CallInv, SelectionComplete, Answered
  <1> QED
    BY <1>1, CallInvariant, PTL

\* MinimalAlways: for every store, target and positive limit, what selectNotesForTransfer selects
\* is affordable, and no choice of fewer notes is.
THEOREM MinimalAlways == Spec => []SelectionMinimal
  <1>1. CallInv => SelectionMinimal
    <2>1. ASSUME CallInv, Selected
          PROVE  /\ call \in Selections /\ outcome.ok
                 /\ outcome = SelectNotesForTransfer(call.notes, call.target, call.maxNotes)
      BY <2>1, CallKinds DEF CallInv, Selected, Answered
    <2>2. ASSUME CallInv, Selected
          PROVE  /\ ids \in Affordable
                 /\ outcome.change = Worth(ids) - call.target
                 /\ Cardinality(ids) = Len(outcome.selected)
                 /\ \A coins \in Affordable : Cardinality(ids) <= Cardinality(coins)
      BY <2>1, <2>2, SelectionDecided, Zenon
    <2> QED
      BY <2>2, Zenon DEF SelectionMinimal
  <1> QED
    BY <1>1, CallInvariant, PTL

\* FindsAlways: for every table that linear probing can build, of any size and up to a
\* full one, getInputSignalHashPosition finds every input, and no other name.
THEOREM FindsAlways == Spec => []LookupFinds
  <1>1. ASSUME CallInv, Answered("lookup")
        PROVE  LET map == Table(call.hashes) IN
               IF call.h \in ToSet(call.hashes)
               THEN outcome.position \in DOMAIN map /\ map[outcome.position].hash = call.h
               ELSE outcome.position = NotFound
    <2> DEFINE map == Table(call.hashes)
               pos == GetInputSignalHashPosition(map, call.h)
    <2>1. call \in Lookups /\ outcome = [position |-> pos]
      BY <1>1, CallKinds DEF CallInv, Answered
    <2>2. call.h \in Hashes /\ \E n \in 0..TableSize : call.hashes \in [1..n -> Hashes]
      BY <2>1 DEF Lookups
    <2>3. PICK n \in 0..TableSize : call.hashes \in [1..n -> Hashes]
      BY <2>2
    <2>4. n \in Nat
      BY CallAssumption
    <2>5. Holds(map, n, call.hashes)
      BY <2>3, TableHolds
    <2>6. outcome.position = pos
      BY <2>1
    <2>7. call.h \in ToSet(call.hashes) <=> \E j \in 1..n : call.hashes[j] = call.h
      BY <2>3 DEF ToSet
    <2> DEFINE hs == call.hashes
               h == call.h
    <2> HIDE DEF map, hs, h
    <2>8. IF \E j \in 1..n : hs[j] = h
          THEN pos \in DOMAIN map /\ map[pos].hash = h
          ELSE pos = NotFound
      <3>1. hs \in [1..n -> Hashes] /\ h \in Hashes /\ Holds(map, n, hs)
        BY <2>2, <2>3, <2>5 DEF hs, h
      <3>2. pos = GetInputSignalHashPosition(map, h)
        BY DEF h
      <3> HIDE DEF pos
      <3> QED
        BY <2>4, <3>1, <3>2, ProbingFinds
    <2> HIDE DEF pos
    <2>9. IF call.h \in ToSet(call.hashes)
          THEN outcome.position \in DOMAIN map /\ map[outcome.position].hash = call.h
          ELSE outcome.position = NotFound
      BY <2>6, <2>7, <2>8 DEF hs, h
    <2> QED
      BY <2>9 DEF map
  <1>2. CallInv => LookupFinds
    BY <1>1 DEF LookupFinds
  <1> QED
    BY <1>2, CallInvariant, PTL
=============================================================================
