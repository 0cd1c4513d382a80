------------------------ MODULE TransferCircuitProofs -----------------------
(***************************************************************************)
(* The circuit and its adapter, for every number of slots, every depth of  *)
(* the tree, every field and all notes.                                    *)
(***************************************************************************)
EXTENDS TransferCircuit, CoinSelectionProofs

(***************************************************************************)
(* Elements, and the arithmetic the tree and the sums need.                *)
(***************************************************************************)
\* HashIsNoLiteral: no hash is a literal, the padding's zero in particular.
LEMMA HashIsNoLiteral ==
    ASSUME NEW xs, NEW n
    PROVE  Poseidon(xs) # Lit(n)
  <1>1. DOMAIN [poseidon |-> xs] = {"poseidon"} /\ DOMAIN [lit |-> n % FieldPrime] = {"lit"}
    OBVIOUS
  <1> QED
    BY <1>1 DEF Poseidon, Lit

\* PowerOfTwo: the number of subsets of 1..k doubles with k.
LEMMA PowerOfTwo ==
    ASSUME NEW k \in Nat
    PROVE  /\ 2^k \in Nat \ {0} /\ 2^0 = 1
           /\ 2^(k + 1) = 2 * 2^k
  <1> DEFINE S == 1..k
             T == 1..(k + 1)
             A == SUBSET S
             B == {s \cup {k + 1} : s \in A}
             f == [s \in A |-> s \cup {k + 1}]
  <1>1. IsFiniteSet(S) /\ Cardinality(S) = k /\ IsFiniteSet(T) /\ Cardinality(T) = k + 1
    BY FS_Interval
  <1>2. /\ IsFiniteSet(A) /\ Cardinality(A) = 2^k
        /\ IsFiniteSet(SUBSET T) /\ Cardinality(SUBSET T) = 2^(k + 1)
    <2>1. IsFiniteSet(A) /\ Cardinality(A) = 2^Cardinality(S)
      BY <1>1, FS_SUBSET
    <2>2. IsFiniteSet(SUBSET T) /\ Cardinality(SUBSET T) = 2^Cardinality(T)
      BY <1>1, FS_SUBSET
    <2> QED
      BY <1>1, <2>1, <2>2
  <1>3. k + 1 \notin S /\ T = S \cup {k + 1}
    OBVIOUS
  <1>4. SUBSET T = A \cup B /\ A \cap B = {}
    <2> HIDE DEF S, T
    <2>1. ASSUME NEW s \in SUBSET T PROVE s \in A \cup B
      <3>1. CASE k + 1 \in s
        <4>1. s \ {k + 1} \in A /\ s = (s \ {k + 1}) \cup {k + 1}
          BY <1>3, <3>1
        <4> QED
          BY <4>1
      <3>2. CASE k + 1 \notin s
        BY <1>3, <3>2
      <3> QED
        BY <3>1, <3>2
    <2>2. A \cup B \subseteq SUBSET T
      BY <1>3
    <2>3. A \cap B = {}
      BY <1>3
    <2> QED
      BY <2>1, <2>2, <2>3
  <1>5. IsFiniteSet(B) /\ Cardinality(B) = Cardinality(A)
    <2> HIDE DEF S, T
    <2>1. f \in Surjection(A, B)
      <3>1. \A s \in A : f[s] = s \cup {k + 1} /\ f[s] \in B
        OBVIOUS
      <3>2. f \in [A -> B]
        BY <3>1
      <3>3. \A r \in B : \E s \in A : f[s] = r
        BY <3>1
      <3> HIDE DEF A, B, f
      <3> QED
        BY <3>2, <3>3 DEF Surjection
    <2>2. \A s, r \in A : s \cup {k + 1} = r \cup {k + 1} => s = r
      BY <1>3
    <2>3. f \in Injection(A, B)
      <3>1. f \in [A -> B] /\ \A s, r \in A : f[s] = f[r] => s = r
        BY <2>1, <2>2 DEF Surjection
      <3> HIDE DEF A, B, f
      <3> QED
        BY <3>1 DEF Injection, IsInjective
    <2>4. f \in Bijection(A, B)
      BY <2>1, <2>3 DEF Bijection
    <2>5. ExistsBijection(A, B)
      <3> HIDE DEF A, B, f
      <3> QED
        BY <2>4 DEF ExistsBijection
    <2> HIDE DEF A, B, f
    <2> QED
      BY <1>2, <2>5, FS_Bijection
  <1>6. Cardinality(SUBSET T) = Cardinality(A) + Cardinality(B) - Cardinality(A \cap B)
    <2> HIDE DEF A, B, T
    <2> QED
      BY <1>2, <1>4, <1>5, FS_Union
  <1>7. Cardinality(A \cap B) = 0
    BY <1>4, FS_EmptySet
  <1>8. Cardinality(A) \in Nat /\ Cardinality(A) # 0
    <2>1. {} \in A
      OBVIOUS
    <2> HIDE DEF A
    <2> QED
      BY <1>2, <2>1, FS_CardinalityType, FS_EmptySet
  <1>9. 2^0 = 1
    <2>1. IsFiniteSet({}) /\ Cardinality({}) = 0
      BY FS_EmptySet
    <2>2. Cardinality(SUBSET {}) = 2^Cardinality({})
      BY <2>1, FS_SUBSET
    <2>3. SUBSET {} = {{}} /\ Cardinality({{}}) = 1
      BY FS_Singleton
    <2> QED
      BY <2>1, <2>2, <2>3
  <1> HIDE DEF A, B, S, T
  <1> QED
    BY <1>2, <1>5, <1>6, <1>7, <1>8, <1>9

\* Halving: the node above a node, and which of its two children that node is.
LEMMA Halving ==
    ASSUME NEW x \in Nat, NEW k \in Nat
    PROVE  /\ x \div 2^k \in Nat /\ (x \div 2^k) % 2 \in {0, 1}
           /\ x \div 2^k = 2 * (x \div 2^(k + 1)) + ((x \div 2^k) % 2)
  <1> DEFINE p == 2^k
             a == x \div p
             b == x \div (2 * p)
  <1>1. p \in Nat \ {0} /\ 2^(k + 1) = 2 * p
    BY PowerOfTwo
  <1> HIDE DEF p
  <1>2. a \in Nat /\ p * a <= x /\ x < p * (a + 1)
    BY <1>1
  <1>3. b \in Nat /\ (2 * p) * b <= x /\ x < (2 * p) * (b + 1)
    BY <1>1
  <1> HIDE DEF a, b
  <1>4. \A u, v \in Nat : p * u < p * v => u < v
    BY <1>1
  <1>5. p * (2 * b) < p * (a + 1) /\ p * a < p * (2 * b + 2)
    <2>1. p * (2 * b) = (2 * p) * b /\ p * (2 * b + 2) = (2 * p) * (b + 1)
      BY <1>1, <1>3
    <2> QED
      BY <1>1, <1>2, <1>3, <2>1
  <1>6. 2 * b < a + 1 /\ a < 2 * b + 2
    <2>1. 2 * b \in Nat /\ a + 1 \in Nat /\ 2 * b + 2 \in Nat
      BY <1>2, <1>3
    <2> QED
      BY <1>2, <1>4, <1>5, <2>1
  <1>7. a = 2 * b \/ a = 2 * b + 1
    BY <1>2, <1>3, <1>6
  <1>8. a % 2 \in {0, 1} /\ a = 2 * b + (a % 2)
    <2>1. \A m \in Nat : (2 * m) % 2 = 0 /\ (2 * m + 1) % 2 = 1
      OBVIOUS
    <2>2. CASE a = 2 * b
      <3>1. a % 2 = 0
        BY <1>3, <2>1, <2>2
      <3> QED
        BY <1>2, <2>2, <3>1
    <2>3. CASE a = 2 * b + 1
      <3>1. a % 2 = 1
        BY <1>3, <2>1, <2>3
      <3> QED
        BY <1>2, <2>3, <3>1
    <2> QED
      BY <1>7, <2>2, <2>3
  <1> QED
    BY <1>1, <1>2, <1>8 DEF a, b, p

\* ModularSum: a sum may be reduced at every step.
LEMMA ModularSum ==
    ASSUME NEW q \in Nat \ {0}, NEW x \in Nat, NEW y \in Nat
    PROVE  ((x % q) + (y % q)) % q = (x + y) % q /\ x % q \in Nat
  <1> DEFINE a == x \div q
             b == y \div q
             r == x % q
             s == y % q
  <1>1. a \in Nat /\ r \in 0..(q - 1) /\ x = q * a + r
    OBVIOUS
  <1>2. b \in Nat /\ s \in 0..(q - 1) /\ y = q * b + s
    OBVIOUS
  <1> HIDE DEF a, b, r, s
  <1>3. x + y = q * (a + b) + (r + s)
    BY <1>1, <1>2
  <1>4. ASSUME NEW c \in Nat, NEW z \in Nat PROVE (q * c + z) % q = z % q
    <2> DEFINE d == z \div q
               w == z % q
    <2>1. d \in Nat /\ w \in 0..(q - 1) /\ z = q * d + w
      OBVIOUS
    <2> HIDE DEF d, w
    <2>2. q * c + z = q * (c + d) + w /\ c + d \in Nat
      BY <2>1
    <2>3. \A m \in Nat : (q * m + w) % q = w
      BY <2>1
    <2>4. (q * c + z) % q = w
      BY <2>2, <2>3
    <2> QED
      BY <2>4 DEF w
  <1>5. a + b \in Nat /\ r + s \in Nat
    BY <1>1, <1>2
  <1>6. (x + y) % q = (r + s) % q
    <2>1. (q * (a + b) + (r + s)) % q = (r + s) % q
      BY <1>4, <1>5
    <2> QED
      BY <1>3, <2>1, Zenon
  <1>7. r \in Nat
    BY <1>1
  <1> QED
    BY <1>6, <1>7 DEF r, s

\* SameResidue: numbers have one residue exactly when they differ by a multiple.
LEMMA SameResidue ==
    ASSUME NEW q \in Nat \ {0}, NEW x \in Nat, NEW y \in Nat
    PROVE  x % q = y % q <=> \E k \in Int : x = y + k * q
  <1> DEFINE a == x \div q
             b == y \div q
             r == x % q
             w == y % q
  <1>1. a \in Nat /\ r \in 0..(q - 1) /\ x = q * a + r
    OBVIOUS
  <1>2. b \in Nat /\ w \in 0..(q - 1) /\ y = q * b + w
    OBVIOUS
  <1> HIDE DEF a, b, r, w
  <1>3. ASSUME r = w PROVE \E k \in Int : x = y + k * q
    <2>1. a - b \in Int /\ x = y + (a - b) * q
      BY <1>1, <1>2, <1>3
    <2> QED
      BY <2>1
  <1>4. ASSUME NEW k \in Int, x = y + k * q PROVE r = w
    <2> DEFINE c == b + k - a
    <2>1. c \in Int /\ r - w = q * c
      BY <1>1, <1>2, <1>4
    <2>2. r - w < q /\ -q < r - w
      BY <1>1, <1>2
    <2> HIDE DEF c
    <2>3. \A z \in Int : z >= 1 => q * z >= q
      OBVIOUS
    <2>4. ~ (c >= 1)
      BY <2>1, <2>2, <2>3
    <2>5. ~ (-c >= 1)
      <3>1. -c \in Int /\ q * (-c) = -(q * c)
        BY <2>1
      <3> QED
        BY <1>1, <1>2, <2>1, <2>2, <2>3, <3>1
    <2>6. c = 0
      BY <2>1, <2>4, <2>5
    <2> QED
      BY <1>1, <1>2, <2>1, <2>6
  <1> QED
    BY <1>3, <1>4 DEF r, w

(***************************************************************************)
(* The tree of n leaves, and the path of a leaf.                           *)
(***************************************************************************)
Leaf(i, n) == IF i < n THEN NoteCommitment(Notes[i + 1]) ELSE Lit(0)

\* IsTree(g, k, n): g holds the levels of the tree up to k.
IsTree(g, k, n) ==
    g = [l \in 0..k |-> [i \in 0..(2^(Levels - l) - 1) |->
            IF l = 0 THEN Leaf(i, n) ELSE Poseidon(<<g[l - 1][2 * i], g[l - 1][2 * i + 1]>>)]]

\* TreeExists: there is such a function for every height.
LEMMA TreeExists ==
    ASSUME NEW m \in Nat, NEW n
    PROVE  \E g : IsTree(g, m, n)
  <1> DEFINE Bad == {k \in 0..m : ~ \E g : IsTree(g, k, n)}
  <1>1. SUFFICES ASSUME Bad # {} PROVE FALSE
    OBVIOUS
  <1>2. PICK k \in Bad : \A j \in Bad : k <= j
    <2>1. Bad \in SUBSET Nat
      OBVIOUS
    <2> HIDE DEF Bad
    <2> QED
      BY <1>1, <2>1, LeastElement
  <1>3. k \in 0..m /\ ~ \E g : IsTree(g, k, n)
    BY <1>2
  <1>4. k # 0
    <2> DEFINE z == [l \in 0..0 |-> [i \in 0..(2^(Levels - l) - 1) |-> Leaf(i, n)]]
    <2>1. IsTree(z, 0, n)
      BY DEF IsTree
    <2> QED
      BY <1>3, <2>1
  <1>5. PICK g : IsTree(g, k - 1, n)
    <2>1. k - 1 \in 0..m /\ ~ (k <= k - 1)
      BY <1>3, <1>4
    <2> QED
      BY <1>2, <2>1
  <1> DEFINE h == [l \in 0..k |-> IF l = k
                     THEN [i \in 0..(2^(Levels - k) - 1) |->
                              Poseidon(<<g[k - 1][2 * i], g[k - 1][2 * i + 1]>>)]
                     ELSE g[l]]
             Row(f, l) == [i \in 0..(2^(Levels - l) - 1) |->
                     IF l = 0 THEN Leaf(i, n) ELSE Poseidon(<<f[l - 1][2 * i], f[l - 1][2 * i + 1]>>)]
  <1>6. \A l \in 0..(k - 1) : g[l] = Row(g, l)
    BY <1>5 DEF IsTree
  <1>7. ASSUME NEW l \in 0..k PROVE h[l] = Row(h, l)
    <2>1. CASE l = k
      <3>1. k - 1 \in 0..k /\ k - 1 # k
        BY <1>3, <1>4
      <3>2. h[k - 1] = g[k - 1]
        BY <3>1
      <3>3. h[k] = [i \in 0..(2^(Levels - k) - 1) |-> Poseidon(<<g[k - 1][2 * i], g[k - 1][2 * i + 1]>>)]
        BY <1>3
      <3> QED
        BY <1>4, <2>1, <3>2, <3>3
    <2>2. CASE l # k
      <3>1. l \in 0..(k - 1)
        BY <1>3, <2>2
      <3>2. h[l] = g[l]
        BY <2>2
      <3>3. l # 0 => l - 1 \in 0..k /\ l - 1 # k
        BY <1>3, <2>2
      <3>4. l # 0 => h[l - 1] = g[l - 1]
        BY <3>3
      <3>5. Row(h, l) = Row(g, l)
        <4> HIDE DEF h
        <4>1. CASE l = 0
          BY <4>1
        <4>2. CASE l # 0
          BY <3>4, <4>2
        <4> QED
          BY <4>1, <4>2
      <3> HIDE DEF h, Row
      <3> QED
        BY <1>6, <3>1, <3>2, <3>5
    <2> QED
      BY <2>1, <2>2
  <1>8. h = [l \in 0..k |-> h[l]]
    OBVIOUS
  <1> HIDE DEF h
  <1>9. h = [l \in 0..k |-> Row(h, l)]
    <2> HIDE DEF Row
    <2> QED
      BY <1>7, <1>8
  <1>10. IsTree(h, k, n)
    BY <1>9 DEF IsTree
  <1> QED
    BY <1>3, <1>10

\* TreeNodes: the leaves of the tree, and how a node comes from the two below it.
LEMMA TreeNodes ==
    ASSUME NEW n
    PROVE  /\ \A i \in 0..(2^Levels - 1) : Tree(n)[0][i] = Leaf(i, n)
           /\ \A l \in 1..Levels : \A i \in 0..(2^(Levels - l) - 1) :
                 Tree(n)[l][i] = Poseidon(<<Tree(n)[l - 1][2 * i], Tree(n)[l - 1][2 * i + 1]>>)
  <1> DEFINE t == CHOOSE g : IsTree(g, Levels, n)
  <1>1. Levels \in Nat
    BY CircuitAssumption
  <1>2. IsTree(t, Levels, n)
    BY <1>1, TreeExists
  <1>3. Tree(n) = t
    BY DEF Tree, IsTree, Leaf
  <1> HIDE DEF t
  <1>4. \A l \in 0..Levels : t[l] = [i \in 0..(2^(Levels - l) - 1) |->
            IF l = 0 THEN Leaf(i, n) ELSE Poseidon(<<t[l - 1][2 * i], t[l - 1][2 * i + 1]>>)]
    BY <1>2 DEF IsTree
  <1>5. t[0] = [i \in 0..(2^Levels - 1) |-> Leaf(i, n)]
    <2>1. 0 \in 0..Levels /\ Levels - 0 = Levels
      BY <1>1
    <2> QED
      BY <1>4, <2>1
  <1>6. ASSUME NEW l \in 1..Levels, NEW i \in 0..(2^(Levels - l) - 1)
        PROVE  t[l][i] = Poseidon(<<t[l - 1][2 * i], t[l - 1][2 * i + 1]>>)
    <2>1. l \in 0..Levels /\ l # 0
      BY <1>1
    <2> QED
      BY <1>4, <2>1
  <1> QED
    BY <1>3, <1>5, <1>6

(***************************************************************************)
(* The hashes of a Merkle proof.                                           *)
(***************************************************************************)
IsHashes(h, k, leaf, e, d) ==
    h = [i \in 0..k |-> IF i = 0 THEN leaf
                        ELSE Poseidon(MultiMux1(d[i], h[i - 1], e[i]))]

\* HashesExist: there is such a function for every number of levels.
LEMMA HashesExist ==
    ASSUME NEW m \in Nat, NEW leaf, NEW e, NEW d
    PROVE  \E h : IsHashes(h, m, leaf, e, d)
  <1> DEFINE Bad == {k \in 0..m : ~ \E h : IsHashes(h, k, leaf, e, d)}
  <1>1. SUFFICES ASSUME Bad # {} PROVE FALSE
    OBVIOUS
  <1>2. PICK k \in Bad : \A j \in Bad : k <= j
    <2>1. Bad \in SUBSET Nat
      OBVIOUS
    <2> HIDE DEF Bad
    <2> QED
      BY <1>1, <2>1, LeastElement
  <1>3. k \in 0..m /\ ~ \E h : IsHashes(h, k, leaf, e, d)
    BY <1>2
  <1>4. k # 0
    <2> DEFINE z == [i \in 0..0 |-> leaf]
    <2>1. IsHashes(z, 0, leaf, e, d)
      BY DEF IsHashes
    <2> QED
      BY <1>3, <2>1
  <1>5. PICK g : IsHashes(g, k - 1, leaf, e, d)
    <2>1. k - 1 \in 0..m /\ ~ (k <= k - 1)
      BY <1>3, <1>4
    <2> QED
      BY <1>2, <2>1
  <1> DEFINE Step(i, below) == IF i = 0 THEN leaf
                               ELSE Poseidon(MultiMux1(d[i], below, e[i]))
             h == [i \in 0..k |-> IF i = k THEN Step(k, g[k - 1]) ELSE g[i]]
  <1>6. \A i \in 0..(k - 1) : g[i] = Step(i, g[i - 1])
    BY <1>5 DEF IsHashes
  <1>7. ASSUME NEW i \in 0..k PROVE h[i] = Step(i, h[i - 1])
    <2>1. CASE i = k
      <3>1. k - 1 \in 0..k /\ k - 1 # k /\ k \in 0..k
        BY <1>3, <1>4
      <3>2. h[k - 1] = g[k - 1]
        BY <3>1
      <3>3. h[k] = Step(k, g[k - 1])
        BY <3>1
      <3> HIDE DEF h, Step
      <3> QED
        BY <2>1, <3>2, <3>3
    <2>2. CASE i = 0
      <3>1. 0 \in 0..(k - 1) /\ 0 # k
        BY <1>3, <1>4
      <3> QED
        BY <1>6, <2>2, <3>1
    <2>3. CASE i # k /\ i # 0
      <3>1. i \in 0..(k - 1) /\ i - 1 \in 0..k /\ i - 1 # k
        BY <1>3, <2>3
      <3>2. h[i] = g[i] /\ h[i - 1] = g[i - 1]
        BY <2>3, <3>1
      <3> HIDE DEF h, Step
      <3> QED
        BY <1>6, <3>1, <3>2
    <2> QED
      BY <2>1, <2>2, <2>3
  <1>8. h = [i \in 0..k |-> h[i]]
    OBVIOUS
  <1> HIDE DEF h
  <1>9. h = [i \in 0..k |-> Step(i, h[i - 1])]
    <2> HIDE DEF Step
    <2> QED
      BY <1>7, <1>8
  <1>10. IsHashes(h, k, leaf, e, d)
    BY <1>9 DEF IsHashes
  <1> QED
    BY <1>3, <1>10

\* MerkleHashes: the circuit hashes the leaf with the elements, level by level.
LEMMA MerkleHashes ==
    ASSUME NEW leaf, NEW e, NEW d
    PROVE  \E h : /\ MerkleProof(leaf, e, d) = h[Levels]
                  /\ h[0] = leaf
                  /\ \A i \in 1..Levels : h[i] = Poseidon(MultiMux1(d[i], h[i - 1], e[i]))
  <1> DEFINE h == CHOOSE g : IsHashes(g, Levels, leaf, e, d)
  <1>1. Levels \in Nat
    BY CircuitAssumption
  <1>2. IsHashes(h, Levels, leaf, e, d)
    BY <1>1, HashesExist
  <1>3. MerkleProof(leaf, e, d) = h[Levels]
    BY DEF MerkleProof, IsHashes
  <1> HIDE DEF h
  <1>4. \A i \in 0..Levels : h[i] = IF i = 0 THEN leaf
                                    ELSE Poseidon(MultiMux1(d[i], h[i - 1], e[i]))
    BY <1>2 DEF IsHashes
  <1>5. h[0] = leaf
    <2>1. 0 \in 0..Levels
      BY <1>1
    <2> QED
      BY <1>4, <2>1, Zenon
  <1>6. \A i \in 1..Levels : i \in 0..Levels /\ i # 0
    BY <1>1
  <1> QED
    BY <1>3, <1>4, <1>5, <1>6

\* NodeAt(leaf, l): the number of the node above the leaf at level l.
NodeAt(leaf, l) == (leaf - 1) \div 2^l

\* NodesAbove: the nodes above a leaf are nodes of their levels, each a child of the
\* next, and the one at the top is the root.
LEMMA NodesAbove ==
    ASSUME NEW leaf \in 1..2^Levels
    PROVE  /\ NodeAt(leaf, 0) = leaf - 1
           /\ \A l \in 0..Levels : NodeAt(leaf, l) \in 0..(2^(Levels - l) - 1)
           /\ NodeAt(leaf, Levels) = 0
           /\ \A l \in 1..Levels :
                 /\ NodeAt(leaf, l - 1) % 2 \in {0, 1}
                 /\ NodeAt(leaf, l - 1) = 2 * NodeAt(leaf, l) + (NodeAt(leaf, l - 1) % 2)
  <1> DEFINE at(l) == NodeAt(leaf, l)
             Width(l) == 2^(Levels - l)
             x == leaf - 1
  <1>1. Levels \in Nat
    BY CircuitAssumption
  <1>2. 2^Levels \in Nat \ {0} /\ 2^0 = 1
    BY <1>1, PowerOfTwo
  <1>3. x \in Nat /\ x <= 2^Levels - 1
    BY <1>2
  <1>4. at(0) = x
    <2> HIDE DEF x
    <2>1. x \div 1 = x
      BY <1>3
    <2> QED
      BY <1>2, <2>1 DEF NodeAt, x
  <1>5. \A l \in 1..Levels : /\ at(l) \in Nat /\ at(l - 1) \in Nat
                             /\ at(l - 1) % 2 \in {0, 1}
                             /\ at(l - 1) = 2 * at(l) + (at(l - 1) % 2)
    <2>1. SUFFICES ASSUME NEW l \in 1..Levels
                   PROVE  /\ at(l) \in Nat /\ at(l - 1) \in Nat
                          /\ at(l - 1) % 2 \in {0, 1}
                          /\ at(l - 1) = 2 * at(l) + (at(l - 1) % 2)
      OBVIOUS
    <2>2. l - 1 \in Nat /\ l \in Nat /\ (l - 1) + 1 = l
      BY <1>1
    <2> HIDE DEF x
    <2>3. /\ x \div 2^(l - 1) \in Nat /\ (x \div 2^(l - 1)) % 2 \in {0, 1}
          /\ x \div 2^(l - 1) = 2 * (x \div 2^((l - 1) + 1)) + ((x \div 2^(l - 1)) % 2)
      BY <1>3, <2>2, Halving
    <2>4. x \div 2^l \in Nat
      BY <1>3, <2>2, Halving
    <2> QED
      BY <2>2, <2>3, <2>4 DEF NodeAt, x
  <1>6. \A l \in 0..Levels : at(l) \in 0..(Width(l) - 1)
    <2> DEFINE Bad == {l \in 0..Levels : at(l) \notin 0..(Width(l) - 1)}
    <2>1. SUFFICES ASSUME Bad # {} PROVE FALSE
      OBVIOUS
    <2>2. PICK l \in Bad : \A j \in Bad : l <= j
      <3>1. Bad \in SUBSET Nat
        OBVIOUS
      <3> HIDE DEF Bad
      <3> QED
        BY <2>1, <3>1, LeastElement
    <2>3. l \in 0..Levels /\ at(l) \notin 0..(Width(l) - 1)
      BY <2>2
    <2>4. l # 0
      <3>1. Levels - 0 = Levels /\ x \in 0..(2^Levels - 1)
        BY <1>1, <1>2, <1>3
      <3>2. at(0) \in 0..(Width(0) - 1)
        BY <1>4, <3>1
      <3> QED
        BY <2>3, <3>2
    <2>5. l \in 1..Levels /\ l - 1 \in 0..Levels /\ ~ (l <= l - 1)
      BY <1>1, <2>3, <2>4
    <2>6. at(l - 1) \in 0..(Width(l - 1) - 1)
      BY <2>2, <2>5
    <2>7. Width(l - 1) = 2 * Width(l) /\ Width(l) \in Nat
      <3>1. Levels - l \in Nat /\ Levels - (l - 1) = (Levels - l) + 1
        BY <1>1, <2>5
      <3> QED
        BY <3>1, PowerOfTwo
    <2>8. at(l) \in Nat /\ at(l - 1) \in Nat
          /\ (at(l - 1) = 2 * at(l) + 0 \/ at(l - 1) = 2 * at(l) + 1)
      BY <1>5, <2>5
    <2> HIDE DEF at, Width, Bad
    <2>9. at(l) \in 0..(Width(l) - 1)
      BY <2>6, <2>7, <2>8
    <2> QED
      BY <2>3, <2>9
  <1>7. at(Levels) = 0
    <2>1. Levels - Levels = 0 /\ Levels \in 0..Levels
      BY <1>1
    <2>2. at(Levels) \in 0..(1 - 1)
      BY <1>2, <1>6, <2>1
    <2> QED
      BY <2>2
  <1> QED
    BY <1>4, <1>5, <1>6, <1>7

\* Sibling(leaf, l): the other child of the node above.
Sibling(leaf, l) == IF NodeAt(leaf, l) % 2 = 0 THEN NodeAt(leaf, l) + 1 ELSE NodeAt(leaf, l) - 1

\* PathLeadsToRoot: the circuit's hashes along the path of a leaf that is in the tree
\* are the tree's nodes, up to the root.
LEMMA PathLeadsToRoot ==
    ASSUME NEW n \in 1..Len(Notes), NEW leaf \in 1..n
    PROVE  MerkleProof(NoteCommitment(Notes[leaf]), MerklePath(n, leaf).pathElements,
                       MerklePath(n, leaf).pathIndices) = MerklePath(n, leaf).root
  <1> DEFINE e == [j \in 1..Levels |-> Tree(n)[j - 1][Sibling(leaf, j - 1)]]
             d == [j \in 1..Levels |-> NodeAt(leaf, j - 1) % 2]
             t == Tree(n)
             at(l) == NodeAt(leaf, l)
             Width(l) == 2^(Levels - l)
  <1>1. /\ MerklePath(n, leaf).pathElements = e
        /\ MerklePath(n, leaf).pathIndices = d
        /\ MerklePath(n, leaf).root = t[Levels][0]
    BY DEF MerklePath, NodeAt, Sibling
  <1>2. Levels \in Nat /\ Len(Notes) \in Nat /\ Len(Notes) <= 2^Levels
    BY CircuitAssumption
  <1>3. 2^Levels \in Nat
    BY <1>2, PowerOfTwo
  <1>4. leaf \in 1..2^Levels /\ leaf - 1 \in 0..(2^Levels - 1) /\ leaf - 1 < n /\ (leaf - 1) + 1 = leaf
    BY <1>2, <1>3
  <1>5. /\ at(0) = leaf - 1
        /\ \A l \in 0..Levels : at(l) \in 0..(Width(l) - 1)
        /\ at(Levels) = 0
        /\ \A l \in 1..Levels : /\ at(l - 1) % 2 \in {0, 1}
                                /\ at(l - 1) = 2 * at(l) + (at(l - 1) % 2)
    BY <1>4, NodesAbove
  <1>6. /\ \A i \in 0..(2^Levels - 1) : t[0][i] = Leaf(i, n)
        /\ \A l \in 1..Levels : \A i \in 0..(Width(l) - 1) :
              t[l][i] = Poseidon(<<t[l - 1][2 * i], t[l - 1][2 * i + 1]>>)
    BY TreeNodes
  <1>7. t[0][at(0)] = NoteCommitment(Notes[leaf])
    BY <1>4, <1>5, <1>6 DEF Leaf
  <1>8. PICK h : /\ MerkleProof(NoteCommitment(Notes[leaf]), e, d) = h[Levels]
                 /\ h[0] = NoteCommitment(Notes[leaf])
                 /\ \A i \in 1..Levels : h[i] = Poseidon(MultiMux1(d[i], h[i - 1], e[i]))
    <2> HIDE DEF e, d
    <2> QED
      BY MerkleHashes
  <1>9. ASSUME NEW l \in 1..Levels, h[l - 1] = t[l - 1][at(l - 1)]
        PROVE  h[l] = t[l][at(l)]
    <2>1. l \in 0..Levels /\ at(l) \in Int
      BY <1>2, <1>5
    <2>2. t[l][at(l)] = Poseidon(<<t[l - 1][2 * at(l)], t[l - 1][2 * at(l) + 1]>>)
      BY <1>5, <1>6, <2>1
    <2>3. d[l] = at(l - 1) % 2 /\ e[l] = t[l - 1][Sibling(leaf, l - 1)]
      OBVIOUS
    <2>4. /\ d[l] = 0 => h[l] = Poseidon(<<h[l - 1], e[l]>>)
          /\ d[l] = 1 => h[l] = Poseidon(<<e[l], h[l - 1]>>)
      <3> HIDE DEF e, d
      <3>1. h[l] = Poseidon(MultiMux1(d[l], h[l - 1], e[l]))
        BY <1>8
      <3> QED
        BY <3>1 DEF MultiMux1, Mux
    <2>5. CASE at(l - 1) % 2 = 0
      <3>1. at(l - 1) = 2 * at(l)
        BY <1>5, <2>1, <2>5
      <3>2. Sibling(leaf, l - 1) = 2 * at(l) + 1
        BY <2>5, <3>1 DEF Sibling
      <3> HIDE DEF e, d, t, at
      <3> QED
        BY <1>9, <2>2, <2>3, <2>4, <2>5, <3>1, <3>2
    <2>6. CASE at(l - 1) % 2 = 1
      <3>1. at(l - 1) = 2 * at(l) + 1
        BY <1>5, <2>1, <2>6
      <3>2. Sibling(leaf, l - 1) = 2 * at(l)
        BY <2>1, <2>6, <3>1 DEF Sibling
      <3> HIDE DEF e, d, t, at
      <3> QED
        BY <1>9, <2>2, <2>3, <2>4, <2>6, <3>1, <3>2
    <2> QED
      BY <1>5, <2>5, <2>6
  <1> HIDE DEF e, d, t, at
  <1>10. \A l \in 0..Levels : h[l] = t[l][at(l)]
    <2> DEFINE Bad == {l \in 0..Levels : h[l] # t[l][at(l)]}
    <2>1. SUFFICES ASSUME Bad # {} PROVE FALSE
      OBVIOUS
    <2>2. PICK l \in Bad : \A j \in Bad : l <= j
      <3>1. Bad \in SUBSET Nat
        OBVIOUS
      <3> HIDE DEF Bad
      <3> QED
        BY <2>1, <3>1, LeastElement
    <2>3. l \in 1..Levels
      BY <1>2, <1>7, <1>8, <2>2
    <2>4. l - 1 \in 0..Levels /\ ~ (l <= l - 1)
      BY <1>2, <2>3
    <2>5. h[l - 1] = t[l - 1][at(l - 1)]
      BY <2>2, <2>4
    <2> QED
      BY <1>9, <2>2, <2>3, <2>5
  <1>11. h[Levels] = t[Levels][0]
    BY <1>2, <1>5, <1>10
  <1> QED
    BY <1>1, <1>8, <1>11

(***************************************************************************)
(* The sums of the circuit.                                                *)
(***************************************************************************)
\* IsFieldFold(g, k, a): g adds up the literals a in the field.
IsFieldFold(g, k, a) ==
    g = [s \in SUBSET (1..k) |->
            IF s = {} THEN 0 ELSE (g[s \ {Max(s)}] + a[Max(s)].lit) % FieldPrime]

\* FieldFoldExists: there is such a function for every length.
LEMMA FieldFoldExists ==
    ASSUME NEW n \in Nat, NEW a
    PROVE  \E g : IsFieldFold(g, n, a)
  <1> DEFINE Bad == {k \in 0..n : ~ \E g : IsFieldFold(g, k, a)}
             Add(x, y) == (x + a[y].lit) % FieldPrime
  <1>1. SUFFICES ASSUME Bad # {} PROVE FALSE
    OBVIOUS
  <1>2. PICK k \in Bad : \A j \in Bad : k <= j
    <2>1. Bad \in SUBSET Nat
      OBVIOUS
    <2> HIDE DEF Bad
    <2> QED
      BY <1>1, <2>1, LeastElement
  <1>3. k \in 0..n /\ ~ \E g : IsFieldFold(g, k, a)
    BY <1>2
  <1>4. k # 0
    <2> DEFINE z == [s \in SUBSET (1..0) |-> 0]
    <2>1. SUBSET (1..0) = {{}}
      OBVIOUS
    <2>2. IsFieldFold(z, 0, a)
      BY <2>1 DEF IsFieldFold
    <2> QED
      BY <1>3, <2>2
  <1>5. PICK g : IsFieldFold(g, k - 1, a)
    <2>1. k - 1 \in 0..n /\ ~ (k <= k - 1)
      BY <1>3, <1>4
    <2> QED
      BY <1>2, <2>1
  <1> DEFINE low == SUBSET (1..(k - 1))
             h == [s \in SUBSET (1..k) |-> IF k \in s THEN Add(g[s \ {k}], k) ELSE g[s]]
  <1>6. \A s \in low : g[s] = IF s = {} THEN 0 ELSE Add(g[s \ {Max(s)}], Max(s))
    BY <1>5 DEF IsFieldFold
  <1> HIDE DEF Add
  <1>7. ASSUME NEW s \in SUBSET (1..k)
        PROVE  h[s] = IF s = {} THEN 0 ELSE Add(h[s \ {Max(s)}], Max(s))
    <2>1. CASE k \in s
      <3>1. s \in SUBSET (0..k) /\ s # {} /\ k \in Nat
        BY <1>3, <2>1
      <3>2. Max(s) \in s /\ \A y \in s : y <= Max(s)
        <4> HIDE DEF h, low
        <4> QED
          BY <3>1, GreatestElement
      <3>3. Max(s) = k
        <4>1. Max(s) \in 1..k
          BY <3>2
        <4>2. k <= Max(s)
          BY <2>1, <3>2, Zenon
        <4> QED
          BY <1>3, <4>1, <4>2
      <3>4. s \ {k} \in SUBSET (1..k) /\ k \notin s \ {k}
        OBVIOUS
      <3>5. h[s \ {k}] = g[s \ {k}]
        BY <3>4
      <3>6. h[s] = Add(g[s \ {k}], k)
        BY <2>1
      <3> QED
        BY <3>1, <3>3, <3>5, <3>6
    <2>2. CASE k \notin s
      <3>1. s \in low
        BY <1>3, <2>2
      <3>2. h[s] = g[s]
        BY <2>2
      <3>3. CASE s = {}
        BY <1>6, <3>1, <3>2, <3>3
      <3>4. CASE s # {}
        <4>1. k \notin s \ {Max(s)} /\ s \ {Max(s)} \in SUBSET (1..k)
          BY <2>2
        <4>2. h[s \ {Max(s)}] = g[s \ {Max(s)}]
          BY <4>1
        <4> HIDE DEF h, low
        <4> QED
          BY <1>6, <3>1, <3>2, <3>4, <4>2
      <3> QED
        BY <3>3, <3>4
    <2> QED
      BY <2>1, <2>2
  <1>8. h = [s \in SUBSET (1..k) |-> h[s]]
    OBVIOUS
  <1> HIDE DEF h
  <1>9. IsFieldFold(h, k, a)
    BY <1>7, <1>8 DEF IsFieldFold, Add
  <1> QED
    BY <1>3, <1>9

\* TotalIsNat: a total of natural amounts is a natural number.
LEMMA TotalIsNat ==
    ASSUME NEW n \in Nat, NEW ns, DOMAIN ns = 1..n, Amounts(ns)
    PROVE  TotalAmount(ns) \in Nat
  <1>1. PICK t : IsSum(t, n, ns) /\ TotalAmount(ns) = t[n]
    BY TotalIsSum
  <1>2. t \in [0..n -> Nat] /\ n \in 0..n
    BY <1>1 DEF IsSum
  <1> QED
    BY <1>1, <1>2

\* FieldSumIsTotal: the sum of the amounts' signals is the total of the amounts,
\* in the field.
LEMMA FieldSumIsTotal ==
    ASSUME NEW n \in Nat, NEW ns, DOMAIN ns = 1..n, Amounts(ns),
           NEW signals, DOMAIN signals = 1..n, \A i \in 1..n : signals[i] = Lit(ns[i].amount)
    PROVE  FieldSum(signals) = TotalAmount(ns) % FieldPrime
  <1> DEFINE g == CHOOSE f : IsFieldFold(f, n, signals)
             u == [k \in 0..n |-> g[1..k]]
  <1>1. IsFieldFold(g, n, signals)
    BY FieldFoldExists
  <1>2. FieldSum(signals) = g[1..n]
    BY DEF FieldSum, FoldLeft, MapThenFoldSet, IsFieldFold
  <1> HIDE DEF g
  <1>3. \A s \in SUBSET (1..n) :
           g[s] = IF s = {} THEN 0 ELSE (g[s \ {Max(s)}] + signals[Max(s)].lit) % FieldPrime
    BY <1>1 DEF IsFieldFold
  <1>4. u[0] = 0
    <2>1. 1..0 = {} /\ 0 \in 0..n
      OBVIOUS
    <2>2. g[1..0] = 0
      BY <1>3, <2>1
    <2> QED
      BY <2>1, <2>2
  <1>5. ASSUME NEW k \in 1..n
        PROVE  u[k] = (u[k - 1] + (ns[k].amount % FieldPrime)) % FieldPrime
    <2>1. 1..k # {} /\ k \in Nat \ {0} /\ k - 1 \in 0..n
      <3>1. k \in Nat \ {0} /\ k - 1 \in 0..n /\ 1 \in 1..k
        OBVIOUS
      <3> QED
        BY <3>1
    <2>3. Max(1..k) = k
      BY <2>1, LastOfInterval
    <2>4. (1..k) \ {k} = 1..(k - 1)
      OBVIOUS
    <2>5. g[1..k] = (g[1..(k - 1)] + signals[k].lit) % FieldPrime
      <3>1. 1..k \in SUBSET (1..n)
        OBVIOUS
      <3>2. g[1..k] = (g[(1..k) \ {Max(1..k)}] + signals[Max(1..k)].lit) % FieldPrime
        BY <1>3, <2>1, <3>1, Zenon
      <3> QED
        BY <2>3, <2>4, <3>2
    <2>6. signals[k].lit = ns[k].amount % FieldPrime
      BY DEF Lit
    <2>7. u[k] = g[1..k] /\ u[k - 1] = g[1..(k - 1)]
      BY <2>1
    <2> HIDE DEF u
    <2> QED
      BY <2>5, <2>6, <2>7
  <1>6. u[n] = g[1..n]
    OBVIOUS
  <1> HIDE DEF u
  <1>7. PICK t : IsSum(t, n, ns) /\ TotalAmount(ns) = t[n]
    BY TotalIsSum
  <1>8. t \in [0..n -> Nat] /\ t[0] = 0 /\ \A k \in 1..n : t[k] = t[k - 1] + ns[k].amount
    BY <1>7 DEF IsSum
  <1>9. FieldPrime \in Nat \ {0}
    BY CircuitAssumption
  <1>10. \A k \in 0..n : u[k] = t[k] % FieldPrime
    <2> DEFINE Bad == {k \in 0..n : u[k] # t[k] % FieldPrime}
    <2>1. SUFFICES ASSUME Bad # {} PROVE FALSE
      OBVIOUS
    <2>2. PICK k \in Bad : \A j \in Bad : k <= j
      <3>1. Bad \in SUBSET Nat
        OBVIOUS
      <3> HIDE DEF Bad
      <3> QED
        BY <2>1, <3>1, LeastElement
    <2>3. 0 % FieldPrime = 0
      BY <1>9
    <2>4. k \in 1..n
      <3>1. k # 0
        BY <1>4, <1>8, <2>2, <2>3
      <3> QED
        BY <2>2, <3>1
    <2>5. k - 1 \in 0..n /\ ~ (k <= k - 1)
      BY <2>4
    <2>6. u[k - 1] = t[k - 1] % FieldPrime
      BY <2>2, <2>5
    <2>7. t[k - 1] \in Nat /\ ns[k].amount \in Nat
      BY <1>8, <2>4, <2>5 DEF Amounts
    <2>8. ((t[k - 1] % FieldPrime) + (ns[k].amount % FieldPrime)) % FieldPrime
             = (t[k - 1] + ns[k].amount) % FieldPrime
      BY <1>9, <2>7, ModularSum
    <2>9. u[k] = t[k] % FieldPrime
      BY <1>5, <1>8, <2>4, <2>6, <2>8, Zenon
    <2> QED
      BY <2>2, <2>9
  <1> QED
    BY <1>2, <1>6, <1>7, <1>10

(***************************************************************************)
(* The adapter.                                                            *)
(***************************************************************************)
\* Padded(p, m, arr, default): p has arr in the first m slots and the default behind.
Padded(p, m, arr, default) ==
    /\ Len(p) = Slots /\ DOMAIN p = 1..Slots
    /\ \A i \in 1..m : p[i] = arr[i]
    /\ \A i \in (m + 1)..Slots : p[i] = default

\* PaddingShape: padArray fills the slots behind the array with the default.
LEMMA PaddingShape ==
    ASSUME NEW m \in 0..Slots, NEW arr, arr = [i \in 1..m |-> arr[i]], NEW default
    PROVE  Padded(PadArray(arr, default), m, arr, default)
  <1> DEFINE S == {arr[i] : i \in 1..m} \cup {default}
             pad == [i \in 1..(Slots - m) |-> default]
             p == arr \o pad
  <1>1. Slots \in Nat
    BY CircuitAssumption
  <1>2. arr \in [1..m -> S] /\ pad \in [1..(Slots - m) -> S]
    OBVIOUS
  <1> HIDE DEF S
  <1>3. /\ arr \in Seq(S) /\ Len(arr) = m
        /\ pad \in Seq(S) /\ Len(pad) = Slots - m
    BY <1>1, <1>2
  <1>4. PadArray(arr, default) = p
    BY <1>3 DEF PadArray
  <1>5. \A i \in 1..(Slots - m) : pad[i] = default
    OBVIOUS
  <1> HIDE DEF pad
  <1>6. /\ p \in Seq(S) /\ Len(p) = Len(arr) + Len(pad)
        /\ \A i \in 1..(Len(arr) + Len(pad)) :
              p[i] = IF i <= Len(arr) THEN arr[i] ELSE pad[i - Len(arr)]
    BY <1>3, ConcatProperties
  <1> HIDE DEF p
  <1>7. Len(p) = Slots /\ DOMAIN p = 1..Slots
    BY <1>1, <1>3, <1>6
  <1>8. \A i \in 1..m : p[i] = arr[i]
    BY <1>1, <1>3, <1>6
  <1>9. \A i \in (m + 1)..Slots : p[i] = default
    <2>1. \A i \in (m + 1)..Slots : i \in 1..(m + (Slots - m)) /\ ~ (i <= m) /\ i - m \in 1..(Slots - m)
      BY <1>1
    <2> QED
      BY <1>3, <1>5, <1>6, <2>1
  <1> QED
    BY <1>4, <1>7, <1>8, <1>9 DEF Padded

(***************************************************************************)
(* What the adapter puts into the signals, and which of them can hold.     *)
(***************************************************************************)
\* Filled(s, m, k, ins, outs, proofs): the signals s hold m inputs and k outputs, and
\* zeros behind them.
Filled(s, m, k, ins, outs, proofs) ==
    /\ s.root = proofs[1].root
    /\ \A i \in 1..m :
          /\ s.nullifierHashes[i] = ComputeNullifier(NoteCommitment(ins[i]), Lit(ins[i].secret))
          /\ s.inAmount[i] = Lit(ins[i].amount) /\ s.inSecret[i] = Lit(ins[i].secret)
          /\ s.inRecipient[i] = Lit(ins[i].recipient)
          /\ s.inPathElements[i] = proofs[i].pathElements
          /\ s.inPathIndices[i] = proofs[i].pathIndices
    /\ \A i \in 1..k :
          /\ s.outCommitments[i] = NoteCommitment(outs[i])
          /\ s.outAmount[i] = Lit(outs[i].amount) /\ s.outSecret[i] = Lit(outs[i].secret)
          /\ s.outRecipient[i] = Lit(outs[i].recipient)
    /\ \A i \in (m + 1)..Slots : /\ s.nullifierHashes[i] = Lit(0)
                                 /\ s.inPathElements[i] = [j \in 1..Levels |-> Lit(0)]
    /\ \A i \in (k + 1)..Slots : s.outCommitments[i] = Lit(0)
    /\ DOMAIN s.inAmount = 1..Slots /\ DOMAIN s.outAmount = 1..Slots
    /\ Len(s.inAmount) = Slots /\ Len(s.inSecret) = Slots
    /\ Len(s.outAmount) = Slots /\ Len(s.outSecret) = Slots /\ Len(s.inPathElements) = Slots

\* AdapterFills: prepareCircuitInput fills the signals in this way.
LEMMA AdapterFills ==
    ASSUME NEW m \in 1..Slots, NEW k \in 1..Slots,
           NEW ins, DOMAIN ins = 1..m, NEW outs, DOMAIN outs = 1..k, NEW proofs, DOMAIN proofs = 1..m
    PROVE  Filled(PrepareCircuitInput(ins, outs, proofs), m, k, ins, outs, proofs)
  <1> DEFINE s == PrepareCircuitInput(ins, outs, proofs)
             nul == [i \in 1..m |-> ComputeNullifier(NoteCommitment(ins[i]), Lit(ins[i].secret))]
             com == [i \in 1..k |-> NoteCommitment(outs[i])]
             ia == [i \in 1..m |-> Lit(ins[i].amount)]
             is == [i \in 1..m |-> Lit(ins[i].secret)]
             ir == [i \in 1..m |-> Lit(ins[i].recipient)]
             pe == [i \in 1..m |-> proofs[i].pathElements]
             pi == [i \in 1..m |-> proofs[i].pathIndices]
             oa == [i \in 1..k |-> Lit(outs[i].amount)]
             os == [i \in 1..k |-> Lit(outs[i].secret)]
             or == [i \in 1..k |-> Lit(outs[i].recipient)]
             zero == Lit(0)
             zeros == [j \in 1..Levels |-> Lit(0)]
             noughts == [j \in 1..Levels |-> 0]
  <1>1. /\ s.root = proofs[1].root
        /\ s.nullifierHashes = PadArray(nul, zero) /\ s.outCommitments = PadArray(com, zero)
        /\ s.inAmount = PadArray(ia, zero) /\ s.inSecret = PadArray(is, zero)
        /\ s.inRecipient = PadArray(ir, zero)
        /\ s.inPathElements = PadArray(pe, zeros) /\ s.inPathIndices = PadArray(pi, noughts)
        /\ s.outAmount = PadArray(oa, zero) /\ s.outSecret = PadArray(os, zero)
        /\ s.outRecipient = PadArray(or, zero)
    BY DEF PrepareCircuitInput
  <1>2. m \in 0..Slots /\ k \in 0..Slots
    BY CircuitAssumption
  <1>5. /\ nul = [i \in 1..m |-> nul[i]] /\ ia = [i \in 1..m |-> ia[i]]
        /\ is = [i \in 1..m |-> is[i]] /\ ir = [i \in 1..m |-> ir[i]]
        /\ pe = [i \in 1..m |-> pe[i]] /\ pi = [i \in 1..m |-> pi[i]]
        /\ com = [i \in 1..k |-> com[i]] /\ oa = [i \in 1..k |-> oa[i]]
        /\ os = [i \in 1..k |-> os[i]] /\ or = [i \in 1..k |-> or[i]]
    OBVIOUS
  <1>6. /\ \A i \in 1..m : /\ nul[i] = ComputeNullifier(NoteCommitment(ins[i]), Lit(ins[i].secret))
                           /\ ia[i] = Lit(ins[i].amount) /\ is[i] = Lit(ins[i].secret)
                           /\ ir[i] = Lit(ins[i].recipient)
                           /\ pe[i] = proofs[i].pathElements /\ pi[i] = proofs[i].pathIndices
        /\ \A i \in 1..k : /\ com[i] = NoteCommitment(outs[i])
                           /\ oa[i] = Lit(outs[i].amount) /\ os[i] = Lit(outs[i].secret)
                           /\ or[i] = Lit(outs[i].recipient)
    OBVIOUS
  <1> HIDE DEF s, nul, com, ia, is, ir, pe, pi, oa, os, or, zero, zeros, noughts
  <1>7. /\ Padded(s.nullifierHashes, m, nul, zero) /\ Padded(s.inAmount, m, ia, zero)
        /\ Padded(s.inSecret, m, is, zero) /\ Padded(s.inRecipient, m, ir, zero)
        /\ Padded(s.inPathElements, m, pe, zeros) /\ Padded(s.inPathIndices, m, pi, noughts)
    BY <1>1, <1>2, <1>5, PaddingShape
  <1>8. /\ Padded(s.outCommitments, k, com, zero) /\ Padded(s.outAmount, k, oa, zero)
        /\ Padded(s.outSecret, k, os, zero) /\ Padded(s.outRecipient, k, or, zero)
    BY <1>1, <1>2, <1>5, PaddingShape
  <1>9. \A i \in 1..m : /\ s.nullifierHashes[i] = nul[i] /\ s.inAmount[i] = ia[i]
                        /\ s.inSecret[i] = is[i] /\ s.inRecipient[i] = ir[i]
                        /\ s.inPathElements[i] = pe[i] /\ s.inPathIndices[i] = pi[i]
    BY <1>7, Zenon DEF Padded
  <1>10. \A i \in 1..k : /\ s.outCommitments[i] = com[i] /\ s.outAmount[i] = oa[i]
                         /\ s.outSecret[i] = os[i] /\ s.outRecipient[i] = or[i]
    BY <1>8, Zenon DEF Padded
  <1>11. /\ DOMAIN s.inAmount = 1..Slots /\ DOMAIN s.outAmount = 1..Slots
         /\ Len(s.inAmount) = Slots /\ Len(s.inSecret) = Slots
         /\ Len(s.outAmount) = Slots /\ Len(s.outSecret) = Slots /\ Len(s.inPathElements) = Slots
         /\ \A i \in (m + 1)..Slots : s.nullifierHashes[i] = zero /\ s.inPathElements[i] = zeros
         /\ \A i \in (k + 1)..Slots : s.outCommitments[i] = zero
    BY <1>7, <1>8, Zenon DEF Padded
  <1>12. \A i \in 1..m :
            /\ s.nullifierHashes[i] = ComputeNullifier(NoteCommitment(ins[i]), Lit(ins[i].secret))
            /\ s.inAmount[i] = Lit(ins[i].amount) /\ s.inSecret[i] = Lit(ins[i].secret)
            /\ s.inRecipient[i] = Lit(ins[i].recipient)
            /\ s.inPathElements[i] = proofs[i].pathElements
            /\ s.inPathIndices[i] = proofs[i].pathIndices
    BY <1>6, <1>9, Zenon
  <1>13. \A i \in 1..k :
            /\ s.outCommitments[i] = NoteCommitment(outs[i])
            /\ s.outAmount[i] = Lit(outs[i].amount) /\ s.outSecret[i] = Lit(outs[i].secret)
            /\ s.outRecipient[i] = Lit(outs[i].recipient)
    BY <1>6, <1>10, Zenon
  <1>14. /\ \A i \in (m + 1)..Slots : /\ s.nullifierHashes[i] = Lit(0)
                                      /\ s.inPathElements[i] = [j \in 1..Levels |-> Lit(0)]
         /\ \A i \in (k + 1)..Slots : s.outCommitments[i] = Lit(0)
    BY <1>11, Zenon DEF zero, zeros
  <1>15. s.root = proofs[1].root
    BY <1>1, Zenon
  <1>16. /\ DOMAIN s.inAmount = 1..Slots /\ DOMAIN s.outAmount = 1..Slots
         /\ Len(s.inAmount) = Slots /\ Len(s.inSecret) = Slots
         /\ Len(s.outAmount) = Slots /\ Len(s.outSecret) = Slots /\ Len(s.inPathElements) = Slots
    BY <1>11, Zenon
  <1>17. Filled(s, m, k, ins, outs, proofs)
    BY <1>12, <1>13, <1>14, <1>15, <1>16, Zenon DEF Filled
  <1> QED
    BY <1>17 DEF s

\* OnlyFullHolds: the constraints of a padded slot do not hold, since a hash is never
\* the zero that pads the nullifiers and commitments.
LEMMA OnlyFullHolds ==
    ASSUME NEW m \in 1..Slots, NEW k \in 1..Slots, NEW s, NEW ins, NEW outs, NEW proofs,
           Filled(s, m, k, ins, outs, proofs), Transaction(s)
    PROVE  m = Slots /\ k = Slots
  <1>1. Slots \in Nat
    BY CircuitAssumption
  <1>2. \A i \in 1..Slots : InputHolds(s, i) /\ OutputHolds(s, i)
    BY DEF Transaction
  <1>3. ASSUME m # Slots PROVE FALSE
    <2>1. m + 1 \in (m + 1)..Slots /\ m + 1 \in 1..Slots
      BY <1>1, <1>3
    <2>2. s.nullifierHashes[m + 1] = Lit(0)
      BY <2>1 DEF Filled
    <2>3. \E xs : s.nullifierHashes[m + 1] = Poseidon(xs)
      BY <1>2, <2>1 DEF InputHolds, ComputeNullifier
    <2> QED
      BY <2>2, <2>3, HashIsNoLiteral
  <1>4. ASSUME k # Slots PROVE FALSE
    <2>1. k + 1 \in (k + 1)..Slots /\ k + 1 \in 1..Slots
      BY <1>1, <1>4
    <2>2. s.outCommitments[k + 1] = Lit(0)
      BY <2>1 DEF Filled
    <2>3. \E xs : s.outCommitments[k + 1] = Poseidon(xs)
      BY <1>2, <2>1 DEF OutputHolds, ComputeCommitment
    <2> QED
      BY <2>2, <2>3, HashIsNoLiteral
  <1> QED
    BY <1>3, <1>4

\* MerkleProofIsHash: the root a proof leads to is a hash.
LEMMA MerkleProofIsHash ==
    ASSUME NEW leaf, NEW e, NEW d
    PROVE  \E xs : MerkleProof(leaf, e, d) = Poseidon(xs)
  <1>1. PICK h : /\ MerkleProof(leaf, e, d) = h[Levels]
                 /\ h[0] = leaf
                 /\ \A i \in 1..Levels : h[i] = Poseidon(MultiMux1(d[i], h[i - 1], e[i]))
    BY MerkleHashes
  <1>2. Levels \in 1..Levels
    BY CircuitAssumption
  <1> QED
    BY <1>1, <1>2

(***************************************************************************)
(* The specification.                                                      *)
(***************************************************************************)
\* PathOf(i): what the path of input i may be: not fetched yet, the stand-in, or the
\* path in the tree as it was at some moment since the leaf was chosen.
PathOf(i) ==
    \/ paths[i] = None
    \/ service = "mock" /\ paths[i] = MockMerkleProof
    \/ service = "tree" /\ \E n \in chosen.ins[i]..size : paths[i] = MerklePath(n, chosen.ins[i])

\* ChosenInv: a transfer has inputs that are leaves, and a path for each.
ChosenInv ==
    \E m \in 1..Slots : /\ chosen.ins \in [1..m -> 1..size]
                        /\ chosen.outs \in Splits
                        /\ DOMAIN paths = 1..m
                        /\ \A i \in 1..m : PathOf(i)

\* CircuitInv: the inductive invariant. A circuit input is what the adapter made of
\* the chosen notes and the paths of all of them, and the outcome is that of the
\* circuit on this input.
CircuitInv ==
    /\ service \in Services
    /\ size \in 0..Len(Notes)
    /\ witness \in {"none", "rejected", "calculated", "failed"}
    /\ chosen = None => input = None /\ witness = "none"
    /\ chosen # None => ChosenInv
    /\ input # None => /\ Fetched
                       /\ Accepts(Ins, Outs, paths)
                       /\ input = PrepareCircuitInput(Ins, Outs, paths)
    /\ Done => /\ input # None
               /\ (witness = "calculated") <=> ValidateCircuitInput(input) /\ Transaction(input)

\* FilledHolds: of a filled slot only the constraint on the root is left; the others
\* hold by the way the adapter computes the signals.
LEMMA FilledHolds ==
    ASSUME NEW m \in 1..Slots, NEW k \in 1..Slots, NEW s, NEW ins, NEW outs, NEW proofs,
           Filled(s, m, k, ins, outs, proofs)
    PROVE  /\ \A i \in 1..m : InputHolds(s, i) <=>
                 MerkleProof(NoteCommitment(ins[i]), proofs[i].pathElements, proofs[i].pathIndices)
                     = proofs[1].root
           /\ \A i \in 1..k : OutputHolds(s, i)
  <1>1. ASSUME NEW i \in 1..m
        PROVE  InputHolds(s, i) <=>
                 MerkleProof(NoteCommitment(ins[i]), proofs[i].pathElements, proofs[i].pathIndices)
                     = proofs[1].root
    <2>1. /\ s.root = proofs[1].root
          /\ s.nullifierHashes[i] = ComputeNullifier(NoteCommitment(ins[i]), Lit(ins[i].secret))
          /\ s.inAmount[i] = Lit(ins[i].amount) /\ s.inSecret[i] = Lit(ins[i].secret)
          /\ s.inRecipient[i] = Lit(ins[i].recipient)
          /\ s.inPathElements[i] = proofs[i].pathElements
          /\ s.inPathIndices[i] = proofs[i].pathIndices
      BY Zenon DEF Filled
    <2>2. ComputeCommitment(s.inAmount[i], s.inSecret[i], s.inRecipient[i]) = NoteCommitment(ins[i])
      BY <2>1, Zenon DEF NoteCommitment
    <2> QED
      BY <2>1, <2>2, Zenon DEF InputHolds
  <1>2. ASSUME NEW i \in 1..k
        PROVE  OutputHolds(s, i)
    <2>1. /\ s.outCommitments[i] = NoteCommitment(outs[i])
          /\ s.outAmount[i] = Lit(outs[i].amount) /\ s.outSecret[i] = Lit(outs[i].secret)
          /\ s.outRecipient[i] = Lit(outs[i].recipient)
      BY Zenon DEF Filled
    <2> QED
      BY <2>1, Zenon DEF OutputHolds, NoteCommitment
  <1> QED
    BY <1>1, <1>2, Zenon

\* SumsAgree: the circuit's sums of full inputs and outputs agree when the notes' do.
LEMMA SumsAgree ==
    ASSUME NEW s, NEW ins, NEW outs, NEW proofs, Slots \in Nat,
           Filled(s, Slots, Slots, ins, outs, proofs),
           DOMAIN ins = 1..Slots, Amounts(ins), DOMAIN outs = 1..Slots, Amounts(outs),
           TotalAmount(ins) = TotalAmount(outs)
    PROVE  FieldSum(s.inAmount) = FieldSum(s.outAmount)
  <1>1. /\ DOMAIN s.inAmount = 1..Slots /\ DOMAIN s.outAmount = 1..Slots
        /\ \A i \in 1..Slots : s.inAmount[i] = Lit(ins[i].amount)
        /\ \A i \in 1..Slots : s.outAmount[i] = Lit(outs[i].amount)
    BY Zenon DEF Filled
  <1>2. FieldSum(s.inAmount) = TotalAmount(ins) % FieldPrime
    BY <1>1, FieldSumIsTotal, Zenon
  <1>3. FieldSum(s.outAmount) = TotalAmount(outs) % FieldPrime
    BY <1>1, FieldSumIsTotal, Zenon
  <1> QED
    BY <1>2, <1>3

\* Full: the transfer takes every slot of the circuit, and its paths were taken in one
\* state of the tree.
Full ==
    /\ service = "tree"
    /\ Len(chosen.ins) = Slots
    /\ Len(chosen.outs) = Slots
    /\ \A i \in DOMAIN paths : paths[i].root = paths[1].root

\* InputDecided: the adapter's input is always valid, and the circuit's constraints
\* hold of it exactly for a full transfer.
LEMMA InputDecided ==
    ASSUME CircuitInv, input # None
    PROVE  ValidateCircuitInput(input) /\ (Transaction(input) <=> Full)
  <1>1. /\ Fetched /\ chosen # None /\ Accepts(Ins, Outs, paths) /\ ChosenInv
        /\ input = PrepareCircuitInput(Ins, Outs, paths)
        /\ service \in {"mock", "tree"} /\ size \in 0..Len(Notes)
    BY CircuitAssumption DEF CircuitInv, Fetched
  <1>2. PICK m \in 1..Slots : /\ chosen.ins \in [1..m -> 1..size]
                              /\ chosen.outs \in Splits
                              /\ DOMAIN paths = 1..m
                              /\ \A i \in 1..m : PathOf(i)
    BY <1>1 DEF ChosenInv
  <1> DEFINE k == Len(chosen.outs)
  <1>3. /\ Slots \in Nat /\ Levels \in Nat \ {0} /\ Len(Notes) \in Nat
        /\ \A i \in 1..Len(Notes) : Notes[i].amount \in Nat
    <2>1. /\ Slots \in Nat /\ Levels \in Nat \ {0}
          /\ Notes \in Seq([amount : Nat, secret : Nat, recipient : Nat])
      BY CircuitAssumption
    <2>2. /\ Len(Notes) \in Nat
          /\ \A i \in 1..Len(Notes) : Notes[i] \in [amount : Nat, secret : Nat, recipient : Nat]
      <3> DEFINE S == [amount : Nat, secret : Nat, recipient : Nat]
      <3>1. Notes \in Seq(S)
        BY <2>1
      <3> HIDE DEF S
      <3>2. Len(Notes) \in Nat /\ \A i \in 1..Len(Notes) : Notes[i] \in S
        BY <3>1
      <3> QED
        BY <3>2 DEF S
    <2> QED
      BY <2>1, <2>2
  <1>4. chosen.outs \in Seq(Nat) /\ k \in Nat /\ DOMAIN chosen.outs = 1..k
    BY <1>2, CircuitAssumption
  <1>5. /\ DOMAIN Ins = 1..m /\ Len(chosen.ins) = m /\ Amounts(Ins)
        /\ \A i \in 1..m : Ins[i] = Notes[chosen.ins[i]]
    BY <1>1, <1>2, <1>3 DEF Ins, Amounts
  <1>6. DOMAIN Outs = 1..k /\ Len(Outs) = k /\ Amounts(Outs)
    BY <1>4 DEF Outs, Amounts, OutputNote
  <1>7. k \in 1..Slots
    BY <1>1, <1>6 DEF Accepts
  <1>8. TotalAmount(Ins) = TotalAmount(Outs)
    BY <1>1 DEF Accepts
  <1> HIDE DEF k
  <1>9. Filled(input, m, k, Ins, Outs, paths)
    <2>1. Filled(PrepareCircuitInput(Ins, Outs, paths), m, k, Ins, Outs, paths)
      BY <1>2, <1>5, <1>6, <1>7, AdapterFills, Zenon
    <2> QED
      BY <2>1, <1>1, Zenon
  <1>10. \A i \in 1..m : \/ service = "mock" /\ paths[i] = MockMerkleProof
                         \/ service = "tree" /\ \E n \in chosen.ins[i]..size :
                                                   paths[i] = MerklePath(n, chosen.ins[i])
    BY <1>1, <1>2, Zenon DEF PathOf, Fetched
  <1>11. \A i \in 1..m : Len(paths[i].pathElements) = Levels
    <2>1. ASSUME NEW z PROVE Len([j \in 1..Levels |-> z]) = Levels
      BY <1>3
    <2>2. Len(MockMerkleProof.pathElements) = Levels
      BY <2>1 DEF MockMerkleProof
    <2>3. ASSUME NEW n, NEW leaf
          PROVE  Len(MerklePath(n, leaf).pathElements) = Levels
      <3> DEFINE El(j) == Tree(n)[j - 1][Sibling(leaf, j - 1)]
      <3>1. MerklePath(n, leaf).pathElements = [j \in 1..Levels |-> El(j)]
        BY DEF MerklePath, NodeAt, Sibling
      <3> HIDE DEF El
      <3>2. Len([j \in 1..Levels |-> El(j)]) = Levels
        BY <1>3
      <3> QED
        BY <3>1, <3>2
    <2> QED
      BY <1>10, <2>2, <2>3, Zenon
  <1>12. ValidateCircuitInput(input)
    <2>1. /\ Len(input.inAmount) = Slots /\ Len(input.inSecret) = Slots
          /\ Len(input.outAmount) = Slots /\ Len(input.outSecret) = Slots
          /\ Len(input.inPathElements) = Slots
      BY <1>9, Zenon DEF Filled
    <2>2. \A i \in 1..m : Len(input.inPathElements[i]) = Levels
      BY <1>9, <1>11, Zenon DEF Filled
    <2>3. \A i \in (m + 1)..Slots : input.inPathElements[i] = [j \in 1..Levels |-> Lit(0)]
      BY <1>9, Zenon DEF Filled
    <2>4. \A i \in 1..Slots : Len(input.inPathElements[i]) = Levels
      BY <1>3, <2>2, <2>3
    <2> QED
      BY <2>1, <2>4, Zenon DEF ValidateCircuitInput
  <1>13. /\ \A i \in 1..m : InputHolds(input, i) <=>
               MerkleProof(NoteCommitment(Ins[i]), paths[i].pathElements, paths[i].pathIndices)
                   = paths[1].root
         /\ \A i \in 1..k : OutputHolds(input, i)
    BY <1>7, <1>9, FilledHolds, Zenon
  <1>14. ASSUME service = "mock" PROVE ~ Transaction(input)
    <2>1. 1 \in 1..m /\ 1 \in 1..Slots
      BY <1>3
    <2>2. paths[1].root = Lit(0)
      BY <1>10, <1>14, <2>1 DEF MockMerkleProof
    <2>3. \E xs : MerkleProof(NoteCommitment(Ins[1]), paths[1].pathElements, paths[1].pathIndices)
                     = Poseidon(xs)
      BY MerkleProofIsHash
    <2>4. ~ InputHolds(input, 1)
      BY <1>13, <2>1, <2>2, <2>3, HashIsNoLiteral, Zenon
    <2> QED
      BY <2>1, <2>4, Zenon DEF Transaction
  <1>15. ASSUME service = "tree", NEW i \in 1..m
         PROVE  MerkleProof(NoteCommitment(Ins[i]), paths[i].pathElements, paths[i].pathIndices)
                   = paths[i].root
    <2>1. PICK n \in chosen.ins[i]..size : paths[i] = MerklePath(n, chosen.ins[i])
      BY <1>10, <1>15
    <2>2. n \in 1..Len(Notes) /\ chosen.ins[i] \in 1..n
      BY <1>1, <1>2, <1>3
    <2>3. Ins[i] = Notes[chosen.ins[i]]
      BY <1>5
    <2> QED
      BY <2>1, <2>2, <2>3, PathLeadsToRoot
  <1>16. ASSUME service = "tree", Transaction(input) PROVE Full
    <2>1. m = Slots /\ k = Slots
      BY <1>7, <1>9, <1>16, OnlyFullHolds, Zenon
    <2>2. \A i \in 1..m : paths[i].root = paths[1].root
      BY <1>13, <1>15, <1>16, <2>1, Zenon DEF Transaction
    <2> QED
      BY <1>2, <1>5, <1>16, <2>1, <2>2, Zenon DEF Full, k
  <1>17. ASSUME Full PROVE Transaction(input)
    <2>1. service = "tree" /\ m = Slots /\ k = Slots
      BY <1>5, <1>17, Zenon DEF Full, k
    <2>2. \A i \in 1..m : paths[i].root = paths[1].root
      BY <1>2, <1>17, Zenon DEF Full
    <2>3. \A i \in 1..Slots : InputHolds(input, i) /\ OutputHolds(input, i)
      BY <1>13, <1>15, <2>1, <2>2, Zenon
    <2>4. /\ Filled(input, Slots, Slots, Ins, Outs, paths)
          /\ DOMAIN Ins = 1..Slots /\ DOMAIN Outs = 1..Slots
      BY <1>5, <1>6, <1>9, <2>1, Zenon
    <2>5. FieldSum(input.inAmount) = FieldSum(input.outAmount)
      BY <1>3, <1>5, <1>6, <1>8, <2>4, SumsAgree, Zenon
    <2> QED
      BY <2>3, <2>5, Zenon DEF Transaction
  <1>18. Full => service = "tree"
    BY DEF Full
  <1>19. "mock" # "tree"
    OBVIOUS
  <1> QED
    BY <1>1, <1>12, <1>14, <1>16, <1>17, <1>18

\* CircuitInvariant: CircuitInv is inductive.
LEMMA CircuitInvariant == Spec => []CircuitInv
  <1>1. Init => CircuitInv
    BY CircuitAssumption DEF Init, CircuitInv, Done
  <1>2. CircuitInv /\ [Next]_vars => CircuitInv'
    <2> SUFFICES ASSUME CircuitInv, [Next]_vars PROVE CircuitInv'
      OBVIOUS
    <2> USE DEF CircuitInv
    <2>1. CASE AppendLeaf
      <3>1. /\ UNCHANGED <<service, chosen, paths, input, witness>>
            /\ size \in 0..Len(Notes) /\ size' = size + 1 /\ size < Len(Notes)
        BY <2>1 DEF AppendLeaf
      <3>2. Len(Notes) \in Nat
        BY CircuitAssumption
      <3>3. size' \in 0..Len(Notes) /\ size \in Nat /\ size' \in Nat
        BY <3>1, <3>2
      <3>4. ASSUME ChosenInv PROVE ChosenInv'
        <4>1. PICK m \in 1..Slots : /\ chosen.ins \in [1..m -> 1..size]
                                    /\ chosen.outs \in Splits
                                    /\ DOMAIN paths = 1..m
                                    /\ \A i \in 1..m : PathOf(i)
          BY <3>4 DEF ChosenInv
        <4>2. chosen.ins \in [1..m -> 1..size'] /\ \A i \in 1..m : chosen.ins[i] \in 1..size
          BY <3>1, <3>3, <4>1
        <4>3. ASSUME NEW i \in 1..m PROVE PathOf(i)'
          <5>1. \A n \in chosen.ins[i]..size : n \in chosen.ins[i]..size'
            BY <3>1, <3>3, <4>2
          <5> QED
            BY <3>1, <4>1, <5>1 DEF PathOf
        <4> QED
          BY <3>1, <4>1, <4>2, <4>3 DEF ChosenInv
      <3> QED
        BY <3>1, <3>3, <3>4 DEF Fetched, Ins, Outs, Done
    <2>2. ASSUME NEW n \in 1..Slots, NEW leaves \in [1..n -> 1..size], NEW amounts \in Splits,
                 Choose(leaves, amounts)
          PROVE  CircuitInv'
      <3>1. /\ chosen = None /\ chosen' = [ins |-> leaves, outs |-> amounts]
            /\ paths' = [i \in 1..n |-> None]
            /\ UNCHANGED <<service, size, input, witness>>
            /\ input = None /\ witness = "none"
        BY <2>2 DEF Choose
      <3>2. ChosenInv'
        BY <3>1 DEF ChosenInv, PathOf
      <3> QED
        BY <3>1, <3>2 DEF Done
    <2>3. ASSUME NEW i \in DOMAIN paths, Fetch(i)
          PROVE  CircuitInv'
      <3>1. /\ paths[i] = None
            /\ paths' = [paths EXCEPT ![i] =
                  IF service = "mock" THEN MockMerkleProof ELSE MerklePath(size, chosen.ins[i])]
            /\ UNCHANGED <<service, size, chosen, input, witness>>
        BY <2>3 DEF Fetch
      <3>2. input = None
        BY <3>1 DEF Fetched
      <3>3. ASSUME ChosenInv PROVE ChosenInv'
        <4>1. PICK m \in 1..Slots : /\ chosen.ins \in [1..m -> 1..size]
                                    /\ chosen.outs \in Splits
                                    /\ DOMAIN paths = 1..m
                                    /\ \A j \in 1..m : PathOf(j)
          BY <3>3 DEF ChosenInv
        <4>2. size \in Nat /\ chosen.ins[i] \in 1..size /\ size \in chosen.ins[i]..size
          BY <4>1, CircuitAssumption
        <4>3. service \in {"mock", "tree"}
          BY CircuitAssumption
        <4>4. ASSUME NEW j \in 1..m PROVE PathOf(j)'
          <5>1. CASE j = i
            <6>1. CASE service = "mock"
              <7>1. paths'[j] = MockMerkleProof
                BY <3>1, <5>1, <6>1
              <7> QED
                BY <3>1, <6>1, <7>1 DEF PathOf
            <6>2. CASE service = "tree"
              <7>1. paths'[j] = MerklePath(size, chosen.ins[j])
                BY <3>1, <5>1, <6>2
              <7> QED
                BY <3>1, <4>2, <5>1, <6>2, <7>1 DEF PathOf
            <6> QED
              BY <4>3, <6>1, <6>2
          <5>2. CASE j # i
            <6>1. paths'[j] = paths[j]
              BY <3>1, <4>1, <5>2
            <6> QED
              BY <3>1, <4>1, <6>1 DEF PathOf
          <5> QED
            BY <5>1, <5>2
        <4>5. DOMAIN paths' = 1..m
          BY <3>1, <4>1
        <4> QED
          BY <3>1, <4>1, <4>4, <4>5 DEF ChosenInv
      <3> QED
        BY <3>1, <3>2, <3>3 DEF Done
    <2>4. CASE Prepare
      <3>1. /\ Fetched /\ chosen # None /\ witness = "none" /\ ChosenInv
            /\ UNCHANGED <<service, size, chosen, paths>>
        BY <2>4 DEF Prepare, Fetched
      <3>2. ChosenInv'
        BY <3>1 DEF ChosenInv, PathOf
      <3>3. Fetched' /\ Ins' = Ins /\ Outs' = Outs
        BY <3>1 DEF Fetched, Ins, Outs
      <3>4. CASE Accepts(Ins, Outs, paths)
        <4>1. input' = PrepareCircuitInput(Ins, Outs, paths) /\ witness' = "none"
          BY <2>4, <3>1, <3>4 DEF Prepare
        <4>2. Accepts(Ins, Outs, paths)' /\ input' = PrepareCircuitInput(Ins, Outs, paths)'
          BY <3>1, <3>3, <3>4, <4>1
        <4> QED
          BY <3>1, <3>2, <3>3, <4>1, <4>2 DEF Done
      <3>5. CASE ~ Accepts(Ins, Outs, paths)
        <4>1. input' = None /\ witness' = "rejected"
          BY <2>4, <3>1, <3>5 DEF Prepare
        <4> QED
          BY <3>1, <3>2, <4>1 DEF Done
      <3> QED
        BY <3>4, <3>5
    <2>5. CASE CalculateWitness
      <3>1. /\ input # None /\ UNCHANGED <<service, size, chosen, paths, input>>
            /\ witness' = IF ValidateCircuitInput(input) /\ Transaction(input) THEN "calculated"
                          ELSE "failed"
            /\ chosen # None /\ ChosenInv /\ Fetched
        BY <2>5 DEF CalculateWitness, Fetched
      <3>2. ChosenInv' /\ Fetched' /\ Ins' = Ins /\ Outs' = Outs
        BY <3>1 DEF ChosenInv, PathOf, Fetched, Ins, Outs
      <3>3. /\ Accepts(Ins, Outs, paths)' /\ input' = PrepareCircuitInput(Ins, Outs, paths)'
        BY <3>1, <3>2
      <3>4. ((witness = "calculated") <=> ValidateCircuitInput(input) /\ Transaction(input))'
        BY <3>1
      <3> QED
        BY <3>1, <3>2, <3>3, <3>4
    <2>6. CASE UNCHANGED vars
      <3>1. UNCHANGED <<service, size, chosen, paths, input, witness>>
        BY <2>6 DEF vars
      <3>2. ChosenInv => ChosenInv'
        BY <3>1 DEF ChosenInv, PathOf
      <3> QED
        BY <3>1, <3>2 DEF Fetched, Ins, Outs, Done
    <2> QED
      BY <2>1, <2>2, <2>3, <2>4, <2>5, <2>6 DEF Next
  <1> QED
    BY <1>1, <1>2, PTL DEF Spec

\* TypeCorrect: at every moment the input that the adapter made fills all signals of
\* the circuit, for any number of slots and levels, any notes and any splits.
THEOREM TypeCorrect == Spec => []TypeOK
  <1>1. CircuitInv => TypeOK
    BY InputDecided DEF CircuitInv, TypeOK
  <1> QED
    BY <1>1, CircuitInvariant, PTL

\* WitnessOnlyIfFull: the outcome of a transfer is decided as WitnessIffFull says: the
\* mock paths never lead to a witness; those of the tree do exactly when every slot is
\* taken and no leaf was appended in between, for a tree of any depth.
THEOREM WitnessOnlyIfFull == Spec => []WitnessIffFull
  <1>1. CircuitInv => WitnessIffFull
    <2>1. ASSUME CircuitInv, Done
          PROVE  (witness = "calculated") <=> Full
      <3>1. input # None
        BY <2>1 DEF CircuitInv
      <3>2. (witness = "calculated") <=> ValidateCircuitInput(input) /\ Transaction(input)
        BY <2>1 DEF CircuitInv
      <3> QED
        BY <2>1, <3>1, <3>2, InputDecided
    <2> QED
      BY <2>1, Zenon DEF WitnessIffFull, Full
  <1> QED
    BY <1>1, CircuitInvariant, PTL

\* CircuitBalances: what the balance check of the circuit says of any amounts, whether
\* or not an adapter has looked at them: where all hashes hold, the constraints hold
\* exactly when the totals differ by a multiple of the prime, which is to be equal when
\* both are below it and only then.
THEOREM CircuitBalances ==
    ASSUME NEW s, NEW ins, NEW outs, DOMAIN ins = 1..Slots, DOMAIN outs = 1..Slots,
           Amounts(ins), Amounts(outs),
           DOMAIN s.inAmount = 1..Slots, DOMAIN s.outAmount = 1..Slots,
           \A i \in 1..Slots : /\ s.inAmount[i] = Lit(ins[i].amount)
                              /\ s.outAmount[i] = Lit(outs[i].amount)
                              /\ InputHolds(s, i) /\ OutputHolds(s, i)
    PROVE  /\ Transaction(s) <=> \E k \in Int : TotalAmount(ins) = TotalAmount(outs) + k * FieldPrime
           /\ TotalAmount(ins) < FieldPrime /\ TotalAmount(outs) < FieldPrime =>
                 (Transaction(s) <=> TotalAmount(ins) = TotalAmount(outs))
  <1> DEFINE x == TotalAmount(ins)
             y == TotalAmount(outs)
  <1>1. Slots \in Nat /\ FieldPrime \in Nat \ {0}
    BY CircuitAssumption
  <1>2. x \in Nat /\ y \in Nat
    BY <1>1, TotalIsNat
  <1>3. FieldSum(s.inAmount) = x % FieldPrime
    BY <1>1, FieldSumIsTotal
  <1>4. FieldSum(s.outAmount) = y % FieldPrime
    BY <1>1, FieldSumIsTotal
  <1> HIDE DEF x, y
  <1>5. Transaction(s) <=> x % FieldPrime = y % FieldPrime
    BY <1>3, <1>4 DEF Transaction
  <1>6. x % FieldPrime = y % FieldPrime <=> \E k \in Int : x = y + k * FieldPrime
    BY <1>1, <1>2, SameResidue
  <1>7. x < FieldPrime /\ y < FieldPrime => (x % FieldPrime = y % FieldPrime <=> x = y)
    <2>1. ASSUME NEW q \in Nat \ {0}, NEW z \in Nat, z < q PROVE z % q = z
      BY <2>1
    <2>2. (x < FieldPrime => x % FieldPrime = x) /\ (y < FieldPrime => y % FieldPrime = y)
      BY <1>1, <1>2, <2>1, Zenon
    <2> QED
      BY <2>2
  <1> QED
    BY <1>5, <1>6, <1>7 DEF x, y
=============================================================================
