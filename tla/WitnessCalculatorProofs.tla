----------------------- MODULE WitnessCalculatorProofs ----------------------
(***************************************************************************)
(* Proofs about the witness calculator, for every circuit of this shape,   *)
(* every table of inputs and every document.                               *)
(***************************************************************************)
EXTENDS WitnessCalculator, FiniteSetTheorems, WellFoundedInduction, SequenceTheorems, TLAPS

(***************************************************************************)
(* The table of inputs.                                                    *)
(***************************************************************************)
Slot == [hash : Nat, signalid : Nat, signalsize : Nat]

\* MinIsMember: a non-empty set of natural numbers has a least element, and
\* Min is that.
LEMMA MinIsMember ==
    ASSUME NEW S \in SUBSET Nat, S # {}
    PROVE  Min(S) \in S /\ \A y \in S : Min(S) <= y
  <1>1. \E x \in S : \A y \in S : ~ (<<y, x>> \in OpToRel(<, Nat))
    BY WFMin, NatLessThanWellFounded, Zenon
  <1>a. \A x, y \in Nat : y < x => <<y, x>> \in OpToRel(<, Nat)
    BY Zenon DEF OpToRel
  <1>2. \E x \in S : \A y \in S : x <= y
    <2>1. PICK x \in S : \A y \in S : ~ (<<y, x>> \in OpToRel(<, Nat))
      BY <1>1, Zenon
    <2>2. \A y \in S : ~ (y < x)
      BY <2>1, <1>a, Zenon
    <2> QED
      BY <2>2
  <1> QED
    BY <1>2 DEF Min

\* ModRange: a remainder is smaller than the divisor, and what is smaller is its
\* own remainder.
LEMMA ModRange ==
    ASSUME NEW n \in Nat \ {0}, NEW a \in Nat
    PROVE  a % n \in 0..(n - 1) /\ (a < n => a % n = a)
  OBVIOUS

\* LookupSound: what getInputSignalHashPosition returns is a slot of the table
\* that has the hash.
LEMMA LookupSound ==
    ASSUME NEW n \in Nat \ {0}, NEW map \in [0..(n - 1) -> Slot], NEW h \in Nat,
           GetInputSignalHashPosition(map, h) # NotFound
    PROVE  /\ GetInputSignalHashPosition(map, h) \in 0..(n - 1)
           /\ map[GetInputSignalHashPosition(map, h)].hash = h
  <1> DEFINE home == h % n
             At(k) == (home + k) % n
             stops == {k \in 1..(n - 1) : map[At(k)].hash = h \/ map[At(k)].signalid = 0}
             stop == At(Min(stops))
  <1>1. Cardinality(DOMAIN map) = n
    BY FS_Interval
  <1>2. GetInputSignalHashPosition(map, h) =
            IF map[home].hash = h THEN home
            ELSE IF stops = {} THEN NotFound
            ELSE IF map[stop].hash = h THEN stop ELSE NotFound
    BY <1>1 DEF GetInputSignalHashPosition
  <1>3. home \in 0..(n - 1)
    OBVIOUS
  <1>4. ASSUME stops # {} PROVE stop \in 0..(n - 1)
    <2>1. stops \in SUBSET Nat
      OBVIOUS
    <2>2. Min(stops) \in Nat
      BY <1>4, <2>1, MinIsMember
    <2>3. home + Min(stops) \in Nat
      BY <2>2, <1>3
    <2> QED
      BY <2>3, ModRange
  <1> HIDE DEF home, stops, stop
  <1> QED
    BY <1>2, <1>3, <1>4

\* LookupComplete: an entry is found when no slot from its home up to it is empty
\* or has its hash, which is how a table without deletions is filled.
LEMMA LookupComplete ==
    ASSUME NEW n \in Nat \ {0}, NEW map \in [0..(n - 1) -> Slot], NEW h \in Nat,
           NEW d \in 0..(n - 1), map[((h % n) + d) % n].hash = h,
           \A k \in 0..(d - 1) : map[((h % n) + k) % n].hash # h
                                 /\ map[((h % n) + k) % n].signalid # 0
    PROVE  GetInputSignalHashPosition(map, h) = ((h % n) + d) % n
  <1> DEFINE home == h % n
             At(k) == (home + k) % n
             stops == {k \in 1..(n - 1) : map[At(k)].hash = h \/ map[At(k)].signalid = 0}
             stop == At(Min(stops))
  <1>1. Cardinality(DOMAIN map) = n
    BY FS_Interval
  <1>2. GetInputSignalHashPosition(map, h) =
            IF map[home].hash = h THEN home
            ELSE IF stops = {} THEN NotFound
            ELSE IF map[stop].hash = h THEN stop ELSE NotFound
    BY <1>1 DEF GetInputSignalHashPosition
  <1>3. home \in 0..(n - 1) /\ At(0) = home
    <2>1. home \in 0..(n - 1)
      BY ModRange
    <2>2. home + 0 = home /\ home \in Nat /\ home < n
      BY <2>1
    <2> QED
      BY <2>1, <2>2, ModRange
  <1>4. CASE d = 0
    BY <1>2, <1>3, <1>4
  <1>5. CASE d # 0
    <2>1. map[home].hash # h
      BY <1>3, <1>5
    <2>2. d \in stops /\ stops \in SUBSET Nat
      BY <1>5 DEF stops
    <2>3. Min(stops) \in stops /\ \A y \in stops : Min(stops) <= y
      BY <2>2, MinIsMember
    <2>4. \A k \in stops : ~(k < d)
      BY <1>5
    <2>5. Min(stops) = d
      <3>1. Min(stops) \in Nat /\ d \in Nat
        BY <2>2, <2>3
      <3>2. Min(stops) <= d /\ ~(Min(stops) < d)
        BY <2>2, <2>3, <2>4
      <3> HIDE DEF stops
      <3> QED
        BY <3>1, <3>2
    <2>6. stop = At(d)
      BY <2>5
    <2> HIDE DEF stops, stop, home
    <2>7. map[stop].hash = h
      BY <2>6 DEF home
    <2>8. GetInputSignalHashPosition(map, h) = stop
      BY <1>2, <2>1, <2>2, <2>7
    <2> QED
      BY <2>6, <2>8 DEF home
  <1> QED
    BY <1>4, <1>5

-----------------------------------------------------------------------------
(***************************************************************************)
(* Loading: every input that is assigned is counted, once.  The run of the *)
(* circuit leaves the loader's state alone.                                *)
(***************************************************************************)
Found(d, k) ==
    /\ k \in DOMAIN d
    /\ GetInputSignalHashPosition(HashMap, Hash[d[k].key]) # NotFound

LoadInv ==
    /\ doc \in Documents
    /\ key \in Nat \ {0} /\ next \in Nat
    /\ next # 0 => Found(doc, key)
    /\ counter \in Nat
    /\ assigned \in SUBSET MainInputs
    /\ counter + Cardinality(assigned) = InputCount
    /\ runs = IF counter = 0 THEN 1 ELSE 0
    /\ outcome \in {"none", "aborted", "written"}
    /\ outcome = "written" => counter = 0

\* InputsFinite: the inputs are as many as the circuit has.
LEMMA InputsFinite ==
    /\ InputCount \in Nat \ {0}
    /\ IsFiniteSet(MainInputs) /\ Cardinality(MainInputs) = InputCount
  <1>1. InputCount \in Nat \ {0}
    BY ProgramAssumption DEF InputCount
  <1>2. MainInputs = 1..InputCount
    BY <1>1 DEF MainInputs, MainStart
  <1> QED
    BY <1>1, <1>2, FS_Interval

\* SlotInput: the signals of an entry that was found are inputs of the circuit.
LEMMA SlotInput ==
    ASSUME NEW d \in Documents, NEW k, Found(d, k), NEW i \in Nat \ {0},
           i <= HashMap[GetInputSignalHashPosition(HashMap, Hash[d[k].key])].signalsize
    PROVE  HashMap[GetInputSignalHashPosition(HashMap, Hash[d[k].key])].signalid + i - 1 \in MainInputs
  <1> DEFINE h == Hash[d[k].key]
             p == GetInputSignalHashPosition(HashMap, h)
  <1>1. d[k].key \in DOMAIN Hash
    <2>1. d \in Seq([key : DOMAIN Hash, values : Seq(0..(FieldPrime - 1))])
      BY CalculatorAssumption
    <2>2. d[k] \in [key : DOMAIN Hash, values : Seq(0..(FieldPrime - 1))]
      <3> DEFINE E == [key : DOMAIN Hash, values : Seq(0..(FieldPrime - 1))]
      <3>1. d \in Seq(E) /\ k \in DOMAIN d
        BY <2>1 DEF Found
      <3> HIDE DEF E
      <3>2. d[k] \in E
        BY <3>1
      <3> QED
        BY <3>2 DEF E
    <2> QED
      BY <2>2
  <1>2. h \in Nat
    BY <1>1, CalculatorAssumption
  <1>3. HashMapSize \in Nat \ {0} /\ HashMap \in [0..(HashMapSize - 1) -> Slot]
    BY CalculatorAssumption DEF Slot
  <1>4. p # NotFound
    BY DEF Found
  <1> HIDE DEF h
  <1>5. p \in 0..(HashMapSize - 1)
    BY <1>2, <1>3, <1>4, LookupSound
  <1> HIDE DEF p
  <1>6. p \in DOMAIN HashMap /\ HashMap[p] \in Slot
    BY <1>3, <1>5
  <1>7. HashMap[p].signalid \in Nat /\ HashMap[p].signalsize \in Nat
    BY <1>6 DEF Slot
  <1>8. i - 1 \in 0..(HashMap[p].signalsize - 1)
    BY <1>7 DEF p, h
  <1>9. HashMap[p].signalid + (i - 1) \in MainInputs
    BY <1>6, <1>8, CalculatorAssumption
  <1> QED
    BY <1>7, <1>9 DEF p, h

\* LoadInvInit: nothing is assigned at the start, and everything is missing.
LEMMA LoadInvInit == Init => LoadInv
  <1> SUFFICES ASSUME Init PROVE LoadInv
    OBVIOUS
  <1>1. Cardinality({}) = 0
    BY FS_EmptySet
  <1> QED
    BY <1>1, InputsFinite DEF Init, LoadInv

\* AbortKeeps: giving up changes the outcome only.
LEMMA AbortKeeps == LoadInv /\ Abort => LoadInv'
  BY DEF LoadInv, Abort, loadVars, Found

\* StepKeeps: the run of the circuit leaves the loader's variables alone.
LEMMA StepKeeps == LoadInv /\ Step => LoadInv'
  <1> SUFFICES ASSUME LoadInv, Step PROVE LoadInv'
    OBVIOUS
  <1>1. Abort \/ UNCHANGED <<loadVars, outcome>>
    BY Zenon DEF Step, CreateSubcomponents, SetSubcomponentInput, CopySignal, AddToSum,
           CheckEqual, CheckSums, Continue, Return
  <1>2. CASE UNCHANGED <<loadVars, outcome>>
    BY <1>2 DEF LoadInv, loadVars, Found
  <1> QED
    BY <1>1, <1>2, AbortKeeps

\* LoadKeyKeeps: a key that is found and has its number of values is entered.
LEMMA LoadKeyKeeps == LoadInv /\ LoadKey => LoadInv'
  <1> SUFFICES ASSUME LoadInv, LoadKey PROVE LoadInv'
    OBVIOUS
  <1>1. key \in DOMAIN doc
    <2>1. Len(doc) \in Nat /\ DOMAIN doc = 1..Len(doc)
      BY CalculatorAssumption DEF LoadInv
    <2> QED
      BY <2>1 DEF LoadInv, LoadKey
  <1>2. CASE Abort
    BY <1>2, AbortKeeps
  <1>3. CASE ~Abort
    <2>1. Position # NotFound /\ UNCHANGED <<doc, counter, assigned, runs, outcome>>
      BY <1>3 DEF LoadKey
    <2>2. Found(doc, key)
      BY <1>1, <2>1 DEF Found, Position
    <2>3. (key' = key /\ next' = 1) \/ (key' = key + 1 /\ next' = 0)
      BY <1>3 DEF LoadKey
    <2> QED
      BY <2>1, <2>2, <2>3 DEF LoadInv, Found
  <1> QED
    BY <1>2, <1>3

\* SetInputSignalKeeps: an assigned value counts down once, and the circuit starts
\* when the count is zero.
LEMMA SetInputSignalKeeps == LoadInv /\ SetInputSignal => LoadInv'
  <1> SUFFICES ASSUME LoadInv, SetInputSignal PROVE LoadInv'
    OBVIOUS
  <1> DEFINE si == HashMap[Position].signalid + next - 1
  <1>1. CASE Abort
    BY <1>1, AbortKeeps
  <1>2. CASE ~Abort
    <2>1. /\ outcome = "none" /\ next # 0
          /\ next <= HashMap[Position].signalsize /\ Assignable(si)
          /\ assigned' = assigned \cup {si}
          /\ counter' = counter - 1
          /\ TryRunCircuit(counter - 1)
          /\ UNCHANGED <<doc, outcome>>
      BY <1>2 DEF SetInputSignal, Loading
    <2>2. (key' = key + 1 /\ next' = 0) \/ (key' = key /\ next' = next + 1)
      BY <1>2 DEF SetInputSignal
    <2>3. si \in MainInputs
      BY <2>1, SlotInput DEF LoadInv, Position
    <2>4. counter # 0 /\ si \notin assigned
      BY <2>1 DEF Assignable
    <2>5. IsFiniteSet(assigned)
      BY InputsFinite, FS_Subset DEF LoadInv
    <2> HIDE DEF si
    <2>6. Cardinality(assigned') = Cardinality(assigned) + 1 /\ Cardinality(assigned) \in Nat
      BY <2>1, <2>4, <2>5, FS_AddElement, FS_CardinalityType
    <2>7. /\ counter' \in Nat
          /\ counter' + Cardinality(assigned') = InputCount
      BY <2>1, <2>4, <2>6 DEF LoadInv
    <2>8. runs' = IF counter' = 0 THEN 1 ELSE 0
      BY <2>1, <2>4 DEF LoadInv, TryRunCircuit, Run
    <2>9. assigned' \in SUBSET MainInputs
      BY <2>1, <2>3 DEF LoadInv
    <2>10. /\ key' \in Nat \ {0} /\ next' \in Nat
           /\ next' # 0 => Found(doc, key)' 
      BY <2>1, <2>2 DEF LoadInv, Found
    <2> QED
      BY <2>1, <2>7, <2>8, <2>9, <2>10 DEF LoadInv
  <1> QED
    BY <1>1, <1>2

\* WriteWitnessKeeps: main writes only with a count of zero, that is after the run.
LEMMA WriteWitnessKeeps == LoadInv /\ WriteWitness => LoadInv'
  <1> SUFFICES ASSUME LoadInv, WriteWitness PROVE LoadInv'
    OBVIOUS
  <1>1. CASE Abort
    BY <1>1, AbortKeeps
  <1>2. CASE ~Abort
    BY <1>2 DEF LoadInv, WriteWitness, loadVars, Found
  <1> QED
    BY <1>1, <1>2

\* The loader's invariant.
THEOREM LoadInvAlways == Spec => []LoadInv
  <1>1. LoadInv /\ [Next]_vars => LoadInv'
    <2>1. LoadInv /\ UNCHANGED vars => LoadInv'
      BY DEF LoadInv, vars, loadVars, Found
    <2>2. CASE Next
      BY <2>1, <2>2, LoadKeyKeeps, SetInputSignalKeeps, WriteWitnessKeeps, StepKeeps
      DEF Next, LoadStep, Answered
    <2> QED
      BY <2>1, <2>2
  <1> QED
    BY LoadInvInit, <1>1, PTL DEF Spec

\* RunsOnceCompleteAlways: for every document, table and circuit of this shape,
\* tryRunCircuit starts the program at most once and exactly when the last input
\* has been assigned, and main writes no witness before.
THEOREM RunsOnceCompleteAlways == Spec => []RunsOnceComplete
  <1>1. LoadInv => RunsOnceComplete
    <2> SUFFICES ASSUME LoadInv PROVE RunsOnceComplete
      OBVIOUS
    <2>1. IsFiniteSet(assigned) /\ (Cardinality(MainInputs) = Cardinality(assigned) => MainInputs = assigned)
      BY InputsFinite, FS_Subset DEF LoadInv
    <2>2. Cardinality(assigned) \in Nat
      BY <2>1, FS_CardinalityType
    <2>3. counter = 0 <=> Cardinality(assigned) = InputCount
      BY <2>2, InputsFinite DEF LoadInv
    <2>4. counter = 0 <=> assigned = MainInputs
      BY <2>1, <2>3, InputsFinite
    <2> QED
      BY <2>4 DEF LoadInv, RunsOnceComplete
  <1> QED
    BY <1>1, LoadInvAlways, PTL

(***************************************************************************)
(* The layout of componentMemory (RegionsTile).  First the arithmetic of   *)
(* blocks, and the unrolled loops as sequences.                            *)
(***************************************************************************)
\* DivisionParts: a multiple and a remainder are told apart.
LEMMA DivisionParts ==
    ASSUME NEW m \in Nat \ {0}, NEW a \in Nat, NEW r \in 0..(m - 1)
    PROVE  (a * m + r) \div m = a /\ (a * m + r) % m = r
  <1>1. a * m \in Nat
    OBVIOUS
  <1>2. (a * m + r) % m = r
    OBVIOUS
  <1> QED BY <1>1, <1>2

\* Multiples: the next multiple is one more of it, and multiples grow.
LEMMA Multiples ==
    ASSUME NEW m \in Nat
    PROVE  /\ \A a \in Nat : a * m \in Nat /\ (a + 1) * m = a * m + m
           /\ \A a, b \in Nat : a <= b => a * m <= b * m
  <1>1. \A a, d \in Nat : (a + d) * m = a * m + d * m /\ d * m \in Nat /\ a * m \in Nat
    OBVIOUS
  <1>2. ASSUME NEW a \in Nat, NEW b \in Nat, a <= b PROVE a * m <= b * m
    <2>1. b - a \in Nat /\ a + (b - a) = b
      BY <1>2
    <2>2. b * m = a * m + (b - a) * m /\ (b - a) * m \in Nat /\ a * m \in Nat
      BY <1>1, <2>1
    <2> QED BY <2>2
  <1> QED BY <1>1, <1>2

\* FlattenUniform: sequences of one length, put together, keep their elements at
\* the places the unrolled loop has them.
LEMMA FlattenUniform ==
    ASSUME NEW n \in Nat, NEW m \in Nat \ {0}, NEW S, NEW seqs \in [1..n -> Seq(S)],
           \A i \in 1..n : Len(seqs[i]) = m
    PROVE  /\ FlattenSeq(seqs) \in Seq(S) /\ Len(FlattenSeq(seqs)) = n * m
           /\ \A i \in 1..n : \A j \in 1..m : FlattenSeq(seqs)[(i - 1) * m + j] = seqs[i][j]
  <1> DEFINE At(q) == seqs[((q - 1) \div m) + 1][((q - 1) % m) + 1]
             F(i) == [q \in 1..(i * m) |-> At(q)]
             Solves(f) == f = [i \in 1..n |-> IF i = 1 THEN seqs[i] ELSE f[i - 1] \o seqs[i]]
  <1>1. ASSUME NEW i \in 1..n, NEW j \in 1..m
        PROVE  /\ At((i - 1) * m + j) = seqs[i][j]
               /\ (i - 1) * m \in Nat /\ (i - 1) * m + m = i * m /\ i * m \in Nat
    <2> DEFINE a == i - 1
               b == a * m
    <2>1. a \in Nat /\ i = a + 1
      OBVIOUS
    <2>2. b \in Nat /\ (a + 1) * m = b + m
      <3> HIDE DEF a
      <3> QED BY <2>1, Multiples
    <2>3. (b + (j - 1)) \div m = a /\ (b + (j - 1)) % m = j - 1
      <3> DEFINE r == j - 1
      <3>1. r \in 0..(m - 1)
        OBVIOUS
      <3> HIDE DEF a, r
      <3>2. (a * m + r) \div m = a /\ (a * m + r) % m = r
        BY <2>1, <3>1, DivisionParts
      <3> QED BY <3>2 DEF r
    <2> HIDE DEF b
    <2>4. (b + j) - 1 = b + (j - 1)
      BY <2>2
    <2>5. At(b + j) = seqs[a + 1][(j - 1) + 1]
      BY <2>3, <2>4
    <2>6. (j - 1) + 1 = j
      OBVIOUS
    <2> QED BY <2>1, <2>2, <2>5, <2>6 DEF b
  <1>2. ASSUME NEW i \in 1..n, NEW q \in 1..(i * m), ~ (q <= (i - 1) * m)
        PROVE  \E j \in 1..m : q = (i - 1) * m + j
    <2>1. 1 \in 1..m
      OBVIOUS
    <2>2. (i - 1) * m \in Nat /\ (i - 1) * m + m = i * m
      BY <1>1, <2>1
    <2> DEFINE b == (i - 1) * m
    <2> HIDE DEF b
    <2>3. q - b \in 1..m /\ q = b + (q - b)
      BY <1>2, <2>2 DEF b
    <2> QED BY <2>3 DEF b
  <1> HIDE DEF At
  <1>3. ASSUME NEW i \in 1..n
        PROVE  F(i) = IF i = 1 THEN seqs[i] ELSE F(i - 1) \o seqs[i]
    <2>0. 1 \in 1..m
      OBVIOUS
    <2>1. (i - 1) * m \in Nat /\ (i - 1) * m + m = i * m /\ i * m \in Nat
      BY <1>1, <2>0
    <2>2. seqs[i] \in Seq(S) /\ Len(seqs[i]) = m
      OBVIOUS
    <2>3. CASE i = 1
      <3>1. i * m = m /\ (i - 1) * m = 0
        BY <2>3
      <3>2. seqs[i] = [j \in 1..m |-> seqs[i][j]]
        BY <2>2
      <3>3. \A j \in 1..m : At(j) = seqs[i][j]
        <4>1. \A j \in 1..m : (i - 1) * m + j = j
          BY <3>1
        <4> QED BY <1>1, <4>1
      <3> QED BY <2>3, <3>1, <3>2, <3>3
    <2>4. CASE i # 1
      <3> DEFINE b == (i - 1) * m
                 f == F(i - 1)
      <3>1. b \in Nat /\ b + m = i * m
        BY <2>1
      <3>2. \A j \in 1..m : At(b + j) = seqs[i][j]
        BY <1>1
      <3>3. f = [q \in 1..b |-> At(q)]
        OBVIOUS
      <3> HIDE DEF b, f
      <3>4. f \o seqs[i] = [q \in 1..(b + m) |-> IF q <= b THEN f[q] ELSE seqs[i][q - b]]
        <4> DEFINE V == S \cup {At(q) : q \in 1..b}
        <4>1. f \in Seq(V) /\ Len(f) = b /\ seqs[i] \in Seq(V)
          BY <2>2, <3>1, <3>3
        <4> HIDE DEF V
        <4>2. /\ f \o seqs[i] \in Seq(V) /\ Len(f \o seqs[i]) = b + m
              /\ \A q \in 1..(b + m) : (f \o seqs[i])[q] = IF q <= b THEN f[q] ELSE seqs[i][q - b]
          <5> DEFINE g == seqs[i]
          <5>1. g \in Seq(V) /\ Len(g) = m
            BY <2>2, <4>1
          <5> HIDE DEF g
          <5>2. /\ f \o g \in Seq(V) /\ Len(f \o g) = Len(f) + Len(g)
                /\ \A q \in 1..(Len(f) + Len(g)) : (f \o g)[q] = IF q <= Len(f) THEN f[q] ELSE g[q - Len(f)]
            BY <4>1, <5>1, ConcatProperties
          <5>3. /\ f \o g \in Seq(V) /\ Len(f \o g) = b + m
                /\ \A q \in 1..(b + m) : (f \o g)[q] = IF q <= b THEN f[q] ELSE g[q - b]
            BY <4>1, <5>1, <5>2
          <5> QED BY <5>3 DEF g
        <4> QED BY <4>2
      <3>5. \A q \in 1..(b + m) : (IF q <= b THEN f[q] ELSE seqs[i][q - b]) = At(q)
        <4> SUFFICES ASSUME NEW q \in 1..(b + m)
                     PROVE  (IF q <= b THEN f[q] ELSE seqs[i][q - b]) = At(q)
          OBVIOUS
        <4>1. CASE q <= b
          BY <3>1, <3>3, <4>1
        <4>2. CASE ~ (q <= b)
          <5>1. q - b \in 1..m /\ b + (q - b) = q
            BY <3>1, <4>2
          <5> QED BY <3>2, <4>2, <5>1
        <4> QED BY <4>1, <4>2
      <3>6. F(i) = [q \in 1..(b + m) |-> At(q)]
        BY <3>1
      <3>7. f \o seqs[i] = [q \in 1..(b + m) |-> At(q)]
        BY <3>4, <3>5
      <3> QED BY <2>4, <3>6, <3>7 DEF f
    <2> QED BY <2>3, <2>4
  <1>4. Solves([i \in 1..n |-> F(i)])
    <2> DEFINE f == [i \in 1..n |-> F(i)]
    <2> HIDE DEF F
    <2>1. \A i \in 1..n : f[i] = F(i) /\ (i # 1 => f[i - 1] = F(i - 1))
      OBVIOUS
    <2>2. \A i \in 1..n : F(i) = IF i = 1 THEN seqs[i] ELSE f[i - 1] \o seqs[i]
      BY <1>3, <2>1
    <2> QED BY <2>2
  <1>5. ASSUME NEW f, Solves(f), NEW i \in 1..n
        PROVE  f[i] = F(i)
    <2> HIDE DEF F
    <2> DEFINE Bad == {k \in 1..n : f[k] # F(k)}
    <2>1. SUFFICES ASSUME Bad # {} PROVE FALSE
      OBVIOUS
    <2>2. Bad \in SUBSET Nat
      OBVIOUS
    <2>3. PICK k \in Bad : \A y \in Bad : k <= y
      BY <2>1, <2>2, MinIsMember
    <2>4. f[k] = IF k = 1 THEN seqs[k] ELSE f[k - 1] \o seqs[k]
      BY <1>5, <2>3
    <2>5. k # 1 => f[k - 1] = F(k - 1)
      <3>1. k \in 1..n BY <2>3
      <3>2. k # 1 => k - 1 \in 1..n /\ ~ (k <= k - 1)
        BY <3>1
      <3> QED BY <2>3, <3>2
    <2>6. F(k) = IF k = 1 THEN seqs[k] ELSE F(k - 1) \o seqs[k]
      BY <1>3, <2>3
    <2> QED BY <2>3, <2>4, <2>5, <2>6
  <1>6. seqs \in Seq(Seq(S)) /\ Len(seqs) = n
    OBVIOUS
  <1> DEFINE flatten == CHOOSE f : Solves(f)
  <1>7. Solves(flatten)
    BY <1>4, Zenon
  <1>8. FlattenSeq(seqs) = IF n = 0 THEN seqs ELSE flatten[n]
    <2> HIDE DEF F
    <2> QED BY <1>6 DEF FlattenSeq
  <1> HIDE DEF flatten, Solves
  <1>9. FlattenSeq(seqs) = F(n) /\ n * m \in Nat
    <2>1. CASE n = 0
      <3>1. n * m = 0 BY <2>1
      <3>2. F(n) = << >> /\ seqs = << >>
        BY <2>1, <3>1, <1>6
      <3> QED BY <1>8, <2>1, <3>1, <3>2
    <2>2. CASE n # 0
      <3>1. n \in 1..n /\ 1 \in 1..m BY <2>2
      <3> HIDE DEF F
      <3> QED BY <1>1, <1>5, <1>7, <1>8, <2>2, <3>1
    <2> QED BY <2>1, <2>2
  <1>10. \A q \in 1..(n * m) : At(q) \in S
    <2> SUFFICES ASSUME NEW q \in 1..(n * m) PROVE At(q) \in S
      OBVIOUS
    <2> DEFINE a == (q - 1) \div m
               r == (q - 1) % m
    <2>1. q - 1 \in Nat
      BY <1>9
    <2>2. a \in Nat /\ r \in 0..(m - 1) /\ q - 1 = a * m + r
      BY <2>1
    <2>3. a < n
      <3>1. SUFFICES ASSUME ~ (a < n) PROVE FALSE
        OBVIOUS
      <3> HIDE DEF a, r
      <3>2. a * m >= n * m
        BY <2>2, <3>1, Multiples
      <3>3. a * m \in Nat BY <2>2, Multiples
      <3> DEFINE am == a * m
                 nm == n * m
      <3>4. am \in Nat /\ nm \in Nat /\ q \in 1..nm /\ q - 1 = am + r /\ am >= nm /\ r \in Nat
        BY <1>9, <2>2, <3>2, <3>3
      <3> HIDE DEF am, nm
      <3> QED BY <3>4
    <2> HIDE DEF a, r
    <2>4. seqs[a + 1] \in Seq(S) /\ Len(seqs[a + 1]) = m
      BY <2>2, <2>3
    <2>5. seqs[a + 1][r + 1] \in S
      BY <2>2, <2>4
    <2> QED BY <2>5 DEF At, a, r
  <1>11. F(n) \in Seq(S) /\ Len(F(n)) = n * m
    BY <1>9, <1>10
  <1>12. ASSUME NEW i \in 1..n, NEW j \in 1..m
         PROVE  F(n)[(i - 1) * m + j] = seqs[i][j]
    <2> DEFINE b == (i - 1) * m
    <2>1. b \in Nat /\ b + m = i * m /\ At(b + j) = seqs[i][j]
      BY <1>1
    <2>2. i * m <= n * m
      <3>1. i \in Nat /\ i <= n
        OBVIOUS
      <3> QED BY <3>1, Multiples
    <2>3. b + j \in 1..(n * m)
      <3> DEFINE im == i * m
                 nm == n * m
      <3>1. b \in Nat /\ nm \in Nat /\ im = b + m /\ im <= nm
        BY <1>9, <2>1, <2>2
      <3> HIDE DEF b, im, nm
      <3>2. b + j \in 1..nm
        BY <3>1
      <3> QED BY <3>2 DEF nm
    <2> HIDE DEF b
    <2>4. F(n)[b + j] = At(b + j)
      BY <2>3
    <2> QED BY <2>1, <2>4 DEF b
  <1> HIDE DEF F
  <1> QED BY <1>9, <1>11, <1>12

(***************************************************************************)
(* The generated program.  A run creates its sub-components first, in      *)
(* blocks of one size, and then only uses them.                            *)
(***************************************************************************)
Names == {"PoseidonEx2", "PoseidonEx3", "MultiMux1", "Poseidon2", "Poseidon3", "MerkleProof", "Transaction"}

Size(t) == Templates[t].components
Extent(t) == Templates[t].signals

\* How many statements create sub-components, and how many each.
Blocks(t) ==
    IF t \in {"Poseidon2", "Poseidon3"} THEN 1
    ELSE IF t = "MerkleProof" THEN 2 ELSE IF t = "Transaction" THEN 4 ELSE 0
PerBlock(t) == IF t = "MerkleProof" THEN Levels ELSE IF t = "Transaction" THEN Slots ELSE 1
Kids(t) == Blocks(t) * PerBlock(t)

\* A statement that creates nothing, and uses what there is.
Uses(s, n) == s.op # "create" /\ (s.op = "set" => s.sub \in 1..n)

\* The creating statement b of a run.
Creates(s, b, n) ==
    /\ s.op = "create" /\ s.first = (b - 1) * n + 1 /\ s.count = n
    /\ s.template \in Names /\ s.component \in Nat \ {0} /\ s.signal \in Nat

\* A block of sub-components is directly behind the one before it.
Follows(s, r, n) ==
    /\ s.component = r.component + n * Size(r.template)
    /\ s.signal = r.signal + n * Extent(r.template)

Shape(t) ==
    LET run == Templates[t].run
        C == Blocks(t)
        n == PerBlock(t)
    IN  /\ Len(run) \in Nat /\ C <= Len(run) /\ n \in Nat \ {0}
        /\ Size(t) \in Nat \ {0} /\ Extent(t) \in Nat /\ Templates[t].own \in Nat
        /\ Templates[t].inputs \in Nat \ {0}
        /\ \A b \in 1..C : Creates(run[b], b, n)
        /\ C # 0 => /\ run[1].component = 1 /\ run[1].signal = Templates[t].own
                    /\ run[C].component + n * Size(run[C].template) <= Size(t)
                    /\ run[C].signal + n * Extent(run[C].template) <= Extent(t)
        /\ \A b \in 1..(C - 1) : Follows(run[b + 1], run[b], n)
        /\ \A i \in (C + 1)..Len(run) : Uses(run[i], C * n)

\* Begins: a sequence begins with `creates`, and goes on with elements of P.
Begins(r, creates, P, V) ==
    /\ r \in Seq(V) /\ Len(creates) <= Len(r)
    /\ \A i \in 1..Len(creates) : r[i] = creates[i]
    /\ \A i \in (Len(creates) + 1)..Len(r) : r[i] \in P

\* BeginsGoesOn: it still does when more of P is appended.
LEMMA BeginsGoesOn ==
    ASSUME NEW P, NEW V, P \subseteq V, NEW creates, Len(creates) \in Nat, NEW r,
           Begins(r, creates, P, V), NEW s \in Seq(P)
    PROVE  Begins(r \o s, creates, P, V)
  <1>1. r \in Seq(V) /\ s \in Seq(V) /\ Len(r) \in Nat /\ Len(s) \in Nat
    BY DEF Begins
  <1>2. /\ r \o s \in Seq(V) /\ Len(r \o s) = Len(r) + Len(s)
        /\ \A i \in 1..(Len(r) + Len(s)) : (r \o s)[i] = IF i <= Len(r) THEN r[i] ELSE s[i - Len(r)]
    BY <1>1, ConcatProperties
  <1>3. \A i \in 1..Len(creates) : (r \o s)[i] = creates[i]
    BY <1>1, <1>2 DEF Begins
  <1>4. ASSUME NEW i \in (Len(creates) + 1)..Len(r \o s) PROVE (r \o s)[i] \in P
    <2>1. CASE i <= Len(r)
      BY <1>1, <1>2, <2>1 DEF Begins
    <2>2. CASE ~ (i <= Len(r))
      <3>1. i - Len(r) \in 1..Len(s) /\ (r \o s)[i] = s[i - Len(r)]
        BY <1>1, <1>2, <2>2
      <3>2. s[i - Len(r)] \in P
        BY <3>1
      <3> QED BY <3>1, <3>2
    <2> QED BY <2>1, <2>2
  <1> QED BY <1>1, <1>2, <1>3, <1>4 DEF Begins

\* TemplateValues: the templates, by name.
LEMMA TemplateValues ==
    /\ Templates["PoseidonEx2"] = PoseidonEx(2) /\ Templates["PoseidonEx3"] = PoseidonEx(3)
    /\ Templates["MultiMux1"] = MultiMux1
    /\ Templates["Poseidon2"] = Poseidon(2) /\ Templates["Poseidon3"] = Poseidon(3)
    /\ Templates["MerkleProof"] = MerkleProof /\ Templates["Transaction"] = Transaction
  BY DEF Templates

\* LeafShape: the templates without statements.
LEMMA LeafShape == \A t \in {"PoseidonEx2", "PoseidonEx3", "MultiMux1"} :
                      Shape(t) /\ Templates[t].run = << >>
  <1>1. ASSUME NEW t, Templates[t].run = << >>, Blocks(t) = 0, PerBlock(t) = 1,
               Size(t) \in Nat \ {0}, Extent(t) \in Nat, Templates[t].own \in Nat, Templates[t].inputs \in Nat \ {0}
        PROVE  Shape(t)
    BY <1>1 DEF Shape
  <1>2. /\ Size("PoseidonEx2") = 155 /\ Extent("PoseidonEx2") = 764
        /\ Size("PoseidonEx3") = 161 /\ Extent("PoseidonEx3") = 930
        /\ Size("MultiMux1") = 1 /\ Extent("MultiMux1") = 7
    BY TemplateValues DEF Size, Extent, PoseidonEx, MultiMux1
  <1>3. /\ Templates["PoseidonEx2"].own = 4 /\ Templates["PoseidonEx3"].own = 5 /\ Templates["MultiMux1"].own = 7
        /\ Templates["PoseidonEx2"].inputs = 3 /\ Templates["PoseidonEx3"].inputs = 4
        /\ Templates["MultiMux1"].inputs = 5
        /\ Templates["PoseidonEx2"].run = << >> /\ Templates["PoseidonEx3"].run = << >>
        /\ Templates["MultiMux1"].run = << >>
    BY TemplateValues DEF PoseidonEx, MultiMux1
  <1> QED BY <1>1, <1>2, <1>3 DEF Blocks, PerBlock

\* The numbers of the hashers.
LEMMA HasherNumbers ==
    /\ Size("PoseidonEx2") = 155 /\ Extent("PoseidonEx2") = 764
    /\ Size("PoseidonEx3") = 161 /\ Extent("PoseidonEx3") = 930
    /\ Size("MultiMux1") = 1 /\ Extent("MultiMux1") = 7
    /\ Size("Poseidon2") = 156 /\ Extent("Poseidon2") = 767
    /\ Size("Poseidon3") = 162 /\ Extent("Poseidon3") = 934
    /\ Poseidon(2).components = 156 /\ Poseidon(2).signals = 767
    /\ Poseidon(3).components = 162 /\ Poseidon(3).signals = 934
    /\ MultiMux1.signals = 7
  BY TemplateValues DEF Size, Extent, PoseidonEx, MultiMux1, Poseidon

\* PoseidonShape: Poseidon_run creates one PoseidonEx and uses it.
LEMMA PoseidonShape ==
    ASSUME NEW n \in {2, 3}, NEW t, t = IF n = 2 THEN "Poseidon2" ELSE "Poseidon3"
    PROVE  Shape(t)
  <1> DEFINE run == Templates[t].run
             create == Create(1, 1, PoseidonExName(n), 1, n + 1)
             creates == <<create>>
             state == SetInput(1, n + 1, Zero)
             Body(i) == SetInput(1, i + 1, Self(i + 1))
             last == Copy(0, Sub(1, 0))
             P == {state, last} \cup {Body(i) : i \in 0..(n - 1)}
             V == P \cup {create}
             seqs == [i \in 1..n |-> <<Body(i - 1)>>]
  <1>1. /\ Templates[t].own = n + 1 /\ Templates[t].inputs = n
        /\ run = <<create, state>> \o FlattenSeq(seqs) \o <<last>>
    <2>1. Templates[t] = Poseidon(n)
      BY TemplateValues
    <2>2. /\ Poseidon(n).own = n + 1 /\ Poseidon(n).inputs = n
          /\ Poseidon(n).run = PoseidonRun(n)
      BY DEF Poseidon
    <2>3. PoseidonRun(n) = <<create, state>> \o FlattenSeq(seqs) \o <<last>>
      BY DEF PoseidonRun, For
    <2> HIDE DEF create, state, seqs, last
    <2> QED BY <2>1, <2>2, <2>3
  <1>2. \A s \in P : Uses(s, 1)
    BY DEF Uses, SetInput, Copy
  <1>3. /\ create.op = "create" /\ create.first = 1 /\ create.count = 1
        /\ create.template = PoseidonExName(n) /\ create.component = 1 /\ create.signal = n + 1
    BY DEF Create
  <1> HIDE DEF create, state, Body, last, run
  <1>4. Begins(<<create, state>>, creates, P, V) /\ Len(creates) = 1
    BY DEF Begins
  <1>5. FlattenSeq(seqs) \in Seq(P)
    <2> HIDE DEF P
    <2>1. \A i \in 1..n : Body(i - 1) \in P
      BY DEF P
    <2>2. seqs \in [1..n -> Seq(P)] /\ \A i \in 1..n : Len(seqs[i]) = 1
      BY <2>1
    <2> DEFINE m == 1
    <2>3. n \in Nat /\ m \in Nat \ {0} /\ \A i \in 1..n : Len(seqs[i]) = m
      BY <2>2
    <2> HIDE DEF seqs, m
    <2> QED BY <2>2, <2>3, FlattenUniform
  <1>6. Begins(run, creates, P, V)
    <2>1. <<last>> \in Seq(P) /\ P \subseteq V
      OBVIOUS
    <2> HIDE DEF P, V, creates, seqs
    <2>2. Begins(<<create, state>> \o FlattenSeq(seqs), creates, P, V)
      BY <1>4, <1>5, <2>1, BeginsGoesOn
    <2> DEFINE r == <<create, state>> \o FlattenSeq(seqs)
               end == <<last>>
    <2>3. Begins(r, creates, P, V) /\ end \in Seq(P) /\ run = r \o end /\ Len(creates) \in Nat /\ P \subseteq V
      BY <1>1, <1>4, <2>1, <2>2
    <2> HIDE DEF r, end
    <2> QED BY <2>3, BeginsGoesOn
  <1>7. Blocks(t) = 1 /\ PerBlock(t) = 1
    BY DEF Blocks, PerBlock
  <1>8. /\ Len(run) \in Nat /\ 1 <= Len(run) /\ run[1] = create
        /\ \A i \in 2..Len(run) : run[i] \in P
    <2> HIDE DEF P, V
    <2> QED BY <1>4, <1>6 DEF Begins
  <1>9. /\ Size(t) \in Nat \ {0} /\ Extent(t) \in Nat
        /\ 1 + Size(PoseidonExName(n)) = Size(t) /\ (n + 1) + Extent(PoseidonExName(n)) = Extent(t)
        /\ Size(PoseidonExName(n)) \in Nat /\ Extent(PoseidonExName(n)) \in Nat
        /\ PoseidonExName(n) \in Names
    BY HasherNumbers DEF PoseidonExName, Names
  <1>10. Creates(run[1], 1, 1)
    BY <1>3, <1>8, <1>9 DEF Creates
  <1>11. \A i \in 2..Len(run) : Uses(run[i], 1)
    BY <1>2, <1>8
  <1>20. \A b \in 1..Blocks(t) : Creates(run[b], b, PerBlock(t))
    BY <1>7, <1>10
  <1>21. \A b \in 1..(Blocks(t) - 1) : Follows(run[b + 1], run[b], PerBlock(t))
    BY <1>7
  <1>22. \A i \in (Blocks(t) + 1)..Len(run) : Uses(run[i], Blocks(t) * PerBlock(t))
    BY <1>7, <1>11
  <1>23. /\ run[1].component = 1 /\ run[1].signal = n + 1
         /\ run[1].component + 1 * Size(run[1].template) <= Size(t)
         /\ run[1].signal + 1 * Extent(run[1].template) <= Extent(t)
    BY <1>3, <1>8, <1>9
  <1> HIDE DEF P, V, seqs, creates
  <1>24. /\ Len(run) \in Nat /\ Blocks(t) <= Len(run) /\ PerBlock(t) \in Nat \ {0}
         /\ n + 1 \in Nat /\ n \in Nat \ {0}
    BY <1>7, <1>8
  <1> QED BY <1>1, <1>7, <1>9, <1>20, <1>21, <1>22, <1>23, <1>24 DEF Shape, run

\* MerkleShape: MerkleProof_run creates the hashers and the multiplexers.
LEMMA MerkleShape == Shape("MerkleProof")
  <1> DEFINE run == Templates["MerkleProof"].run
             c1 == Create(1, Levels, "Poseidon2", 1, MerkleOwn)
             c2 == Create(Levels + 1, Levels, "MultiMux1", 1 + Levels * Poseidon(2).components,
                          MerkleOwn + Levels * Poseidon(2).signals)
             first == Copy(MerkleHash(0), Self(1))
             last == Copy(0, Self(MerkleHash(Levels)))
             P == {first, last} \cup {MerkleLevel(p[1])[p[2]] : p \in (0..(Levels - 1)) \X (1..8)}
             V == P \cup {c1, c2}
             seqs == [i \in 1..Levels |-> MerkleLevel(i - 1)]
  <1>0. Levels \in Nat \ {0}
    BY ProgramAssumption
  <1>1. /\ run = MerkleCreate \o <<first>> \o FlattenSeq(seqs) \o <<last>>
        /\ MerkleCreate = <<c1, c2>>
    BY TemplateValues DEF MerkleProof, For, MerkleCreate
  <1>2. \A s \in P : Uses(s, 2 * Levels)
    <2>1. Uses(first, 2 * Levels) /\ Uses(last, 2 * Levels)
      BY DEF Uses, Copy
    <2>2. ASSUME NEW l \in 0..(Levels - 1), NEW j \in 1..8
          PROVE  Uses(MerkleLevel(l)[j], 2 * Levels)
      <3>1. l + 1 \in 1..(2 * Levels) /\ Levels + l + 1 \in 1..(2 * Levels)
        BY <1>0
      <3> QED BY <3>1 DEF Uses, MerkleLevel, SetInput, Copy
    <2> QED BY <2>1, <2>2
  <1>3. /\ c1.op = "create" /\ c1.first = 1 /\ c1.count = Levels
        /\ c1.template = "Poseidon2" /\ c1.component = 1 /\ c1.signal = MerkleOwn
        /\ c2.op = "create" /\ c2.first = Levels + 1 /\ c2.count = Levels
        /\ c2.template = "MultiMux1" /\ c2.component = 1 + Levels * 156 /\ c2.signal = MerkleOwn + Levels * 767
    BY HasherNumbers DEF Create
  <1>4. seqs \in [1..Levels -> Seq(P)] /\ \A i \in 1..Levels : Len(seqs[i]) = 8
    <2>1. ASSUME NEW i \in 1..Levels PROVE MerkleLevel(i - 1) \in Seq(P) /\ Len(MerkleLevel(i - 1)) = 8
      <3> DEFINE w == MerkleLevel(i - 1)
      <3>1. w = [j \in 1..8 |-> w[j]] /\ Len(w) = 8
        BY DEF MerkleLevel
      <3>2. i - 1 \in 0..(Levels - 1)
        BY <1>0
      <3>3. \A j \in 1..8 : w[j] \in P
        <4> SUFFICES ASSUME NEW j \in 1..8 PROVE w[j] \in P
          OBVIOUS
        <4> DEFINE p == <<i - 1, j>>
        <4>1. p \in (0..(Levels - 1)) \X (1..8) /\ w[j] = MerkleLevel(p[1])[p[2]]
          BY <3>2
        <4> HIDE DEF w, p
        <4> QED BY <4>1
      <3> HIDE DEF w, P
      <3>4. w \in Seq(P)
        BY <3>1, <3>3
      <3> QED BY <3>1, <3>4 DEF w
    <2> HIDE DEF P
    <2> QED BY <2>1
  <1> HIDE DEF c1, c2, first, last, run
  <1>5. Begins(<<c1, c2>>, <<c1, c2>>, P, V)
    BY DEF Begins
  <1>6. FlattenSeq(seqs) \in Seq(P)
    <2> DEFINE m == 8
    <2> HIDE DEF P
    <2>1. m \in Nat \ {0} /\ \A i \in 1..Levels : Len(seqs[i]) = m
      BY <1>4
    <2> HIDE DEF seqs, m
    <2> QED BY <1>0, <1>4, <2>1, FlattenUniform
  <1>7. Begins(run, <<c1, c2>>, P, V)
    <2> DEFINE creates == <<c1, c2>>
    <2>1. <<first>> \in Seq(P) /\ <<last>> \in Seq(P) /\ P \subseteq V
      OBVIOUS
    <2>2. Len(creates) \in Nat /\ Begins(creates, creates, P, V) /\ run = creates \o <<first>> \o FlattenSeq(seqs) \o <<last>>
      BY <1>1, <1>5
    <2> HIDE DEF P, V, creates, seqs
    <2>3. Begins(creates \o <<first>>, creates, P, V)
      BY <2>1, <2>2, BeginsGoesOn
    <2>4. Begins(creates \o <<first>> \o FlattenSeq(seqs), creates, P, V)
      BY <1>6, <2>1, <2>2, <2>3, BeginsGoesOn
    <2>5. Begins(run, creates, P, V)
      BY <2>1, <2>2, <2>4, BeginsGoesOn
    <2> QED BY <2>5 DEF creates
  <1>8. /\ Len(run) \in Nat /\ 2 <= Len(run) /\ run[1] = c1 /\ run[2] = c2
        /\ \A i \in 3..Len(run) : run[i] \in P
    <2> HIDE DEF P, V
    <2>1. Len(<<c1, c2>>) = 2 /\ <<c1, c2>>[1] = c1 /\ <<c1, c2>>[2] = c2
      OBVIOUS
    <2> QED BY <1>7, <2>1 DEF Begins
  <1>9. Blocks("MerkleProof") = 2 /\ PerBlock("MerkleProof") = Levels
    BY DEF Blocks, PerBlock
  <1>10. /\ Templates["MerkleProof"].own = MerkleOwn /\ MerkleOwn \in Nat
         /\ Templates["MerkleProof"].inputs \in Nat \ {0}
         /\ Size("MerkleProof") = 1 + Levels * 157
         /\ Extent("MerkleProof") = MerkleOwn + Levels * 774
    BY <1>0, TemplateValues, HasherNumbers DEF MerkleProof, MerkleOwn, Size, Extent
  <1>11. /\ Creates(run[1], 1, Levels) /\ Creates(run[2], 2, Levels)
    BY <1>0, <1>3, <1>8, <1>10 DEF Creates, Names
  <1>12. Follows(run[2], run[1], Levels)
    BY <1>0, <1>3, <1>8, HasherNumbers DEF Follows
  <1>13. /\ run[2].component + Levels * Size(run[2].template) <= Size("MerkleProof")
         /\ run[2].signal + Levels * Extent(run[2].template) <= Extent("MerkleProof")
    <2>1. \A L, own \in Nat : (1 + L * 156) + L * 1 <= 1 + L * 157 /\ (own + L * 767) + L * 7 <= own + L * 774
      OBVIOUS
    <2>2. /\ Size(run[2].template) = 1 /\ Extent(run[2].template) = 7
          /\ run[2].component = 1 + Levels * 156 /\ run[2].signal = MerkleOwn + Levels * 767
      BY <1>3, <1>8, HasherNumbers
    <2> HIDE DEF P, V, seqs
    <2>3. (1 + Levels * 156) + Levels * 1 <= 1 + Levels * 157 /\ (MerkleOwn + Levels * 767) + Levels * 7 <= MerkleOwn + Levels * 774
      BY <1>0, <1>10, <2>1
    <2> QED BY <1>10, <2>2, <2>3
  <1>14. \A i \in 3..Len(run) : Uses(run[i], 2 * Levels)
    BY <1>2, <1>8
  <1> HIDE DEF P, V, seqs
  <1>15. run[1].component = 1 /\ run[1].signal = MerkleOwn
    BY <1>3, <1>8
  <1>20. \A b \in 1..Blocks("MerkleProof") : Creates(run[b], b, PerBlock("MerkleProof"))
    BY <1>9, <1>11
  <1>21. \A b \in 1..(Blocks("MerkleProof") - 1) : Follows(run[b + 1], run[b], PerBlock("MerkleProof"))
    BY <1>9, <1>12
  <1>22. \A i \in (Blocks("MerkleProof") + 1)..Len(run) : Uses(run[i], Blocks("MerkleProof") * PerBlock("MerkleProof"))
    BY <1>9, <1>14
  <1>23. Size("MerkleProof") \in Nat \ {0} /\ Extent("MerkleProof") \in Nat
    BY <1>0, <1>10
  <1> QED BY <1>0, <1>8, <1>9, <1>10, <1>13, <1>15, <1>20, <1>21, <1>22, <1>23 DEF Shape, run

\* The statements of Transaction_run for one input and for one output.
InputStatements(i) ==
    {SetInput(i + 1, 1, In("inAmount", i)), SetInput(i + 1, 2, In("inSecret", i)),
     SetInput(i + 1, 3, In("inRecipient", i)), SetInput(Slots + i + 1, 1, Sub(i + 1, 0)),
     SetInput(Slots + i + 1, 2, In("inSecret", i)),
     AssertEqual(Sub(Slots + i + 1, 0), In("nullifierHashes", i)),
     SetInput(2 * Slots + i + 1, 1, Sub(i + 1, 0)),
     AssertEqual(Sub(2 * Slots + i + 1, 0), In("root", 0)), AddTo("ins", In("inAmount", i))}
    \cup {SetInput(2 * Slots + i + 1, 2 + j, In("inPathElements", Levels * i + j)) : j \in 0..(Levels - 1)}
    \cup {SetInput(2 * Slots + i + 1, 2 + Levels + j, In("inPathIndices", Levels * i + j)) : j \in 0..(Levels - 1)}

OutputStatements(i) ==
    {SetInput(3 * Slots + i + 1, 1, In("outAmount", i)), SetInput(3 * Slots + i + 1, 2, In("outSecret", i)),
     SetInput(3 * Slots + i + 1, 3, In("outRecipient", i)),
     AssertEqual(Sub(3 * Slots + i + 1, 0), In("outCommitments", i)), AddTo("outs", In("outAmount", i))}

\* InputStatementsUse: an input uses its two hashers and its tree.
LEMMA InputStatementsUse ==
    ASSUME NEW i \in 0..(Slots - 1)
    PROVE  /\ TransactionInput(i) \in Seq(InputStatements(i)) /\ Len(TransactionInput(i)) = 9 + 2 * Levels
           /\ \A s \in InputStatements(i) : Uses(s, 4 * Slots)
  <1>0. Slots \in Nat \ {0} /\ Levels \in Nat \ {0}
    BY ProgramAssumption
  <1> DEFINE Q == InputStatements(i)
             head == <<SetInput(i + 1, 1, In("inAmount", i)), SetInput(i + 1, 2, In("inSecret", i)),
                       SetInput(i + 1, 3, In("inRecipient", i)), SetInput(Slots + i + 1, 1, Sub(i + 1, 0)),
                       SetInput(Slots + i + 1, 2, In("inSecret", i)),
                       AssertEqual(Sub(Slots + i + 1, 0), In("nullifierHashes", i)),
                       SetInput(2 * Slots + i + 1, 1, Sub(i + 1, 0))>>
             E(j) == SetInput(2 * Slots + i + 1, 2 + j, In("inPathElements", Levels * i + j))
             I(j) == SetInput(2 * Slots + i + 1, 2 + Levels + j, In("inPathIndices", Levels * i + j))
             path == [j \in 1..Levels |-> <<E(j - 1), I(j - 1)>>]
             end == <<AssertEqual(Sub(2 * Slots + i + 1, 0), In("root", 0)), AddTo("ins", In("inAmount", i))>>
  <1>1. TransactionInput(i) = head \o FlattenSeq(path) \o end
    BY DEF TransactionInput, For
  <1>2. head \in Seq(Q) /\ Len(head) = 7 /\ end \in Seq(Q) /\ Len(end) = 2
    BY DEF InputStatements
  <1>3. \A j \in 0..(Levels - 1) : E(j) \in Q /\ I(j) \in Q
    BY DEF InputStatements
  <1>4. \A s \in Q : Uses(s, 4 * Slots)
    <2>1. /\ i + 1 \in 1..(4 * Slots) /\ Slots + i + 1 \in 1..(4 * Slots)
          /\ 2 * Slots + i + 1 \in 1..(4 * Slots)
      BY <1>0
    <2> QED BY <2>1 DEF InputStatements, Uses, SetInput, AssertEqual, AddTo
  <1> HIDE DEF Q, head, E, I, end
  <1>5. FlattenSeq(path) \in Seq(Q) /\ Len(FlattenSeq(path)) = Levels * 2
    <2> DEFINE m == 2
    <2>1. \A j \in 1..Levels : E(j - 1) \in Q /\ I(j - 1) \in Q
      BY <1>0, <1>3
    <2>2. path \in [1..Levels -> Seq(Q)] /\ m \in Nat \ {0} /\ Levels \in Nat
          /\ \A j \in 1..Levels : Len(path[j]) = m
      BY <1>0, <2>1
    <2> HIDE DEF path, m
    <2>3. FlattenSeq(path) \in Seq(Q) /\ Len(FlattenSeq(path)) = Levels * m
      BY <2>2, FlattenUniform
    <2> QED BY <2>3 DEF m
  <1> HIDE DEF path
  <1> DEFINE w == FlattenSeq(path)
             v == head \o w
  <1>6. v \in Seq(Q) /\ Len(v) = 7 + Levels * 2
    <2>1. w \in Seq(Q) /\ Len(w) = Levels * 2
      BY <1>5
    <2> HIDE DEF w
    <2>2. head \o w \in Seq(Q) /\ Len(head \o w) = Len(head) + Len(w)
      BY <1>2, <2>1, ConcatProperties
    <2> QED BY <1>2, <2>1, <2>2
  <1>7. TransactionInput(i) \in Seq(Q) /\ Len(TransactionInput(i)) = (7 + Levels * 2) + 2
    <2>1. TransactionInput(i) = v \o end
      BY <1>1
    <2> HIDE DEF v
    <2>2. v \o end \in Seq(Q) /\ Len(v \o end) = Len(v) + Len(end)
      BY <1>2, <1>6, ConcatProperties
    <2> QED BY <1>2, <1>6, <2>1, <2>2
  <1> QED BY <1>0, <1>4, <1>7 DEF Q

\* OutputStatementsUse: an output uses its hasher.
LEMMA OutputStatementsUse ==
    ASSUME NEW i \in 0..(Slots - 1)
    PROVE  /\ TransactionOutput(i) \in Seq(OutputStatements(i)) /\ Len(TransactionOutput(i)) = 5
           /\ \A s \in OutputStatements(i) : Uses(s, 4 * Slots)
  <1>1. Slots \in Nat \ {0} /\ 3 * Slots + i + 1 \in 1..(4 * Slots)
    BY ProgramAssumption
  <1>2. TransactionOutput(i) \in Seq(OutputStatements(i)) /\ Len(TransactionOutput(i)) = 5
    BY DEF TransactionOutput, OutputStatements
  <1> QED BY <1>1, <1>2 DEF OutputStatements, Uses, SetInput, AssertEqual, AddTo

\* The numbers of the trees and of the transaction.
LEMMA TreeNumbers ==
    /\ Levels \in Nat \ {0} /\ Slots \in Nat \ {0} /\ InputCount \in Nat \ {0}
    /\ Size("MerkleProof") \in Nat \ {0} /\ Extent("MerkleProof") \in Nat
    /\ MerkleProof.components = Size("MerkleProof") /\ MerkleProof.signals = Extent("MerkleProof")
    /\ Size("Transaction") = 1 + Slots * (2 * 162 + 156 + Size("MerkleProof"))
    /\ Extent("Transaction") = InputCount + Slots * (2 * 934 + 767 + Extent("MerkleProof"))
    /\ Templates["Transaction"].own = InputCount /\ Templates["Transaction"].inputs = InputCount
  <1>1. Levels \in Nat \ {0} /\ Slots \in Nat \ {0} /\ InputCount \in Nat \ {0}
    BY ProgramAssumption, InputsFinite
  <1>2. Size("MerkleProof") \in Nat \ {0} /\ Extent("MerkleProof") \in Nat
    BY MerkleShape DEF Shape
  <1>3. MerkleProof.components = Size("MerkleProof") /\ MerkleProof.signals = Extent("MerkleProof")
    BY TemplateValues DEF Size, Extent
  <1>4. /\ Templates["Transaction"].own = InputCount /\ Templates["Transaction"].inputs = InputCount
        /\ Templates["Transaction"].components =
              1 + Slots * (2 * Poseidon(3).components + Poseidon(2).components + MerkleProof.components)
        /\ Templates["Transaction"].signals =
              InputCount + Slots * (2 * Poseidon(3).signals + Poseidon(2).signals + MerkleProof.signals)
    BY TemplateValues DEF Transaction
  <1> QED BY <1>1, <1>2, <1>3, <1>4, HasherNumbers DEF Size, Extent

\* TransactionShape: Transaction_run creates the hashers and the trees.
LEMMA TransactionShape == Shape("Transaction")
  <1> DEFINE run == Templates["Transaction"].run
             M == Size("MerkleProof")
             X == Extent("MerkleProof")
             c1 == Create(1, Slots, "Poseidon3", 1, InputCount)
             c2 == Create(Slots + 1, Slots, "Poseidon2", 1 + Slots * 162, InputCount + Slots * 934)
             c3 == Create(2 * Slots + 1, Slots, "MerkleProof",
                          1 + Slots * (162 + 156), InputCount + Slots * (934 + 767))
             c4 == Create(3 * Slots + 1, Slots, "Poseidon3",
                          1 + Slots * (162 + 156 + M), InputCount + Slots * (934 + 767 + X))
             creates == <<c1, c2, c3, c4>>
             P == (UNION {InputStatements(i) : i \in 0..(Slots - 1)})
                  \cup (UNION {OutputStatements(i) : i \in 0..(Slots - 1)}) \cup {AssertSums}
             V == P \cup {c1, c2, c3, c4}
             ins == [i \in 1..Slots |-> TransactionInput(i - 1)]
             outs == [i \in 1..Slots |-> TransactionOutput(i - 1)]
             end == <<AssertSums>>
  <1>0. /\ Slots \in Nat \ {0} /\ Levels \in Nat \ {0} /\ InputCount \in Nat
        /\ M \in Nat \ {0} /\ X \in Nat
    BY TreeNumbers
  <1>1. run = creates \o FlattenSeq(ins) \o FlattenSeq(outs) \o end
    <2>1. TransactionCreate = creates
      <3> HIDE DEF M, X
      <3>1. /\ Poseidon(3).components = 162 /\ Poseidon(3).signals = 934
            /\ Poseidon(2).components = 156 /\ Poseidon(2).signals = 767
            /\ MerkleProof.components = M /\ MerkleProof.signals = X
        BY HasherNumbers, TreeNumbers DEF M, X
      <3> QED BY <3>1 DEF TransactionCreate
    <2>2. run = TransactionCreate \o For(Slots, TransactionInput) \o For(Slots, TransactionOutput) \o <<AssertSums>>
      BY TemplateValues DEF Transaction
    <2>3. For(Slots, TransactionInput) = FlattenSeq(ins) /\ For(Slots, TransactionOutput) = FlattenSeq(outs)
      BY DEF For
    <2> HIDE DEF run, creates, ins, outs
    <2> QED BY <2>1, <2>2, <2>3
  <1>2. \A s \in P : Uses(s, 4 * Slots)
    <2>1. Uses(AssertSums, 4 * Slots)
      BY DEF Uses, AssertSums
    <2> QED BY <2>1, InputStatementsUse, OutputStatementsUse
  <1>3. /\ Creates(c1, 1, Slots) /\ Creates(c2, 2, Slots) /\ Creates(c3, 3, Slots) /\ Creates(c4, 4, Slots)
    <2> HIDE DEF M, X
    <2> QED BY <1>0 DEF Creates, Create, Names
  <1>4. /\ c1.component = 1 /\ c1.signal = InputCount
        /\ c1.template = "Poseidon3" /\ c2.template = "Poseidon2" /\ c3.template = "MerkleProof" /\ c4.template = "Poseidon3"
        /\ c2.component = 1 + Slots * 162 /\ c2.signal = InputCount + Slots * 934
        /\ c3.component = 1 + Slots * (162 + 156) /\ c3.signal = InputCount + Slots * (934 + 767)
        /\ c4.component = 1 + Slots * (162 + 156 + M) /\ c4.signal = InputCount + Slots * (934 + 767 + X)
    <2> HIDE DEF M, X
    <2> QED BY DEF Create
  <1> HIDE DEF c1, c2, c3, c4, run
  <1>5. /\ Follows(c2, c1, Slots) /\ Follows(c3, c2, Slots) /\ Follows(c4, c3, Slots)
        /\ c4.component + Slots * Size(c4.template) <= Size("Transaction")
        /\ c4.signal + Slots * Extent(c4.template) <= Extent("Transaction")
    <2>1. /\ Size("Transaction") = 1 + Slots * (2 * 162 + 156 + M)
          /\ Extent("Transaction") = InputCount + Slots * (2 * 934 + 767 + X)
          /\ Size("Poseidon3") = 162 /\ Extent("Poseidon3") = 934
          /\ Size("Poseidon2") = 156 /\ Extent("Poseidon2") = 767
      BY TreeNumbers, HasherNumbers
    <2>2. \A S, m \in Nat : /\ S * (162 + 156 + m) = S * (162 + 156) + S * m
                            /\ S * (162 + 156) = S * 162 + S * 156
                            /\ S * (2 * 162 + 156 + m) = S * (162 + 156 + m) + S * 162
                            /\ S * (934 + 767 + m) = S * (934 + 767) + S * m
                            /\ S * (934 + 767) = S * 934 + S * 767
                            /\ S * (2 * 934 + 767 + m) = S * (934 + 767 + m) + S * 934
      OBVIOUS
    <2>3. \A S, m \in Nat : S * m \in Nat
      OBVIOUS
    <2> HIDE DEF M, X, P, V, ins, outs
    <2>4. Follows(c2, c1, Slots)
      BY <1>0, <1>4, <2>1 DEF Follows
    <2>5. Follows(c3, c2, Slots)
      BY <1>0, <1>4, <2>1, <2>2 DEF Follows
    <2>6. Follows(c4, c3, Slots)
      <3>1. c4.component = c3.component + Slots * M /\ c4.signal = c3.signal + Slots * X
        BY <1>0, <1>4, <2>2, <2>3
      <3> QED BY <1>4, <3>1 DEF Follows, M, X
    <2>7. /\ c4.component + Slots * 162 = Size("Transaction")
          /\ c4.signal + Slots * 934 = Extent("Transaction")
          /\ Size("Transaction") \in Nat \ {0} /\ Extent("Transaction") \in Nat
      BY <1>0, <1>4, <2>1, <2>2, <2>3
    <2>8. /\ c4.component + Slots * Size(c4.template) = Size("Transaction")
          /\ c4.signal + Slots * Extent(c4.template) = Extent("Transaction")
      BY <1>4, <2>1, <2>7
    <2>9. Size("Transaction") <= Size("Transaction") /\ Extent("Transaction") <= Extent("Transaction")
      BY <2>7
    <2> QED BY <2>4, <2>5, <2>6, <2>8, <2>9
  <1>6. FlattenSeq(ins) \in Seq(P)
    <2> DEFINE m == 9 + 2 * Levels
    <2>1. ASSUME NEW i \in 1..Slots PROVE TransactionInput(i - 1) \in Seq(P) /\ Len(TransactionInput(i - 1)) = m
      <3>1. i - 1 \in 0..(Slots - 1)
        BY <1>0
      <3>2. InputStatements(i - 1) \subseteq P
        BY <3>1
      <3> HIDE DEF P
      <3> QED BY <3>1, <3>2, InputStatementsUse
    <2> HIDE DEF P
    <2>2. ins \in [1..Slots -> Seq(P)] /\ m \in Nat \ {0} /\ Slots \in Nat /\ \A i \in 1..Slots : Len(ins[i]) = m
      BY <1>0, <2>1
    <2> HIDE DEF ins, m
    <2> QED BY <2>2, FlattenUniform
  <1>7. FlattenSeq(outs) \in Seq(P)
    <2> DEFINE m == 5
    <2>1. ASSUME NEW i \in 1..Slots PROVE TransactionOutput(i - 1) \in Seq(P) /\ Len(TransactionOutput(i - 1)) = m
      <3>1. i - 1 \in 0..(Slots - 1)
        BY <1>0
      <3>2. OutputStatements(i - 1) \subseteq P
        BY <3>1
      <3> HIDE DEF P
      <3> QED BY <3>1, <3>2, OutputStatementsUse
    <2> HIDE DEF P
    <2>2. outs \in [1..Slots -> Seq(P)] /\ m \in Nat \ {0} /\ Slots \in Nat /\ \A i \in 1..Slots : Len(outs[i]) = m
      BY <1>0, <2>1
    <2> HIDE DEF outs, m
    <2> QED BY <2>2, FlattenUniform
  <1>8. Begins(run, creates, P, V) /\ Len(creates) = 4
    <2>1. end \in Seq(P) /\ P \subseteq V /\ Len(creates) = 4
      BY DEF AssertSums
    <2>2. Begins(creates, creates, P, V)
      <3> HIDE DEF P
      <3> QED BY DEF Begins
    <2> HIDE DEF P, V, creates, ins, outs, end
    <2> DEFINE r1 == creates \o FlattenSeq(ins)
               r2 == r1 \o FlattenSeq(outs)
    <2>3. Begins(r1, creates, P, V)
      BY <1>6, <2>1, <2>2, BeginsGoesOn
    <2> HIDE DEF r1
    <2>4. Begins(r2, creates, P, V)
      BY <1>7, <2>1, <2>3, BeginsGoesOn
    <2>5. run = r2 \o end
      BY <1>1 DEF r1
    <2> HIDE DEF r2
    <2> QED BY <2>1, <2>4, <2>5, BeginsGoesOn
  <1>9. /\ Len(run) \in Nat /\ 4 <= Len(run) /\ run[1] = c1 /\ run[2] = c2 /\ run[3] = c3 /\ run[4] = c4
        /\ \A i \in 5..Len(run) : run[i] \in P
    <2> HIDE DEF P, V
    <2>1. creates[1] = c1 /\ creates[2] = c2 /\ creates[3] = c3 /\ creates[4] = c4
      OBVIOUS
    <2> HIDE DEF creates
    <2> QED BY <1>8, <2>1 DEF Begins
  <1>10. Blocks("Transaction") = 4 /\ PerBlock("Transaction") = Slots
    BY DEF Blocks, PerBlock
  <1> HIDE DEF P, V, ins, outs, creates, M, X
  <1>20. \A b \in 1..Blocks("Transaction") : Creates(run[b], b, PerBlock("Transaction"))
    BY <1>3, <1>9, <1>10
  <1>21. \A b \in 1..(Blocks("Transaction") - 1) : Follows(run[b + 1], run[b], PerBlock("Transaction"))
    BY <1>5, <1>9, <1>10
  <1>22. \A i \in (Blocks("Transaction") + 1)..Len(run) : Uses(run[i], Blocks("Transaction") * PerBlock("Transaction"))
    BY <1>2, <1>9, <1>10
  <1>23. Size("Transaction") \in Nat \ {0} /\ Extent("Transaction") \in Nat
    BY TreeNumbers
  <1>24. run[1].component = 1 /\ run[1].signal = Templates["Transaction"].own
         /\ Templates["Transaction"].own \in Nat /\ Templates["Transaction"].inputs \in Nat \ {0}
    BY <1>4, <1>9, TreeNumbers
  <1> QED BY <1>0, <1>5, <1>9, <1>10, <1>20, <1>21, <1>22, <1>23, <1>24 DEF Shape, run

\* ProgramShape: so does every template.
LEMMA ProgramShape == \A t \in Names : Shape(t)
  BY LeafShape, PoseidonShape, MerkleShape, TransactionShape DEF Names

(***************************************************************************)
(* The sub-components of a template: their templates, and where they are   *)
(* from where it is.                                                       *)
(***************************************************************************)
KidBlock(t, k) == Templates[t].run[((k - 1) \div PerBlock(t)) + 1]
KidTemplate(t, k) == KidBlock(t, k).template
KidPlace(t, k) == KidBlock(t, k).component + ((k - 1) % PerBlock(t)) * Size(KidTemplate(t, k))
KidSignal(t, k) == KidBlock(t, k).signal + ((k - 1) % PerBlock(t)) * Extent(KidTemplate(t, k))

\* KidOfBlock: sub-component number i of block b.
LEMMA KidOfBlock ==
    ASSUME NEW t \in Names, NEW b \in 1..Blocks(t), NEW i \in 0..(PerBlock(t) - 1)
    PROVE  LET k == (b - 1) * PerBlock(t) + 1 + i
               s == Templates[t].run[b]
           IN  /\ KidBlock(t, k) = s /\ KidTemplate(t, k) = s.template
               /\ KidPlace(t, k) = s.component + i * Size(s.template)
               /\ KidSignal(t, k) = s.signal + i * Extent(s.template)
  <1> DEFINE n == PerBlock(t)
             a == b - 1
             k == a * n + 1 + i
  <1>1. n \in Nat \ {0} /\ a \in Nat /\ a + 1 = b
    BY ProgramShape DEF Shape, Blocks
  <1> HIDE DEF n, a
  <1>2. a * n \in Nat /\ i \in 0..(n - 1)
    BY <1>1, Multiples DEF n
  <1>3. k - 1 = a * n + i
    BY <1>1, <1>2
  <1>4. (k - 1) \div n = a /\ (k - 1) % n = i
    BY <1>1, <1>2, <1>3, DivisionParts
  <1>5. k = (b - 1) * PerBlock(t) + 1 + i
    BY DEF a, n
  <1> HIDE DEF k
  <1>6. KidBlock(t, k) = Templates[t].run[b]
    BY <1>1, <1>4 DEF KidBlock, n
  <1>7. (k - 1) % PerBlock(t) = i
    BY <1>4 DEF n
  <1>8. KidTemplate(t, k) = Templates[t].run[b].template
    BY <1>6 DEF KidTemplate
  <1>9. /\ KidPlace(t, k) = Templates[t].run[b].component + i * Size(Templates[t].run[b].template)
        /\ KidSignal(t, k) = Templates[t].run[b].signal + i * Extent(Templates[t].run[b].template)
    BY <1>6, <1>7, <1>8 DEF KidPlace, KidSignal
  <1> QED BY <1>5, <1>6, <1>8, <1>9

\* KidInBlock: every sub-component is one of a block.
LEMMA KidInBlock ==
    ASSUME NEW t \in Names, NEW k \in 1..Kids(t)
    PROVE  \E b \in 1..Blocks(t) : \E i \in 0..(PerBlock(t) - 1) : k = (b - 1) * PerBlock(t) + 1 + i
  <1> DEFINE n == PerBlock(t)
             C == Blocks(t)
             a == (k - 1) \div n
             i == (k - 1) % n
  <1>1. n \in Nat \ {0} /\ C \in Nat
    BY ProgramShape DEF Shape, Blocks
  <1>2. C * n \in Nat /\ k \in 1..(C * n) /\ k \in Nat
    BY <1>1, Multiples DEF Kids
  <1> HIDE DEF n, C
  <1>3. a \in Nat /\ i \in 0..(n - 1) /\ k - 1 = a * n + i
    BY <1>1, <1>2
  <1> HIDE DEF a, i
  <1>4. a < C
    <2>1. SUFFICES ASSUME ~ (a < C) PROVE FALSE
      OBVIOUS
    <2> DEFINE an == a * n
               cn == C * n
    <2>2. an >= cn /\ an \in Nat /\ cn \in Nat
      BY <1>1, <1>3, <2>1, Multiples
    <2>3. k - 1 = an + i /\ k \in 1..cn /\ i \in Nat
      BY <1>1, <1>2, <1>3
    <2> HIDE DEF an, cn
    <2> QED BY <2>2, <2>3
  <1>5. a + 1 \in 1..C /\ (a + 1) - 1 = a
    BY <1>1, <1>3, <1>4
  <1>6. a * n \in Nat /\ k = a * n + 1 + i
    BY <1>1, <1>2, <1>3, Multiples
  <1>7. k = ((a + 1) - 1) * n + 1 + i
    BY <1>5, <1>6
  <1> QED BY <1>3, <1>5, <1>7 DEF n, C

\* KidTypes: the types of the layout.
LEMMA KidTypes ==
    ASSUME NEW t \in Names, NEW k \in 1..Kids(t)
    PROVE  /\ KidTemplate(t, k) \in Names
           /\ Size(KidTemplate(t, k)) \in Nat \ {0} /\ Extent(KidTemplate(t, k)) \in Nat
           /\ KidPlace(t, k) \in Nat \ {0} /\ KidSignal(t, k) \in Nat
  <1>1. PICK b \in 1..Blocks(t), i \in 0..(PerBlock(t) - 1) : k = (b - 1) * PerBlock(t) + 1 + i
    BY KidInBlock
  <1> DEFINE s == Templates[t].run[b]
             z == Size(s.template)
             x == Extent(s.template)
  <1>2. Creates(s, b, PerBlock(t)) /\ PerBlock(t) \in Nat \ {0}
    BY ProgramShape DEF Shape
  <1>3. s.template \in Names /\ s.component \in Nat \ {0} /\ s.signal \in Nat /\ i \in Nat
    BY <1>2 DEF Creates
  <1>4. z \in Nat \ {0} /\ x \in Nat
    BY <1>3, ProgramShape DEF Shape
  <1>5. KidTemplate(t, k) = s.template /\ KidPlace(t, k) = s.component + i * z /\ KidSignal(t, k) = s.signal + i * x
    BY <1>1, KidOfBlock
  <1> HIDE DEF z, x
  <1>6. i * z \in Nat /\ i * x \in Nat
    BY <1>3, <1>4, Multiples
  <1>7. s.component + i * z \in Nat \ {0} /\ s.signal + i * x \in Nat
    BY <1>3, <1>6
  <1> QED BY <1>3, <1>4, <1>5, <1>7 DEF z, x

\* KidsFollow: the sub-components are directly behind one another, the first behind
\* the component's own signals and place, the last within its region.
LEMMA KidsFollow ==
    ASSUME NEW t \in Names
    PROVE  /\ Kids(t) \in Nat
           /\ \A k \in 1..(Kids(t) - 1) :
                 /\ KidPlace(t, k + 1) = KidPlace(t, k) + Size(KidTemplate(t, k))
                 /\ KidSignal(t, k + 1) = KidSignal(t, k) + Extent(KidTemplate(t, k))
           /\ Kids(t) # 0 =>
                 /\ KidPlace(t, 1) = 1 /\ KidSignal(t, 1) = Templates[t].own
                 /\ KidPlace(t, Kids(t)) + Size(KidTemplate(t, Kids(t))) <= Size(t)
                 /\ KidSignal(t, Kids(t)) + Extent(KidTemplate(t, Kids(t))) <= Extent(t)
  <1> DEFINE n == PerBlock(t)
             C == Blocks(t)
             run == Templates[t].run
             Z(b) == Size(run[b].template)
             X(b) == Extent(run[b].template)
  <1>1. n \in Nat \ {0} /\ C \in Nat /\ Kids(t) = C * n /\ C * n \in Nat
    <2>1. n \in Nat \ {0} /\ C \in Nat
      BY ProgramShape DEF Shape, Blocks
    <2> HIDE DEF n, C
    <2> QED BY <2>1, Multiples DEF Kids, n, C
  <1>2. \A b \in 1..C : /\ Z(b) \in Nat /\ X(b) \in Nat /\ run[b].component \in Nat /\ run[b].signal \in Nat
    <2> SUFFICES ASSUME NEW b \in 1..C
                 PROVE  Z(b) \in Nat /\ X(b) \in Nat /\ run[b].component \in Nat /\ run[b].signal \in Nat
      OBVIOUS
    <2>1. Creates(run[b], b, n)
      BY ProgramShape DEF Shape
    <2>2. run[b].template \in Names /\ run[b].component \in Nat /\ run[b].signal \in Nat
      BY <2>1 DEF Creates
    <2> QED BY <2>2, ProgramShape DEF Shape
  <1>3. ASSUME NEW k \in 1..(Kids(t) - 1)
        PROVE  /\ KidPlace(t, k + 1) = KidPlace(t, k) + Size(KidTemplate(t, k))
               /\ KidSignal(t, k + 1) = KidSignal(t, k) + Extent(KidTemplate(t, k))
    <2>1. k \in 1..Kids(t) /\ k + 1 \in 1..Kids(t)
      BY <1>1
    <2>2. PICK b \in 1..C, i \in 0..(n - 1) : k = (b - 1) * n + 1 + i
      BY <2>1, KidInBlock
    <2>3. /\ KidTemplate(t, k) = run[b].template
          /\ KidPlace(t, k) = run[b].component + i * Z(b) /\ KidSignal(t, k) = run[b].signal + i * X(b)
      BY <2>2, KidOfBlock
    <2> DEFINE a == b - 1
               c == run[b].component
               s == run[b].signal
               z == Z(b)
               x == X(b)
    <2>4. /\ i \in Nat /\ c \in Nat /\ s \in Nat /\ z \in Nat /\ x \in Nat /\ i * z \in Nat /\ i * x \in Nat
          /\ (i + 1) * z = i * z + z /\ (i + 1) * x = i * x + x
      BY <1>1, <1>2, Multiples
    <2>5. a \in Nat /\ a * n \in Nat /\ b = a + 1 /\ b * n = a * n + n
      <3>1. a \in Nat /\ b = a + 1
        BY <1>1
      <3> HIDE DEF a, n
      <3> QED BY <1>1, <3>1, Multiples
    <2>6. CASE i + 1 <= n - 1
      <3>1. i + 1 \in 0..(n - 1) /\ k + 1 = (b - 1) * n + 1 + (i + 1)
        <4> DEFINE an == (b - 1) * n
        <4>1. an \in Nat /\ k = an + 1 + i BY <2>2, <2>5
        <4> HIDE DEF an
        <4>2. k + 1 = an + 1 + (i + 1) BY <2>4, <4>1
        <4> QED BY <1>1, <2>4, <2>6, <4>2 DEF an
      <3>2. KidPlace(t, k + 1) = c + (i + 1) * z /\ KidSignal(t, k + 1) = s + (i + 1) * x
        BY <3>1, KidOfBlock
      <3>3. c + (i * z + z) = (c + i * z) + z /\ s + (i * x + x) = (s + i * x) + x
        <4> HIDE DEF c, s, z, x
        <4> QED BY <2>4
      <3> QED BY <2>3, <2>4, <3>2, <3>3
    <2>7. CASE i = n - 1
      <3>1. b < C
        <4> DEFINE cn == C * n
                   bn == b * n
        <4>1. k = bn /\ cn \in Nat /\ bn \in Nat
          <5> DEFINE an == (b - 1) * n
          <5>1. an \in Nat /\ k = an + 1 + i /\ bn = an + n
            BY <2>2, <2>5
          <5> HIDE DEF an, bn
          <5> QED BY <1>1, <2>7, <5>1
        <4>2. k <= cn - 1
          BY <1>1
        <4>3. b # C
          BY <4>1, <4>2
        <4> QED BY <1>1, <4>3
      <3>2. b \in 1..(C - 1) /\ b + 1 \in 1..C
        BY <1>1, <3>1
      <3>3. Follows(run[b + 1], run[b], n)
        BY <3>2, ProgramShape DEF Shape
      <3>4. run[b + 1].component = c + n * z /\ run[b + 1].signal = s + n * x
        BY <3>3 DEF Follows
      <3>5. 0 \in 0..(n - 1) /\ k + 1 = ((b + 1) - 1) * n + 1 + 0
        <4> DEFINE an == (b - 1) * n
                   bn == b * n
        <4>1. an \in Nat /\ k = an + 1 + i /\ bn = an + n /\ (b + 1) - 1 = b
          BY <2>2, <2>5
        <4> HIDE DEF an, bn
        <4>2. k + 1 = bn + 1 + 0
          BY <1>1, <2>7, <4>1
        <4> QED BY <1>1, <4>1, <4>2 DEF bn
      <3>6. /\ KidPlace(t, k + 1) = run[b + 1].component + 0 * Z(b + 1)
            /\ KidSignal(t, k + 1) = run[b + 1].signal + 0 * X(b + 1)
        BY <3>2, <3>5, KidOfBlock
      <3>7. Z(b + 1) \in Nat /\ X(b + 1) \in Nat /\ run[b + 1].component \in Nat /\ run[b + 1].signal \in Nat
        BY <1>2, <3>2
      <3>8. KidPlace(t, k + 1) = c + n * z /\ KidSignal(t, k + 1) = s + n * x
        BY <3>4, <3>6, <3>7
      <3>9. n = i + 1
        BY <1>1, <2>7
      <3>10. c + (i + 1) * z = (c + i * z) + z /\ s + (i + 1) * x = (s + i * x) + x
        <4> HIDE DEF c, s, z, x
        <4> QED BY <2>4
      <3>11. KidPlace(t, k + 1) = (c + i * z) + z /\ KidSignal(t, k + 1) = (s + i * x) + x
        <4> HIDE DEF c, s, z, x, n
        <4> QED BY <3>8, <3>9, <3>10
      <3> QED BY <2>3, <3>11
    <2>8. i + 1 <= n - 1 \/ i = n - 1
      BY <1>1
    <2> QED BY <2>6, <2>7, <2>8
  <1>4. ASSUME Kids(t) # 0
        PROVE  KidPlace(t, 1) = 1 /\ KidSignal(t, 1) = Templates[t].own
    <2>1. C # 0
      BY <1>1, <1>4
    <2>2. 1 \in 1..C /\ 0 \in 0..(n - 1) /\ 1 = (1 - 1) * n + 1 + 0
      BY <1>1, <2>1
    <2>3. KidPlace(t, 1) = run[1].component + 0 * Z(1) /\ KidSignal(t, 1) = run[1].signal + 0 * X(1)
      BY <2>2, KidOfBlock
    <2>4. run[1].component = 1 /\ run[1].signal = Templates[t].own
      BY <2>1, ProgramShape DEF Shape
    <2>5. Z(1) \in Nat /\ X(1) \in Nat /\ run[1].component \in Nat /\ run[1].signal \in Nat
      BY <1>2, <2>2
    <2> QED BY <2>3, <2>4, <2>5
  <1>5. ASSUME Kids(t) # 0
        PROVE  /\ KidPlace(t, Kids(t)) + Size(KidTemplate(t, Kids(t))) <= Size(t)
               /\ KidSignal(t, Kids(t)) + Extent(KidTemplate(t, Kids(t))) <= Extent(t)
    <2>1. C # 0
      BY <1>1, <1>5
    <2> DEFINE a == C - 1
               i == n - 1
               c == run[C].component
               s == run[C].signal
               z == Z(C)
               x == X(C)
    <2>2. C \in 1..C /\ i \in 0..(n - 1) /\ a \in Nat /\ C = a + 1 /\ i \in Nat /\ n = i + 1
      BY <1>1, <2>1
    <2>3. Kids(t) = (C - 1) * n + 1 + i
      <3> DEFINE an == a * n
      <3>1. an \in Nat /\ (a + 1) * n = an + n
        <4> HIDE DEF a, n
        <4> QED BY <1>1, <2>2, Multiples
      <3>2. Kids(t) = an + n
        BY <1>1, <2>2, <3>1
      <3> HIDE DEF an
      <3>3. Kids(t) = an + 1 + i
        BY <1>1, <3>1, <3>2
      <3> QED BY <3>3 DEF an
    <2>4. /\ KidTemplate(t, Kids(t)) = run[C].template
          /\ KidPlace(t, Kids(t)) = c + i * z /\ KidSignal(t, Kids(t)) = s + i * x
      BY <2>2, <2>3, KidOfBlock
    <2>5. /\ c + n * z <= Size(t) /\ s + n * x <= Extent(t)
      BY <2>1, ProgramShape DEF Shape
    <2>6. /\ c \in Nat /\ s \in Nat /\ z \in Nat /\ x \in Nat
      BY <1>2, <2>2
    <2> HIDE DEF c, s, z, x, i, n
    <2>7. n * z = i * z + z /\ n * x = i * x + x /\ i * z \in Nat /\ i * x \in Nat
      BY <2>2, <2>6, Multiples
    <2>8. c + n * z = (c + i * z) + z /\ s + n * x = (s + i * x) + x
      BY <2>6, <2>7
    <2>9. KidPlace(t, Kids(t)) + z <= Size(t) /\ KidSignal(t, Kids(t)) + x <= Extent(t)
      BY <2>4, <2>5, <2>8
    <2> QED BY <2>4, <2>9 DEF z, x
  <1> QED BY <1>1, <1>3, <1>4, <1>5

\* KidsApart: no two sub-components share a place or a signal.
LEMMA KidsApart ==
    ASSUME NEW t \in Names, NEW j \in 1..Kids(t), NEW k \in 1..Kids(t), j < k
    PROVE  /\ KidPlace(t, j) + Size(KidTemplate(t, j)) <= KidPlace(t, k)
           /\ KidSignal(t, j) + Extent(KidTemplate(t, j)) <= KidSignal(t, k)
  <1> DEFINE N == Kids(t)
             P(i) == KidPlace(t, i)
             S(i) == KidSignal(t, i)
             z(i) == Size(KidTemplate(t, i))
             x(i) == Extent(KidTemplate(t, i))
             Good(i) == P(j) + z(j) <= P(i) /\ S(j) + x(j) <= S(i)
             Bad == {i \in (j + 1)..N : ~Good(i)}
  <1>1. \A i \in 1..N : P(i) \in Nat /\ S(i) \in Nat /\ z(i) \in Nat /\ x(i) \in Nat
    BY KidTypes
  <1>2. N \in Nat /\ \A i \in 1..(N - 1) : P(i + 1) = P(i) + z(i) /\ S(i + 1) = S(i) + x(i)
    BY KidsFollow
  <1> HIDE DEF P, S, z, x, N
  <1>3. j \in 1..N /\ k \in 1..N /\ k \in (j + 1)..N
    BY <1>2 DEF N
  <1>4. Bad = {}
    <2>1. SUFFICES ASSUME Bad # {} PROVE FALSE
      OBVIOUS
    <2>2. Bad \in SUBSET Nat
      BY <1>2, <1>3
    <2>3. PICK i \in Bad : \A y \in Bad : i <= y
      BY <2>1, <2>2, MinIsMember
    <2>4. i \in (j + 1)..N /\ ~Good(i)
      BY <2>3
    <2>5. i - 1 \in 1..(N - 1) /\ (i - 1) + 1 = i /\ i - 1 \in 1..N
      BY <1>2, <1>3, <2>4
    <2>6. P(i) = P(i - 1) + z(i - 1) /\ S(i) = S(i - 1) + x(i - 1)
      BY <1>2, <2>5
    <2>7. CASE i - 1 = j
      <3>1. P(j) + z(j) \in Nat /\ S(j) + x(j) \in Nat
        BY <1>1, <1>3
      <3> QED BY <2>4, <2>6, <2>7, <3>1
    <2>8. CASE i - 1 # j
      <3>1. i - 1 \in (j + 1)..N /\ ~ (i <= i - 1)
        BY <1>2, <1>3, <2>4, <2>8
      <3>2. Good(i - 1)
        BY <2>3, <3>1
      <3> QED BY <1>1, <1>3, <2>4, <2>5, <2>6, <3>2
    <2> QED BY <2>7, <2>8
  <1>5. Good(k)
    BY <1>3, <1>4
  <1> QED BY <1>5 DEF P, S, z, x

\* KidWithin: every sub-component is within the region of its component.
LEMMA KidWithin ==
    ASSUME NEW t \in Names, NEW k \in 1..Kids(t)
    PROVE  /\ KidPlace(t, k) + Size(KidTemplate(t, k)) <= Size(t)
           /\ KidSignal(t, k) + Extent(KidTemplate(t, k)) <= Extent(t)
  <1> DEFINE N == Kids(t)
             P(i) == KidPlace(t, i)
             S(i) == KidSignal(t, i)
             z(i) == Size(KidTemplate(t, i))
             x(i) == Extent(KidTemplate(t, i))
  <1>1. N \in Nat /\ N # 0 /\ N \in 1..N /\ k \in 1..N
    BY KidsFollow
  <1>2. \A i \in 1..N : P(i) \in Nat /\ S(i) \in Nat /\ z(i) \in Nat /\ x(i) \in Nat
    BY KidTypes
  <1>3. P(N) + z(N) <= Size(t) /\ S(N) + x(N) <= Extent(t) /\ Size(t) \in Nat /\ Extent(t) \in Nat
    BY <1>1, KidsFollow, ProgramShape DEF Shape
  <1>4. k # N => P(k) + z(k) <= P(N) /\ S(k) + x(k) <= S(N)
    <2>1. k # N => k < N BY <1>1
    <2> QED BY <1>1, <2>1, KidsApart
  <1> HIDE DEF P, S, z, x, N
  <1>5. P(k) + z(k) <= Size(t) /\ S(k) + x(k) <= Extent(t)
    BY <1>1, <1>2, <1>3, <1>4
  <1> QED BY <1>5 DEF P, S, z, x

(***************************************************************************)
(* componentMemory, and the calls under way.                               *)
(***************************************************************************)
\* How many sub-components have been created before a statement.
Made(t, at) == (IF at <= Blocks(t) THEN at - 1 ELSE Blocks(t)) * PerBlock(t)

Cell == [template : Names, signalStart : Nat, inputCounter : Int, subcomponents : Seq(Nat)]

\* A place within the region of a component.
Inside(cs, id, x) == id < x /\ x < id + Size(cs[id].template)

\* The sub-components of a component are where its template puts them.
Laid(cs, id) ==
    LET subs == cs[id].subcomponents
        t == cs[id].template
    IN  /\ Len(subs) <= Kids(t)
        /\ \A k \in 1..Len(subs) :
              /\ subs[k] = id + KidPlace(t, k) /\ subs[k] \in DOMAIN cs
              /\ cs[subs[k]].template = KidTemplate(t, k)
              /\ cs[subs[k]].signalStart = cs[id].signalStart + KidSignal(t, k)

\* All that is in the region of a component is in that of one of its sub-components.
Tidy(cs, id) ==
    \A x \in DOMAIN cs : Inside(cs, id, x) =>
        \E k \in 1..Len(cs[id].subcomponents) :
            /\ id + KidPlace(cs[id].template, k) <= x
            /\ x + Size(cs[x].template) <=
                  id + KidPlace(cs[id].template, k) + Size(KidTemplate(cs[id].template, k))

\* A component that waits for inputs has nothing in its region yet.
Untouched(cs, id) == cs[id].subcomponents = << >> /\ \A x \in DOMAIN cs : ~Inside(cs, id, x)

Memory(cs) ==
    /\ DOMAIN cs \subseteq Nat /\ cs \in [DOMAIN cs -> Cell]
    /\ \A id \in DOMAIN cs : Laid(cs, id)
    /\ \A id \in DOMAIN cs : id # 0 /\ cs[id].inputCounter > 0 => Untouched(cs, id)

\* A call under way has all its inputs, and what its statements so far created.
Frame(cs, f) ==
    LET c == cs[f.component] IN
    /\ f.component \in DOMAIN cs /\ f.at \in 1..(Len(Templates[c.template].run) + 1)
    /\ f.component = 0 \/ c.inputCounter <= 0
    /\ Len(c.subcomponents) = Made(c.template, f.at)
    /\ Tidy(cs, f.component)

Calls(cs, st) ==
    /\ st \in Seq([component : Nat, at : Nat])
    /\ \A i \in 1..Len(st) : Frame(cs, st[i])
    /\ \A i, j \in 1..Len(st) : i < j => Inside(cs, st[j].component, st[i].component)

\* MemoryInv: the memory is laid out as the templates say, and each call under way is
\* of a component in the region of the one that called it.
MemoryInv == Memory(components) /\ Calls(components, stack)

\* MadeBy: what a statement adds to the sub-components.
LEMMA MadeBy ==
    ASSUME NEW t \in Names, NEW at \in 1..Len(Templates[t].run)
    PROVE  LET s == Templates[t].run[at] IN
           /\ Made(t, 1) = 0 /\ Made(t, at) \in Nat /\ Made(t, at + 1) \in Nat /\ Made(t, at + 1) <= Kids(t)
           /\ s.op # "create" => Made(t, at + 1) = Made(t, at)
           /\ s.op = "set" => s.sub \in 1..Made(t, at)
           /\ s.op = "create" =>
                 /\ s.count \in Nat \ {0} /\ s.first - 1 = Made(t, at) /\ Made(t, at + 1) = Made(t, at) + s.count
                 /\ s.template \in Names /\ s.component \in Nat /\ s.signal \in Nat
                 /\ \A i \in 0..(s.count - 1) :
                       /\ KidTemplate(t, Made(t, at) + 1 + i) = s.template
                       /\ KidPlace(t, Made(t, at) + 1 + i) = s.component + i * Size(s.template)
                       /\ KidSignal(t, Made(t, at) + 1 + i) = s.signal + i * Extent(s.template)
  <1> DEFINE n == PerBlock(t)
             C == Blocks(t)
             run == Templates[t].run
             s == run[at]
  <1>1. n \in Nat \ {0} /\ C \in Nat /\ C <= Len(run) /\ Len(run) \in Nat /\ at \in Nat \ {0}
    BY ProgramShape DEF Shape, Blocks
  <1>2. (\A b \in 1..C : Creates(run[b], b, n)) /\ (\A i \in (C + 1)..Len(run) : Uses(run[i], C * n))
    BY ProgramShape DEF Shape
  <1>3. Made(t, 1) = 0
    BY <1>1 DEF Made
  <1>4. CASE at <= C
    <2> DEFINE a == at - 1
    <2>1. at \in 1..C /\ a \in Nat /\ a + 1 = at /\ (at + 1) - 1 = at
      BY <1>1, <1>4
    <2>2. Creates(s, at, n)
      BY <1>2, <2>1
    <2>3. Made(t, at) = a * n
      BY <1>4 DEF Made
    <2>4. Made(t, at + 1) = at * n
      <3>1. CASE at + 1 <= C
        BY <2>1, <3>1 DEF Made
      <3>2. CASE ~ (at + 1 <= C)
        <4>1. at = C BY <1>1, <2>1, <3>2
        <4> QED BY <3>2, <4>1 DEF Made
      <3> QED BY <3>1, <3>2
    <2> HIDE DEF n, C
    <2>5. a * n \in Nat /\ at * n = a * n + n /\ at * n \in Nat /\ at * n <= C * n
      <3> HIDE DEF a
      <3> QED BY <1>1, <1>4, <2>1, Multiples
    <2>6. Kids(t) = C * n
      BY DEF Kids, C, n
    <2>7. /\ s.op = "create" /\ s.first = a * n + 1 /\ s.count = n
          /\ s.template \in Names /\ s.component \in Nat /\ s.signal \in Nat
      BY <2>2 DEF Creates
    <2>8. ASSUME NEW i \in 0..(n - 1)
          PROVE  /\ KidTemplate(t, a * n + 1 + i) = s.template
                 /\ KidPlace(t, a * n + 1 + i) = s.component + i * Size(s.template)
                 /\ KidSignal(t, a * n + 1 + i) = s.signal + i * Extent(s.template)
      BY <2>1, KidOfBlock DEF n, C
    <2>9. s.first - 1 = a * n
      BY <2>5, <2>7
    <2> HIDE DEF a, s
    <2> QED BY <1>1, <1>3, <2>3, <2>4, <2>5, <2>6, <2>7, <2>8, <2>9 DEF s
  <1>5. CASE ~ (at <= C)
    <2>1. at \in (C + 1)..Len(run)
      BY <1>1, <1>5
    <2>2. Uses(s, C * n)
      BY <1>2, <2>1
    <2>3. Made(t, at) = C * n /\ Made(t, at + 1) = C * n /\ Kids(t) = C * n
      BY <1>1, <1>5 DEF Made, Kids
    <2> HIDE DEF n, C
    <2>4. C * n \in Nat /\ C * n <= C * n
      BY <1>1, Multiples
    <2>5. s.op # "create" /\ (s.op = "set" => s.sub \in 1..(C * n))
      BY <2>2 DEF Uses
    <2> HIDE DEF s
    <2> QED BY <1>3, <2>3, <2>4, <2>5 DEF s
  <1> QED BY <1>4, <1>5

\* CellTypes: what is in the memory.
LEMMA CellTypes ==
    ASSUME NEW cs, Memory(cs), NEW x \in DOMAIN cs
    PROVE  /\ x \in Nat /\ cs[x] \in Cell
           /\ cs[x].template \in Names /\ cs[x].signalStart \in Nat /\ cs[x].inputCounter \in Int
           /\ cs[x].subcomponents \in Seq(Nat) /\ Len(cs[x].subcomponents) \in Nat
           /\ Size(cs[x].template) \in Nat \ {0} /\ Len(Templates[cs[x].template].run) \in Nat
  <1>1. x \in Nat /\ cs[x] \in Cell
    BY DEF Memory
  <1>2. /\ cs[x].template \in Names /\ cs[x].signalStart \in Nat /\ cs[x].inputCounter \in Int
        /\ cs[x].subcomponents \in Seq(Nat)
    BY <1>1 DEF Cell
  <1> QED BY <1>1, <1>2, ProgramShape DEF Shape

\* InsideInside: what is in the region of a sub-component of a call under way, or of
\* one that is in its region, is in the region of the call.
LEMMA InsideInside ==
    ASSUME NEW cs, Memory(cs), NEW a \in DOMAIN cs, Laid(cs, a), Tidy(cs, a), NEW p \in DOMAIN cs, Inside(cs, a, p)
    PROVE  /\ a < p /\ p + Size(cs[p].template) <= a + Size(cs[a].template)
           /\ \E k \in 1..Len(cs[a].subcomponents) :
                 /\ k \in 1..Kids(cs[a].template)
                 /\ a + KidPlace(cs[a].template, k) <= p
                 /\ p + Size(cs[p].template) <= a + KidPlace(cs[a].template, k) + Size(KidTemplate(cs[a].template, k))
  <1>1. PICK k \in 1..Len(cs[a].subcomponents) :
           /\ a + KidPlace(cs[a].template, k) <= p
           /\ p + Size(cs[p].template) <= a + KidPlace(cs[a].template, k) + Size(KidTemplate(cs[a].template, k))
    BY DEF Tidy
  <1>2. cs[a].template \in Names /\ a \in Nat /\ p \in Nat /\ Size(cs[p].template) \in Nat /\ Size(cs[a].template) \in Nat
        /\ Len(cs[a].subcomponents) \in Nat
    BY CellTypes
  <1>3. Kids(cs[a].template) \in Nat /\ k \in 1..Kids(cs[a].template)
    BY <1>2, KidsFollow DEF Laid
  <1>4. /\ KidPlace(cs[a].template, k) \in Nat /\ Size(KidTemplate(cs[a].template, k)) \in Nat
        /\ KidPlace(cs[a].template, k) + Size(KidTemplate(cs[a].template, k)) <= Size(cs[a].template)
    BY <1>2, <1>3, KidTypes, KidWithin
  <1>5. p + Size(cs[p].template) <= a + Size(cs[a].template)
    BY <1>1, <1>2, <1>4
  <1> QED BY <1>1, <1>3, <1>5 DEF Inside

(***************************************************************************)
(* What a statement does to the memory cs and the calls st under way, as   *)
(* predicates of the values before and after.                              *)
(***************************************************************************)
\* The memory cs with the sub-components lo + 1 to hi of p, which has the template t, is ds.
Grown(cs, ds, p, t, lo, hi) ==
    LET New == {p + KidPlace(t, k) : k \in (lo + 1)..hi} IN
    /\ DOMAIN ds = DOMAIN cs \cup New /\ ds = [x \in DOMAIN ds |-> ds[x]]
    /\ \A x \in DOMAIN cs : x # p /\ x \notin New => ds[x] = cs[x]
    /\ \A k \in (lo + 1)..hi : p + KidPlace(t, k) # p =>
          ds[p + KidPlace(t, k)] = Component(KidTemplate(t, k), cs[p].signalStart + KidSignal(t, k))
    /\ ds[p].template = cs[p].template /\ ds[p].signalStart = cs[p].signalStart
    /\ ds[p].inputCounter = cs[p].inputCounter /\ ds[p] \in Cell
    /\ ds[p].subcomponents \in Seq(Nat) /\ Len(ds[p].subcomponents) = hi
    /\ \A k \in 1..lo : ds[p].subcomponents[k] = cs[p].subcomponents[k]
    /\ \A k \in (lo + 1)..hi : ds[p].subcomponents[k] = p + KidPlace(t, k)

\* The innermost call goes on to its next statement.
Moved(st, ut) ==
    /\ ut \in Seq([component : Nat, at : Nat]) /\ Len(ut) = Len(st)
    /\ ut[1].component = st[1].component /\ ut[1].at = st[1].at + 1
    /\ \A i \in 2..Len(st) : ut[i] = st[i]

\* The call under way is at a statement that creates the sub-components lo + 1 to hi.
Creating(cs, st, p, t, lo, hi) ==
    /\ st # << >> /\ p = st[1].component /\ t = cs[p].template /\ st[1].at <= Len(Templates[t].run)
    /\ lo = Made(t, st[1].at) /\ hi = Made(t, st[1].at + 1) /\ lo <= hi /\ hi <= Kids(t)

\* EndsBefore: what ends before the end of a part ends before the part after it.
LEMMA EndsBefore ==
    \A p, x, z, a, b, c \in Nat : a + b <= c /\ x + z <= (p + a) + b => x + z <= p + c
  OBVIOUS

\* StaysWithin: what is within a part is within what that part is within.
LEMMA StaysWithin ==
    \A p, z, x, y, a, w \in Nat : a <= p /\ p + z <= a + w /\ p < x /\ x + y <= p + z => a <= x /\ x + y <= a + w
  OBVIOUS

\* CreateKeeps: a component under way gets its next sub-components, which are new.
LEMMA CreateKeeps ==
    ASSUME NEW cs, NEW st, Memory(cs), Calls(cs, st), NEW p, NEW t, NEW lo \in Nat, NEW hi \in Nat,
           Creating(cs, st, p, t, lo, hi),
           NEW ds, Grown(cs, ds, p, t, lo, hi), NEW ut, Moved(st, ut)
    PROVE  Memory(ds) /\ Calls(ds, ut)
  <1> DEFINE K == (lo + 1)..hi
             Id(k) == p + KidPlace(t, k)
             z(x) == Size(cs[x].template)
             y(k) == Size(KidTemplate(t, k))
             New == {Id(k) : k \in K}
  <1>0. /\ p = st[1].component /\ t = cs[p].template /\ st[1].at <= Len(Templates[t].run)
        /\ lo = Made(t, st[1].at) /\ hi = Made(t, st[1].at + 1) /\ lo <= hi /\ hi <= Kids(t)
    BY DEF Creating
  <1>1. /\ st \in Seq([component : Nat, at : Nat]) /\ Len(st) \in Nat \ {0} /\ 1 \in 1..Len(st)
        /\ Frame(cs, st[1])
    BY DEF Calls, Creating
  <1>2. /\ p \in DOMAIN cs /\ (p = 0 \/ cs[p].inputCounter <= 0)
        /\ Len(cs[p].subcomponents) = lo /\ Tidy(cs, p) /\ Laid(cs, p)
    BY <1>1 DEF Frame, Memory, Creating
  <1>3. t \in Names /\ p \in Nat /\ Kids(t) \in Nat /\ Size(t) \in Nat /\ z(p) = Size(t)
    BY <1>2, CellTypes, KidsFollow DEF Creating
  <1>4. \A x \in DOMAIN cs : x \in Nat /\ z(x) \in Nat \ {0} /\ cs[x].template \in Names
    BY CellTypes
  <1>5. \A k \in 1..hi : /\ k \in 1..Kids(t) /\ KidPlace(t, k) \in Nat \ {0} /\ y(k) \in Nat \ {0}
                         /\ KidTemplate(t, k) \in Names /\ KidSignal(t, k) \in Nat /\ KidPlace(t, k) + y(k) <= Size(t)
    <2>1. \A k \in 1..hi : k \in 1..Kids(t)
      BY <1>3 DEF Creating
    <2> QED BY <1>3, <2>1, KidTypes, KidWithin
  <1>6. \A j, k \in 1..hi : j < k => KidPlace(t, j) + y(j) <= KidPlace(t, k)
    BY <1>3, <1>5, KidsApart
  <1>7. (\A k \in K : k \in 1..hi) /\ (\A j \in 1..lo : j \in 1..hi) /\ \A k \in K, j \in 1..lo : j < k
    <2>1. lo <= hi
      BY DEF Creating
    <2> QED BY <2>1
  \* What is in the region of p lies before what is created.
  <1>8. ASSUME NEW x \in DOMAIN cs, p < x, x < p + Size(t)
        PROVE  /\ \A k \in K : x + z(x) <= Id(k)
               /\ \E j \in 1..lo : Id(j) <= x /\ x + z(x) <= Id(j) + y(j)
    <2>1. Inside(cs, p, x)
      BY <1>3, <1>8 DEF Inside
    <2>2. PICK j \in 1..lo : Id(j) <= x /\ x + z(x) <= Id(j) + y(j)
      BY <1>0, <1>2, <2>1 DEF Tidy
    <2>3. ASSUME NEW k \in K PROVE x + z(x) <= Id(k)
      <3>1. KidPlace(t, j) + y(j) <= KidPlace(t, k)
        BY <1>6, <1>7
      <3>2. /\ KidPlace(t, j) \in Nat /\ y(j) \in Nat /\ KidPlace(t, k) \in Nat
        BY <1>5, <1>7
      <3> DEFINE Pj == KidPlace(t, j)
                 Pk == KidPlace(t, k)
                 yj == y(j)
                 zx == z(x)
      <3>3. /\ p \in Nat /\ x \in Nat /\ zx \in Nat /\ Pj \in Nat /\ yj \in Nat /\ Pk \in Nat
            /\ Pj + yj <= Pk /\ x + zx <= (p + Pj) + yj
        <4>1. x + zx <= (p + Pj) + yj
          BY <2>2
        <4>2. p \in Nat /\ x \in Nat /\ zx \in Nat
          BY <1>3, <1>4
        <4>3. Pj \in Nat /\ yj \in Nat /\ Pk \in Nat /\ Pj + yj <= Pk
          BY <3>1, <3>2
        <4> HIDE DEF Pj, Pk, yj, zx
        <4> QED BY <4>1, <4>2, <4>3
      <3> HIDE DEF Pj, Pk, yj, zx
      <3>4. x + zx <= p + Pk
        BY <3>3, EndsBefore, Zenon
      <3> QED BY <3>4 DEF Pk, zx
    <2> QED BY <2>2, <2>3
  <1>9. ASSUME NEW k \in K
        PROVE  /\ Id(k) \in Nat /\ p < Id(k) /\ Id(k) + y(k) <= p + Size(t) /\ Id(k) < p + Size(t)
               /\ y(k) \in Nat \ {0} /\ Id(k) \notin DOMAIN cs
    <2>1. /\ KidPlace(t, k) \in Nat \ {0} /\ y(k) \in Nat \ {0} /\ KidPlace(t, k) + y(k) <= Size(t)
      BY <1>5, <1>7
    <2> HIDE DEF y
    <2>2. Id(k) \in Nat /\ p < Id(k) /\ Id(k) + y(k) <= p + Size(t) /\ Id(k) < p + Size(t)
      <3> DEFINE q == KidPlace(t, k)
                 w == y(k)
      <3>1. q \in Nat \ {0} /\ w \in Nat \ {0} /\ q + w <= Size(t) /\ p \in Nat /\ Size(t) \in Nat
        BY <1>3, <2>1
      <3> HIDE DEF q, w
      <3>2. p + q \in Nat /\ p < p + q /\ (p + q) + w <= p + Size(t) /\ p + q < p + Size(t)
        BY <3>1
      <3> QED BY <3>2 DEF q, w
    <2> HIDE DEF Id
    <2>3. Id(k) \notin DOMAIN cs
      <3>1. SUFFICES ASSUME Id(k) \in DOMAIN cs PROVE FALSE
        OBVIOUS
      <3>2. Id(k) + z(Id(k)) <= Id(k) /\ z(Id(k)) \in Nat \ {0}
        BY <1>4, <1>8, <2>2, <3>1
      <3> HIDE DEF z
      <3> QED BY <2>2, <3>2
    <2> QED BY <2>1, <2>2, <2>3
  <1>10. ASSUME NEW j \in K, NEW k \in K, j < k PROVE Id(j) + y(j) <= Id(k)
    <2>1. /\ KidPlace(t, j) + y(j) <= KidPlace(t, k) /\ KidPlace(t, j) \in Nat /\ y(j) \in Nat /\ KidPlace(t, k) \in Nat
      BY <1>5, <1>6, <1>7, <1>10
    <2> HIDE DEF y
    <2> QED BY <1>3, <2>1
  \* The memory after it.
  <1>a. /\ ds[p].template = cs[p].template /\ ds[p].signalStart = cs[p].signalStart
        /\ ds[p].inputCounter = cs[p].inputCounter /\ ds[p] \in Cell
        /\ ds[p].subcomponents \in Seq(Nat) /\ Len(ds[p].subcomponents) = hi
        /\ \A k \in 1..lo : ds[p].subcomponents[k] = cs[p].subcomponents[k]
        /\ \A k \in K : ds[p].subcomponents[k] = Id(k)
    BY DEF Grown
  <1>11. DOMAIN ds = DOMAIN cs \cup New /\ DOMAIN cs \cap New = {} /\ p \notin New
    <2>1. DOMAIN ds = DOMAIN cs \cup New
      BY Zenon DEF Grown
    <2>2. \A k \in K : Id(k) \notin DOMAIN cs
      BY <1>9
    <2> HIDE DEF Id, K
    <2>3. DOMAIN cs \cap New = {}
      BY <2>2
    <2> QED BY <1>2, <2>1, <2>3
  <1>12. \A x \in DOMAIN cs : x # p => ds[x] = cs[x]
    BY <1>11 DEF Grown
  <1>13. ASSUME NEW x \in DOMAIN cs
         PROVE  /\ x \in DOMAIN ds /\ ds[x].template = cs[x].template /\ ds[x].signalStart = cs[x].signalStart
                /\ ds[x].inputCounter = cs[x].inputCounter /\ ds[x] \in Cell
    <2>1. x \in DOMAIN ds /\ cs[x] \in Cell
      BY <1>11, CellTypes
    <2>2. CASE x = p
      BY <1>a, <2>1, <2>2
    <2>3. CASE x # p
      BY <1>12, <2>1, <2>3
    <2> QED BY <2>2, <2>3
  <1>14. ASSUME NEW k \in K
         PROVE  /\ ds[Id(k)] \in Cell /\ ds[Id(k)].template = KidTemplate(t, k)
                /\ ds[Id(k)].signalStart = cs[p].signalStart + KidSignal(t, k) /\ ds[Id(k)].subcomponents = << >>
    <2>1. ds[Id(k)] = Component(KidTemplate(t, k), cs[p].signalStart + KidSignal(t, k))
      <3>1. Id(k) # p
        <4>1. Id(k) \in Nat /\ p < Id(k)
          BY <1>9
        <4> HIDE DEF Id
        <4> QED BY <1>3, <4>1
      <3> QED BY <3>1, Zenon DEF Grown
    <2>2. KidTemplate(t, k) \in Names /\ cs[p].signalStart + KidSignal(t, k) \in Nat
          /\ Templates[KidTemplate(t, k)].inputs \in Nat
      <3>1. KidTemplate(t, k) \in Names /\ KidSignal(t, k) \in Nat
        BY <1>5, <1>7
      <3>2. cs[p].signalStart \in Nat
        BY <1>2, CellTypes
      <3>3. Templates[KidTemplate(t, k)].inputs \in Nat
        BY <3>1, ProgramShape DEF Shape
      <3> QED BY <3>1, <3>2, <3>3
    <2> DEFINE tt == KidTemplate(t, k)
               ss == cs[p].signalStart + KidSignal(t, k)
    <2> HIDE DEF tt, ss, Id
    <2>3. ds[Id(k)] = [template |-> tt, signalStart |-> ss, inputCounter |-> Templates[tt].inputs, subcomponents |-> << >>]
      BY <2>1 DEF tt, ss, Component
    <2>4. tt \in Names /\ ss \in Nat /\ Templates[tt].inputs \in Int
      BY <2>2 DEF tt, ss
    <2>5. /\ ds[Id(k)] \in Cell /\ ds[Id(k)].template = tt /\ ds[Id(k)].signalStart = ss
          /\ ds[Id(k)].subcomponents = << >>
      BY <2>3, <2>4 DEF Cell
    <2> QED BY <2>5 DEF tt, ss
  <1> HIDE DEF Id, z, y, K
  <1>15. DOMAIN ds \subseteq Nat /\ \A x \in DOMAIN ds : ds[x] \in Cell
    BY <1>4, <1>9, <1>11, <1>13, <1>14
  <1>16. \A a, x \in DOMAIN cs : Inside(ds, a, x) <=> Inside(cs, a, x)
    BY <1>13 DEF Inside
  <1>17. ASSUME NEW id \in DOMAIN ds PROVE Laid(ds, id)
    <2>1. CASE id \in New
      <3>1. PICK k \in K : id = Id(k)
        BY <2>1
      <3>2. ds[id].subcomponents = << >> /\ ds[id].template \in Names
        BY <1>5, <1>7, <1>14, <3>1 DEF K
      <3>3. Kids(ds[id].template) \in Nat /\ Len(ds[id].subcomponents) = 0
        BY <3>2, KidsFollow
      <3> QED BY <3>3 DEF Laid
    <2>2. CASE id \in DOMAIN cs /\ id # p
      <3>1. Laid(cs, id) /\ ds[id] = cs[id]
        BY <1>12, <2>2 DEF Memory
      <3>2. \A k \in 1..Len(cs[id].subcomponents) : cs[id].subcomponents[k] \in DOMAIN cs
        BY <3>1 DEF Laid
      <3> QED BY <1>13, <3>1, <3>2 DEF Laid
    <2>3. CASE id = p
      <3> DEFINE subs == ds[p].subcomponents
      <3>1. Len(subs) = hi /\ hi <= Kids(t) /\ ds[p].template = t /\ ds[p].signalStart = cs[p].signalStart
        BY <1>0, <1>a
      <3>2. ASSUME NEW k \in 1..hi
            PROVE  /\ subs[k] = p + KidPlace(t, k) /\ subs[k] \in DOMAIN ds
                   /\ ds[subs[k]].template = KidTemplate(t, k)
                   /\ ds[subs[k]].signalStart = cs[p].signalStart + KidSignal(t, k)
        <4>1. CASE k \in 1..lo
          <5>1. /\ subs[k] = cs[p].subcomponents[k] /\ subs[k] = p + KidPlace(t, k) /\ subs[k] \in DOMAIN cs
                /\ cs[subs[k]].template = KidTemplate(t, k)
                /\ cs[subs[k]].signalStart = cs[p].signalStart + KidSignal(t, k)
            BY <1>0, <1>2, <1>a, <4>1, Zenon DEF Laid
          <5> HIDE DEF subs
          <5>2. /\ subs[k] \in DOMAIN ds /\ ds[subs[k]].template = cs[subs[k]].template
                /\ ds[subs[k]].signalStart = cs[subs[k]].signalStart
            BY <1>13, <5>1, Zenon
          <5>3. ds[subs[k]].template = KidTemplate(t, k)
            BY <5>1, <5>2
          <5>4. ds[subs[k]].signalStart = cs[p].signalStart + KidSignal(t, k)
            BY <5>1, <5>2
          <5> QED BY <5>1, <5>2, <5>3, <5>4
        <4>2. CASE k \in K
          <5>1. subs[k] = Id(k)
            BY <1>a, <4>2
          <5>2. Id(k) \in DOMAIN ds
            BY <1>11, <4>2
          <5>3. Id(k) = p + KidPlace(t, k)
            BY DEF Id
          <5> HIDE DEF subs
          <5> QED BY <1>14, <4>2, <5>1, <5>2, <5>3
        <4> QED BY <4>1, <4>2 DEF K
      <3> HIDE DEF subs
      <3> QED BY <2>3, <3>1, <3>2, Zenon DEF Laid, subs
    <2> QED BY <1>11, <2>1, <2>2, <2>3
  <1>18. ASSUME NEW id \in DOMAIN ds, id # 0, ds[id].inputCounter > 0 PROVE Untouched(ds, id)
    <2>1. CASE id \in New
      <3>1. PICK k \in K : id = Id(k)
        BY <2>1
      <3>2. ds[id].subcomponents = << >> /\ Size(ds[id].template) = y(k)
        BY <1>14, <3>1 DEF y
      <3>3. ASSUME NEW x \in DOMAIN ds, Inside(ds, id, x) PROVE FALSE
        <4>1. Id(k) < x /\ x < Id(k) + y(k)
          BY <3>1, <3>2, <3>3 DEF Inside
        <4>2. CASE x \in DOMAIN cs
          <5>1. /\ x \in Nat /\ z(x) \in Nat \ {0} /\ p < Id(k) /\ Id(k) + y(k) <= p + Size(t) /\ Id(k) \in Nat /\ y(k) \in Nat
            BY <1>4, <1>9, <4>2
          <5>2. p < x /\ x < p + Size(t)
            BY <1>3, <4>1, <5>1
          <5>3. x + z(x) <= Id(k)
            BY <1>8, <4>2, <5>2
          <5> QED BY <4>1, <5>1, <5>3
        <4>3. CASE x \in New
          <5>1. PICK j \in K : x = Id(j)
            BY <4>3
          <5>2. Id(j) \in Nat /\ Id(k) \in Nat /\ y(j) \in Nat /\ y(k) \in Nat /\ j \in Nat /\ k \in Nat
            BY <1>9 DEF K
          <5>3. CASE j < k
            <6>1. Id(j) + y(j) <= Id(k)
              BY <1>10, <5>3
            <6> QED BY <4>1, <5>1, <5>2, <6>1
          <5>4. CASE k < j
            <6>1. Id(k) + y(k) <= Id(j)
              BY <1>10, <5>4
            <6> QED BY <4>1, <5>1, <5>2, <6>1
          <5>5. CASE j = k
            BY <4>1, <5>1, <5>2, <5>5
          <5> QED BY <5>2, <5>3, <5>4, <5>5
        <4> QED BY <1>11, <4>2, <4>3
      <3> QED BY <3>2, <3>3 DEF Untouched
    <2>2. CASE id \in DOMAIN cs
      <3>1. cs[id].inputCounter > 0 /\ Untouched(cs, id)
        BY <1>13, <1>18, <2>2 DEF Memory
      <3>2. id # p
        <4>1. SUFFICES ASSUME id = p PROVE FALSE
          OBVIOUS
        <4>2. cs[p].inputCounter \in Int /\ cs[p].inputCounter <= 0 /\ cs[p].inputCounter > 0
          BY <1>2, <1>18, <3>1, <4>1, CellTypes
        <4> QED BY <4>2
      <3>3. ds[id] = cs[id]
        BY <1>12, <2>2, <3>2
      <3>4. ASSUME NEW x \in New, Inside(ds, id, x) PROVE FALSE
        <4>1. PICK k \in K : x = Id(k)
          OBVIOUS
        <4>2. id < x /\ x < id + z(id)
          BY <3>3, <3>4 DEF Inside, z
        <4>3. id \in Nat /\ z(id) \in Nat /\ x \in Nat /\ p < x /\ x < p + Size(t)
          BY <1>4, <1>9, <2>2, <4>1
        <4>4. CASE id < p
          <5>1. p < id + z(id)
            BY <1>3, <4>2, <4>3
          <5>2. Inside(cs, id, p)
            BY <4>4, <5>1 DEF Inside, z
          <5> QED BY <1>2, <3>1, <5>2 DEF Untouched
        <4>5. CASE p < id
          <5>1. id < p + Size(t)
            BY <1>3, <4>2, <4>3
          <5>2. id + z(id) <= Id(k)
            BY <1>8, <2>2, <4>5, <5>1
          <5> QED BY <4>1, <4>2, <4>3, <5>2
        <4> QED BY <1>3, <3>2, <4>3, <4>4, <4>5
      <3>5. \A x \in DOMAIN cs : ~Inside(ds, id, x)
        BY <1>16, <2>2, <3>1 DEF Untouched
      <3> QED BY <1>11, <3>1, <3>3, <3>4, <3>5 DEF Untouched
    <2> QED BY <1>11, <2>1, <2>2
  <1>19. Memory(ds)
    <2>1. ds \in [DOMAIN ds -> Cell]
      <3>1. ds = [x \in DOMAIN ds |-> ds[x]]
        BY DEF Grown
      <3> QED BY <1>15, <3>1
    <2> QED BY <1>15, <1>17, <1>18, <2>1 DEF Memory
  \* The calls under way.
  <1>20. /\ ut \in Seq([component : Nat, at : Nat]) /\ Len(ut) = Len(st) /\ Len(ut) \in Nat
         /\ ut[1].component = p /\ ut[1].at = st[1].at + 1 /\ \A i \in 2..Len(st) : ut[i] = st[i]
    BY <1>0, <1>1 DEF Moved
  <1>21. \A i \in 1..Len(st) : ut[i].component = st[i].component /\ st[i].component \in DOMAIN cs
    <2>1. \A i \in 1..Len(st) : i = 1 \/ i \in 2..Len(st)
      BY <1>1
    <2>2. \A i \in 1..Len(st) : st[i].component \in DOMAIN cs
      BY DEF Calls, Frame
    <2> QED BY <1>0, <1>20, <2>1, <2>2
  <1>22. \A i, j \in 1..Len(ut) : i < j => Inside(ds, ut[j].component, ut[i].component)
    <2> SUFFICES ASSUME NEW i \in 1..Len(st), NEW j \in 1..Len(st), i < j
                 PROVE  Inside(ds, ut[j].component, ut[i].component)
      BY <1>20
    <2>1. Inside(cs, st[j].component, st[i].component)
      BY DEF Calls
    <2> QED BY <1>16, <1>21, <2>1
  <1>23. Frame(ds, ut[1])
    <2>1. p \in DOMAIN ds /\ ds[p].template = t /\ ds[p].inputCounter = cs[p].inputCounter
      BY <1>0, <1>2, <1>13, Zenon
    <2>2. Len(ds[p].subcomponents) = Made(t, st[1].at + 1)
      BY <1>0, <1>a
    <2>3. st[1].at + 1 \in 1..(Len(Templates[t].run) + 1)
      <3>1. st[1].at \in 1..(Len(Templates[t].run) + 1) /\ Len(Templates[t].run) \in Nat
        BY <1>0, <1>1, <1>2, CellTypes DEF Frame
      <3> DEFINE n == Len(Templates[t].run)
                 at == st[1].at
      <3>2. at \in 1..(n + 1) /\ n \in Nat /\ at <= n
        BY <1>0, <3>1
      <3> HIDE DEF n, at
      <3>3. at + 1 \in 1..(n + 1)
        BY <3>2
      <3> QED BY <3>3 DEF n, at
    <2>4. ASSUME NEW x \in DOMAIN ds, Inside(ds, p, x)
          PROVE  \E k \in 1..hi : Id(k) <= x /\ x + Size(ds[x].template) <= Id(k) + y(k)
      <3>1. p < x /\ x < p + Size(t)
        BY <2>1, <2>4 DEF Inside
      <3>2. CASE x \in DOMAIN cs
        <4>1. PICK j \in 1..lo : Id(j) <= x /\ x + z(x) <= Id(j) + y(j)
          BY <1>8, <3>1, <3>2
        <4>2. j \in 1..hi /\ Size(ds[x].template) = z(x)
          BY <1>7, <1>13, <3>2 DEF z
        <4> QED BY <4>1, <4>2
      <3>3. CASE x \in New
        <4>1. PICK k \in K : x = Id(k)
          BY <3>3
        <4>2. Size(ds[x].template) = y(k) /\ x \in Nat /\ y(k) \in Nat /\ k \in 1..hi
          BY <1>7, <1>9, <1>14, <4>1 DEF y
        <4>3. Id(k) <= x /\ x + Size(ds[x].template) <= Id(k) + y(k)
          BY <4>1, <4>2
        <4> QED BY <4>2, <4>3
      <3> QED BY <1>11, <3>2, <3>3
    <2>5. Tidy(ds, p)
      BY <1>a, <2>1, <2>4 DEF Tidy, Id, y
    <2> QED BY <1>2, <1>20, <2>1, <2>2, <2>3, <2>5 DEF Frame
  <1>24. ASSUME NEW i \in 2..Len(st) PROVE Frame(ds, ut[i])
    <2> DEFINE a == st[i].component
    <2>1. i \in 1..Len(st) /\ 1 < i /\ ut[i] = st[i]
      <3>1. ut[i] = st[i]
        BY <1>20
      <3> DEFINE n == Len(st)
      <3>2. i \in 2..n /\ n \in Nat
        BY <1>1
      <3> HIDE DEF n
      <3>3. i \in 1..n /\ 1 < i
        BY <3>2
      <3> QED BY <3>1, <3>3 DEF n
    <2>2. Frame(cs, st[i]) /\ Inside(cs, a, p)
      BY <1>0, <1>1, <2>1 DEF Calls
    <2>3. a \in DOMAIN cs /\ Tidy(cs, a) /\ Laid(cs, a)
      BY <2>2 DEF Frame, Memory
    <2>4. a < p /\ p + z(p) <= a + z(a) /\ a \in Nat
      BY <1>2, <1>4, <2>2, <2>3, InsideInside DEF z
    <2>5. a # p /\ ds[a] = cs[a]
      <3>1. a # p BY <1>3, <2>4
      <3> QED BY <1>12, <2>3, <3>1
    <2> DEFINE u == cs[a].template
               L == Len(cs[a].subcomponents)
               At(k) == a + KidPlace(u, k)
               w(k) == Size(KidTemplate(u, k))
    <2>6. ASSUME NEW x \in DOMAIN ds, Inside(ds, a, x)
          PROVE  \E k \in 1..L : At(k) <= x /\ x + Size(ds[x].template) <= At(k) + w(k)
      <3>1. CASE x \in DOMAIN cs
        <4>1. Inside(cs, a, x) /\ ds[x].template = cs[x].template
          BY <1>13, <1>16, <2>3, <2>6, <3>1
        <4> QED BY <2>3, <3>1, <4>1 DEF Tidy
      <3>2. CASE x \in New
        <4>1. PICK k \in K : x = Id(k)
          BY <3>2
        <4>2. PICK m \in 1..L : m \in 1..Kids(u) /\ At(m) <= p /\ p + z(p) <= At(m) + w(m)
          BY <1>2, <2>2, <2>3, InsideInside DEF z
        <4>3. Size(ds[x].template) = y(k) /\ x \in Nat /\ y(k) \in Nat /\ p < x /\ x + y(k) <= p + z(p)
          BY <1>3, <1>9, <1>14, <4>1 DEF y
        <4>4. KidPlace(u, m) \in Nat /\ w(m) \in Nat /\ u \in Names
          BY <1>4, <2>3, <4>2, KidTypes
        <4>5. At(m) \in Nat /\ z(p) \in Nat
          <5>1. z(p) \in Nat
            BY <1>2, <1>4
          <5> DEFINE q == KidPlace(u, m)
          <5>2. q \in Nat /\ a \in Nat
            BY <2>4, <4>4
          <5> HIDE DEF q, a
          <5>3. a + q \in Nat
            BY <5>2
          <5> QED BY <5>1, <5>3 DEF q
        <4> HIDE DEF At, w, u, L
        <4>6. At(m) <= x /\ x + y(k) <= At(m) + w(m)
          BY <1>3, <4>2, <4>3, <4>4, <4>5, StaysWithin
        <4> QED BY <4>2, <4>3, <4>6
      <3> QED BY <1>11, <3>1, <3>2
    <2>7. Tidy(ds, a)
      BY <2>5, <2>6 DEF Tidy
    <2> HIDE DEF a
    <2> QED BY <1>11, <2>1, <2>2, <2>3, <2>5, <2>7 DEF Frame, a
  <1>25. \A i \in 1..Len(ut) : Frame(ds, ut[i])
    <2>1. \A i \in 1..Len(ut) : i = 1 \/ i \in 2..Len(st)
      BY <1>20
    <2> QED BY <1>23, <1>24, <2>1
  <1> QED BY <1>19, <1>20, <1>22, <1>25 DEF Calls

\* Nothing is added to the memory; a counter may go down and sub-components be released.
Kept(cs, ds) ==
    /\ DOMAIN ds = DOMAIN cs /\ ds \in [DOMAIN cs -> Cell]
    /\ \A x \in DOMAIN cs :
          /\ ds[x].template = cs[x].template /\ ds[x].signalStart = cs[x].signalStart
          /\ ds[x].inputCounter <= cs[x].inputCounter
          /\ ds[x].subcomponents = cs[x].subcomponents \/ ds[x].subcomponents = << >>

\* KeptInside: the regions are the same.
LEMMA KeptInside ==
    ASSUME NEW cs, NEW ds, Kept(cs, ds), NEW a \in DOMAIN cs, NEW x
    PROVE  Inside(ds, a, x) <=> Inside(cs, a, x)
  BY DEF Kept, Inside

\* KeptMemory: the memory stays as the templates lay it out.
LEMMA KeptMemory ==
    ASSUME NEW cs, NEW ds, Memory(cs), Kept(cs, ds)
    PROVE  Memory(ds)
  <1>1. DOMAIN ds \subseteq Nat /\ ds \in [DOMAIN ds -> Cell]
    BY DEF Memory, Kept
  <1>2. ASSUME NEW id \in DOMAIN ds PROVE Laid(ds, id)
    <2>1. id \in DOMAIN cs /\ Laid(cs, id)
      BY DEF Memory, Kept
    <2>2. CASE ds[id].subcomponents = << >>
      <3>1. Kids(ds[id].template) \in Nat
        BY <2>1, CellTypes, KidsFollow DEF Kept
      <3>2. Len(ds[id].subcomponents) = 0
        BY <2>2
      <3> QED BY <3>1, <3>2 DEF Laid
    <2>3. CASE ds[id].subcomponents = cs[id].subcomponents
      <3>1. \A k \in 1..Len(cs[id].subcomponents) : cs[id].subcomponents[k] \in DOMAIN cs
        BY <2>1 DEF Laid
      <3> QED BY <2>1, <2>3, <3>1 DEF Laid, Kept
    <2> QED BY <2>1, <2>2, <2>3 DEF Kept
  <1>3. ASSUME NEW id \in DOMAIN ds, id # 0, ds[id].inputCounter > 0 PROVE Untouched(ds, id)
    <2>1. id \in DOMAIN cs /\ ds[id].inputCounter <= cs[id].inputCounter
      BY DEF Kept
    <2>2. ds[id].inputCounter \in Int /\ cs[id].inputCounter \in Int
      BY <1>1, <2>1, CellTypes DEF Cell
    <2>3. cs[id].inputCounter > 0
      BY <1>3, <2>1, <2>2
    <2>4. Untouched(cs, id)
      BY <1>3, <2>1, <2>3 DEF Memory
    <2>5. DOMAIN ds = DOMAIN cs /\ ds[id].subcomponents = << >>
      BY <2>1, <2>4 DEF Kept, Untouched
    <2> QED BY <2>1, <2>4, <2>5, KeptInside DEF Untouched
  <1> QED BY <1>1, <1>2, <1>3 DEF Memory

\* KeptTidy: a component that keeps its sub-components stays tidy.
LEMMA KeptTidy ==
    ASSUME NEW cs, NEW ds, Kept(cs, ds), NEW a \in DOMAIN cs, Tidy(cs, a),
           ds[a].subcomponents = cs[a].subcomponents
    PROVE  Tidy(ds, a)
  <1>1. DOMAIN ds = DOMAIN cs /\ \A x \in DOMAIN cs : ds[x].template = cs[x].template
    BY DEF Kept
  <1>2. \A x \in DOMAIN cs : Inside(ds, a, x) <=> Inside(cs, a, x)
    BY KeptInside
  <1> QED BY <1>1, <1>2 DEF Tidy

\* KeptFrame: so does its call.
LEMMA KeptFrame ==
    ASSUME NEW cs, NEW ds, Memory(cs), Kept(cs, ds), NEW f, Frame(cs, f),
           ds[f.component].subcomponents = cs[f.component].subcomponents
    PROVE  Frame(ds, f)
  <1> DEFINE a == f.component
  <1>1. a \in DOMAIN cs /\ a \in DOMAIN ds /\ Tidy(cs, a)
    BY DEF Frame, Kept
  <1>2. Tidy(ds, a)
    BY <1>1, KeptTidy
  <1>3. ds[a].template = cs[a].template /\ ds[a].inputCounter <= cs[a].inputCounter
    BY <1>1 DEF Kept
  <1>4. ds[a].inputCounter \in Int /\ cs[a].inputCounter \in Int
    BY <1>1, CellTypes, KeptMemory
  <1>5. a = 0 \/ ds[a].inputCounter <= 0
    <2>1. a = 0 \/ cs[a].inputCounter <= 0
      BY DEF Frame
    <2> HIDE DEF a
    <2> QED BY <1>3, <1>4, <2>1
  <1>6. /\ f.at \in 1..(Len(Templates[cs[a].template].run) + 1)
        /\ Len(cs[a].subcomponents) = Made(cs[a].template, f.at)
    BY DEF Frame
  <1> QED BY <1>1, <1>2, <1>3, <1>5, <1>6 DEF Frame

\* MoveKeeps: a statement that creates nothing.
LEMMA MoveKeeps ==
    ASSUME NEW cs, NEW st, Memory(cs), Calls(cs, st), st # << >>,
           NEW p, p = st[1].component, NEW t, t = cs[p].template,
           st[1].at <= Len(Templates[t].run), Made(t, st[1].at + 1) = Made(t, st[1].at),
           NEW ds, Kept(cs, ds), \A x \in DOMAIN cs : ds[x].subcomponents = cs[x].subcomponents,
           NEW ut, Moved(st, ut)
    PROVE  Memory(ds) /\ Calls(ds, ut)
  <1>1. /\ st \in Seq([component : Nat, at : Nat]) /\ Len(st) \in Nat \ {0} /\ 1 \in 1..Len(st)
        /\ Frame(cs, st[1])
    BY DEF Calls
  <1>2. Memory(ds)
    BY KeptMemory
  <1>3. \A i \in 1..Len(st) : st[i].component \in DOMAIN cs /\ Frame(ds, st[i])
    <2> SUFFICES ASSUME NEW i \in 1..Len(st) PROVE st[i].component \in DOMAIN cs /\ Frame(ds, st[i])
      OBVIOUS
    <2>1. Frame(cs, st[i]) /\ st[i].component \in DOMAIN cs
      BY DEF Calls, Frame
    <2> QED BY <2>1, KeptFrame
  <1>4. /\ ut \in Seq([component : Nat, at : Nat]) /\ Len(ut) = Len(st) /\ Len(ut) \in Nat
        /\ ut[1].component = p /\ ut[1].at = st[1].at + 1 /\ \A i \in 2..Len(st) : ut[i] = st[i]
    BY <1>1 DEF Moved
  <1>5. \A i \in 1..Len(st) : i = 1 \/ i \in 2..Len(st)
    BY <1>1
  <1>6. \A i \in 1..Len(st) : ut[i].component = st[i].component
    BY <1>4, <1>5
  <1>7. \A i, j \in 1..Len(ut) : i < j => Inside(ds, ut[j].component, ut[i].component)
    <2> SUFFICES ASSUME NEW i \in 1..Len(st), NEW j \in 1..Len(st), i < j
                 PROVE  Inside(ds, ut[j].component, ut[i].component)
      BY <1>4
    <2>1. Inside(cs, st[j].component, st[i].component) /\ st[j].component \in DOMAIN cs
      BY <1>3 DEF Calls
    <2> QED BY <1>6, <2>1, KeptInside
  <1>8. Frame(ds, ut[1])
    <2>1. Frame(ds, st[1]) /\ p \in DOMAIN cs
      BY <1>1, <1>3
    <2>2. ds[p].template = t
      BY <2>1 DEF Kept
    <2>3. /\ p \in DOMAIN ds /\ (p = 0 \/ ds[p].inputCounter <= 0) /\ Tidy(ds, p)
          /\ Len(ds[p].subcomponents) = Made(t, st[1].at) /\ st[1].at \in 1..(Len(Templates[t].run) + 1)
      BY <2>1, <2>2 DEF Frame
    <2>4. st[1].at + 1 \in 1..(Len(Templates[t].run) + 1)
      <3> DEFINE n == Len(Templates[t].run)
                 at == st[1].at
      <3>1. n \in Nat
        BY <2>1, CellTypes
      <3>2. at \in 1..(n + 1) /\ at <= n
        BY <2>3
      <3> HIDE DEF n, at
      <3>3. at + 1 \in 1..(n + 1)
        BY <3>1, <3>2
      <3> QED BY <3>3 DEF n, at
    <2> QED BY <1>4, <2>2, <2>3, <2>4 DEF Frame
  <1>9. \A i \in 1..Len(ut) : Frame(ds, ut[i])
    BY <1>3, <1>4, <1>5, <1>8
  <1> QED BY <1>2, <1>4, <1>7, <1>9 DEF Calls

\* The component id is called.
Pushed(st, ut, id) ==
    /\ ut \in Seq([component : Nat, at : Nat]) /\ Len(ut) = Len(st) + 1
    /\ ut[1].component = id /\ ut[1].at = 1
    /\ \A i \in 1..Len(st) : ut[i + 1] = st[i]

\* CallKeeps: the call of a component in the region of the innermost one.
LEMMA CallKeeps ==
    ASSUME NEW cs, NEW st, Memory(cs), Calls(cs, st), st # << >>,
           NEW id \in DOMAIN cs, Inside(cs, st[1].component, id),
           cs[id].inputCounter <= 0, Untouched(cs, id), NEW ut, Pushed(st, ut, id)
    PROVE  Calls(cs, ut)
  <1>1. Len(st) \in Nat \ {0} /\ 1 \in 1..Len(st)
    BY DEF Calls
  <1>2. /\ ut \in Seq([component : Nat, at : Nat]) /\ Len(ut) = Len(st) + 1
        /\ ut[1].component = id /\ ut[1].at = 1 /\ \A i \in 1..Len(st) : ut[i + 1] = st[i]
    BY DEF Pushed
  <1>3. \A i \in 1..Len(st) : /\ Frame(cs, st[i]) /\ st[i].component \in DOMAIN cs
                              /\ Tidy(cs, st[i].component) /\ Laid(cs, st[i].component)
    BY DEF Calls, Frame, Memory
  <1>4. \A i \in 1..Len(st) : Inside(cs, st[i].component, id)
    <2> SUFFICES ASSUME NEW i \in 1..Len(st), i # 1 PROVE Inside(cs, st[i].component, id)
      OBVIOUS
    <2> DEFINE a == st[i].component
               p == st[1].component
    <2>1. 1 < i BY <1>1
    <2>2. Inside(cs, a, p) /\ a \in DOMAIN cs /\ p \in DOMAIN cs /\ Tidy(cs, a) /\ Laid(cs, a)
      BY <1>1, <1>3, <2>1 DEF Calls
    <2>3. a < p /\ p + Size(cs[p].template) <= a + Size(cs[a].template)
      BY <2>2, InsideInside
    <2>4. p < id /\ id < p + Size(cs[p].template)
      BY DEF Inside
    <2> DEFINE x == Size(cs[a].template)
               y == Size(cs[p].template)
    <2>5. a \in Nat /\ p \in Nat /\ id \in Nat /\ x \in Nat /\ y \in Nat
      BY <2>2, CellTypes
    <2>6. a < p /\ p + y <= a + x /\ p < id /\ id < p + y
      BY <2>3, <2>4
    <2> HIDE DEF x, y, a, p
    <2>7. a < id /\ id < a + x
      BY <2>5, <2>6
    <2> QED BY <2>7 DEF Inside, a, x
  <1>5. Frame(cs, ut[1])
    <2> DEFINE t == cs[id].template
    <2>1. cs[id].subcomponents = << >> /\ Tidy(cs, id)
      BY DEF Untouched, Tidy
    <2>2. Len(cs[id].subcomponents) = 0
      BY <2>1
    <2>3. t \in Names /\ Len(Templates[t].run) \in Nat
      BY CellTypes
    <2>4. Made(t, 1) = 0
      <3>1. Blocks(t) \in Nat /\ PerBlock(t) \in Nat
        BY <2>3, ProgramShape DEF Shape, Blocks
      <3> QED BY <3>1 DEF Made
    <2>5. 1 \in 1..(Len(Templates[t].run) + 1)
      BY <2>3
    <2> QED BY <1>2, <2>1, <2>2, <2>4, <2>5 DEF Frame
  <1>6. \A i \in 1..Len(ut) : i = 1 \/ (i - 1 \in 1..Len(st) /\ ut[i] = st[i - 1])
    <2> SUFFICES ASSUME NEW i \in 1..Len(ut), i # 1 PROVE i - 1 \in 1..Len(st) /\ ut[i] = st[i - 1]
      OBVIOUS
    <2>1. i - 1 \in 1..Len(st) /\ (i - 1) + 1 = i
      BY <1>1, <1>2
    <2> QED BY <1>2, <2>1
  <1>7. \A i \in 1..Len(ut) : Frame(cs, ut[i])
    BY <1>3, <1>5, <1>6
  <1>8. ASSUME NEW i \in 1..Len(ut), NEW j \in 1..Len(ut), i < j
        PROVE  Inside(cs, ut[j].component, ut[i].component)
    <2>1. j # 1 /\ j - 1 \in 1..Len(st) /\ ut[j] = st[j - 1]
      <3>1. j # 1 BY <1>8
      <3> QED BY <1>6, <3>1
    <2>2. CASE i = 1
      BY <1>2, <1>4, <2>1, <2>2
    <2>3. CASE i # 1
      <3>1. i - 1 \in 1..Len(st) /\ ut[i] = st[i - 1]
        BY <1>6, <2>3
      <3>2. i - 1 < j - 1
        BY <1>8
      <3> QED BY <2>1, <3>1, <3>2 DEF Calls
    <2> QED BY <2>2, <2>3
  <1> QED BY <1>2, <1>7, <1>8 DEF Calls

\* The innermost call ends.
Popped(st, ut) ==
    /\ ut \in Seq([component : Nat, at : Nat]) /\ Len(ut) = Len(st) - 1
    /\ \A i \in 1..(Len(st) - 1) : ut[i] = st[i + 1]

\* ReturnKeeps: the sub-components of what is in its region are released.
LEMMA ReturnKeeps ==
    ASSUME NEW cs, NEW st, Memory(cs), Calls(cs, st), st # << >>,
           NEW ds, Kept(cs, ds),
           \A x \in DOMAIN cs : x <= st[1].component => ds[x].subcomponents = cs[x].subcomponents,
           NEW ut, Popped(st, ut)
    PROVE  Memory(ds) /\ Calls(ds, ut)
  <1> DEFINE p == st[1].component
  <1>1. Len(st) \in Nat \ {0} /\ 1 \in 1..Len(st)
    BY DEF Calls
  <1>2. Memory(ds)
    BY KeptMemory
  <1>3. /\ ut \in Seq([component : Nat, at : Nat]) /\ Len(ut) = Len(st) - 1
        /\ \A i \in 1..(Len(st) - 1) : ut[i] = st[i + 1]
    BY DEF Popped
  <1>4. ASSUME NEW i \in 1..Len(ut)
        PROVE  i + 1 \in 1..Len(st) /\ 1 < i + 1 /\ ut[i] = st[i + 1]
    BY <1>1, <1>3
  <1>5. ASSUME NEW i \in 1..Len(ut) PROVE Frame(ds, ut[i]) /\ ut[i].component \in DOMAIN cs
    <2> DEFINE a == ut[i].component
    <2>1. Frame(cs, ut[i]) /\ Inside(cs, a, p)
      BY <1>1, <1>4 DEF Calls
    <2>2. a \in DOMAIN cs /\ p \in DOMAIN cs /\ a < p
      BY <1>1, <2>1 DEF Calls, Frame, Inside
    <2>3. a <= p
      <3>1. a \in Nat /\ p \in Nat BY <2>2, CellTypes
      <3> HIDE DEF a, p
      <3> QED BY <2>2, <3>1
    <2>4. ds[a].subcomponents = cs[a].subcomponents
      BY <2>2, <2>3
    <2> QED BY <2>1, <2>2, <2>4, KeptFrame
  <1>6. ASSUME NEW i \in 1..Len(ut), NEW j \in 1..Len(ut), i < j
        PROVE  Inside(ds, ut[j].component, ut[i].component)
    <2>1. i + 1 < j + 1
      BY <1>6
    <2>2. Inside(cs, ut[j].component, ut[i].component)
      BY <1>4, <2>1 DEF Calls
    <2> QED BY <1>5, <2>2, KeptInside
  <1> QED BY <1>2, <1>3, <1>5, <1>6 DEF Calls

(***************************************************************************)
(* The expressions of the actions do what the predicates say.              *)
(***************************************************************************)
\* CallAt: a call under way at another statement.
LEMMA CallAt ==
    ASSUME NEW F, F = [component : Nat, at : Nat], NEW r \in F, NEW v \in Nat
    PROVE  /\ [r EXCEPT !.at = v] \in F /\ [r EXCEPT !.at = v].component = r.component
           /\ [r EXCEPT !.at = v].at = v
  OBVIOUS

\* AdvancedMoves: what the statements leave of the calls under way.
LEMMA AdvancedMoves ==
    ASSUME NEW st \in Seq([component : Nat, at : Nat]), st # << >>
    PROVE  Moved(st, [st EXCEPT ![1].at = @ + 1])
  <1> DEFINE F == [component : Nat, at : Nat]
             f == [st[1] EXCEPT !.at = st[1].at + 1]
             ut == [st EXCEPT ![1].at = @ + 1]
  <1>1. Len(st) \in Nat \ {0} /\ 1 \in 1..Len(st) /\ DOMAIN st = 1..Len(st) /\ st[1] \in F
    <2> HIDE DEF F
    <2>1. st \in Seq(F)
      BY DEF F
    <2>2. Len(st) \in Nat /\ DOMAIN st = 1..Len(st) /\ Len(st) # 0
      BY <2>1
    <2> QED BY <2>1, <2>2
  <1>3. f \in F /\ f.component = st[1].component /\ f.at = st[1].at + 1
    <2>1. st[1].at + 1 \in Nat
      BY <1>1
    <2> QED BY <1>1, <2>1, CallAt
  <1>4. ut = [st EXCEPT ![1] = f]
    OBVIOUS
  <1> HIDE DEF F, f, ut
  <1>5. ut \in Seq(F) /\ Len(ut) = Len(st) /\ ut[1] = f /\ \A i \in 1..Len(st) : i # 1 => ut[i] = st[i]
    BY <1>1, <1>3, <1>4 DEF F
  <1>6. \A i \in 2..Len(st) : i \in 1..Len(st) /\ i # 1
    BY <1>1
  <1> QED BY <1>3, <1>5, <1>6 DEF Moved, F, ut

\* PushedFirst: the calls under way when one more is begun.
LEMMA PushedFirst ==
    ASSUME NEW st \in Seq([component : Nat, at : Nat]), NEW id \in Nat
    PROVE  Pushed(st, <<[component |-> id, at |-> 1]>> \o st, id)
  <1> DEFINE F == [component : Nat, at : Nat]
             f == [component |-> id, at |-> 1]
             ut == <<f>> \o st
  <1>1. f \in F /\ f.component = id /\ f.at = 1
    OBVIOUS
  <1> HIDE DEF f
  <1>2. <<f>> \in Seq(F) /\ Len(<<f>>) = 1 /\ Len(st) \in Nat /\ <<f>>[1] = f
    BY <1>1
  <1> DEFINE g == <<f>>
  <1> HIDE DEF F, g
  <1>3. g \in Seq(F) /\ Len(g) = 1 /\ g[1] = f /\ st \in Seq(F)
    BY <1>2 DEF g, F
  <1>4. /\ g \o st \in Seq(F) /\ Len(g \o st) = Len(g) + Len(st)
        /\ \A i \in 1..(Len(g) + Len(st)) : (g \o st)[i] = IF i <= Len(g) THEN g[i] ELSE st[i - Len(g)]
    BY <1>3, ConcatProperties
  <1> DEFINE vt == g \o st
  <1>5. vt = ut
    BY DEF g
  <1> HIDE DEF vt
  <1>6. vt \in Seq(F) /\ Len(vt) = Len(st) + 1 /\ vt[1] = f
    BY <1>2, <1>3, <1>4 DEF vt
  <1>7. ASSUME NEW i \in 1..Len(st) PROVE vt[i + 1] = st[i]
    <2>1. i + 1 \in 1..(1 + Len(st)) /\ ~ (i + 1 <= 1) /\ (i + 1) - 1 = i
      BY <1>2
    <2> QED BY <1>3, <1>4, <2>1 DEF vt
  <1>8. Pushed(st, vt, id)
    BY <1>1, <1>6, <1>7 DEF Pushed, F
  <1> QED BY <1>5, <1>8 DEF f

\* TailPops: the calls under way when the innermost one ends.
LEMMA TailPops ==
    ASSUME NEW st \in Seq([component : Nat, at : Nat]), st # << >>
    PROVE  Popped(st, Tail(st))
  <1> DEFINE F == [component : Nat, at : Nat]
  <1> HIDE DEF F
  <1>1. st \in Seq(F)
    BY DEF F
  <1>2. Tail(st) \in Seq(F) /\ Len(Tail(st)) = Len(st) - 1 /\ \A i \in 1..(Len(st) - 1) : Tail(st)[i] = st[i + 1]
    BY <1>1
  <1> QED BY <1>2 DEF Popped, F

\* CountedDown: an input of the component id is set.
LEMMA CountedDown ==
    ASSUME NEW cs, Memory(cs), NEW id \in DOMAIN cs
    PROVE  LET ds == [cs EXCEPT ![id].inputCounter = cs[id].inputCounter - 1] IN
           /\ Kept(cs, ds) /\ ds[id].inputCounter = cs[id].inputCounter - 1
           /\ \A x \in DOMAIN cs : ds[x].subcomponents = cs[x].subcomponents
  <1> DEFINE left == cs[id].inputCounter - 1
             c == [cs[id] EXCEPT !.inputCounter = left]
             ds == [cs EXCEPT ![id].inputCounter = left]
  <1>1. cs[id] \in Cell /\ cs[id].inputCounter \in Int /\ left \in Int /\ left <= cs[id].inputCounter
    BY CellTypes
  <1>2. cs \in [DOMAIN cs -> Cell] /\ \A x \in DOMAIN cs : cs[x].inputCounter \in Int
    BY CellTypes DEF Memory
  <1>3. ASSUME NEW r \in Cell, NEW v \in Int
        PROVE  LET q == [r EXCEPT !.inputCounter = v] IN
               /\ q \in Cell /\ q.template = r.template /\ q.signalStart = r.signalStart
               /\ q.inputCounter = v /\ q.subcomponents = r.subcomponents
    BY DEF Cell
  <1> HIDE DEF left
  <1>4. /\ c \in Cell /\ c.template = cs[id].template /\ c.signalStart = cs[id].signalStart
        /\ c.inputCounter = left /\ c.subcomponents = cs[id].subcomponents
    BY <1>1, <1>3
  <1>5. ds = [cs EXCEPT ![id] = c]
    OBVIOUS
  <1> HIDE DEF c, ds
  <1>6. DOMAIN ds = DOMAIN cs /\ ds \in [DOMAIN cs -> Cell] /\ ds[id] = c /\ \A x \in DOMAIN cs : x # id => ds[x] = cs[x]
    BY <1>2, <1>4, <1>5
  <1>7. \A x \in DOMAIN cs :
          /\ ds[x].template = cs[x].template /\ ds[x].signalStart = cs[x].signalStart
          /\ ds[x].inputCounter <= cs[x].inputCounter
          /\ ds[x].subcomponents = cs[x].subcomponents
    <2> SUFFICES ASSUME NEW x \in DOMAIN cs
                 PROVE  /\ ds[x].template = cs[x].template /\ ds[x].signalStart = cs[x].signalStart
                        /\ ds[x].inputCounter <= cs[x].inputCounter
                        /\ ds[x].subcomponents = cs[x].subcomponents
      OBVIOUS
    <2>1. CASE x = id
      BY <1>1, <1>4, <1>6, <2>1
    <2>2. CASE x # id
      <3>1. ds[x] = cs[x] /\ cs[x].inputCounter \in Int
        BY <1>2, <1>6, <2>2
      <3> QED BY <3>1
    <2> QED BY <2>1, <2>2
  <1>8. Kept(cs, ds) /\ ds[id].inputCounter = left
    BY <1>4, <1>6, <1>7 DEF Kept
  <1> QED BY <1>7, <1>8 DEF ds, left

\* Released: the sub-components of the components in subs are released.
LEMMA Released ==
    ASSUME NEW cs, Memory(cs), NEW subs, NEW ds,
           ds = [id \in DOMAIN cs |-> IF id \in subs THEN [cs[id] EXCEPT !.subcomponents = << >>] ELSE cs[id]]
    PROVE  /\ Kept(cs, ds)
           /\ \A x \in DOMAIN cs : x \notin subs => ds[x].subcomponents = cs[x].subcomponents
  <1> DEFINE e == << >>
             E(r) == [r EXCEPT !.subcomponents = e]
             es == [id \in DOMAIN cs |-> IF id \in subs THEN E(cs[id]) ELSE cs[id]]
  <1>0. ds = es
    BY Zenon
  <1>a. e \in Seq(Nat) /\ e = << >>
    OBVIOUS
  <1> HIDE DEF e
  <1>1. ASSUME NEW r \in Cell
        PROVE  /\ E(r) \in Cell /\ E(r).template = r.template /\ E(r).signalStart = r.signalStart
               /\ E(r).inputCounter = r.inputCounter /\ E(r).subcomponents = << >>
    <2>1. /\ E(r) \in Cell /\ E(r).template = r.template /\ E(r).signalStart = r.signalStart
          /\ E(r).inputCounter = r.inputCounter /\ E(r).subcomponents = e
      BY <1>a DEF Cell
    <2> QED BY <1>a, <2>1
  <1> HIDE DEF E
  <1>2. \A x \in DOMAIN cs : cs[x] \in Cell /\ cs[x].inputCounter \in Int
    BY CellTypes
  <1>3. DOMAIN es = DOMAIN cs /\ es \in [DOMAIN cs -> Cell]
    BY <1>1, <1>2
  <1>4. \A x \in DOMAIN cs : es[x] = IF x \in subs THEN E(cs[x]) ELSE cs[x]
    OBVIOUS
  <1> HIDE DEF es
  <1>5. ASSUME NEW x \in DOMAIN cs
        PROVE  /\ es[x].template = cs[x].template /\ es[x].signalStart = cs[x].signalStart
               /\ es[x].inputCounter <= cs[x].inputCounter
               /\ es[x].subcomponents = cs[x].subcomponents \/ es[x].subcomponents = << >>
               /\ x \notin subs => es[x].subcomponents = cs[x].subcomponents
    <2>1. cs[x] \in Cell /\ cs[x].inputCounter \in Int
      BY <1>2
    <2>2. CASE x \in subs
      <3>1. es[x] = E(cs[x])
        BY <1>4, <2>2
      <3> QED BY <1>1, <2>1, <2>2, <3>1
    <2>3. CASE x \notin subs
      <3>1. es[x] = cs[x]
        BY <1>4, <2>3
      <3> QED BY <2>1, <3>1
    <2> QED BY <2>2, <2>3
  <1>6. Kept(cs, es) /\ \A x \in DOMAIN cs : x \notin subs => es[x].subcomponents = cs[x].subcomponents
    BY <1>3, <1>5 DEF Kept
  <1> QED BY <1>0, <1>6

\* What the statement s of the component p creates, and the list of it.
NewPlaces(p, s) == {p + s.component + i * Templates[s.template].components : i \in 0..(s.count - 1)}
NewComponents(cs, p, s) ==
    [x \in NewPlaces(p, s) |->
        Component(s.template,
                  cs[p].signalStart + s.signal
                  + ((x - (p + s.component + 0 * Templates[s.template].components))
                     \div Templates[s.template].components) * Templates[s.template].signals)]
NewList(p, s) == [k \in 1..s.count |-> p + s.component + (k - 1) * Templates[s.template].components]

\* ListGrows: the list of sub-components when more are created.
LEMMA ListGrows ==
    ASSUME NEW old \in Seq(Nat), NEW fresh \in Seq(Nat)
    PROVE  LET q == SubSeq(old, 1, Len(old)) \o fresh IN
           /\ q \in Seq(Nat) /\ Len(q) = Len(old) + Len(fresh)
           /\ \A k \in 1..Len(old) : q[k] = old[k]
           /\ \A k \in (Len(old) + 1)..(Len(old) + Len(fresh)) : q[k] = fresh[k - Len(old)]
  <1> DEFINE N == Nat
  <1>1. old \in Seq(N) /\ fresh \in Seq(N)
    OBVIOUS
  <1> HIDE DEF N
  <1>2. SubSeq(old, 1, Len(old)) = old
    BY <1>1, SubSeqFull
  <1>3. /\ old \o fresh \in Seq(N) /\ Len(old \o fresh) = Len(old) + Len(fresh)
        /\ \A k \in 1..(Len(old) + Len(fresh)) : (old \o fresh)[k] = IF k <= Len(old) THEN old[k] ELSE fresh[k - Len(old)]
    BY <1>1, ConcatProperties
  <1> DEFINE q == old \o fresh
             a == Len(old)
             b == Len(fresh)
  <1>4. a \in Nat /\ b \in Nat
    OBVIOUS
  <1>5. q \in Seq(N) /\ Len(q) = a + b /\ \A k \in 1..(a + b) : q[k] = IF k <= a THEN old[k] ELSE fresh[k - a]
    BY <1>3
  <1> HIDE DEF q, a, b
  <1>6. \A k \in 1..a : q[k] = old[k]
    BY <1>4, <1>5
  <1>7. \A k \in (a + 1)..(a + b) : q[k] = fresh[k - a]
    BY <1>4, <1>5
  <1> QED BY <1>2, <1>5, <1>6, <1>7 DEF q, a, b, N

\* CellWith: a component with other sub-components.
LEMMA CellWith ==
    ASSUME NEW c \in Cell, NEW v \in Seq(Nat)
    PROVE  /\ [c EXCEPT !.subcomponents = v] \in Cell /\ [c EXCEPT !.subcomponents = v].template = c.template
           /\ [c EXCEPT !.subcomponents = v].signalStart = c.signalStart
           /\ [c EXCEPT !.subcomponents = v].inputCounter = c.inputCounter
           /\ [c EXCEPT !.subcomponents = v].subcomponents = v
  BY DEF Cell

\* CreatedGrows: what the loop that creates sub-components does to the memory.
LEMMA CreatedGrows ==
    ASSUME NEW cs, Memory(cs), NEW p \in DOMAIN cs, NEW t, t = cs[p].template,
           NEW at \in 1..Len(Templates[t].run), NEW s, s = Templates[t].run[at], s.op = "create",
           Len(cs[p].subcomponents) = Made(t, at)
    PROVE  Grown(cs, [Overlay(NewComponents(cs, p, s), cs) EXCEPT ![p].subcomponents =
                         SubSeq(@, 1, s.first - 1) \o NewList(p, s)],
                 p, t, Made(t, at), Made(t, at + 1))
  <1> DEFINE lo == Made(t, at)
             hi == Made(t, at + 1)
             n == s.count
             Kid(k) == p + KidPlace(t, k)
             Cmp(k) == Component(KidTemplate(t, k), cs[p].signalStart + KidSignal(t, k))
             I == 0..(n - 1)
             K == (lo + 1)..hi
             New == {Kid(k) : k \in K}
             size == Templates[s.template].components
             extent == Templates[s.template].signals
             Id(i) == p + s.component + i * size
             created == NewComponents(cs, p, s)
             m == Overlay(created, cs)
             old == cs[p].subcomponents
             fresh == NewList(p, s)
  <1>1. t \in Names /\ p \in Nat /\ cs[p] \in Cell /\ cs[p].signalStart \in Nat /\ old \in Seq(Nat)
    BY CellTypes
  <1>2. /\ lo \in Nat /\ hi \in Nat /\ hi <= Kids(t) /\ n \in Nat \ {0} /\ s.first - 1 = lo /\ hi = lo + n
        /\ s.template \in Names /\ s.component \in Nat /\ s.signal \in Nat
    BY <1>1, MadeBy
  <1>3. \A i \in I : /\ KidTemplate(t, lo + 1 + i) = s.template
                     /\ KidPlace(t, lo + 1 + i) = s.component + i * size
                     /\ KidSignal(t, lo + 1 + i) = s.signal + i * extent
    BY <1>1, MadeBy, Zenon DEF Size, Extent
  <1>4. size \in Nat \ {0} /\ extent \in Nat
    BY <1>2, ProgramShape DEF Shape, Size, Extent
  <1>5. \A i \in I : i \in Nat /\ i * size \in Nat /\ i * extent \in Nat
    <2>1. \A i \in I : i \in Nat
      BY <1>2
    <2> QED BY <1>4, <2>1, Multiples
  <1>a. /\ NewPlaces(p, s) = {Id(i) : i \in I} /\ fresh = [k \in 1..n |-> Id(k - 1)]
         /\ created = [x \in NewPlaces(p, s) |->
                          Component(s.template, cs[p].signalStart + s.signal + ((x - Id(0)) \div size) * extent)]
    BY DEF NewPlaces, NewList, NewComponents
  <1> HIDE DEF lo, hi, n, size, extent
  <1>6. \A k \in K : k - (lo + 1) \in I /\ lo + 1 + (k - (lo + 1)) = k
    BY <1>2
  <1>7. \A i \in I : lo + 1 + i \in K
    BY <1>2
  <1>8. \A k \in K : k \in 1..Kids(t) /\ k \in Nat
    <2>1. Kids(t) \in Nat
      BY <1>1, KidsFollow
    <2> QED BY <1>2, <2>1
  <1>9. \A k \in K : KidPlace(t, k) \in Nat \ {0} /\ Kid(k) \in Nat /\ Kid(k) # p
    <2>1. \A k \in K : KidPlace(t, k) \in Nat \ {0}
      BY <1>1, <1>8, KidTypes
    <2> QED BY <1>1, <2>1
  <1>10. \A i \in I : Id(i) = Kid(lo + 1 + i)
    <2> SUFFICES ASSUME NEW i \in I PROVE Id(i) = Kid(lo + 1 + i)
      OBVIOUS
    <2> DEFINE a == i * size
               b == s.component
    <2>1. a \in Nat /\ b \in Nat /\ Id(i) = p + b + a /\ Kid(lo + 1 + i) = p + (b + a)
      BY <1>2, <1>3, <1>5
    <2> HIDE DEF a, b, Kid, Id
    <2> QED BY <1>1, <2>1
  <1> HIDE DEF created, fresh, m
  <1>11. {Id(i) : i \in I} = New
    <2>1. \A i \in I : Id(i) \in New
      BY <1>7, <1>10
    <2>2. \A k \in K : \E i \in I : Kid(k) = Id(i)
      <3> SUFFICES ASSUME NEW k \in K PROVE \E i \in I : Kid(k) = Id(i)
        OBVIOUS
      <3> HIDE DEF I, K, Kid, Id
      <3> QED BY <1>6, <1>10
    <2> HIDE DEF I, K, Kid, Id
    <2> QED BY <2>1, <2>2
  <1>12. ASSUME NEW i \in I PROVE (Id(i) - Id(0)) \div size = i
    <2> DEFINE a == i * size
               b == s.component
    <2>1. a \in Nat /\ b \in Nat /\ i \in Nat /\ 0 * size = 0
      BY <1>2, <1>4, <1>5
    <2>2. Id(i) = p + b + a /\ Id(0) = p + b + 0 * size
      OBVIOUS
    <2> HIDE DEF b, Id
    <2>3. Id(i) - Id(0) = a
      <3>1. Id(0) = p + b + 0
        BY <2>1, <2>2
      <3> HIDE DEF a
      <3> QED BY <1>1, <2>1, <2>2, <3>1
    <2>4. a = i * size + 0 /\ 0 \in 0..(size - 1)
      BY <1>4, <2>1
    <2>5. (i * size + 0) \div size = i
      BY <1>4, <2>1, <2>4, DivisionParts
    <2> QED BY <2>3, <2>4, <2>5
  <1> HIDE DEF Id
  <1>13. NewPlaces(p, s) = New /\ DOMAIN created = New
    BY <1>a, <1>11
  <1>14. ASSUME NEW k \in K PROVE created[Kid(k)] = Cmp(k)
    <2> DEFINE i == k - (lo + 1)
    <2>1. i \in I /\ lo + 1 + i = k
      BY <1>6
    <2> HIDE DEF i
    <2>2. Kid(k) = Id(i) /\ KidTemplate(t, k) = s.template /\ KidSignal(t, k) = s.signal + i * extent
      BY <1>3, <1>10, <2>1
    <2>3. created[Id(i)] = Component(s.template, cs[p].signalStart + s.signal + ((Id(i) - Id(0)) \div size) * extent)
      <3>1. Id(i) \in NewPlaces(p, s)
        BY <1>a, <2>1
      <3> QED BY <1>a, <3>1
    <2>4. created[Id(i)] = Component(s.template, cs[p].signalStart + s.signal + i * extent)
      BY <1>12, <2>1, <2>3
    <2>5. cs[p].signalStart + s.signal + i * extent = cs[p].signalStart + (s.signal + i * extent)
      <3> DEFINE a == i * extent
                 b == s.signal
                 c == cs[p].signalStart
      <3>1. a \in Nat /\ b \in Nat /\ c \in Nat
        BY <1>1, <1>2, <1>5, <2>1
      <3> HIDE DEF a, b, c
      <3>2. c + b + a = c + (b + a)
        BY <3>1
      <3> QED BY <3>2 DEF a, b, c
    <2> QED BY <2>2, <2>4, <2>5
  <1>15. /\ DOMAIN m = New \cup DOMAIN cs /\ m = [x \in DOMAIN m |-> m[x]]
         /\ \A x \in New : m[x] = created[x]
         /\ \A x \in DOMAIN cs : x \notin New => m[x] = cs[x]
    <2> HIDE DEF New
    <2>1. m = [x \in New \cup DOMAIN cs |-> IF x \in New THEN created[x] ELSE cs[x]]
      BY <1>13 DEF Overlay, m
    <2> QED BY <2>1
  <1>16. p \notin New /\ m[p] = cs[p] /\ p \in DOMAIN m
    <2>1. p \notin New
      BY <1>9
    <2> HIDE DEF New
    <2> QED BY <1>15, <2>1
  \* The list of sub-components.
  <1> DEFINE q == SubSeq(old, 1, lo) \o fresh
  <1>17. /\ q \in Seq(Nat) /\ Len(q) = hi /\ (\A k \in 1..lo : q[k] = old[k]) /\ \A k \in K : q[k] = Kid(k)
    <2>1. Len(old) = lo
      BY DEF lo
    <2>2. fresh \in Seq(Nat) /\ Len(fresh) = n /\ \A k \in 1..n : fresh[k] = Kid(lo + k)
      <3>1. \A k \in 1..n : k - 1 \in I /\ lo + 1 + (k - 1) = lo + k /\ lo + k \in K
        BY <1>2
      <3> HIDE DEF I, K, Kid
      <3>2. \A k \in 1..n : Id(k - 1) = Kid(lo + k) /\ Kid(lo + k) \in Nat
        BY <1>9, <1>10, <3>1
      <3>3. fresh \in [1..n -> Nat] /\ \A k \in 1..n : fresh[k] = Kid(lo + k)
        BY <1>a, <3>2
      <3>4. fresh \in Seq(Nat)
        BY <1>2, <3>3
      <3>5. DOMAIN fresh = 1..n
        BY <3>3
      <3> QED BY <1>2, <3>3, <3>4, <3>5
    <2> HIDE DEF old, Kid
    <2>3. /\ SubSeq(old, 1, lo) \o fresh \in Seq(Nat) /\ Len(SubSeq(old, 1, lo) \o fresh) = lo + n
          /\ \A k \in 1..lo : (SubSeq(old, 1, lo) \o fresh)[k] = old[k]
          /\ \A k \in (lo + 1)..(lo + n) : (SubSeq(old, 1, lo) \o fresh)[k] = fresh[k - lo]
      BY <1>1, <2>1, <2>2, ListGrows DEF old
    <2> HIDE DEF q
    <2>4. q \in Seq(Nat) /\ Len(q) = lo + n /\ (\A k \in 1..lo : q[k] = old[k]) /\ \A k \in (lo + 1)..(lo + n) : q[k] = fresh[k - lo]
      BY <2>3 DEF q
    <2>5. \A k \in K : k \in (lo + 1)..(lo + n) /\ k - lo \in 1..n /\ lo + (k - lo) = k
      BY <1>2
    <2>6. \A k \in K : q[k] = Kid(k)
      <3> SUFFICES ASSUME NEW k \in K PROVE q[k] = Kid(k)
        OBVIOUS
      <3>1. q[k] = fresh[k - lo]
        BY <2>4, <2>5, Zenon
      <3>2. fresh[k - lo] = Kid(lo + (k - lo))
        BY <2>2, <2>5, Zenon
      <3>3. lo + (k - lo) = k
        BY <2>5
      <3> QED BY <3>1, <3>2, <3>3, Zenon
    <2> QED BY <1>2, <2>4, <2>6
  <1> DEFINE r == [cs[p] EXCEPT !.subcomponents = q]
             ds == [m EXCEPT ![p] = r]
             es == [m EXCEPT ![p].subcomponents = SubSeq(@, 1, s.first - 1) \o fresh]
  <1>18. es = ds
    <2>1. es = [m EXCEPT ![p] = [m[p] EXCEPT !.subcomponents =
                    SubSeq(m[p].subcomponents, 1, s.first - 1) \o fresh]]
      OBVIOUS
    <2> QED BY <1>2, <1>16, <2>1
  <1> HIDE DEF q
  <1>19. /\ r \in Cell /\ r.template = cs[p].template /\ r.signalStart = cs[p].signalStart
         /\ r.inputCounter = cs[p].inputCounter /\ r.subcomponents = q
    BY <1>1, <1>17, CellWith
  <1> HIDE DEF r, es
  <1>20. /\ DOMAIN ds = DOMAIN m /\ ds = [x \in DOMAIN ds |-> ds[x]] /\ ds[p] = r
         /\ \A x \in DOMAIN m : x # p => ds[x] = m[x]
    <2> HIDE DEF New
    <2> QED BY <1>16
  <1> HIDE DEF ds, New, Kid, Cmp
  <1>21. \A k \in K : Kid(k) # p => ds[Kid(k)] = Cmp(k)
    <2>1. \A k \in K : Kid(k) \in New
      BY DEF New
    <2> QED BY <1>14, <1>15, <1>20, <2>1
  <1>22. DOMAIN ds = DOMAIN cs \cup New /\ \A x \in DOMAIN cs : x # p /\ x \notin New => ds[x] = cs[x]
    BY <1>15, <1>20
  <1>23. Grown(cs, ds, p, t, lo, hi)
    BY <1>17, <1>19, <1>20, <1>21, <1>22, Zenon DEF Grown, New, Kid, Cmp
  <1> QED BY <1>18, <1>23, Zenon DEF es, m, created, fresh, lo, hi

(***************************************************************************)
(* The invariant, action by action.                                        *)
(***************************************************************************)
\* StartedMemory: the memory and the calls when the circuit is started.
LEMMA StartedMemory ==
    LET cs == Single(0, Component("Transaction", MainStart)) IN
    Memory(cs) /\ Calls(cs, <<[component |-> 0, at |-> 1]>>)
  <1> DEFINE c == Component("Transaction", MainStart)
             cs == Single(0, c)
             f == [component |-> 0, at |-> 1]
             st == <<f>>
  <1>1. "Transaction" \in Names
    BY DEF Names
  <1> DEFINE tt == "Transaction"
  <1>2. /\ Templates[tt].inputs \in Nat /\ Len(Templates[tt].run) \in Nat /\ Kids(tt) \in Nat
        /\ Blocks(tt) \in Nat /\ PerBlock(tt) \in Nat
    BY <1>1, ProgramShape, KidsFollow DEF Shape, Blocks
  <1> HIDE DEF tt
  <1>3. /\ c = [template |-> tt, signalStart |-> 1, inputCounter |-> Templates[tt].inputs, subcomponents |-> << >>]
        /\ tt \in Names
    BY <1>1 DEF Component, MainStart, tt
  <1> HIDE DEF c
  <1>4. c \in Cell /\ c.template = tt /\ c.subcomponents = << >> /\ Len(c.subcomponents) = 0
    BY <1>2, <1>3 DEF Cell
  <1>5. DOMAIN cs = {0} /\ cs[0] = c /\ cs \in [{0} -> Cell]
    BY <1>4 DEF Single
  <1> HIDE DEF cs
  <1>6. Laid(cs, 0)
    BY <1>2, <1>4, <1>5 DEF Laid
  <1>7. Memory(cs)
    BY <1>5, <1>6 DEF Memory
  <1>8. f \in [component : Nat, at : Nat] /\ f.component = 0 /\ f.at = 1
    OBVIOUS
  <1> HIDE DEF f
  <1>9. st \in Seq([component : Nat, at : Nat]) /\ Len(st) = 1 /\ st[1] = f
    BY <1>8
  <1> HIDE DEF st
  <1>10. Frame(cs, f)
    <2>1. Tidy(cs, 0)
      <3>1. \A x \in DOMAIN cs : ~Inside(cs, 0, x)
        BY <1>5 DEF Inside
      <3> QED BY <3>1 DEF Tidy
    <2>2. Made(tt, 1) = 0
      BY <1>2 DEF Made
    <2>3. 1 \in 1..(Len(Templates[tt].run) + 1)
      BY <1>2
    <2> QED BY <1>4, <1>5, <1>8, <2>1, <2>2, <2>3 DEF Frame
  <1>11. \A i \in 1..Len(st) : i = 1
    BY <1>9
  <1>12. Calls(cs, st)
    BY <1>9, <1>10, <1>11 DEF Calls
  <1> QED BY <1>7, <1>12 DEF cs, st, c, f

\* MemoryInit: nothing has been created when the process starts.
LEMMA MemoryInit == Init => MemoryInv
  <1> SUFFICES ASSUME Init PROVE MemoryInv
    OBVIOUS
  <1>1. components = << >> /\ stack = << >>
    BY DEF Init
  <1>2. DOMAIN components = {} /\ components \in [{} -> Cell]
    BY <1>1
  <1>3. Memory(components)
    BY <1>2 DEF Memory
  <1>4. stack \in Seq([component : Nat, at : Nat]) /\ Len(stack) = 0
    BY <1>1
  <1>5. Calls(components, stack)
    BY <1>4 DEF Calls
  <1> QED BY <1>3, <1>5 DEF MemoryInv

\* CallTypes: the call under way.
LEMMA CallTypes ==
    ASSUME MemoryInv, stack # << >>
    PROVE  /\ stack \in Seq([component : Nat, at : Nat]) /\ Len(stack) \in Nat \ {0}
           /\ Frame(components, top) /\ top.component \in DOMAIN components /\ top.component \in Nat
           /\ cmp.template \in Names /\ top.at \in Nat \ {0}
           /\ Len(Templates[cmp.template].run) \in Nat
           /\ Len(cmp.subcomponents) = Made(cmp.template, top.at)
           /\ DOMAIN cmp.subcomponents = 1..Len(cmp.subcomponents)
           /\ Laid(components, top.component)
           /\ top.at <= Len(Templates[cmp.template].run) => top.at \in 1..Len(Templates[cmp.template].run)
  <1>1. /\ stack \in Seq([component : Nat, at : Nat]) /\ Len(stack) \in Nat \ {0} /\ 1 \in 1..Len(stack)
        /\ Frame(components, top)
    BY DEF MemoryInv, Calls, top
  <1>2. top.component \in DOMAIN components /\ Memory(components)
        /\ Len(cmp.subcomponents) = Made(cmp.template, top.at)
        /\ top.at \in 1..(Len(Templates[cmp.template].run) + 1)
    BY <1>1 DEF Frame, MemoryInv, cmp
  <1>3. /\ cmp.template \in Names /\ top.component \in Nat /\ Len(Templates[cmp.template].run) \in Nat
        /\ cmp.subcomponents \in Seq(Nat)
    BY <1>2, CellTypes DEF cmp
  <1>4. Laid(components, top.component) /\ DOMAIN cmp.subcomponents = 1..Len(cmp.subcomponents)
    BY <1>2, <1>3 DEF Memory
  <1> DEFINE n == Len(Templates[cmp.template].run)
             at == top.at
  <1>5. at \in 1..(n + 1) /\ n \in Nat
    BY <1>2, <1>3
  <1> HIDE DEF n, at
  <1>6. at \in Nat \ {0} /\ (at <= n => at \in 1..n)
    BY <1>5
  <1> QED BY <1>1, <1>2, <1>3, <1>4, <1>6 DEF n, at

\* LoadKeepsMemory: loading creates nothing but the main component.
LEMMA LoadKeepsMemory == MemoryInv /\ LoadStep => MemoryInv'
  <1> SUFFICES ASSUME MemoryInv, LoadStep PROVE MemoryInv'
    OBVIOUS
  <1>1. UNCHANGED <<components, stack>> \/ Run
    BY DEF LoadStep, LoadKey, SetInputSignal, TryRunCircuit, WriteWitness, Abort, runVars
  <1>2. CASE UNCHANGED <<components, stack>>
    BY <1>2 DEF MemoryInv
  <1>3. CASE Run
    BY <1>3, StartedMemory DEF Run, MemoryInv
  <1> QED BY <1>1, <1>2, <1>3

\* CreateKeepsMemory: the loop that creates sub-components.
LEMMA CreateKeepsMemory == MemoryInv /\ CreateSubcomponents => MemoryInv'
  <1> SUFFICES ASSUME MemoryInv, CreateSubcomponents PROVE MemoryInv'
    OBVIOUS
  <1> DEFINE p == top.component
             t == cmp.template
             s == statement
             at == top.at
  <1>1. stack # << >> /\ at <= Len(Templates[t].run) /\ s.op = "create"
    BY Zenon DEF CreateSubcomponents, Running
  <1>2. /\ p \in DOMAIN components /\ t \in Names /\ at \in 1..Len(Templates[t].run) /\ Memory(components)
        /\ Calls(components, stack) /\ Len(components[p].subcomponents) = Made(t, at)
        /\ stack \in Seq([component : Nat, at : Nat])
    BY <1>1, CallTypes DEF MemoryInv, cmp
  <1>3. /\ components' = [Overlay(NewComponents(components, p, s), components) EXCEPT ![p].subcomponents =
                             SubSeq(@, 1, s.first - 1) \o NewList(p, s)]
        /\ stack' = [stack EXCEPT ![1].at = @ + 1]
    BY Zenon DEF CreateSubcomponents, NewComponents, NewPlaces, NewList, Advanced, cmp
  <1>4. s = Templates[t].run[at] /\ t = components[p].template /\ p = stack[1].component /\ at = stack[1].at
    BY DEF statement, cmp, top
  <1> HIDE DEF s
  <1>5. Grown(components, components', p, t, Made(t, at), Made(t, at + 1))
    BY <1>1, <1>2, <1>3, <1>4, CreatedGrows, Zenon
  <1>6. Moved(stack, stack')
    BY <1>1, <1>2, <1>3, AdvancedMoves
  <1>7. Made(t, at) \in Nat /\ Made(t, at + 1) \in Nat /\ Made(t, at) <= Made(t, at + 1) /\ Made(t, at + 1) <= Kids(t)
    <2>1. /\ Made(t, at) \in Nat /\ Made(t, at + 1) \in Nat /\ Made(t, at + 1) <= Kids(t)
          /\ s.count \in Nat /\ Made(t, at + 1) = Made(t, at) + s.count
      BY <1>1, <1>2, <1>4, MadeBy
    <2> QED BY <2>1
  <1> HIDE DEF p, t, at
  <1>8. Memory(components') /\ Calls(components', stack')
    <2>1. Creating(components, stack, p, t, Made(t, at), Made(t, at + 1))
      BY <1>1, <1>4, <1>7 DEF Creating
    <2> QED BY <1>2, <1>5, <1>6, <1>7, <2>1, CreateKeeps
  <1> QED BY <1>8 DEF MemoryInv

\* SetKeepsMemory: setting an input, and the call of what then has all of them.
LEMMA SetKeepsMemory == MemoryInv /\ SetSubcomponentInput => MemoryInv'
  <1> SUFFICES ASSUME MemoryInv, SetSubcomponentInput PROVE MemoryInv'
    OBVIOUS
  <1> DEFINE p == top.component
             t == cmp.template
             s == statement
             at == top.at
             id == cmp.subcomponents[s.sub]
             left == components[id].inputCounter - 1
             ut == [stack EXCEPT ![1].at = @ + 1]
  <1>1. stack # << >> /\ at <= Len(Templates[t].run) /\ s.op = "set"
    BY DEF SetSubcomponentInput, Running
  <1>2. /\ p \in DOMAIN components /\ p \in Nat /\ t \in Names /\ at \in 1..Len(Templates[t].run)
        /\ Memory(components) /\ Laid(components, p)
        /\ Calls(components, stack) /\ Len(components[p].subcomponents) = Made(t, at)
        /\ stack \in Seq([component : Nat, at : Nat])
    BY <1>1, CallTypes DEF MemoryInv, cmp
  <1>3. /\ components' = [components EXCEPT ![id].inputCounter = components[id].inputCounter - 1]
        /\ stack' = ut \/ (left = 0 /\ stack' = <<[component |-> id, at |-> 1]>> \o ut)
    BY Zenon DEF SetSubcomponentInput, Advanced
  <1>4. s = Templates[t].run[at] /\ t = components[p].template /\ p = stack[1].component /\ at = stack[1].at
    BY DEF statement, cmp, top
  <1> HIDE DEF s
  <1>5. s.sub \in 1..Len(components[p].subcomponents) /\ Made(t, at + 1) = Made(t, at)
    BY <1>1, <1>2, <1>4, MadeBy, Zenon
  <1>6. id = p + KidPlace(t, s.sub) /\ id \in DOMAIN components /\ s.sub \in 1..Kids(t)
        /\ components[id].template = KidTemplate(t, s.sub)
    <2>1. Kids(t) \in Nat /\ Len(components[p].subcomponents) <= Kids(t) /\ Len(components[p].subcomponents) \in Nat
      BY <1>2, <1>4, KidsFollow, CellTypes DEF Laid
    <2>2. s.sub \in 1..Kids(t)
      BY <1>5, <2>1
    <2> QED BY <1>2, <1>4, <1>5, <2>2, Zenon DEF Laid, cmp
  <1>7. id \in Nat \ {0} /\ Inside(components, p, id)
    <2> DEFINE k == KidPlace(t, s.sub)
               z == Size(KidTemplate(t, s.sub))
               n == Size(t)
    <2>1. k \in Nat \ {0} /\ z \in Nat \ {0} /\ k + z <= n /\ n \in Nat
      BY <1>2, <1>6, KidTypes, KidWithin, ProgramShape DEF Shape
    <2> HIDE DEF k, z, n
    <2>2. p + k \in Nat \ {0} /\ p < p + k /\ p + k < p + n
      BY <1>2, <2>1
    <2> QED BY <1>4, <1>6, <2>2, Zenon DEF Inside, k, n
  <1> DEFINE ds == components'
  <1>8. /\ Kept(components, ds) /\ ds[id].inputCounter = left
        /\ \A x \in DOMAIN components : ds[x].subcomponents = components[x].subcomponents
    BY <1>2, <1>3, <1>6, CountedDown
  <1>9. Moved(stack, ut)
    BY <1>1, <1>2, AdvancedMoves, Zenon
  <1> HIDE DEF p, t, at, ut, id
  <1>10. Memory(ds) /\ Calls(ds, ut)
    BY <1>1, <1>2, <1>4, <1>5, <1>8, <1>9, MoveKeeps
  <1>11. CASE stack' = ut
    BY <1>10, <1>11, Zenon DEF MemoryInv
  <1>12. CASE left = 0 /\ stack' = <<[component |-> id, at |-> 1]>> \o ut
    <2>1. ut \in Seq([component : Nat, at : Nat]) /\ ut # << >> /\ ut[1].component = p
      <3>1. ut \in Seq([component : Nat, at : Nat]) /\ Len(ut) = Len(stack) /\ ut[1].component = p
        BY <1>4, <1>9 DEF Moved
      <3>2. Len(stack) # 0
        BY <1>1, <1>2
      <3> QED BY <3>1, <3>2
    <2>2. id \in DOMAIN ds /\ Inside(ds, p, id)
      BY <1>2, <1>6, <1>7, <1>8, KeptInside DEF Kept
    <2>3. components[id].inputCounter \in Int
      BY <1>2, <1>6, CellTypes
    <2>4. components[id].inputCounter > 0 /\ ds[id].inputCounter <= 0
      BY <1>8, <1>12, <2>3
    <2>5. Untouched(components, id)
      BY <1>2, <1>6, <1>7, <2>4 DEF Memory
    <2>6. Untouched(ds, id)
      <3>1. DOMAIN ds = DOMAIN components /\ ds[id].subcomponents = << >>
        BY <1>6, <1>8, <2>5 DEF Kept, Untouched
      <3> QED BY <1>6, <1>8, <2>5, <3>1, KeptInside DEF Untouched
    <2>7. Pushed(ut, stack', id)
      BY <1>7, <1>12, <2>1, PushedFirst
    <2>8. Calls(ds, stack')
      BY <1>10, <2>1, <2>2, <2>4, <2>6, <2>7, CallKeeps
    <2> QED BY <1>10, <2>8 DEF MemoryInv
  <1> QED BY <1>3, <1>11, <1>12

\* MoveKeepsMemory: the statements that neither create nor set an input.
LEMMA MoveKeepsMemory == MemoryInv /\ (CopySignal \/ AddToSum \/ CheckEqual \/ CheckSums) => MemoryInv'
  <1> SUFFICES ASSUME MemoryInv, CopySignal \/ AddToSum \/ CheckEqual \/ CheckSums PROVE MemoryInv'
    OBVIOUS
  <1> DEFINE p == top.component
             t == cmp.template
             s == statement
             at == top.at
  <1>1. CASE UNCHANGED <<components, stack>>
    BY <1>1 DEF MemoryInv
  <1>2. CASE components' = components /\ stack' = [stack EXCEPT ![1].at = @ + 1]
    <2>1. stack # << >> /\ at <= Len(Templates[t].run) /\ s.op # "create"
      BY DEF CopySignal, AddToSum, CheckEqual, CheckSums, Running
    <2>2. /\ p \in DOMAIN components /\ t \in Names /\ at \in 1..Len(Templates[t].run)
          /\ Memory(components) /\ Calls(components, stack) /\ stack \in Seq([component : Nat, at : Nat])
      BY <2>1, CallTypes DEF MemoryInv
    <2>3. s = Templates[t].run[at] /\ t = components[p].template /\ p = stack[1].component /\ at = stack[1].at
      BY Zenon DEF statement, cmp, top
    <2>4. Made(t, at + 1) = Made(t, at)
      BY <2>1, <2>2, <2>3, MadeBy, Zenon
    <2>5. Moved(stack, stack')
      BY <1>2, <2>1, <2>2, AdvancedMoves
    <2>6. Kept(components, components)
      <3>1. \A x \in DOMAIN components : components[x].inputCounter \in Int
        BY <2>2, CellTypes
      <3>2. \A x \in DOMAIN components : components[x].inputCounter <= components[x].inputCounter
        BY <3>1
      <3> QED BY <2>2, <3>2 DEF Kept, Memory
    <2> HIDE DEF p, t, at, s
    <2>7. Memory(components) /\ Calls(components, stack')
      BY <2>1, <2>2, <2>3, <2>4, <2>5, <2>6, MoveKeeps
    <2> QED BY <1>2, <2>7 DEF MemoryInv
  <1>3. UNCHANGED <<components, stack>> \/ (components' = components /\ stack' = [stack EXCEPT ![1].at = @ + 1])
    BY DEF CopySignal, AddToSum, CheckEqual, CheckSums, Continue, Advanced, Abort, runVars
  <1> QED BY <1>1, <1>2, <1>3

\* ReturnKeepsMemory: the end of a run.
LEMMA ReturnKeepsMemory == MemoryInv /\ Return => MemoryInv'
  <1> SUFFICES ASSUME MemoryInv, Return PROVE MemoryInv'
    OBVIOUS
  <1> DEFINE p == top.component
             t == cmp.template
             subs == {cmp.subcomponents[k] : k \in DOMAIN cmp.subcomponents}
             ds == [id \in DOMAIN components |->
                       IF id \in subs THEN [components[id] EXCEPT !.subcomponents = << >>] ELSE components[id]]
  <1>1. CASE UNCHANGED <<components, stack>>
    BY <1>1 DEF MemoryInv
  <1>2. CASE components' = ds /\ stack' = Tail(stack)
    <2>1. stack # << >>
      BY DEF Return
    <2>2. /\ p \in DOMAIN components /\ p \in Nat /\ t \in Names /\ Memory(components)
          /\ Laid(components, p) /\ Calls(components, stack) /\ stack \in Seq([component : Nat, at : Nat])
          /\ DOMAIN cmp.subcomponents = 1..Len(cmp.subcomponents) /\ Len(cmp.subcomponents) \in Nat
      BY <2>1, CallTypes, CellTypes DEF MemoryInv, cmp
    <2>3. \A k \in DOMAIN cmp.subcomponents : cmp.subcomponents[k] = p + KidPlace(t, k) /\ k \in 1..Kids(t)
      <3>1. Kids(t) \in Nat /\ Len(cmp.subcomponents) <= Kids(t)
        BY <2>2, KidsFollow DEF Laid, cmp
      <3>2. \A k \in DOMAIN cmp.subcomponents : k \in 1..Kids(t)
        BY <2>2, <3>1
      <3> QED BY <2>2, <3>2 DEF Laid, cmp
    <2>4. ASSUME NEW x \in subs PROVE ~ (x <= p)
      <3>1. PICK k \in DOMAIN cmp.subcomponents : x = cmp.subcomponents[k]
        OBVIOUS
      <3>2. x = p + KidPlace(t, k) /\ KidPlace(t, k) \in Nat \ {0}
        BY <2>2, <2>3, <3>1, KidTypes
      <3> QED BY <2>2, <3>2
    <2> HIDE DEF subs
    <2>5. Kept(components, ds) /\ \A x \in DOMAIN components : x \notin subs => ds[x].subcomponents = components[x].subcomponents
      <3>1. ds = [id \in DOMAIN components |->
                     IF id \in subs THEN [components[id] EXCEPT !.subcomponents = << >>] ELSE components[id]]
        OBVIOUS
      <3> HIDE DEF ds
      <3> QED BY <2>2, <3>1, Released, Zenon
    <2>6. Popped(stack, stack')
      BY <1>2, <2>1, <2>2, TailPops
    <2>7. \A x \in DOMAIN components : x <= stack[1].component => ds[x].subcomponents = components[x].subcomponents
      BY <2>4, <2>5 DEF top
    <2> HIDE DEF ds
    <2>8. Memory(ds) /\ Calls(ds, stack')
      BY <2>1, <2>2, <2>5, <2>6, <2>7, ReturnKeeps
    <2> QED BY <1>2, <2>8 DEF MemoryInv
  <1>3. UNCHANGED <<components, stack>> \/ (components' = ds /\ stack' = Tail(stack))
    BY DEF Return, Abort, runVars
  <1> QED BY <1>1, <1>2, <1>3

\* MemoryInvAlways: MemoryInv is an invariant of the calculator.
THEOREM MemoryInvAlways == Spec => []MemoryInv
  <1>1. MemoryInv /\ [Next]_vars => MemoryInv'
    <2>1. MemoryInv /\ UNCHANGED vars => MemoryInv'
      BY DEF MemoryInv, vars, runVars
    <2>2. MemoryInv /\ Next => MemoryInv'
      BY <2>1, LoadKeepsMemory, CreateKeepsMemory, SetKeepsMemory, MoveKeepsMemory, ReturnKeepsMemory
      DEF Next, Step, Answered
    <2> QED BY <2>1, <2>2
  <1> QED BY <1>1, MemoryInit, PTL DEF Spec

\* RegionsAlwaysTile: for every number of slots and levels, the sub-components of a
\* component take up consecutive signals and places, after its own and within its
\* region: no two components share a signal or a place.
THEOREM RegionsAlwaysTile == Spec => []RegionsTile
  <1>1. MemoryInv => RegionsTile
    <2> SUFFICES ASSUME MemoryInv, NEW id \in DOMAIN components, components[id].subcomponents # << >>
                 PROVE  LET c == components[id]
                            t == Templates[c.template]
                            subs == c.subcomponents
                            T(k) == Templates[components[subs[k]].template]
                            S(k) == components[subs[k]].signalStart
                        IN  /\ subs[1] = id + 1 /\ S(1) = c.signalStart + t.own
                            /\ \A k \in 1..(Len(subs) - 1) :
                                  subs[k + 1] = subs[k] + T(k).components /\ S(k + 1) = S(k) + T(k).signals
                            /\ subs[Len(subs)] + T(Len(subs)).components <= id + t.components
                            /\ S(Len(subs)) + T(Len(subs)).signals <= c.signalStart + t.signals
      BY DEF RegionsTile
    <2> DEFINE c == components[id]
               t == c.template
               b == c.signalStart
               subs == c.subcomponents
               n == Len(subs)
               P(k) == KidPlace(t, k)
               X(k) == KidSignal(t, k)
               z(k) == Size(KidTemplate(t, k))
               e(k) == Extent(KidTemplate(t, k))
               T(k) == Templates[components[subs[k]].template]
               S(k) == components[subs[k]].signalStart
    <2>1. /\ Memory(components) /\ Laid(components, id) /\ id \in Nat /\ t \in Names /\ b \in Nat /\ subs \in Seq(Nat)
      BY CellTypes DEF MemoryInv, Memory
    <2>2. n \in Nat \ {0} /\ n <= Kids(t) /\ Kids(t) \in Nat
      BY <2>1, KidsFollow DEF Laid
    <2>3. \A k \in 1..n : /\ subs[k] = id + P(k) /\ S(k) = b + X(k)
                          /\ T(k).components = z(k) /\ T(k).signals = e(k)
      BY <2>1 DEF Laid, Size, Extent
    <2>4. \A k \in 1..n : k \in 1..Kids(t)
      BY <2>2
    <2>5. \A k \in 1..n : P(k) \in Nat /\ X(k) \in Nat /\ z(k) \in Nat /\ e(k) \in Nat
      BY <2>1, <2>4, KidTypes
    <2>6. \A k \in 1..(n - 1) : k \in 1..(Kids(t) - 1) /\ k \in 1..n /\ k + 1 \in 1..n
      BY <2>2
    <2>7. \A k \in 1..(n - 1) : P(k + 1) = P(k) + z(k) /\ X(k + 1) = X(k) + e(k)
      BY <2>1, <2>6, KidsFollow
    <2>8. P(1) = 1 /\ X(1) = Templates[t].own
      <3>1. Kids(t) # 0 BY <2>2
      <3> QED BY <2>1, <3>1, KidsFollow
    <2>9. n \in 1..n /\ 1 \in 1..n
      BY <2>2
    <2>10. P(n) + z(n) <= Size(t) /\ X(n) + e(n) <= Extent(t) /\ Size(t) \in Nat /\ Extent(t) \in Nat
      BY <2>1, <2>4, <2>9, KidWithin, ProgramShape DEF Shape
    <2> HIDE DEF n, t, b, subs, P, X, z, e, T, S
    <2>11. subs[1] = id + 1 /\ S(1) = b + Templates[t].own
      BY <2>3, <2>8, <2>9
    <2>12. \A k \in 1..(n - 1) : subs[k + 1] = subs[k] + T(k).components /\ S(k + 1) = S(k) + T(k).signals
      <3> SUFFICES ASSUME NEW k \in 1..(n - 1)
                   PROVE  subs[k + 1] = subs[k] + T(k).components /\ S(k + 1) = S(k) + T(k).signals
        OBVIOUS
      <3> DEFINE Pk == P(k)
                 zk == z(k)
                 Xk == X(k)
                 ek == e(k)
      <3>1. Pk \in Nat /\ zk \in Nat /\ Xk \in Nat /\ ek \in Nat
        BY <2>5, <2>6
      <3>2. /\ subs[k + 1] = id + (Pk + zk) /\ subs[k] = id + Pk /\ T(k).components = zk
            /\ S(k + 1) = b + (Xk + ek) /\ S(k) = b + Xk /\ T(k).signals = ek
        BY <2>3, <2>6, <2>7
      <3> HIDE DEF Pk, zk, Xk, ek
      <3>3. id + (Pk + zk) = (id + Pk) + zk /\ b + (Xk + ek) = (b + Xk) + ek
        BY <2>1, <3>1
      <3> QED BY <3>2, <3>3
    <2>13. subs[n] + T(n).components <= id + Size(t) /\ S(n) + T(n).signals <= b + Extent(t)
      <3> DEFINE Pn == P(n)
                 zn == z(n)
                 Xn == X(n)
                 en == e(n)
                 zt == Size(t)
                 et == Extent(t)
      <3>1. Pn \in Nat /\ zn \in Nat /\ Xn \in Nat /\ en \in Nat /\ zt \in Nat /\ et \in Nat
            /\ Pn + zn <= zt /\ Xn + en <= et
        BY <2>5, <2>9, <2>10
      <3>2. subs[n] = id + Pn /\ T(n).components = zn /\ S(n) = b + Xn /\ T(n).signals = en
        BY <2>3, <2>9
      <3> HIDE DEF Pn, zn, Xn, en, zt, et
      <3>3. (id + Pn) + zn <= id + zt /\ (b + Xn) + en <= b + et
        BY <2>1, <3>1
      <3> QED BY <3>2, <3>3 DEF zt, et
    <2> QED BY <2>11, <2>12, <2>13, Zenon DEF n, t, b, subs, T, S, Size, Extent
  <1> QED BY <1>1, MemoryInvAlways, PTL

(***************************************************************************)
(* The signals.  A component owns a range of them: its inputs, which the   *)
(* component that created it gives their values, and the signals its own   *)
(* program writes.  What follows says when each of them has a value.       *)
(***************************************************************************)
\* The inputs, the own signals and the other own signals of a template, by offset.
Inputs(t) == Templates[t].firstInput..(Templates[t].firstInput + Templates[t].inputs - 1)
Own(t) == 0..(Templates[t].own - 1)
Outs(t) == Own(t) \ Inputs(t)

\* The templates whose programs are run statement by statement.
Runners == {"Poseidon2", "Poseidon3", "MerkleProof", "Transaction"}

\* The statements of a transaction for one of its notes: its hashes and its path.
Pass == 9 + 2 * Levels

\* The statement of t that gives input o of its k-th component its value.
GivenAt(t, k, o) ==
    IF t \in {"Poseidon2", "Poseidon3"} THEN IF o = Templates[t].inputs + 1 THEN 2 ELSE o + 2
    ELSE IF t = "MerkleProof" THEN IF k <= Levels THEN 8 * (k - 1) + 8 + o ELSE 8 * (k - Levels - 1) + 2 + o
    ELSE IF k <= Slots THEN 4 + (k - 1) * Pass + o
    ELSE IF k <= 2 * Slots THEN 4 + (k - Slots - 1) * Pass + 3 + o
    ELSE IF k <= 3 * Slots
    THEN 4 + (k - 2 * Slots - 1) * Pass
         + (IF o = 1 THEN 7 ELSE IF o <= Levels + 1 THEN 8 + 2 * (o - 2) ELSE 9 + 2 * (o - 2 - Levels))
    ELSE 4 + Slots * Pass + 5 * (k - 3 * Slots - 1) + o

\* The statement of t that writes its own signal o, one that is no input.
CopiedAt(t, o) ==
    IF t \in {"Poseidon2", "Poseidon3"} THEN Templates[t].inputs + 3
    ELSE IF o = 0 THEN 8 * Levels + 4 ELSE 8 * (o - (2 + 2 * Levels)) + 3

\* What a statement reads.
Reads(s) == CASE s.op \in {"set", "copy", "add"} -> {s.from}
              [] s.op = "assert" -> {s.left, s.right}
              [] OTHER -> {}

\* r has its value when t reaches its n-th statement: it is an input, was copied
\* before, or belongs to a component whose last input was given before.
Readable(t, n, r) ==
    \/ r.of = -1
    \/ r.of = 0 /\ r.at \in Own(t) /\ (r.at \in Inputs(t) \/ CopiedAt(t, r.at) < n)
    \/ /\ r.of \in 1..Kids(t) /\ r.at \in Own(KidTemplate(t, r.of))
       /\ \A o \in Inputs(KidTemplate(t, r.of)) : GivenAt(t, r.of, o) < n

\* The n-th statement of t writes the signal it is listed for, from readable ones.
InOrder(t, n, s) ==
    /\ s.op = "set" => s.at \in Inputs(KidTemplate(t, s.sub)) /\ GivenAt(t, s.sub, s.at) = n
    /\ s.op = "copy" => s.at \in Outs(t) /\ CopiedAt(t, s.at) = n
    /\ \A r \in Reads(s) : Readable(t, n, r)

\* The n-th statement of t gives input o of its k-th component its value.
Gives(t, n, k, o) ==
    /\ n \in 1..Len(Templates[t].run)
    /\ Templates[t].run[n].op = "set" /\ Templates[t].run[n].sub = k /\ Templates[t].run[n].at = o

\* The n-th statement of t writes its own signal o.
Copies(t, n, o) ==
    /\ n \in 1..Len(Templates[t].run)
    /\ Templates[t].run[n].op = "copy" /\ Templates[t].run[n].at = o

\* The program of t writes every signal it has to, each once, and reads none early.
Ordered(t) ==
    /\ \A n \in 1..Len(Templates[t].run) : InOrder(t, n, Templates[t].run[n])
    /\ \A k \in 1..Kids(t) : \A o \in Inputs(KidTemplate(t, k)) : Gives(t, GivenAt(t, k, o), k, o)
    /\ \A o \in Outs(t) : Copies(t, CopiedAt(t, o), o)

\* The place of signal o of component x, and the places of its inputs.
At(cs, x, o) == cs[x].signalStart + o
InputsOf(cs, x) == {At(cs, x, o) : o \in Inputs(cs[x].template)}

\* Component y lies inside x, behind its own signals.
Within(cs, x, y) ==
    /\ At(cs, x, Templates[cs[x].template].own) <= cs[y].signalStart
    /\ y + Size(cs[y].template) <= x + Size(cs[x].template)
    /\ At(cs, y, Extent(cs[y].template)) <= At(cs, x, Extent(cs[x].template))

\* Component x ends, with all it contains, before y begins.
Before(cs, x, y) ==
    /\ x + Size(cs[x].template) <= y
    /\ At(cs, x, Extent(cs[x].template)) <= cs[y].signalStart

\* No two components share a place, unless the one contains the other.
Apart(cs) == \A x, y \in DOMAIN cs : x < y => Within(cs, x, y) \/ Before(cs, x, y)

\* Every place written is a signal of some component.
Covered(cs, D) == \A a \in D : a = 0 \/ \E x \in DOMAIN cs : \E o \in Own(cs[x].template) : a = At(cs, x, o)

\* The counter of x is the number of its inputs without a value.
Counted(cs, D, x) == cs[x].inputCounter = Cardinality(InputsOf(cs, x) \ D)

\* The program of x is on the stack.
Called(st, x) == \E i \in 1..Len(st) : st[i].component = x

\* The component whose program created x is on the stack.
KidOfCall(cs, st, x) == \E i \in 1..Len(st) : \E k \in 1..Len(cs[st[i].component].subcomponents) : cs[st[i].component].subcomponents[k] = x

\* A component that waits for inputs has written nothing; one that has run, all.
Outputs(cs, st, D, x) ==
    IF x # 0 /\ cs[x].inputCounter > 0
    THEN KidOfCall(cs, st, x) /\ \A o \in Outs(cs[x].template) : At(cs, x, o) \notin D
    ELSE ~Called(st, x) => \A o \in Outs(cs[x].template) : At(cs, x, o) \in D

\* A call has made exactly the writes its statements before the next one make.
Progress(cs, D, f) ==
    LET p == f.component
        t == cs[p].template
    IN  /\ t \in Runners
        /\ \A o \in Outs(t) : At(cs, p, o) \in D <=> CopiedAt(t, o) < f.at
        /\ \A k \in 1..Len(cs[p].subcomponents) : \A o \in Inputs(KidTemplate(t, k)) :
              At(cs, cs[p].subcomponents[k], o) \in D <=> GivenAt(t, k, o) < f.at

\* The main component is the transaction, and its inputs have their values.
Main(cs, D) == 0 \in DOMAIN cs /\ cs[0].template = "Transaction" /\ cs[0].signalStart = 1 /\ MainInputs \subseteq D

\* The signals of a circuit that has been started.
Signals(cs, st, D) ==
    /\ Main(cs, D) /\ Apart(cs) /\ Covered(cs, D)
    /\ \A x \in DOMAIN cs : (x # 0 => Counted(cs, D, x)) /\ Outputs(cs, st, D, x)
    /\ \A i \in 1..Len(st) : Progress(cs, D, st[i])

\* Before the start only inputs are written, and when the witness is, no call is left.
SignalsInv ==
    /\ IF runs = 0 THEN components = << >> /\ stack = << >> /\ DOMAIN signals = {0} \cup assigned
       ELSE Signals(components, stack, DOMAIN signals)
    /\ outcome = "written" => stack = << >>

(***************************************************************************)
(* The order of the statements: which statement of a program gives each    *)
(* input of its components, and which writes each signal of its own.       *)
(***************************************************************************)
\* The sequence s stands in r from behind the place `at`.
Stands(r, at, s) ==
    /\ at \in Nat /\ at + Len(s) <= Len(r)
    /\ \A j \in 1..Len(s) : r[at + j] = s[j]

\* The sequence q is r, and s behind it.
Appended(V, q, r, s) ==
    /\ q \in Seq(V) /\ Len(q) = Len(r) + Len(s)
    /\ Stands(q, Len(r), s) /\ Stands(q, 0, r)

\* StandsBehind: what is appended stands behind what there was, which stays where it is.
LEMMA StandsBehind ==
    ASSUME NEW V, NEW r \in Seq(V), NEW s \in Seq(V), NEW q, q = r \o s
    PROVE  Appended(V, q, r, s)
  <1>1. /\ q \in Seq(V) /\ Len(q) = Len(r) + Len(s) /\ Len(r) \in Nat /\ Len(s) \in Nat
        /\ \A i \in 1..(Len(r) + Len(s)) : q[i] = IF i <= Len(r) THEN r[i] ELSE s[i - Len(r)]
    BY ConcatProperties
  <1> DEFINE a == Len(r)
             b == Len(s)
  <1>2. /\ a \in Nat /\ b \in Nat /\ Len(q) = a + b
        /\ \A i \in 1..(a + b) : q[i] = IF i <= a THEN r[i] ELSE s[i - a]
    BY <1>1
  <1> HIDE DEF a, b
  <1>3. ASSUME NEW j \in 1..b PROVE q[a + j] = s[j]
    <2>1. a + j \in 1..(a + b) /\ ~ (a + j <= a) /\ (a + j) - a = j
      BY <1>2
    <2> QED BY <1>2, <2>1
  <1>4. ASSUME NEW j \in 1..a PROVE q[0 + j] = r[j]
    <2>1. j \in 1..(a + b) /\ j <= a /\ 0 + j = j
      BY <1>2
    <2> QED BY <1>2, <2>1
  <1>5. 0 + a <= a + b /\ a + b <= a + b /\ 0 \in Nat
    BY <1>2
  <1>6. Stands(q, a, s)
    BY <1>2, <1>3, <1>5 DEF Stands, b
  <1>7. Stands(q, 0, r)
    BY <1>2, <1>4, <1>5 DEF Stands, a
  <1> QED BY <1>1, <1>6, <1>7 DEF a, Appended

\* StandsIn: what stands in a part stands in the whole.
LEMMA StandsIn ==
    ASSUME NEW q, NEW r, NEW s, NEW a, NEW b, Stands(q, a, r), Stands(r, b, s),
           Len(q) \in Nat, Len(r) \in Nat, Len(s) \in Nat
    PROVE  Stands(q, a + b, s)
  <1> DEFINE n == Len(s)
  <1>1. /\ a \in Nat /\ b \in Nat /\ a + Len(r) <= Len(q) /\ b + n <= Len(r) /\ n \in Nat
        /\ (\A j \in 1..Len(r) : q[a + j] = r[j]) /\ \A j \in 1..n : r[b + j] = s[j]
    BY DEF Stands
  <1> HIDE DEF n
  <1>2. ASSUME NEW j \in 1..n PROVE q[(a + b) + j] = s[j]
    <2>1. b + j \in 1..Len(r) /\ (a + b) + j = a + (b + j)
      BY <1>1
    <2> QED BY <1>1, <2>1
  <1>3. a + b \in Nat /\ (a + b) + n <= Len(q)
    BY <1>1
  <1> QED BY <1>2, <1>3 DEF Stands, n

\* StandsLoop: the passes of an unrolled loop stand behind one another.
LEMMA StandsLoop ==
    ASSUME NEW n \in Nat, NEW m \in Nat \ {0}, NEW V, NEW seqs \in [1..n -> Seq(V)],
           \A i \in 1..n : Len(seqs[i]) = m
    PROVE  /\ FlattenSeq(seqs) \in Seq(V) /\ Len(FlattenSeq(seqs)) = n * m
           /\ \A i \in 1..n : Stands(FlattenSeq(seqs), (i - 1) * m, seqs[i])
  <1> DEFINE w == FlattenSeq(seqs)
  <1>1. w \in Seq(V) /\ Len(w) = n * m /\ \A i \in 1..n : \A j \in 1..m : w[(i - 1) * m + j] = seqs[i][j]
    BY FlattenUniform
  <1> HIDE DEF w
  <1>2. ASSUME NEW i \in 1..n PROVE Stands(w, (i - 1) * m, seqs[i])
    <2> DEFINE a == i - 1
    <2>1. a \in Nat /\ a + 1 = i /\ i \in Nat /\ i <= n
      OBVIOUS
    <2> HIDE DEF a
    <2>2. a * m \in Nat /\ i * m = a * m + m /\ i * m <= n * m
      BY <2>1, Multiples
    <2>3. \A j \in 1..m : w[a * m + j] = seqs[i][j]
      BY <1>1 DEF a
    <2>4. a * m + m <= n * m
      BY <2>2
    <2>5. Stands(w, a * m, seqs[i])
      BY <1>1, <2>2, <2>3, <2>4 DEF Stands
    <2> QED BY <2>5 DEF a
  <1> QED BY <1>1, <1>2 DEF w

\* LoopOfOne: a loop with one statement.
LEMMA LoopOfOne ==
    ASSUME NEW n \in Nat, NEW V, NEW seqs \in [1..n -> Seq(V)], \A i \in 1..n : Len(seqs[i]) = 1
    PROVE  /\ FlattenSeq(seqs) \in Seq(V) /\ Len(FlattenSeq(seqs)) = n
           /\ \A i \in 1..n : FlattenSeq(seqs)[i] = seqs[i][1]
  <1> DEFINE m == 1
             w == FlattenSeq(seqs)
  <1>1. m \in Nat \ {0} /\ \A i \in 1..n : Len(seqs[i]) = m
    OBVIOUS
  <1>2. \A i \in Nat : (i - 1) * m + 1 = i /\ 1 \in 1..m /\ i * m = i
    OBVIOUS
  <1> HIDE DEF m
  <1>3. /\ w \in Seq(V) /\ Len(w) = n * m
        /\ \A i \in 1..n : \A j \in 1..m : w[(i - 1) * m + j] = seqs[i][j]
    BY <1>1, FlattenUniform
  <1> HIDE DEF w
  <1>4. ASSUME NEW i \in 1..n PROVE w[i] = seqs[i][1]
    <2>1. w[(i - 1) * m + 1] = seqs[i][1] /\ i \in Nat
      BY <1>2, <1>3
    <2> QED BY <1>2, <2>1
  <1> QED BY <1>2, <1>3, <1>4 DEF w

\* PoseidonStatements: the statements of Poseidon_run, by number.
LEMMA PoseidonStatements ==
    ASSUME NEW n \in {2, 3}, NEW t, t = IF n = 2 THEN "Poseidon2" ELSE "Poseidon3"
    PROVE  LET run == Templates[t].run IN
           /\ Len(run) = n + 3
           /\ run[1].op = "create" /\ run[1].template = PoseidonExName(n)
           /\ run[2] = SetInput(1, n + 1, Zero)
           /\ \A i \in 1..n : run[2 + i] = SetInput(1, i, Self(i))
           /\ run[n + 3] = Copy(0, Sub(1, 0))
  <1> DEFINE run == Templates[t].run
             create == Create(1, 1, PoseidonExName(n), 1, n + 1)
             state == SetInput(1, n + 1, Zero)
             Body(i) == SetInput(1, i + 1, Self(i + 1))
             last == Copy(0, Sub(1, 0))
             V == {create, state, last} \cup {Body(i) : i \in 0..(n - 1)}
             seqs == [i \in 1..n |-> <<Body(i - 1)>>]
             front == <<create, state>>
             end == <<last>>
             w == FlattenSeq(seqs)
             q == front \o w
  <1>1. run = q \o end
    <2>1. Templates[t] = Poseidon(n)
      BY TemplateValues
    <2>2. Poseidon(n).run = PoseidonRun(n)
      BY DEF Poseidon
    <2>3. PoseidonRun(n) = q \o end
      BY DEF PoseidonRun, For
    <2> HIDE DEF create, q, end
    <2> QED BY <2>1, <2>2, <2>3
  <1>2. create.op = "create" /\ create.template = PoseidonExName(n)
    BY DEF Create
  <1>3. \A i \in 1..n : Body(i - 1) = SetInput(1, i, Self(i)) /\ Body(i - 1) \in V
    <2>1. \A i \in 1..n : (i - 1) + 1 = i /\ i - 1 \in 0..(n - 1)
      OBVIOUS
    <2> QED BY <2>1
  <1> HIDE DEF create, state, Body, last, run
  <1>4. front \in Seq(V) /\ end \in Seq(V) /\ Len(front) = 2 /\ Len(end) = 1 /\ front[1] = create /\ front[2] = state
        /\ end[1] = last
    <2>1. create \in V /\ state \in V /\ last \in V
      OBVIOUS
    <2> HIDE DEF V
    <2> QED BY <2>1
  <1> HIDE DEF V
  <1>5. /\ w \in Seq(V) /\ Len(w) = n
        /\ \A i \in 1..n : w[i] = Body(i - 1)
    <2>1. n \in Nat /\ seqs \in [1..n -> Seq(V)] /\ \A i \in 1..n : Len(seqs[i]) = 1
      BY <1>3
    <2>2. \A i \in 1..n : seqs[i][1] = Body(i - 1)
      OBVIOUS
    <2> HIDE DEF seqs
    <2>3. w \in Seq(V) /\ Len(w) = n /\ \A i \in 1..n : w[i] = seqs[i][1]
      BY <2>1, LoopOfOne
    <2> QED BY <2>2, <2>3
  <1> HIDE DEF front, end, w
  <1>6. /\ q \in Seq(V) /\ Len(q) = n + 2 /\ Stands(q, 2, w) /\ Stands(q, 0, front)
    <2>1. n \in Nat /\ 2 + n = n + 2
      OBVIOUS
    <2>2. q \in Seq(V) /\ Len(q) = Len(front) + Len(w) /\ Stands(q, Len(front), w) /\ Stands(q, 0, front)
      BY <1>4, <1>5, StandsBehind, Zenon DEF Appended
    <2> HIDE DEF q
    <2> QED BY <1>4, <1>5, <2>1, <2>2
  <1> HIDE DEF q
  <1>7. /\ run \in Seq(V) /\ Len(run) = n + 3 /\ Stands(run, n + 2, end) /\ Stands(run, 0, q)
    <2>1. n \in Nat /\ (n + 2) + 1 = n + 3
      OBVIOUS
    <2>2. run \in Seq(V) /\ Len(run) = Len(q) + Len(end) /\ Stands(run, Len(q), end) /\ Stands(run, 0, q)
      BY <1>1, <1>4, <1>6, StandsBehind, Zenon DEF Appended
    <2> QED BY <1>4, <1>6, <2>1, <2>2
  <1>8. /\ \A j \in 1..(n + 2) : run[j] = q[j]
        /\ run[n + 3] = last
    <2>1. \A j \in 1..(n + 2) : run[0 + j] = q[j]
      BY <1>6, <1>7 DEF Stands
    <2>2. run[(n + 2) + 1] = end[1]
      BY <1>4, <1>7 DEF Stands
    <2>3. (n + 2) + 1 = n + 3 /\ \A j \in 1..(n + 2) : 0 + j = j
      OBVIOUS
    <2> QED BY <1>4, <2>1, <2>2, <2>3
  <1>9. q[1] = create /\ q[2] = state /\ \A i \in 1..n : q[2 + i] = w[i]
    <2>1. q[0 + 1] = front[1] /\ q[0 + 2] = front[2]
      BY <1>4, <1>6 DEF Stands
    <2> QED BY <1>4, <1>5, <1>6, <2>1 DEF Stands
  <1>10. \A i \in 1..n : run[2 + i] = SetInput(1, i, Self(i))
    <2> SUFFICES ASSUME NEW i \in 1..n PROVE run[2 + i] = SetInput(1, i, Self(i))
      OBVIOUS
    <2>1. 2 + i \in 1..(n + 2)
      OBVIOUS
    <2> QED BY <1>3, <1>5, <1>8, <1>9, <2>1
  <1>11. run[1] = create /\ run[2] = state
    <2>1. 1 \in 1..(n + 2) /\ 2 \in 1..(n + 2)
      OBVIOUS
    <2> QED BY <1>8, <1>9, <2>1
  <1> QED BY <1>2, <1>7, <1>8, <1>10, <1>11 DEF run, last, state

\* PoseidonOrdered: Poseidon_run gives PoseidonEx each input once, and reads its output
\* when it has them all.
LEMMA PoseidonOrdered ==
    ASSUME NEW n \in {2, 3}, NEW t, t = IF n = 2 THEN "Poseidon2" ELSE "Poseidon3"
    PROVE  Ordered(t)
  <1> DEFINE run == Templates[t].run
             e == PoseidonExName(n)
  <1>1. /\ Len(run) = n + 3
        /\ run[1].op = "create" /\ run[1].template = e /\ run[2] = SetInput(1, n + 1, Zero)
        /\ \A i \in 1..n : run[2 + i] = SetInput(1, i, Self(i))
        /\ run[n + 3] = Copy(0, Sub(1, 0))
    BY PoseidonStatements
  <1>2. Kids(t) = 1 /\ KidTemplate(t, 1) = e
    <2>1. Blocks(t) = 1 /\ PerBlock(t) = 1
      BY DEF Blocks, PerBlock
    <2>2. ((1 - 1) \div 1) + 1 = 1
      OBVIOUS
    <2>3. KidTemplate(t, 1) = run[1].template
      BY <2>1, <2>2 DEF KidTemplate, KidBlock
    <2> QED BY <1>1, <2>1, <2>3 DEF Kids
  <1>3. /\ Templates[t].firstInput = 1 /\ Templates[t].inputs = n /\ Templates[t].own = n + 1
        /\ Templates[e].firstInput = 1 /\ Templates[e].inputs = n + 1 /\ Templates[e].own = n + 2
    BY TemplateValues DEF Poseidon, PoseidonEx, PoseidonExName
  <1>4. /\ Inputs(t) = 1..n /\ Own(t) = 0..n /\ Outs(t) = {0}
        /\ Inputs(e) = 1..(n + 1) /\ 0 \in Own(e)
    BY <1>3 DEF Inputs, Own, Outs
  <1>5. /\ \A o : GivenAt(t, 1, o) = IF o = n + 1 THEN 2 ELSE o + 2
        /\ \A o : CopiedAt(t, o) = n + 3
    BY <1>3 DEF GivenAt, CopiedAt
  <1> HIDE DEF run, e
  <1>6. ASSUME NEW s, s.op = "create" PROVE \A m : InOrder(t, m, s)
    BY <1>6 DEF InOrder, Reads
  <1>7. InOrder(t, 2, run[2])
    <2>1. run[2].op = "set" /\ run[2].sub = 1 /\ run[2].at = n + 1 /\ run[2].from.of = -1
      BY <1>1 DEF SetInput, Zero
    <2>2. Reads(run[2]) = {run[2].from}
      BY <2>1 DEF Reads
    <2> QED BY <1>2, <1>4, <1>5, <2>1, <2>2 DEF InOrder, Readable
  <1>8. ASSUME NEW i \in 1..n PROVE InOrder(t, 2 + i, run[2 + i])
    <2> DEFINE s == run[2 + i]
    <2>0. s = SetInput(1, i, Self(i))
      BY <1>1
    <2>1. s.op = "set" /\ s.sub = 1 /\ s.at = i /\ s.from.of = 0 /\ s.from.at = i
      BY <2>0 DEF SetInput, Self
    <2>2. Reads(s) = {s.from}
      BY <2>1 DEF Reads
    <2> QED BY <1>2, <1>4, <1>5, <2>1, <2>2 DEF InOrder, Readable
  <1>9. InOrder(t, n + 3, run[n + 3])
    <2> DEFINE s == run[n + 3]
    <2>1. s.op = "copy" /\ s.at = 0 /\ s.from.of = 1 /\ s.from.at = 0
      BY <1>1 DEF Copy, Sub
    <2>2. Reads(s) = {s.from}
      BY <2>1 DEF Reads
    <2> QED BY <1>2, <1>4, <1>5, <2>1, <2>2 DEF InOrder, Readable
  <1>10. ASSUME NEW m \in 1..Len(run) PROVE InOrder(t, m, run[m])
    <2>1. m = 1 \/ m = 2 \/ m = n + 3 \/ (m - 2 \in 1..n /\ 2 + (m - 2) = m)
      BY <1>1
    <2>2. CASE m - 2 \in 1..n /\ 2 + (m - 2) = m
      <3>1. InOrder(t, 2 + (m - 2), run[2 + (m - 2)])
        BY <1>8, <2>2
      <3> QED BY <2>2, <3>1
    <2> QED BY <1>1, <1>6, <1>7, <1>9, <2>1, <2>2
  <1>11. ASSUME NEW k \in 1..Kids(t), NEW o \in Inputs(KidTemplate(t, k)) PROVE Gives(t, GivenAt(t, k, o), k, o)
    <2>1. k = 1 /\ o \in 1..(n + 1)
      BY <1>2, <1>4
    <2>2. CASE o = n + 1
      BY <1>1, <1>5, <2>1, <2>2 DEF Gives, SetInput, run
    <2>3. CASE o # n + 1
      <3>1. o \in 1..n /\ o + 2 = 2 + o /\ GivenAt(t, 1, o) = 2 + o /\ 2 + o \in 1..(n + 3)
        BY <1>5, <2>1, <2>3
      <3>0. run[2 + o] = SetInput(1, o, Self(o))
        BY <1>1, <3>1
      <3>2. run[2 + o].op = "set" /\ run[2 + o].sub = 1 /\ run[2 + o].at = o
        BY <3>0 DEF SetInput
      <3> QED BY <1>1, <2>1, <3>1, <3>2 DEF Gives, run
    <2> QED BY <2>2, <2>3
  <1>12. ASSUME NEW o \in Outs(t) PROVE Copies(t, CopiedAt(t, o), o)
    <2>1. o = 0 /\ CopiedAt(t, o) = n + 3 /\ n + 3 \in 1..(n + 3)
      BY <1>4, <1>5
    <2>2. run[n + 3].op = "copy" /\ run[n + 3].at = 0
      BY <1>1 DEF Copy
    <2> QED BY <1>1, <2>1, <2>2 DEF Copies, run
  <1> QED BY <1>10, <1>11, <1>12 DEF Ordered, run

\* MerkleStatements: the statements of MerkleProof_run, by number.
LEMMA MerkleStatements ==
    LET run == Templates["MerkleProof"].run IN
    /\ Len(run) = 8 * Levels + 4
    /\ run[1].op = "create" /\ run[1].template = "Poseidon2"
    /\ run[2].op = "create" /\ run[2].template = "MultiMux1"
    /\ run[3] = Copy(MerkleHash(0), Self(1))
    /\ \A l \in 0..(Levels - 1) : \A j \in 1..8 : run[8 * l + 3 + j] = MerkleLevel(l)[j]
    /\ run[8 * Levels + 4] = Copy(0, Self(MerkleHash(Levels)))
  <1> DEFINE run == Templates["MerkleProof"].run
             c1 == Create(1, Levels, "Poseidon2", 1, MerkleOwn)
             c2 == Create(Levels + 1, Levels, "MultiMux1", 1 + Levels * Poseidon(2).components,
                          MerkleOwn + Levels * Poseidon(2).signals)
             first == Copy(MerkleHash(0), Self(1))
             last == Copy(0, Self(MerkleHash(Levels)))
             V == {c1, c2, first, last} \cup {MerkleLevel(p[1])[p[2]] : p \in (0..(Levels - 1)) \X (1..8)}
             seqs == [i \in 1..Levels |-> MerkleLevel(i - 1)]
             creates == <<c1, c2>>
             begin == <<first>>
             end == <<last>>
             w == FlattenSeq(seqs)
             q1 == creates \o begin
             q2 == q1 \o w
  <1>0. Levels \in Nat \ {0} /\ Levels \in Nat
    BY ProgramAssumption
  <1>1. run = q2 \o end
    BY TemplateValues DEF MerkleProof, For, MerkleCreate
  <1>2. /\ c1.op = "create" /\ c1.template = "Poseidon2"
        /\ c2.op = "create" /\ c2.template = "MultiMux1"
    BY DEF Create
  <1>3. seqs \in [1..Levels -> Seq(V)] /\ \A i \in 1..Levels : Len(seqs[i]) = 8 /\ seqs[i] = MerkleLevel(i - 1)
    <2>1. ASSUME NEW i \in 1..Levels PROVE MerkleLevel(i - 1) \in Seq(V) /\ Len(MerkleLevel(i - 1)) = 8
      <3> DEFINE v == MerkleLevel(i - 1)
      <3>1. v = [j \in 1..8 |-> v[j]] /\ Len(v) = 8
        BY DEF MerkleLevel
      <3>2. i - 1 \in 0..(Levels - 1)
        BY <1>0
      <3>3. \A j \in 1..8 : v[j] \in V
        <4> SUFFICES ASSUME NEW j \in 1..8 PROVE v[j] \in V
          OBVIOUS
        <4> DEFINE p == <<i - 1, j>>
        <4>1. p \in (0..(Levels - 1)) \X (1..8) /\ v[j] = MerkleLevel(p[1])[p[2]]
          BY <3>2
        <4> HIDE DEF v, p
        <4> QED BY <4>1
      <3> HIDE DEF v, V
      <3>4. v \in Seq(V)
        BY <3>1, <3>3
      <3> QED BY <3>1, <3>4 DEF v
    <2> HIDE DEF V
    <2> QED BY <2>1
  <1>4. c1 \in V /\ c2 \in V /\ first \in V /\ last \in V
    OBVIOUS
  <1> HIDE DEF c1, c2, first, last, run, V
  <1>5. /\ creates \in Seq(V) /\ begin \in Seq(V) /\ end \in Seq(V)
        /\ Len(creates) = 2 /\ Len(begin) = 1 /\ Len(end) = 1
        /\ creates[1] = c1 /\ creates[2] = c2 /\ begin[1] = first /\ end[1] = last
    BY <1>4
  <1>6. w \in Seq(V) /\ Len(w) = 8 * Levels /\ \A l \in 0..(Levels - 1) : Stands(w, 8 * l, MerkleLevel(l))
    <2> DEFINE m == 8
    <2>1. m \in Nat \ {0} /\ \A i \in 1..Levels : Len(seqs[i]) = m
      BY <1>3
    <2>2. \A i \in Nat : i * m = 8 * i
      OBVIOUS
    <2> HIDE DEF seqs, m
    <2>3. w \in Seq(V) /\ Len(w) = Levels * m /\ \A i \in 1..Levels : Stands(w, (i - 1) * m, seqs[i])
      BY <1>0, <1>3, <2>1, StandsLoop
    <2> HIDE DEF w
    <2>4. ASSUME NEW l \in 0..(Levels - 1) PROVE Stands(w, 8 * l, MerkleLevel(l))
      <3>1. l + 1 \in 1..Levels /\ (l + 1) - 1 = l /\ l \in Nat
        BY <1>0
      <3>2. Stands(w, l * m, seqs[l + 1]) /\ seqs[l + 1] = MerkleLevel(l)
        BY <1>3, <2>3, <3>1
      <3> QED BY <2>2, <3>1, <3>2
    <2> QED BY <1>0, <2>2, <2>3, <2>4
  <1> HIDE DEF creates, begin, end, seqs, w
  <1>7. q1 \in Seq(V) /\ Len(q1) = 3 /\ Stands(q1, 2, begin) /\ Stands(q1, 0, creates)
    <2>0. q1 = creates \o begin
      OBVIOUS
    <2> HIDE DEF q1
    <2>1. q1 \in Seq(V) /\ Len(q1) = Len(creates) + Len(begin) /\ Stands(q1, Len(creates), begin) /\ Stands(q1, 0, creates)
      <3>1. Appended(V, q1, creates, begin)
        BY <1>5, <2>0, StandsBehind
      <3> QED BY <3>1 DEF Appended
    <2> QED BY <1>5, <2>1
  <1> HIDE DEF q1
  <1>8. q2 \in Seq(V) /\ Len(q2) = 8 * Levels + 3 /\ Stands(q2, 3, w) /\ Stands(q2, 0, q1)
    <2>0. q2 = q1 \o w
      OBVIOUS
    <2> HIDE DEF q2
    <2>1. q2 \in Seq(V) /\ Len(q2) = Len(q1) + Len(w) /\ Stands(q2, Len(q1), w) /\ Stands(q2, 0, q1)
      <3>1. Appended(V, q2, q1, w)
        BY <1>6, <1>7, <2>0, StandsBehind
      <3> QED BY <3>1 DEF Appended
    <2> QED BY <1>0, <1>6, <1>7, <2>1
  <1> HIDE DEF q2
  <1>9. Len(run) = 8 * Levels + 4 /\ Stands(run, 8 * Levels + 3, end) /\ Stands(run, 0, q2)
    <2>1. Len(run) = Len(q2) + Len(end) /\ Stands(run, Len(q2), end) /\ Stands(run, 0, q2)
      BY <1>1, <1>5, <1>8, StandsBehind, Zenon DEF Appended
    <2> QED BY <1>0, <1>5, <1>8, <2>1
  <1>10. ASSUME NEW l \in 0..(Levels - 1), NEW j \in 1..8 PROVE run[8 * l + 3 + j] = MerkleLevel(l)[j]
    <2>1. 3 + j + 8 * l \in Nat /\ 8 * l + j \in 1..(8 * Levels) /\ 3 + (8 * l + j) \in 1..(8 * Levels + 3)
          /\ 0 + (3 + (8 * l + j)) = 8 * l + 3 + j
      BY <1>0
    <2>2. Stands(w, 8 * l, MerkleLevel(l)) /\ Len(MerkleLevel(l)) = 8
      <3>1. Len(MerkleLevel(l)) = 8
        BY DEF MerkleLevel
      <3> QED BY <1>6, <3>1
    <2>3. w[8 * l + j] = MerkleLevel(l)[j]
      BY <2>2 DEF Stands
    <2>4. q2[3 + (8 * l + j)] = w[8 * l + j]
      BY <1>6, <1>8, <2>1 DEF Stands
    <2>5. run[0 + (3 + (8 * l + j))] = q2[3 + (8 * l + j)]
      BY <1>8, <1>9, <2>1 DEF Stands
    <2> QED BY <2>1, <2>3, <2>4, <2>5
  <1>11. run[8 * Levels + 4] = last
    <2>1. (8 * Levels + 3) + 1 = 8 * Levels + 4
      BY <1>0
    <2>2. run[(8 * Levels + 3) + 1] = end[1]
      BY <1>5, <1>9 DEF Stands
    <2> QED BY <1>5, <2>1, <2>2
  <1>12. \A j \in 1..3 : run[0 + j] = q1[j]
    <2>1. Stands(run, 0 + 0, q1)
      <3>1. Len(run) \in Nat /\ Len(q1) \in Nat /\ Len(q2) \in Nat
        BY <1>0, <1>7, <1>8, <1>9
      <3> QED BY <1>8, <1>9, <3>1, StandsIn, Zenon
    <2> QED BY <1>7, <2>1 DEF Stands
  <1>13. q1[0 + 1] = c1 /\ q1[0 + 2] = c2 /\ q1[2 + 1] = first
    BY <1>5, <1>7 DEF Stands
  <1>14. run[1] = c1 /\ run[2] = c2 /\ run[3] = first
    BY <1>12, <1>13
  <1> QED BY <1>2, <1>9, <1>10, <1>11, <1>14 DEF run, first, last

\* MerkleKids: the sub-components of MerkleProof.
LEMMA MerkleKids ==
    /\ Kids("MerkleProof") = 2 * Levels
    /\ \A l \in 0..(Levels - 1) :
          KidTemplate("MerkleProof", l + 1) = "Poseidon2" /\ KidTemplate("MerkleProof", Levels + l + 1) = "MultiMux1"
  <1> DEFINE t == "MerkleProof"
  <1>0. Levels \in Nat \ {0}
    BY ProgramAssumption
  <1>1. Blocks(t) = 2 /\ PerBlock(t) = Levels /\ t \in Names
    BY DEF Blocks, PerBlock, Names
  <1>2. Templates[t].run[1].template = "Poseidon2" /\ Templates[t].run[2].template = "MultiMux1"
    BY MerkleStatements
  <1> HIDE DEF t
  <1>3. ASSUME NEW l \in 0..(Levels - 1)
        PROVE  KidTemplate(t, l + 1) = "Poseidon2" /\ KidTemplate(t, Levels + l + 1) = "MultiMux1"
    <2>1. 1 \in 1..Blocks(t) /\ 2 \in 1..Blocks(t) /\ l \in 0..(PerBlock(t) - 1)
      BY <1>1
    <2>2. KidTemplate(t, (1 - 1) * PerBlock(t) + 1 + l) = Templates[t].run[1].template
      BY <1>1, <2>1, KidOfBlock
    <2>3. KidTemplate(t, (2 - 1) * PerBlock(t) + 1 + l) = Templates[t].run[2].template
      BY <1>1, <2>1, KidOfBlock
    <2>4. (1 - 1) * Levels + 1 + l = l + 1 /\ (2 - 1) * Levels + 1 + l = Levels + l + 1
      BY <1>0
    <2> QED BY <1>1, <1>2, <2>2, <2>3, <2>4
  <1> QED BY <1>1, <1>3 DEF Kids, t

\* LeafInputs: the inputs of the templates, and what else they have.
LEMMA TemplateInputs ==
    /\ Inputs("PoseidonEx2") = 1..3 /\ Own("PoseidonEx2") = 0..3
    /\ Inputs("PoseidonEx3") = 1..4 /\ Own("PoseidonEx3") = 0..4
    /\ Inputs("MultiMux1") = 2..6 /\ Own("MultiMux1") = 0..6
    /\ Inputs("Poseidon2") = 1..2 /\ Own("Poseidon2") = 0..2
    /\ Inputs("Poseidon3") = 1..3 /\ Own("Poseidon3") = 0..3
    /\ Inputs("MerkleProof") = 1..(2 * Levels + 1) /\ Own("MerkleProof") = 0..(3 * Levels + 2)
    /\ Inputs("Transaction") = 0..(InputCount - 1) /\ Own("Transaction") = 0..(InputCount - 1)
  <1>0. Levels \in Nat \ {0} /\ InputCount \in Nat \ {0}
    BY TreeNumbers
  <1>1. /\ Inputs("PoseidonEx2") = 1..3 /\ Own("PoseidonEx2") = 0..3
        /\ Inputs("PoseidonEx3") = 1..4 /\ Own("PoseidonEx3") = 0..4
        /\ Inputs("MultiMux1") = 2..6 /\ Own("MultiMux1") = 0..6
    BY TemplateValues DEF Inputs, Own, PoseidonEx, MultiMux1
  <1>2. /\ Inputs("Poseidon2") = 1..2 /\ Own("Poseidon2") = 0..2
        /\ Inputs("Poseidon3") = 1..3 /\ Own("Poseidon3") = 0..3
    BY TemplateValues DEF Inputs, Own, Poseidon
  <1>3. Inputs("MerkleProof") = 1..(2 * Levels + 1) /\ Own("MerkleProof") = 0..(3 * Levels + 2)
    <2>1. /\ Templates["MerkleProof"].firstInput = 1 /\ Templates["MerkleProof"].inputs = 2 * Levels + 1
          /\ Templates["MerkleProof"].own = 3 * Levels + 3
      BY TemplateValues DEF MerkleProof, MerkleOwn
    <2>2. 1 + (2 * Levels + 1) - 1 = 2 * Levels + 1 /\ (3 * Levels + 3) - 1 = 3 * Levels + 2
      BY <1>0
    <2> QED BY <2>1, <2>2 DEF Inputs, Own
  <1>4. Inputs("Transaction") = 0..(InputCount - 1) /\ Own("Transaction") = 0..(InputCount - 1)
    <2>1. /\ Templates["Transaction"].firstInput = 0 /\ Templates["Transaction"].inputs = InputCount
          /\ Templates["Transaction"].own = InputCount
      BY TemplateValues DEF Transaction
    <2>2. 0 + InputCount - 1 = InputCount - 1
      BY <1>0
    <2> QED BY <2>1, <2>2 DEF Inputs, Own
  <1> QED BY <1>1, <1>2, <1>3, <1>4

\* SetInOrder, CopyInOrder, AssertInOrder, AddInOrder: what a statement has to satisfy.
LEMMA SetInOrder ==
    ASSUME NEW t, NEW n, NEW k, NEW o, NEW r, o \in Inputs(KidTemplate(t, k)), GivenAt(t, k, o) = n, Readable(t, n, r)
    PROVE  InOrder(t, n, SetInput(k, o, r))
  <1> DEFINE s == SetInput(k, o, r)
  <1>1. s.op = "set" /\ s.sub = k /\ s.at = o /\ s.from = r
    BY DEF SetInput
  <1> HIDE DEF s
  <1>2. Reads(s) = {r}
    BY <1>1 DEF Reads
  <1>3. InOrder(t, n, s)
    BY <1>1, <1>2 DEF InOrder
  <1> QED BY <1>3 DEF s

\* CopyInOrder: a copy is in order where CopiedAt lists it, if what it reads is readable.
LEMMA CopyInOrder ==
    ASSUME NEW t, NEW n, NEW o, NEW r, o \in Outs(t), CopiedAt(t, o) = n, Readable(t, n, r)
    PROVE  InOrder(t, n, Copy(o, r))
  <1> DEFINE s == Copy(o, r)
  <1>1. s.op = "copy" /\ s.at = o /\ s.from = r
    BY DEF Copy
  <1> HIDE DEF s
  <1>2. Reads(s) = {r}
    BY <1>1 DEF Reads
  <1>3. InOrder(t, n, s)
    BY <1>1, <1>2 DEF InOrder
  <1> QED BY <1>3 DEF s

\* AssertInOrder: a comparison is in order if both its sides are readable.
LEMMA AssertInOrder ==
    ASSUME NEW t, NEW n, NEW q, NEW r, Readable(t, n, q), Readable(t, n, r)
    PROVE  InOrder(t, n, AssertEqual(q, r))
  <1> DEFINE s == AssertEqual(q, r)
  <1>1. s.op = "assert" /\ s.left = q /\ s.right = r
    BY DEF AssertEqual
  <1> HIDE DEF s
  <1>2. Reads(s) = {q, r}
    BY <1>1 DEF Reads
  <1>3. InOrder(t, n, s)
    BY <1>1, <1>2 DEF InOrder
  <1> QED BY <1>3 DEF s

\* AddInOrder: an addition to a sum is in order if what it adds is readable.
LEMMA AddInOrder ==
    ASSUME NEW t, NEW n, NEW v, NEW r, Readable(t, n, r)
    PROVE  InOrder(t, n, AddTo(v, r))
  <1> DEFINE s == AddTo(v, r)
  <1>1. s.op = "add" /\ s.from = r
    BY DEF AddTo
  <1> HIDE DEF s
  <1>2. Reads(s) = {r}
    BY <1>1 DEF Reads
  <1>3. InOrder(t, n, s)
    BY <1>1, <1>2 DEF InOrder
  <1> QED BY <1>3 DEF s

\* OtherInOrder: the statements that read no signal are in order anywhere.
LEMMA OtherInOrder ==
    ASSUME NEW t, NEW n, NEW s, s.op \in {"create", "assertSums"}
    PROVE  InOrder(t, n, s)
  BY DEF InOrder, Reads

\* ReadableOwn: an input of the component itself, or one of its signals copied before.
LEMMA ReadableOwn ==
    ASSUME NEW t, NEW n, NEW o \in Own(t), o \in Inputs(t) \/ CopiedAt(t, o) < n
    PROVE  Readable(t, n, Self(o))
  BY DEF Readable, Self

\* ReadableSub: a signal of a sub-component all of whose inputs were given before.
LEMMA ReadableSub ==
    ASSUME NEW t, NEW n, NEW k \in 1..Kids(t), NEW o \in Own(KidTemplate(t, k)),
           \A i \in Inputs(KidTemplate(t, k)) : GivenAt(t, k, i) < n
    PROVE  Readable(t, n, Sub(k, o))
  BY DEF Readable, Sub

\* SetsThat: what a set statement says.
LEMMA SetsThat ==
    ASSUME NEW s, NEW k, NEW o, \E r : s = SetInput(k, o, r)
    PROVE  s.op = "set" /\ s.sub = k /\ s.at = o
  BY DEF SetInput

\* CopiesThat: what a copy statement says.
LEMMA CopiesThat ==
    ASSUME NEW s, NEW o, \E r : s = Copy(o, r)
    PROVE  s.op = "copy" /\ s.at = o
  BY DEF Copy

\* MerkleOrdered: MerkleProof_run gives every hasher and multiplexer each input once, and
\* reads what they and it have computed by then.
LEMMA MerkleOrdered == Ordered("MerkleProof")
  <1> DEFINE t == "MerkleProof"
             run == Templates[t].run
             L == Levels
             H(l) == 2 + 2 * L + l
  <1>0. L \in Nat \ {0} /\ L \in Nat
    BY ProgramAssumption
  <1>1. /\ Len(run) = 8 * L + 4 /\ run[1].op = "create" /\ run[2].op = "create"
        /\ run[3] = Copy(MerkleHash(0), Self(1))
        /\ \A l \in 0..(L - 1) : \A j \in 1..8 : run[8 * l + 3 + j] = MerkleLevel(l)[j]
        /\ run[8 * L + 4] = Copy(0, Self(MerkleHash(L)))
    BY MerkleStatements
  <1>2. /\ Kids(t) = 2 * L
        /\ \A l \in 0..(L - 1) : KidTemplate(t, l + 1) = "Poseidon2" /\ KidTemplate(t, L + l + 1) = "MultiMux1"
    BY MerkleKids
  <1>3. /\ Inputs(t) = 1..(2 * L + 1) /\ Own(t) = 0..(3 * L + 2)
        /\ Inputs("MultiMux1") = 2..6 /\ Own("MultiMux1") = 0..6
        /\ Inputs("Poseidon2") = 1..2 /\ Own("Poseidon2") = 0..2
    BY TemplateInputs
  <1>4. ASSUME NEW l \in 0..(L - 1), NEW o
        PROVE  GivenAt(t, l + 1, o) = 8 * l + 8 + o /\ GivenAt(t, L + l + 1, o) = 8 * l + 2 + o
    <2>1. l + 1 <= L /\ (l + 1) - 1 = l /\ ~ (L + l + 1 <= L) /\ (L + l + 1) - L - 1 = l
      BY <1>0
    <2> QED BY <2>1 DEF GivenAt
  <1>5. CopiedAt(t, 0) = 8 * L + 4 /\ \A l \in 0..L : CopiedAt(t, H(l)) = 8 * l + 3
    <2>1. ASSUME NEW l \in 0..L PROVE H(l) # 0 /\ H(l) - (2 + 2 * L) = l
      BY <1>0
    <2> QED BY <2>1 DEF CopiedAt
  <1>6. 0 \in Outs(t) /\ \A l \in 0..L : MerkleHash(l) = H(l) /\ H(l) \in Outs(t) /\ H(l) \in Own(t)
    <2>1. ASSUME NEW l \in 0..L PROVE H(l) \in 0..(3 * L + 2) /\ H(l) \notin 1..(2 * L + 1)
      BY <1>0
    <2> QED BY <1>0, <1>3, <2>1 DEF Outs, MerkleHash
  <1>7. \A l \in 0..(L - 1) : /\ MerkleElement(l) \in Inputs(t) /\ MerkleIndex(l) \in Inputs(t)
                              /\ MerkleElement(l) \in Own(t) /\ MerkleIndex(l) \in Own(t)
    BY <1>0, <1>3 DEF MerkleElement, MerkleIndex
  <1> HIDE DEF t, run, L, H
  <1>8. InOrder(t, 3, run[3])
    <2>1. 1 \in Inputs(t) /\ 1 \in Own(t) /\ 0 \in 0..L /\ 8 * 0 + 3 = 3
      BY <1>0, <1>3
    <2>2. Readable(t, 3, Self(1)) /\ MerkleHash(0) \in Outs(t) /\ CopiedAt(t, MerkleHash(0)) = 3
      BY <1>5, <1>6, <2>1, ReadableOwn
    <2> QED BY <1>1, <2>2, CopyInOrder
  <1>9. InOrder(t, 8 * L + 4, run[8 * L + 4])
    <2>1. L \in 0..L /\ 8 * L + 3 < 8 * L + 4
      BY <1>0
    <2>2. Readable(t, 8 * L + 4, Self(MerkleHash(L)))
      BY <1>5, <1>6, <2>1, ReadableOwn
    <2> QED BY <1>1, <1>5, <1>6, <2>2, CopyInOrder
  <1>10. ASSUME NEW l \in 0..(L - 1), NEW j \in 1..8 PROVE InOrder(t, 8 * l + 3 + j, run[8 * l + 3 + j])
    <2> DEFINE h == l + 1
               m == L + l + 1
               b == 8 * l + 3
               R(n, r) == Readable(t, n, r)
    <2>1. h \in 1..Kids(t) /\ m \in 1..Kids(t) /\ b \in Nat /\ l \in 0..L /\ l + 1 \in 0..L
      BY <1>0, <1>2
    <2>2. KidTemplate(t, h) = "Poseidon2" /\ KidTemplate(t, m) = "MultiMux1"
      BY <1>2
    <2>3. \A o : GivenAt(t, h, o) = 8 * l + 8 + o /\ GivenAt(t, m, o) = 8 * l + 2 + o
      BY <1>4
    <2>4. \A i \in 1..8 : /\ R(b + i, Self(MerkleElement(l))) /\ R(b + i, Self(MerkleIndex(l)))
                          /\ R(b + i, Self(MerkleHash(l)))
      <3> SUFFICES ASSUME NEW i \in 1..8 PROVE /\ R(b + i, Self(MerkleElement(l))) /\ R(b + i, Self(MerkleIndex(l)))
                                               /\ R(b + i, Self(MerkleHash(l)))
        OBVIOUS
      <3>1. CopiedAt(t, MerkleHash(l)) = b /\ b < b + i /\ MerkleHash(l) \in Own(t)
        BY <1>5, <1>6, <2>1
      <3> QED BY <1>7, <3>1, ReadableOwn
    <2>5. \A i \in 6..7 : \A o \in 0..1 : R(b + i, Sub(m, o))
      <3> SUFFICES ASSUME NEW i \in 6..7, NEW o \in 0..1 PROVE R(b + i, Sub(m, o))
        OBVIOUS
      <3>1. o \in Own(KidTemplate(t, m)) /\ \A u \in Inputs(KidTemplate(t, m)) : GivenAt(t, m, u) < b + i
        BY <1>3, <2>1, <2>2, <2>3
      <3> QED BY <2>1, <3>1, ReadableSub
    <2>6. R(b + 8, Sub(h, 0))
      <3>1. 0 \in Own(KidTemplate(t, h)) /\ \A u \in Inputs(KidTemplate(t, h)) : GivenAt(t, h, u) < b + 8
        BY <1>3, <2>1, <2>2, <2>3
      <3> QED BY <2>1, <3>1, ReadableSub
    <2>7. /\ 8 * l + 2 + 2 = b + 1 /\ 8 * l + 2 + 3 = b + 2 /\ 8 * l + 2 + 4 = b + 3 /\ 8 * l + 2 + 5 = b + 4
          /\ 8 * l + 2 + 6 = b + 5 /\ 8 * l + 8 + 1 = b + 6 /\ 8 * l + 8 + 2 = b + 7 /\ 8 * (l + 1) + 3 = b + 8
      BY <2>1
    <2>8. /\ 2 \in Inputs(KidTemplate(t, m)) /\ 3 \in Inputs(KidTemplate(t, m)) /\ 4 \in Inputs(KidTemplate(t, m))
          /\ 5 \in Inputs(KidTemplate(t, m)) /\ 6 \in Inputs(KidTemplate(t, m))
          /\ 1 \in Inputs(KidTemplate(t, h)) /\ 2 \in Inputs(KidTemplate(t, h))
      BY <1>3, <2>2
    <2>9. MerkleHash(l + 1) \in Outs(t) /\ CopiedAt(t, MerkleHash(l + 1)) = 8 * (l + 1) + 3
      BY <1>5, <1>6, <2>1
    <2>10. MerkleLevel(l) =
             <<SetInput(m, 2, Self(MerkleHash(l))), SetInput(m, 3, Self(MerkleElement(l))),
               SetInput(m, 4, Self(MerkleElement(l))), SetInput(m, 5, Self(MerkleHash(l))),
               SetInput(m, 6, Self(MerkleIndex(l))),
               SetInput(h, 1, Sub(m, 0)), SetInput(h, 2, Sub(m, 1)),
               Copy(MerkleHash(l + 1), Sub(h, 0))>>
      BY DEF MerkleLevel, L
    <2> DEFINE w == MerkleLevel(l)
    <2>11. /\ w[1] = SetInput(m, 2, Self(MerkleHash(l))) /\ w[2] = SetInput(m, 3, Self(MerkleElement(l)))
           /\ w[3] = SetInput(m, 4, Self(MerkleElement(l))) /\ w[4] = SetInput(m, 5, Self(MerkleHash(l)))
           /\ w[5] = SetInput(m, 6, Self(MerkleIndex(l))) /\ w[6] = SetInput(h, 1, Sub(m, 0))
           /\ w[7] = SetInput(h, 2, Sub(m, 1)) /\ w[8] = Copy(MerkleHash(l + 1), Sub(h, 0))
      BY <2>10
    <2>12. run[b + j] = w[j]
      BY <1>1
    <2> HIDE DEF h, m, b, w, R
    <2>13. /\ InOrder(t, b + 1, w[1]) /\ InOrder(t, b + 2, w[2]) /\ InOrder(t, b + 3, w[3]) /\ InOrder(t, b + 4, w[4])
           /\ InOrder(t, b + 5, w[5])
      <3>1. R(b + 1, Self(MerkleHash(l))) /\ GivenAt(t, m, 2) = b + 1
        BY <2>3, <2>4, <2>7
      <3>2. R(b + 2, Self(MerkleElement(l))) /\ GivenAt(t, m, 3) = b + 2
        BY <2>3, <2>4, <2>7
      <3>3. R(b + 3, Self(MerkleElement(l))) /\ GivenAt(t, m, 4) = b + 3
        BY <2>3, <2>4, <2>7
      <3>4. R(b + 4, Self(MerkleHash(l))) /\ GivenAt(t, m, 5) = b + 4
        BY <2>3, <2>4, <2>7
      <3>5. R(b + 5, Self(MerkleIndex(l))) /\ GivenAt(t, m, 6) = b + 5
        BY <2>3, <2>4, <2>7
      <3> QED BY <2>8, <2>11, <3>1, <3>2, <3>3, <3>4, <3>5, SetInOrder DEF R
    <2>14. InOrder(t, b + 6, w[6]) /\ InOrder(t, b + 7, w[7])
      <3>1. R(b + 6, Sub(m, 0)) /\ GivenAt(t, h, 1) = b + 6
        BY <2>3, <2>5, <2>7
      <3>2. R(b + 7, Sub(m, 1)) /\ GivenAt(t, h, 2) = b + 7
        BY <2>3, <2>5, <2>7
      <3> QED BY <2>8, <2>11, <3>1, <3>2, SetInOrder DEF R
    <2>15. InOrder(t, b + 8, w[8])
      <3>1. CopiedAt(t, MerkleHash(l + 1)) = b + 8
        BY <2>7, <2>9
      <3> QED BY <2>6, <2>9, <2>11, <3>1, CopyInOrder DEF R
    <2>16. j = 1 \/ j = 2 \/ j = 3 \/ j = 4 \/ j = 5 \/ j = 6 \/ j = 7 \/ j = 8
      OBVIOUS
    <2>17. InOrder(t, b + j, w[j])
      BY <2>13, <2>14, <2>15, <2>16, Zenon
    <2> QED BY <2>12, <2>17 DEF b
  <1>11. ASSUME NEW n \in 1..Len(run) PROVE InOrder(t, n, run[n])
    <2>1. CASE n \in {1, 2}
      BY <1>1, <2>1, OtherInOrder
    <2>2. CASE n = 3 \/ n = 8 * L + 4
      BY <1>8, <1>9, <2>2
    <2>3. CASE n \in 4..(8 * L + 3)
      <3>1. PICK l \in 0..(L - 1), j \in 1..8 : n = 8 * l + 3 + j
        <4> DEFINE l == (n - 4) \div 8
                   j == ((n - 4) % 8) + 1
        <4>1. l \in 0..(L - 1) /\ j \in 1..8 /\ n = 8 * l + 3 + j
          BY <1>0, <2>3
        <4> QED BY <4>1
      <3> QED BY <1>10, <3>1
    <2> QED BY <1>0, <1>1, <2>1, <2>2, <2>3
  <1>12. ASSUME NEW k \in 1..Kids(t), NEW o \in Inputs(KidTemplate(t, k)) PROVE Gives(t, GivenAt(t, k, o), k, o)
    <2>1. CASE k <= L
      <3> DEFINE l == k - 1
      <3>1. l \in 0..(L - 1) /\ k = l + 1
        BY <1>0, <1>2, <2>1
      <3> HIDE DEF l
      <3>2. KidTemplate(t, k) = "Poseidon2" /\ o \in 1..2 /\ GivenAt(t, k, o) = 8 * l + 8 + o
        BY <1>2, <1>3, <1>4, <3>1
      <3>3. 5 + o \in 1..8 /\ 8 * l + 3 + (5 + o) = 8 * l + 8 + o /\ 8 * l + 8 + o \in 1..(8 * L + 4)
        BY <1>0, <3>1, <3>2
      <3>4. run[8 * l + 8 + o] = MerkleLevel(l)[5 + o]
        BY <1>1, <3>1, <3>3
      <3>5. MerkleLevel(l)[6] = SetInput(k, 1, Sub(L + l + 1, 0)) /\ MerkleLevel(l)[7] = SetInput(k, 2, Sub(L + l + 1, 1))
        BY <3>1 DEF MerkleLevel, L
      <3>6. \E r : run[8 * l + 8 + o] = SetInput(k, o, r)
        <4>1. o = 1 \/ o = 2
          BY <3>2
        <4>2. CASE o = 1
          BY <3>4, <3>5, <4>2
        <4>3. CASE o = 2
          BY <3>4, <3>5, <4>3
        <4> QED BY <4>1, <4>2, <4>3
      <3>7. run[8 * l + 8 + o].op = "set" /\ run[8 * l + 8 + o].sub = k /\ run[8 * l + 8 + o].at = o
        BY <3>6, SetsThat
      <3> QED BY <1>1, <3>2, <3>3, <3>7 DEF Gives, run
    <2>2. CASE ~ (k <= L)
      <3> DEFINE l == k - L - 1
      <3>1. l \in 0..(L - 1) /\ k = L + l + 1
        BY <1>0, <1>2, <2>2
      <3> HIDE DEF l
      <3>2. KidTemplate(t, k) = "MultiMux1" /\ o \in 2..6 /\ GivenAt(t, k, o) = 8 * l + 2 + o
        BY <1>2, <1>3, <1>4, <3>1
      <3>3. o - 1 \in 1..8 /\ 8 * l + 3 + (o - 1) = 8 * l + 2 + o /\ 8 * l + 2 + o \in 1..(8 * L + 4)
        BY <1>0, <3>1, <3>2
      <3>4. run[8 * l + 2 + o] = MerkleLevel(l)[o - 1]
        BY <1>1, <3>1, <3>3
      <3>5. /\ MerkleLevel(l)[1] = SetInput(k, 2, Self(MerkleHash(l))) /\ MerkleLevel(l)[2] = SetInput(k, 3, Self(MerkleElement(l)))
            /\ MerkleLevel(l)[3] = SetInput(k, 4, Self(MerkleElement(l))) /\ MerkleLevel(l)[4] = SetInput(k, 5, Self(MerkleHash(l)))
            /\ MerkleLevel(l)[5] = SetInput(k, 6, Self(MerkleIndex(l)))
        BY <3>1 DEF MerkleLevel, L
      <3>6. \E r : run[8 * l + 2 + o] = SetInput(k, o, r)
        <4>1. o = 2 \/ o = 3 \/ o = 4 \/ o = 5 \/ o = 6
          BY <3>2
        <4>2. CASE o = 2
          BY <3>4, <3>5, <4>2
        <4>3. CASE o = 3
          BY <3>4, <3>5, <4>3
        <4>4. CASE o = 4
          BY <3>4, <3>5, <4>4
        <4>5. CASE o = 5
          BY <3>4, <3>5, <4>5
        <4>6. CASE o = 6
          BY <3>4, <3>5, <4>6
        <4> QED BY <4>1, <4>2, <4>3, <4>4, <4>5, <4>6
      <3>7. run[8 * l + 2 + o].op = "set" /\ run[8 * l + 2 + o].sub = k /\ run[8 * l + 2 + o].at = o
        BY <3>6, SetsThat
      <3> QED BY <1>1, <3>2, <3>3, <3>7 DEF Gives, run
    <2> QED BY <2>1, <2>2
  <1>13. ASSUME NEW o \in Outs(t) PROVE Copies(t, CopiedAt(t, o), o)
    <2>1. o = 0 \/ \E l \in 0..L : o = H(l)
      <3>1. o \in 0..(3 * L + 2) /\ o \notin 1..(2 * L + 1)
        BY <1>3 DEF Outs
      <3>2. o = 0 \/ (o - (2 + 2 * L) \in 0..L /\ o = 2 + 2 * L + (o - (2 + 2 * L)))
        BY <1>0, <3>1
      <3> QED BY <3>2 DEF H
    <2>2. CASE o = 0
      <3>1. 8 * L + 4 \in 1..(8 * L + 4)
        BY <1>0
      <3>2. run[8 * L + 4].op = "copy" /\ run[8 * L + 4].at = 0
        BY <1>1 DEF Copy
      <3> QED BY <1>1, <1>5, <2>2, <3>1, <3>2 DEF Copies, run
    <2>3. CASE \E l \in 0..L : o = H(l)
      <3>1. PICK l \in 0..L : o = H(l)
        BY <2>3
      <3>2. CopiedAt(t, o) = 8 * l + 3 /\ MerkleHash(l) = o
        BY <1>5, <1>6, <3>1
      <3>3. \E r : run[8 * l + 3] = Copy(o, r)
        <4>1. CASE l = 0
          <5>1. 8 * l + 3 = 3
            BY <4>1
          <5> QED BY <1>1, <3>2, <4>1, <5>1
        <4>2. CASE l # 0
          <5>1. l - 1 \in 0..(L - 1) /\ 8 * (l - 1) + 3 + 8 = 8 * l + 3 /\ (l - 1) + 1 = l /\ 8 \in 1..8
            BY <1>0, <4>2
          <5>2. run[8 * l + 3] = MerkleLevel(l - 1)[8]
            BY <1>1, <5>1
          <5>3. MerkleLevel(l - 1)[8] = Copy(MerkleHash((l - 1) + 1), Sub((l - 1) + 1, 0))
            BY DEF MerkleLevel
          <5> QED BY <3>2, <5>1, <5>2, <5>3
        <4> QED BY <4>1, <4>2
      <3>4. run[8 * l + 3].op = "copy" /\ run[8 * l + 3].at = o
        BY <3>3, CopiesThat
      <3>5. 8 * l + 3 \in 1..(8 * L + 4)
        BY <1>0
      <3> QED BY <1>1, <3>2, <3>4, <3>5 DEF Copies, run
    <2> QED BY <2>1, <2>2, <2>3
  <1> QED BY <1>11, <1>12, <1>13 DEF Ordered, run, t

\* InputStatementsAt: the statements for one input of the transaction, by number.
LEMMA InputStatementsAt ==
    ASSUME NEW i \in 0..(Slots - 1)
    PROVE  LET w == TransactionInput(i)
               c == i + 1
               n == Slots + i + 1
               m == 2 * Slots + i + 1
           IN  /\ w[1] = SetInput(c, 1, In("inAmount", i)) /\ w[2] = SetInput(c, 2, In("inSecret", i))
               /\ w[3] = SetInput(c, 3, In("inRecipient", i)) /\ w[4] = SetInput(n, 1, Sub(c, 0))
               /\ w[5] = SetInput(n, 2, In("inSecret", i)) /\ w[6] = AssertEqual(Sub(n, 0), In("nullifierHashes", i))
               /\ w[7] = SetInput(m, 1, Sub(c, 0))
               /\ \A j \in 0..(Levels - 1) :
                     /\ w[8 + 2 * j] = SetInput(m, 2 + j, In("inPathElements", Levels * i + j))
                     /\ w[9 + 2 * j] = SetInput(m, 2 + Levels + j, In("inPathIndices", Levels * i + j))
               /\ w[8 + 2 * Levels] = AssertEqual(Sub(m, 0), In("root", 0))
               /\ w[9 + 2 * Levels] = AddTo("ins", In("inAmount", i))
  <1> DEFINE w == TransactionInput(i)
             c == i + 1
             n == Slots + i + 1
             m == 2 * Slots + i + 1
             head == <<SetInput(c, 1, In("inAmount", i)), SetInput(c, 2, In("inSecret", i)),
                       SetInput(c, 3, In("inRecipient", i)), SetInput(n, 1, Sub(c, 0)),
                       SetInput(n, 2, In("inSecret", i)), AssertEqual(Sub(n, 0), In("nullifierHashes", i)),
                       SetInput(m, 1, Sub(c, 0))>>
             E(j) == SetInput(m, 2 + j, In("inPathElements", Levels * i + j))
             I(j) == SetInput(m, 2 + Levels + j, In("inPathIndices", Levels * i + j))
             path == [j \in 1..Levels |-> <<E(j - 1), I(j - 1)>>]
             e1 == AssertEqual(Sub(m, 0), In("root", 0))
             e2 == AddTo("ins", In("inAmount", i))
             end == <<e1, e2>>
             V == {head[j] : j \in 1..7} \cup {E(j) : j \in 0..(Levels - 1)} \cup {I(j) : j \in 0..(Levels - 1)} \cup {e1, e2}
             v == FlattenSeq(path)
             q == head \o v
  <1>0. Levels \in Nat \ {0} /\ Levels \in Nat
    BY ProgramAssumption
  <1>1. w = q \o end
    BY DEF TransactionInput, For
  <1>2. /\ head[1] = SetInput(c, 1, In("inAmount", i)) /\ head[2] = SetInput(c, 2, In("inSecret", i))
        /\ head[3] = SetInput(c, 3, In("inRecipient", i)) /\ head[4] = SetInput(n, 1, Sub(c, 0))
        /\ head[5] = SetInput(n, 2, In("inSecret", i)) /\ head[6] = AssertEqual(Sub(n, 0), In("nullifierHashes", i))
        /\ head[7] = SetInput(m, 1, Sub(c, 0))
        /\ Len(head) = 7 /\ head = [j \in 1..7 |-> head[j]]
    OBVIOUS
  <1>3. (\A j \in 1..7 : head[j] \in V) /\ (\A j \in 0..(Levels - 1) : E(j) \in V /\ I(j) \in V) /\ e1 \in V /\ e2 \in V
    <2> HIDE DEF head, E, I, e1, e2
    <2> QED OBVIOUS
  <1> HIDE DEF head, E, I, e1, e2, w, V
  <1>4. head \in Seq(V) /\ end \in Seq(V) /\ Len(end) = 2 /\ end[1] = e1 /\ end[2] = e2
    BY <1>2, <1>3
  <1>5. /\ v \in Seq(V) /\ Len(v) = 2 * Levels
        /\ \A j \in 0..(Levels - 1) : v[2 * j + 1] = E(j) /\ v[2 * j + 2] = I(j)
    <2> DEFINE two == 2
    <2>1. \A j \in 1..Levels : E(j - 1) \in V /\ I(j - 1) \in V
      BY <1>0, <1>3
    <2>2. /\ path \in [1..Levels -> Seq(V)]
          /\ \A j \in 1..Levels : Len(path[j]) = two /\ path[j][1] = E(j - 1) /\ path[j][2] = I(j - 1)
      BY <1>0, <2>1
    <2>3. two \in Nat \ {0} /\ two = 2 /\ \A j \in Nat : j * two = 2 * j
      OBVIOUS
    <2> HIDE DEF path, two
    <2>4. v \in Seq(V) /\ Len(v) = Levels * two /\ \A j \in 1..Levels : Stands(v, (j - 1) * two, path[j])
      <3>1. path \in [1..Levels -> Seq(V)] /\ \A j \in 1..Levels : Len(path[j]) = two
        BY <2>2
      <3>2. two \in Nat \ {0}
        BY <2>3
      <3>3. /\ FlattenSeq(path) \in Seq(V) /\ Len(FlattenSeq(path)) = Levels * two
            /\ \A j \in 1..Levels : Stands(FlattenSeq(path), (j - 1) * two, path[j])
        BY <1>0, <3>1, <3>2, StandsLoop, Zenon
      <3> QED BY <3>3 DEF v
    <2> HIDE DEF v
    <2>5. ASSUME NEW j \in 0..(Levels - 1) PROVE v[2 * j + 1] = E(j) /\ v[2 * j + 2] = I(j)
      <3>1. j + 1 \in 1..Levels /\ (j + 1) - 1 = j /\ j \in Nat
        BY <1>0
      <3>2. /\ Stands(v, 2 * j, path[j + 1]) /\ Len(path[j + 1]) = 2
            /\ path[j + 1][1] = E(j) /\ path[j + 1][2] = I(j)
        BY <2>2, <2>3, <2>4, <3>1
      <3> QED BY <3>2 DEF Stands
    <2> QED BY <1>0, <2>3, <2>4, <2>5
  <1> HIDE DEF end, v, path
  <1>6. q \in Seq(V) /\ Len(q) = 7 + 2 * Levels /\ Stands(q, 7, v) /\ Stands(q, 0, head)
    <2>0. q = head \o v
      OBVIOUS
    <2> HIDE DEF q
    <2>1. Appended(V, q, head, v)
      BY <1>4, <1>5, <2>0, StandsBehind
    <2> QED BY <1>2, <1>5, <2>1 DEF Appended
  <1> HIDE DEF q
  <1>7. Stands(w, 7 + 2 * Levels, end) /\ Stands(w, 0, q)
    <2>1. Appended(V, w, q, end)
      BY <1>1, <1>4, <1>6, StandsBehind
    <2> QED BY <1>6, <2>1 DEF Appended
  <1>8. \A j \in 1..(7 + 2 * Levels) : w[j] = q[j]
    <2>1. \A j \in 1..(7 + 2 * Levels) : w[0 + j] = q[j]
      BY <1>6, <1>7 DEF Stands
    <2>2. \A j \in 1..(7 + 2 * Levels) : 0 + j = j
      BY <1>0
    <2> QED BY <2>1, <2>2
  <1>9. \A j \in 1..7 : w[j] = head[j]
    <2>1. \A j \in 1..7 : q[0 + j] = head[j]
      BY <1>2, <1>6 DEF Stands
    <2>2. \A j \in 1..7 : 0 + j = j /\ j \in 1..(7 + 2 * Levels)
      BY <1>0
    <2> QED BY <1>8, <2>1, <2>2
  <1>10. ASSUME NEW j \in 0..(Levels - 1) PROVE w[8 + 2 * j] = E(j) /\ w[9 + 2 * j] = I(j)
    <2>1. /\ 2 * j + 1 \in 1..(2 * Levels) /\ 2 * j + 2 \in 1..(2 * Levels)
          /\ 7 + (2 * j + 1) = 8 + 2 * j /\ 7 + (2 * j + 2) = 9 + 2 * j
          /\ 8 + 2 * j \in 1..(7 + 2 * Levels) /\ 9 + 2 * j \in 1..(7 + 2 * Levels)
      BY <1>0
    <2>2. q[7 + (2 * j + 1)] = v[2 * j + 1] /\ q[7 + (2 * j + 2)] = v[2 * j + 2]
      BY <1>5, <1>6, <2>1 DEF Stands
    <2> QED BY <1>5, <1>8, <2>1, <2>2
  <1>11. w[8 + 2 * Levels] = e1 /\ w[9 + 2 * Levels] = e2
    <2>1. w[(7 + 2 * Levels) + 1] = end[1] /\ w[(7 + 2 * Levels) + 2] = end[2]
      BY <1>4, <1>7 DEF Stands
    <2>2. (7 + 2 * Levels) + 1 = 8 + 2 * Levels /\ (7 + 2 * Levels) + 2 = 9 + 2 * Levels
      BY <1>0
    <2> QED BY <1>4, <2>1, <2>2
  <1>12. /\ w[1] = head[1] /\ w[2] = head[2] /\ w[3] = head[3] /\ w[4] = head[4] /\ w[5] = head[5]
         /\ w[6] = head[6] /\ w[7] = head[7]
    BY <1>9
  <1> HIDE DEF c, n, m
  <1> QED BY <1>2, <1>10, <1>11, <1>12 DEF w, E, I, e1, e2, c, n, m

\* TransactionStatements: the statements of Transaction_run, by number.
LEMMA TransactionStatements ==
    LET run == Templates["Transaction"].run IN
    /\ Len(run) = 4 + Slots * Pass + 5 * Slots + 1
    /\ \A b \in 1..4 : run[b].op = "create"
    /\ run[1].template = "Poseidon3" /\ run[2].template = "Poseidon2"
    /\ run[3].template = "MerkleProof" /\ run[4].template = "Poseidon3"
    /\ \A i \in 0..(Slots - 1) : \A j \in 1..Pass : run[4 + i * Pass + j] = TransactionInput(i)[j]
    /\ \A i \in 0..(Slots - 1) : \A j \in 1..5 : run[4 + Slots * Pass + 5 * i + j] = TransactionOutput(i)[j]
    /\ run[4 + Slots * Pass + 5 * Slots + 1] = AssertSums
  <1> DEFINE run == Templates["Transaction"].run
             creates == TransactionCreate
             In_(i) == TransactionInput(i)
             Out(i) == TransactionOutput(i)
             ins == [i \in 1..Slots |-> In_(i - 1)]
             outs == [i \in 1..Slots |-> Out(i - 1)]
             end == <<AssertSums>>
             P == (UNION {InputStatements(i) : i \in 0..(Slots - 1)})
                  \cup (UNION {OutputStatements(i) : i \in 0..(Slots - 1)}) \cup {AssertSums}
             V == P \cup {creates[b] : b \in 1..4}
             v1 == FlattenSeq(ins)
             v2 == FlattenSeq(outs)
             q1 == creates \o v1
             q2 == q1 \o v2
             A == Slots * Pass
             B == 5 * Slots
  <1>0. /\ Slots \in Nat \ {0} /\ Slots \in Nat /\ Levels \in Nat /\ Pass \in Nat \ {0} /\ Pass = 9 + 2 * Levels
        /\ A \in Nat /\ B \in Nat
    <2>1. Slots \in Nat \ {0} /\ Slots \in Nat /\ Levels \in Nat /\ Pass \in Nat \ {0} /\ Pass = 9 + 2 * Levels
      BY ProgramAssumption DEF Pass
    <2>2. \A x, y \in Nat : x * y \in Nat
      OBVIOUS
    <2> QED BY <2>1, <2>2
  <1>1. run = q2 \o end
    BY TemplateValues DEF Transaction, For
  <1>2. /\ \A b \in 1..4 : creates[b].op = "create"
        /\ creates[1].template = "Poseidon3" /\ creates[2].template = "Poseidon2"
        /\ creates[3].template = "MerkleProof" /\ creates[4].template = "Poseidon3"
        /\ Len(creates) = 4 /\ creates = [b \in 1..4 |-> creates[b]]
    BY DEF TransactionCreate, Create
  <1>3. AssertSums \in V /\ \A b \in 1..4 : creates[b] \in V
    <2> HIDE DEF creates
    <2> QED OBVIOUS
  <1>4. \A i \in 0..(Slots - 1) : InputStatements(i) \subseteq V /\ OutputStatements(i) \subseteq V
    <2> HIDE DEF creates
    <2> QED OBVIOUS
  <1> HIDE DEF creates, V, run, In_, Out, A, B
  <1>5. \A i \in 0..(Slots - 1) : In_(i) \in Seq(V) /\ Len(In_(i)) = Pass /\ Out(i) \in Seq(V) /\ Len(Out(i)) = 5
    BY <1>0, <1>4, InputStatementsUse, OutputStatementsUse DEF In_, Out
  <1>6. creates \in Seq(V) /\ end \in Seq(V) /\ Len(end) = 1 /\ end[1] = AssertSums
    BY <1>2, <1>3
  <1>7. v1 \in Seq(V) /\ Len(v1) = A /\ \A i \in 0..(Slots - 1) : Stands(v1, i * Pass, In_(i))
    <2>1. ins \in [1..Slots -> Seq(V)] /\ \A i \in 1..Slots : Len(ins[i]) = Pass /\ ins[i] = In_(i - 1)
      BY <1>0, <1>5
    <2> HIDE DEF ins
    <2>2. v1 \in Seq(V) /\ Len(v1) = Slots * Pass /\ \A i \in 1..Slots : Stands(v1, (i - 1) * Pass, ins[i])
      <3>1. ins \in [1..Slots -> Seq(V)] /\ \A i \in 1..Slots : Len(ins[i]) = Pass
        BY <2>1
      <3> QED BY <1>0, <3>1, StandsLoop, Zenon
    <2> HIDE DEF v1
    <2>3. ASSUME NEW i \in 0..(Slots - 1) PROVE Stands(v1, i * Pass, In_(i))
      <3>1. i + 1 \in 1..Slots /\ (i + 1) - 1 = i
        BY <1>0
      <3> QED BY <2>1, <2>2, <3>1
    <2> QED BY <2>2, <2>3 DEF A
  <1>8. v2 \in Seq(V) /\ Len(v2) = B /\ \A i \in 0..(Slots - 1) : Stands(v2, 5 * i, Out(i))
    <2> DEFINE m == 5
    <2>0. m \in Nat \ {0} /\ m = 5 /\ \A i \in Nat : i * m = 5 * i
      OBVIOUS
    <2> HIDE DEF m
    <2>1. outs \in [1..Slots -> Seq(V)] /\ \A i \in 1..Slots : Len(outs[i]) = m /\ outs[i] = Out(i - 1)
      BY <1>0, <1>5, <2>0
    <2> HIDE DEF outs
    <2>2. v2 \in Seq(V) /\ Len(v2) = Slots * m /\ \A i \in 1..Slots : Stands(v2, (i - 1) * m, outs[i])
      <3>1. outs \in [1..Slots -> Seq(V)] /\ \A i \in 1..Slots : Len(outs[i]) = m
        BY <2>1
      <3> QED BY <1>0, <2>0, <3>1, StandsLoop
    <2> HIDE DEF v2
    <2>3. ASSUME NEW i \in 0..(Slots - 1) PROVE Stands(v2, 5 * i, Out(i))
      <3>1. i + 1 \in 1..Slots /\ (i + 1) - 1 = i /\ i \in Nat
        BY <1>0
      <3> QED BY <2>0, <2>1, <2>2, <3>1
    <2> QED BY <1>0, <2>0, <2>2, <2>3 DEF B
  <1> HIDE DEF end, v1, v2, ins, outs
  <1>9. q1 \in Seq(V) /\ Len(q1) = 4 + A /\ Stands(q1, 4, v1) /\ Stands(q1, 0, creates)
    <2>0. q1 = creates \o v1
      OBVIOUS
    <2> HIDE DEF q1
    <2>1. Appended(V, q1, creates, v1)
      BY <1>6, <1>7, <2>0, StandsBehind
    <2> QED BY <1>2, <1>7, <2>1 DEF Appended
  <1> HIDE DEF q1
  <1>10. q2 \in Seq(V) /\ Len(q2) = 4 + A + B /\ Stands(q2, 4 + A, v2) /\ Stands(q2, 0, q1)
    <2>0. q2 = q1 \o v2
      OBVIOUS
    <2> HIDE DEF q2
    <2>1. Appended(V, q2, q1, v2)
      BY <1>8, <1>9, <2>0, StandsBehind
    <2> QED BY <1>8, <1>9, <2>1 DEF Appended
  <1> HIDE DEF q2
  <1>11. Len(run) = 4 + A + B + 1 /\ Stands(run, 4 + A + B, end) /\ Stands(run, 0, q2)
    <2>1. Appended(V, run, q2, end)
      BY <1>1, <1>6, <1>10, StandsBehind
    <2> QED BY <1>6, <1>10, <2>1 DEF Appended
  <1>12. Len(run) \in Nat /\ Len(q2) \in Nat /\ Len(q1) \in Nat /\ Len(v1) \in Nat /\ Len(v2) \in Nat
    BY <1>0, <1>7, <1>8, <1>9, <1>10, <1>11
  <1>13. Stands(run, 0 + 0, q1)
    BY <1>10, <1>11, <1>12, StandsIn
  <1>14. \A b \in 1..4 : run[b] = creates[b]
    <2>1. Stands(run, (0 + 0) + 0, creates)
      <3>1. Len(creates) \in Nat
        BY <1>2
      <3> QED BY <1>9, <1>12, <1>13, <3>1, StandsIn
    <2>2. \A b \in 1..4 : run[((0 + 0) + 0) + b] = creates[b]
      BY <1>2, <2>1 DEF Stands
    <2>3. \A b \in 1..4 : ((0 + 0) + 0) + b = b
      OBVIOUS
    <2> QED BY <2>2, <2>3
  <1>15. ASSUME NEW i \in 0..(Slots - 1), NEW j \in 1..Pass PROVE run[4 + i * Pass + j] = In_(i)[j]
    <2>1. Stands(run, (0 + 0) + 4, v1)
      BY <1>9, <1>12, <1>13, StandsIn
    <2>2. Stands(run, ((0 + 0) + 4) + i * Pass, In_(i)) /\ Len(In_(i)) = Pass
      BY <1>0, <1>5, <1>7, <1>12, <2>1, StandsIn
    <2>3. run[(((0 + 0) + 4) + i * Pass) + j] = In_(i)[j]
      BY <2>2 DEF Stands
    <2>4. ((0 + 0) + 4) + i * Pass = 4 + i * Pass
      OBVIOUS
    <2> QED BY <2>3, <2>4
  <1>16. ASSUME NEW i \in 0..(Slots - 1), NEW j \in 1..5 PROVE run[4 + A + 5 * i + j] = Out(i)[j]
    <2>1. Stands(run, 0 + (4 + A), v2)
      BY <1>10, <1>11, <1>12, StandsIn
    <2>2. Stands(run, (0 + (4 + A)) + 5 * i, Out(i)) /\ Len(Out(i)) = 5
      BY <1>5, <1>8, <1>12, <2>1, StandsIn
    <2>3. run[((0 + (4 + A)) + 5 * i) + j] = Out(i)[j]
      BY <2>2 DEF Stands
    <2>4. ((0 + (4 + A)) + 5 * i) + j = 4 + A + 5 * i + j
      BY <1>0
    <2> QED BY <2>3, <2>4
  <1>17. run[4 + A + B + 1] = AssertSums
    BY <1>6, <1>11 DEF Stands
  <1> QED BY <1>2, <1>11, <1>14, <1>15, <1>16, <1>17 DEF run, In_, Out, A, B

\* TransactionKids: the sub-components of Transaction.
LEMMA TransactionKids ==
    /\ Kids("Transaction") = 4 * Slots
    /\ \A i \in 0..(Slots - 1) :
          /\ KidTemplate("Transaction", i + 1) = "Poseidon3" /\ KidTemplate("Transaction", Slots + i + 1) = "Poseidon2"
          /\ KidTemplate("Transaction", 2 * Slots + i + 1) = "MerkleProof"
          /\ KidTemplate("Transaction", 3 * Slots + i + 1) = "Poseidon3"
  <1> DEFINE t == "Transaction"
  <1>0. Slots \in Nat \ {0}
    BY ProgramAssumption
  <1>1. Blocks(t) = 4 /\ PerBlock(t) = Slots /\ t \in Names
    BY DEF Blocks, PerBlock, Names
  <1>2. /\ Templates[t].run[1].template = "Poseidon3" /\ Templates[t].run[2].template = "Poseidon2"
        /\ Templates[t].run[3].template = "MerkleProof" /\ Templates[t].run[4].template = "Poseidon3"
    BY TransactionStatements
  <1> HIDE DEF t
  <1>3. ASSUME NEW i \in 0..(Slots - 1)
        PROVE  /\ KidTemplate(t, i + 1) = "Poseidon3" /\ KidTemplate(t, Slots + i + 1) = "Poseidon2"
               /\ KidTemplate(t, 2 * Slots + i + 1) = "MerkleProof" /\ KidTemplate(t, 3 * Slots + i + 1) = "Poseidon3"
    <2>1. i \in 0..(PerBlock(t) - 1) /\ \A b \in 1..4 : b \in 1..Blocks(t)
      BY <1>1
    <2>2. \A b \in 1..4 : KidTemplate(t, (b - 1) * PerBlock(t) + 1 + i) = Templates[t].run[b].template
      BY <1>1, <2>1, KidOfBlock
    <2>3. /\ (1 - 1) * Slots + 1 + i = i + 1 /\ (2 - 1) * Slots + 1 + i = Slots + i + 1
          /\ (3 - 1) * Slots + 1 + i = 2 * Slots + i + 1 /\ (4 - 1) * Slots + 1 + i = 3 * Slots + i + 1
      BY <1>0
    <2>4. /\ KidTemplate(t, (1 - 1) * Slots + 1 + i) = "Poseidon3" /\ KidTemplate(t, (2 - 1) * Slots + 1 + i) = "Poseidon2"
          /\ KidTemplate(t, (3 - 1) * Slots + 1 + i) = "MerkleProof" /\ KidTemplate(t, (4 - 1) * Slots + 1 + i) = "Poseidon3"
      BY <1>1, <1>2, <2>2
    <2> QED BY <2>3, <2>4
  <1> QED BY <1>1, <1>3 DEF Kids, t

\* Products: a place in a table of rows.
LEMMA RowPlace ==
    ASSUME NEW s \in Nat, NEW m \in Nat, NEW i \in 0..(s - 1), NEW j \in 0..(m - 1)
    PROVE  m * i + j \in 0..(s * m - 1) /\ s * m \in Nat
  <1>1. i + 1 \in Nat /\ i \in Nat /\ i + 1 <= s
    OBVIOUS
  <1>2. (i + 1) * m = i * m + m /\ (i + 1) * m <= s * m /\ i * m \in Nat /\ s * m \in Nat /\ m * i = i * m
    BY <1>1, Multiples
  <1> QED BY <1>2

\* InputsReadable: the inputs of the transaction are there when it runs.
LEMMA InputsReadable ==
    ASSUME NEW n, NEW i \in 0..(Slots - 1)
    PROVE  /\ \A name \in {"nullifierHashes", "outCommitments", "inAmount", "inSecret", "inRecipient",
                           "outAmount", "outSecret", "outRecipient"} : Readable("Transaction", n, In(name, i))
           /\ Readable("Transaction", n, In("root", 0))
           /\ \A j \in 0..(Levels - 1) : /\ Readable("Transaction", n, In("inPathElements", Levels * i + j))
                                         /\ Readable("Transaction", n, In("inPathIndices", Levels * i + j))
  <1> DEFINE X == Slots * Levels
  <1>1. /\ InputOffset["root"] = 0 /\ InputOffset["nullifierHashes"] = 1 /\ InputOffset["outCommitments"] = 1 + Slots
        /\ InputOffset["inAmount"] = 1 + 2 * Slots /\ InputOffset["inSecret"] = 1 + 3 * Slots
        /\ InputOffset["inRecipient"] = 1 + 4 * Slots /\ InputOffset["inPathElements"] = 1 + 5 * Slots
        /\ InputOffset["inPathIndices"] = 1 + 5 * Slots + Slots * Levels
        /\ InputOffset["outAmount"] = 1 + 5 * Slots + 2 * Slots * Levels
        /\ InputOffset["outSecret"] = 1 + 5 * Slots + 2 * Slots * Levels + Slots
        /\ InputOffset["outRecipient"] = 1 + 5 * Slots + 2 * Slots * Levels + 2 * Slots
    BY DEF InputOffset
  <1>2. Slots \in Nat \ {0} /\ Levels \in Nat /\ InputCount = 1 + 8 * Slots + 2 * Slots * Levels
    BY ProgramAssumption DEF InputCount
  <1>3. X \in Nat /\ 2 * Slots * Levels = 2 * X /\ \A j \in 0..(Levels - 1) : Levels * i + j \in 0..(X - 1)
    <2>1. \A x, y \in Nat : x * y \in Nat /\ 2 * x * y = 2 * (x * y)
      OBVIOUS
    <2> QED BY <1>2, <2>1, RowPlace
  <1>4. InputCount = 1 + 8 * Slots + 2 * X
    BY <1>2, <1>3
  <1>5. \A o \in 0..(InputCount - 1) : Readable("Transaction", n, Self(o))
    BY TemplateInputs, ReadableOwn
  <1>6. ASSUME NEW name \in {"nullifierHashes", "outCommitments", "inAmount", "inSecret", "inRecipient",
                             "outAmount", "outSecret", "outRecipient"}
        PROVE  InputOffset[name] + i \in 0..(InputCount - 1)
    <2> HIDE DEF X
    <2> QED BY <1>1, <1>2, <1>3, <1>4
  <1>7. ASSUME NEW j \in 0..(Levels - 1)
        PROVE  /\ InputOffset["inPathElements"] + (Levels * i + j) \in 0..(InputCount - 1)
               /\ InputOffset["inPathIndices"] + (Levels * i + j) \in 0..(InputCount - 1)
    <2>1. InputOffset["inPathIndices"] = 1 + 5 * Slots + X
      BY <1>1
    <2> DEFINE y == Levels * i + j
    <2>2. y \in 0..(X - 1)
      BY <1>3
    <2> HIDE DEF X, y
    <2>3. InputOffset["inPathElements"] + y \in 0..(InputCount - 1) /\ InputOffset["inPathIndices"] + y \in 0..(InputCount - 1)
      BY <1>1, <1>2, <1>3, <1>4, <2>1, <2>2
    <2> QED BY <2>3 DEF y
  <1>8. InputOffset["root"] + 0 \in 0..(InputCount - 1)
    <2> HIDE DEF X
    <2> QED BY <1>1, <1>2, <1>3, <1>4
  <1> QED BY <1>5, <1>6, <1>7, <1>8 DEF In

\* TransactionGivenAt: where the inputs of the sub-components of Transaction are set.
LEMMA TransactionGivenAt ==
    ASSUME NEW i \in 0..(Slots - 1)
    PROVE  /\ \A o : GivenAt("Transaction", i + 1, o) = 4 + i * Pass + o
           /\ \A o : GivenAt("Transaction", Slots + i + 1, o) = 4 + i * Pass + 3 + o
           /\ \A o : GivenAt("Transaction", 2 * Slots + i + 1, o) =
                 4 + i * Pass + (IF o = 1 THEN 7 ELSE IF o <= Levels + 1 THEN 8 + 2 * (o - 2) ELSE 9 + 2 * (o - 2 - Levels))
           /\ \A o : GivenAt("Transaction", 3 * Slots + i + 1, o) = 4 + Slots * Pass + 5 * i + o
  <1>1. /\ (i + 1) - 1 = i /\ i + 1 <= Slots
        /\ (Slots + i + 1) - Slots - 1 = i /\ ~ (Slots + i + 1 <= Slots) /\ Slots + i + 1 <= 2 * Slots
        /\ (2 * Slots + i + 1) - 2 * Slots - 1 = i /\ ~ (2 * Slots + i + 1 <= Slots)
        /\ ~ (2 * Slots + i + 1 <= 2 * Slots) /\ 2 * Slots + i + 1 <= 3 * Slots
        /\ (3 * Slots + i + 1) - 3 * Slots - 1 = i /\ ~ (3 * Slots + i + 1 <= Slots)
        /\ ~ (3 * Slots + i + 1 <= 2 * Slots) /\ ~ (3 * Slots + i + 1 <= 3 * Slots)
    BY ProgramAssumption
  <1>2. \A o : GivenAt("Transaction", i + 1, o) = 4 + i * Pass + o
    BY <1>1 DEF GivenAt
  <1>3. \A o : GivenAt("Transaction", Slots + i + 1, o) = 4 + i * Pass + 3 + o
    BY <1>1 DEF GivenAt
  <1>4. \A o : GivenAt("Transaction", 2 * Slots + i + 1, o) =
           4 + i * Pass + (IF o = 1 THEN 7 ELSE IF o <= Levels + 1 THEN 8 + 2 * (o - 2) ELSE 9 + 2 * (o - 2 - Levels))
    BY <1>1 DEF GivenAt
  <1>5. \A o : GivenAt("Transaction", 3 * Slots + i + 1, o) = 4 + Slots * Pass + 5 * i + o
    BY <1>1 DEF GivenAt
  <1> QED BY <1>2, <1>3, <1>4, <1>5

\* InputInOrder: the statements for one input of the transaction.
LEMMA InputInOrder ==
    ASSUME NEW i \in 0..(Slots - 1), NEW j \in 1..Pass
    PROVE  InOrder("Transaction", 4 + i * Pass + j, TransactionInput(i)[j])
  <1> DEFINE t == "Transaction"
             w == TransactionInput(i)
             b == 4 + i * Pass
             c == i + 1
             n == Slots + i + 1
             m == 2 * Slots + i + 1
             R(x, r) == Readable(t, x, r)
             L == Levels
  <1>0. L \in Nat \ {0} /\ Pass = 9 + 2 * L /\ b \in Nat /\ i \in Nat
    <2>1. L \in Nat \ {0} /\ Pass = 9 + 2 * L /\ i \in Nat /\ Pass \in Nat
      BY ProgramAssumption DEF Pass
    <2>2. i * Pass \in Nat
      BY <2>1, Multiples
    <2> QED BY <2>1, <2>2
  <1>1. /\ w[1] = SetInput(c, 1, In("inAmount", i)) /\ w[2] = SetInput(c, 2, In("inSecret", i))
        /\ w[3] = SetInput(c, 3, In("inRecipient", i)) /\ w[4] = SetInput(n, 1, Sub(c, 0))
        /\ w[5] = SetInput(n, 2, In("inSecret", i)) /\ w[6] = AssertEqual(Sub(n, 0), In("nullifierHashes", i))
        /\ w[7] = SetInput(m, 1, Sub(c, 0))
    BY InputStatementsAt
  <1>2. /\ \A l \in 0..(L - 1) : /\ w[8 + 2 * l] = SetInput(m, 2 + l, In("inPathElements", L * i + l))
                                 /\ w[9 + 2 * l] = SetInput(m, 2 + L + l, In("inPathIndices", L * i + l))
        /\ w[8 + 2 * L] = AssertEqual(Sub(m, 0), In("root", 0)) /\ w[9 + 2 * L] = AddTo("ins", In("inAmount", i))
    BY InputStatementsAt
  <1>3. /\ KidTemplate(t, c) = "Poseidon3" /\ KidTemplate(t, n) = "Poseidon2" /\ KidTemplate(t, m) = "MerkleProof"
        /\ c \in 1..Kids(t) /\ n \in 1..Kids(t) /\ m \in 1..Kids(t)
    <2>1. Kids(t) = 4 * Slots /\ Slots \in Nat
      BY TransactionKids, ProgramAssumption
    <2>2. c \in 1..(4 * Slots) /\ n \in 1..(4 * Slots) /\ m \in 1..(4 * Slots)
      BY <2>1
    <2> QED BY <2>1, <2>2, TransactionKids
  <1>4. /\ Inputs(KidTemplate(t, c)) = 1..3 /\ Inputs(KidTemplate(t, n)) = 1..2
        /\ Inputs(KidTemplate(t, m)) = 1..(2 * L + 1)
        /\ 0 \in Own(KidTemplate(t, c)) /\ 0 \in Own(KidTemplate(t, n)) /\ 0 \in Own(KidTemplate(t, m))
    <2>1. 0 \in 0..3 /\ 0 \in 0..2 /\ 0 \in 0..(3 * L + 2)
      BY <1>0
    <2> QED BY <1>3, <2>1, TemplateInputs
  <1>5. /\ \A o : GivenAt(t, c, o) = b + o
        /\ \A o : GivenAt(t, n, o) = b + 3 + o
        /\ \A o : GivenAt(t, m, o) = b + (IF o = 1 THEN 7 ELSE IF o <= L + 1 THEN 8 + 2 * (o - 2) ELSE 9 + 2 * (o - 2 - L))
    BY TransactionGivenAt
  <1>6. \A x : /\ R(x, In("inAmount", i)) /\ R(x, In("inSecret", i)) /\ R(x, In("inRecipient", i))
               /\ R(x, In("nullifierHashes", i)) /\ R(x, In("root", 0))
               /\ \A l \in 0..(L - 1) : R(x, In("inPathElements", L * i + l)) /\ R(x, In("inPathIndices", L * i + l))
    BY InputsReadable
  <1> HIDE DEF t, w, b, c, n, m, L
  <1>7. R(b + 4, Sub(c, 0)) /\ R(b + 7, Sub(c, 0))
    <2>1. \A o \in 1..3 : GivenAt(t, c, o) < b + 4 /\ GivenAt(t, c, o) < b + 7
      BY <1>0, <1>5
    <2> QED BY <1>3, <1>4, <2>1, ReadableSub
  <1>8. R(b + 6, Sub(n, 0))
    <2>1. \A o \in 1..2 : GivenAt(t, n, o) < b + 6
      BY <1>0, <1>5
    <2> QED BY <1>3, <1>4, <2>1, ReadableSub
  <1>9. R(b + (8 + 2 * L), Sub(m, 0))
    <2>1. ASSUME NEW o \in 1..(2 * L + 1) PROVE GivenAt(t, m, o) < b + (8 + 2 * L)
      BY <1>0, <1>5
    <2> QED BY <1>3, <1>4, <2>1, ReadableSub
  <1>10. /\ InOrder(t, b + 1, w[1]) /\ InOrder(t, b + 2, w[2]) /\ InOrder(t, b + 3, w[3])
    <2>1. \A o \in 1..3 : o \in Inputs(KidTemplate(t, c)) /\ GivenAt(t, c, o) = b + o
      BY <1>4, <1>5
    <2> QED BY <1>1, <1>6, <2>1, SetInOrder
  <1>11. InOrder(t, b + 4, w[4]) /\ InOrder(t, b + 5, w[5])
    <2>1. /\ 1 \in Inputs(KidTemplate(t, n)) /\ GivenAt(t, n, 1) = b + 4
          /\ 2 \in Inputs(KidTemplate(t, n)) /\ GivenAt(t, n, 2) = b + 5
      BY <1>0, <1>4, <1>5
    <2> QED BY <1>1, <1>6, <1>7, <2>1, SetInOrder
  <1>12. InOrder(t, b + 6, w[6])
    BY <1>1, <1>6, <1>8, AssertInOrder
  <1>13. InOrder(t, b + 7, w[7])
    <2>1. 1 \in Inputs(KidTemplate(t, m)) /\ GivenAt(t, m, 1) = b + 7
      BY <1>0, <1>4, <1>5
    <2> QED BY <1>1, <1>7, <2>1, SetInOrder
  <1>14. ASSUME NEW l \in 0..(L - 1)
         PROVE  InOrder(t, b + (8 + 2 * l), w[8 + 2 * l]) /\ InOrder(t, b + (9 + 2 * l), w[9 + 2 * l])
    <2>1. 2 + l \in Inputs(KidTemplate(t, m)) /\ 2 + L + l \in Inputs(KidTemplate(t, m))
      BY <1>0, <1>4
    <2>2. /\ 2 + l # 1 /\ 2 + l <= L + 1 /\ (2 + l) - 2 = l
          /\ 2 + L + l # 1 /\ ~ (2 + L + l <= L + 1) /\ (2 + L + l) - 2 - L = l
      BY <1>0
    <2>3. GivenAt(t, m, 2 + l) = b + (8 + 2 * l) /\ GivenAt(t, m, 2 + L + l) = b + (9 + 2 * l)
      BY <1>5, <2>2
    <2> QED BY <1>2, <1>6, <2>1, <2>3, SetInOrder
  <1>15. InOrder(t, b + (8 + 2 * L), w[8 + 2 * L]) /\ InOrder(t, b + (9 + 2 * L), w[9 + 2 * L])
    BY <1>2, <1>6, <1>9, AssertInOrder, AddInOrder
  <1>16. \/ j \in {1, 2, 3, 4, 5, 6, 7} \/ j = 8 + 2 * L \/ j = 9 + 2 * L
         \/ \E l \in 0..(L - 1) : j = 8 + 2 * l \/ j = 9 + 2 * l
    <2> DEFINE l == (j - 8) \div 2
    <2>1. CASE j >= 8 /\ j <= 7 + 2 * L
      <3>1. l \in 0..(L - 1) /\ (j = 8 + 2 * l \/ j = 9 + 2 * l)
        BY <1>0, <2>1
      <3> QED BY <3>1
    <2>2. j \in Nat /\ j <= 9 + 2 * L /\ j >= 1
      BY <1>0
    <2>3. CASE ~ (j >= 8 /\ j <= 7 + 2 * L)
      BY <1>0, <2>2, <2>3
    <2> QED BY <2>1, <2>3
  <1>17. InOrder(t, b + j, w[j])
    BY <1>10, <1>11, <1>12, <1>13, <1>14, <1>15, <1>16
  <1> QED BY <1>17 DEF t, b, w

\* OutputInOrder: the statements for one output of the transaction.
LEMMA OutputInOrder ==
    ASSUME NEW i \in 0..(Slots - 1), NEW j \in 1..5
    PROVE  InOrder("Transaction", 4 + Slots * Pass + 5 * i + j, TransactionOutput(i)[j])
  <1> DEFINE t == "Transaction"
             w == TransactionOutput(i)
             b == 4 + Slots * Pass + 5 * i
             c == 3 * Slots + i + 1
             R(x, r) == Readable(t, x, r)
  <1>0. b \in Nat
    <2>1. Slots \in Nat /\ Pass \in Nat
      BY ProgramAssumption DEF Pass
    <2>2. Slots * Pass \in Nat
      BY <2>1, Multiples
    <2> QED BY <2>2
  <1>1. /\ w[1] = SetInput(c, 1, In("outAmount", i)) /\ w[2] = SetInput(c, 2, In("outSecret", i))
        /\ w[3] = SetInput(c, 3, In("outRecipient", i)) /\ w[4] = AssertEqual(Sub(c, 0), In("outCommitments", i))
        /\ w[5] = AddTo("outs", In("outAmount", i))
    BY DEF TransactionOutput
  <1>2. KidTemplate(t, c) = "Poseidon3" /\ c \in 1..Kids(t)
    <2>1. Kids(t) = 4 * Slots /\ Slots \in Nat
      BY TransactionKids, ProgramAssumption
    <2>2. c \in 1..(4 * Slots)
      BY <2>1
    <2> QED BY <2>1, <2>2, TransactionKids
  <1>3. Inputs(KidTemplate(t, c)) = 1..3 /\ 0 \in Own(KidTemplate(t, c))
    <2>1. 0 \in 0..3
      OBVIOUS
    <2> QED BY <1>2, <2>1, TemplateInputs
  <1>4. \A o : GivenAt(t, c, o) = b + o
    BY TransactionGivenAt
  <1>5. \A x : R(x, In("outAmount", i)) /\ R(x, In("outSecret", i)) /\ R(x, In("outRecipient", i)) /\ R(x, In("outCommitments", i))
    BY InputsReadable
  <1> HIDE DEF t, w, b, c
  <1>6. R(b + 4, Sub(c, 0))
    <2>1. \A o \in 1..3 : GivenAt(t, c, o) < b + 4
      BY <1>0, <1>4
    <2> QED BY <1>2, <1>3, <2>1, ReadableSub
  <1>7. InOrder(t, b + 1, w[1]) /\ InOrder(t, b + 2, w[2]) /\ InOrder(t, b + 3, w[3])
    <2>1. \A o \in 1..3 : o \in Inputs(KidTemplate(t, c)) /\ GivenAt(t, c, o) = b + o
      BY <1>3, <1>4
    <2> QED BY <1>1, <1>5, <2>1, SetInOrder
  <1>8. InOrder(t, b + 4, w[4]) /\ InOrder(t, b + 5, w[5])
    BY <1>1, <1>5, <1>6, AssertInOrder, AddInOrder
  <1>9. j \in {1, 2, 3, 4, 5}
    OBVIOUS
  <1>10. InOrder(t, b + j, w[j])
    BY <1>7, <1>8, <1>9
  <1> QED BY <1>10 DEF t, b, w

\* PassWithin: the statements of one pass are within the run.
LEMMA PassWithin ==
    ASSUME NEW i \in 0..(Slots - 1)
    PROVE  /\ i * Pass \in Nat /\ Slots * Pass \in Nat /\ i * Pass + Pass <= Slots * Pass
           /\ Pass = 9 + 2 * Levels /\ Pass \in Nat \ {0} /\ Levels \in Nat \ {0} /\ Slots \in Nat \ {0} /\ i \in Nat
  <1>1. Pass = 9 + 2 * Levels /\ Pass \in Nat \ {0} /\ Levels \in Nat \ {0} /\ Slots \in Nat \ {0} /\ i \in Nat
    BY ProgramAssumption DEF Pass
  <1>2. i + 1 \in Nat /\ i + 1 <= Slots
    BY <1>1
  <1>3. i * Pass \in Nat /\ Slots * Pass \in Nat /\ (i + 1) * Pass = i * Pass + Pass /\ (i + 1) * Pass <= Slots * Pass
    BY <1>1, <1>2, Multiples
  <1> QED BY <1>1, <1>3

\* InputGives, OutputGives: the statement that sets an input of a sub-component.
LEMMA InputGives ==
    ASSUME NEW i \in 0..(Slots - 1), NEW j \in 1..Pass, NEW k, NEW o, NEW r, TransactionInput(i)[j] = SetInput(k, o, r)
    PROVE  Gives("Transaction", 4 + i * Pass + j, k, o)
  <1> DEFINE run == Templates["Transaction"].run
             n == 4 + i * Pass + j
  <1>1. run[n] = SetInput(k, o, r) /\ Len(run) = 4 + Slots * Pass + 5 * Slots + 1
    BY TransactionStatements
  <1>2. n \in 1..(4 + Slots * Pass + 5 * Slots + 1)
    <2> DEFINE x == i * Pass
               y == Slots * Pass
    <2>1. x \in Nat /\ y \in Nat /\ x + Pass <= y /\ Pass \in Nat /\ Slots \in Nat
      BY PassWithin
    <2> HIDE DEF x, y
    <2>2. 4 + x + j \in 1..(4 + y + 5 * Slots + 1)
      BY <2>1
    <2> QED BY <2>2 DEF x, y
  <1> HIDE DEF run, n
  <1>3. run[n].op = "set" /\ run[n].sub = k /\ run[n].at = o
    BY <1>1, SetsThat
  <1>4. Gives("Transaction", n, k, o)
    BY <1>1, <1>2, <1>3 DEF Gives, run
  <1> QED BY <1>4 DEF n

\* OutputGives: a statement of the commitment of an output note gives what it says.
LEMMA OutputGives ==
    ASSUME NEW i \in 0..(Slots - 1), NEW j \in 1..5, NEW k, NEW o, NEW r, TransactionOutput(i)[j] = SetInput(k, o, r)
    PROVE  Gives("Transaction", 4 + Slots * Pass + 5 * i + j, k, o)
  <1> DEFINE run == Templates["Transaction"].run
             n == 4 + Slots * Pass + 5 * i + j
  <1>1. run[n] = SetInput(k, o, r) /\ Len(run) = 4 + Slots * Pass + 5 * Slots + 1
    BY TransactionStatements
  <1>2. n \in 1..(4 + Slots * Pass + 5 * Slots + 1)
    <2> DEFINE y == Slots * Pass
    <2>1. y \in Nat /\ Slots \in Nat /\ i \in Nat
      BY PassWithin
    <2> HIDE DEF y
    <2>2. 4 + y + 5 * i + j \in 1..(4 + y + 5 * Slots + 1)
      BY <2>1
    <2> QED BY <2>2 DEF y
  <1> HIDE DEF run, n
  <1>3. run[n].op = "set" /\ run[n].sub = k /\ run[n].at = o
    BY <1>1, SetsThat
  <1>4. Gives("Transaction", n, k, o)
    BY <1>1, <1>2, <1>3 DEF Gives, run
  <1> QED BY <1>4 DEF n

\* TransactionGives: every input of every sub-component of Transaction is set.
LEMMA TransactionGives ==
    ASSUME NEW k \in 1..Kids("Transaction"), NEW o \in Inputs(KidTemplate("Transaction", k))
    PROVE  Gives("Transaction", GivenAt("Transaction", k, o), k, o)
  <1> DEFINE t == "Transaction"
  <1>0. Slots \in Nat \ {0} /\ Levels \in Nat \ {0}
    BY ProgramAssumption
  <1>1. \E i \in 0..(Slots - 1) : k = i + 1 \/ k = Slots + i + 1 \/ k = 2 * Slots + i + 1 \/ k = 3 * Slots + i + 1
    <2>1. k \in 1..(4 * Slots)
      BY TransactionKids
    <2>2. \/ k - 1 \in 0..(Slots - 1) /\ k = (k - 1) + 1
          \/ k - Slots - 1 \in 0..(Slots - 1) /\ k = Slots + (k - Slots - 1) + 1
          \/ k - 2 * Slots - 1 \in 0..(Slots - 1) /\ k = 2 * Slots + (k - 2 * Slots - 1) + 1
          \/ k - 3 * Slots - 1 \in 0..(Slots - 1) /\ k = 3 * Slots + (k - 3 * Slots - 1) + 1
      BY <1>0, <2>1
    <2> QED BY <2>2
  <1>2. PICK i \in 0..(Slots - 1) : k = i + 1 \/ k = Slots + i + 1 \/ k = 2 * Slots + i + 1 \/ k = 3 * Slots + i + 1
    BY <1>1
  <1> DEFINE x == i * Pass
             w == TransactionInput(i)
  <1>3. x \in Nat /\ Pass = 9 + 2 * Levels
    BY PassWithin
  <1>4. CASE k = i + 1
    <2>1. o \in 1..3 /\ GivenAt(t, k, o) = 4 + x + o
      BY <1>4, TransactionKids, TemplateInputs, TransactionGivenAt
    <2>2. o \in 1..Pass
      BY <1>0, <1>3, <2>1
    <2>3. \E r : w[o] = SetInput(k, o, r)
      <3>1. /\ w[1] = SetInput(k, 1, In("inAmount", i)) /\ w[2] = SetInput(k, 2, In("inSecret", i))
            /\ w[3] = SetInput(k, 3, In("inRecipient", i))
        BY <1>4, InputStatementsAt
      <3>2. o = 1 \/ o = 2 \/ o = 3
        BY <2>1
      <3> HIDE DEF w
      <3> QED BY <3>1, <3>2
    <2> QED BY <2>1, <2>2, <2>3, InputGives
  <1>5. CASE k = Slots + i + 1
    <2>1. o \in 1..2 /\ GivenAt(t, k, o) = 4 + x + 3 + o
      BY <1>5, TransactionKids, TemplateInputs, TransactionGivenAt
    <2>2. 3 + o \in 1..Pass /\ 4 + x + 3 + o = 4 + x + (3 + o)
      BY <1>0, <1>3, <2>1
    <2>3. \E r : w[3 + o] = SetInput(k, o, r)
      <3>1. /\ w[4] = SetInput(k, 1, Sub(i + 1, 0)) /\ w[5] = SetInput(k, 2, In("inSecret", i))
        BY <1>5, InputStatementsAt
      <3>2. o = 1 \/ o = 2
        BY <2>1
      <3> HIDE DEF w
      <3> QED BY <3>1, <3>2
    <2> QED BY <2>1, <2>2, <2>3, InputGives
  <1>6. CASE k = 2 * Slots + i + 1
    <2>1. /\ o \in 1..(2 * Levels + 1)
          /\ GivenAt(t, k, o) = 4 + x + (IF o = 1 THEN 7 ELSE IF o <= Levels + 1 THEN 8 + 2 * (o - 2) ELSE 9 + 2 * (o - 2 - Levels))
      <3>1. KidTemplate("Transaction", k) = "MerkleProof"
        BY <1>6, TransactionKids
      <3>2. o \in 1..(2 * Levels + 1)
        BY <3>1, TemplateInputs
      <3>3. \A p : GivenAt("Transaction", 2 * Slots + i + 1, p) =
              4 + i * Pass + (IF p = 1 THEN 7 ELSE IF p <= Levels + 1 THEN 8 + 2 * (p - 2) ELSE 9 + 2 * (p - 2 - Levels))
        BY TransactionGivenAt
      <3>4. GivenAt(t, k, o) = 4 + x + (IF o = 1 THEN 7 ELSE IF o <= Levels + 1 THEN 8 + 2 * (o - 2) ELSE 9 + 2 * (o - 2 - Levels))
        BY <1>6, <3>3, Zenon
      <3> QED BY <3>2, <3>4
    <2>2. /\ w[7] = SetInput(k, 1, Sub(i + 1, 0))
          /\ \A j \in 0..(Levels - 1) : /\ w[8 + 2 * j] = SetInput(k, 2 + j, In("inPathElements", Levels * i + j))
                                        /\ w[9 + 2 * j] = SetInput(k, 2 + Levels + j, In("inPathIndices", Levels * i + j))
      BY <1>6, InputStatementsAt
    <2> HIDE DEF w
    <2>3. CASE o = 1
      <3>1. GivenAt(t, k, o) = 4 + x + 7 /\ 7 \in 1..Pass
        BY <1>0, <1>3, <2>1, <2>3
      <3> QED BY <2>2, <2>3, <3>1, InputGives DEF w
    <2>4. CASE o # 1 /\ o <= Levels + 1
      <3> DEFINE j == o - 2
      <3>1. j \in 0..(Levels - 1) /\ 2 + j = o /\ GivenAt(t, k, o) = 4 + x + (8 + 2 * j) /\ 8 + 2 * j \in 1..Pass
        BY <1>0, <1>3, <2>1, <2>4
      <3>2. w[8 + 2 * j] = SetInput(k, o, In("inPathElements", Levels * i + j))
        BY <2>2, <3>1
      <3> QED BY <3>1, <3>2, InputGives DEF w
    <2>5. CASE o # 1 /\ ~ (o <= Levels + 1)
      <3> DEFINE j == o - 2 - Levels
      <3>1. j \in 0..(Levels - 1) /\ 2 + Levels + j = o /\ GivenAt(t, k, o) = 4 + x + (9 + 2 * j) /\ 9 + 2 * j \in 1..Pass
        BY <1>0, <1>3, <2>1, <2>5
      <3>2. w[9 + 2 * j] = SetInput(k, o, In("inPathIndices", Levels * i + j))
        BY <2>2, <3>1
      <3> QED BY <3>1, <3>2, InputGives DEF w
    <2> QED BY <2>3, <2>4, <2>5
  <1>7. CASE k = 3 * Slots + i + 1
    <2>1. o \in 1..3 /\ GivenAt(t, k, o) = 4 + Slots * Pass + 5 * i + o
      BY <1>7, TransactionKids, TemplateInputs, TransactionGivenAt
    <2>2. o \in 1..5
      BY <2>1
    <2>3. \E r : TransactionOutput(i)[o] = SetInput(k, o, r)
      <3> DEFINE v == TransactionOutput(i)
      <3>1. /\ v[1] = SetInput(k, 1, In("outAmount", i)) /\ v[2] = SetInput(k, 2, In("outSecret", i))
            /\ v[3] = SetInput(k, 3, In("outRecipient", i))
        BY <1>7 DEF TransactionOutput
      <3>2. o = 1 \/ o = 2 \/ o = 3
        BY <2>1
      <3> HIDE DEF v
      <3>3. \E r : v[o] = SetInput(k, o, r)
        BY <3>1, <3>2
      <3> QED BY <3>3 DEF v
    <2> QED BY <2>1, <2>2, <2>3, OutputGives
  <1> QED BY <1>2, <1>4, <1>5, <1>6, <1>7

\* TransactionOrdered: Transaction_run gives every hasher and every tree each input once,
\* and reads their outputs when they have been computed.
LEMMA TransactionOrdered == Ordered("Transaction")
  <1> DEFINE t == "Transaction"
             run == Templates[t].run
             A == Slots * Pass
             B == 5 * Slots
  <1>0. /\ Slots \in Nat \ {0} /\ Pass \in Nat \ {0} /\ A \in Nat /\ B \in Nat
    <2>1. 0 \in 0..(Slots - 1)
      BY ProgramAssumption
    <2> QED BY <2>1, PassWithin
  <1>1. /\ Len(run) = 4 + A + B + 1
        /\ \A b \in 1..4 : run[b].op = "create"
        /\ \A i \in 0..(Slots - 1) : \A j \in 1..Pass : run[4 + i * Pass + j] = TransactionInput(i)[j]
        /\ \A i \in 0..(Slots - 1) : \A j \in 1..5 : run[4 + A + 5 * i + j] = TransactionOutput(i)[j]
        /\ run[4 + A + B + 1] = AssertSums
    BY TransactionStatements
  <1>2. Outs(t) = {}
    BY TemplateInputs DEF Outs
  <1> HIDE DEF t, run, A, B
  <1>3. ASSUME NEW n \in 1..Len(run) PROVE InOrder(t, n, run[n])
    <2>0. n \in Nat /\ n >= 1 /\ n <= 4 + A + B + 1
      BY <1>0, <1>1
    <2>1. CASE n <= 4
      <3>1. n \in 1..4
        BY <2>0, <2>1
      <3> QED BY <1>1, <3>1, OtherInOrder
    <2>2. CASE n > 4 /\ n <= 4 + A
      <3> DEFINE i == (n - 5) \div Pass
                 j == ((n - 5) % Pass) + 1
                 x == i * Pass
      <3>0. n - 5 \in Nat
        BY <2>0, <2>2
      <3>1. i \in Nat /\ j \in 1..Pass /\ n - 5 = x + (j - 1)
        BY <1>0, <3>0
      <3>2. i \in 0..(Slots - 1)
        <4>1. CASE i >= Slots
          <5>1. x >= A /\ x \in Nat
            <6> HIDE DEF i, j
            <6>1. x \in Nat /\ Slots * Pass <= i * Pass
              BY <1>0, <3>1, <4>1, Multiples
            <6> QED BY <1>0, <6>1 DEF A
          <5> HIDE DEF x, i, j
          <5> QED BY <1>0, <2>0, <2>2, <3>1, <5>1
        <4> HIDE DEF i, j, x
        <4> QED BY <1>0, <3>1, <4>1
      <3>3. n = 4 + x + j
        <4>1. x \in Nat
          <5> HIDE DEF i, j
          <5> QED BY <1>0, <3>1, Multiples
        <4> HIDE DEF x, i, j
        <4> QED BY <1>0, <2>0, <3>1, <4>1
      <3>4. run[4 + i * Pass + j] = TransactionInput(i)[j]
        <4> HIDE DEF i, j
        <4> QED BY <1>1, <3>1, <3>2
      <3>5. InOrder(t, 4 + i * Pass + j, TransactionInput(i)[j])
        <4> HIDE DEF i, j
        <4> QED BY <3>1, <3>2, InputInOrder DEF t
      <3> HIDE DEF i, j
      <3> QED BY <3>3, <3>4, <3>5
    <2>3. CASE n > 4 + A /\ n <= 4 + A + B
      <3> DEFINE i == (n - 5 - A) \div 5
                 j == ((n - 5 - A) % 5) + 1
      <3>1. i \in 0..(Slots - 1) /\ j \in 1..5 /\ n = 4 + A + 5 * i + j
        BY <1>0, <2>0, <2>3 DEF B
      <3> HIDE DEF i, j
      <3>2. InOrder(t, 4 + A + 5 * i + j, TransactionOutput(i)[j])
        BY <3>1, OutputInOrder DEF t, A
      <3> QED BY <1>1, <3>1, <3>2
    <2>4. CASE n = 4 + A + B + 1
      <3>1. run[n].op = "assertSums"
        BY <1>1, <2>4 DEF AssertSums
      <3> QED BY <3>1, OtherInOrder
    <2> QED BY <1>0, <2>0, <2>1, <2>2, <2>3, <2>4
  <1>4. \A k \in 1..Kids(t) : \A o \in Inputs(KidTemplate(t, k)) : Gives(t, GivenAt(t, k, o), k, o)
    BY TransactionGives DEF t
  <1> QED BY <1>2, <1>3, <1>4 DEF Ordered, run, t

\* ProgramOrdered: so does every template that has statements.
LEMMA ProgramOrdered == \A t \in Runners : Ordered(t)
  <1>1. Ordered("Poseidon2") /\ Ordered("Poseidon3")
    BY PoseidonOrdered
  <1> QED BY <1>1, MerkleOrdered, TransactionOrdered DEF Runners

(***************************************************************************)
(* The step of a program: what it writes, to whom it belongs, and why the  *)
(* counters, the calls and the components stay in agreement.               *)
(***************************************************************************)
\* OwnSignals: the signals of a template: inputs and outputs are its own, and its own are
\* within its region.
LEMMA OwnSignals ==
    ASSUME NEW t \in Names
    PROVE  /\ Templates[t].own \in Nat /\ Extent(t) \in Nat /\ Templates[t].own <= Extent(t)
           /\ \A o \in Own(t) : o \in Nat /\ o < Templates[t].own
           /\ Inputs(t) \subseteq Own(t) /\ Templates[t].inputs \in Nat \ {0} /\ Templates[t].firstInput \in Nat
  <1>1. Templates[t].own \in Nat /\ Extent(t) \in Nat /\ Templates[t].inputs \in Nat \ {0}
    BY ProgramShape DEF Shape
  <1>2. \A o \in Own(t) : o \in Nat /\ o < Templates[t].own
    BY <1>1 DEF Own
  <1>3. Templates[t].firstInput \in Nat
    <2>1. /\ PoseidonEx(2).firstInput = 1 /\ PoseidonEx(3).firstInput = 1 /\ MultiMux1.firstInput = 2
          /\ Poseidon(2).firstInput = 1 /\ Poseidon(3).firstInput = 1 /\ MerkleProof.firstInput = 1
      BY DEF PoseidonEx, MultiMux1, Poseidon, MerkleProof
    <2>2. Transaction.firstInput = 0
      BY DEF Transaction
    <2>3. 0 \in Nat /\ 1 \in Nat /\ 2 \in Nat
      OBVIOUS
    <2> QED BY <2>1, <2>2, <2>3, TemplateValues, Zenon DEF Names
  <1>4. Inputs(t) \subseteq Own(t)
    <2>1. Levels \in Nat \ {0}
      BY ProgramAssumption
    <2>2. 1..(2 * Levels + 1) \subseteq 0..(3 * Levels + 2)
      BY <2>1
    <2>3. /\ 1..3 \subseteq 0..3 /\ 1..4 \subseteq 0..4 /\ 2..6 \subseteq 0..6 /\ 1..2 \subseteq 0..2
      OBVIOUS
    <2> QED BY <2>2, <2>3, TemplateInputs, Zenon DEF Names
  <1>5. Templates[t].own <= Extent(t)
    <2>1. CASE Kids(t) # 0
      <3>1. Kids(t) \in Nat /\ KidSignal(t, 1) = Templates[t].own
        BY <2>1, KidsFollow
      <3>2. 1 \in 1..Kids(t)
        BY <2>1, <3>1
      <3>3. KidSignal(t, 1) + Extent(KidTemplate(t, 1)) <= Extent(t) /\ Extent(KidTemplate(t, 1)) \in Nat
        BY <3>2, KidTypes, KidWithin
      <3> QED BY <1>1, <3>1, <3>3
    <2>2. CASE Kids(t) = 0
      <3>1. t \in {"PoseidonEx2", "PoseidonEx3", "MultiMux1"}
        <4>1. Slots \in Nat \ {0} /\ Levels \in Nat \ {0}
          BY ProgramAssumption
        <4>2. /\ Kids("Poseidon2") = 1 * 1 /\ Kids("Poseidon3") = 1 * 1
              /\ Kids("MerkleProof") = 2 * Levels /\ Kids("Transaction") = 4 * Slots
          BY DEF Kids, Blocks, PerBlock
        <4>3. 1 * 1 # 0 /\ 2 * Levels # 0 /\ 4 * Slots # 0
          BY <4>1
        <4> QED BY <2>2, <4>2, <4>3, Zenon DEF Names
      <3>2. /\ Templates["PoseidonEx2"].own = 4 /\ Templates["PoseidonEx3"].own = 5 /\ Templates["MultiMux1"].own = 7
        BY TemplateValues DEF PoseidonEx, MultiMux1
      <3>3. CASE t = "PoseidonEx2"
        BY <3>2, <3>3, HasherNumbers
      <3>4. CASE t = "PoseidonEx3"
        BY <3>2, <3>4, HasherNumbers
      <3>5. CASE t = "MultiMux1"
        BY <3>2, <3>5, HasherNumbers
      <3> QED BY <3>1, <3>3, <3>4, <3>5
    <2> QED BY <2>1, <2>2
  <1> QED BY <1>1, <1>2, <1>3, <1>4, <1>5

\* InputsInterval: the inputs of a component are consecutive signals.
LEMMA InputsInterval ==
    ASSUME NEW cs, NEW x, cs[x].template \in Names, cs[x].signalStart \in Nat
    PROVE  LET first == cs[x].signalStart + Templates[cs[x].template].firstInput
               n == Templates[cs[x].template].inputs
           IN  /\ InputsOf(cs, x) = first..(first + n - 1) /\ IsFiniteSet(InputsOf(cs, x))
               /\ Cardinality(InputsOf(cs, x)) = n
  <1> DEFINE b == cs[x].signalStart
             t == cs[x].template
             f == Templates[t].firstInput
             n == Templates[t].inputs
             first == b + f
  <1>1. b \in Nat /\ f \in Nat /\ n \in Nat \ {0}
    BY OwnSignals
  <1>2. Inputs(t) = f..(f + n - 1)
    BY DEF Inputs
  <1>3. InputsOf(cs, x) = {b + o : o \in Inputs(t)}
    BY DEF InputsOf, At
  <1> HIDE DEF b, t, f, n
  <1>4. InputsOf(cs, x) = first..(first + n - 1)
    <2>1. \A a \in first..(first + n - 1) : a - b \in f..(f + n - 1) /\ b + (a - b) = a
      BY <1>1
    <2>2. \A o \in f..(f + n - 1) : b + o \in first..(first + n - 1)
      BY <1>1
    <2> QED BY <1>2, <1>3, <2>1, <2>2
  <1>5. first \in Int /\ first + n - 1 \in Int /\ ~ (first > first + n - 1) /\ (first + n - 1) - first + 1 = n
    BY <1>1
  <1>6. IsFiniteSet(InputsOf(cs, x)) /\ Cardinality(InputsOf(cs, x)) = n
    <2> HIDE DEF first
    <2> QED BY <1>4, <1>5, FS_Interval
  <1> QED BY <1>4, <1>6 DEF b, t, f, n

\* OwnersDiffer: a signal belongs to one component, in one place of it.
LEMMA OwnersDiffer ==
    ASSUME NEW cs, Memory(cs), Apart(cs), NEW x \in DOMAIN cs, NEW y \in DOMAIN cs,
           NEW o \in Own(cs[x].template), NEW q \in Own(cs[y].template), At(cs, x, o) = At(cs, y, q)
    PROVE  x = y /\ o = q
  <1>1. ASSUME NEW u \in DOMAIN cs, NEW v \in DOMAIN cs, u < v, NEW i \in Own(cs[u].template), NEW j \in Own(cs[v].template)
        PROVE  At(cs, u, i) < At(cs, v, j)
    <2> DEFINE a == cs[u].signalStart
               b == cs[v].signalStart
               n == Templates[cs[u].template].own
               e == Extent(cs[u].template)
    <2>1. a \in Nat /\ b \in Nat /\ n \in Nat /\ e \in Nat /\ n <= e /\ i \in Nat /\ i < n /\ j \in Nat
      BY CellTypes, OwnSignals
    <2>2. a + n <= b \/ a + e <= b
      BY <1>1 DEF Apart, Within, Before, At
    <2>3. At(cs, u, i) = a + i /\ At(cs, v, j) = b + j
      BY DEF At
    <2> HIDE DEF a, b, n, e
    <2> QED BY <2>1, <2>2, <2>3
  <1>2. x \in Nat /\ y \in Nat /\ cs[x].signalStart \in Nat /\ o \in Nat /\ q \in Nat
    BY CellTypes, OwnSignals
  <1>3. At(cs, x, o) \in Nat /\ At(cs, y, q) \in Nat
    BY <1>2, CellTypes DEF At
  <1>4. x = y
    <2>1. ~ (x < y) /\ ~ (y < x)
      BY <1>1, <1>3
    <2> QED BY <1>2, <2>1
  <1>5. cs[x].signalStart + o = cs[x].signalStart + q
    BY <1>4 DEF At
  <1> QED BY <1>2, <1>4, <1>5

\* KidFacts: the sub-components of a component.
LEMMA KidFacts ==
    ASSUME NEW cs, Memory(cs), NEW p \in DOMAIN cs, NEW k \in 1..Len(cs[p].subcomponents)
    PROVE  LET x == cs[p].subcomponents[k] IN
           /\ k \in 1..Kids(cs[p].template) /\ x \in DOMAIN cs /\ x = p + KidPlace(cs[p].template, k)
           /\ cs[x].template = KidTemplate(cs[p].template, k)
           /\ cs[x].signalStart = cs[p].signalStart + KidSignal(cs[p].template, k)
           /\ p < x /\ x + Size(cs[x].template) <= p + Size(cs[p].template)
  <1> DEFINE t == cs[p].template
             x == cs[p].subcomponents[k]
  <1>1. p \in Nat /\ t \in Names /\ Laid(cs, p) /\ Len(cs[p].subcomponents) \in Nat /\ Size(t) \in Nat
    BY CellTypes DEF Memory
  <1>2. Kids(t) \in Nat /\ k \in 1..Kids(t)
    BY <1>1, KidsFollow DEF Laid
  <1>3. /\ x = p + KidPlace(t, k) /\ x \in DOMAIN cs /\ cs[x].template = KidTemplate(t, k)
        /\ cs[x].signalStart = cs[p].signalStart + KidSignal(t, k)
    BY <1>1 DEF Laid
  <1> DEFINE c == KidPlace(t, k)
             z == Size(KidTemplate(t, k))
             w == Size(t)
  <1>4. c \in Nat \ {0} /\ z \in Nat /\ c + z <= w /\ w \in Nat
    BY <1>1, <1>2, KidTypes, KidWithin
  <1>5. p < p + c /\ (p + c) + z <= p + w
    <2> HIDE DEF c, z, w, t
    <2> QED BY <1>1, <1>4
  <1> QED BY <1>2, <1>3, <1>5

\* KidsDiffer: the sub-components of a component are different.
LEMMA KidsDiffer ==
    ASSUME NEW cs, Memory(cs), NEW p \in DOMAIN cs, NEW j \in 1..Len(cs[p].subcomponents),
           NEW k \in 1..Len(cs[p].subcomponents), cs[p].subcomponents[j] = cs[p].subcomponents[k]
    PROVE  j = k
  <1> DEFINE t == cs[p].template
  <1>1. p \in Nat /\ t \in Names
    BY CellTypes
  <1>2. ASSUME NEW u \in 1..Len(cs[p].subcomponents), NEW v \in 1..Len(cs[p].subcomponents), u < v
        PROVE  cs[p].subcomponents[u] < cs[p].subcomponents[v]
    <2>1. /\ u \in 1..Kids(t) /\ v \in 1..Kids(t)
          /\ cs[p].subcomponents[u] = p + KidPlace(t, u) /\ cs[p].subcomponents[v] = p + KidPlace(t, v)
      BY KidFacts
    <2> DEFINE a == KidPlace(t, u)
               b == KidPlace(t, v)
               z == Size(KidTemplate(t, u))
    <2>2. a \in Nat /\ b \in Nat /\ z \in Nat \ {0} /\ a + z <= b
      BY <1>1, <1>2, <2>1, KidTypes, KidsApart
    <2>3. p + a < p + b
      <3> HIDE DEF a, b, z
      <3> QED BY <1>1, <2>2
    <2> QED BY <2>1, <2>3
  <1>3. cs[p].subcomponents[j] \in Nat /\ j \in Nat /\ k \in Nat
    BY KidFacts, CellTypes
  <1>4. ~ (j < k) /\ ~ (k < j)
    BY <1>2, <1>3
  <1> QED BY <1>3, <1>4

\* KidOfOne: a sub-component of a call under way is not one of a call in its region.
LEMMA KidOfOne ==
    ASSUME NEW cs, Memory(cs), NEW a \in DOMAIN cs, Tidy(cs, a), NEW p \in DOMAIN cs, Inside(cs, a, p),
           NEW j \in 1..Len(cs[a].subcomponents), NEW k \in 1..Len(cs[p].subcomponents)
    PROVE  cs[a].subcomponents[j] # cs[p].subcomponents[k]
  <1> DEFINE t == cs[a].template
             x == cs[p].subcomponents[k]
             m == Len(cs[a].subcomponents)
  <1>1. Laid(cs, a) /\ a \in Nat /\ p \in Nat /\ t \in Names /\ Size(cs[p].template) \in Nat
    BY CellTypes DEF Memory
  <1>2. PICK i \in 1..m :
           /\ i \in 1..Kids(t) /\ a + KidPlace(t, i) <= p
           /\ p + Size(cs[p].template) <= a + KidPlace(t, i) + Size(KidTemplate(t, i))
    BY <1>1, InsideInside
  <1>3. /\ x \in Nat /\ p < x /\ x + Size(cs[x].template) <= p + Size(cs[p].template) /\ Size(cs[x].template) \in Nat \ {0}
    BY KidFacts, CellTypes
  <1>4. j \in 1..Kids(t) /\ cs[a].subcomponents[j] = a + KidPlace(t, j)
    BY KidFacts
  <1> DEFINE Pi == KidPlace(t, i)
             zi == Size(KidTemplate(t, i))
             Pj == KidPlace(t, j)
             zj == Size(KidTemplate(t, j))
             w == Size(cs[p].template)
             z == Size(cs[x].template)
  <1>5. Pi \in Nat /\ zi \in Nat \ {0} /\ Pj \in Nat /\ zj \in Nat \ {0} /\ w \in Nat /\ z \in Nat \ {0}
    BY <1>1, <1>2, <1>3, <1>4, KidTypes
  <1>6. j < i => Pj + zj <= Pi
    BY <1>1, <1>2, <1>4, KidsApart
  <1>7. i < j => Pi + zi <= Pj
    BY <1>1, <1>2, <1>4, KidsApart
  <1>8. i = j => Pi = Pj
    OBVIOUS
  <1>9. i \in Nat /\ j \in Nat
    BY <1>2, <1>4
  <1>10. a + Pi <= p /\ p + w <= a + Pi + zi /\ p < x /\ x + z <= p + w
    BY <1>2, <1>3
  <1>11. x \in Nat
    BY <1>3
  <1> HIDE DEF Pi, zi, Pj, zj, w, z, x, t, m
  <1>12. x # a + Pj
    BY <1>1, <1>5, <1>6, <1>7, <1>8, <1>9, <1>10, <1>11
  <1> QED BY <1>4, <1>12 DEF x, Pj, t

\* KidEnds: what is in the region of a call under way ends before the sub-components
\* that are created next, in places and in signals.
LEMMA KidEnds ==
    ASSUME NEW cs, Memory(cs), Apart(cs), NEW p \in DOMAIN cs, Tidy(cs, p), NEW x \in DOMAIN cs, Inside(cs, p, x),
           NEW k \in 1..Kids(cs[p].template), Len(cs[p].subcomponents) < k
    PROVE  /\ x + Size(cs[x].template) <= p + KidPlace(cs[p].template, k)
           /\ At(cs, x, Extent(cs[x].template)) <= cs[p].signalStart + KidSignal(cs[p].template, k)
  <1> DEFINE t == cs[p].template
             z == Size(cs[x].template)
             e == Extent(cs[x].template)
             b == cs[p].signalStart
             c == cs[x].signalStart
  <1>1. /\ p \in Nat /\ x \in Nat /\ t \in Names /\ z \in Nat \ {0} /\ e \in Nat /\ b \in Nat /\ c \in Nat
        /\ Len(cs[p].subcomponents) \in Nat /\ k \in Nat
    BY CellTypes, OwnSignals
  <1>2. PICK j \in 1..Len(cs[p].subcomponents) :
           /\ p + KidPlace(t, j) <= x
           /\ x + z <= p + KidPlace(t, j) + Size(KidTemplate(t, j))
    BY DEF Tidy
  <1> DEFINE y == cs[p].subcomponents[j]
             Pj == KidPlace(t, j)
             Sj == KidSignal(t, j)
             zj == Size(KidTemplate(t, j))
             ej == Extent(KidTemplate(t, j))
             Pk == KidPlace(t, k)
             Sk == KidSignal(t, k)
  <1>3. j \in 1..Kids(t) /\ y \in DOMAIN cs /\ y = p + Pj /\ cs[y].template = KidTemplate(t, j) /\ cs[y].signalStart = b + Sj
    BY KidFacts
  <1>4. j < k
    BY <1>1
  <1>5. /\ Pj \in Nat /\ Sj \in Nat /\ zj \in Nat \ {0} /\ ej \in Nat /\ Pk \in Nat /\ Sk \in Nat
        /\ Pj + zj <= Pk /\ Sj + ej <= Sk
    BY <1>1, <1>3, <1>4, KidTypes, KidsApart
  <1>a. p + Pj <= x /\ x + z <= (p + Pj) + zj /\ y = p + Pj
    BY <1>2, <1>3
  <1>6. x = y \/ y < x
    <2> HIDE DEF t, z, e, b, c, y, Pj, Sj, zj, ej, Pk, Sk
    <2> QED BY <1>1, <1>5, <1>a
  <1>7. c + e <= (b + Sj) + ej
    <2>1. CASE x = y
      <3>1. c = b + Sj /\ e = ej
        BY <1>3, <2>1
      <3> HIDE DEF t, z, e, b, c, y, Pj, Sj, zj, ej, Pk, Sk
      <3> QED BY <1>1, <1>5, <3>1
    <2>2. CASE y < x
      <3>1. Within(cs, y, x) \/ Before(cs, y, x)
        BY <1>3, <2>2 DEF Apart
      <3>2. CASE Before(cs, y, x)
        <4>1. y + zj <= x
          BY <1>3, <3>2 DEF Before
        <4> HIDE DEF t, z, e, b, c, y, Pj, Sj, zj, ej, Pk, Sk
        <4> QED BY <1>1, <1>5, <1>a, <4>1
      <3>3. CASE Within(cs, y, x)
        BY <1>3, <3>3 DEF Within, At
      <3> QED BY <3>1, <3>2, <3>3
    <2> QED BY <1>6, <2>1, <2>2
  <1>8. At(cs, x, Extent(cs[x].template)) = c + e
    BY DEF At
  <1> HIDE DEF t, z, e, b, c, y, Pj, Sj, zj, ej, Pk, Sk
  <1>9. x + z <= p + Pk /\ c + e <= b + Sk
    BY <1>1, <1>5, <1>7, <1>a
  <1> QED BY <1>8, <1>9 DEF z, b, Pk, Sk, t

\* The next sub-components of a call under way, lo + 1 to hi, are created.
CreatesRange(cs, ds, p, lo, hi) ==
    /\ p \in DOMAIN cs /\ Tidy(cs, p) /\ lo = Len(cs[p].subcomponents) /\ lo <= hi /\ hi \in Nat /\ hi <= Kids(cs[p].template)
    /\ Grown(cs, ds, p, cs[p].template, lo, hi)

\* GrownFacts: what there was stays, and what is created is new and where the template puts it.
LEMMA GrownFacts ==
    ASSUME NEW cs, NEW ds, Memory(cs), Apart(cs), NEW p, NEW lo, NEW hi, CreatesRange(cs, ds, p, lo, hi)
    PROVE  /\ p \in DOMAIN cs /\ lo \in Nat /\ hi \in Nat
           /\ \A x \in DOMAIN cs : /\ x \in DOMAIN ds /\ ds[x].template = cs[x].template /\ ds[x].signalStart = cs[x].signalStart
                                   /\ ds[x].inputCounter = cs[x].inputCounter
                                   /\ x # p => ds[x] = cs[x]
           /\ \A k \in (lo + 1)..hi :
                 /\ k \in 1..Kids(cs[p].template) /\ k \in 1..hi
                 /\ p + KidPlace(cs[p].template, k) \notin DOMAIN cs /\ p + KidPlace(cs[p].template, k) \in DOMAIN ds
                 /\ ds[p + KidPlace(cs[p].template, k)] =
                       Component(KidTemplate(cs[p].template, k), cs[p].signalStart + KidSignal(cs[p].template, k))
                 /\ ds[p].subcomponents[k] = p + KidPlace(cs[p].template, k)
           /\ \A k \in 1..lo : ds[p].subcomponents[k] = cs[p].subcomponents[k]
           /\ Len(ds[p].subcomponents) = hi
           /\ \A x \in DOMAIN ds : x \in DOMAIN cs \/ \E k \in (lo + 1)..hi : x = p + KidPlace(cs[p].template, k)
  <1> DEFINE t == cs[p].template
             New == {p + KidPlace(t, k) : k \in (lo + 1)..hi}
  <1>1. /\ p \in DOMAIN cs /\ Tidy(cs, p) /\ lo = Len(cs[p].subcomponents) /\ lo <= hi /\ hi \in Nat /\ hi <= Kids(t)
        /\ Grown(cs, ds, p, t, lo, hi)
    BY DEF CreatesRange
  <1>2. p \in Nat /\ t \in Names /\ Kids(t) \in Nat /\ lo \in Nat
    BY <1>1, CellTypes, KidsFollow
  <1>3. /\ DOMAIN ds = DOMAIN cs \cup New
        /\ \A x \in DOMAIN cs : x # p /\ x \notin New => ds[x] = cs[x]
        /\ \A k \in (lo + 1)..hi : p + KidPlace(t, k) # p =>
              ds[p + KidPlace(t, k)] = Component(KidTemplate(t, k), cs[p].signalStart + KidSignal(t, k))
        /\ ds[p].template = t /\ ds[p].signalStart = cs[p].signalStart /\ ds[p].inputCounter = cs[p].inputCounter
        /\ Len(ds[p].subcomponents) = hi
        /\ \A k \in 1..lo : ds[p].subcomponents[k] = cs[p].subcomponents[k]
        /\ \A k \in (lo + 1)..hi : ds[p].subcomponents[k] = p + KidPlace(t, k)
    BY <1>1, Zenon DEF Grown
  <1>4. \A k \in (lo + 1)..hi : k \in 1..Kids(t) /\ k \in 1..hi /\ lo < k
    BY <1>1, <1>2
  <1>5. ASSUME NEW k \in (lo + 1)..hi
        PROVE  p + KidPlace(t, k) \notin DOMAIN cs /\ p + KidPlace(t, k) # p
    <2> DEFINE x == p + KidPlace(t, k)
               c == KidPlace(t, k)
               z == Size(KidTemplate(t, k))
               w == Size(t)
    <2>1. c \in Nat \ {0} /\ z \in Nat \ {0} /\ c + z <= w /\ w \in Nat
      <3>1. c \in Nat \ {0} /\ z \in Nat \ {0} /\ c + z <= w
        BY <1>2, <1>4, KidTypes, KidWithin
      <3>2. w \in Nat
        BY <1>1, CellTypes
      <3> QED BY <3>1, <3>2
    <2>2. p < p + c /\ p + c < p + w
      <3> HIDE DEF c, z, w, x, t
      <3> QED BY <1>2, <2>1
    <2>3. x \notin DOMAIN cs
      <3> SUFFICES ASSUME x \in DOMAIN cs PROVE FALSE
        OBVIOUS
      <3>1. Inside(cs, p, x)
        BY <2>2 DEF Inside
      <3>2. x + Size(cs[x].template) <= x
        BY <1>1, <1>4, <3>1, KidEnds
      <3>3. x \in Nat /\ Size(cs[x].template) \in Nat \ {0}
        BY CellTypes
      <3> HIDE DEF x
      <3> QED BY <3>2, <3>3
    <2> QED BY <1>2, <2>1, <2>3
  <1>6. \A x \in DOMAIN cs : x \notin New
    BY <1>5
  <1>7. \A x \in DOMAIN cs : x # p => ds[x] = cs[x]
    BY <1>3, <1>6
  <1>8. \A x \in DOMAIN cs : /\ x \in DOMAIN ds /\ ds[x].template = cs[x].template /\ ds[x].signalStart = cs[x].signalStart
                             /\ ds[x].inputCounter = cs[x].inputCounter /\ (x # p => ds[x] = cs[x])
    BY <1>3, <1>7, Zenon
  <1>9. \A k \in (lo + 1)..hi :
                 /\ k \in 1..Kids(t) /\ k \in 1..hi /\ p + KidPlace(t, k) \notin DOMAIN cs /\ p + KidPlace(t, k) \in DOMAIN ds
                 /\ ds[p + KidPlace(t, k)] = Component(KidTemplate(t, k), cs[p].signalStart + KidSignal(t, k))
                 /\ ds[p].subcomponents[k] = p + KidPlace(t, k)
    BY <1>3, <1>4, <1>5, Zenon
  <1>10. \A x \in DOMAIN ds : x \in DOMAIN cs \/ \E k \in (lo + 1)..hi : x = p + KidPlace(t, k)
    BY <1>3
  <1> QED BY <1>1, <1>2, <1>3, <1>8, <1>9, <1>10, Zenon

\* ComponentIs: a component that has just been created.
LEMMA ComponentIs ==
    ASSUME NEW t, NEW b
    PROVE  /\ Component(t, b).template = t /\ Component(t, b).signalStart = b
           /\ Component(t, b).inputCounter = Templates[t].inputs /\ Component(t, b).subcomponents = << >>
  BY DEF Component

\* CreateApart: the regions stay apart, or one within the other.
LEMMA CreateApart ==
    ASSUME NEW cs, NEW ds, Memory(cs), Apart(cs), NEW p, NEW lo, NEW hi, CreatesRange(cs, ds, p, lo, hi)
    PROVE  Apart(ds)
  <1> DEFINE t == cs[p].template
             b == cs[p].signalStart
             w == Size(t)
             e == Extent(t)
             P(k) == KidPlace(t, k)
             S(k) == KidSignal(t, k)
             y(k) == Size(KidTemplate(t, k))
             f(k) == Extent(KidTemplate(t, k))
             K == (lo + 1)..hi
  <1>1. /\ p \in DOMAIN cs /\ p \in Nat /\ t \in Names /\ b \in Nat /\ w \in Nat \ {0} /\ e \in Nat
        /\ Tidy(cs, p) /\ lo = Len(cs[p].subcomponents) /\ lo \in Nat /\ hi \in Nat
        /\ Templates[t].own \in Nat
    BY CellTypes, OwnSignals DEF CreatesRange
  <1>2. \A x \in DOMAIN cs : ds[x].template = cs[x].template /\ ds[x].signalStart = cs[x].signalStart
    BY GrownFacts
  <1>3. \A k \in K : /\ k \in 1..Kids(t) /\ lo < k
                     /\ ds[p + P(k)].template = KidTemplate(t, k) /\ ds[p + P(k)].signalStart = b + S(k)
    <2>1. \A k \in K : k \in 1..Kids(t) /\ ds[p + P(k)] = Component(KidTemplate(t, k), b + S(k))
      BY GrownFacts
    <2>2. \A k \in K : lo < k
      BY <1>1
    <2> QED BY <2>1, <2>2, ComponentIs
  <1>4. \A k \in K : /\ P(k) \in Nat \ {0} /\ S(k) \in Nat /\ y(k) \in Nat \ {0} /\ f(k) \in Nat
                     /\ P(k) + y(k) <= w /\ S(k) + f(k) <= e /\ Templates[t].own <= S(k)
    <2> SUFFICES ASSUME NEW k \in K
                 PROVE  /\ P(k) \in Nat \ {0} /\ S(k) \in Nat /\ y(k) \in Nat \ {0} /\ f(k) \in Nat
                        /\ P(k) + y(k) <= w /\ S(k) + f(k) <= e /\ Templates[t].own <= S(k)
      OBVIOUS
    <2>1. k \in 1..Kids(t) /\ Kids(t) \in Nat
      BY <1>1, <1>3, KidsFollow
    <2>2. /\ P(k) \in Nat \ {0} /\ S(k) \in Nat /\ y(k) \in Nat \ {0} /\ f(k) \in Nat
          /\ P(k) + y(k) <= w /\ S(k) + f(k) <= e
      BY <1>1, <2>1, KidTypes, KidWithin
    <2>3. Kids(t) # 0 /\ 1 \in 1..Kids(t) /\ (k = 1 \/ 1 < k)
      BY <2>1
    <2>4. S(1) = Templates[t].own /\ S(1) \in Nat /\ f(1) \in Nat
      BY <1>1, <2>3, KidsFollow, KidTypes
    <2>5. 1 < k => S(1) + f(1) <= S(k)
      BY <1>1, <2>1, <2>3, KidsApart
    <2> HIDE DEF S, f, P, y, t, w, e, K
    <2>6. Templates[t].own <= S(k)
      <3>1. CASE k = 1
        BY <2>4, <3>1
      <3>2. CASE 1 < k
        BY <2>2, <2>4, <2>5, <3>2
      <3> QED BY <2>3, <3>1, <3>2
    <2> QED BY <2>2, <2>6
  <1>5. \A j, k \in K : j < k => P(j) + y(j) <= P(k) /\ S(j) + f(j) <= S(k)
    BY <1>1, <1>3, KidsApart
  <1>6. \A x \in DOMAIN cs : /\ x \in Nat /\ cs[x].signalStart \in Nat /\ Size(cs[x].template) \in Nat \ {0}
                             /\ Extent(cs[x].template) \in Nat /\ Templates[cs[x].template].own \in Nat
    BY CellTypes, OwnSignals
  <1>7. \A x, z \in DOMAIN cs : x < z =>
           \/ /\ cs[x].signalStart + Templates[cs[x].template].own <= cs[z].signalStart
              /\ z + Size(cs[z].template) <= x + Size(cs[x].template)
              /\ cs[z].signalStart + Extent(cs[z].template) <= cs[x].signalStart + Extent(cs[x].template)
           \/ /\ x + Size(cs[x].template) <= z
              /\ cs[x].signalStart + Extent(cs[x].template) <= cs[z].signalStart
    BY DEF Apart, Within, Before, At
  <1>8. ASSUME NEW x \in DOMAIN ds, NEW z \in DOMAIN ds, x < z
        PROVE  \/ /\ ds[x].signalStart + Templates[ds[x].template].own <= ds[z].signalStart
                  /\ z + Size(ds[z].template) <= x + Size(ds[x].template)
                  /\ ds[z].signalStart + Extent(ds[z].template) <= ds[x].signalStart + Extent(ds[x].template)
               \/ /\ x + Size(ds[x].template) <= z
                  /\ ds[x].signalStart + Extent(ds[x].template) <= ds[z].signalStart
    <2>0. /\ x \in DOMAIN cs \/ \E k \in K : x = p + P(k)
          /\ z \in DOMAIN cs \/ \E k \in K : z = p + P(k)
      BY GrownFacts
    <2>1. CASE x \in DOMAIN cs /\ z \in DOMAIN cs
      BY <1>2, <1>7, <1>8, <2>1
    <2>2. CASE x \in DOMAIN cs /\ \E k \in K : z = p + P(k)
      <3>1. PICK k \in K : z = p + P(k)
        BY <2>2
      <3> DEFINE c == cs[x].signalStart
                 u == Size(cs[x].template)
                 g == Extent(cs[x].template)
                 own == Templates[cs[x].template].own
                 Pk == P(k)
                 Sk == S(k)
                 yk == y(k)
                 fk == f(k)
                 ownp == Templates[t].own
      <3>2. /\ ds[x].signalStart = c /\ Size(ds[x].template) = u /\ Extent(ds[x].template) = g /\ Templates[ds[x].template].own = own
            /\ ds[z].signalStart = b + Sk /\ Size(ds[z].template) = yk /\ Extent(ds[z].template) = fk
        BY <1>2, <1>3, <2>2, <3>1
      <3>3. /\ x \in Nat /\ c \in Nat /\ u \in Nat \ {0} /\ g \in Nat /\ own \in Nat /\ b \in Nat /\ p \in Nat
            /\ Pk \in Nat \ {0} /\ Sk \in Nat /\ yk \in Nat \ {0} /\ fk \in Nat /\ ownp \in Nat
            /\ Pk + yk <= w /\ Sk + fk <= e /\ ownp <= Sk /\ w \in Nat /\ e \in Nat
        BY <1>1, <1>4, <1>6, <2>2
      <3>4. CASE x = p
        <4>1. c = b /\ u = w /\ g = e /\ own = ownp
          BY <3>4
        <4> HIDE DEF c, u, g, own, Pk, Sk, yk, fk, ownp, t, b, w, e, P, S, y, f, K
        <4>2. c + own <= b + Sk /\ (p + Pk) + yk <= x + u /\ (b + Sk) + fk <= c + g
          BY <3>3, <3>4, <4>1
        <4> QED BY <3>1, <3>2, <4>2 DEF Pk
      <3>5. CASE x < p
        <4>1. \/ c + own <= b /\ p + w <= x + u /\ b + e <= c + g
              \/ x + u <= p /\ c + g <= b
          BY <1>1, <1>7, <2>2, <3>5
        <4> HIDE DEF c, u, g, own, Pk, Sk, yk, fk, ownp, t, b, w, e, P, S, y, f, K
        <4>2. CASE c + own <= b /\ p + w <= x + u /\ b + e <= c + g
          <5>1. c + own <= b + Sk /\ (p + Pk) + yk <= x + u /\ (b + Sk) + fk <= c + g
            BY <3>3, <4>2
          <5> QED BY <3>1, <3>2, <5>1 DEF Pk
        <4>3. CASE x + u <= p /\ c + g <= b
          <5>1. x + u <= p + Pk /\ c + g <= b + Sk
            BY <3>3, <4>3
          <5> QED BY <3>1, <3>2, <5>1 DEF Pk
        <4> QED BY <4>1, <4>2, <4>3
      <3>6. CASE p < x
        <4>1. x < p + w
          <5> HIDE DEF c, u, g, own, Sk, yk, fk, ownp, t, b, w, e, P, S, y, f, K
          <5> QED BY <1>8, <3>1, <3>3 DEF Pk
        <4>2. Inside(cs, p, x)
          BY <3>6, <4>1 DEF Inside
        <4>3. x + u <= p + Pk /\ c + g <= b + Sk
          BY <1>1, <1>3, <2>2, <4>2, KidEnds DEF At
        <4> QED BY <3>1, <3>2, <4>3
      <3> QED BY <1>1, <3>3, <3>4, <3>5, <3>6
    <2>3. CASE z \in DOMAIN cs /\ \E k \in K : x = p + P(k)
      <3>1. PICK k \in K : x = p + P(k)
        BY <2>3
      <3> DEFINE c == cs[z].signalStart
                 u == Size(cs[z].template)
                 g == Extent(cs[z].template)
                 Pk == P(k)
                 Sk == S(k)
                 yk == y(k)
                 fk == f(k)
      <3>2. /\ ds[z].signalStart = c /\ Size(ds[z].template) = u
            /\ ds[x].signalStart = b + Sk /\ Size(ds[x].template) = yk /\ Extent(ds[x].template) = fk
        BY <1>2, <1>3, <2>3, <3>1
      <3>3. /\ z \in Nat /\ c \in Nat /\ u \in Nat \ {0} /\ b \in Nat /\ p \in Nat
            /\ Pk \in Nat \ {0} /\ Sk \in Nat /\ yk \in Nat \ {0} /\ fk \in Nat
            /\ Pk + yk <= w /\ Sk + fk <= e /\ w \in Nat /\ e \in Nat
        BY <1>1, <1>4, <1>6, <2>3
      <3>4. p < z
        <4> HIDE DEF c, u, g, Sk, yk, fk, t, b, w, e, P, S, y, f, K
        <4> QED BY <1>8, <3>1, <3>3 DEF Pk
      <3>5. ~ (z < p + w)
        <4> SUFFICES ASSUME z < p + w PROVE FALSE
          OBVIOUS
        <4>1. Inside(cs, p, z)
          BY <3>4 DEF Inside
        <4>2. z + u <= p + Pk
          BY <1>1, <1>3, <2>3, <4>1, KidEnds
        <4> HIDE DEF c, u, g, Sk, yk, fk, t, b, w, e, P, S, y, f, K
        <4> QED BY <1>8, <3>1, <3>3, <4>2 DEF Pk
      <3>6. z + u <= p + w \/ (p + w <= z /\ b + e <= c)
        BY <1>1, <1>7, <2>3, <3>4
      <3> HIDE DEF c, u, g, Pk, Sk, yk, fk, t, b, w, e, P, S, y, f, K
      <3>7. p + w <= z /\ b + e <= c
        BY <3>3, <3>5, <3>6
      <3>8. (p + Pk) + yk <= z /\ (b + Sk) + fk <= c
        BY <3>3, <3>7
      <3> QED BY <3>1, <3>2, <3>8 DEF Pk
    <2>4. CASE (\E k \in K : x = p + P(k)) /\ (\E k \in K : z = p + P(k))
      <3>1. PICK j \in K : x = p + P(j)
        BY <2>4
      <3>2. PICK k \in K : z = p + P(k)
        BY <2>4
      <3> DEFINE Pj == P(j)
                 Sj == S(j)
                 yj == y(j)
                 fj == f(j)
                 Pk == P(k)
                 Sk == S(k)
                 yk == y(k)
      <3>3. /\ ds[x].signalStart = b + Sj /\ Size(ds[x].template) = yj /\ Extent(ds[x].template) = fj
            /\ ds[z].signalStart = b + Sk
        BY <1>3, <3>1, <3>2
      <3>4. Pj \in Nat /\ Sj \in Nat /\ yj \in Nat /\ fj \in Nat /\ Pk \in Nat /\ Sk \in Nat /\ yk \in Nat /\ p \in Nat /\ b \in Nat
        BY <1>1, <1>4
      <3>5. j \in Nat /\ k \in Nat
        BY <1>1
      <3>6. (k < j => Pk + yk <= Pj) /\ (j < k => Pj + yj <= Pk /\ Sj + fj <= Sk) /\ (j = k => Pj = Pk)
        BY <1>5
      <3> HIDE DEF Pj, Sj, yj, fj, Pk, Sk, yk, t, b, w, e, P, S, y, f, K
      <3>7. p + Pj < p + Pk
        BY <1>8, <3>1, <3>2 DEF Pj, Pk
      <3>8. (p + Pj) + yj <= p + Pk /\ (b + Sj) + fj <= b + Sk
        BY <3>4, <3>5, <3>6, <3>7
      <3> QED BY <3>1, <3>2, <3>3, <3>8 DEF Pj, Pk
    <2> QED BY <2>0, <2>1, <2>2, <2>3, <2>4
  <1> QED BY <1>8, Zenon DEF Apart, Within, Before, At

\* StatementTimes: when a run copies an output and gives a sub-component an input: at
\* statements behind those that create.
LEMMA StatementTimes ==
    ASSUME NEW t \in Runners
    PROVE  LET run == Templates[t].run IN
           /\ t \in Names /\ Len(run) \in Nat /\ Blocks(t) \in Nat
           /\ \A n \in 1..Len(run) : InOrder(t, n, run[n])
           /\ \A o \in Outs(t) :
                 /\ CopiedAt(t, o) \in 1..Len(run) /\ CopiedAt(t, o) > Blocks(t)
                 /\ run[CopiedAt(t, o)].op = "copy" /\ run[CopiedAt(t, o)].at = o
           /\ \A k \in 1..Kids(t) : \A o \in Inputs(KidTemplate(t, k)) :
                 /\ GivenAt(t, k, o) \in 1..Len(run) /\ GivenAt(t, k, o) > Blocks(t)
                 /\ run[GivenAt(t, k, o)].op = "set" /\ run[GivenAt(t, k, o)].sub = k /\ run[GivenAt(t, k, o)].at = o
  <1> DEFINE run == Templates[t].run
  <1>1. t \in Names /\ Ordered(t)
    BY ProgramOrdered DEF Runners, Names
  <1>2. Len(run) \in Nat /\ Blocks(t) \in Nat /\ \A b \in 1..Blocks(t) : run[b].op = "create"
    BY <1>1, ProgramShape DEF Shape, Creates, Blocks
  <1>3. ASSUME NEW n \in 1..Len(run), run[n].op # "create" PROVE n > Blocks(t)
    <2> HIDE DEF run
    <2> QED BY <1>2, <1>3
  <1>4. /\ \A n \in 1..Len(run) : InOrder(t, n, run[n])
        /\ \A o \in Outs(t) : Copies(t, CopiedAt(t, o), o)
        /\ \A k \in 1..Kids(t) : \A o \in Inputs(KidTemplate(t, k)) : Gives(t, GivenAt(t, k, o), k, o)
    BY <1>1 DEF Ordered
  <1>5. ASSUME NEW o \in Outs(t)
        PROVE  /\ CopiedAt(t, o) \in 1..Len(run) /\ CopiedAt(t, o) > Blocks(t)
               /\ run[CopiedAt(t, o)].op = "copy" /\ run[CopiedAt(t, o)].at = o
    <2>1. CopiedAt(t, o) \in 1..Len(run) /\ run[CopiedAt(t, o)].op = "copy" /\ run[CopiedAt(t, o)].at = o
      BY <1>4 DEF Copies
    <2> QED BY <1>3, <2>1
  <1>6. ASSUME NEW k \in 1..Kids(t), NEW o \in Inputs(KidTemplate(t, k))
        PROVE  /\ GivenAt(t, k, o) \in 1..Len(run) /\ GivenAt(t, k, o) > Blocks(t)
               /\ run[GivenAt(t, k, o)].op = "set" /\ run[GivenAt(t, k, o)].sub = k /\ run[GivenAt(t, k, o)].at = o
    <2>1. /\ GivenAt(t, k, o) \in 1..Len(run)
          /\ run[GivenAt(t, k, o)].op = "set" /\ run[GivenAt(t, k, o)].sub = k /\ run[GivenAt(t, k, o)].at = o
      BY <1>4 DEF Gives
    <2> QED BY <1>3, <2>1
  <1> HIDE DEF run
  <1>7. /\ \A o \in Outs(t) :
              /\ CopiedAt(t, o) \in 1..Len(run) /\ CopiedAt(t, o) > Blocks(t)
              /\ run[CopiedAt(t, o)].op = "copy" /\ run[CopiedAt(t, o)].at = o
        /\ \A k \in 1..Kids(t) : \A o \in Inputs(KidTemplate(t, k)) :
              /\ GivenAt(t, k, o) \in 1..Len(run) /\ GivenAt(t, k, o) > Blocks(t)
              /\ run[GivenAt(t, k, o)].op = "set" /\ run[GivenAt(t, k, o)].sub = k /\ run[GivenAt(t, k, o)].at = o
    BY <1>5, <1>6
  <1> QED BY <1>1, <1>2, <1>4, <1>7, Zenon DEF run

\* CallFacts: the calls under way, and the innermost one.
LEMMA CallFacts ==
    ASSUME NEW cs, NEW st, Memory(cs), Calls(cs, st), st # << >>
    PROVE  /\ Len(st) \in Nat \ {0} /\ 1 \in 1..Len(st)
           /\ \A i \in 1..Len(st) :
                 /\ Frame(cs, st[i]) /\ st[i].component \in DOMAIN cs /\ Tidy(cs, st[i].component)
                 /\ Laid(cs, st[i].component) /\ st[i].at \in Nat
                 /\ i # 1 => Inside(cs, st[i].component, st[1].component) /\ st[i].component < st[1].component
           /\ \A x : Called(st, x) => x \in DOMAIN cs /\ x <= st[1].component
           /\ Called(st, st[1].component)
  <1>1. Len(st) \in Nat \ {0} /\ 1 \in 1..Len(st) /\ st \in Seq([component : Nat, at : Nat])
    BY DEF Calls
  <1>2. ASSUME NEW i \in 1..Len(st)
        PROVE  /\ Frame(cs, st[i]) /\ st[i].component \in DOMAIN cs /\ Tidy(cs, st[i].component)
               /\ Laid(cs, st[i].component) /\ st[i].at \in Nat
               /\ i # 1 => Inside(cs, st[i].component, st[1].component) /\ st[i].component < st[1].component
    <2>1. Frame(cs, st[i])
      BY DEF Calls
    <2>2. st[i].component \in DOMAIN cs /\ Tidy(cs, st[i].component) /\ Laid(cs, st[i].component)
      BY <2>1 DEF Frame, Memory
    <2>3. i # 1 => Inside(cs, st[i].component, st[1].component)
      BY <1>1 DEF Calls
    <2>4. st[i].at \in Nat
      <3> DEFINE F == [component : Nat, at : Nat]
      <3>1. \A f \in F : f.at \in Nat
        OBVIOUS
      <3> HIDE DEF F
      <3>2. st \in Seq(F)
        BY <1>1 DEF F
      <3>3. st[i] \in F
        BY <3>2
      <3> QED BY <3>1, <3>3
    <2> QED BY <2>1, <2>2, <2>3, <2>4 DEF Inside
  <1>3. \A i \in 1..Len(st) : st[i].component \in Nat
    BY <1>2, CellTypes
  <1>4. ASSUME NEW x, Called(st, x) PROVE x \in DOMAIN cs /\ x <= st[1].component
    <2>1. PICK i \in 1..Len(st) : st[i].component = x
      BY <1>4 DEF Called
    <2>2. x \in Nat /\ st[1].component \in Nat
      BY <1>1, <1>3, <2>1
    <2>3. i = 1 => x = st[1].component
      BY <2>1
    <2>4. i # 1 => x < st[1].component
      BY <1>2, <2>1
    <2> QED BY <1>2, <2>1, <2>2, <2>3, <2>4
  <1>5. Called(st, st[1].component)
    BY <1>1 DEF Called
  <1> QED BY <1>1, <1>2, <1>4, <1>5

\* NoneLeft: a component that waits for no input has all of them.
LEMMA NoneLeft ==
    ASSUME NEW cs, NEW D, NEW x, cs[x].template \in Names, cs[x].signalStart \in Nat, Counted(cs, D, x), cs[x].inputCounter \in Int
    PROVE  /\ cs[x].inputCounter >= 0
           /\ cs[x].inputCounter <= 0 => \A o \in Inputs(cs[x].template) : At(cs, x, o) \in D
  <1> DEFINE S == InputsOf(cs, x) \ D
  <1>1. IsFiniteSet(S)
    BY InputsInterval, FS_Subset
  <1>2. cs[x].inputCounter = Cardinality(S) /\ Cardinality(S) \in Nat
    BY <1>1, FS_CardinalityType DEF Counted
  <1>3. cs[x].inputCounter <= 0 => S = {}
    <2>1. cs[x].inputCounter <= 0 => Cardinality(S) = 0
      BY <1>2
    <2> QED BY <1>1, <2>1, FS_EmptySet
  <1>4. \A o \in Inputs(cs[x].template) : At(cs, x, o) \in InputsOf(cs, x)
    BY DEF InputsOf
  <1> QED BY <1>2, <1>3, <1>4

\* The same components in the same regions.
Relaid(cs, ds) ==
    /\ DOMAIN ds = DOMAIN cs
    /\ \A x \in DOMAIN cs : ds[x].template = cs[x].template /\ ds[x].signalStart = cs[x].signalStart

\* The signals O of the component x get values.
Adds(cs, D, E, x, O) ==
    /\ x \in DOMAIN cs /\ O \subseteq Own(cs[x].template)
    /\ E = D \cup {At(cs, x, o) : o \in O}

\* AddsTo: and no other signal of any component.
LEMMA AddsTo ==
    ASSUME NEW cs, Memory(cs), Apart(cs), NEW D, NEW E, NEW x, NEW O, Adds(cs, D, E, x, O),
           NEW y \in DOMAIN cs, NEW q \in Own(cs[y].template)
    PROVE  At(cs, y, q) \in E <=> At(cs, y, q) \in D \/ (y = x /\ q \in O)
  <1>1. x \in DOMAIN cs /\ O \subseteq Own(cs[x].template) /\ E = D \cup {At(cs, x, o) : o \in O}
    BY DEF Adds
  <1>2. ASSUME NEW o \in O, At(cs, y, q) = At(cs, x, o) PROVE y = x /\ q \in O
    <2>1. o \in Own(cs[x].template)
      BY <1>1
    <2>2. y = x /\ q = o
      BY <1>1, <1>2, <2>1, OwnersDiffer
    <2> QED BY <2>2
  <1> QED BY <1>1, <1>2

\* AddsCovered: only signals of components get values.
LEMMA AddsCovered ==
    ASSUME NEW cs, NEW D, NEW E, NEW x, NEW O, Adds(cs, D, E, x, O), Covered(cs, D)
    PROVE  Covered(cs, E)
  BY DEF Adds, Covered

\* RelaidSame: the regions and the signals of the components are the same.
LEMMA RelaidSame ==
    ASSUME NEW cs, NEW ds, Relaid(cs, ds)
    PROVE  /\ \A x \in DOMAIN cs : \A o : At(ds, x, o) = At(cs, x, o)
           /\ \A x \in DOMAIN cs : InputsOf(ds, x) = InputsOf(cs, x)
           /\ Apart(cs) => Apart(ds)
           /\ \A D : Covered(cs, D) => Covered(ds, D)
           /\ \A D : Main(cs, D) => Main(ds, D)
  <1>1. /\ DOMAIN ds = DOMAIN cs
        /\ \A x \in DOMAIN cs : ds[x].template = cs[x].template /\ ds[x].signalStart = cs[x].signalStart
    BY DEF Relaid
  <1>2. \A x \in DOMAIN cs : \A o : At(ds, x, o) = At(cs, x, o)
    BY <1>1 DEF At
  <1>3. \A x \in DOMAIN cs : InputsOf(ds, x) = InputsOf(cs, x)
    BY <1>1, <1>2 DEF InputsOf
  <1>4. Apart(cs) => Apart(ds)
    <2> SUFFICES ASSUME Apart(cs), NEW x \in DOMAIN cs, NEW y \in DOMAIN cs, x < y
                 PROVE  Within(ds, x, y) \/ Before(ds, x, y)
      BY <1>1 DEF Apart
    <2>1. Within(cs, x, y) \/ Before(cs, x, y)
      BY DEF Apart
    <2> QED BY <1>1, <1>2, <2>1, Zenon DEF Within, Before
  <1>5. \A D : Covered(cs, D) => Covered(ds, D)
    BY <1>1, <1>2 DEF Covered
  <1>6. \A D : Main(cs, D) => Main(ds, D)
    BY <1>1 DEF Main
  <1> QED BY <1>2, <1>3, <1>4, <1>5, <1>6

\* CountedSame: a component whose inputs and counter are as they were.
LEMMA CountedSame ==
    ASSUME NEW cs, NEW ds, NEW D, NEW E, NEW y, Counted(cs, D, y), InputsOf(ds, y) = InputsOf(cs, y),
           ds[y].inputCounter = cs[y].inputCounter,
           \A o \in Inputs(cs[y].template) : At(cs, y, o) \in E <=> At(cs, y, o) \in D
    PROVE  Counted(ds, E, y)
  <1>1. InputsOf(cs, y) \ E = InputsOf(cs, y) \ D
    BY DEF InputsOf
  <1> QED BY <1>1 DEF Counted

\* CountedLess: a component one of whose inputs gets its value.
LEMMA CountedLess ==
    ASSUME NEW cs, NEW ds, NEW D, NEW E, NEW y, cs[y].template \in Names, cs[y].signalStart \in Nat,
           Counted(cs, D, y), InputsOf(ds, y) = InputsOf(cs, y),
           NEW o \in Inputs(cs[y].template), At(cs, y, o) \notin D, At(cs, y, o) \in E,
           \A q \in Inputs(cs[y].template) : q # o => (At(cs, y, q) \in E <=> At(cs, y, q) \in D)
    PROVE  /\ cs[y].inputCounter \in Nat \ {0}
           /\ ds[y].inputCounter = cs[y].inputCounter - 1 => Counted(ds, E, y)
  <1> DEFINE S == InputsOf(cs, y) \ D
             a == At(cs, y, o)
  <1>1. IsFiniteSet(S)
    BY InputsInterval, FS_Subset
  <1>2. a \in S
    BY DEF InputsOf
  <1>3. InputsOf(cs, y) \ E = S \ {a}
    <2>1. \A q \in Inputs(cs[y].template) : q # o => At(cs, y, q) # a
      <3>1. cs[y].signalStart \in Nat /\ \A q \in Inputs(cs[y].template) : q \in Nat
        BY OwnSignals
      <3> QED BY <3>1 DEF At
    <2> QED BY <2>1 DEF InputsOf
  <1> HIDE DEF a, S
  <1>4. Cardinality(S \ {a}) = Cardinality(S) - 1
    BY <1>1, <1>2, FS_RemoveElement
  <1>5. Cardinality(S) \in Nat /\ Cardinality(S) # 0
    BY <1>1, <1>2, FS_CardinalityType, FS_EmptySet
  <1> QED BY <1>3, <1>4, <1>5 DEF Counted, S

\* The signals O of x are outputs of the component p, or signals of a sub-component of it.
Touches(cs, p, x, O) ==
    \/ x = p /\ O \subseteq Outs(cs[p].template)
    \/ \E k \in 1..Len(cs[p].subcomponents) : x = cs[p].subcomponents[k]

\* OthersProgress: a call that waits for another one goes on from where it was, when the
\* innermost call gives a value to an output of its own or to signals of a sub-component.
LEMMA OthersProgress ==
    ASSUME NEW cs, NEW st, Memory(cs), Calls(cs, st), st # << >>, Apart(cs), NEW D, NEW i \in 1..Len(st), i # 1,
           Progress(cs, D, st[i]), NEW ds, Relaid(cs, ds),
           ds[st[i].component].subcomponents = cs[st[i].component].subcomponents,
           NEW E, NEW x, NEW O, Adds(cs, D, E, x, O), NEW p, p = st[1].component,
           Touches(cs, p, x, O)
    PROVE  Progress(ds, E, st[i])
  <1> DEFINE a == st[i].component
             t == cs[a].template
             subs == cs[a].subcomponents
  <1>1. /\ a \in DOMAIN cs /\ Tidy(cs, a) /\ Inside(cs, a, p) /\ a < p /\ p \in DOMAIN cs /\ 1 \in 1..Len(st)
    BY CallFacts
  <1>2. a \in Nat /\ p \in Nat
    BY <1>1, CellTypes
  <1>3. x \in DOMAIN cs /\ x \in Nat /\ a < x
    <2>1. CASE x = p
      BY <1>1, <1>2, <2>1
    <2>2. CASE \E k \in 1..Len(cs[p].subcomponents) : x = cs[p].subcomponents[k]
      <3>1. x \in DOMAIN cs /\ p < x
        BY <1>1, <2>2, KidFacts
      <3>2. x \in Nat
        BY <3>1, CellTypes
      <3> QED BY <1>1, <1>2, <3>1, <3>2
    <2> QED BY <2>1, <2>2 DEF Touches
  <1>4. /\ t \in Runners
        /\ \A o \in Outs(t) : At(cs, a, o) \in D <=> CopiedAt(t, o) < st[i].at
        /\ \A k \in 1..Len(subs) : \A o \in Inputs(KidTemplate(t, k)) :
              At(cs, subs[k], o) \in D <=> GivenAt(t, k, o) < st[i].at
    BY DEF Progress
  <1>5. \A o \in Outs(t) : At(ds, a, o) \in E <=> At(cs, a, o) \in D
    <2>1. \A o \in Outs(t) : o \in Own(t)
      BY DEF Outs
    <2>2. a # x
      BY <1>2, <1>3
    <2> QED BY <1>1, <2>1, <2>2, AddsTo, RelaidSame
  <1>6. ASSUME NEW k \in 1..Len(subs), NEW o \in Inputs(KidTemplate(t, k))
        PROVE  At(ds, subs[k], o) \in E <=> At(cs, subs[k], o) \in D
    <2> DEFINE y == subs[k]
    <2>1. y \in DOMAIN cs /\ cs[y].template = KidTemplate(t, k) /\ cs[y].template \in Names
      <3>1. y \in DOMAIN cs /\ cs[y].template = KidTemplate(t, k)
        BY <1>1, KidFacts
      <3>2. cs[y].template \in Names
        BY <3>1, CellTypes
      <3> QED BY <3>1, <3>2
    <2>2. o \in Own(cs[y].template)
      BY <2>1, OwnSignals
    <2>3. ~ (y = x /\ o \in O)
      <3>1. CASE x = p /\ O \subseteq Outs(cs[p].template)
        <4>1. \A q \in Outs(cs[p].template) : q \notin Inputs(cs[p].template)
          BY DEF Outs
        <4> QED BY <2>1, <3>1, <4>1
      <3>2. CASE \E j \in 1..Len(cs[p].subcomponents) : x = cs[p].subcomponents[j]
        BY <1>1, <3>2, KidOfOne
      <3> QED BY <3>1, <3>2 DEF Touches
    <2> QED BY <2>1, <2>2, <2>3, AddsTo, RelaidSame
  <1>7. ds[a].template = t /\ ds[a].subcomponents = subs
    BY <1>1 DEF Relaid
  <1> QED BY <1>4, <1>5, <1>6, <1>7 DEF Progress

\* StatementAdds: the signals that get a value, O of the component x, when the call st[1]
\* carries out the statement s.
StatementAdds(cs, p, s, x, O) ==
    \/ s.op = "copy" /\ x = p /\ O = {s.at}
    \/ /\ s.op = "set" /\ s.sub \in 1..Len(cs[p].subcomponents) /\ x = cs[p].subcomponents[s.sub]
       /\ O \cap Inputs(cs[x].template) = {s.at}
    \/ s.op \notin {"copy", "set", "create"} /\ O = {} /\ x = p

\* Reaches: the innermost call, of the component p from the template t, has come to the
\* statement s, its n-th.
Reaches(cs, st, p, t, n, s) ==
    /\ p = st[1].component /\ t = cs[p].template /\ n = st[1].at
    /\ n <= Len(Templates[t].run) /\ s = Templates[t].run[n]

\* ReachedProgress: the call goes on behind the statement it has reached.
LEMMA ReachedProgress ==
    ASSUME NEW cs, NEW st, Memory(cs), Calls(cs, st), st # << >>, Apart(cs), NEW D, Progress(cs, D, st[1]),
           NEW p, NEW t, NEW n, NEW s, Reaches(cs, st, p, t, n, s),
           NEW ds, Relaid(cs, ds), ds[p].subcomponents = cs[p].subcomponents,
           NEW E, NEW x, NEW O, Adds(cs, D, E, x, O), StatementAdds(cs, p, s, x, O),
           NEW g, g.component = p, g.at = n + 1
    PROVE  Progress(ds, E, g)
  <1> DEFINE subs == cs[p].subcomponents
             run == Templates[t].run
  <1>1. /\ t \in Runners
        /\ \A o \in Outs(t) : At(cs, p, o) \in D <=> CopiedAt(t, o) < n
        /\ \A k \in 1..Len(subs) : \A o \in Inputs(KidTemplate(t, k)) :
              At(cs, subs[k], o) \in D <=> GivenAt(t, k, o) < n
    BY Zenon DEF Progress, Reaches
  <1>t. t = cs[p].template
    BY Zenon DEF Reaches
  <1>p. p = st[1].component /\ n = st[1].at
    BY Zenon DEF Reaches
  <1>r. n <= Len(run) /\ s = run[n]
    BY Zenon DEF Reaches
  <1>a. t \in Runners
    BY <1>1
  <1>b. /\ t \in Names /\ Len(run) \in Nat
        /\ \A m \in 1..Len(run) : InOrder(t, m, run[m])
        /\ \A o \in Outs(t) : /\ CopiedAt(t, o) \in 1..Len(run)
                             /\ run[CopiedAt(t, o)].op = "copy" /\ run[CopiedAt(t, o)].at = o
        /\ \A k \in 1..Kids(t) : \A o \in Inputs(KidTemplate(t, k)) :
              /\ GivenAt(t, k, o) \in 1..Len(run)
              /\ run[GivenAt(t, k, o)].op = "set" /\ run[GivenAt(t, k, o)].sub = k /\ run[GivenAt(t, k, o)].at = o
    <2>1. t \in Names /\ Len(run) \in Nat /\ \A m \in 1..Len(run) : InOrder(t, m, run[m])
      BY <1>a, StatementTimes
    <2>2. ASSUME NEW o \in Outs(t)
          PROVE  CopiedAt(t, o) \in 1..Len(run) /\ run[CopiedAt(t, o)].op = "copy" /\ run[CopiedAt(t, o)].at = o
      BY <1>a, StatementTimes
    <2>3. ASSUME NEW k \in 1..Kids(t), NEW o \in Inputs(KidTemplate(t, k))
          PROVE  /\ GivenAt(t, k, o) \in 1..Len(run)
                 /\ run[GivenAt(t, k, o)].op = "set" /\ run[GivenAt(t, k, o)].sub = k /\ run[GivenAt(t, k, o)].at = o
      <3>1. \A j \in 1..Kids(t) : \A q \in Inputs(KidTemplate(t, j)) :
              /\ GivenAt(t, j, q) \in 1..Len(Templates[t].run) /\ GivenAt(t, j, q) > Blocks(t)
              /\ Templates[t].run[GivenAt(t, j, q)].op = "set" /\ Templates[t].run[GivenAt(t, j, q)].sub = j
              /\ Templates[t].run[GivenAt(t, j, q)].at = q
        BY <1>a, StatementTimes, Zenon
      <3> QED BY <3>1
    <2> HIDE DEF run
    <2> QED BY <2>1, <2>2, <2>3
  <1>c. Len(run) \in Nat
    BY <1>b
  <1>2. /\ p \in DOMAIN cs /\ n \in Nat /\ n \in 1..Len(run)
    <2>1. p \in DOMAIN cs /\ n \in Nat /\ Frame(cs, st[1])
      BY <1>p, CallFacts
    <2>2. n \in 1..(Len(run) + 1) /\ Len(run) \in Nat
      BY <1>b, <1>p, <1>t, <2>1, Zenon DEF Frame
    <2> HIDE DEF run
    <2>3. n <= Len(run)
      BY <1>r DEF run
    <2> QED BY <2>1, <2>2, <2>3
  <1>3. \A a, b \in Nat : a < b + 1 <=> a < b \/ a = b
    OBVIOUS
  <1>4. InOrder(t, n, s)
    BY <1>2, <1>b, <1>r
  <1>5. ASSUME NEW k \in 1..Len(subs)
        PROVE  /\ subs[k] \in DOMAIN cs /\ cs[subs[k]].template = KidTemplate(t, k) /\ p # subs[k]
               /\ k \in 1..Kids(t) /\ cs[subs[k]].template \in Names
    <2>1. /\ subs[k] \in DOMAIN cs /\ cs[subs[k]].template = KidTemplate(t, k) /\ p < subs[k]
          /\ k \in 1..Kids(t)
      BY <1>2, <1>t, KidFacts
    <2>2. p \in Nat /\ subs[k] \in Nat /\ cs[subs[k]].template \in Names
      <3> DEFINE y == subs[k]
      <3>1. y \in DOMAIN cs
        BY <2>1
      <3> HIDE DEF y
      <3>2. y \in Nat /\ cs[y].template \in Names /\ p \in Nat
        BY <1>2, <3>1, CellTypes
      <3> QED BY <3>2 DEF y
    <2> HIDE DEF subs
    <2>3. p # subs[k]
      BY <2>1, <2>2
    <2> QED BY <2>1, <2>2, <2>3
  <1>6. ASSUME NEW o \in Outs(t) PROVE At(ds, p, o) \in E <=> CopiedAt(t, o) < n + 1
    <2>1. CopiedAt(t, o) \in Nat /\ run[CopiedAt(t, o)].op = "copy" /\ run[CopiedAt(t, o)].at = o
      <3>1. CopiedAt(t, o) \in 1..Len(run) /\ run[CopiedAt(t, o)].op = "copy" /\ run[CopiedAt(t, o)].at = o
        BY <1>b
      <3> HIDE DEF run
      <3>2. CopiedAt(t, o) \in 1..Len(run)
        BY <3>1
      <3>3. CopiedAt(t, o) \in Nat
        BY <1>c, <3>2
      <3> QED BY <3>1, <3>3
    <2>2. o \in Own(cs[p].template)
      BY <1>t DEF Outs
    <2>3. At(ds, p, o) \in E <=> At(cs, p, o) \in D \/ (p = x /\ o \in O)
      BY <1>2, <2>2, AddsTo, RelaidSame
    <2>4. (p = x /\ o \in O) <=> CopiedAt(t, o) = n
      <3>1. CASE s.op = "copy" /\ x = p /\ O = {s.at}
        BY <1>4, <1>r, <2>1, <3>1 DEF InOrder
      <3>2. CASE s.op = "set" /\ s.sub \in 1..Len(subs) /\ x = subs[s.sub]
        BY <1>5, <1>r, <2>1, <3>2, Zenon
      <3>3. CASE s.op \notin {"copy", "set", "create"} /\ O = {}
        BY <1>r, <2>1, <3>3
      <3> QED BY <3>1, <3>2, <3>3 DEF StatementAdds
    <2> QED BY <1>1, <1>2, <1>3, <2>1, <2>3, <2>4
  <1>7. ASSUME NEW k \in 1..Len(subs), NEW o \in Inputs(KidTemplate(t, k))
        PROVE  At(ds, subs[k], o) \in E <=> GivenAt(t, k, o) < n + 1
    <2> DEFINE y == subs[k]
    <2>1. /\ GivenAt(t, k, o) \in Nat /\ run[GivenAt(t, k, o)].op = "set"
          /\ run[GivenAt(t, k, o)].sub = k /\ run[GivenAt(t, k, o)].at = o
      <3>1. k \in 1..Kids(t)
        BY <1>5
      <3>2. /\ GivenAt(t, k, o) \in 1..Len(run) /\ run[GivenAt(t, k, o)].op = "set"
            /\ run[GivenAt(t, k, o)].sub = k /\ run[GivenAt(t, k, o)].at = o
        BY <1>b, <3>1
      <3> HIDE DEF run
      <3>3. GivenAt(t, k, o) \in 1..Len(run)
        BY <3>2
      <3>4. GivenAt(t, k, o) \in Nat
        BY <1>c, <3>3
      <3> QED BY <3>2, <3>4
    <2>2. y \in DOMAIN cs /\ o \in Own(cs[y].template) /\ o \in Inputs(cs[y].template)
      BY <1>5, OwnSignals
    <2>3. At(ds, y, o) \in E <=> At(cs, y, o) \in D \/ (y = x /\ o \in O)
      BY <2>2, AddsTo, RelaidSame
    <2>4. (y = x /\ o \in O) <=> GivenAt(t, k, o) = n
      <3>1. CASE s.op = "copy" /\ x = p /\ O = {s.at}
        BY <1>5, <1>r, <2>1, <3>1
      <3>2. CASE s.op = "set" /\ s.sub \in 1..Len(subs) /\ x = subs[s.sub] /\ O \cap Inputs(cs[x].template) = {s.at}
        <4>1. ASSUME GivenAt(t, k, o) = n PROVE y = x /\ o \in O
          <5>1. s.sub = k /\ s.at = o
            BY <1>r, <2>1, <4>1
          <5> QED BY <3>2, <5>1
        <4>2. ASSUME y = x, o \in O PROVE GivenAt(t, k, o) = n
          <5>1. s.sub = k
            <6>1. subs[s.sub] = subs[k]
              BY <3>2, <4>2
            <6> QED BY <1>2, <3>2, <6>1, KidsDiffer
          <5>2. o = s.at
            <6>1. o \in O \cap Inputs(cs[x].template)
              BY <2>2, <4>2
            <6> QED BY <3>2, <6>1
          <5>3. GivenAt(t, s.sub, s.at) = n
            BY <1>4, <3>2 DEF InOrder
          <5> QED BY <5>1, <5>2, <5>3
        <4> QED BY <4>1, <4>2
      <3>3. CASE s.op \notin {"copy", "set", "create"} /\ O = {}
        BY <1>r, <2>1, <3>3
      <3> QED BY <3>1, <3>2, <3>3 DEF StatementAdds
    <2> QED BY <1>1, <1>2, <1>3, <2>1, <2>3, <2>4
  <1>8. ds[p].template = t /\ ds[p].subcomponents = subs
    BY <1>2, <1>t DEF Relaid
  <1> HIDE DEF run, subs
  <1> QED BY <1>1, <1>6, <1>7, <1>8 DEF Progress, subs

\* TopProgress: the innermost call goes on behind the statement.
LEMMA TopProgress ==
    ASSUME NEW cs, NEW st, Memory(cs), Calls(cs, st), st # << >>, Apart(cs), NEW D, Progress(cs, D, st[1]),
           NEW p, p = st[1].component, NEW t, t = cs[p].template, NEW n, n = st[1].at, n <= Len(Templates[t].run),
           NEW s, s = Templates[t].run[n],
           NEW ds, Relaid(cs, ds), ds[p].subcomponents = cs[p].subcomponents,
           NEW E, NEW x, NEW O, Adds(cs, D, E, x, O), StatementAdds(cs, p, s, x, O),
           NEW g, g.component = p, g.at = n + 1
    PROVE  Progress(ds, E, g)
  <1>1. Reaches(cs, st, p, t, n, s)
    BY Zenon DEF Reaches
  <1> QED BY <1>1, ReachedProgress, Zenon

\* ReachedFresh: what the statement reached gives a value to had none.
LEMMA ReachedFresh ==
    ASSUME NEW cs, NEW st, Memory(cs), Calls(cs, st), st # << >>, NEW D, Progress(cs, D, st[1]),
           NEW p, NEW t, NEW n, NEW s, Reaches(cs, st, p, t, n, s), n \in 1..Len(Templates[t].run)
    PROVE  /\ s.op = "copy" => s.at \in Outs(t) /\ At(cs, p, s.at) \notin D
           /\ s.op = "set" => /\ s.sub \in 1..Len(cs[p].subcomponents)
                              /\ s.at \in Inputs(cs[cs[p].subcomponents[s.sub]].template)
                              /\ At(cs, cs[p].subcomponents[s.sub], s.at) \notin D
  <1> DEFINE subs == cs[p].subcomponents
  <1>t. t = cs[p].template
    BY DEF Reaches
  <1>p. p = st[1].component /\ n = st[1].at
    BY DEF Reaches
  <1>r. n <= Len(Templates[t].run) /\ s = Templates[t].run[n]
    BY DEF Reaches
  <1>1. p \in DOMAIN cs /\ Len(subs) = Made(t, n) /\ n \in Nat /\ ~ (n < n)
    BY <1>p, <1>t, CallFacts DEF Frame
  <1>2. /\ t \in Runners
        /\ \A o \in Outs(t) : At(cs, p, o) \in D <=> CopiedAt(t, o) < n
        /\ \A k \in 1..Len(subs) : \A o \in Inputs(KidTemplate(t, k)) :
              At(cs, subs[k], o) \in D <=> GivenAt(t, k, o) < n
    BY Zenon DEF Progress, Reaches
  <1>3. t \in Names /\ InOrder(t, n, s)
    BY <1>2, <1>r, StatementTimes
  <1>4. CASE s.op = "copy"
    <2>1. s.at \in Outs(t) /\ CopiedAt(t, s.at) = n
      BY <1>3, <1>4 DEF InOrder
    <2> QED BY <1>1, <1>2, <1>4, <2>1
  <1>5. CASE s.op = "set"
    <2>1. s.at \in Inputs(KidTemplate(t, s.sub)) /\ GivenAt(t, s.sub, s.at) = n
      BY <1>3, <1>5 DEF InOrder
    <2>2. s.sub \in 1..Len(subs)
      BY <1>1, <1>3, <1>5, <1>r, MadeBy
    <2>3. cs[subs[s.sub]].template = KidTemplate(t, s.sub)
      <3> DEFINE k == s.sub
      <3>1. k \in 1..Len(cs[p].subcomponents)
        BY <2>2
      <3> HIDE DEF k
      <3>2. cs[cs[p].subcomponents[k]].template = KidTemplate(cs[p].template, k)
        BY <1>1, <3>1, KidFacts
      <3> QED BY <1>t, <3>2 DEF k
    <2>4. At(cs, subs[s.sub], s.at) \in D <=> GivenAt(t, s.sub, s.at) < n
      BY <1>2, <2>1, <2>2
    <2> QED BY <1>1, <1>5, <2>1, <2>2, <2>3, <2>4
  <1> QED BY <1>4, <1>5

\* Fresh: what a statement gives a value to had none.
LEMMA Fresh ==
    ASSUME NEW cs, NEW st, Memory(cs), Calls(cs, st), st # << >>, NEW D, Progress(cs, D, st[1]),
           NEW p, p = st[1].component, NEW t, t = cs[p].template, NEW n, n = st[1].at, n \in 1..Len(Templates[t].run),
           NEW s, s = Templates[t].run[n]
    PROVE  /\ s.op = "copy" => s.at \in Outs(t) /\ At(cs, p, s.at) \notin D
           /\ s.op = "set" => /\ s.sub \in 1..Len(cs[p].subcomponents)
                              /\ s.at \in Inputs(cs[cs[p].subcomponents[s.sub]].template)
                              /\ At(cs, cs[p].subcomponents[s.sub], s.at) \notin D
  <1>1. Reaches(cs, st, p, t, n, s)
    BY SMT DEF Reaches
  <1> QED BY <1>1, ReachedFresh, Zenon

\* The calls under way st are among ut, and no sub-component is dropped.
Keeping(st, ut) == \A i \in 1..Len(st) : \E j \in 1..Len(ut) : ut[j].component = st[i].component
KeepingKids(cs, ds) ==
    \A a \in DOMAIN cs : \A k \in 1..Len(cs[a].subcomponents) :
        k \in 1..Len(ds[a].subcomponents) /\ ds[a].subcomponents[k] = cs[a].subcomponents[k]

\* KeepingCalls: what is called stays called, what was created by a call stays so.
LEMMA KeepingCalls ==
    ASSUME NEW cs, NEW ds, NEW st, NEW ut, Keeping(st, ut)
    PROVE  /\ \A x : Called(st, x) => Called(ut, x)
           /\ (\A i \in 1..Len(st) : st[i].component \in DOMAIN cs) /\ KeepingKids(cs, ds) =>
                 \A x : KidOfCall(cs, st, x) => KidOfCall(ds, ut, x)
  <1>1. \A x : Called(st, x) => Called(ut, x)
    BY DEF Called, Keeping
  <1>2. ASSUME \A i \in 1..Len(st) : st[i].component \in DOMAIN cs, KeepingKids(cs, ds), NEW x, KidOfCall(cs, st, x)
        PROVE  KidOfCall(ds, ut, x)
    <2>1. PICK i \in 1..Len(st) : \E k \in 1..Len(cs[st[i].component].subcomponents) :
             cs[st[i].component].subcomponents[k] = x
      BY <1>2 DEF KidOfCall
    <2>2. PICK k \in 1..Len(cs[st[i].component].subcomponents) : cs[st[i].component].subcomponents[k] = x
      BY <2>1
    <2>3. PICK j \in 1..Len(ut) : ut[j].component = st[i].component
      BY DEF Keeping
    <2>4. st[i].component \in DOMAIN cs
      BY <1>2
    <2> DEFINE a == st[i].component
    <2>5. k \in 1..Len(ds[a].subcomponents) /\ ds[a].subcomponents[k] = cs[a].subcomponents[k]
      BY <1>2, <2>2, <2>4 DEF KeepingKids
    <2> QED BY <2>2, <2>3, <2>5 DEF KidOfCall
  <1> QED BY <1>1, <1>2

\* MovedKeeping: a call that goes on, and one more call, drop none.
LEMMA MovedKeeping ==
    ASSUME NEW st, Len(st) \in Nat, NEW ut
    PROVE  /\ Moved(st, ut) => Keeping(st, ut)
           /\ \A id : Pushed(st, ut, id) => Keeping(st, ut) /\ Called(ut, id)
  <1>1. ASSUME Moved(st, ut) PROVE Keeping(st, ut)
    <2>1. Len(ut) = Len(st) /\ ut[1].component = st[1].component /\ \A i \in 2..Len(st) : ut[i] = st[i]
      BY <1>1 DEF Moved
    <2>2. \A i \in 1..Len(st) : i = 1 \/ i \in 2..Len(st)
      OBVIOUS
    <2>3. \A i \in 1..Len(st) : ut[i].component = st[i].component
      BY <2>1, <2>2
    <2> QED BY <2>1, <2>3 DEF Keeping
  <1>2. ASSUME NEW id, Pushed(st, ut, id) PROVE Keeping(st, ut) /\ Called(ut, id)
    <2>1. Len(ut) = Len(st) + 1 /\ ut[1].component = id /\ \A i \in 1..Len(st) : ut[i + 1] = st[i]
      BY <1>2 DEF Pushed
    <2>2. 1 \in 1..Len(ut) /\ \A i \in 1..Len(st) : i + 1 \in 1..Len(ut)
      BY <2>1
    <2> QED BY <2>1, <2>2 DEF Keeping, Called
  <1> QED BY <1>1, <1>2

\* OutputsStay: a component that is as it was.
LEMMA OutputsStay ==
    ASSUME NEW cs, NEW ds, NEW st, NEW ut, NEW D, NEW E, NEW y, Outputs(cs, st, D, y),
           ds[y].template = cs[y].template, ds[y].inputCounter = cs[y].inputCounter,
           \A o \in Outs(cs[y].template) : At(ds, y, o) \in E <=> At(cs, y, o) \in D,
           Called(st, y) => Called(ut, y), KidOfCall(cs, st, y) => KidOfCall(ds, ut, y)
    PROVE  Outputs(ds, ut, E, y)
  BY DEF Outputs

\* CalledOutputs: a component that is called, and waits for no input.
LEMMA CalledOutputs ==
    ASSUME NEW cs, NEW st, NEW D, NEW y, Called(st, y), y = 0 \/ ~ (cs[y].inputCounter > 0)
    PROVE  Outputs(cs, st, D, y)
  BY DEF Outputs

\* LeafOrRuns: a template without statements, or one that has some.
LEMMA LeafOrRuns ==
    ASSUME NEW t \in Names
    PROVE  /\ Templates[t].run # << >> => t \in Runners
           /\ Templates[t].run = << >> => t \in {"PoseidonEx2", "PoseidonEx3", "MultiMux1"}
  <1>1. t \in Runners \/ t \in {"PoseidonEx2", "PoseidonEx3", "MultiMux1"}
    BY DEF Names, Runners
  <1>2. t \in {"PoseidonEx2", "PoseidonEx3", "MultiMux1"} => Templates[t].run = << >>
    BY LeafShape
  <1>3. t \in Runners => Templates[t].run # << >>
    <2> SUFFICES ASSUME t \in Runners, Templates[t].run = << >> PROVE FALSE
      OBVIOUS
    <2>1. Kids(t) \in Nat /\ Len(Templates[t].run) = 0 /\ Blocks(t) <= Len(Templates[t].run)
      BY KidsFollow, ProgramShape DEF Shape
    <2>2. Blocks(t) \in {1, 2, 4}
      BY DEF Runners, Blocks
    <2> QED BY <2>1, <2>2
  <1> QED BY <1>1, <1>2, <1>3

\* The call st[1], of the component p, is at the statement s.
Doing(cs, st, p, s) ==
    /\ st # << >> /\ p = st[1].component
    /\ st[1].at \in 1..Len(Templates[cs[p].template].run) /\ s = Templates[cs[p].template].run[st[1].at]

\* DoingTop: the statement is one of the innermost call.
LEMMA DoingTop ==
    ASSUME NEW cs, NEW st, NEW p, NEW s, Doing(cs, st, p, s)
    PROVE  st # << >> /\ p = st[1].component
  BY DEF Doing

\* PlainKeeps: a statement that copies an output, or that neither creates nor sets.
LEMMA PlainKeeps ==
    ASSUME NEW cs, NEW st, Memory(cs), Calls(cs, st), NEW D, Signals(cs, st, D),
           NEW p, NEW s, Doing(cs, st, p, s), s.op # "set", NEW ut, Moved(st, ut), NEW E, NEW O, Adds(cs, D, E, p, O), StatementAdds(cs, p, s, p, O)
    PROVE  Signals(cs, ut, E)
  <1>1. /\ Main(cs, D) /\ Apart(cs) /\ Covered(cs, D)
        /\ \A x \in DOMAIN cs : (x # 0 => Counted(cs, D, x)) /\ Outputs(cs, st, D, x)
        /\ \A i \in 1..Len(st) : Progress(cs, D, st[i])
    BY DEF Signals
  <1>2. /\ p = st[1].component /\ p \in DOMAIN cs /\ Frame(cs, st[1]) /\ Len(st) \in Nat \ {0} /\ 1 \in 1..Len(st)
        /\ \A i \in 1..Len(st) : st[i].component \in DOMAIN cs
        /\ Called(st, p) /\ st # << >>
    <2>1. st # << >> /\ p = st[1].component
      BY Zenon DEF Doing
    <2> QED BY <2>1, CallFacts
  <1>3. Relaid(cs, cs)
    BY DEF Relaid
  <1>4. Len(st) \in Nat \ {0}
    BY <1>2
  <1>5. O \subseteq Outs(cs[p].template)
    <2>1. Progress(cs, D, st[1])
      BY <1>1, <1>2
    <2>2. s.op = "copy" => s.at \in Outs(cs[p].template)
      BY <2>1, Fresh, Zenon DEF Doing
    <2> QED BY <2>2 DEF StatementAdds
  <1>6. Main(cs, E) /\ Covered(cs, E)
    <2>1. Covered(cs, E)
      BY <1>1, AddsCovered
    <2>2. Main(cs, D) => Main(cs, E)
      BY DEF Main, Adds
    <2> QED BY <1>1, <2>1, <2>2
  <1>7. /\ Len(ut) = Len(st) /\ ut[1].component = p /\ ut[1].at = st[1].at + 1 /\ \A i \in 2..Len(st) : ut[i] = st[i]
    BY <1>2 DEF Moved
  <1>8. Progress(cs, E, ut[1])
    <2> DEFINE n == st[1].at
               t == cs[p].template
               g == ut[1]
    <2>1. n <= Len(Templates[t].run) /\ s = Templates[t].run[n]
      <3>1. Len(Templates[t].run) \in Nat
        BY <1>2, CellTypes
      <3>2. n \in 1..Len(Templates[t].run) /\ s = Templates[t].run[n]
        BY Zenon DEF Doing
      <3> DEFINE m == Len(Templates[t].run)
      <3> HIDE DEF m, n
      <3>3. n <= m
        BY <3>1, <3>2 DEF m
      <3> QED BY <3>2, <3>3 DEF m
    <2>2. Progress(cs, D, st[1]) /\ Apart(cs) /\ g.component = p /\ g.at = n + 1
      BY <1>1, <1>2, <1>7
    <2> QED BY <1>2, <1>3, <2>1, <2>2, TopProgress, Zenon
  <1>9. ASSUME NEW i \in 2..Len(st) PROVE Progress(cs, E, ut[i])
    <2>1. i \in 1..Len(st) /\ i # 1
      BY <1>4
    <2>2. Progress(cs, D, st[i]) /\ Apart(cs) /\ ut[i] = st[i]
      BY <1>1, <1>7, <2>1
    <2>3. Touches(cs, p, p, O)
      BY <1>5 DEF Touches
    <2> QED BY <1>2, <1>3, <2>1, <2>2, <2>3, OthersProgress
  <1>10. \A i \in 1..Len(ut) : Progress(cs, E, ut[i])
    <2>1. \A i \in 1..Len(st) : i = 1 \/ i \in 2..Len(st)
      BY <1>4
    <2> QED BY <1>7, <1>8, <1>9, <2>1
  <1>11. ASSUME NEW y \in DOMAIN cs, NEW q \in Own(cs[y].template), ~ (y = p /\ q \in Outs(cs[p].template))
         PROVE  At(cs, y, q) \in E <=> At(cs, y, q) \in D
    <2>1. Apart(cs)
      BY <1>1
    <2>2. At(cs, y, q) \in E <=> At(cs, y, q) \in D \/ (y = p /\ q \in O)
      BY <2>1, AddsTo
    <2> QED BY <1>5, <1>11, <2>2
  <1>12. ASSUME NEW y \in DOMAIN cs PROVE (y # 0 => Counted(cs, E, y)) /\ Outputs(cs, ut, E, y)
    <2>0. (y # 0 => Counted(cs, D, y)) /\ Outputs(cs, st, D, y)
      BY <1>1
    <2>1. y # 0 => Counted(cs, E, y)
      <3>1. \A o \in Inputs(cs[y].template) : o \in Own(cs[y].template) /\ o \notin Outs(cs[y].template)
        BY CellTypes, OwnSignals DEF Outs
      <3>2. \A o \in Inputs(cs[y].template) : At(cs, y, o) \in E <=> At(cs, y, o) \in D
        BY <1>11, <3>1
      <3> QED BY <2>0, <3>2, CountedSame
    <2>2. Keeping(st, ut) /\ KeepingKids(cs, cs)
      BY <1>4, MovedKeeping DEF KeepingKids
    <2>3. (Called(st, y) => Called(ut, y)) /\ (KidOfCall(cs, st, y) => KidOfCall(cs, ut, y))
      BY <1>2, <2>2, KeepingCalls
    <2>4. CASE y = p
      <3>1. y = 0 \/ ~ (cs[y].inputCounter > 0)
        <4>1. p = 0 \/ cs[p].inputCounter <= 0
          BY <1>2 DEF Frame
        <4>2. cs[y].inputCounter \in Int
          BY CellTypes
        <4> QED BY <2>4, <4>1, <4>2
      <3>2. Called(ut, y)
        BY <1>2, <2>3, <2>4
      <3>3. Outputs(cs, ut, E, y)
        BY <3>1, <3>2, CalledOutputs, Zenon
      <3> QED BY <2>1, <3>3
    <2>5. CASE y # p
      <3>1. \A o \in Outs(cs[y].template) : At(cs, y, o) \in E <=> At(cs, y, o) \in D
        BY <1>11, <2>5 DEF Outs
      <3>2. Outputs(cs, ut, E, y)
        BY <2>0, <2>3, <3>1, OutputsStay, Zenon
      <3> QED BY <2>1, <3>2
    <2> QED BY <2>1, <2>4, <2>5
  <1> QED BY <1>1, <1>6, <1>10, <1>12 DEF Signals

\* The statement s gives the sub-component id of p its input; with the last one, id has
\* its outputs too when it is without statements, and is called when it has some.
Sets(cs, ds, st, ut, D, E, p, s, id) ==
    /\ s.op = "set" /\ id = cs[p].subcomponents[s.sub]
    /\ Relaid(cs, ds) /\ \A y \in DOMAIN cs : ds[y].subcomponents = cs[y].subcomponents
    /\ ds[id].inputCounter = cs[id].inputCounter - 1
    /\ \A y \in DOMAIN cs : y # id => ds[y].inputCounter = cs[y].inputCounter
    /\ \E vt, O :
          /\ Moved(st, vt) /\ Adds(cs, D, E, id, O)
          /\ \/ cs[id].inputCounter # 1 /\ O = {s.at} /\ ut = vt
             \/ /\ cs[id].inputCounter = 1 /\ Templates[cs[id].template].run = << >>
                /\ O = {s.at} \cup Outs(cs[id].template) /\ ut = vt
             \/ /\ cs[id].inputCounter = 1 /\ Templates[cs[id].template].run # << >>
                /\ O = {s.at} /\ Pushed(vt, ut, id)

\* SetTarget: the sub-component a statement gives an input, and the input.
LEMMA SetTarget ==
    ASSUME NEW cs, NEW st, Memory(cs), Calls(cs, st), NEW D, Progress(cs, D, st[1]), NEW p, NEW s, Doing(cs, st, p, s),
           s.op = "set"
    PROVE  LET id == cs[p].subcomponents[s.sub] IN
           /\ p \in DOMAIN cs /\ s.sub \in 1..Len(cs[p].subcomponents)
           /\ id \in DOMAIN cs /\ p < id /\ id \in Nat \ {0} /\ cs[id].template \in Names /\ cs[id].signalStart \in Nat
           /\ cs[id].inputCounter \in Int
           /\ s.at \in Inputs(cs[id].template) /\ s.at \in Own(cs[id].template) /\ At(cs, id, s.at) \notin D
  <1> DEFINE k == s.sub
             id == cs[p].subcomponents[k]
  <1>1. st # << >> /\ p = st[1].component
    BY DEF Doing
  <1>2. p \in DOMAIN cs
    BY <1>1, CallFacts
  <1>3. /\ k \in 1..Len(cs[p].subcomponents) /\ s.at \in Inputs(cs[id].template) /\ At(cs, id, s.at) \notin D
    BY Fresh, Zenon DEF Doing
  <1> HIDE DEF k
  <1>4. id \in DOMAIN cs /\ p < id
    BY <1>2, <1>3, KidFacts
  <1> HIDE DEF id
  <1>5. id \in Nat /\ p \in Nat /\ cs[id].template \in Names /\ cs[id].signalStart \in Nat /\ cs[id].inputCounter \in Int
    BY <1>2, <1>4, CellTypes
  <1>6. id \in Nat \ {0}
    BY <1>4, <1>5
  <1>7. s.at \in Own(cs[id].template)
    BY <1>3, <1>5, OwnSignals
  <1> QED BY <1>2, <1>3, <1>4, <1>5, <1>6, <1>7 DEF k, id

\* SetPlace: the same, of a statement that is carried out.
LEMMA SetPlace ==
    ASSUME NEW cs, NEW st, Memory(cs), Calls(cs, st), NEW D, Progress(cs, D, st[1]), NEW p, NEW s, Doing(cs, st, p, s),
           NEW ds, NEW ut, NEW E, NEW id, Sets(cs, ds, st, ut, D, E, p, s, id)
    PROVE  /\ p \in DOMAIN cs /\ s.sub \in 1..Len(cs[p].subcomponents)
           /\ id \in DOMAIN cs /\ p < id /\ id \in Nat \ {0} /\ cs[id].template \in Names /\ cs[id].signalStart \in Nat
           /\ cs[id].inputCounter \in Int
           /\ s.at \in Inputs(cs[id].template) /\ s.at \in Own(cs[id].template) /\ At(cs, id, s.at) \notin D
  <1>1. s.op = "set" /\ id = cs[p].subcomponents[s.sub]
    BY Zenon DEF Sets
  <1> QED BY <1>1, SetTarget

\* SetOthers: a call that waits for another one goes on from where it was.
LEMMA SetOthers ==
    ASSUME NEW cs, NEW st, Memory(cs), Calls(cs, st), NEW D, Apart(cs), Progress(cs, D, st[1]),
           NEW p, NEW s, Doing(cs, st, p, s), NEW ds, NEW ut, NEW E, NEW id, Sets(cs, ds, st, ut, D, E, p, s, id),
           NEW O, Adds(cs, D, E, id, O), NEW i \in 1..Len(st), i # 1, Progress(cs, D, st[i])
    PROVE  Progress(ds, E, st[i])
  <1>1. st # << >> /\ p = st[1].component
    BY DoingTop, Zenon
  <1>2. s.sub \in 1..Len(cs[p].subcomponents) /\ id = cs[p].subcomponents[s.sub]
    <2>1. s.sub \in 1..Len(cs[p].subcomponents)
      BY SetPlace
    <2> QED BY <2>1, Zenon DEF Sets
  <1>3. Touches(cs, p, id, O)
    BY <1>2 DEF Touches
  <1>4. Relaid(cs, ds) /\ \A y \in DOMAIN cs : ds[y].subcomponents = cs[y].subcomponents
    BY Zenon DEF Sets
  <1>5. ds[st[i].component].subcomponents = cs[st[i].component].subcomponents
    <2>1. st[i].component \in DOMAIN cs
      BY <1>1, CallFacts
    <2> QED BY <1>4, <2>1
  <1>6. Relaid(cs, ds) /\ st # << >> /\ p = st[1].component
    BY <1>1, <1>4
  <1> QED BY ONLY Memory(cs), Calls(cs, st), Apart(cs), i \in 1..Len(st), i # 1, Progress(cs, D, st[i]), Adds(cs, D, E, id, O),
                  <1>3, <1>5, <1>6, OthersProgress

\* PushedProgress: a component that is called with all its inputs is at its first statement.
LEMMA PushedProgress ==
    ASSUME NEW cs, NEW x \in DOMAIN cs, cs[x].template \in Runners, cs[x].subcomponents = << >>, NEW D,
           \A o \in Outs(cs[x].template) : At(cs, x, o) \notin D, NEW f, f.component = x, f.at = 1
    PROVE  Progress(cs, D, f)
  <1> DEFINE t == cs[x].template
  <1>1. \A o \in Outs(t) : ~ (CopiedAt(t, o) < 1)
    <2> SUFFICES ASSUME NEW o \in Outs(t) PROVE ~ (CopiedAt(t, o) < 1)
      OBVIOUS
    <2>1. CopiedAt(t, o) \in 1..Len(Templates[t].run) /\ Len(Templates[t].run) \in Nat
      BY StatementTimes
    <2> QED BY <2>1
  <1>2. Len(cs[x].subcomponents) = 0
    OBVIOUS
  <1>3. \A k \in 1..Len(cs[x].subcomponents) : FALSE
    BY <1>2
  <1> QED BY <1>1, <1>3 DEF Progress

\* SetKeeps: an input is given to a sub-component.
LEMMA SetKeeps ==
    ASSUME NEW cs, NEW st, Memory(cs), Calls(cs, st), NEW D, Signals(cs, st, D),
           NEW p, NEW s, Doing(cs, st, p, s), NEW ds, NEW ut, NEW E, NEW id, Sets(cs, ds, st, ut, D, E, p, s, id)
    PROVE  Signals(ds, ut, E)
  <1>1. /\ Main(cs, D) /\ Apart(cs) /\ Covered(cs, D)
        /\ \A x \in DOMAIN cs : (x # 0 => Counted(cs, D, x)) /\ Outputs(cs, st, D, x)
        /\ \A i \in 1..Len(st) : Progress(cs, D, st[i])
    BY DEF Signals
  <1>2. /\ p = st[1].component /\ p \in DOMAIN cs /\ Len(st) \in Nat \ {0} /\ 1 \in 1..Len(st)
        /\ \A i \in 1..Len(st) : st[i].component \in DOMAIN cs
        /\ Called(st, p) /\ st # << >>
    <2>1. st # << >> /\ p = st[1].component
      BY DoingTop, Zenon
    <2> QED BY <2>1, CallFacts
  <1>3. Len(st) \in Nat \ {0}
    BY <1>2
  <1>4. /\ s.op = "set" /\ id = cs[p].subcomponents[s.sub]
        /\ Relaid(cs, ds) /\ \A y \in DOMAIN cs : ds[y].subcomponents = cs[y].subcomponents
        /\ ds[id].inputCounter = cs[id].inputCounter - 1
        /\ \A y \in DOMAIN cs : y # id => ds[y].inputCounter = cs[y].inputCounter
    BY Zenon DEF Sets
  <1> DEFINE t == cs[id].template
             full == cs[id].inputCounter = 1
             leaf == Templates[t].run = << >>
  <1>5. PICK vt, O :
          /\ Moved(st, vt) /\ Adds(cs, D, E, id, O)
          /\ \/ ~full /\ O = {s.at} /\ ut = vt
             \/ full /\ leaf /\ O = {s.at} \cup Outs(t) /\ ut = vt
             \/ full /\ ~leaf /\ O = {s.at} /\ Pushed(vt, ut, id)
    BY Zenon DEF Sets
  <1>6. /\ s.sub \in 1..Len(cs[p].subcomponents)
        /\ id \in DOMAIN cs /\ p < id /\ id \in Nat \ {0} /\ t \in Names /\ cs[id].signalStart \in Nat
        /\ cs[id].inputCounter \in Int
        /\ s.at \in Inputs(t) /\ s.at \in Own(t) /\ At(cs, id, s.at) \notin D
    <2>1. Progress(cs, D, st[1])
      BY <1>1, <1>2
    <2> HIDE DEF t
    <2>3. /\ s.sub \in 1..Len(cs[p].subcomponents)
          /\ id \in DOMAIN cs /\ p < id /\ id \in Nat \ {0} /\ cs[id].template \in Names /\ cs[id].signalStart \in Nat
          /\ cs[id].inputCounter \in Int
          /\ s.at \in Inputs(cs[id].template) /\ s.at \in Own(cs[id].template) /\ At(cs, id, s.at) \notin D
      BY <2>1, SetPlace
    <2> QED BY <2>3 DEF t
  <1> HIDE DEF full, leaf
  <1>7. O \cap Inputs(t) = {s.at} /\ s.at \in O
    BY <1>5, <1>6 DEF Outs
  <1>8. StatementAdds(cs, p, s, id, O)
    BY <1>4, <1>6, <1>7 DEF StatementAdds
  <1>9. Moved(st, vt) /\ Adds(cs, D, E, id, O)
    BY <1>5
  <1>10. /\ Len(vt) = Len(st) /\ vt[1].component = p /\ vt[1].at = st[1].at + 1 /\ \A i \in 2..Len(st) : vt[i] = st[i]
    BY <1>2, <1>9 DEF Moved
  <1>11. Progress(ds, E, vt[1])
    <2> DEFINE n == st[1].at
               w == cs[p].template
               g == vt[1]
    <2>1. n <= Len(Templates[w].run) /\ s = Templates[w].run[n]
      <3>1. Len(Templates[w].run) \in Nat
        BY <1>2, CellTypes
      <3>2. n \in 1..Len(Templates[w].run) /\ s = Templates[w].run[n]
        BY Zenon DEF Doing
      <3> DEFINE m == Len(Templates[w].run)
      <3> HIDE DEF m, n
      <3>3. n <= m
        BY <3>1, <3>2 DEF m
      <3> QED BY <3>2, <3>3 DEF m
    <2>2. Progress(cs, D, st[1]) /\ Apart(cs) /\ g.component = p /\ g.at = n + 1
      BY <1>1, <1>2, <1>10
    <2>3. Relaid(cs, ds) /\ ds[p].subcomponents = cs[p].subcomponents
      BY <1>2, <1>4
    <2> QED BY <1>2, <1>8, <1>9, <2>1, <2>2, <2>3, TopProgress, Zenon
  <1>12. ASSUME NEW i \in 2..Len(st) PROVE Progress(ds, E, vt[i])
    <2>1. i \in 1..Len(st) /\ i # 1
      BY <1>3
    <2>2. Progress(cs, D, st[i]) /\ Progress(cs, D, st[1]) /\ Apart(cs) /\ vt[i] = st[i]
      BY <1>1, <1>2, <1>10, <2>1
    <2>3. Adds(cs, D, E, id, O)
      BY <1>9
    <2>4. Progress(ds, E, st[i])
      BY <2>1, <2>2, <2>3, SetOthers
    <2> QED BY <2>2, <2>4
  <1>13. \A i \in 1..Len(vt) : Progress(ds, E, vt[i])
    <2>1. \A i \in 1..Len(st) : i = 1 \/ i \in 2..Len(st)
      BY <1>3
    <2> QED BY <1>10, <1>11, <1>12, <2>1
  <1>14. \A y \in DOMAIN cs : \A q \in Own(cs[y].template) :
            At(cs, y, q) \in E <=> At(cs, y, q) \in D \/ (y = id /\ q \in O)
    BY <1>1, <1>9, AddsTo
  <1>15. /\ \A y \in DOMAIN cs : \A q : At(ds, y, q) = At(cs, y, q)
         /\ \A y \in DOMAIN cs : InputsOf(ds, y) = InputsOf(cs, y)
         /\ DOMAIN ds = DOMAIN cs /\ \A y \in DOMAIN cs : ds[y].template = cs[y].template
    BY <1>4, RelaidSame DEF Relaid
  <1>16. Main(ds, E) /\ Apart(ds) /\ Covered(ds, E)
    <2>1. Covered(cs, E)
      BY <1>1, <1>9, AddsCovered
    <2>2. Main(cs, D) => Main(cs, E)
      BY <1>9 DEF Main, Adds
    <2> QED BY <1>1, <1>4, <2>1, <2>2, RelaidSame
  <1>17. cs[id].inputCounter \in Nat \ {0} /\ Counted(ds, E, id)
    <2>1. Counted(cs, D, id) /\ InputsOf(ds, id) = InputsOf(cs, id)
      BY <1>1, <1>6, <1>15
    <2>2. At(cs, id, s.at) \in E
      BY <1>6, <1>7, <1>14
    <2>3. \A q \in Inputs(t) : q # s.at => (At(cs, id, q) \in E <=> At(cs, id, q) \in D)
      <3>1. \A q \in Inputs(t) : q \in Own(t)
        BY <1>6, OwnSignals
      <3>2. \A q \in Inputs(t) : q # s.at => q \notin O
        BY <1>7
      <3> QED BY <1>6, <1>14, <3>1, <3>2
    <2>4. /\ cs[id].template \in Names /\ cs[id].signalStart \in Nat /\ s.at \in Inputs(cs[id].template)
          /\ At(cs, id, s.at) \notin D /\ ds[id].inputCounter = cs[id].inputCounter - 1
          /\ \A q \in Inputs(cs[id].template) : q # s.at => (At(cs, id, q) \in E <=> At(cs, id, q) \in D)
      BY <1>4, <1>6, <2>3
    <2> DEFINE o == s.at
    <2> HIDE DEF o, t
    <2>5. /\ o \in Inputs(cs[id].template) /\ At(cs, id, o) \notin D /\ At(cs, id, o) \in E
          /\ \A q \in Inputs(cs[id].template) : q # o => (At(cs, id, q) \in E <=> At(cs, id, q) \in D)
      BY <2>2, <2>4 DEF o
    <2>6. cs[id].template \in Names /\ cs[id].signalStart \in Nat /\ ds[id].inputCounter = cs[id].inputCounter - 1
      BY <2>4
    <2> QED BY <2>1, <2>5, <2>6, CountedLess
  <1>18. ASSUME NEW y \in DOMAIN cs, y # 0 PROVE Counted(ds, E, y)
    <2>1. CASE y = id
      BY <1>17, <2>1
    <2>2. CASE y # id
      <3>1. \A o \in Inputs(cs[y].template) : o \in Own(cs[y].template)
        BY CellTypes, OwnSignals
      <3>2. \A o \in Inputs(cs[y].template) : At(cs, y, o) \in E <=> At(cs, y, o) \in D
        BY <1>14, <2>2, <3>1
      <3>3. Counted(cs, D, y) /\ InputsOf(ds, y) = InputsOf(cs, y) /\ ds[y].inputCounter = cs[y].inputCounter
        BY <1>1, <1>4, <1>15, <1>18, <2>2
      <3> QED BY <3>2, <3>3, CountedSame
    <2> QED BY <2>1, <2>2
  <1>19. KidOfCall(cs, st, id) /\ \A o \in Outs(t) : At(cs, id, o) \notin D
    <2>1. Outputs(cs, st, D, id) /\ id # 0 /\ cs[id].inputCounter > 0
      BY <1>1, <1>6, <1>17
    <2> QED BY <2>1 DEF Outputs
  <1>20. \A o \in Outs(t) : o \in Own(t) /\ o # s.at
    BY <1>6 DEF Outs
  <1>21. /\ \A y : Called(st, y) => Called(ut, y)
         /\ \A y : KidOfCall(cs, st, y) => KidOfCall(ds, ut, y)
         /\ full /\ ~leaf => Called(ut, id)
    <2>1. Keeping(st, vt)
      BY <1>3, <1>9, MovedKeeping
    <2>2. Keeping(vt, ut) /\ (full /\ ~leaf => Called(ut, id))
      <3>1. Len(vt) \in Nat
        BY <1>3, <1>10
      <3>2. vt = ut => Keeping(vt, ut)
        BY DEF Keeping
      <3>3. Pushed(vt, ut, id) => Keeping(vt, ut) /\ Called(ut, id)
        BY <3>1, MovedKeeping
      <3> QED BY <1>5, <3>2, <3>3
    <2>3. KeepingKids(cs, cs) /\ KeepingKids(cs, ds)
      BY <1>4 DEF KeepingKids
    <2>4. \A i \in 1..Len(vt) : vt[i].component \in DOMAIN cs
      <3>1. \A i \in 1..Len(st) : i = 1 \/ i \in 2..Len(st)
        BY <1>3
      <3> QED BY <1>2, <1>10, <3>1
    <2>5. /\ \A y : Called(st, y) => Called(vt, y)
          /\ \A y : KidOfCall(cs, st, y) => KidOfCall(cs, vt, y)
      BY <1>2, <2>1, <2>3, KeepingCalls
    <2>6. /\ \A y : Called(vt, y) => Called(ut, y)
          /\ \A y : KidOfCall(cs, vt, y) => KidOfCall(ds, ut, y)
      BY <2>2, <2>3, <2>4, KeepingCalls
    <2> QED BY <2>2, <2>5, <2>6
  <1>22. Outputs(ds, ut, E, id)
    <2>1. CASE ~full /\ O = {s.at}
      <3>1. \A o \in Outs(t) : At(ds, id, o) \notin E
        BY <1>6, <1>14, <1>15, <1>19, <1>20, <2>1
      <3>2. KidOfCall(ds, ut, id)
        BY <1>19, <1>21
      <3>3. ds[id].inputCounter > 0 /\ id # 0
        BY <1>4, <1>6, <1>17, <2>1 DEF full
      <3>4. ds[id].template = t
        BY <1>6, <1>15
      <3> QED BY <3>1, <3>2, <3>3, <3>4 DEF Outputs
    <2>2. CASE full /\ leaf /\ O = {s.at} \cup Outs(t)
      <3>1. \A o \in Outs(t) : At(ds, id, o) \in E
        BY <1>6, <1>14, <1>15, <1>20, <2>2
      <3>2. ~ (ds[id].inputCounter > 0)
        BY <1>4, <2>2 DEF full
      <3>3. ds[id].template = t
        BY <1>6, <1>15
      <3> QED BY <3>1, <3>2, <3>3 DEF Outputs
    <2>3. CASE full /\ ~leaf
      <3>1. ~ (ds[id].inputCounter > 0) /\ Called(ut, id)
        BY <1>4, <1>21, <2>3 DEF full
      <3> QED BY <3>1, CalledOutputs
    <2> QED BY <1>5, <2>1, <2>2, <2>3
  <1>23. ASSUME NEW y \in DOMAIN cs PROVE Outputs(ds, ut, E, y)
    <2>1. CASE y = id
      BY <1>22, <2>1
    <2>2. CASE y # id
      <3>1. \A o \in Outs(cs[y].template) : At(ds, y, o) \in E <=> At(cs, y, o) \in D
        <4>1. \A o \in Outs(cs[y].template) : o \in Own(cs[y].template)
          BY DEF Outs
        <4> QED BY <1>14, <1>15, <2>2, <4>1
      <3>2. /\ Outputs(cs, st, D, y) /\ ds[y].template = cs[y].template /\ ds[y].inputCounter = cs[y].inputCounter
            /\ Called(st, y) => Called(ut, y)
            /\ KidOfCall(cs, st, y) => KidOfCall(ds, ut, y)
        BY <1>1, <1>4, <1>15, <1>21, <2>2
      <3> QED BY <3>1, <3>2, OutputsStay, Zenon
    <2> QED BY <2>1, <2>2
  <1>24. \A i \in 1..Len(ut) : Progress(ds, E, ut[i])
    <2>1. CASE ut = vt
      BY <1>13, <2>1
    <2>2. CASE full /\ ~leaf /\ O = {s.at} /\ Pushed(vt, ut, id)
      <3>1. /\ Len(ut) = Len(vt) + 1 /\ ut[1].component = id /\ ut[1].at = 1 /\ \A i \in 1..Len(vt) : ut[i + 1] = vt[i]
        BY <2>2 DEF Pushed
      <3>2. Progress(ds, E, ut[1])
        <4>1. \A o \in Outs(t) : At(ds, id, o) \notin E
          BY <1>6, <1>14, <1>15, <1>19, <1>20, <2>2
        <4>2. ds[id].template = t /\ t \in Runners
          BY <1>6, <1>15, <2>2, LeafOrRuns DEF leaf
        <4>3. ds[id].subcomponents = << >>
          <5>1. cs[id].inputCounter > 0 /\ id # 0
            BY <1>6, <1>17
          <5>2. Untouched(cs, id)
            BY <1>6, <5>1 DEF Memory
          <5> QED BY <1>4, <1>6, <5>2 DEF Untouched
        <4>4. id \in DOMAIN ds
          BY <1>6, <1>15
        <4> DEFINE f == ut[1]
        <4>5. f.component = id /\ f.at = 1
          BY <3>1
        <4> HIDE DEF f
        <4>6. Progress(ds, E, f)
          BY <4>1, <4>2, <4>3, <4>4, <4>5, PushedProgress
        <4> QED BY <4>6 DEF f
      <3>3. \A i \in 1..Len(ut) : i = 1 \/ (i - 1 \in 1..Len(vt) /\ (i - 1) + 1 = i)
        <4>1. Len(vt) \in Nat
          BY <1>3, <1>10
        <4> QED BY <3>1, <4>1
      <3>4. \A i \in 1..Len(ut) : i = 1 \/ ut[i] = vt[i - 1]
        BY <3>1, <3>3
      <3> QED BY <1>13, <3>2, <3>3, <3>4
    <2> QED BY <1>5, <2>1, <2>2
  <1> QED BY <1>15, <1>16, <1>18, <1>23, <1>24 DEF Signals

\* CreateTimes: while a run creates its sub-components it has copied no output and given
\* no input yet.
LEMMA CreateTimes ==
    ASSUME NEW cs, NEW st, Memory(cs), Calls(cs, st), NEW D, Progress(cs, D, st[1]),
           NEW p, NEW s, Doing(cs, st, p, s), s.op = "create"
    PROVE  /\ p \in DOMAIN cs /\ cs[p].template \in Runners /\ st[1].at \in Nat
           /\ \A o \in Outs(cs[p].template) :
                 ~ (CopiedAt(cs[p].template, o) < st[1].at) /\ ~ (CopiedAt(cs[p].template, o) < st[1].at + 1)
           /\ \A k \in 1..Kids(cs[p].template) : \A o \in Inputs(KidTemplate(cs[p].template, k)) :
                 ~ (GivenAt(cs[p].template, k, o) < st[1].at) /\ ~ (GivenAt(cs[p].template, k, o) < st[1].at + 1)
  <1>1. st # << >> /\ p = st[1].component
    BY DEF Doing
  <1>2. p \in DOMAIN cs /\ st[1].at \in Nat
    BY <1>1, CallFacts
  <1> DEFINE t == cs[p].template
             n == st[1].at
             m == Len(Templates[t].run)
             C == Blocks(t)
  <1>3. t \in Runners
    BY <1>1 DEF Progress
  <1>4. t \in Names /\ m \in Nat /\ C \in Nat
    BY <1>3, StatementTimes
  <1>5. n <= C
    <2>1. n \in 1..m /\ s = Templates[t].run[n]
      BY DEF Doing
    <2>2. \A i \in (C + 1)..m : Templates[t].run[i].op # "create"
      BY <1>4, ProgramShape DEF Shape, Uses
    <2> HIDE DEF m, C, n
    <2>3. n > C => n \in (C + 1)..m
      BY <1>4, <2>1
    <2>4. n \in Nat
      BY <1>4, <2>1
    <2> QED BY <1>4, <2>1, <2>2, <2>3, <2>4
  <1>6. \A o \in Outs(t) : CopiedAt(t, o) > C /\ CopiedAt(t, o) \in 1..m
    BY <1>3, StatementTimes
  <1>7. \A k \in 1..Kids(t) : \A o \in Inputs(KidTemplate(t, k)) : GivenAt(t, k, o) > C /\ GivenAt(t, k, o) \in 1..m
    BY <1>3, StatementTimes
  <1> HIDE DEF m, C, n
  <1>8. n \in Nat
    BY <1>2 DEF n
  <1>9. \A v \in 1..m : v > C => ~ (v < n) /\ ~ (v < n + 1)
    BY <1>4, <1>5, <1>8
  <1>10. \A o \in Outs(t) : ~ (CopiedAt(t, o) < n) /\ ~ (CopiedAt(t, o) < n + 1)
    BY <1>6, <1>9
  <1>11. \A k \in 1..Kids(t) : \A o \in Inputs(KidTemplate(t, k)) : ~ (GivenAt(t, k, o) < n) /\ ~ (GivenAt(t, k, o) < n + 1)
    BY <1>7, <1>9
  <1> QED BY <1>2, <1>3, <1>10, <1>11 DEF n

\* NewSignals: nothing has been written to the signals of what is created.
LEMMA NewSignals ==
    ASSUME NEW cs, NEW ds, Memory(cs), Memory(ds), Apart(cs), NEW D, Main(cs, D), Covered(cs, D),
           NEW p, NEW lo, NEW hi, CreatesRange(cs, ds, p, lo, hi), NEW y \in DOMAIN ds, y \notin DOMAIN cs,
           NEW q \in Own(ds[y].template)
    PROVE  At(ds, y, q) \notin D
  <1>1. \A x \in DOMAIN cs : x \in DOMAIN ds /\ ds[x].template = cs[x].template /\ ds[x].signalStart = cs[x].signalStart
    BY GrownFacts
  <1>2. Apart(ds)
    BY CreateApart
  <1>3. SUFFICES ASSUME At(ds, y, q) \in D PROVE FALSE
    OBVIOUS
  <1>4. CASE At(ds, y, q) = 0
    <2>1. 0 \in DOMAIN cs /\ 0 \in DOMAIN ds /\ ds[0].signalStart = 1 /\ y # 0
      BY <1>1 DEF Main
    <2>2. y \in Nat /\ ds[y].template \in Names /\ ds[y].signalStart \in Nat /\ ds[0].template \in Names
      BY <2>1, CellTypes
    <2>3. Within(ds, 0, y) \/ Before(ds, 0, y)
      BY <1>2, <2>1, <2>2 DEF Apart
    <2>4. q \in Nat /\ Templates[ds[0].template].own \in Nat /\ Extent(ds[0].template) \in Nat
      BY <2>2, OwnSignals
    <2>5. ds[0].signalStart + Templates[ds[0].template].own <= ds[y].signalStart
          \/ ds[0].signalStart + Extent(ds[0].template) <= ds[y].signalStart
      BY <2>3 DEF Within, Before, At
    <2>6. ds[y].signalStart + q = 0
      BY <1>4 DEF At
    <2> QED BY <2>1, <2>2, <2>4, <2>5, <2>6
  <1>5. CASE \E x \in DOMAIN cs : \E o \in Own(cs[x].template) : At(ds, y, q) = At(cs, x, o)
    <2>1. PICK x \in DOMAIN cs : \E o \in Own(cs[x].template) : At(ds, y, q) = At(cs, x, o)
      BY <1>5
    <2>4. PICK o \in Own(cs[x].template) : At(ds, y, q) = At(cs, x, o)
      BY <2>1
    <2>2. x \in DOMAIN ds /\ o \in Own(ds[x].template) /\ At(ds, x, o) = At(ds, y, q)
      BY <1>1, <2>4 DEF At
    <2>3. x = y
      BY <1>2, <2>2, OwnersDiffer
    <2> QED BY <2>3
  <1> QED BY <1>3, <1>4, <1>5 DEF Covered

\* CreatedCounted: what is created waits for all its inputs.
LEMMA CreatedCounted ==
    ASSUME NEW ds, Memory(ds), NEW y \in DOMAIN ds, ds[y].inputCounter = Templates[ds[y].template].inputs, NEW D,
           \A q \in Own(ds[y].template) : At(ds, y, q) \notin D
    PROVE  Counted(ds, D, y) /\ ds[y].inputCounter > 0
  <1>1. ds[y].template \in Names /\ ds[y].signalStart \in Nat
    BY CellTypes
  <1>2. Cardinality(InputsOf(ds, y)) = Templates[ds[y].template].inputs
    BY <1>1, InputsInterval
  <1>3. Inputs(ds[y].template) \subseteq Own(ds[y].template) /\ Templates[ds[y].template].inputs \in Nat \ {0}
    BY <1>1, OwnSignals
  <1>4. InputsOf(ds, y) \ D = InputsOf(ds, y)
    BY <1>3 DEF InputsOf
  <1> QED BY <1>2, <1>3, <1>4 DEF Counted

\* CreateProgress: the innermost call goes on when it has created sub-components.
LEMMA CreateProgress ==
    ASSUME NEW cs, NEW st, NEW ds, Memory(cs), Memory(ds), Calls(cs, st), NEW D, Signals(cs, st, D),
           NEW p, NEW s, Doing(cs, st, p, s), s.op = "create", NEW lo, NEW hi, CreatesRange(cs, ds, p, lo, hi),
           NEW g, g.component = p, g.at = st[1].at + 1
    PROVE  Progress(ds, D, g)
  <1>0. st # << >> /\ p = st[1].component
    BY DEF Doing
  <1>1. Main(cs, D) /\ Apart(cs) /\ Covered(cs, D) /\ Progress(cs, D, st[1])
    <2>1. 1 \in 1..Len(st)
      BY <1>0, CallFacts
    <2> QED BY <2>1 DEF Signals
  <1> DEFINE t == cs[p].template
             n == st[1].at
  <1>2. /\ p \in DOMAIN cs /\ t \in Runners
        /\ \A o \in Outs(t) : ~ (CopiedAt(t, o) < n) /\ ~ (CopiedAt(t, o) < n + 1)
        /\ \A k \in 1..Kids(t) : \A o \in Inputs(KidTemplate(t, k)) :
              ~ (GivenAt(t, k, o) < n) /\ ~ (GivenAt(t, k, o) < n + 1)
    BY <1>1, CreateTimes
  <1>3. /\ \A o \in Outs(t) : At(cs, p, o) \in D <=> CopiedAt(t, o) < n
        /\ \A k \in 1..Len(cs[p].subcomponents) : \A o \in Inputs(KidTemplate(t, k)) :
              At(cs, cs[p].subcomponents[k], o) \in D <=> GivenAt(t, k, o) < n
    BY <1>0, <1>1 DEF Progress
  <1>4. ds[p].template = t /\ ds[p].signalStart = cs[p].signalStart /\ Len(ds[p].subcomponents) = hi
        /\ lo \in Nat /\ hi \in Nat /\ p \in DOMAIN ds
    BY <1>1, GrownFacts
  <1>5. \A o \in Outs(t) : At(ds, p, o) \in D <=> CopiedAt(t, o) < n + 1
    BY <1>2, <1>3, <1>4 DEF At
  <1>6. ASSUME NEW k \in 1..hi, NEW o \in Inputs(KidTemplate(t, k))
        PROVE  At(ds, ds[p].subcomponents[k], o) \notin D /\ k \in 1..Kids(t)
    <2> DEFINE y == ds[p].subcomponents[k]
    <2>1. k \in 1..Kids(t) /\ y \in DOMAIN ds /\ ds[y].template = KidTemplate(t, k)
      BY <1>4, KidFacts
    <2>2. CASE k \in 1..lo
      <3>1. y = cs[p].subcomponents[k]
        BY <1>1, <2>2, GrownFacts
      <3>2. lo = Len(cs[p].subcomponents)
        BY DEF CreatesRange
      <3>3. y \in DOMAIN cs
        BY <1>2, <2>2, <3>1, <3>2, KidFacts
      <3>4. ds[y].signalStart = cs[y].signalStart
        BY <1>1, <3>3, GrownFacts
      <3>5. At(ds, y, o) = At(cs, y, o)
        BY <3>4 DEF At
      <3>6. ~ (GivenAt(t, k, o) < n)
        BY <1>2, <2>1
      <3> QED BY <1>3, <2>1, <2>2, <3>1, <3>2, <3>5, <3>6
    <2>3. CASE k \in (lo + 1)..hi
      <3>1. y = p + KidPlace(t, k) /\ y \notin DOMAIN cs
        BY <1>1, <2>3, GrownFacts
      <3>2. o \in Own(ds[y].template)
        <4>1. ds[y].template \in Names
          BY <2>1, CellTypes
        <4> QED BY <2>1, <4>1, OwnSignals
      <3> HIDE DEF y
      <3>3. At(ds, y, o) \notin D
        BY <1>1, <2>1, <3>1, <3>2, NewSignals
      <3> QED BY <2>1, <3>3 DEF y
    <2> QED BY <1>4, <2>2, <2>3
  <1>7. \A k \in 1..hi : \A o \in Inputs(KidTemplate(t, k)) :
           At(ds, ds[p].subcomponents[k], o) \in D <=> GivenAt(t, k, o) < n + 1
    BY <1>2, <1>6
  <1> HIDE DEF n
  <1>8. g.component = p /\ g.at = n + 1
    BY DEF n
  <1> QED BY <1>2, <1>4, <1>5, <1>7, <1>8 DEF Progress

\* CreateOthers: nor does it change what the calls that wait for it have done.
LEMMA CreateOthers ==
    ASSUME NEW cs, NEW st, NEW ds, Memory(cs), Calls(cs, st), NEW D, Apart(cs), st # << >>,
           NEW p, p = st[1].component, NEW lo, NEW hi, CreatesRange(cs, ds, p, lo, hi),
           NEW i \in 1..Len(st), i # 1, Progress(cs, D, st[i])
    PROVE  Progress(ds, D, st[i])
  <1> DEFINE a == st[i].component
             t == cs[a].template
  <1>1. a \in DOMAIN cs /\ p \in DOMAIN cs /\ a < p /\ 1 \in 1..Len(st)
    BY CallFacts
  <1>2. a # p
    <2>1. a \in Nat /\ p \in Nat
      BY <1>1, CellTypes
    <2> HIDE DEF a
    <2> QED BY <1>1, <2>1
  <1>3. ds[a] = cs[a] /\ \A x \in DOMAIN cs : ds[x].signalStart = cs[x].signalStart
    BY <1>1, <1>2, GrownFacts
  <1>4. \A x \in DOMAIN cs : \A o : At(ds, x, o) = At(cs, x, o)
    BY <1>3 DEF At
  <1>5. \A k \in 1..Len(cs[a].subcomponents) : cs[a].subcomponents[k] \in DOMAIN cs
    BY <1>1, KidFacts
  <1>6. /\ t \in Runners
        /\ \A o \in Outs(t) : At(cs, a, o) \in D <=> CopiedAt(t, o) < st[i].at
        /\ \A k \in 1..Len(cs[a].subcomponents) : \A o \in Inputs(KidTemplate(t, k)) :
              At(cs, cs[a].subcomponents[k], o) \in D <=> GivenAt(t, k, o) < st[i].at
    BY DEF Progress
  <1>7. \A o \in Outs(t) : At(ds, a, o) \in D <=> CopiedAt(t, o) < st[i].at
    BY <1>1, <1>4, <1>6
  <1>8. \A k \in 1..Len(cs[a].subcomponents) : \A o \in Inputs(KidTemplate(t, k)) :
              At(ds, cs[a].subcomponents[k], o) \in D <=> GivenAt(t, k, o) < st[i].at
    BY <1>4, <1>5, <1>6
  <1> QED BY <1>3, <1>6, <1>7, <1>8 DEF Progress

\* CreateSignals: sub-components are created.
LEMMA CreateSignals ==
    ASSUME NEW cs, NEW st, NEW ds, Memory(cs), Memory(ds), Calls(cs, st), NEW D, Signals(cs, st, D),
           NEW p, NEW s, Doing(cs, st, p, s), s.op = "create", NEW lo, NEW hi, CreatesRange(cs, ds, p, lo, hi),
           NEW ut, Moved(st, ut)
    PROVE  Signals(ds, ut, D)
  <1>0. st # << >> /\ p = st[1].component
    BY DEF Doing
  <1>1. /\ Main(cs, D) /\ Apart(cs) /\ Covered(cs, D)
        /\ \A x \in DOMAIN cs : (x # 0 => Counted(cs, D, x)) /\ Outputs(cs, st, D, x)
        /\ \A i \in 1..Len(st) : Progress(cs, D, st[i])
    BY DEF Signals
  <1>2. /\ Len(st) \in Nat \ {0} /\ 1 \in 1..Len(st) /\ p \in DOMAIN cs
        /\ \A i \in 1..Len(st) : st[i].component \in DOMAIN cs
    BY <1>0, CallFacts
  <1>3. Len(st) \in Nat \ {0}
    BY <1>2
  <1>4. /\ Len(ut) = Len(st) /\ ut[1].component = p /\ ut[1].at = st[1].at + 1 /\ \A i \in 2..Len(st) : ut[i] = st[i]
    BY <1>0 DEF Moved
  <1>5. /\ lo \in Nat /\ hi \in Nat
        /\ \A x \in DOMAIN cs : /\ x \in DOMAIN ds /\ ds[x].template = cs[x].template /\ ds[x].signalStart = cs[x].signalStart
                                /\ ds[x].inputCounter = cs[x].inputCounter
                                /\ x # p => ds[x] = cs[x]
        /\ \A k \in 1..lo : ds[p].subcomponents[k] = cs[p].subcomponents[k]
        /\ Len(ds[p].subcomponents) = hi
    BY <1>1, GrownFacts
  <1>6. lo = Len(cs[p].subcomponents) /\ lo <= hi
    BY DEF CreatesRange
  <1>7. /\ \A x \in DOMAIN cs : \A o : At(ds, x, o) = At(cs, x, o)
        /\ \A x \in DOMAIN cs : InputsOf(ds, x) = InputsOf(cs, x)
    BY <1>5 DEF At, InputsOf
  <1>8. Apart(ds)
    BY <1>1, CreateApart
  <1>9. Main(ds, D)
    BY <1>1, <1>5 DEF Main
  <1>10. Covered(ds, D)
    <2> SUFFICES ASSUME NEW d \in D, d # 0 PROVE \E x \in DOMAIN ds : \E o \in Own(ds[x].template) : d = At(ds, x, o)
      BY DEF Covered
    <2>1. PICK x \in DOMAIN cs : \E o \in Own(cs[x].template) : d = At(cs, x, o)
      BY <1>1 DEF Covered
    <2>2. x \in DOMAIN ds /\ ds[x].template = cs[x].template /\ \A o : At(ds, x, o) = At(cs, x, o)
      BY <1>5, <1>7
    <2> QED BY <2>1, <2>2
  <1>11. KeepingKids(cs, ds)
    <2> SUFFICES ASSUME NEW a \in DOMAIN cs, NEW k \in 1..Len(cs[a].subcomponents)
                 PROVE  k \in 1..Len(ds[a].subcomponents) /\ ds[a].subcomponents[k] = cs[a].subcomponents[k]
      BY DEF KeepingKids
    <2>1. CASE a # p
      BY <1>5, <2>1
    <2>2. CASE a = p
      <3>1. k \in 1..lo
        BY <1>6, <2>2
      <3>2. k \in 1..hi
        BY <1>5, <1>6, <3>1
      <3> QED BY <1>5, <2>2, <3>1, <3>2
    <2> QED BY <2>1, <2>2
  <1>12. /\ \A y : Called(st, y) => Called(ut, y)
         /\ \A y : KidOfCall(cs, st, y) => KidOfCall(ds, ut, y)
    <2>1. Keeping(st, ut)
      BY <1>3, MovedKeeping
    <2> QED BY <1>2, <1>11, <2>1, KeepingCalls
  <1>13. ASSUME NEW y \in DOMAIN cs PROVE (y # 0 => Counted(ds, D, y)) /\ Outputs(ds, ut, D, y)
    <2>1. y # 0 => Counted(ds, D, y)
      <3>1. y # 0 => Counted(cs, D, y)
        BY <1>1
      <3>2. InputsOf(ds, y) = InputsOf(cs, y) /\ ds[y].inputCounter = cs[y].inputCounter
        BY <1>5, <1>7
      <3> QED BY <3>1, <3>2 DEF Counted
    <2>2. Outputs(ds, ut, D, y)
      <3>1. /\ Outputs(cs, st, D, y) /\ ds[y].template = cs[y].template /\ ds[y].inputCounter = cs[y].inputCounter
            /\ \A o \in Outs(cs[y].template) : At(ds, y, o) \in D <=> At(cs, y, o) \in D
            /\ Called(st, y) => Called(ut, y)
            /\ KidOfCall(cs, st, y) => KidOfCall(ds, ut, y)
        BY <1>1, <1>5, <1>7, <1>12
      <3> QED BY <3>1, OutputsStay, Zenon
    <2> QED BY <2>1, <2>2
  <1>14. ASSUME NEW y \in DOMAIN ds, y \notin DOMAIN cs PROVE y # 0 /\ Counted(ds, D, y) /\ Outputs(ds, ut, D, y)
    <2>1. PICK k \in (lo + 1)..hi : y = p + KidPlace(cs[p].template, k)
      BY <1>1, <1>14, GrownFacts
    <2>2. /\ k \in 1..hi /\ ds[y] = Component(KidTemplate(cs[p].template, k), cs[p].signalStart + KidSignal(cs[p].template, k))
          /\ ds[p].subcomponents[k] = y
      BY <1>1, <2>1, GrownFacts
    <2>3. ds[y].inputCounter = Templates[ds[y].template].inputs
      BY <2>2, ComponentIs
    <2>4. \A q \in Own(ds[y].template) : At(ds, y, q) \notin D
      BY <1>1, <1>14, NewSignals
    <2>5. Counted(ds, D, y) /\ ds[y].inputCounter > 0
      BY <2>3, <2>4, CreatedCounted
    <2>6. y # 0
      BY <1>1, <1>14 DEF Main
    <2>7. KidOfCall(ds, ut, y)
      <3>1. 1 \in 1..Len(ut) /\ ut[1].component = p /\ k \in 1..Len(ds[p].subcomponents)
        BY <1>2, <1>4, <1>5, <2>2
      <3> QED BY <2>2, <3>1 DEF KidOfCall
    <2>8. \A o \in Outs(ds[y].template) : At(ds, y, o) \notin D
      BY <2>4 DEF Outs
    <2> QED BY <2>5, <2>6, <2>7, <2>8 DEF Outputs
  <1>15. \A i \in 1..Len(ut) : Progress(ds, D, ut[i])
    <2>1. Progress(ds, D, ut[1])
      <3> DEFINE g == ut[1]
      <3>1. g.component = p /\ g.at = st[1].at + 1
        BY <1>4
      <3> HIDE DEF g
      <3>2. Progress(ds, D, g)
        BY <3>1, CreateProgress
      <3> QED BY <3>2 DEF g
    <2>2. ASSUME NEW i \in 2..Len(st) PROVE Progress(ds, D, ut[i])
      <3>1. i \in 1..Len(st) /\ i # 1
        BY <1>3
      <3>2. Progress(cs, D, st[i]) /\ ut[i] = st[i] /\ st # << >> /\ p = st[1].component /\ Apart(cs)
        BY <1>0, <1>1, <1>4, <3>1
      <3>3. Progress(ds, D, st[i])
        BY <3>1, <3>2, CreateOthers
      <3> QED BY <3>2, <3>3
    <2>3. \A i \in 1..Len(st) : i = 1 \/ i \in 2..Len(st)
      BY <1>3
    <2> QED BY <1>4, <2>1, <2>2, <2>3
  <1> QED BY <1>8, <1>9, <1>10, <1>13, <1>14, <1>15 DEF Signals

\* The call st[1], of the component p, is at its end, and none of its sub-components
\* waits for an input.
Ending(cs, st, p) ==
    /\ st # << >> /\ p = st[1].component /\ st[1].at > Len(Templates[cs[p].template].run)
    /\ \A k \in 1..Len(cs[p].subcomponents) : cs[cs[p].subcomponents[k]].inputCounter = 0

\* What components behind p kept of their sub-components is released.
Frees(cs, ds, p) ==
    /\ Relaid(cs, ds)
    /\ \A x \in DOMAIN cs : ds[x].inputCounter = cs[x].inputCounter
    /\ \A x \in DOMAIN cs : x <= p => ds[x].subcomponents = cs[x].subcomponents

\* ReturnSignals: the end of a call.
LEMMA ReturnSignals ==
    ASSUME NEW cs, NEW st, Memory(cs), Calls(cs, st), NEW D, Signals(cs, st, D),
           NEW p, Ending(cs, st, p), NEW ds, Frees(cs, ds, p), NEW ut, Popped(st, ut)
    PROVE  Signals(ds, ut, D)
  <1>0. /\ st # << >> /\ p = st[1].component /\ st[1].at > Len(Templates[cs[p].template].run)
        /\ \A k \in 1..Len(cs[p].subcomponents) : cs[cs[p].subcomponents[k]].inputCounter = 0
    BY DEF Ending
  <1>1. /\ Main(cs, D) /\ Apart(cs) /\ Covered(cs, D)
        /\ \A x \in DOMAIN cs : (x # 0 => Counted(cs, D, x)) /\ Outputs(cs, st, D, x)
        /\ \A i \in 1..Len(st) : Progress(cs, D, st[i])
    BY DEF Signals
  <1>2. /\ Len(st) \in Nat \ {0} /\ 1 \in 1..Len(st) /\ p \in DOMAIN cs /\ st[1].at \in Nat
        /\ Frame(cs, st[1])
        /\ \A i \in 1..Len(st) : st[i].component \in DOMAIN cs /\ (i # 1 => st[i].component < p)
    BY <1>0, CallFacts
  <1>3. Len(st) \in Nat \ {0}
    BY <1>2
  <1>4. Len(ut) = Len(st) - 1 /\ \A i \in 1..(Len(st) - 1) : ut[i] = st[i + 1]
    BY DEF Popped
  <1>5. /\ Relaid(cs, ds)
        /\ \A x \in DOMAIN cs : ds[x].inputCounter = cs[x].inputCounter
        /\ \A x \in DOMAIN cs : x <= p => ds[x].subcomponents = cs[x].subcomponents
    BY DEF Frees
  <1>6. /\ DOMAIN ds = DOMAIN cs /\ \A x \in DOMAIN cs : ds[x].template = cs[x].template
        /\ \A x \in DOMAIN cs : \A o : At(ds, x, o) = At(cs, x, o)
        /\ \A x \in DOMAIN cs : InputsOf(ds, x) = InputsOf(cs, x)
        /\ Main(ds, D) /\ Apart(ds) /\ Covered(ds, D)
    BY <1>1, <1>5, RelaidSame DEF Relaid
  <1>7. \A x \in DOMAIN cs : x < p => x <= p
    <2>1. \A x \in DOMAIN cs : x \in Nat
      BY CellTypes
    <2> QED BY <1>2, <2>1
  <1>8. \A i \in 1..Len(ut) : /\ i + 1 \in 1..Len(st) /\ i + 1 # 1 /\ ut[i] = st[i + 1]
    BY <1>3, <1>4
  <1>9. \A i \in 1..Len(st) : i # 1 => i - 1 \in 1..Len(ut) /\ ut[i - 1] = st[i]
    <2>1. \A i \in 1..Len(st) : i # 1 => i - 1 \in 1..(Len(st) - 1) /\ (i - 1) + 1 = i
      BY <1>3
    <2> QED BY <1>4, <2>1
  <1>10. ASSUME NEW i \in 1..Len(ut) PROVE Progress(ds, D, ut[i])
    <2> DEFINE f == ut[i]
               a == f.component
               t == cs[a].template
    <2>1. Progress(cs, D, f) /\ a \in DOMAIN cs /\ a < p
      BY <1>1, <1>2, <1>8
    <2>2. ds[a].template = t /\ ds[a].subcomponents = cs[a].subcomponents
      BY <1>5, <1>6, <1>7, <2>1
    <2>3. \A k \in 1..Len(cs[a].subcomponents) : cs[a].subcomponents[k] \in DOMAIN cs
      BY <2>1, KidFacts
    <2> HIDE DEF f
    <2>4. /\ t \in Runners
          /\ \A o \in Outs(t) : At(cs, a, o) \in D <=> CopiedAt(t, o) < f.at
          /\ \A k \in 1..Len(cs[a].subcomponents) : \A o \in Inputs(KidTemplate(t, k)) :
                At(cs, cs[a].subcomponents[k], o) \in D <=> GivenAt(t, k, o) < f.at
      BY <2>1 DEF Progress
    <2>5. \A o \in Outs(t) : At(ds, a, o) \in D <=> CopiedAt(t, o) < f.at
      BY <1>6, <2>1, <2>4
    <2>6. \A k \in 1..Len(cs[a].subcomponents) : \A o \in Inputs(KidTemplate(t, k)) :
                At(ds, cs[a].subcomponents[k], o) \in D <=> GivenAt(t, k, o) < f.at
      BY <1>6, <2>3, <2>4
    <2>7. Progress(ds, D, f)
      BY <2>2, <2>4, <2>5, <2>6 DEF Progress
    <2> QED BY <2>7 DEF f
  <1>11. \A y \in DOMAIN cs : y # 0 => Counted(ds, D, y)
    BY <1>1, <1>5, <1>6 DEF Counted
  <1>12. \A y : y # p /\ Called(st, y) => Called(ut, y)
    <2> SUFFICES ASSUME NEW y, y # p, Called(st, y) PROVE Called(ut, y)
      OBVIOUS
    <2>1. PICK i \in 1..Len(st) : st[i].component = y
      BY DEF Called
    <2>2. i # 1
      BY <1>0, <2>1
    <2> QED BY <1>9, <2>1, <2>2 DEF Called
  <1>13. ASSUME NEW y \in DOMAIN cs, cs[y].inputCounter > 0, KidOfCall(cs, st, y)
         PROVE  KidOfCall(ds, ut, y)
    <2>1. PICK i \in 1..Len(st) : \E k \in 1..Len(cs[st[i].component].subcomponents) :
                                    cs[st[i].component].subcomponents[k] = y
      BY <1>13 DEF KidOfCall
    <2>2. PICK k \in 1..Len(cs[st[i].component].subcomponents) : cs[st[i].component].subcomponents[k] = y
      BY <2>1
    <2>3. i # 1
      <3>1. ASSUME i = 1 PROVE FALSE
        <4>1. cs[y].inputCounter = 0
          BY <1>0, <2>2, <3>1
        <4> QED BY <1>13, <4>1
      <3> QED BY <3>1
    <2>4. ds[st[i].component].subcomponents = cs[st[i].component].subcomponents
      BY <1>2, <1>5, <1>7, <2>3
    <2>5. i - 1 \in 1..Len(ut) /\ ut[i - 1] = st[i]
      BY <1>9, <2>3
    <2> QED BY <2>2, <2>4, <2>5 DEF KidOfCall
  <1>14. \A o \in Outs(cs[p].template) : At(cs, p, o) \in D
    <2> DEFINE t == cs[p].template
               m == Len(Templates[t].run)
               n == st[1].at
    <2>1. t \in Runners /\ \A o \in Outs(t) : At(cs, p, o) \in D <=> CopiedAt(t, o) < n
      BY <1>0, <1>1, <1>2 DEF Progress
    <2>2. m \in Nat /\ \A o \in Outs(t) : CopiedAt(t, o) \in 1..m
      BY <2>1, StatementTimes
    <2>3. n > m /\ n \in Nat
      BY <1>0, <1>2
    <2> HIDE DEF m, n
    <2>4. \A v \in 1..m : v < n
      BY <2>2, <2>3
    <2> QED BY <2>1, <2>2, <2>4
  <1>15. ASSUME NEW y \in DOMAIN cs PROVE Outputs(ds, ut, D, y)
    <2>1. Outputs(cs, st, D, y) /\ ds[y].inputCounter = cs[y].inputCounter /\ ds[y].template = cs[y].template
          /\ \A o : At(ds, y, o) = At(cs, y, o)
      BY <1>1, <1>5, <1>6
    <2>2. CASE y # 0 /\ cs[y].inputCounter > 0
      <3>1. KidOfCall(cs, st, y) /\ \A o \in Outs(cs[y].template) : At(cs, y, o) \notin D
        BY <2>1, <2>2 DEF Outputs
      <3>2. KidOfCall(ds, ut, y)
        BY <1>13, <2>2, <3>1
      <3> QED BY <2>1, <2>2, <3>1, <3>2 DEF Outputs
    <2>3. CASE ~ (y # 0 /\ cs[y].inputCounter > 0)
      <3>1. ~Called(ut, y) => \A o \in Outs(cs[y].template) : At(cs, y, o) \in D
        <4>1. CASE y = p
          BY <1>14, <4>1
        <4>2. CASE y # p
          <5>1. Called(st, y) => Called(ut, y)
            BY <1>12, <4>2
          <5>2. ~Called(st, y) => \A o \in Outs(cs[y].template) : At(cs, y, o) \in D
            BY <2>1, <2>3 DEF Outputs
          <5> QED BY <5>1, <5>2
        <4> QED BY <4>1, <4>2
      <3> QED BY <2>1, <2>3, <3>1 DEF Outputs
    <2> QED BY <2>2, <2>3
  <1> QED BY <1>6, <1>10, <1>11, <1>15 DEF Signals

\* StartSignals: the circuit is started.
LEMMA StartSignals ==
    ASSUME NEW cs, cs = Single(0, Component("Transaction", MainStart)), NEW st, st = <<[component |-> 0, at |-> 1]>>,
           NEW D, D = {0} \cup MainInputs
    PROVE  Signals(cs, st, D)
  <1> DEFINE tt == "Transaction"
             f == [component |-> 0, at |-> 1]
  <1>1. Memory(cs)
    BY StartedMemory
  <1>2. /\ tt \in Names /\ tt \in Runners /\ tt = "Transaction"
        /\ Templates[tt].firstInput = 0 /\ Templates[tt].inputs = InputCount /\ Templates[tt].own = InputCount
    BY TemplateValues DEF Names, Runners, Transaction
  <1>3. InputCount \in Nat
    BY ProgramAssumption DEF InputCount
  <1>4. Inputs(tt) = 0..(InputCount - 1) /\ Own(tt) = 0..(InputCount - 1) /\ Outs(tt) = {}
    BY <1>2, <1>3 DEF Inputs, Own, Outs
  <1> HIDE DEF tt
  <1>5. DOMAIN cs = {0} /\ cs[0].template = tt /\ cs[0].signalStart = 1 /\ cs[0].subcomponents = << >>
    <2>1. DOMAIN cs = {0} /\ cs[0] = Component(tt, MainStart)
      BY <1>2 DEF Single
    <2> QED BY <2>1, ComponentIs DEF MainStart
  <1>6. Main(cs, D)
    BY <1>2, <1>5 DEF Main
  <1>7. Apart(cs)
    BY <1>5 DEF Apart
  <1>8. Covered(cs, D)
    <2> SUFFICES ASSUME NEW d \in D, d # 0 PROVE \E o \in Own(tt) : d = At(cs, 0, o)
      BY <1>5 DEF Covered
    <2>1. d \in 1..InputCount
      BY <1>3 DEF MainInputs, MainStart
    <2>2. d - 1 \in Own(tt) /\ d = 1 + (d - 1)
      BY <1>3, <1>4, <2>1
    <2> QED BY <1>5, <2>2 DEF At
  <1>9. \A x \in DOMAIN cs : x = 0
    BY <1>5
  <1>10. Outputs(cs, st, D, 0)
    BY <1>4, <1>5 DEF Outputs
  <1>11. Len(st) = 1 /\ st[1] = f /\ \A i \in 1..Len(st) : i = 1
    OBVIOUS
  <1>12. f.component = 0 /\ f.at = 1
    OBVIOUS
  <1> HIDE DEF f
  <1>13. Progress(cs, D, f)
    <2>1. 0 \in DOMAIN cs /\ cs[0].template \in Runners /\ \A o \in Outs(cs[0].template) : At(cs, 0, o) \notin D
      BY <1>2, <1>4, <1>5
    <2> DEFINE x == 0
    <2>2. x \in DOMAIN cs /\ cs[x].template \in Runners /\ cs[x].subcomponents = << >> /\ f.component = x
          /\ \A o \in Outs(cs[x].template) : At(cs, x, o) \notin D
      BY <1>5, <1>12, <2>1
    <2> HIDE DEF x
    <2> QED BY <1>12, <2>2, PushedProgress
  <1> QED BY <1>6, <1>7, <1>8, <1>9, <1>10, <1>11, <1>13 DEF Signals

\* Complete: a component that has all its inputs and is not called has its outputs too.
LEMMA Complete ==
    ASSUME NEW cs, NEW st, NEW D, NEW y, cs[y].template \in Names, y # 0, Counted(cs, D, y), Outputs(cs, st, D, y),
           ~Called(st, y), \A o \in Inputs(cs[y].template) : At(cs, y, o) \in D
    PROVE  \A o \in Own(cs[y].template) : At(cs, y, o) \in D
  <1>1. InputsOf(cs, y) \ D = {}
    BY DEF InputsOf
  <1>2. cs[y].inputCounter = 0
    BY <1>1, FS_EmptySet DEF Counted
  <1>3. \A o \in Outs(cs[y].template) : At(cs, y, o) \in D
    BY <1>2 DEF Outputs
  <1> QED BY <1>3 DEF Outs

\* KidRead: a sub-component whose inputs were given by the statements so far.
LEMMA KidRead ==
    ASSUME NEW cs, NEW st, Memory(cs), Calls(cs, st), NEW D, Signals(cs, st, D), NEW p, NEW s, Doing(cs, st, p, s),
           NEW k \in 1..Kids(cs[p].template),
           \A o \in Inputs(KidTemplate(cs[p].template, k)) : GivenAt(cs[p].template, k, o) < st[1].at
    PROVE  \A o \in Own(KidTemplate(cs[p].template, k)) : At(cs, cs[p].subcomponents[k], o) \in D
  <1> DEFINE t == cs[p].template
             n == st[1].at
             m == Len(cs[p].subcomponents)
             y == cs[p].subcomponents[k]
  <1>0. st # << >> /\ p = st[1].component
    BY DEF Doing
  <1>1. /\ \A x \in DOMAIN cs : (x # 0 => Counted(cs, D, x)) /\ Outputs(cs, st, D, x)
        /\ \A i \in 1..Len(st) : Progress(cs, D, st[i])
    BY DEF Signals
  <1>2. /\ p \in DOMAIN cs /\ Frame(cs, st[1]) /\ n \in Nat /\ 1 \in 1..Len(st)
        /\ \A x : Called(st, x) => x \in DOMAIN cs /\ x <= p
    BY <1>0, CallFacts
  <1>3. /\ t \in Runners
        /\ \A j \in 1..m : \A o \in Inputs(KidTemplate(t, j)) :
              At(cs, cs[p].subcomponents[j], o) \in D <=> GivenAt(t, j, o) < n
    BY <1>0, <1>1, <1>2 DEF Progress
  <1>4. t \in Names /\ p \in Nat /\ KidTemplate(t, k) \in Names /\ Kids(t) \in Nat /\ PerBlock(t) \in Nat /\ Blocks(t) \in Nat
    BY <1>2, CellTypes, KidTypes, KidsFollow, ProgramShape DEF Shape, Blocks
  <1>5. n > Blocks(t)
    <2> DEFINE o == Templates[KidTemplate(t, k)].firstInput
    <2>1. o \in Inputs(KidTemplate(t, k))
      BY <1>4, OwnSignals DEF Inputs
    <2> HIDE DEF o
    <2>2. /\ GivenAt(t, k, o) > Blocks(t) /\ GivenAt(t, k, o) \in 1..Len(Templates[t].run)
          /\ Len(Templates[t].run) \in Nat
      BY <1>3, <2>1, StatementTimes
    <2>3. GivenAt(t, k, o) < n
      BY <2>1
    <2> DEFINE g == GivenAt(t, k, o)
               l == Len(Templates[t].run)
    <2>4. g > Blocks(t) /\ g \in 1..l /\ l \in Nat /\ g < n
      BY <2>2, <2>3
    <2> HIDE DEF g, l
    <2> QED BY <1>2, <1>4, <2>4
  <1>6. k \in 1..m
    <2>1. m = Made(t, n)
      BY <1>0, <1>2 DEF Frame
    <2>2. ~ (n <= Blocks(t))
      BY <1>2, <1>4, <1>5
    <2>3. Made(t, n) = Kids(t)
      BY <2>2 DEF Made, Kids
    <2> QED BY <2>1, <2>3
  <1>7. y \in DOMAIN cs /\ cs[y].template = KidTemplate(t, k) /\ p < y
    BY <1>2, <1>6, KidFacts
  <1>8. y \in Nat
    BY <1>7, CellTypes
  <1> HIDE DEF n, m, y
  <1>9. \A o \in Inputs(KidTemplate(t, k)) : At(cs, y, o) \in D
    BY <1>3, <1>6 DEF n, m, y
  <1>10. ~Called(st, y) /\ y # 0
    BY <1>2, <1>4, <1>7, <1>8
  <1>11. \A o \in Own(cs[y].template) : At(cs, y, o) \in D
    BY <1>1, <1>4, <1>7, <1>9, <1>10, Complete
  <1> QED BY <1>7, <1>11 DEF y

\* OwnInput: the inputs of a component that is called.
LEMMA OwnInput ==
    ASSUME NEW cs, NEW st, Memory(cs), Calls(cs, st), NEW D, Signals(cs, st, D), st # << >>, NEW p, p = st[1].component,
           NEW o \in Inputs(cs[p].template)
    PROVE  At(cs, p, o) \in D
  <1>1. /\ Main(cs, D) /\ \A x \in DOMAIN cs : x # 0 => Counted(cs, D, x)
    BY DEF Signals
  <1>2. p \in DOMAIN cs /\ Frame(cs, st[1])
    BY CallFacts
  <1>3. /\ cs[p].template \in Names /\ cs[p].signalStart \in Nat /\ cs[p].inputCounter \in Int
    BY <1>2, CellTypes
  <1>4. CASE p # 0
    <2>1. cs[p].inputCounter <= 0 /\ Counted(cs, D, p)
      BY <1>1, <1>2, <1>4 DEF Frame
    <2> QED BY <1>3, <2>1, NoneLeft
  <1>5. CASE p = 0
    <2>1. cs[p].template = "Transaction" /\ cs[p].signalStart = 1 /\ MainInputs \subseteq D
      BY <1>1, <1>5 DEF Main
    <2>2. Templates["Transaction"].firstInput = 0 /\ Templates["Transaction"].inputs = InputCount /\ InputCount \in Nat
      BY TemplateValues, ProgramAssumption DEF Transaction, InputCount
    <2>3. o \in 0..(InputCount - 1)
      BY <2>1, <2>2 DEF Inputs
    <2>4. At(cs, p, o) \in MainInputs
      BY <2>1, <2>2, <2>3 DEF At, MainInputs, MainStart
    <2> QED BY <2>1, <2>4
  <1> QED BY <1>4, <1>5

\* ReadWritten: a statement reads signals that have values.
LEMMA ReadWritten ==
    ASSUME NEW cs, NEW st, Memory(cs), Calls(cs, st), NEW D, Signals(cs, st, D), NEW p, NEW s, Doing(cs, st, p, s),
           NEW r \in Reads(s), r.of # -1
    PROVE  /\ r.of = 0 => At(cs, p, r.at) \in D
           /\ r.of # 0 => At(cs, cs[p].subcomponents[r.of], r.at) \in D
  <1> DEFINE t == cs[p].template
             n == st[1].at
  <1>0. st # << >> /\ p = st[1].component
    BY DEF Doing
  <1>1. Progress(cs, D, st[1])
    <2>1. 1 \in 1..Len(st)
      BY <1>0, CallFacts
    <2> QED BY <2>1 DEF Signals
  <1>2. t \in Runners /\ \A o \in Outs(t) : At(cs, p, o) \in D <=> CopiedAt(t, o) < n
    BY <1>0, <1>1 DEF Progress
  <1>3. InOrder(t, n, s)
    <2>1. n \in 1..Len(Templates[t].run) /\ s = Templates[t].run[n]
      BY DEF Doing
    <2>2. \A i \in 1..Len(Templates[t].run) : InOrder(t, i, Templates[t].run[i])
      BY <1>2, StatementTimes
    <2> HIDE DEF n
    <2> QED BY <2>1, <2>2
  <1>4. Readable(t, n, r)
    BY <1>3 DEF InOrder
  <1>5. CASE r.of = 0 /\ r.at \in Own(t) /\ (r.at \in Inputs(t) \/ CopiedAt(t, r.at) < n)
    <2>1. CASE r.at \in Inputs(t)
      <3> DEFINE o == r.at
      <3>1. o \in Inputs(cs[p].template)
        BY <2>1
      <3> HIDE DEF o, t
      <3>2. At(cs, p, o) \in D
        BY <1>0, <3>1, OwnInput
      <3> QED BY <1>5, <3>2 DEF o
    <2>2. CASE r.at \notin Inputs(t) /\ CopiedAt(t, r.at) < n
      <3>1. r.at \in Outs(t)
        BY <1>5, <2>2 DEF Outs
      <3> QED BY <1>2, <1>5, <2>2, <3>1
    <2> QED BY <1>5, <2>1, <2>2
  <1>6. CASE /\ r.of \in 1..Kids(t) /\ r.at \in Own(KidTemplate(t, r.of))
             /\ \A o \in Inputs(KidTemplate(t, r.of)) : GivenAt(t, r.of, o) < n
    <2> DEFINE k == r.of
    <2>1. /\ k \in 1..Kids(cs[p].template) /\ r.at \in Own(KidTemplate(cs[p].template, k))
          /\ \A o \in Inputs(KidTemplate(cs[p].template, k)) : GivenAt(cs[p].template, k, o) < st[1].at
      BY <1>6
    <2>2. k # 0
      <3>1. Kids(t) \in Nat
        BY <1>2, StatementTimes, KidsFollow
      <3> HIDE DEF k
      <3> QED BY <2>1, <3>1
    <2> HIDE DEF k, t, n
    <2>3. \A o \in Own(KidTemplate(cs[p].template, k)) : At(cs, cs[p].subcomponents[k], o) \in D
      BY <2>1, KidRead
    <2>4. At(cs, cs[p].subcomponents[k], r.at) \in D
      BY <2>1, <2>3
    <2> QED BY <2>2, <2>4 DEF k
  <1> QED BY <1>4, <1>5, <1>6 DEF Readable

\* AllWritten: when no call is under way, every signal of every component has its value.
LEMMA AllWritten ==
    ASSUME NEW cs, Memory(cs), NEW st, Len(st) = 0, NEW D, Signals(cs, st, D),
           NEW x \in DOMAIN cs, NEW o \in Own(cs[x].template)
    PROVE  0 \in DOMAIN cs /\ At(cs, x, o) \in D
  <1>1. Main(cs, D) /\ (x # 0 => Counted(cs, D, x)) /\ Outputs(cs, st, D, x)
    BY DEF Signals
  <1>2. ~Called(st, x) /\ ~KidOfCall(cs, st, x)
    BY DEF Called, KidOfCall
  <1>3. /\ cs[x].template \in Names /\ cs[x].signalStart \in Nat /\ cs[x].inputCounter \in Int
    BY CellTypes
  <1>4. x = 0 \/ ~ (cs[x].inputCounter > 0)
    BY <1>1, <1>2 DEF Outputs
  <1>5. o \in Outs(cs[x].template) => At(cs, x, o) \in D
    BY <1>1, <1>2, <1>4 DEF Outputs
  <1>6. ASSUME o \in Inputs(cs[x].template) PROVE At(cs, x, o) \in D
    <2>1. CASE x # 0
      <3>1. cs[x].inputCounter <= 0 /\ Counted(cs, D, x)
        BY <1>1, <1>3, <1>4, <2>1
      <3> QED BY <1>3, <1>6, <3>1, NoneLeft
    <2>2. CASE x = 0
      <3>1. cs[x].template = "Transaction" /\ cs[x].signalStart = 1 /\ MainInputs \subseteq D
        BY <1>1, <2>2 DEF Main
      <3>2. Templates["Transaction"].firstInput = 0 /\ Templates["Transaction"].inputs = InputCount /\ InputCount \in Nat
        BY TemplateValues, ProgramAssumption DEF Transaction, InputCount
      <3>3. o \in 0..(InputCount - 1)
        BY <1>6, <3>1, <3>2 DEF Inputs
      <3>4. At(cs, x, o) \in MainInputs
        BY <3>1, <3>2, <3>3 DEF At, MainInputs, MainStart
      <3> QED BY <3>1, <3>4
    <2> QED BY <2>1, <2>2
  <1>7. 0 \in DOMAIN cs
    BY <1>1 DEF Main
  <1> QED BY <1>5, <1>6, <1>7 DEF Outs

\* WrittenOver: places written over what there was.
LEMMA WrittenOver ==
    ASSUME NEW new, NEW old
    PROVE  /\ DOMAIN Overlay(new, old) = DOMAIN old \cup DOMAIN new
           /\ \A a \in DOMAIN old : a \notin DOMAIN new => Overlay(new, old)[a] = old[a]
  BY DEF Overlay

\* OnePlace: one place written.
LEMMA OnePlace == ASSUME NEW x, NEW v PROVE DOMAIN Single(x, v) = {x}
  BY DEF Single

\* LeafWrites: a template without statements writes its outputs.
LEMMA LeafWrites ==
    ASSUME NEW t \in {"PoseidonEx2", "PoseidonEx3", "MultiMux1"}, NEW start \in Nat, NEW written
    PROVE  DOMAIN LeafOutputs(t, start, written) = {start + o : o \in Outs(t)}
  <1>1. CASE t = "MultiMux1"
    <2>1. Templates[t].own = 7 /\ Templates[t].inputs = 5 /\ Templates[t].firstInput = 2
      BY <1>1, TemplateValues DEF MultiMux1
    <2>2. Own(t) = 0..6 /\ Inputs(t) = 2..6
      BY <2>1 DEF Own, Inputs
    <2>3. Outs(t) = {0, 1}
      BY <2>2 DEF Outs
    <2>4. DOMAIN LeafOutputs(t, start, written) = start..(start + 1)
      BY <1>1 DEF LeafOutputs
    <2> QED BY <2>3, <2>4
  <1>2. CASE t # "MultiMux1"
    <2>1. PICK n \in {2, 3} : Templates[t].own = n + 2 /\ Templates[t].inputs = n + 1 /\ Templates[t].firstInput = 1
      <3>1. t = "PoseidonEx2" \/ t = "PoseidonEx3"
        BY <1>2
      <3>2. CASE t = "PoseidonEx2"
        <4>1. Templates[t].own = 2 + 2 /\ Templates[t].inputs = 2 + 1 /\ Templates[t].firstInput = 1
          BY <3>2, TemplateValues DEF PoseidonEx
        <4> QED BY <4>1
      <3>3. CASE t = "PoseidonEx3"
        <4>1. Templates[t].own = 3 + 2 /\ Templates[t].inputs = 3 + 1 /\ Templates[t].firstInput = 1
          BY <3>3, TemplateValues DEF PoseidonEx
        <4> QED BY <4>1
      <3> QED BY <3>1, <3>2, <3>3
    <2>2. Own(t) = 0..(n + 1) /\ Inputs(t) = 1..(n + 1)
      BY <2>1 DEF Own, Inputs
    <2>3. Outs(t) = {0}
      BY <2>2 DEF Outs
    <2>4. DOMAIN LeafOutputs(t, start, written) = {start}
      BY <1>2, OnePlace DEF LeafOutputs
    <2> QED BY <2>3, <2>4
  <1> QED BY <1>1, <1>2

\* OnlyCounted: setting an input of the component id counts down no other component.
LEMMA OnlyCounted ==
    ASSUME NEW cs, Memory(cs), NEW id \in DOMAIN cs, NEW v, NEW x \in DOMAIN cs, x # id
    PROVE  [cs EXCEPT ![id].inputCounter = v][x] = cs[x]
  <1>1. cs = [y \in DOMAIN cs |-> cs[y]]
    BY DEF Memory
  <1> QED BY <1>1

\* ReleasedCounters: nor does the end of a call.
LEMMA ReleasedCounters ==
    ASSUME NEW cs, Memory(cs), NEW subs, NEW ds,
           ds = [id \in DOMAIN cs |-> IF id \in subs THEN [cs[id] EXCEPT !.subcomponents = << >>] ELSE cs[id]]
    PROVE  \A x \in DOMAIN cs : ds[x].inputCounter = cs[x].inputCounter
  <1> DEFINE e == << >>
             E(r) == [r EXCEPT !.subcomponents = e]
             es == [id \in DOMAIN cs |-> IF id \in subs THEN E(cs[id]) ELSE cs[id]]
  <1>0. ds = es
    BY Zenon
  <1> HIDE DEF e
  <1>1. ASSUME NEW r \in Cell PROVE E(r).inputCounter = r.inputCounter
    BY DEF Cell
  <1> HIDE DEF E
  <1>2. \A x \in DOMAIN cs : cs[x] \in Cell
    BY CellTypes
  <1>3. \A x \in DOMAIN cs : es[x] = IF x \in subs THEN E(cs[x]) ELSE cs[x]
    OBVIOUS
  <1> HIDE DEF es
  <1>4. \A x \in DOMAIN cs : es[x].inputCounter = cs[x].inputCounter
    BY <1>1, <1>2, <1>3
  <1> QED BY <1>0, <1>4

\* KeptRelaid: the regions of what is kept.
LEMMA KeptRelaid ==
    ASSUME NEW cs, NEW ds, Kept(cs, ds)
    PROVE  Relaid(cs, ds)
  BY DEF Kept, Relaid

\* AtStatement: the call under way at its statement.
LEMMA AtStatement ==
    ASSUME MemoryInv, NEW op, Running(op)
    PROVE  /\ Doing(components, stack, top.component, statement) /\ statement.op = op
           /\ Memory(components) /\ Calls(components, stack) /\ stack # << >>
           /\ stack \in Seq([component : Nat, at : Nat])
           /\ top.component \in DOMAIN components /\ cmp = components[top.component]
           /\ components[top.component].template \in Names
           /\ Moved(stack, Advanced)
  <1>1. stack # << >> /\ top.at <= Len(Templates[cmp.template].run) /\ statement.op = op
    BY DEF Running
  <1>2. /\ top.at \in 1..Len(Templates[cmp.template].run) /\ top.component \in DOMAIN components
        /\ cmp.template \in Names /\ stack \in Seq([component : Nat, at : Nat])
    BY <1>1, CallTypes
  <1>3. Memory(components) /\ Calls(components, stack)
    BY DEF MemoryInv
  <1>4. Doing(components, stack, top.component, statement)
    BY <1>1, <1>2, Zenon DEF Doing, top, cmp, statement
  <1>5. Moved(stack, Advanced)
    BY <1>1, <1>2, AdvancedMoves, Zenon DEF Advanced
  <1> QED BY <1>1, <1>2, <1>3, <1>4, <1>5 DEF cmp

\* A step writes no signal twice: what has a value keeps it.
Keep(old, new) == \A a \in DOMAIN old : a \in DOMAIN new /\ new[a] = old[a]

\* NewPlacesKeep: what is written to places without a value changes none.
LEMMA NewPlacesKeep ==
    ASSUME NEW new, NEW old, \A a \in DOMAIN new : a \notin DOMAIN old
    PROVE  Keep(old, Overlay(new, old))
  BY WrittenOver DEF Keep

\* TopProgresses: what the call under way has done.
LEMMA TopProgresses ==
    ASSUME NEW cs, NEW st, Memory(cs), Calls(cs, st), NEW D, Signals(cs, st, D), st # << >>
    PROVE  Progress(cs, D, st[1])
  <1>1. 1 \in 1..Len(st)
    BY CallFacts
  <1> QED BY <1>1 DEF Signals

\* CopyEffect: an output is copied.
LEMMA CopyEffect ==
    ASSUME MemoryInv, Signals(components, stack, DOMAIN signals), CopySignal
    PROVE  Signals(components', stack', DOMAIN signals') /\ Keep(signals, signals')
  <1> DEFINE cs == components
             st == stack
             D == DOMAIN signals
             p == top.component
             s == statement
             new == Single(cmp.signalStart + s.at, Load(s.from))
  <1>1. /\ Doing(cs, st, p, s) /\ s.op = "copy" /\ Memory(cs) /\ Calls(cs, st) /\ st # << >>
        /\ p \in DOMAIN cs /\ cmp = cs[p] /\ Moved(st, Advanced)
    <2>1. Running("copy")
      BY DEF CopySignal
    <2> QED BY <2>1, AtStatement
  <1>2. signals' = Overlay(new, signals) /\ stack' = Advanced /\ components' = components
    BY DEF CopySignal
  <1>3. DOMAIN new = {At(cs, p, s.at)}
    BY <1>1, OnePlace DEF At
  <1> HIDE DEF new, p, s
  <1>4. Progress(cs, D, st[1])
    BY <1>1, TopProgresses
  <1>5. s.at \in Outs(cs[p].template) /\ At(cs, p, s.at) \notin D
    BY <1>1, <1>4, Fresh DEF Doing
  <1>6. DOMAIN signals' = D \cup {At(cs, p, s.at)}
    BY <1>2, <1>3, WrittenOver
  <1>7. Keep(signals, signals')
    BY <1>2, <1>3, <1>5, NewPlacesKeep
  <1> DEFINE E == DOMAIN signals'
             O == {s.at}
             ut == stack'
  <1>8. Adds(cs, D, E, p, O)
    <2>1. O \subseteq Own(cs[p].template)
      BY <1>5 DEF Outs
    <2>2. E = D \cup {At(cs, p, o) : o \in O}
      BY <1>6
    <2> HIDE DEF O, E
    <2> QED BY <1>1, <2>1, <2>2 DEF Adds
  <1>9. StatementAdds(cs, p, s, p, O)
    BY <1>1 DEF StatementAdds
  <1>10. Moved(st, ut) /\ Signals(cs, st, D) /\ s.op # "set"
    BY <1>1, <1>2
  <1> HIDE DEF cs, st, D, E, O, ut
  <1>11. Signals(cs, ut, E)
    BY <1>1, <1>8, <1>9, <1>10, PlainKeeps
  <1> QED BY <1>2, <1>7, <1>11 DEF cs, ut, E

\* PlainEffect: a statement that writes no signal.
LEMMA PlainEffect ==
    ASSUME MemoryInv, Signals(components, stack, DOMAIN signals), AddToSum \/ CheckEqual \/ CheckSums
    PROVE  Signals(components', stack', DOMAIN signals') /\ signals' = signals
  <1> DEFINE cs == components
             st == stack
             D == DOMAIN signals
             p == top.component
             s == statement
  <1>1. signals' = signals /\ components' = components /\ (stack' = stack \/ stack' = Advanced)
    BY DEF AddToSum, CheckEqual, CheckSums, Continue, Abort, runVars
  <1>2. /\ Doing(cs, st, p, s) /\ s.op \notin {"copy", "set", "create"} /\ Memory(cs) /\ Calls(cs, st) /\ st # << >>
        /\ p \in DOMAIN cs /\ Moved(st, Advanced)
    <2>1. PICK op \in {"add", "assert", "assertSums"} : Running(op)
      BY DEF AddToSum, CheckEqual, CheckSums
    <2> QED BY <2>1, AtStatement
  <1>3. CASE stack' = Advanced
    <2> DEFINE O == {}
               ut == stack'
    <2>1. Adds(cs, D, D, p, O)
      BY <1>2 DEF Adds
    <2>2. StatementAdds(cs, p, s, p, O)
      BY <1>2 DEF StatementAdds
    <2>3. Moved(st, ut) /\ Signals(cs, st, D) /\ s.op # "set"
      BY <1>2, <1>3
    <2> HIDE DEF cs, st, D, O, ut, p, s
    <2>4. Signals(cs, ut, D)
      BY <1>2, <2>1, <2>2, <2>3, PlainKeeps
    <2> QED BY <1>1, <2>4 DEF cs, D, ut
  <1> QED BY <1>1, <1>3

\* CreateEffect: sub-components are created.
LEMMA CreateEffect ==
    ASSUME MemoryInv, Signals(components, stack, DOMAIN signals), CreateSubcomponents
    PROVE  Signals(components', stack', DOMAIN signals') /\ signals' = signals
  <1> DEFINE cs == components
             st == stack
             D == DOMAIN signals
             p == top.component
             s == statement
             t == cs[p].template
             at == top.at
             lo == Made(t, at)
             hi == Made(t, at + 1)
             ds == components'
             ut == stack'
  <1>1. /\ Doing(cs, st, p, s) /\ s.op = "create" /\ Memory(cs) /\ Calls(cs, st) /\ st # << >>
        /\ p \in DOMAIN cs /\ cmp = cs[p] /\ t \in Names /\ Moved(st, Advanced)
    <2>1. Running("create")
      BY Zenon DEF CreateSubcomponents
    <2> QED BY <2>1, AtStatement
  <1>2. /\ components' = [Overlay(NewComponents(cs, p, s), cs) EXCEPT ![p].subcomponents =
                             SubSeq(@, 1, s.first - 1) \o NewList(p, s)]
        /\ stack' = Advanced /\ signals' = signals
    BY Zenon DEF CreateSubcomponents, NewComponents, NewPlaces, NewList, cmp
  <1>3. /\ s = Templates[t].run[at] /\ at \in 1..Len(Templates[t].run) /\ Len(cs[p].subcomponents) = lo
        /\ Tidy(cs, p) /\ p = st[1].component
    <2>1. s = Templates[t].run[at] /\ at \in 1..Len(Templates[t].run) /\ p = st[1].component
      BY <1>1, Zenon DEF Doing, top
    <2>2. Len(cs[p].subcomponents) = lo /\ Tidy(cs, p)
      BY <1>1, CallTypes, Zenon DEF cmp, Frame
    <2> QED BY <2>1, <2>2
  <1>4. Memory(ds)
    BY CreateKeepsMemory DEF MemoryInv
  <1> HIDE DEF s, at, ds
  <1>5. Grown(cs, ds, p, t, lo, hi)
    BY <1>1, <1>2, <1>3, CreatedGrows, Zenon DEF ds
  <1>6. lo \in Nat /\ hi \in Nat /\ lo <= hi /\ hi <= Kids(t)
    <2>1. /\ lo \in Nat /\ hi \in Nat /\ hi <= Kids(t)
          /\ s.count \in Nat /\ hi = lo + s.count
      BY <1>1, <1>3, MadeBy
    <2> QED BY <2>1
  <1>7. CreatesRange(cs, ds, p, lo, hi)
    BY <1>1, <1>3, <1>5, <1>6 DEF CreatesRange
  <1>8. Moved(st, ut) /\ Signals(cs, st, D)
    BY <1>1, <1>2
  <1> HIDE DEF cs, st, D, p, lo, hi, ut, t
  <1>9. Signals(ds, ut, D)
    BY <1>1, <1>4, <1>7, <1>8, CreateSignals
  <1> QED BY <1>2, <1>9 DEF ds, ut, D

\* ReturnEffect: a call ends.
LEMMA ReturnEffect ==
    ASSUME MemoryInv, Signals(components, stack, DOMAIN signals), Return
    PROVE  Signals(components', stack', DOMAIN signals') /\ signals' = signals
  <1> DEFINE cs == components
             st == stack
             D == DOMAIN signals
             p == top.component
             subs == {cmp.subcomponents[k] : k \in DOMAIN cmp.subcomponents}
             ds == [id \in DOMAIN cs |-> IF id \in subs THEN [cs[id] EXCEPT !.subcomponents = << >>] ELSE cs[id]]
             ut == stack'
  <1>1. signals' = signals /\ (UNCHANGED <<components, stack>>
              \/ (components' = ds /\ stack' = Tail(stack) /\ \A id \in subs : cs[id].inputCounter = 0))
    BY DEF Return, Abort, runVars
  <1>2. CASE UNCHANGED <<components, stack>>
    BY <1>1, <1>2
  <1>3. CASE components' = ds /\ stack' = Tail(stack) /\ \A id \in subs : cs[id].inputCounter = 0
    <2>1. stack # << >> /\ top.at > Len(Templates[cmp.template].run)
      BY DEF Return
    <2>2. /\ p \in DOMAIN cs /\ p \in Nat /\ Memory(cs) /\ Calls(cs, st) /\ stack \in Seq([component : Nat, at : Nat])
          /\ DOMAIN cmp.subcomponents = 1..Len(cmp.subcomponents) /\ cmp = cs[p] /\ p = st[1].component
      BY <2>1, CallTypes DEF MemoryInv, cmp, top
    <2>3. Ending(cs, st, p)
      <3>1. st[1].at > Len(Templates[cs[p].template].run)
        BY <2>1, <2>2 DEF top
      <3>2. \A k \in 1..Len(cs[p].subcomponents) : cs[cs[p].subcomponents[k]].inputCounter = 0
        BY <1>3, <2>2
      <3> QED BY <2>1, <2>2, <3>1, <3>2 DEF Ending
    <2>4. ASSUME NEW x \in subs PROVE ~ (x <= p)
      <3>1. PICK k \in 1..Len(cs[p].subcomponents) : x = cs[p].subcomponents[k]
        BY <2>2
      <3>2. x \in DOMAIN cs /\ p < x
        BY <2>2, <3>1, KidFacts
      <3>3. x \in Nat
        BY <2>2, <3>2, CellTypes
      <3> QED BY <2>2, <3>2, <3>3
    <2> HIDE DEF subs
    <2>5. /\ Kept(cs, ds) /\ \A x \in DOMAIN cs : x \notin subs => ds[x].subcomponents = cs[x].subcomponents
          /\ \A x \in DOMAIN cs : ds[x].inputCounter = cs[x].inputCounter
      <3>1. ds = [id \in DOMAIN cs |->
                     IF id \in subs THEN [cs[id] EXCEPT !.subcomponents = << >>] ELSE cs[id]]
        OBVIOUS
      <3> HIDE DEF ds
      <3>2. Kept(cs, ds) /\ \A x \in DOMAIN cs : x \notin subs => ds[x].subcomponents = cs[x].subcomponents
        BY <2>2, <3>1, Released, Zenon
      <3>3. \A x \in DOMAIN cs : ds[x].inputCounter = cs[x].inputCounter
        <4>1. Memory(cs)
          BY <2>2
        <4> HIDE DEF cs
        <4> QED BY <3>1, <4>1, ReleasedCounters
      <3> QED BY <3>2, <3>3
    <2> HIDE DEF ds
    <2>6. Frees(cs, ds, p)
      <3>1. Relaid(cs, ds)
        BY <2>5, KeptRelaid
      <3>2. \A x \in DOMAIN cs : x <= p => ds[x].subcomponents = cs[x].subcomponents
        BY <2>4, <2>5
      <3> QED BY <2>5, <3>1, <3>2 DEF Frees
    <2>7. Popped(st, ut)
      BY <1>3, <2>1, <2>2, TailPops
    <2> HIDE DEF cs, st, D, p, ut
    <2>8. Signals(cs, st, D)
      BY DEF cs, st, D
    <2>9. Signals(ds, ut, D)
      BY <2>2, <2>3, <2>6, <2>7, <2>8, ReturnSignals
    <2> QED BY <1>1, <1>3, <2>9 DEF ut, D
  <1> QED BY <1>1, <1>2, <1>3

\* OneWritten: a value for a place without one.
LEMMA OneWritten ==
    ASSUME NEW old, NEW a, a \notin DOMAIN old, NEW v
    PROVE  DOMAIN Overlay(Single(a, v), old) = DOMAIN old \cup {a} /\ Keep(old, Overlay(Single(a, v), old))
  <1> DEFINE one == Single(a, v)
             written == Overlay(one, old)
  <1>1. DOMAIN one = {a}
    BY OnePlace
  <1> HIDE DEF one
  <1>2. DOMAIN written = DOMAIN old \cup DOMAIN one
    BY WrittenOver
  <1>3. Keep(old, written)
    BY <1>1, NewPlacesKeep
  <1> HIDE DEF written
  <1>4. DOMAIN written = DOMAIN old \cup {a}
    BY <1>1, <1>2
  <1> QED BY <1>3, <1>4 DEF one, written

\* MoreWritten: values for more places.
LEMMA MoreWritten ==
    ASSUME NEW old, NEW written, Keep(old, written), NEW new, \A b \in DOMAIN new : b \notin DOMAIN old
    PROVE  DOMAIN Overlay(new, written) = DOMAIN written \cup DOMAIN new /\ Keep(old, Overlay(new, written))
  <1> DEFINE all == Overlay(new, written)
  <1>1. DOMAIN all = DOMAIN written \cup DOMAIN new /\ \A b \in DOMAIN written : b \notin DOMAIN new => all[b] = written[b]
    BY WrittenOver
  <1> HIDE DEF all
  <1>2. \A b \in DOMAIN old : b \in DOMAIN all /\ all[b] = old[b]
    BY <1>1 DEF Keep
  <1> QED BY <1>1, <1>2 DEF Keep, all

\* SetEffect: an input is given to a sub-component.
LEMMA SetEffect ==
    ASSUME MemoryInv, Signals(components, stack, DOMAIN signals), SetSubcomponentInput
    PROVE  Signals(components', stack', DOMAIN signals') /\ Keep(signals, signals')
  <1> DEFINE cs == components
             st == stack
             D == DOMAIN signals
             p == top.component
             s == statement
             id == cs[p].subcomponents[s.sub]
             t == cs[id].template
             left == cs[id].inputCounter - 1
             written == Overlay(Single(cs[id].signalStart + s.at, Load(s.from)), signals)
             leaf == Templates[t].run = << >>
             ds == components'
             ut == stack'
             E == DOMAIN signals'
  <1>1. /\ Doing(cs, st, p, s) /\ s.op = "set" /\ Memory(cs) /\ Calls(cs, st) /\ st # << >>
        /\ p \in DOMAIN cs /\ cmp = cs[p] /\ Moved(st, Advanced)
    <2>1. Running("set")
      BY Zenon DEF SetSubcomponentInput
    <2> QED BY <2>1, AtStatement
  <1>2. /\ signals' = IF left = 0 /\ leaf THEN Overlay(LeafOutputs(t, cs[id].signalStart, written), written) ELSE written
        /\ components' = [cs EXCEPT ![id].inputCounter = cs[id].inputCounter - 1]
        /\ stack' = IF left = 0 /\ ~leaf THEN <<[component |-> id, at |-> 1]>> \o Advanced ELSE Advanced
    BY Zenon DEF SetSubcomponentInput, cmp
  <1> HIDE DEF p, s
  <1>3. Progress(cs, D, st[1])
    BY <1>1, TopProgresses
  <1>4. /\ id \in DOMAIN cs /\ p < id /\ id \in Nat \ {0} /\ t \in Names /\ cs[id].signalStart \in Nat
        /\ cs[id].inputCounter \in Int
        /\ s.at \in Inputs(t) /\ s.at \in Own(t) /\ At(cs, id, s.at) \notin D
    BY <1>1, <1>3, SetTarget
  <1> HIDE DEF id
  <1>5. /\ Relaid(cs, ds) /\ ds[id].inputCounter = cs[id].inputCounter - 1
        /\ \A y \in DOMAIN cs : ds[y].subcomponents = cs[y].subcomponents
        /\ \A y \in DOMAIN cs : y # id => ds[y].inputCounter = cs[y].inputCounter
    <2>1. /\ Kept(cs, ds) /\ ds[id].inputCounter = cs[id].inputCounter - 1
          /\ \A y \in DOMAIN cs : ds[y].subcomponents = cs[y].subcomponents
      BY <1>1, <1>2, <1>4, CountedDown
    <2>2. \A y \in DOMAIN cs : y # id => ds[y] = cs[y]
      BY <1>1, <1>2, <1>4, OnlyCounted
    <2> QED BY <2>1, <2>2, KeptRelaid
  <1> DEFINE a == cs[id].signalStart + s.at
             v == Load(s.from)
             new == LeafOutputs(t, cs[id].signalStart, written)
  <1>6. a = At(cs, id, s.at) /\ a \notin DOMAIN signals
    BY <1>4 DEF At
  <1>7. left = 0 /\ leaf => /\ DOMAIN new = {At(cs, id, o) : o \in Outs(t)}
                            /\ \A b \in DOMAIN new : b \notin DOMAIN signals
    <2> SUFFICES ASSUME left = 0, leaf
                 PROVE  /\ DOMAIN new = {At(cs, id, o) : o \in Outs(t)}
                        /\ \A b \in DOMAIN new : b \notin DOMAIN signals
      OBVIOUS
    <2>1. t \in {"PoseidonEx2", "PoseidonEx3", "MultiMux1"}
      BY <1>4, LeafOrRuns
    <2>2. DOMAIN new = {At(cs, id, o) : o \in Outs(t)}
      <3> DEFINE b == cs[id].signalStart
      <3>1. b \in Nat
        BY <1>4
      <3> HIDE DEF b, written, t
      <3>2. DOMAIN LeafOutputs(t, b, written) = {b + o : o \in Outs(t)}
        BY <2>1, <3>1, LeafWrites
      <3> QED BY <3>2 DEF b, At
    <2>3. cs[id].inputCounter > 0 /\ id # 0
      BY <1>4
    <2>4. Outputs(cs, st, D, id)
      BY <1>4 DEF Signals
    <2>5. \A o \in Outs(t) : At(cs, id, o) \notin D
      BY <2>3, <2>4 DEF Outputs
    <2> HIDE DEF new, t
    <2> QED BY <2>2, <2>5
  <1>8. DOMAIN written = D \cup {At(cs, id, s.at)} /\ Keep(signals, written)
    <2> HIDE DEF a, v
    <2>1. DOMAIN Overlay(Single(a, v), signals) = DOMAIN signals \cup {a} /\ Keep(signals, Overlay(Single(a, v), signals))
      BY <1>6, OneWritten
    <2> QED BY <1>6, <2>1 DEF a, v
  <1>9. left = 0 /\ leaf => /\ DOMAIN Overlay(new, written) = (D \cup {At(cs, id, s.at)}) \cup {At(cs, id, o) : o \in Outs(t)}
                            /\ Keep(signals, Overlay(new, written))
    <2> SUFFICES ASSUME left = 0, leaf
                 PROVE  /\ DOMAIN Overlay(new, written) = (D \cup {At(cs, id, s.at)}) \cup {At(cs, id, o) : o \in Outs(t)}
                        /\ Keep(signals, Overlay(new, written))
      OBVIOUS
    <2>1. DOMAIN new = {At(cs, id, o) : o \in Outs(t)} /\ \A b \in DOMAIN new : b \notin DOMAIN signals
      BY <1>7
    <2> HIDE DEF new, written
    <2>2. DOMAIN Overlay(new, written) = DOMAIN written \cup DOMAIN new /\ Keep(signals, Overlay(new, written))
      BY <1>8, <2>1, MoreWritten
    <2> QED BY <1>8, <2>1, <2>2
  <1>10. Keep(signals, signals')
    BY <1>2, <1>8, <1>9
  <1> DEFINE O == IF left = 0 /\ leaf THEN {s.at} \cup Outs(t) ELSE {s.at}
             vt == Advanced
  <1>a. signals' = IF left = 0 /\ leaf THEN Overlay(new, written) ELSE written
    BY <1>2
  <1> HIDE DEF new, written
  <1>11. Adds(cs, D, E, id, O)
    <2>1. O \subseteq Own(t)
      BY <1>4 DEF Outs
    <2>2. E = D \cup {At(cs, id, o) : o \in O}
      <3>1. CASE left = 0 /\ leaf
        <4>1. E = (D \cup {At(cs, id, s.at)}) \cup {At(cs, id, o) : o \in Outs(t)} /\ O = {s.at} \cup Outs(t)
          BY <1>a, <1>9, <3>1
        <4> HIDE DEF E, O, D, t
        <4> QED BY <4>1
      <3>2. CASE ~ (left = 0 /\ leaf)
        <4>1. E = D \cup {At(cs, id, s.at)} /\ O = {s.at}
          BY <1>a, <1>8, <3>2
        <4> HIDE DEF E, O, D, t
        <4> QED BY <4>1
      <3> QED BY <3>1, <3>2
    <2> HIDE DEF O, E, D
    <2> QED BY <1>4, <2>1, <2>2 DEF Adds
  <1>12. left = 0 <=> cs[id].inputCounter = 1
    BY <1>4
  <1>13. left = 0 /\ ~leaf => Pushed(vt, ut, id)
    <2>1. vt \in Seq([component : Nat, at : Nat])
      BY <1>1 DEF Moved
    <2> HIDE DEF vt
    <2>2. Pushed(vt, <<[component |-> id, at |-> 1]>> \o vt, id)
      BY <1>4, <2>1, PushedFirst
    <2>3. left = 0 /\ ~leaf => ut = <<[component |-> id, at |-> 1]>> \o vt
      BY <1>2 DEF vt
    <2> QED BY <2>2, <2>3
  <1>14. ~ (left = 0 /\ ~leaf) => ut = vt
    BY <1>2
  <1>15. Sets(cs, ds, st, ut, D, E, p, s, id)
    <2>1. s.op = "set" /\ id = cs[p].subcomponents[s.sub]
      BY <1>1 DEF id
    <2>2. \E wt, X :
            /\ Moved(st, wt) /\ Adds(cs, D, E, id, X)
            /\ \/ cs[id].inputCounter # 1 /\ X = {s.at} /\ ut = wt
               \/ /\ cs[id].inputCounter = 1 /\ Templates[cs[id].template].run = << >>
                  /\ X = {s.at} \cup Outs(cs[id].template) /\ ut = wt
               \/ /\ cs[id].inputCounter = 1 /\ Templates[cs[id].template].run # << >>
                  /\ X = {s.at} /\ Pushed(wt, ut, id)
      <3> DEFINE full == cs[id].inputCounter = 1
      <3>1. /\ full /\ leaf => O = {s.at} \cup Outs(t) /\ ut = vt
            /\ full /\ ~leaf => O = {s.at} /\ Pushed(vt, ut, id)
            /\ ~full => O = {s.at} /\ ut = vt
        BY <1>12, <1>13, <1>14
      <3>2. Moved(st, vt) /\ Adds(cs, D, E, id, O)
        BY <1>1, <1>11
      <3> HIDE DEF O, vt, E, D, ut, st, cs
      <3> WITNESS vt, O
      <3> QED BY <3>1, <3>2
    <2> HIDE DEF cs, ds, st, ut, D, E
    <2> QED BY <1>5, <2>1, <2>2, Zenon DEF Sets
  <1>16. Signals(cs, st, D)
    OBVIOUS
  <1> HIDE DEF cs, ds, st, ut, D, E
  <1>17. Signals(ds, ut, E)
    BY <1>1, <1>15, <1>16, SetKeeps
  <1> QED BY <1>10, <1>17 DEF ds, ut, E

(***************************************************************************)
(* The invariant and the properties that follow from it.                   *)
(***************************************************************************)
\* SetInputEffect: an input of the circuit gets its value, and the last one starts it.
LEMMA SetInputEffect ==
    ASSUME SignalsInv, LoadInv, RunsOnceComplete', SetInputSignal
    PROVE  SignalsInv' /\ Keep(signals, signals')
  <1> DEFINE si == HashMap[Position].signalid + next - 1
             v == doc[key].values[next]
  <1>0. stack = << >> /\ outcome = "none"
    BY DEF SetInputSignal, Loading
  <1>1. CASE Abort
    <2>1. UNCHANGED <<runs, components, stack, signals, assigned>> /\ outcome' = "aborted"
      BY <1>1 DEF Abort, loadVars, runVars
    <2> QED BY <2>1 DEF SignalsInv, Keep
  <1>2. CASE ~Abort
    <2>1. /\ next # 0 /\ next <= HashMap[Position].signalsize /\ Assignable(si)
          /\ signals' = Overlay(Single(si, v), signals)
          /\ assigned' = assigned \cup {si} /\ counter' = counter - 1
          /\ TryRunCircuit(counter - 1) /\ outcome' = outcome
      BY <1>2 DEF SetInputSignal
    <2>2. si \in MainInputs
      BY <2>1, SlotInput DEF LoadInv, Position
    <2>3. counter # 0 /\ si \notin assigned
      BY <2>1 DEF Assignable
    <2> HIDE DEF si, v
    <2>4. runs = 0
      BY <2>3 DEF LoadInv
    <2>5. DOMAIN signals = {0} \cup assigned /\ components = << >> /\ stack = << >>
      BY <2>4 DEF SignalsInv
    <2>6. si \notin DOMAIN signals
      <3>1. si # 0
        BY <2>2, InputsFinite DEF MainInputs, MainStart
      <3> QED BY <2>3, <2>5, <3>1
    <2>7. DOMAIN signals' = DOMAIN signals \cup {si} /\ Keep(signals, signals')
      BY <2>1, <2>6, OneWritten
    <2>8. DOMAIN signals' = {0} \cup assigned'
      BY <2>1, <2>5, <2>7
    <2>9. CASE counter - 1 = 0
      <3>1. Run
        BY <2>1, <2>9 DEF TryRunCircuit
      <3>2. /\ components' = Single(0, Component("Transaction", MainStart)) /\ stack' = <<[component |-> 0, at |-> 1]>>
            /\ runs' = 1
        BY <2>4, <3>1 DEF Run
      <3>4. assigned' = MainInputs
        BY <3>2 DEF RunsOnceComplete
      <3> DEFINE cs == components'
                 st == stack'
                 D == DOMAIN signals'
      <3>5. /\ cs = Single(0, Component("Transaction", MainStart)) /\ st = <<[component |-> 0, at |-> 1]>>
            /\ D = {0} \cup MainInputs
        BY <2>8, <3>2, <3>4
      <3> HIDE DEF cs, st, D
      <3>6. Signals(cs, st, D)
        BY <3>5, StartSignals, Zenon
      <3>7. Signals(components', stack', DOMAIN signals')
        BY <3>6 DEF cs, st, D
      <3>8. runs' # 0 /\ outcome' # "written"
        BY <1>0, <2>1, <3>2
      <3> QED BY <2>7, <3>7, <3>8 DEF SignalsInv
    <2>10. CASE counter - 1 # 0
      <3>1. UNCHANGED <<components, stack, runs>>
        BY <2>1, <2>10 DEF TryRunCircuit
      <3> QED BY <1>0, <2>1, <2>4, <2>5, <2>7, <2>8, <3>1 DEF SignalsInv
    <2> QED BY <2>9, <2>10
  <1> QED BY <1>1, <1>2

\* LoadEffect: the loader writes no signal but the inputs.
LEMMA LoadEffect ==
    ASSUME SignalsInv, LoadInv, RunsOnceComplete', LoadStep
    PROVE  SignalsInv' /\ Keep(signals, signals')
  <1>1. CASE LoadKey
    <2>1. UNCHANGED <<runs, components, stack, signals, assigned>> /\ (outcome' = outcome \/ outcome' = "aborted")
      BY <1>1 DEF LoadKey, Abort, loadVars, runVars
    <2> QED BY <2>1 DEF SignalsInv, Keep
  <1>2. CASE WriteWitness
    <2>1. UNCHANGED <<runs, components, stack, signals, assigned>> /\ stack = << >>
      BY <1>2 DEF WriteWitness, Loading, Abort, loadVars, runVars
    <2> QED BY <2>1 DEF SignalsInv, Keep
  <1> QED BY <1>1, <1>2, SetInputEffect DEF LoadStep

\* StepEffect: a step of the circuit writes each signal once.
LEMMA StepEffect ==
    ASSUME SignalsInv, MemoryInv, Step
    PROVE  SignalsInv' /\ Keep(signals, signals')
  <1>1. stack # << >> /\ outcome = "none"
    BY Zenon DEF Step, CreateSubcomponents, SetSubcomponentInput, CopySignal, AddToSum, CheckEqual, CheckSums,
                 Running, Return
  <1>2. runs # 0 /\ Signals(components, stack, DOMAIN signals)
    BY <1>1 DEF SignalsInv
  <1>3. UNCHANGED runs /\ (outcome' = outcome \/ outcome' = "aborted")
    <2>1. Abort \/ UNCHANGED <<loadVars, outcome>>
      BY Zenon DEF Step, CreateSubcomponents, SetSubcomponentInput, CopySignal, AddToSum,
             CheckEqual, CheckSums, Continue, Return
    <2> QED BY <2>1 DEF Abort, loadVars
  <1>4. Signals(components', stack', DOMAIN signals') /\ Keep(signals, signals')
    <2>1. signals' = signals => Keep(signals, signals')
      BY DEF Keep
    <2>2. CASE CreateSubcomponents
      BY <1>2, <2>1, <2>2, CreateEffect
    <2>3. CASE SetSubcomponentInput
      BY <1>2, <2>3, SetEffect
    <2>4. CASE CopySignal
      BY <1>2, <2>4, CopyEffect
    <2>5. CASE AddToSum \/ CheckEqual \/ CheckSums
      BY <1>2, <2>1, <2>5, PlainEffect
    <2>6. CASE Return
      BY <1>2, <2>1, <2>6, ReturnEffect
    <2> QED BY <2>2, <2>3, <2>4, <2>5, <2>6 DEF Step
  <1> QED BY <1>1, <1>2, <1>3, <1>4 DEF SignalsInv

\* SignalsInit: only the constant 1 has been written when the process starts.
LEMMA SignalsInit == Init => SignalsInv
  <1>1. Init => DOMAIN signals = {0} \cup assigned
    BY OnePlace DEF Init
  <1> QED BY <1>1 DEF Init, SignalsInv

\* SignalsStep: every step keeps the invariant and what has been written.
LEMMA SignalsStep == SignalsInv /\ MemoryInv /\ LoadInv /\ RunsOnceComplete' /\ [Next]_vars => SignalsInv' /\ Keep(signals, signals')
  <1>1. SignalsInv /\ UNCHANGED vars => SignalsInv' /\ Keep(signals, signals')
    BY DEF SignalsInv, Keep, vars, loadVars, runVars
  <1> QED BY <1>1, LoadEffect, StepEffect DEF Next, Answered

\* SignalsInvAlways: SignalsInv is an invariant of the calculator.
THEOREM SignalsInvAlways == Spec => []SignalsInv
  <1> QED BY SignalsInit, SignalsStep, MemoryInvAlways, LoadInvAlways, RunsOnceCompleteAlways, PTL DEF Spec

\* SingleAssignmentAlways: for every number of slots and levels, every document and
\* every table, a signal that has a value keeps it.
THEOREM SingleAssignmentAlways == Spec => SingleAssignment
  <1> DEFINE Keeps == \A s \in DOMAIN signals : s \in DOMAIN signals' /\ signals'[s] = signals[s]
  <1>1. SignalsInv /\ MemoryInv /\ LoadInv /\ RunsOnceComplete' /\ [Next]_vars => [Keeps]_vars
    BY SignalsStep DEF Keep
  <1>2. Spec => [][Keeps]_vars
    <2> HIDE DEF Keeps
    <2> QED BY <1>1, SignalsInvAlways, MemoryInvAlways, LoadInvAlways, RunsOnceCompleteAlways, PTL DEF Spec
  <1> QED BY <1>2 DEF SingleAssignment

\* CountersCountInputsAlways: the inputCounter of every component is the number of its
\* inputs without a value, so its program starts once, with all of them.
THEOREM CountersCountInputsAlways == Spec => []CountersCountInputs
  <1>1. SignalsInv /\ MemoryInv => CountersCountInputs
    <2> SUFFICES ASSUME SignalsInv, MemoryInv, NEW id \in DOMAIN components \ {0}
                 PROVE  LET c == components[id]
                            t == Templates[c.template]
                            inputs == {c.signalStart + t.firstInput + k : k \in 0..(t.inputs - 1)}
                        IN  c.inputCounter = Cardinality(inputs \ DOMAIN signals)
      BY DEF CountersCountInputs
    <2> DEFINE b == components[id].signalStart
               w == components[id].template
               f == Templates[w].firstInput
               n == Templates[w].inputs
               inputs == {b + f + k : k \in 0..(n - 1)}
    <2>1. Counted(components, DOMAIN signals, id)
      BY DEF SignalsInv, Signals
    <2>2. w \in Names /\ b \in Nat
      BY CellTypes DEF MemoryInv
    <2>3. f \in Nat /\ n \in Nat
      BY <2>2, OwnSignals
    <2>4. InputsOf(components, id) = {b + o : o \in f..(f + n - 1)}
      BY DEF InputsOf, Inputs, At
    <2> HIDE DEF b, f, n
    <2>5. {b + o : o \in f..(f + n - 1)} = inputs
      <3>1. \A o \in f..(f + n - 1) : o - f \in 0..(n - 1) /\ b + f + (o - f) = b + o
        BY <2>2, <2>3
      <3>2. \A k \in 0..(n - 1) : f + k \in f..(f + n - 1) /\ b + (f + k) = b + f + k
        BY <2>2, <2>3
      <3> QED BY <3>1, <3>2
    <2>6. InputsOf(components, id) = inputs
      BY <2>4, <2>5
    <2> QED BY <2>1, <2>6 DEF Counted, b, f, n
  <1> QED BY <1>1, SignalsInvAlways, MemoryInvAlways, PTL

\* NoUninitializedReadAlways: no statement reads a signal nothing was written to.
THEOREM NoUninitializedReadAlways == Spec => []NoUninitializedRead
  <1>1. SignalsInv /\ MemoryInv => NoUninitializedRead
    <2> SUFFICES ASSUME SignalsInv, MemoryInv, outcome = "none", stack # << >>, top.at <= Len(Templates[cmp.template].run),
                        NEW ref \in Reads(statement), ref.of # -1
                 PROVE  Address(ref) \in DOMAIN signals
      BY DEF NoUninitializedRead, Reads
    <2> DEFINE cs == components
               st == stack
               D == DOMAIN signals
               p == top.component
               s == statement
    <2>1. Running(s.op)
      BY DEF Running
    <2>2. /\ Doing(cs, st, p, s) /\ Memory(cs) /\ Calls(cs, st) /\ cmp = cs[p]
      BY <2>1, AtStatement
    <2>3. Signals(cs, st, D)
      BY DEF SignalsInv
    <2>4. ref \in Reads(s)
      OBVIOUS
    <2> HIDE DEF cs, st, D, p, s
    <2>5. /\ ref.of = 0 => At(cs, p, ref.at) \in D
          /\ ref.of # 0 => At(cs, cs[p].subcomponents[ref.of], ref.at) \in D
      BY <2>2, <2>3, <2>4, ReadWritten
    <2>6. Address(ref) = IF ref.of = 0 THEN At(cs, p, ref.at) ELSE At(cs, cs[p].subcomponents[ref.of], ref.at)
      BY <2>2 DEF Address, At, cs
    <2> QED BY <2>5, <2>6 DEF D
  <1> QED BY <1>1, SignalsInvAlways, MemoryInvAlways, PTL

\* WitnessCompleteAlways: when the witness is written, every input and every signal of
\* every component has been computed.
THEOREM WitnessCompleteAlways == Spec => []WitnessComplete
  <1>1. SignalsInv /\ MemoryInv /\ LoadInv => WitnessComplete
    <2> SUFFICES ASSUME SignalsInv, MemoryInv, LoadInv, outcome = "written"
                 PROVE  /\ 0 \in DOMAIN components
                        /\ \A id \in DOMAIN components :
                              LET c == components[id] IN
                              \A a \in c.signalStart..(c.signalStart + Templates[c.template].own - 1) : a \in DOMAIN signals
      BY DEF WitnessComplete
    <2>1. runs # 0 /\ stack = << >>
      BY DEF LoadInv, SignalsInv
    <2>2. Signals(components, stack, DOMAIN signals) /\ Len(stack) = 0 /\ Memory(components)
      BY <2>1 DEF SignalsInv, MemoryInv
    <2>3. 0 \in DOMAIN components
      BY <2>2 DEF Signals, Main
    <2>4. ASSUME NEW id \in DOMAIN components,
                 NEW a \in components[id].signalStart..(components[id].signalStart + Templates[components[id].template].own - 1)
          PROVE  a \in DOMAIN signals
      <3> DEFINE b == components[id].signalStart
                 n == Templates[components[id].template].own
                 o == a - b
      <3>1. b \in Nat /\ n \in Nat
        BY <2>2, CellTypes, OwnSignals
      <3>2. Own(components[id].template) = 0..(n - 1) /\ a \in b..(b + n - 1)
        BY DEF Own
      <3> HIDE DEF b, n
      <3>3. o \in Own(components[id].template) /\ a = b + o
        BY <3>1, <3>2
      <3> HIDE DEF o
      <3>4. At(components, id, o) \in DOMAIN signals
        BY <2>2, <3>3, AllWritten
      <3> QED BY <3>3, <3>4 DEF At, b
    <2> QED BY <2>3, <2>4
  <1> QED BY <1>1, SignalsInvAlways, MemoryInvAlways, LoadInvAlways, PTL
=============================================================================
