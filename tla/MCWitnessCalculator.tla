------------------------ MODULE MCWitnessCalculator -------------------------
(***************************************************************************)
(* WitnessCalculator for TLC: the compiled circuit (four slots, twenty     *)
(* levels) with the table of circuit.dat, over a small field and with a    *)
(* polynomial in place of the permutation.  The documents are a balanced   *)
(* transaction of four notes of one tree and what is left of it after one  *)
(* change each.                                                            *)
(***************************************************************************)
EXTENDS WitnessCalculator

MCPrime == 10007
MCPermute(xs) == FoldLeft(LAMBDA acc, x : (31 * acc + x * x + 7) % MCPrime, 1, xs)

\* fnv1a, the low 24 bits; "note" is no input, "aSecret" and "xroot" stand for
\* keys that have the hash of another.
MCHash ==
    [inAmount |-> 7705218, inPathElements |-> 6668540, inPathIndices |-> 1418082,
     inRecipient |-> 11242461, inSecret |-> 6381334, nullifierHashes |-> 10287673,
     outAmount |-> 11750411, outCommitments |-> 4100351, outRecipient |-> 4534898,
     outSecret |-> 15774103, root |-> 12871621,
     note |-> 5799133, aSecret |-> 6381334, xroot |-> 12871621]

MCTable ==
    {<<11, "outAmount", 182, 4>>, <<22, "inSecret", 14, 4>>, <<57, "nullifierHashes", 2, 4>>,
     <<98, "inPathIndices", 102, 80>>, <<114, "outRecipient", 190, 4>>, <<130, "inAmount", 10, 4>>,
     <<151, "outSecret", 186, 4>>, <<197, "root", 1, 1>>, <<221, "inRecipient", 18, 4>>,
     <<252, "inPathElements", 22, 80>>, <<255, "outCommitments", 6, 4>>}

MCHashMap ==
    [p \in 0..(HashMapSize - 1) |->
        LET here == {t \in MCTable : t[1] = p} IN
        IF here = {} THEN EmptySlot
        ELSE LET t == CHOOSE t \in here : TRUE
             IN  [hash |-> MCHash[t[2]], signalid |-> t[3], signalsize |-> t[4]]]

-----------------------------------------------------------------------------
Hasher == INSTANCE CircuitTemplate WITH
    Poseidon <- LAMBDA xs : MCPermute(Append(xs, 0)), FieldSum <- LAMBDA xs : 0,
    Mux <- LAMBDA s, c0, c1 : ((c1 - c0) * s + c0) % MCPrime

\* The notes are the leaves 0 to 3 below one inner node, whose path to the root
\* turns left and right.
Amounts == <<9000, 1000, 7, 8>>
Secrets == <<11, 12, 13, 14>>
Recipients == <<21, 22, 23, 24>>
Commitments == [i \in 1..4 |-> Hasher!ComputeCommitment(Amounts[i], Secrets[i], Recipients[i])]
Pair(x, y) == MCPermute(<<x, y, 0>>)
Halves == <<Pair(Commitments[1], Commitments[2]), Pair(Commitments[3], Commitments[4])>>

Indices(i) == <<(i - 1) % 2, (i - 1) \div 2>> \o [l \in 1..18 |-> l % 2]
Elements(i) == <<Commitments[IF i % 2 = 0 THEN i - 1 ELSE i + 1], Halves[IF i <= 2 THEN 2 ELSE 1]>>
               \o [l \in 1..18 |-> 100 + l]

\* The amounts sum up to FieldPrime + 8; those of the outputs to 8.
OutAmounts == <<4, 4, 0, 0>>
OutSecrets == <<31, 32, 33, 34>>
OutCommitments(amounts) ==
    [i \in 1..4 |-> Hasher!ComputeCommitment(amounts[i], OutSecrets[i], Recipients[i])]

Balanced ==
    <<[key |-> "inAmount", values |-> Amounts],
      [key |-> "inPathElements", values |-> FlattenSeq([i \in 1..4 |-> Elements(i)])],
      [key |-> "inPathIndices", values |-> FlattenSeq([i \in 1..4 |-> Indices(i)])],
      [key |-> "inRecipient", values |-> Recipients],
      [key |-> "inSecret", values |-> Secrets],
      [key |-> "nullifierHashes",
       values |-> [i \in 1..4 |-> Hasher!ComputeNullifier(Commitments[i], Secrets[i])]],
      [key |-> "outAmount", values |-> OutAmounts],
      [key |-> "outCommitments", values |-> OutCommitments(OutAmounts)],
      [key |-> "outRecipient", values |-> Recipients],
      [key |-> "outSecret", values |-> OutSecrets],
      [key |-> "root", values |-> <<Hasher!MerkleProof(Commitments[1], Elements(1), Indices(1))>>]>>

\* One value replaced by its successor.
Altered(k, i) == [Balanced EXCEPT ![k].values[i] = (@ + 1) % MCPrime]

\* The last index of every path is 2, which no constraint rules out: the hashes are
\* mixed, and their root is the one given.
Unbinary(i) == [Indices(i) EXCEPT ![20] = 2]
Mixed ==
    [Balanced EXCEPT
        ![3].values = FlattenSeq([i \in 1..4 |-> Unbinary(i)]),
        ![11].values = <<Hasher!MerkleProof(Commitments[1], Elements(1), Unbinary(1))>>]

MCDocuments ==
    {Balanced, Mixed,
     Altered(11, 1),                                              \* another root
     Altered(6, 4), Altered(8, 4),                                \* the last nullifier, commitment
     Altered(2, 80), [Balanced EXCEPT ![3].values[80] = 1 - @],   \* the last step of a path
     [Balanced EXCEPT ![3].values[80] = 2],
     [Balanced EXCEPT ![7].values = <<4, 4, 0, 1>>,
                      ![8].values = OutCommitments(<<4, 4, 0, 1>>)],  \* one more than went in
     << >>, Front(Balanced), Tail(Balanced),                      \* keys missing
     InsertAt(Balanced, 6, [key |-> "note", values |-> <<1>>]),   \* a key that is no input
     [Balanced EXCEPT ![1].key = "aSecret"],                      \* an input twice,
     Append(Balanced, [key |-> "xroot", values |-> <<1>>]),       \*   the second time after the run
     [Balanced EXCEPT ![1].values = Front(@)],                    \* a value too few,
     [Balanced EXCEPT ![2].values = Append(@, 0)]}                \*   a value too many
=============================================================================
