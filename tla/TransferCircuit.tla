--------------------------- MODULE TransferCircuit --------------------------
(***************************************************************************)
(* From notes to a witness: the circuit (CircuitTemplate) and the adapter  *)
(* that fills its signals (client/utils/zk/circuit-adapter.ts).            *)
(*                                                                         *)
(* A transfer fetches one Merkle path per input, each in an await of its   *)
(* own, while other wallets append leaves to the tree; then the adapter    *)
(* pads everything to the slots of the circuit and the witness is          *)
(* calculated: there is one exactly when every constraint holds.           *)
(***************************************************************************)
EXTENDS CoinSelection   \* TotalAmount, the sum the adapter takes

CONSTANTS
    Slots,       \* nInputs and nOutputs: 4 in the compiled circuit
    Levels,      \* depth of the tree: 20 in the compiled circuit
    FieldPrime,  \* the order of the field the circuit computes in
    Notes,       \* the notes deposited, in the order they may be appended
    Splits,      \* the sequences of output amounts tried
    Services     \* what answers getMerkleProof: "mock" as committed, "tree" as intended

ASSUME CircuitAssumption ==
    /\ Slots \in Nat \ {0} /\ Levels \in Nat \ {0} /\ FieldPrime \in Nat \ {0}
    /\ Notes \in Seq([amount : Nat, secret : Nat, recipient : Nat])
    /\ Len(Notes) <= 2^Levels
    /\ Splits \subseteq Seq(Nat)
    /\ Services \subseteq {"mock", "tree"}

VARIABLES
    service,   \* the service this build of the client asks for paths
    size,      \* leaves the tree holds: Notes[1..size]
    chosen,    \* the transfer: leaf numbers of the inputs and output amounts
    paths,     \* the Merkle proof fetched for each input, or None
    input,     \* the circuit input, or None
    witness    \* "none", "rejected" by the adapter, "calculated" or "failed"

vars == <<service, size, chosen, paths, input, witness>>

-----------------------------------------------------------------------------
(***************************************************************************)
(* Field elements: literals, Poseidon as a constructor that is injective   *)
(* and never a literal, and what the multiplexer makes of an index that is *)
(* neither 0 nor 1, a value of its own.                                    *)
(***************************************************************************)
Lit(n) == [lit |-> n % FieldPrime]
Poseidon(xs) == [poseidon |-> xs]
Mux(s, c0, c1) == IF s = 0 THEN c0 ELSE IF s = 1 THEN c1 ELSE [mux |-> <<s, c0, c1>>]

FieldSum(signals) == FoldLeft(LAMBDA sum, x : (sum + x.lit) % FieldPrime, 0, signals)

\* The circuit, over these elements.
INSTANCE CircuitTemplate

NoteCommitment(n) == ComputeCommitment(Lit(n.amount), Lit(n.secret), Lit(n.recipient))

(***************************************************************************)
(* The tree the chain keeps, the path of a leaf, and the stand-in that     *)
(* getMerkleProof returns.                                                 *)
(***************************************************************************)
Tree(n) ==
    LET nodes[l \in 0..Levels] ==
            [i \in 0..(2^(Levels - l) - 1) |->
                IF l = 0 THEN IF i < n THEN NoteCommitment(Notes[i + 1]) ELSE Lit(0)
                ELSE Poseidon(<<nodes[l - 1][2 * i], nodes[l - 1][2 * i + 1]>>)]
    IN  nodes

MerklePath(n, leaf) ==
    LET at(l) == (leaf - 1) \div 2^l
    IN  [root |-> Tree(n)[Levels][0],
         pathElements |-> [j \in 1..Levels |->
             Tree(n)[j - 1][IF at(j - 1) % 2 = 0 THEN at(j - 1) + 1 ELSE at(j - 1) - 1]],
         pathIndices |-> [j \in 1..Levels |-> at(j - 1) % 2]]

MockMerkleProof ==
    [root |-> Lit(0), pathElements |-> [j \in 1..Levels |-> Lit(0)],
     pathIndices |-> [j \in 1..Levels |-> 0]]

(***************************************************************************)
(* The adapter.                                                            *)
(***************************************************************************)
\* Mutant: one element too few.
PadArrayShort(arr, default) == arr \o [i \in 1..(Slots - Len(arr) - 1) |-> default]

PadArray(arr, default) == arr \o [i \in 1..(Slots - Len(arr)) |-> default]

OutputNote(i, amount) == [amount |-> amount, secret |-> 0, recipient |-> i]

Accepts(ins, outs, proofs) ==
    /\ Len(ins) \in 1..Slots
    /\ Len(outs) \in 1..Slots
    /\ Len(proofs) = Len(ins)
    /\ TotalAmount(ins) = TotalAmount(outs)

PrepareCircuitInput(ins, outs, proofs) ==
    LET Signal(ns, Get(_)) == PadArray([i \in DOMAIN ns |-> Get(ns[i])], Lit(0))
        Zeros(z) == [j \in 1..Levels |-> z]
    IN  [root            |-> proofs[1].root,
         nullifierHashes |-> Signal(ins, LAMBDA n : ComputeNullifier(NoteCommitment(n), Lit(n.secret))),
         outCommitments  |-> Signal(outs, NoteCommitment),
         inAmount        |-> Signal(ins, LAMBDA n : Lit(n.amount)),
         inSecret        |-> Signal(ins, LAMBDA n : Lit(n.secret)),
         inRecipient     |-> Signal(ins, LAMBDA n : Lit(n.recipient)),
         inPathElements  |-> PadArray([i \in DOMAIN proofs |-> proofs[i].pathElements], Zeros(Lit(0))),
         inPathIndices   |-> PadArray([i \in DOMAIN proofs |-> proofs[i].pathIndices], Zeros(0)),
         outAmount       |-> Signal(outs, LAMBDA n : Lit(n.amount)),
         outSecret       |-> Signal(outs, LAMBDA n : Lit(n.secret)),
         outRecipient    |-> Signal(outs, LAMBDA n : Lit(n.recipient))]

ValidateCircuitInput(s) ==
    /\ \A arr \in {s.inAmount, s.inSecret, s.outAmount, s.outSecret, s.inPathElements} :
          Len(arr) = Slots
    /\ \A i \in 1..Slots : Len(s.inPathElements[i]) = Levels

-----------------------------------------------------------------------------
Init ==
    /\ service \in Services
    /\ size = 0
    /\ chosen = None
    /\ paths = <<>>
    /\ input = None
    /\ witness = "none"

\* Some wallet's commitment becomes the next leaf.
AppendLeaf ==
    /\ size < Len(Notes)
    /\ size' = size + 1
    /\ UNCHANGED <<service, chosen, paths, input, witness>>

\* A transfer starts with distinct leaves of the tree as inputs.
Choose(leaves, amounts) ==
    /\ chosen = None
    /\ IsInjective(leaves)
    /\ chosen' = [ins |-> leaves, outs |-> amounts]
    /\ paths' = [i \in DOMAIN leaves |-> None]
    /\ UNCHANGED <<service, size, input, witness>>

\* One of the getMerkleProof calls of Promise.all answers.
Fetch(i) ==
    /\ paths[i] = None
    /\ paths' = [paths EXCEPT ![i] =
          IF service = "mock" THEN MockMerkleProof ELSE MerklePath(size, chosen.ins[i])]
    /\ UNCHANGED <<service, size, chosen, input, witness>>

Ins == [i \in DOMAIN chosen.ins |-> Notes[chosen.ins[i]]]
Outs == [i \in DOMAIN chosen.outs |-> OutputNote(i, chosen.outs[i])]
Fetched == chosen # None /\ \A i \in DOMAIN paths : paths[i] # None

Prepare ==
    /\ Fetched
    /\ input = None /\ witness = "none"
    /\ IF Accepts(Ins, Outs, paths)
       THEN input' = PrepareCircuitInput(Ins, Outs, paths) /\ UNCHANGED witness
       ELSE witness' = "rejected" /\ UNCHANGED input
    /\ UNCHANGED <<service, size, chosen, paths>>

CalculateWitness ==
    /\ input # None
    /\ witness = "none"
    /\ witness' = IF ValidateCircuitInput(input) /\ Transaction(input) THEN "calculated" ELSE "failed"
    /\ UNCHANGED <<service, size, chosen, paths, input>>

Next ==
    \/ AppendLeaf
    \/ \E n \in 1..Slots : \E leaves \in [1..n -> 1..size], amounts \in Splits :
          Choose(leaves, amounts)
    \/ \E i \in DOMAIN paths : Fetch(i)
    \/ Prepare
    \/ CalculateWitness

Spec == Init /\ [][Next]_vars

-----------------------------------------------------------------------------
Done == witness \in {"calculated", "failed"}

\* Type correctness: the adapter fills every signal of the circuit.
TypeOK ==
    /\ service \in Services
    /\ size \in 0..Len(Notes)
    /\ witness \in {"none", "rejected", "calculated", "failed"}
    /\ input # None => ValidateCircuitInput(input)

\* WitnessIffFull: with the mock paths no transfer has a witness; with those of
\* the tree one has exactly when it fills every slot and its paths lead to one
\* root: a leaf appended between two fetches makes the proof fail, since only
\* the first root is kept.
WitnessIffFull ==
    Done => ((witness = "calculated") <=>
        /\ service = "tree"
        /\ Len(chosen.ins) = Slots
        /\ Len(chosen.outs) = Slots
        /\ \A i \in DOMAIN paths : paths[i].root = paths[1].root)

\* AdapterFitsCircuit: what the adapter accepts and pads has a witness, its
\* paths being of one root: it "Pads to 4 inputs and 4 outputs as required by
\* circuit" (circuit-adapter.ts:41).
AdapterFitsCircuit ==
    Done /\ service = "tree" /\ (\A i \in DOMAIN paths : paths[i].root = paths[1].root)
        => witness = "calculated"
=============================================================================
