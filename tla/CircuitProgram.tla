--------------------------- MODULE CircuitProgram ---------------------------
(***************************************************************************)
(* The witness program that circom generated for Transaction(4, 4, 20)     *)
(* (parachain/pallets/zk_privacy/src/circom/circuit_cpp/circuit.cpp), as   *)
(* data: the layout of the signals and components of every template, and   *)
(* the statements of every *_run function with its loops unrolled.  The    *)
(* number of slots and of levels are parameters; with 4 and 20 every       *)
(* number below is the one in the generated file.                          *)
(*                                                                         *)
(* A template is a record: signals and components it takes up with         *)
(* everything below it, its own signals, the number and first offset of    *)
(* its inputs (outputs come first), and its statements.  PoseidonEx and    *)
(* MultiMux1 compute their outputs by arithmetic and have no statements.   *)
(***************************************************************************)
EXTENDS Integers, Sequences, SequencesExt

CONSTANTS Slots,    \* inputs and outputs of the transaction: 4
          Levels    \* depth of the tree: 20

ASSUME ProgramAssumption == Slots \in Nat \ {0} /\ Levels \in Nat \ {0}

(***************************************************************************)
(* Sources and statements.  Sub-components are numbered from 1; a source   *)
(* is a signal of the component itself, of a sub-component, or a constant. *)
(***************************************************************************)
Self(at) == [of |-> 0, at |-> at]
Sub(sub, at) == [of |-> sub, at |-> at]
Zero == [of |-> -1, at |-> 0]   \* circuitConstants[88]

\* The loop that creates `count` sub-components, from number `first`.
Create(first, count, template, component, signal) ==
    [op |-> "create", first |-> first, count |-> count, template |-> template,
     component |-> component, signal |-> signal]
\* Give a sub-component one input, and run it when that was the last one.
SetInput(sub, at, from) == [op |-> "set", sub |-> sub, at |-> at, from |-> from]
Copy(at, from) == [op |-> "copy", at |-> at, from |-> from]
AssertEqual(left, right) == [op |-> "assert", left |-> left, right |-> right]
AddTo(var, from) == [op |-> "add", var |-> var, from |-> from]
AssertSums == [op |-> "assertSums"]

\* A loop over 0..(n-1), unrolled.
For(n, Body(_)) == FlattenSeq([i \in 1..n |-> Body(i - 1)])

-----------------------------------------------------------------------------
(***************************************************************************)
(* PoseidonEx(n, 1) and MultiMux1(2), the templates without statements.    *)
(***************************************************************************)
PoseidonExName(n) == IF n = 2 THEN "PoseidonEx2" ELSE "PoseidonEx3"

PoseidonEx(n) ==
    [signals |-> IF n = 2 THEN 764 ELSE 930, components |-> IF n = 2 THEN 155 ELSE 161,
     own |-> n + 2, inputs |-> n + 1, firstInput |-> 1, run |-> <<>>]

MultiMux1 ==
    [signals |-> 7, components |-> 1, own |-> 7, inputs |-> 5, firstInput |-> 2, run |-> <<>>]

(***************************************************************************)
(* Poseidon(n): the initial state and the inputs go to PoseidonEx.         *)
(***************************************************************************)
\* Mutant: the initial state is not set.
PoseidonRunNoState(n) ==
    <<Create(1, 1, PoseidonExName(n), 1, n + 1)>>
    \o For(n, LAMBDA i : <<SetInput(1, i + 1, Self(i + 1))>>)
    \o <<Copy(0, Sub(1, 0))>>

PoseidonRun(n) ==
    <<Create(1, 1, PoseidonExName(n), 1, n + 1), SetInput(1, n + 1, Zero)>>
    \o For(n, LAMBDA i : <<SetInput(1, i + 1, Self(i + 1))>>)
    \o <<Copy(0, Sub(1, 0))>>

Poseidon(n) ==
    [signals |-> n + 1 + PoseidonEx(n).signals, components |-> 1 + PoseidonEx(n).components,
     own |-> n + 1, inputs |-> n, firstInput |-> 1, run |-> PoseidonRun(n)]

(***************************************************************************)
(* MerkleProof(levels): out, leaf, pathElements, pathIndices, hashes; then *)
(* the hashers (sub-components 1 to levels) and the multiplexers.          *)
(***************************************************************************)
MerkleElement(l) == 2 + l
MerkleIndex(l) == 2 + Levels + l
MerkleHash(l) == 2 + 2 * Levels + l

\* Mutant: one input of the multiplexer is given twice, another not at all.
MerkleLevelTwice(l) ==
    LET hasher == l + 1
        mux    == Levels + l + 1
    IN  <<SetInput(mux, 2, Self(MerkleHash(l))), SetInput(mux, 3, Self(MerkleElement(l))),
          SetInput(mux, 3, Self(MerkleElement(l))), SetInput(mux, 5, Self(MerkleHash(l))),
          SetInput(mux, 6, Self(MerkleIndex(l))),
          SetInput(hasher, 1, Sub(mux, 0)), SetInput(hasher, 2, Sub(mux, 1)),
          Copy(MerkleHash(l + 1), Sub(hasher, 0))>>

MerkleLevel(l) ==
    LET hasher == l + 1
        mux    == Levels + l + 1
    IN  <<SetInput(mux, 2, Self(MerkleHash(l))), SetInput(mux, 3, Self(MerkleElement(l))),
          SetInput(mux, 4, Self(MerkleElement(l))), SetInput(mux, 5, Self(MerkleHash(l))),
          SetInput(mux, 6, Self(MerkleIndex(l))),
          SetInput(hasher, 1, Sub(mux, 0)), SetInput(hasher, 2, Sub(mux, 1)),
          Copy(MerkleHash(l + 1), Sub(hasher, 0))>>

MerkleOwn == 3 * Levels + 3

\* Mutant: the multiplexers start one signal early.
MerkleCreateOverlapping ==
    <<Create(1, Levels, "Poseidon2", 1, MerkleOwn),
      Create(Levels + 1, Levels, "MultiMux1", 1 + Levels * Poseidon(2).components,
             MerkleOwn + Levels * Poseidon(2).signals - 1)>>

MerkleCreate ==
    <<Create(1, Levels, "Poseidon2", 1, MerkleOwn),
      Create(Levels + 1, Levels, "MultiMux1", 1 + Levels * Poseidon(2).components,
             MerkleOwn + Levels * Poseidon(2).signals)>>

MerkleProof ==
    [signals |-> MerkleOwn + Levels * (Poseidon(2).signals + MultiMux1.signals),
     components |-> 1 + Levels * (Poseidon(2).components + 1),
     own |-> MerkleOwn, inputs |-> 2 * Levels + 1, firstInput |-> 1,
     run |-> MerkleCreate \o <<Copy(MerkleHash(0), Self(1))>> \o For(Levels, MerkleLevel)
             \o <<Copy(0, Self(MerkleHash(Levels)))>>]

-----------------------------------------------------------------------------
(***************************************************************************)
(* Transaction(nInputs, nOutputs, levels): only inputs, in the order the   *)
(* circuit declares them.                                                  *)
(***************************************************************************)
InputSignals ==
    <<[name |-> "root", size |-> 1], [name |-> "nullifierHashes", size |-> Slots],
      [name |-> "outCommitments", size |-> Slots], [name |-> "inAmount", size |-> Slots],
      [name |-> "inSecret", size |-> Slots], [name |-> "inRecipient", size |-> Slots],
      [name |-> "inPathElements", size |-> Slots * Levels],
      [name |-> "inPathIndices", size |-> Slots * Levels],
      [name |-> "outAmount", size |-> Slots], [name |-> "outSecret", size |-> Slots],
      [name |-> "outRecipient", size |-> Slots]>>

InputNames == {InputSignals[k].name : k \in DOMAIN InputSignals}
InputSize == [n \in InputNames |-> (CHOOSE s \in Range(InputSignals) : s.name = n).size]

\* The offset of an input in the component, from 0.
InputOffset ==
    LET paths == 1 + 5 * Slots
        outs  == paths + 2 * Slots * Levels
    IN  [root |-> 0, nullifierHashes |-> 1, outCommitments |-> 1 + Slots, inAmount |-> 1 + 2 * Slots,
         inSecret |-> 1 + 3 * Slots, inRecipient |-> 1 + 4 * Slots,
         inPathElements |-> paths, inPathIndices |-> paths + Slots * Levels,
         outAmount |-> outs, outSecret |-> outs + Slots, outRecipient |-> outs + 2 * Slots]

InputCount == 1 + 8 * Slots + 2 * Slots * Levels   \* get_main_input_signal_no()

\* Sub-components: commitment and nullifier hashers and trees of the inputs,
\* then the commitment hashers of the outputs.
TransactionCreate ==
    LET c == [p3 |-> Poseidon(3).components, p2 |-> Poseidon(2).components, m |-> MerkleProof.components]
        s == [p3 |-> Poseidon(3).signals, p2 |-> Poseidon(2).signals, m |-> MerkleProof.signals]
    IN  <<Create(1, Slots, "Poseidon3", 1, InputCount),
          Create(Slots + 1, Slots, "Poseidon2", 1 + Slots * c.p3, InputCount + Slots * s.p3),
          Create(2 * Slots + 1, Slots, "MerkleProof",
                 1 + Slots * (c.p3 + c.p2), InputCount + Slots * (s.p3 + s.p2)),
          Create(3 * Slots + 1, Slots, "Poseidon3",
                 1 + Slots * (c.p3 + c.p2 + c.m), InputCount + Slots * (s.p3 + s.p2 + s.m))>>

In(name, i) == Self(InputOffset[name] + i)

TransactionInput(i) ==
    LET commitment == i + 1
        nullifier  == Slots + i + 1
        tree       == 2 * Slots + i + 1
    IN  <<SetInput(commitment, 1, In("inAmount", i)), SetInput(commitment, 2, In("inSecret", i)),
          SetInput(commitment, 3, In("inRecipient", i)),
          SetInput(nullifier, 1, Sub(commitment, 0)), SetInput(nullifier, 2, In("inSecret", i)),
          AssertEqual(Sub(nullifier, 0), In("nullifierHashes", i)),
          SetInput(tree, 1, Sub(commitment, 0))>>
        \o For(Levels, LAMBDA j :
               <<SetInput(tree, 2 + j, In("inPathElements", Levels * i + j)),
                 SetInput(tree, 2 + Levels + j, In("inPathIndices", Levels * i + j))>>)
        \o <<AssertEqual(Sub(tree, 0), In("root", 0)), AddTo("ins", In("inAmount", i))>>

TransactionOutput(i) ==
    LET commitment == 3 * Slots + i + 1 IN
    <<SetInput(commitment, 1, In("outAmount", i)), SetInput(commitment, 2, In("outSecret", i)),
      SetInput(commitment, 3, In("outRecipient", i)),
      AssertEqual(Sub(commitment, 0), In("outCommitments", i)),
      AddTo("outs", In("outAmount", i))>>

Transaction ==
    [signals |-> InputCount + Slots * (2 * Poseidon(3).signals + Poseidon(2).signals + MerkleProof.signals),
     components |-> 1 + Slots * (2 * Poseidon(3).components + Poseidon(2).components + MerkleProof.components),
     own |-> InputCount, inputs |-> InputCount, firstInput |-> 0,
     run |-> TransactionCreate \o For(Slots, TransactionInput) \o For(Slots, TransactionOutput)
             \o <<AssertSums>>]

Templates ==
    [PoseidonEx2 |-> PoseidonEx(2), PoseidonEx3 |-> PoseidonEx(3), MultiMux1 |-> MultiMux1,
     Poseidon2 |-> Poseidon(2), Poseidon3 |-> Poseidon(3),
     MerkleProof |-> MerkleProof, Transaction |-> Transaction]

\* get_main_input_signal_no(), get_total_signal_no() and get_number_of_components()
\* of the generated file; signal 0 is the constant 1.
ASSUME GeneratedNumbers ==
    Slots = 4 /\ Levels = 20 =>
        /\ InputCount = 193
        /\ 1 + Transaction.signals = 72906
        /\ Transaction.components = 14485
=============================================================================
