-------------------------- MODULE CircuitTemplate ---------------------------
(***************************************************************************)
(* The constraints of the circuit Transaction(nInputs, nOutputs, levels)   *)
(* as it was written                                                       *)
(* (parachain/pallets/zk_privacy/src/circom/circuit.circom, and its copy   *)
(* client/public/zk/circuit.circom), over any field and any hash.          *)
(***************************************************************************)
EXTENDS Integers

CONSTANTS
    Slots, Levels,
    Poseidon(_),
    Mux(_, _, _),   \* of a selector s and values c0 and c1: (c1 - c0) * s + c0
    FieldSum(_)

ComputeCommitment(amount, secret, recipient) == Poseidon(<<amount, secret, recipient>>)
ComputeNullifier(commitment, secret) == Poseidon(<<commitment, secret>>)

\* The two outputs of the multiplexer between a hash and its sibling.
MultiMux1(s, hash, element) == <<Mux(s, hash, element), Mux(s, element, hash)>>

\* Mutant: the multiplexer's cases are swapped.
MerkleProofSwapped(leaf, elements, indices) ==
    LET hashes[i \in 0..Levels] ==
            IF i = 0 THEN leaf
            ELSE Poseidon(MultiMux1(indices[i], elements[i], hashes[i - 1]))
    IN  hashes[Levels]

\* Nothing constrains an index to 0 and 1.
MerkleProof(leaf, elements, indices) ==
    LET hashes[i \in 0..Levels] ==
            IF i = 0 THEN leaf
            ELSE Poseidon(MultiMux1(indices[i], hashes[i - 1], elements[i]))
    IN  hashes[Levels]

InputHolds(s, i) ==
    LET commitment == ComputeCommitment(s.inAmount[i], s.inSecret[i], s.inRecipient[i]) IN
    /\ ComputeNullifier(commitment, s.inSecret[i]) = s.nullifierHashes[i]
    /\ MerkleProof(commitment, s.inPathElements[i], s.inPathIndices[i]) = s.root

OutputHolds(s, i) ==
    ComputeCommitment(s.outAmount[i], s.outSecret[i], s.outRecipient[i]) = s.outCommitments[i]

Transaction(s) ==
    /\ \A i \in 1..Slots : InputHolds(s, i) /\ OutputHolds(s, i)
    /\ FieldSum(s.inAmount) = FieldSum(s.outAmount)
=============================================================================
