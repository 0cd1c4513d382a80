------------------------- MODULE MCTransferCircuit --------------------------
(***************************************************************************)
(* TransferCircuit for TLC: two slots, a tree of eight leaves, a small     *)
(* field that the sums of the notes do not reach.                          *)
(***************************************************************************)
EXTENDS TransferCircuit

MCNotes == <<[amount |-> 1, secret |-> 7, recipient |-> 1],
             [amount |-> 2, secret |-> 8, recipient |-> 1],
             [amount |-> 3, secret |-> 9, recipient |-> 1]>>

\* Amounts of one and two outputs; some fit no choice of inputs.
MCSplits == UNION {[1..n -> 1..3] : n \in 1..2} \cup {<<15, 1>>, <<1, 1, 1>>}
=============================================================================
