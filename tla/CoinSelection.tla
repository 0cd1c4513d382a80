--------------------------- MODULE CoinSelection ----------------------------
(***************************************************************************)
(* The coin selection of the client's note store                           *)
(* (client/utils/zk/notes.ts: getSpendableNotes, selectNotesForTransfer).  *)
(* A note is a record with the fields id (its commitment), amount,         *)
(* leafIndex (None while the chain has not placed it) and spent.           *)
(***************************************************************************)
EXTENDS Integers, Sequences, SequencesExt

CONSTANT None   \* JavaScript's undefined

TotalAmount(notes) == FoldLeft(LAMBDA sum, n : sum + n.amount, 0, notes)

(***************************************************************************)
(* getSpendableNotes: unspent notes with a leaf index and at least the     *)
(* minimum amount, largest first.  Array.prototype.sort is stable: notes   *)
(* of one amount keep the order of the store.                              *)
(***************************************************************************)
\* Mutant: the notes keep the order of the store.
BeforeInStore(notes, i, j) == i < j

Before(notes, i, j) ==
    \/ notes[i].amount > notes[j].amount
    \/ notes[i].amount = notes[j].amount /\ i < j

Rank(notes, kept, i) == 1 + Cardinality({j \in kept : Before(notes, j, i)})

\* The notes at the positions that the filter kept, in order.
LargestFirst(notes, kept) ==
    [k \in 1..Cardinality(kept) |-> notes[CHOOSE i \in kept : Rank(notes, kept, i) = k]]

\* Mutant: notes that wait for their leaf index count as spendable.
IsSpendablePending(n, minAmount) == ~n.spent /\ n.amount >= minAmount

IsSpendable(n, minAmount) == ~n.spent /\ n.leafIndex # None /\ n.amount >= minAmount

GetSpendableNotes(notes, minAmount) ==
    LargestFirst(notes, {i \in DOMAIN notes : IsSpendable(notes[i], minAmount)})

(***************************************************************************)
(* selectNotesForTransfer, for maxNotes > 0: the loop pushes a note before *)
(* it looks at the sum, so what it selects is the shortest non-empty       *)
(* prefix that reaches the target, and nothing when no prefix of at most   *)
(* maxNotes does.                                                          *)
(***************************************************************************)
Failed(why) == [ok |-> FALSE, why |-> why]

\* Mutant: the limit is tested after the push.
ReachingPrefixesOneMore(sorted, target, maxNotes) ==
    {k \in 1..Len(sorted) : k <= maxNotes + 1 /\ TotalAmount(SubSeq(sorted, 1, k)) >= target}

ReachingPrefixes(sorted, target, maxNotes) ==
    {k \in 1..Len(sorted) : k <= maxNotes /\ TotalAmount(SubSeq(sorted, 1, k)) >= target}

SelectNotesForTransfer(notes, target, maxNotes) ==
    LET sorted   == GetSpendableNotes(notes, 0)
        prefixes == ReachingPrefixes(sorted, target, maxNotes)
        selected == SubSeq(sorted, 1, Min(prefixes))
    IN  IF sorted = <<>> THEN Failed("No spendable notes available")
        ELSE IF prefixes = {} THEN Failed("Insufficient balance")
        ELSE [ok |-> TRUE, selected |-> selected, total |-> TotalAmount(selected),
              change |-> TotalAmount(selected) - target]
=============================================================================
