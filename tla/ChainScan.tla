----------------------------- MODULE ChainScan ------------------------------
(***************************************************************************)
(* scanChain of the indexer client (client/api/indexer.ts): the events of  *)
(* a range of blocks, fetched in batches.  A request that fails answers an *)
(* empty list (getEventsInRange), and the scan goes on.                    *)
(***************************************************************************)
EXTENDS Integers, Sequences, SequencesExt

CONSTANTS
    Digests,    \* commitments and nullifiers
    Chain,      \* the events of every block, in order
    BatchSize,  \* 100
    Ranges,     \* the <<startBlock, endBlock>> tried
    Absent      \* the value of a field an event does not have

VARIABLES
    range,        \* startBlock and endBlock
    current,      \* currentBlock
    commitments,  \* the commitments collected
    nullifiers,   \* the nullifiers collected
    missed,       \* history: blocks whose request failed
    returned      \* has scanChain returned?

vars == <<range, current, commitments, nullifiers, missed, returned>>

Init ==
    /\ range \in Ranges
    /\ current = range[1]
    /\ commitments = << >> /\ nullifiers = << >>
    /\ missed = {} /\ returned = FALSE

(***************************************************************************)
(* What one event adds.                                                    *)
(***************************************************************************)
\* Mutant: a deposit without a commitment is not skipped.
EventCommitmentsUnchecked(e) ==
    (IF e.type = "deposit" THEN <<e.commitment>> ELSE << >>)
    \o (IF e.type \in {"deposit", "private_transfer"} /\ e.commitments # Absent
        THEN e.commitments ELSE << >>)

EventCommitments(e) ==
    (IF e.type = "deposit" /\ e.commitment # Absent THEN <<e.commitment>> ELSE << >>)
    \o (IF e.type \in {"deposit", "private_transfer"} /\ e.commitments # Absent
        THEN e.commitments ELSE << >>)

EventNullifiers(e) ==
    IF e.type \in {"private_transfer", "withdraw"} /\ e.nullifiers # Absent
    THEN e.nullifiers ELSE << >>

\* What the events of a block add.
BlockCommitments ==
    [b \in DOMAIN Chain |-> FlattenSeq([j \in DOMAIN Chain[b] |-> EventCommitments(Chain[b][j])])]
BlockNullifiers ==
    [b \in DOMAIN Chain |-> FlattenSeq([j \in DOMAIN Chain[b] |-> EventNullifiers(Chain[b][j])])]

\* What the blocks from first to last add, but for those in `without`.
Collect(added, first, last, without) ==
    FlattenSeq([i \in 1..(last - first + 1) |->
        IF first + i - 1 \in without THEN << >> ELSE added[first + i - 1]])

BatchEnd == IF current + BatchSize - 1 < range[2] THEN current + BatchSize - 1 ELSE range[2]

\* Mutant: the next batch starts with the last block of this one.
AdvanceInclusive == current' = BatchEnd

Advance == current' = BatchEnd + 1

GetEventsInRange(ok) ==
    /\ current <= range[2]
    /\ IF ok
       THEN /\ commitments' = commitments \o Collect(BlockCommitments, current, BatchEnd, {})
            /\ nullifiers' = nullifiers \o Collect(BlockNullifiers, current, BatchEnd, {})
            /\ UNCHANGED missed
       ELSE /\ missed' = missed \cup current..BatchEnd
            /\ UNCHANGED <<commitments, nullifiers>>
    /\ Advance
    /\ UNCHANGED <<range, returned>>

Return ==
    /\ current > range[2] /\ ~returned
    /\ returned' = TRUE
    /\ UNCHANGED <<range, current, commitments, nullifiers, missed>>

Next == (\E ok \in BOOLEAN : GetEventsInRange(ok)) \/ Return

-----------------------------------------------------------------------------
TypeOK ==
    /\ range \in Ranges /\ current \in Nat
    /\ commitments \in Seq(Digests) /\ nullifiers \in Seq(Digests)
    /\ missed \subseteq Nat /\ returned \in BOOLEAN

\* ScanTiles: the batches cover the range without gap or overlap: what was
\* collected is what the blocks up to here published, in order and each once,
\* but for the blocks of requests that failed; when the scan returns these are
\* all the blocks of the range.
ScanTiles ==
    LET last == IF returned THEN range[2] ELSE current - 1 IN
    /\ commitments = Collect(BlockCommitments, range[1], last, missed)
    /\ nullifiers = Collect(BlockNullifiers, range[1], last, missed)
=============================================================================
