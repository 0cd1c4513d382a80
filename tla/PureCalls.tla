----------------------------- MODULE PureCalls ------------------------------
(***************************************************************************)
(* One call of the coin selection of the client (CoinSelection) or of the  *)
(* witness calculator's lookup of an input (InputHashMap), and what each   *)
(* of them is for.                                                         *)
(***************************************************************************)
EXTENDS CoinSelection, InputHashMap

CONSTANTS
    Stores,     \* the notes a wallet may hold
    Targets,    \* amounts to select for
    Limits,     \* values of maxNotes
    TableSize,  \* slots of the table of inputs: 256 in the compiled circuit
    Hashes      \* what the hash of a name may be

\* No name has the hash 0: an empty slot of the table would pass for its slot.  The
\* limit is not 0 (it is 4 wherever the client selects).
ASSUME CallAssumption ==
    /\ Stores \subseteq Seq([amount : Nat, leafIndex : Nat \cup {None}, spent : BOOLEAN])
    /\ Targets \subseteq Nat /\ Limits \subseteq Nat \ {0}
    /\ TableSize \in Nat \ {0}
    /\ Hashes \subseteq Nat \ {0}

VARIABLES call, outcome

vars == <<call, outcome>>

-----------------------------------------------------------------------------
\* The notes of a store, identified by their positions.
Numbered(store) ==
    [i \in DOMAIN store |-> [id |-> i, amount |-> store[i].amount,
                             leafIndex |-> store[i].leafIndex, spent |-> store[i].spent]]

Selections ==
    [fn : {"select"}, notes : {Numbered(s) : s \in Stores}, target : Targets, maxNotes : Limits]

\* The table the compiler makes of distinct hashes, each in the first free slot
\* from its home on.
Insert(map, k, h) ==
    LET Slot(d) == (h + d) % TableSize
        d == Min({x \in 0..(TableSize - 1) : map[Slot(x)].signalid = 0})
    IN  [map EXCEPT ![Slot(d)] = [hash |-> h, signalid |-> k, signalsize |-> 1]]

Table(hashes) ==
    FoldLeft(LAMBDA map, k : Insert(map, k, hashes[k]),
             [p \in 0..(TableSize - 1) |-> EmptySlot], [k \in DOMAIN hashes |-> k])

Lookups ==
    [fn : {"lookup"}, h : Hashes,
     hashes : {s \in UNION {[1..n -> Hashes] : n \in 0..TableSize} : IsInjective(s)}]

-----------------------------------------------------------------------------
Init ==
    /\ call \in Selections \cup Lookups
    /\ outcome = None

Select ==
    /\ call.fn = "select" /\ outcome = None
    /\ outcome' = SelectNotesForTransfer(call.notes, call.target, call.maxNotes)
    /\ UNCHANGED call

Lookup ==
    /\ call.fn = "lookup" /\ outcome = None
    /\ outcome' = [position |-> GetInputSignalHashPosition(Table(call.hashes), call.h)]
    /\ UNCHANGED call

Spec == Init /\ [][Select \/ Lookup]_vars

-----------------------------------------------------------------------------
Answered(fn) == call.fn = fn /\ outcome # None
Selected == Answered("select") /\ outcome.ok

Coins == {i \in DOMAIN call.notes : ~call.notes[i].spent /\ call.notes[i].leafIndex # None}

Worth(coins) == MapThenSumSet(LAMBDA i : call.notes[i].amount, coins)

Affordable == {coins \in SUBSET Coins : /\ coins # {}
                                        /\ Cardinality(coins) <= call.maxNotes
                                        /\ Worth(coins) >= call.target}

ids == {outcome.selected[k].id : k \in DOMAIN outcome.selected}

\* SelectionComplete: the greedy loop of selectNotesForTransfer fails only when no
\* set of at most maxNotes unspent, placed notes reaches the target.
SelectionComplete == Answered("select") => (outcome.ok <=> Affordable # {})

\* SelectionMinimal: what selectNotesForTransfer selects is affordable, holds no
\* note twice and uses as few notes as any other choice would; the change is
\* what it exceeds the target by.
SelectionMinimal ==
    Selected => /\ ids \in Affordable
                /\ outcome.change = Worth(ids) - call.target
                /\ Cardinality(ids) = Len(outcome.selected)
                /\ \A coins \in Affordable : Cardinality(ids) <= Cardinality(coins)

\* LookupFinds: getInputSignalHashPosition finds every input of the table, wherever
\* collisions have put it, full tables and those that wrap around included, and
\* fails for every other name.
LookupFinds ==
    Answered("lookup") =>
        LET map == Table(call.hashes) IN
        IF call.h \in ToSet(call.hashes)
        THEN outcome.position \in DOMAIN map /\ map[outcome.position].hash = call.h
        ELSE outcome.position = NotFound
=============================================================================
