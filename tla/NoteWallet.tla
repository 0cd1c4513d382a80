----------------------------- MODULE NoteWallet -----------------------------
(***************************************************************************)
(* The client's private wallet: the note store in localStorage             *)
(* (client/utils/zk/notes.ts) and the asynchronous operations on it,       *)
(* executePrivateTransfer and depositToPrivatePool                         *)
(* (client/utils/blockchain.ts).                                           *)
(*                                                                         *)
(* JavaScript runs one callback at a time, so every function of notes.ts   *)
(* is one step; a transfer is cut at its awaits, and other transfers run   *)
(* in between with what the store holds by then.  The prover and the chain *)
(* are external: the prover answers yes or no, and the chain includes a    *)
(* transaction when none of its nullifiers has been revealed, reports      *)
(* where the transaction stands, and may retract a block.                  *)
(***************************************************************************)
EXTENDS CoinSelection

CONSTANTS
    Transfers,        \* calls of executePrivateTransfer
    Deposits,         \* calls of depositToPrivatePool
    Received,         \* notes the app hands to addReceivedNotes
    ReceivedAmount,   \* their amounts
    TransferAmounts,  \* the `amount` arguments tried
    Environments      \* what may happen around the wallet

ASSUME WalletAssumption ==
    /\ ReceivedAmount \in [Received -> Nat]
    /\ TransferAmounts \subseteq Nat
    /\ Environments \subseteq [retractions : Nat, deposits : BOOLEAN,
                        restart : BOOLEAN, restore : BOOLEAN, refuse : BOOLEAN]
    /\ None \notin Nat

VARIABLES
    env,        \* the environment: how many blocks are retracted at most (BOUND),
                \* whether the user deposits, the app is closed and opened again,
                \* the user exports, imports and clears notes, and
                \* localStorage.setItem may throw
    notes,      \* localStorage['zk_notes'], in order
    backup,     \* the last export, or None
    pc,         \* where each transfer stands in the client
    inputs,     \* the selected notes each transfer holds across its awaits
    outputs,    \* the notes each transfer creates
    deposit,    \* where each deposit stands
    listening,  \* transfers whose callback is subscribed to its transaction
    inbox,      \* status updates that have not reached the callback yet
    pool,       \* transfers whose transaction waits for inclusion
    ledger,     \* the transactions included, in order, and their results
    retracted,  \* retractions so far
    unsaved     \* history: transfers whose last InBlock callback threw

clientVars == <<env, notes, backup, pc, inputs, outputs, deposit>>
chainVars == <<listening, inbox, pool, ledger, retracted>>
vars == <<clientVars, chainVars, unsaved>>

MaxInputs == 4   \* the 4 of selectNotesForTransfer(amount, 4)

\* Where a transfer may stand while its promise is not settled.
Pending == {"fetching", "proving", "verifying", "submitted"}

(***************************************************************************)
(* Notes.  A commitment is told apart by who made the note; `mine` is its  *)
(* recipient being the wallet's own key.                                   *)
(***************************************************************************)
\* Mutant: -1 stands for the missing leaf index.
CreateNotePlaced(id, amount, mine) ==
    [id |-> id, amount |-> amount, mine |-> mine, leafIndex |-> -1, spent |-> FALSE]

CreateNote(id, amount, mine) ==
    [id |-> id, amount |-> amount, mine |-> mine, leafIndex |-> None, spent |-> FALSE]

ReceivedNote(r) == [CreateNote(<<"received", r>>, ReceivedAmount[r], TRUE) EXCEPT !.leafIndex = 0]

\* Mutant: the change goes nowhere.
OutputNotesNoChange(t, amount, change) == <<CreateNote(<<"payment", t>>, amount, FALSE)>>

OutputNotes(t, amount, change) ==
    <<CreateNote(<<"payment", t>>, amount, FALSE)>>
    \o (IF change > 0 THEN <<CreateNote(<<"change", t>>, change, TRUE)>> ELSE <<>>)

Ids(seq) == {seq[i].id : i \in DOMAIN seq}

-----------------------------------------------------------------------------
(***************************************************************************)
(* The functions of notes.ts that write the store, as what they save after *)
(* loading `stored`.                                                       *)
(***************************************************************************)
\* saveNotes is the only writer of the item, so it always parses; the catch
\* of loadNotes is for what the app did not write.
LoadNotes(stored) == stored

\* Mutant: the flag is toggled, without the test of !note.spent.
ToggleSpent(stored, ids) ==
    [i \in DOMAIN LoadNotes(stored) |->
        [stored[i] EXCEPT !.spent = IF stored[i].id \in ids THEN ~@ ELSE @]]

MarkNotesSpent(stored, ids) ==
    LET loaded == LoadNotes(stored)
    IN  [i \in DOMAIN loaded |->
            IF loaded[i].id \in ids /\ ~loaded[i].spent
            THEN [loaded[i] EXCEPT !.spent = TRUE] ELSE loaded[i]]

AddReceivedNotes(stored, new) == LoadNotes(stored) \o new

UpdateNoteLeafIndex(stored, id, leafIndex) ==
    LET loaded == LoadNotes(stored)
    IN  [i \in DOMAIN loaded |->
            IF loaded[i].id = id THEN [loaded[i] EXCEPT !.leafIndex = leafIndex] ELSE loaded[i]]

-----------------------------------------------------------------------------
Init ==
    /\ env \in Environments
    /\ notes = <<>>
    /\ backup = None
    /\ pc = [t \in Transfers |-> "idle"]
    /\ inputs = [t \in Transfers |-> <<>>]
    /\ outputs = [t \in Transfers |-> <<>>]
    /\ deposit = [d \in Deposits |-> "idle"]
    /\ listening = {}
    /\ inbox = [t \in Transfers |-> <<>>]
    /\ pool = {}
    /\ ledger = <<>>
    /\ retracted = 0
    /\ unsaved = {}

(***************************************************************************)
(* The app adds a note it received, with the leaf index it was told.       *)
(***************************************************************************)
Receive(r) ==
    /\ <<"received", r>> \notin Ids(notes)
    /\ notes' = AddReceivedNotes(notes, <<ReceivedNote(r)>>)
    /\ UNCHANGED <<env, backup, pc, inputs, outputs, deposit>> /\ UNCHANGED <<chainVars, unsaved>>

(***************************************************************************)
(* executePrivateTransfer up to its first await: selection and outputs.    *)
(***************************************************************************)
BeginTransfer(t, amount) ==
    LET sel == SelectNotesForTransfer(notes, amount, MaxInputs) IN
    /\ pc[t] = "idle"
    /\ IF sel.ok
       THEN /\ pc' = [pc EXCEPT ![t] = "fetching"]
            /\ inputs' = [inputs EXCEPT ![t] = sel.selected]
            /\ outputs' = [outputs EXCEPT ![t] = OutputNotes(t, amount, sel.change)]
       ELSE /\ pc' = [pc EXCEPT ![t] = "failed"]
            /\ UNCHANGED <<inputs, outputs>>
    /\ UNCHANGED <<env, notes, backup, deposit>> /\ UNCHANGED <<chainVars, unsaved>>

Continue(t, from, to) ==
    /\ pc[t] = from
    /\ pc' = [pc EXCEPT ![t] = to]
    /\ UNCHANGED <<env, notes, backup, inputs, outputs, deposit>> /\ UNCHANGED <<chainVars, unsaved>>

(***************************************************************************)
(* The Merkle paths are there: prepareCircuitInput checks the counts and   *)
(* that the sums agree, and the prover starts.                             *)
(***************************************************************************)
Prepared(t) ==
    /\ Len(inputs[t]) \in 1..MaxInputs
    /\ Len(outputs[t]) \in 1..4
    /\ TotalAmount(inputs[t]) = TotalAmount(outputs[t])

\* Mutant: the continuation forgets to go on when the checks pass.
PrepareStalls(t) == Continue(t, "fetching", IF Prepared(t) THEN "fetching" ELSE "failed")

Prepare(t) == Continue(t, "fetching", IF Prepared(t) THEN "proving" ELSE "failed")

Proved(t, ok) == Continue(t, "proving", IF ok THEN "verifying" ELSE "failed")

\* signAndSend: the transaction goes to the pool, or signing or the
\* connection fails and the promise is rejected.
Submit(t, verified, sent) ==
    /\ pc[t] = "verifying"
    /\ pc' = [pc EXCEPT ![t] = IF verified /\ sent THEN "submitted" ELSE "failed"]
    /\ IF verified /\ sent
       THEN listening' = listening \cup {t} /\ pool' = pool \cup {t}
       ELSE UNCHANGED <<listening, pool>>
    /\ UNCHANGED <<env, notes, backup, inputs, outputs, deposit, inbox, ledger, retracted, unsaved>>

(***************************************************************************)
(* The callback of signAndSend.  It stays subscribed after the promise is  *)
(* settled; a settled promise ignores resolve and reject.                  *)
(***************************************************************************)
\* Mutant: an error is not passed to reject.
SettleOnlyDone(t, to) ==
    pc' = [pc EXCEPT ![t] = IF @ = "submitted" /\ to = "done" THEN to ELSE @]

Settle(t, to) == pc' = [pc EXCEPT ![t] = IF @ = "submitted" THEN to ELSE @]

\* Mutant: the inputs are marked whatever the chain reported.
DispatchErrorMarks(t) ==
    /\ inbox[t] # <<>> /\ Head(inbox[t]) = "DispatchError"
    /\ inbox' = [inbox EXCEPT ![t] = Tail(@)]
    /\ Settle(t, "failed")
    /\ notes' = MarkNotesSpent(notes, Ids(inputs[t]))
    /\ UNCHANGED <<env, backup, inputs, outputs, deposit, listening, pool, ledger, retracted,
                   unsaved>>

OnDispatchError(t) ==
    /\ inbox[t] # <<>> /\ Head(inbox[t]) = "DispatchError"
    /\ inbox' = [inbox EXCEPT ![t] = Tail(@)]
    /\ Settle(t, "failed")
    /\ UNCHANGED <<env, notes, backup, inputs, outputs, deposit, listening, pool, ledger, retracted,
                   unsaved>>

\* Mutant: the inputs are not marked.
InBlockForgetsInputs(t) ==
    /\ inbox[t] # <<>> /\ Head(inbox[t]) = "InBlock"
    /\ inbox' = [inbox EXCEPT ![t] = Tail(@)]
    /\ Settle(t, "done")
    /\ notes' = AddReceivedNotes(notes, outputs[t])
    /\ unsaved' = unsaved \ {t}
    /\ UNCHANGED <<env, backup, inputs, outputs, deposit, listening, pool, ledger, retracted>>

OnInBlock(t) ==
    /\ inbox[t] # <<>> /\ Head(inbox[t]) = "InBlock"
    /\ inbox' = [inbox EXCEPT ![t] = Tail(@)]
    /\ Settle(t, "done")
    /\ notes' = AddReceivedNotes(MarkNotesSpent(notes, Ids(inputs[t])), outputs[t])
    /\ unsaved' = unsaved \ {t}
    /\ UNCHANGED <<env, backup, inputs, outputs, deposit, listening, pool, ledger, retracted>>

\* Mutant: the outputs are stored before the inputs are marked.
InBlockRefusedSwapped(t, first) ==
    /\ env.refuse
    /\ inbox[t] # <<>> /\ Head(inbox[t]) = "InBlock"
    /\ inbox' = [inbox EXCEPT ![t] = Tail(@)]
    /\ notes' = IF first THEN AddReceivedNotes(notes, outputs[t]) ELSE notes
    /\ unsaved' = unsaved \cup {t}
    /\ UNCHANGED <<env, backup, pc, inputs, outputs, deposit, listening, pool, ledger, retracted>>

\* saveNotes throws inside the callback, in markNotesSpent or after it in
\* addReceivedNotes: the promise is neither resolved nor rejected, and the
\* subscription goes on.
OnInBlockRefused(t, marked) ==
    /\ env.refuse
    /\ inbox[t] # <<>> /\ Head(inbox[t]) = "InBlock"
    /\ inbox' = [inbox EXCEPT ![t] = Tail(@)]
    /\ notes' = IF marked THEN MarkNotesSpent(notes, Ids(inputs[t])) ELSE notes
    /\ unsaved' = unsaved \cup {t}
    /\ UNCHANGED <<env, backup, pc, inputs, outputs, deposit, listening, pool, ledger, retracted>>

(***************************************************************************)
(* depositToPrivatePool: the note lives in the closure; the callback looks *)
(* it up in the store, with the placeholder leaf index 0.                  *)
(***************************************************************************)
SubmitDeposit(d) ==
    /\ env.deposits
    /\ deposit[d] = "idle"
    /\ deposit' = [deposit EXCEPT ![d] = "submitted"]
    /\ UNCHANGED <<env, notes, backup, pc, inputs, outputs>> /\ UNCHANGED <<chainVars, unsaved>>

OnDepositInBlock(d) ==
    /\ deposit[d] = "submitted"
    /\ deposit' = [deposit EXCEPT ![d] = "done"]
    /\ notes' = UpdateNoteLeafIndex(notes, <<"deposit", d>>, 0)
    /\ UNCHANGED <<env, backup, pc, inputs, outputs>> /\ UNCHANGED <<chainVars, unsaved>>

OnDepositError(d) ==
    /\ deposit[d] = "submitted"
    /\ deposit' = [deposit EXCEPT ![d] = "failed"]
    /\ UNCHANGED <<env, notes, backup, pc, inputs, outputs>> /\ UNCHANGED <<chainVars, unsaved>>

(***************************************************************************)
(* The user's own operations on the store.                                 *)
(***************************************************************************)
ExportNotes ==
    /\ env.restore
    /\ backup' = notes
    /\ UNCHANGED <<env, notes, pc, inputs, outputs, deposit>> /\ UNCHANGED <<chainVars, unsaved>>

ImportNotes ==
    /\ env.restore
    /\ backup # None
    /\ notes' = backup
    /\ UNCHANGED <<env, backup, pc, inputs, outputs, deposit>> /\ UNCHANGED <<chainVars, unsaved>>

ClearAllNotes ==
    /\ env.restore
    /\ notes' = <<>>
    /\ UNCHANGED <<env, backup, pc, inputs, outputs, deposit>> /\ UNCHANGED <<chainVars, unsaved>>

\* The app is closed and opened: the store is still there; the callbacks are
\* not, nor the output notes that the closures of pending transfers held.
Restart ==
    /\ env.restart
    /\ listening # {} \/ \E t \in Transfers : pc[t] \in Pending
    /\ pc' = [t \in Transfers |-> IF pc[t] \in Pending THEN "lost" ELSE pc[t]]
    /\ deposit' = [d \in Deposits |-> IF deposit[d] = "submitted" THEN "lost" ELSE deposit[d]]
    /\ listening' = {}
    /\ inbox' = [t \in Transfers |-> <<>>]
    /\ UNCHANGED <<env, notes, backup, inputs, outputs, pool, ledger, retracted, unsaved>>

(***************************************************************************)
(* The chain, as far as the client can see it: a transaction is included   *)
(* with the result Ok when its nullifiers are new, and with an error       *)
(* otherwise.  A retraction undoes a suffix of the ledger, and what was in *)
(* it goes back to the pool.                                               *)
(***************************************************************************)
Revealed ==
    UNION {Ids(inputs[ledger[i].tx]) : i \in {j \in DOMAIN ledger : ledger[j].ok}}

Include(t) ==
    LET ok == Ids(inputs[t]) \cap Revealed = {} IN
    /\ t \in pool
    /\ pool' = pool \ {t}
    /\ ledger' = Append(ledger, [tx |-> t, ok |-> ok])
    /\ inbox' = IF t \in listening
                THEN [inbox EXCEPT ![t] = Append(@, IF ok THEN "InBlock" ELSE "DispatchError")]
                ELSE inbox
    /\ UNCHANGED <<listening, retracted>> /\ UNCHANGED <<clientVars, unsaved>>

Retract(n) ==
    /\ retracted < env.retractions
    /\ retracted' = retracted + 1
    /\ ledger' = SubSeq(ledger, 1, n - 1)
    /\ pool' = pool \cup {ledger[i].tx : i \in n..Len(ledger)}
    /\ UNCHANGED <<listening, inbox>> /\ UNCHANGED <<clientVars, unsaved>>

-----------------------------------------------------------------------------
Advance(t) ==
    \/ Prepare(t)
    \/ \E ok \in BOOLEAN : Proved(t, ok)
    \/ \E verified, sent \in BOOLEAN : Submit(t, verified, sent)

Deliver(t) ==
    \/ OnDispatchError(t)
    \/ OnInBlock(t)
    \/ \E marked \in BOOLEAN : OnInBlockRefused(t, marked)

Next ==
    \/ \E r \in Received : Receive(r)
    \/ \E t \in Transfers, amount \in TransferAmounts : BeginTransfer(t, amount)
    \/ \E t \in Transfers : Advance(t) \/ Deliver(t) \/ Include(t)
    \/ \E n \in DOMAIN ledger : Retract(n)
    \/ \E d \in Deposits : SubmitDeposit(d) \/ OnDepositInBlock(d) \/ OnDepositError(d)
    \/ ExportNotes \/ ImportNotes \/ ClearAllNotes
    \/ Restart

Spec == Init /\ [][Next]_vars

\* Promise continuations and delivered status updates are run by the event
\* loop, and the provers answer; nothing is assumed of the chain or the user.
FairSpec == Spec /\ \A t \in Transfers : WF_vars(Advance(t)) /\ WF_vars(Deliver(t))

-----------------------------------------------------------------------------
(***************************************************************************)
(* Properties.                                                             *)
(***************************************************************************)
Note == [id : {"received", "payment", "change"} \X (Received \cup Transfers),
         amount : Nat, mine : BOOLEAN, leafIndex : {None, 0}, spent : BOOLEAN]

\* Type correctness of the store and of the operations on it.
TypeOK ==
    /\ env \in Environments
    /\ notes \in Seq(Note)
    /\ backup = None \/ backup \in Seq(Note)
    /\ pc \in [Transfers -> Pending \cup {"idle", "done", "failed", "lost"}]
    /\ inputs \in [Transfers -> Seq(Note)]
    /\ outputs \in [Transfers -> Seq(Note)]
    /\ deposit \in [Deposits -> {"idle", "submitted", "done", "failed", "lost"}]
    /\ listening \subseteq Transfers
    /\ inbox \in [Transfers -> Seq({"InBlock", "DispatchError"})]
    /\ pool \subseteq Transfers
    /\ ledger \in Seq([tx : Transfers, ok : BOOLEAN])
    /\ retracted \in 0..env.retractions
    /\ unsaved \subseteq Transfers

\* InputsAreReceived: executePrivateTransfer stores the recipient's note next
\* to its own change, possibly twice; still no transfer ever spends a note
\* that is somebody else's, that is not on chain, or that it holds twice.
InputsAreReceived ==
    \A t \in Transfers :
        /\ Ids(inputs[t]) \subseteq {<<"received", r>> : r \in Received}
        /\ \A i, j \in DOMAIN inputs[t] : inputs[t][i].id = inputs[t][j].id => i = j

\* SelectionPassesAdapter: what the coin selection and createNote produced is
\* what prepareCircuitInput accepts: its checks never reject a transfer.
SelectionPassesAdapter == \A t \in Transfers : pc[t] = "fetching" => Prepared(t)

\* SpentOnlyIfRevealed: while no block is retracted, a note the store calls
\* spent has been spent on chain, whatever was restarted, restored or refused.
SpentOnlyIfRevealed ==
    retracted = 0 => \A i \in DOMAIN notes : notes[i].spent => notes[i].id \in Revealed

\* Applied: the outputs of a transfer are in the store and its inputs are marked.
Marked(t) == \A j \in DOMAIN notes : notes[j].id \in Ids(inputs[t]) => notes[j].spent
Applied(t) == Ids(outputs[t]) \subseteq Ids(notes) /\ Marked(t)

\* AppliedWhole: without a restore, and whatever writes are refused and whenever the
\* app is closed, the store never counts a transfer's outputs next to its unspent
\* inputs or without each other, and has applied every transfer whose promise resolved.
AppliedWhole ==
    \A t \in Transfers :
        ~env.restore /\ (pc[t] = "done" \/ Ids(outputs[t]) \cap Ids(notes) # {}) => Applied(t)

\* AcceptedIsApplied: without a restore a transfer that is on chain is applied, also
\* when a block that held it was retracted, or an error was reported before, or an
\* earlier callback threw; but for the callback that is due, that threw when it ran
\* last, or that went with the app before it ran.
AcceptedIsApplied ==
    \A i \in DOMAIN ledger :
        LET t == ledger[i].tx IN
        ledger[i].ok /\ ~env.restore =>
            \/ "InBlock" \in Range(inbox[t])
            \/ t \in unsaved
            \/ t \notin listening /\ pc[t] # "done"
            \/ Applied(t)

\* StoreOnlyGrows: no step but importNotes and clearAllNotes drops a note from the
\* store, reorders it or makes a spent note unspent: InBlock may be reported twice.
StoreOnlyGrows ==
    [][~(ImportNotes \/ ClearAllNotes) => \A i \in DOMAIN notes :
          /\ i \in DOMAIN notes'
          /\ notes'[i].id = notes[i].id
          /\ notes[i].spent => notes'[i].spent]_vars

\* TransferReachesChain: a transfer that selected its notes is submitted or
\* fails; it never hangs in the client.
TransferReachesChain ==
    \A t \in Transfers : pc[t] = "fetching" ~> pc[t] \notin {"fetching", "proving", "verifying"}

\* ReportSettles: while every write of the store succeeds, a transfer the chain has
\* answered does not stay submitted.
ReportSettles ==
    \A t \in Transfers :
        ~env.refuse /\ pc[t] = "submitted" /\ inbox[t] # <<>> ~> pc[t] # "submitted"

\* AnswerSettles: a transfer the chain has answered returns its transaction hash or
\* an error: "const txHash = await executePrivateTransfer" (docs/ZK_INTEGRATION.md:96).
AnswerSettles ==
    \A t \in Transfers :
        pc[t] = "submitted" /\ inbox[t] # <<>> ~> pc[t] # "submitted"
=============================================================================
