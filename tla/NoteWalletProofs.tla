-------------------------- MODULE NoteWalletProofs --------------------------
(***************************************************************************)
(* The wallet, for every number of transfers and notes, every amount and   *)
(* every environment.                                                      *)
(***************************************************************************)
EXTENDS NoteWallet, CoinSelectionProofs

(***************************************************************************)
(* Stores: sequences of notes, and what the functions of notes.ts make of  *)
(* them.                                                                   *)
(***************************************************************************)
\* StoreShape: a store is a function on the positions up to its length, and its
\* notes have amounts.
LEMMA StoreShape ==
    ASSUME NEW s \in Seq(Note)
    PROVE  /\ Len(s) \in Nat /\ DOMAIN s = 1..Len(s)
           /\ \A i \in DOMAIN s : s[i] \in Note
           /\ Amounts(s)
  <1>1. Len(s) \in Nat /\ DOMAIN s = 1..Len(s) /\ \A i \in DOMAIN s : s[i] \in Note
    OBVIOUS
  <1>2. \A x \in Note : x.amount \in Nat
    BY DEF Note
  <1> QED
    BY <1>1, <1>2 DEF Amounts

\* MarkingKeepsShape: markNotesSpent keeps every note in its place, and only sets the
\* flags of the notes it is given.
LEMMA MarkingKeepsShape ==
    ASSUME NEW s \in Seq(Note), NEW ids
    PROVE  /\ MarkNotesSpent(s, ids) \in Seq(Note)
           /\ DOMAIN MarkNotesSpent(s, ids) = DOMAIN s
           /\ \A i \in DOMAIN s :
                 /\ MarkNotesSpent(s, ids)[i].id = s[i].id
                 /\ MarkNotesSpent(s, ids)[i].leafIndex = s[i].leafIndex
                 /\ MarkNotesSpent(s, ids)[i].spent <=> s[i].spent \/ s[i].id \in ids
  <1> DEFINE m == MarkNotesSpent(s, ids)
  <1>1. Len(s) \in Nat /\ DOMAIN s = 1..Len(s) /\ \A i \in DOMAIN s : s[i] \in Note
    BY StoreShape
  <1>2. /\ DOMAIN m = DOMAIN s
        /\ \A i \in DOMAIN s : m[i] = IF s[i].id \in ids /\ ~s[i].spent
                                      THEN [s[i] EXCEPT !.spent = TRUE] ELSE s[i]
    BY DEF MarkNotesSpent, LoadNotes
  <1>3. \A x \in Note : /\ [x EXCEPT !.spent = TRUE] \in Note
                        /\ [x EXCEPT !.spent = TRUE].id = x.id
                        /\ [x EXCEPT !.spent = TRUE].leafIndex = x.leafIndex
                        /\ [x EXCEPT !.spent = TRUE].spent
                        /\ x.spent \in BOOLEAN
    BY DEF Note
  <1>4. m = [i \in 1..Len(s) |-> m[i]]
    BY <1>1 DEF MarkNotesSpent, LoadNotes
  <1> HIDE DEF m
  <1>5. \A i \in DOMAIN s : /\ m[i] \in Note
                            /\ m[i].id = s[i].id /\ m[i].leafIndex = s[i].leafIndex
                            /\ m[i].spent <=> s[i].spent \/ s[i].id \in ids
    <2>1. SUFFICES ASSUME NEW i \in DOMAIN s
                   PROVE  /\ m[i] \in Note
                          /\ m[i].id = s[i].id /\ m[i].leafIndex = s[i].leafIndex
                          /\ m[i].spent <=> s[i].spent \/ s[i].id \in ids
      OBVIOUS
    <2>2. s[i] \in Note
      BY <1>1
    <2>3. CASE s[i].id \in ids /\ ~s[i].spent
      <3>1. m[i] = [s[i] EXCEPT !.spent = TRUE]
        BY <1>2, <2>3, Zenon
      <3>2. m[i] \in Note /\ m[i].id = s[i].id /\ m[i].leafIndex = s[i].leafIndex /\ m[i].spent
        BY <1>3, <2>2, <3>1
      <3> QED
        BY <2>3, <3>2, Zenon
    <2>4. CASE ~ (s[i].id \in ids /\ ~s[i].spent)
      <3>1. m[i] = s[i]
        BY <1>2, <2>4, Zenon
      <3> QED
        BY <2>2, <2>4, <3>1, Zenon
    <2> QED
      BY <2>3, <2>4
  <1>6. m \in Seq(Note)
    BY <1>1, <1>4, <1>5
  <1> QED
    BY <1>2, <1>5, <1>6 DEF m

\* AddingKeepsShape: addReceivedNotes puts the new notes behind the stored ones.
LEMMA AddingKeepsShape ==
    ASSUME NEW s \in Seq(Note), NEW new \in Seq(Note)
    PROVE  /\ AddReceivedNotes(s, new) \in Seq(Note)
           /\ Len(AddReceivedNotes(s, new)) = Len(s) + Len(new)
           /\ \A i \in 1..(Len(s) + Len(new)) :
                 AddReceivedNotes(s, new)[i] = IF i <= Len(s) THEN s[i] ELSE new[i - Len(s)]
  BY ConcatProperties DEF AddReceivedNotes, LoadNotes

\* PlacingKeepsShape: updateNoteLeafIndex changes nothing but the leaf index of the
\* notes with the commitment.
LEMMA PlacingKeepsShape ==
    ASSUME NEW s \in Seq(Note), NEW id
    PROVE  /\ UpdateNoteLeafIndex(s, id, 0) \in Seq(Note)
           /\ DOMAIN UpdateNoteLeafIndex(s, id, 0) = DOMAIN s
           /\ \A i \in DOMAIN s :
                 /\ UpdateNoteLeafIndex(s, id, 0)[i].id = s[i].id
                 /\ UpdateNoteLeafIndex(s, id, 0)[i].spent = s[i].spent
                 /\ s[i].id # id => UpdateNoteLeafIndex(s, id, 0)[i] = s[i]
  <1> DEFINE m == UpdateNoteLeafIndex(s, id, 0)
  <1>1. Len(s) \in Nat /\ DOMAIN s = 1..Len(s) /\ \A i \in DOMAIN s : s[i] \in Note
    BY StoreShape
  <1>2. /\ DOMAIN m = DOMAIN s
        /\ \A i \in DOMAIN s : m[i] = IF s[i].id = id THEN [s[i] EXCEPT !.leafIndex = 0] ELSE s[i]
    BY DEF UpdateNoteLeafIndex, LoadNotes
  <1>3. \A x \in Note : /\ [x EXCEPT !.leafIndex = 0] \in Note
                        /\ [x EXCEPT !.leafIndex = 0].id = x.id
                        /\ [x EXCEPT !.leafIndex = 0].spent = x.spent
    BY DEF Note
  <1>4. m = [i \in 1..Len(s) |-> m[i]]
    BY <1>1 DEF UpdateNoteLeafIndex, LoadNotes
  <1> HIDE DEF m
  <1>5. \A i \in DOMAIN s : /\ m[i] \in Note
                            /\ m[i].id = s[i].id /\ m[i].spent = s[i].spent
                            /\ s[i].id # id => m[i] = s[i]
    BY <1>1, <1>2, <1>3
  <1>6. m \in Seq(Note)
    BY <1>1, <1>4, <1>5
  <1> QED
    BY <1>2, <1>5, <1>6 DEF m

\* NewNotes: createNote makes unspent notes without a leaf index.
LEMMA NewNotes ==
    ASSUME NEW amount \in Nat, NEW mine \in BOOLEAN, NEW kind \in {"received", "payment", "change"},
           NEW x \in Received \cup Transfers
    PROVE  CreateNote(<<kind, x>>, amount, mine) \in Note
  BY DEF CreateNote, Note

\* OutputNotesShape: the outputs of a transfer are a payment and, when there is
\* any, the change; together they are worth the inputs.
LEMMA OutputNotesShape ==
    ASSUME NEW t \in Transfers, NEW amount \in Nat, NEW change \in Nat
    PROVE  LET out == OutputNotes(t, amount, change) IN
           /\ out \in Seq(Note)
           /\ Len(out) \in 1..2
           /\ \A i \in 1..Len(out) : /\ out[i].id \in {<<"payment", t>>, <<"change", t>>}
                                     /\ out[i].leafIndex = None /\ ~out[i].spent
           /\ TotalAmount(out) = amount + change
  <1> DEFINE out == OutputNotes(t, amount, change)
             pay == CreateNote(<<"payment", t>>, amount, FALSE)
             rest == CreateNote(<<"change", t>>, change, TRUE)
  <1>1. pay \in Note /\ rest \in Note
    BY NewNotes
  <1>2. /\ pay.id = <<"payment", t>> /\ pay.leafIndex = None /\ ~pay.spent /\ pay.amount = amount
        /\ rest.id = <<"change", t>> /\ rest.leafIndex = None /\ ~rest.spent /\ rest.amount = change
    BY DEF CreateNote
  <1>3. out = <<pay>> \o (IF change > 0 THEN <<rest>> ELSE <<>>)
    BY DEF OutputNotes
  <1> HIDE DEF pay, rest, out
  <1>4. CASE change > 0
    <2>1. out = <<pay>> \o <<rest>>
      BY <1>3, <1>4, Zenon
    <2>2. out \in Seq(Note) /\ Len(out) = 2 /\ out[1] = pay /\ out[2] = rest /\ DOMAIN out = 1..2
      <3> DEFINE p == <<pay>>
                 q == <<rest>>
      <3>1. /\ p \in Seq(Note) /\ Len(p) = 1 /\ p[1] = pay
            /\ q \in Seq(Note) /\ Len(q) = 1 /\ q[1] = rest
        BY <1>1
      <3>2. out = p \o q
        BY <2>1
      <3> HIDE DEF p, q
      <3>3. /\ p \o q \in Seq(Note)
            /\ Len(p \o q) = Len(p) + Len(q)
            /\ \A i \in 1..(Len(p) + Len(q)) :
                  (p \o q)[i] = IF i <= Len(p) THEN p[i] ELSE q[i - Len(p)]
        BY <3>1, ConcatProperties
      <3>4. out \in Seq(Note) /\ Len(out) = 2 /\ out[1] = pay /\ out[2] = rest
        BY <3>1, <3>2, <3>3
      <3> QED
        BY <3>4
    <2>3. PICK s : IsSum(s, 2, out) /\ TotalAmount(out) = s[2]
      BY <2>2, StoreShape, TotalIsSum
    <2>4. s[0] = 0 /\ s[1] = s[0] + pay.amount /\ s[2] = s[1] + rest.amount
      BY <2>2, <2>3 DEF IsSum
    <2>5. TotalAmount(out) = amount + change
      BY <1>2, <2>3, <2>4
    <2>6. \A i \in 1..Len(out) : out[i] \in {pay, rest}
      BY <2>2
    <2>7. \A i \in 1..Len(out) : /\ out[i].id \in {<<"payment", t>>, <<"change", t>>}
                                /\ out[i].leafIndex = None /\ ~out[i].spent
      BY <1>2, <2>6, Zenon
    <2>8. Len(out) \in 1..2
      BY <2>2
    <2> QED
      BY <2>2, <2>5, <2>7, <2>8, Zenon DEF out
  <1>5. CASE ~ (change > 0)
    <2>1. out = <<pay>>
      BY <1>1, <1>3, <1>5
    <2>2. out \in Seq(Note) /\ Len(out) = 1 /\ out[1] = pay /\ DOMAIN out = 1..1
      BY <1>1, <2>1
    <2>3. PICK s : IsSum(s, 1, out) /\ TotalAmount(out) = s[1]
      BY <2>2, StoreShape, TotalIsSum
    <2>4. s[0] = 0 /\ s[1] = s[0] + pay.amount
      BY <2>2, <2>3 DEF IsSum
    <2>5. TotalAmount(out) = amount + change
      BY <1>2, <1>5, <2>3, <2>4
    <2>6. \A i \in 1..Len(out) : out[i] \in {pay}
      BY <2>2
    <2>7. \A i \in 1..Len(out) : /\ out[i].id \in {<<"payment", t>>, <<"change", t>>}
                                /\ out[i].leafIndex = None /\ ~out[i].spent
      BY <1>2, <2>6, Zenon
    <2>8. Len(out) \in 1..2
      BY <2>2
    <2> QED
      BY <2>2, <2>5, <2>7, <2>8, Zenon DEF out
  <1> QED
    BY <1>4, <1>5

\* SelectionFromStore: a selection that succeeds holds one to four different
\* spendable notes of the store, and they are worth the amount and the change.
LEMMA SelectionFromStore ==
    ASSUME NEW s \in Seq(Note), NEW amount \in Nat
    PROVE  LET sel == SelectNotesForTransfer(s, amount, MaxInputs) IN
           /\ sel.ok \in BOOLEAN
           /\ sel.ok => /\ sel.selected \in Seq(Note) /\ Len(sel.selected) \in 1..MaxInputs
                        /\ sel.change \in Nat
                        /\ TotalAmount(sel.selected) = amount + sel.change
                        /\ \E place \in Injection(1..Len(sel.selected), Spendable(s)) :
                              \A i \in 1..Len(sel.selected) : sel.selected[i] = s[place[i]]
  <1> DEFINE n == Len(s)
             kept == Spendable(s)
             m == Cardinality(kept)
             sorted == GetSpendableNotes(s, 0)
             place == Arrangement(s, kept)
             sel == SelectNotesForTransfer(s, amount, MaxInputs)
  <1>1. n \in Nat /\ DOMAIN s = 1..n /\ Amounts(s) /\ \A i \in 1..n : s[i] \in Note
    BY StoreShape
  <1>2. MaxInputs \in Nat /\ MaxInputs = 4
    BY DEF MaxInputs
  <1>3. /\ kept \in SUBSET (1..n) /\ m \in Nat /\ place \in Bijection(1..m, kept)
        /\ sorted = [k \in 1..m |-> s[place[k]]] /\ Amounts(sorted)
    BY <1>1, SortedSpendable
  <1>4. DOMAIN sorted = 1..m
    BY <1>3
  <1>5. PICK t : IsSum(t, m, sorted)
    BY <1>3, <1>4, TotalIsSum
  <1>6. /\ sel.ok \in BOOLEAN
        /\ sel.ok => \E k \in 1..m :
              /\ k <= MaxInputs /\ t[k] >= amount
              /\ sel.selected = [i \in 1..k |-> s[place[i]]]
              /\ TotalAmount(sel.selected) = t[k]
              /\ sel.change = t[k] - amount
    <2>1. sel.ok \in BOOLEAN /\ (sel.ok => \E k : IsShortest(sel, k, s, amount, MaxInputs, t))
      <3> HIDE DEF n
      <3> QED
        BY <1>1, <1>2, <1>5, SelectionSound
    <2>2. \A k : IsShortest(sel, k, s, amount, MaxInputs, t) =>
             /\ k \in 1..m /\ k <= MaxInputs /\ t[k] >= amount
             /\ sel.selected = [i \in 1..k |-> s[place[i]]]
             /\ TotalAmount(sel.selected) = t[k]
             /\ sel.change = t[k] - amount
      <3> HIDE DEF sel, n, sorted
      <3> QED
        BY DEF IsShortest, Reaches
    <2> HIDE DEF n, kept, m, sorted, place, sel
    <2> QED
      BY <2>1, <2>2, Zenon
  <1> HIDE DEF n, kept, m, sorted, place, sel
  <1>7. ASSUME sel.ok
        PROVE  /\ sel.selected \in Seq(Note) /\ Len(sel.selected) \in 1..MaxInputs
               /\ sel.change \in Nat
               /\ TotalAmount(sel.selected) = amount + sel.change
               /\ \E f \in Injection(1..Len(sel.selected), kept) :
                     \A i \in 1..Len(sel.selected) : sel.selected[i] = s[f[i]]
    <2>1. PICK k \in 1..m : /\ k <= MaxInputs /\ t[k] >= amount
                            /\ sel.selected = [i \in 1..k |-> s[place[i]]]
                            /\ TotalAmount(sel.selected) = t[k]
                            /\ sel.change = t[k] - amount
      BY <1>6, <1>7
    <2>2. t[k] \in Nat
      BY <1>3, <1>5, <2>1 DEF IsSum
    <2>3. sel.change \in Nat /\ TotalAmount(sel.selected) = amount + sel.change
      BY <2>1, <2>2
    <2>4. \A i \in 1..m : place[i] \in kept /\ place[i] \in 1..n
      BY <1>3 DEF Bijection, Injection
    <2>5. k \in Nat /\ k \in 1..MaxInputs /\ 1..k \subseteq 1..m
      BY <1>2, <1>3, <2>1
    <2>6. \A i \in 1..k : s[place[i]] \in Note
      BY <1>1, <2>4, <2>5
    <2>7. sel.selected \in Seq(Note) /\ Len(sel.selected) = k
      BY <2>1, <2>5, <2>6
    <2> DEFINE f == [i \in 1..k |-> place[i]]
    <2>8. f \in Injection(1..k, kept)
      <3>1. \A i, j \in 1..m : place[i] = place[j] => i = j
        BY <1>3 DEF Bijection, Injection, IsInjective
      <3>2. f \in [1..k -> kept]
        BY <2>4, <2>5
      <3>3. \A i, j \in 1..k : f[i] = f[j] => i = j
        BY <2>5, <3>1
      <3> HIDE DEF f
      <3> QED
        BY <3>2, <3>3 DEF Injection, IsInjective
    <2>9. \A i \in 1..k : sel.selected[i] = s[f[i]]
      BY <2>1
    <2> HIDE DEF f
    <2> QED
      BY <2>3, <2>5, <2>7, <2>8, <2>9
  <1> QED
    BY <1>6, <1>7 DEF sel, kept

(***************************************************************************)
(* Type correctness.                                                       *)
(***************************************************************************)
\* RetractionsBound: the environments say how many retractions there may be.
LEMMA RetractionsBound == \A e \in Environments : e.retractions \in Nat
  <1>1. Environments \subseteq [retractions : Nat, deposits : BOOLEAN,
                               restart : BOOLEAN, restore : BOOLEAN, refuse : BOOLEAN]
    BY WalletAssumption
  <1>2. \A e \in [retractions : Nat, deposits : BOOLEAN, restart : BOOLEAN,
                 restore : BOOLEAN, refuse : BOOLEAN] : e.retractions \in Nat
    OBVIOUS
  <1> QED
    BY <1>1, <1>2, Zenon

\* InitTypeOK: the initial stores and inboxes are empty.
LEMMA InitTypeOK == Init => TypeOK
  <1> SUFFICES ASSUME Init PROVE TypeOK
    OBVIOUS
  <1>2. env \in Environments /\ env.retractions \in Nat
    BY RetractionsBound DEF Init
  <1>3. retracted \in 0..env.retractions
    BY <1>2 DEF Init
  <1>4. \A S : <<>> \in Seq(S)
    BY EmptySeq
  <1>5. /\ notes \in Seq(Note) /\ backup = None
        /\ inputs \in [Transfers -> Seq(Note)]
        /\ outputs \in [Transfers -> Seq(Note)]
        /\ inbox \in [Transfers -> Seq({"InBlock", "DispatchError"})]
        /\ ledger \in Seq([tx : Transfers, ok : BOOLEAN])
    BY <1>4 DEF Init
  <1>6. /\ pc \in [Transfers -> Pending \cup {"idle", "done", "failed", "lost"}]
        /\ deposit \in [Deposits -> {"idle", "submitted", "done", "failed", "lost"}]
        /\ listening \subseteq Transfers /\ pool \subseteq Transfers /\ unsaved \subseteq Transfers
    BY DEF Init, Pending
  <1> QED
    BY <1>2, <1>3, <1>5, <1>6, Zenon DEF TypeOK

\* BeginKeepsType: a transfer starts with notes of the store and makes notes.
LEMMA BeginKeepsType ==
    ASSUME TypeOK, NEW t \in Transfers, NEW amount \in TransferAmounts, BeginTransfer(t, amount)
    PROVE  TypeOK'
  <1> DEFINE sel == SelectNotesForTransfer(notes, amount, MaxInputs)
  <1>1. amount \in Nat
    BY WalletAssumption
  <1>2. sel.ok \in BOOLEAN
        /\ (sel.ok => sel.selected \in Seq(Note) /\ sel.change \in Nat)
    BY <1>1, SelectionFromStore DEF TypeOK
  <1>3. sel.ok => OutputNotes(t, amount, sel.change) \in Seq(Note)
    <2> HIDE DEF sel
    <2> QED
      BY <1>1, <1>2, OutputNotesShape
  <1>4. /\ IF sel.ok
           THEN /\ pc' = [pc EXCEPT ![t] = "fetching"]
                /\ inputs' = [inputs EXCEPT ![t] = sel.selected]
                /\ outputs' = [outputs EXCEPT ![t] = OutputNotes(t, amount, sel.change)]
           ELSE pc' = [pc EXCEPT ![t] = "failed"] /\ inputs' = inputs /\ outputs' = outputs
        /\ env' = env /\ notes' = notes /\ backup' = backup /\ deposit' = deposit
        /\ listening' = listening /\ inbox' = inbox /\ pool' = pool /\ ledger' = ledger
        /\ retracted' = retracted /\ unsaved' = unsaved
    BY DEF BeginTransfer, chainVars
  <1> HIDE DEF sel
  <1>5. CASE sel.ok
    BY <1>2, <1>3, <1>4, <1>5 DEF TypeOK, Pending
  <1>6. CASE ~sel.ok
    BY <1>4, <1>6 DEF TypeOK, Pending
  <1> QED
    BY <1>5, <1>6

\* DeliverKeepsType: the callback of a transfer leaves a store of notes.
LEMMA DeliverKeepsType ==
    ASSUME TypeOK, NEW t \in Transfers, Deliver(t)
    PROVE  TypeOK'
  <1>1. /\ inbox[t] # <<>> /\ inbox' = [inbox EXCEPT ![t] = Tail(@)]
        /\ env' = env /\ backup' = backup /\ inputs' = inputs /\ outputs' = outputs
        /\ deposit' = deposit /\ listening' = listening /\ pool' = pool /\ ledger' = ledger
        /\ retracted' = retracted /\ unsaved' \in {unsaved, unsaved \ {t}, unsaved \cup {t}}
    BY DEF Deliver, OnDispatchError, OnInBlock, OnInBlockRefused
  <1>2. pc' = pc \/ \E to \in {"failed", "done"} : Settle(t, to)
    BY DEF Deliver, OnDispatchError, OnInBlock, OnInBlockRefused
  <1>3. pc' \in [Transfers -> Pending \cup {"idle", "done", "failed", "lost"}]
    BY <1>2 DEF TypeOK, Settle, Pending
  <1>4. Tail(inbox[t]) \in Seq({"InBlock", "DispatchError"})
    BY <1>1, HeadTailProperties DEF TypeOK
  <1>5. inbox' \in [Transfers -> Seq({"InBlock", "DispatchError"})]
    BY <1>1, <1>4 DEF TypeOK
  <1>6. notes' \in Seq(Note)
    <2> DEFINE marks == MarkNotesSpent(notes, Ids(inputs[t]))
    <2>1. notes \in Seq(Note) /\ outputs[t] \in Seq(Note)
      BY DEF TypeOK
    <2>2. marks \in Seq(Note)
      BY <2>1, MarkingKeepsShape
    <2>3. notes' \in {notes, marks, AddReceivedNotes(marks, outputs[t])}
      BY DEF Deliver, OnDispatchError, OnInBlock, OnInBlockRefused
    <2> HIDE DEF marks
    <2>4. AddReceivedNotes(marks, outputs[t]) \in Seq(Note)
      BY <2>1, <2>2, AddingKeepsShape
    <2> QED
      BY <2>1, <2>2, <2>3, <2>4
  <1> QED
    BY <1>1, <1>3, <1>5, <1>6 DEF TypeOK

\* ChainKeepsType: a block that is included or retracted.
LEMMA ChainKeepsType ==
    ASSUME TypeOK,
           \/ \E t \in Transfers : Include(t)
           \/ \E n \in DOMAIN ledger : Retract(n)
    PROVE  TypeOK'
  <1> DEFINE Tx == [tx : Transfers, ok : BOOLEAN]
  <1>1. ASSUME NEW t \in Transfers, Include(t) PROVE TypeOK'
    <2> DEFINE ok == Ids(inputs[t]) \cap Revealed = {}
    <2>1. ledger' \in Seq(Tx)
      <3>1. [tx |-> t, ok |-> ok] \in Tx
        OBVIOUS
      <3>2. ledger' = Append(ledger, [tx |-> t, ok |-> ok]) /\ ledger \in Seq(Tx)
        BY <1>1 DEF Include, TypeOK
      <3> HIDE DEF ok, Tx
      <3> QED
        BY <3>1, <3>2, AppendProperties
    <2>2. inbox' \in [Transfers -> Seq({"InBlock", "DispatchError"})]
      <3> DEFINE msg == IF ok THEN "InBlock" ELSE "DispatchError"
      <3>1. msg \in {"InBlock", "DispatchError"}
        OBVIOUS
      <3>2. inbox' = inbox \/ inbox' = [inbox EXCEPT ![t] = Append(@, msg)]
        BY <1>1 DEF Include
      <3> HIDE DEF msg
      <3>3. Append(inbox[t], msg) \in Seq({"InBlock", "DispatchError"})
        BY <3>1 DEF TypeOK
      <3> QED
        BY <3>2, <3>3 DEF TypeOK
    <2>3. /\ pool' = pool \ {t} /\ listening' = listening /\ retracted' = retracted
          /\ env' = env /\ notes' = notes /\ backup' = backup /\ pc' = pc
          /\ inputs' = inputs /\ outputs' = outputs /\ deposit' = deposit
          /\ unsaved' = unsaved
      BY <1>1 DEF Include, clientVars
    <2> QED
      BY <2>1, <2>2, <2>3 DEF TypeOK
  <1>2. ASSUME NEW n \in DOMAIN ledger, Retract(n) PROVE TypeOK'
    <2>1. ledger \in Seq(Tx) /\ n \in 1..Len(ledger) /\ Len(ledger) \in Nat
      BY DEF TypeOK
    <2>2. \A i \in 1..Len(ledger) : ledger[i] \in Tx /\ ledger[i].tx \in Transfers
      <3>1. \A x \in Tx : x.tx \in Transfers
        OBVIOUS
      <3>2. \A i \in 1..Len(ledger) : ledger[i] \in Tx
        <4> HIDE DEF Tx
        <4> QED
          BY <2>1, ElementOfSeq
      <3> QED
        BY <3>1, <3>2, Zenon
    <2>3. ledger' = SubSeq(ledger, 1, n - 1) /\ ledger' \in Seq(Tx)
      <3>1. \A i \in 1..(n - 1) : ledger[i] \in Tx
        BY <2>1, <2>2
      <3>2. SubSeq(ledger, 1, n - 1) \in Seq(Tx)
        <4> HIDE DEF Tx
        <4> QED
          BY <2>1, <3>1, SubSeqProperties
      <3> QED
        BY <1>2, <3>2 DEF Retract
    <2>4. pool' \subseteq Transfers
      <3>1. pool' = pool \cup {ledger[i].tx : i \in n..Len(ledger)}
        BY <1>2 DEF Retract
      <3>2. \A i \in n..Len(ledger) : i \in 1..Len(ledger)
        BY <2>1
      <3> QED
        BY <2>2, <3>1, <3>2, Zenon DEF TypeOK
    <2>5. retracted' \in 0..env.retractions
      <3>1. env.retractions \in Nat
        BY RetractionsBound DEF TypeOK
      <3> QED
        BY <1>2, <3>1 DEF Retract, TypeOK
    <2>6. /\ listening' = listening /\ inbox' = inbox
          /\ env' = env /\ notes' = notes /\ backup' = backup /\ pc' = pc
          /\ inputs' = inputs /\ outputs' = outputs /\ deposit' = deposit
          /\ unsaved' = unsaved
      BY <1>2 DEF Retract, clientVars
    <2> QED
      BY <2>3, <2>4, <2>5, <2>6 DEF TypeOK
  <1> QED
    BY <1>1, <1>2

\* NextTypeOK: every step keeps the types.
LEMMA NextTypeOK == TypeOK /\ [Next]_vars => TypeOK'
  <1> SUFFICES ASSUME TypeOK, [Next]_vars PROVE TypeOK'
    OBVIOUS
  <1>1. ASSUME NEW r \in Received, Receive(r) PROVE TypeOK'
    <2>1. ReceivedNote(r) \in Note
      BY WalletAssumption DEF ReceivedNote, CreateNote, Note
    <2>2. <<ReceivedNote(r)>> \in Seq(Note) /\ notes \in Seq(Note)
      BY <2>1 DEF TypeOK
    <2>3. notes' \in Seq(Note)
      BY <1>1, <2>2, AddingKeepsShape DEF Receive
    <2> QED
      BY <1>1, <2>3 DEF Receive, TypeOK, chainVars
  <1>2. ASSUME NEW t \in Transfers, NEW amount \in TransferAmounts, BeginTransfer(t, amount)
        PROVE  TypeOK'
    BY <1>2, BeginKeepsType
  <1>3. ASSUME NEW t \in Transfers, Advance(t) PROVE TypeOK'
    <2>1. \E to \in {"proving", "verifying", "submitted", "failed"} : pc' = [pc EXCEPT ![t] = to]
      BY <1>3 DEF Advance, Prepare, Proved, Submit, Continue
    <2>2. pc' \in [Transfers -> Pending \cup {"idle", "done", "failed", "lost"}]
      BY <2>1 DEF TypeOK, Pending
    <2>3. /\ listening' \in {listening, listening \cup {t}} /\ pool' \in {pool, pool \cup {t}}
          /\ env' = env /\ notes' = notes /\ backup' = backup /\ inputs' = inputs
          /\ outputs' = outputs /\ deposit' = deposit /\ inbox' = inbox /\ ledger' = ledger
          /\ retracted' = retracted /\ unsaved' = unsaved
      BY <1>3 DEF Advance, Prepare, Proved, Submit, Continue, chainVars
    <2> QED
      BY <2>2, <2>3 DEF TypeOK
  <1>4. ASSUME NEW t \in Transfers, Deliver(t) PROVE TypeOK'
    BY <1>4, DeliverKeepsType
  <1>5. ASSUME NEW t \in Transfers, Include(t) PROVE TypeOK'
    BY <1>5, ChainKeepsType
  <1>6. ASSUME NEW n \in DOMAIN ledger, Retract(n) PROVE TypeOK'
    BY <1>6, ChainKeepsType
  <1>7. ASSUME NEW d \in Deposits, SubmitDeposit(d) \/ OnDepositInBlock(d) \/ OnDepositError(d)
        PROVE  TypeOK'
    <2>1. notes' \in {notes, UpdateNoteLeafIndex(notes, <<"deposit", d>>, 0)}
      BY <1>7 DEF SubmitDeposit, OnDepositInBlock, OnDepositError
    <2>2. notes' \in Seq(Note)
      BY <2>1, PlacingKeepsShape DEF TypeOK
    <2>3. \E to \in {"submitted", "done", "failed"} : deposit' = [deposit EXCEPT ![d] = to]
      BY <1>7 DEF SubmitDeposit, OnDepositInBlock, OnDepositError
    <2>4. deposit' \in [Deposits -> {"idle", "submitted", "done", "failed", "lost"}]
      BY <2>3 DEF TypeOK
    <2>5. /\ env' = env /\ backup' = backup /\ pc' = pc /\ inputs' = inputs /\ outputs' = outputs
          /\ listening' = listening /\ inbox' = inbox /\ pool' = pool /\ ledger' = ledger
          /\ retracted' = retracted /\ unsaved' = unsaved
      BY <1>7 DEF SubmitDeposit, OnDepositInBlock, OnDepositError, chainVars
    <2> QED
      BY <2>2, <2>4, <2>5 DEF TypeOK
  <1>8. ASSUME ExportNotes \/ ImportNotes \/ ClearAllNotes PROVE TypeOK'
    <2>1. notes' \in Seq(Note) /\ (backup' = None \/ backup' \in Seq(Note))
      <3>1. notes' \in {notes, backup, <<>>} /\ backup' \in {notes, backup}
            /\ (notes' = backup => backup # None \/ notes' \in {notes, <<>>})
        BY <1>8 DEF ExportNotes, ImportNotes, ClearAllNotes
      <3>2. <<>> \in Seq(Note)
        BY EmptySeq
      <3> QED
        BY <3>1, <3>2, Zenon DEF TypeOK
    <2>2. /\ env' = env /\ pc' = pc /\ inputs' = inputs /\ outputs' = outputs /\ deposit' = deposit
          /\ listening' = listening /\ inbox' = inbox /\ pool' = pool /\ ledger' = ledger
          /\ retracted' = retracted /\ unsaved' = unsaved
      BY <1>8 DEF ExportNotes, ImportNotes, ClearAllNotes, chainVars
    <2> QED
      BY <2>1, <2>2 DEF TypeOK
  <1>9. ASSUME Restart PROVE TypeOK'
    <2>1. pc' \in [Transfers -> Pending \cup {"idle", "done", "failed", "lost"}]
      BY <1>9 DEF Restart, TypeOK
    <2>2. deposit' \in [Deposits -> {"idle", "submitted", "done", "failed", "lost"}]
      BY <1>9 DEF Restart, TypeOK
    <2> QED
      BY <1>9, <2>1, <2>2 DEF Restart, TypeOK
  <1>10. ASSUME UNCHANGED vars PROVE TypeOK'
    BY <1>10 DEF vars, clientVars, chainVars, TypeOK
  <1> QED
    BY <1>1, <1>2, <1>3, <1>4, <1>5, <1>6, <1>7, <1>8, <1>9, <1>10 DEF Next

\* TypeCorrect: the store, the exports and the notes that transfers hold are always
\* sequences of well-formed notes with amounts that are no less than zero (so the
\* change of selectNotesForTransfer never is).
THEOREM TypeCorrect == Spec => []TypeOK
  BY InitTypeOK, NextTypeOK, PTL DEF Spec

(***************************************************************************)
(* What a step may do to the store.                                        *)
(***************************************************************************)
Marks(t) == MarkNotesSpent(notes, Ids(inputs[t]))

\* The callback of t takes InBlock from its inbox and gets as far as its writes do.
Applies(t) ==
    /\ inbox[t] # <<>> /\ Head(inbox[t]) = "InBlock"
    /\ notes' \in {notes, Marks(t), AddReceivedNotes(Marks(t), outputs[t])}

\* NoDepositInStore: no note of the store has the commitment of a deposit, so
\* updateNoteLeafIndex leaves it as it is.
LEMMA NoDepositInStore ==
    ASSUME NEW s \in Seq(Note), NEW d
    PROVE  UpdateNoteLeafIndex(s, <<"deposit", d>>, 0) = s
  <1> DEFINE m == UpdateNoteLeafIndex(s, <<"deposit", d>>, 0)
  <1>1. Len(s) \in Nat /\ DOMAIN s = 1..Len(s) /\ \A i \in DOMAIN s : s[i] \in Note
    BY StoreShape
  <1>2. \A x \in Note : x.id # <<"deposit", d>>
    BY DEF Note
  <1>3. m \in Seq(Note) /\ DOMAIN m = DOMAIN s /\ \A i \in DOMAIN s : m[i] = s[i]
    BY <1>1, <1>2, PlacingKeepsShape
  <1> HIDE DEF m
  <1>4. Len(m) = Len(s)
    BY <1>1, <1>3
  <1>5. m = s
    BY <1>1, <1>3, <1>4, SeqEqual
  <1> QED
    BY <1>5 DEF m

\* StoreStep: the store changes when a note is received, when a callback applies a
\* transfer, and when the user imports or clears.
LEMMA StoreStep ==
    ASSUME TypeOK, [Next]_vars
    PROVE  \/ notes' = notes
           \/ \E r \in Received : Receive(r)
           \/ \E t \in Transfers : Applies(t) /\ inputs' = inputs /\ outputs' = outputs
           \/ ImportNotes \/ ClearAllNotes
  <1>1. ASSUME NEW t \in Transfers, NEW amount \in TransferAmounts, BeginTransfer(t, amount)
        PROVE  notes' = notes
    BY <1>1 DEF BeginTransfer
  <1>2. ASSUME NEW t \in Transfers, Advance(t) \/ Include(t) PROVE notes' = notes
    BY <1>2 DEF Advance, Prepare, Proved, Submit, Continue, Include, clientVars
  <1>3. ASSUME NEW t \in Transfers, Deliver(t)
        PROVE  notes' = notes \/ (Applies(t) /\ inputs' = inputs /\ outputs' = outputs)
    <2>1. CASE OnDispatchError(t)
      BY <2>1 DEF OnDispatchError
    <2>2. CASE OnInBlock(t)
      BY <2>2 DEF OnInBlock, Applies, Marks
    <2>3. CASE \E marked \in BOOLEAN : OnInBlockRefused(t, marked)
      BY <2>3 DEF OnInBlockRefused, Applies, Marks
    <2> QED
      BY <1>3, <2>1, <2>2, <2>3 DEF Deliver
  <1>4. ASSUME NEW n \in DOMAIN ledger, Retract(n) PROVE notes' = notes
    BY <1>4 DEF Retract, clientVars
  <1>5. ASSUME NEW d \in Deposits, SubmitDeposit(d) \/ OnDepositInBlock(d) \/ OnDepositError(d)
        PROVE  notes' = notes
    <2>1. UpdateNoteLeafIndex(notes, <<"deposit", d>>, 0) = notes
      BY NoDepositInStore DEF TypeOK
    <2> QED
      BY <1>5, <2>1 DEF SubmitDeposit, OnDepositInBlock, OnDepositError
  <1>6. ASSUME ExportNotes \/ Restart PROVE notes' = notes
    BY <1>6 DEF ExportNotes, Restart
  <1>7. ASSUME UNCHANGED vars PROVE notes' = notes
    BY <1>7 DEF vars, clientVars
  <1> QED
    BY <1>1, <1>2, <1>3, <1>4, <1>5, <1>6, <1>7 DEF Next

\* Grown(old, new): new begins with the notes of old, and what was spent still is.
Grown(old, new) ==
    \A i \in DOMAIN old : /\ i \in DOMAIN new
                          /\ new[i].id = old[i].id
                          /\ old[i].spent => new[i].spent

\* AddingGrows: addReceivedNotes keeps what is stored.
LEMMA AddingGrows ==
    ASSUME NEW s \in Seq(Note), NEW new \in Seq(Note)
    PROVE  Grown(s, AddReceivedNotes(s, new))
  <1> DEFINE a == AddReceivedNotes(s, new)
  <1>1. /\ a \in Seq(Note) /\ Len(a) = Len(s) + Len(new)
        /\ \A i \in 1..(Len(s) + Len(new)) : a[i] = IF i <= Len(s) THEN s[i] ELSE new[i - Len(s)]
    BY AddingKeepsShape
  <1> HIDE DEF a
  <1>2. Len(s) \in Nat /\ Len(new) \in Nat /\ DOMAIN a = 1..(Len(s) + Len(new)) /\ DOMAIN s = 1..Len(s)
    BY <1>1
  <1>3. \A i \in DOMAIN s : i \in DOMAIN a /\ a[i] = s[i]
    BY <1>1, <1>2
  <1> QED
    BY <1>3, Zenon DEF Grown, a

\* MarkingGrows: markNotesSpent never makes a spent note unspent.
LEMMA MarkingGrows ==
    ASSUME NEW s \in Seq(Note), NEW ids
    PROVE  Grown(s, MarkNotesSpent(s, ids))
  BY MarkingKeepsShape, Zenon DEF Grown

\* GrownIsTransitive: two writes, one after the other.
LEMMA GrownIsTransitive ==
    ASSUME NEW a, NEW b, NEW c, Grown(a, b), Grown(b, c)
    PROVE  Grown(a, c)
  BY Zenon DEF Grown

\* StepGrows: a step that is no import and no clear keeps the notes of the store.
LEMMA StepGrows ==
    ASSUME TypeOK, [Next]_vars, ~ (ImportNotes \/ ClearAllNotes)
    PROVE  Grown(notes, notes')
  <1>0. notes \in Seq(Note)
    BY DEF TypeOK
  <1>1. CASE notes' = notes
    BY <1>1 DEF Grown
  <1>2. ASSUME NEW r \in Received, Receive(r) PROVE Grown(notes, notes')
    <2>1. ReceivedNote(r) \in Note
      BY WalletAssumption DEF ReceivedNote, CreateNote, Note
    <2>2. <<ReceivedNote(r)>> \in Seq(Note)
      BY <2>1
    <2> QED
      BY <1>0, <1>2, <2>2, AddingGrows DEF Receive
  <1>3. ASSUME NEW t \in Transfers, Applies(t) PROVE Grown(notes, notes')
    <2>1. Marks(t) \in Seq(Note) /\ Grown(notes, Marks(t)) /\ outputs[t] \in Seq(Note)
      BY <1>0, MarkingKeepsShape, MarkingGrows DEF Marks, TypeOK
    <2>2. Grown(Marks(t), AddReceivedNotes(Marks(t), outputs[t]))
      BY <2>1, AddingGrows
    <2>3. Grown(notes, AddReceivedNotes(Marks(t), outputs[t]))
      BY <2>1, <2>2, GrownIsTransitive
    <2>4. Grown(notes, notes)
      BY DEF Grown
    <2>5. notes' \in {notes, Marks(t), AddReceivedNotes(Marks(t), outputs[t])}
      BY <1>3 DEF Applies
    <2> QED
      BY <2>1, <2>3, <2>4, <2>5
  <1> QED
    BY <1>1, <1>2, <1>3, StoreStep

\* StoreNeverShrinks: whatever transfers, callbacks, failures and restarts do in
\* whatever order, a note stays in its place and a spent note stays spent, until
\* the user imports or clears.
THEOREM StoreNeverShrinks == Spec => StoreOnlyGrows
  <1>1. TypeOK /\ [Next]_vars =>
           [~(ImportNotes \/ ClearAllNotes) => \A i \in DOMAIN notes :
               /\ i \in DOMAIN notes'
               /\ notes'[i].id = notes[i].id
               /\ notes[i].spent => notes'[i].spent]_vars
    BY StepGrows DEF Grown
  <1> QED
    BY <1>1, TypeCorrect, PTL DEF Spec, StoreOnlyGrows

(***************************************************************************)
(* Where the inputs of a transfer come from.  The store also holds notes   *)
(* that are somebody else's and notes the chain has not placed, some of    *)
(* them twice, but a note with a leaf index was received, and is there     *)
(* once; so is it in an export.                                            *)
(***************************************************************************)
FromChain == {<<"received", r>> : r \in Received}

Genuine(s) ==
    /\ \A i \in DOMAIN s : s[i].leafIndex # None => s[i].id \in FromChain
    /\ \A i, j \in DOMAIN s : s[i].id \in FromChain /\ s[i].id = s[j].id => i = j

OutputsFresh ==
    \A t \in Transfers : \A i \in DOMAIN outputs[t] :
        /\ outputs[t][i].id \in {<<"payment", t>>, <<"change", t>>}
        /\ outputs[t][i].leafIndex = None
        /\ ~outputs[t][i].spent

StoreInv ==
    /\ Genuine(notes)
    /\ backup # None => Genuine(backup)
    /\ OutputsFresh
    /\ InputsAreReceived
    /\ SelectionPassesAdapter

\* MarkingKeepsGenuine: marking changes neither commitments nor leaf indices.
LEMMA MarkingKeepsGenuine ==
    ASSUME NEW s \in Seq(Note), NEW ids, Genuine(s)
    PROVE  Genuine(MarkNotesSpent(s, ids))
  <1> DEFINE m == MarkNotesSpent(s, ids)
  <1>1. DOMAIN m = DOMAIN s
    BY MarkingKeepsShape
  <1>2. \A i \in DOMAIN s : m[i].id = s[i].id /\ m[i].leafIndex = s[i].leafIndex
    BY MarkingKeepsShape
  <1> HIDE DEF m
  <1>3. Genuine(m)
    BY <1>1, <1>2, Zenon DEF Genuine
  <1> QED
    BY <1>3 DEF m

\* NotFromChain: a payment or a change has no commitment of a received note.
LEMMA NotFromChain ==
    ASSUME NEW t
    PROVE  <<"payment", t>> \notin FromChain /\ <<"change", t>> \notin FromChain
  BY DEF FromChain

\* AddingKeepsGenuine: outputs may be added, also again.
LEMMA AddingKeepsGenuine ==
    ASSUME NEW s \in Seq(Note), NEW new \in Seq(Note), Genuine(s),
           \A i \in DOMAIN new : new[i].id \notin FromChain /\ new[i].leafIndex = None
    PROVE  Genuine(AddReceivedNotes(s, new))
  <1> DEFINE a == AddReceivedNotes(s, new)
  <1>1. /\ a \in Seq(Note) /\ Len(a) = Len(s) + Len(new)
        /\ \A i \in 1..(Len(s) + Len(new)) : a[i] = IF i <= Len(s) THEN s[i] ELSE new[i - Len(s)]
    BY AddingKeepsShape
  <1> HIDE DEF a
  <1>2. Len(s) \in Nat /\ Len(new) \in Nat /\ DOMAIN a = 1..(Len(s) + Len(new))
        /\ DOMAIN s = 1..Len(s) /\ DOMAIN new = 1..Len(new)
    BY <1>1
  <1>3. \A i \in DOMAIN a : \/ i \in DOMAIN s /\ a[i] = s[i]
                            \/ a[i].id \notin FromChain /\ a[i].leafIndex = None
    <2>1. \A i \in DOMAIN a : i <= Len(s) => i \in DOMAIN s /\ a[i] = s[i]
      BY <1>1, <1>2
    <2>2. \A i \in DOMAIN a : ~ (i <= Len(s)) => i - Len(s) \in DOMAIN new /\ a[i] = new[i - Len(s)]
      BY <1>1, <1>2
    <2> QED
      BY <2>1, <2>2
  <1>4. Genuine(a)
    BY <1>3, Zenon DEF Genuine
  <1> QED
    BY <1>4 DEF a

\* ReceivingKeepsGenuine: a received note is stored when it is not there yet.
LEMMA ReceivingKeepsGenuine ==
    ASSUME TypeOK, Genuine(notes), NEW r \in Received, Receive(r)
    PROVE  Genuine(notes')
  <1> DEFINE s == notes
             new == <<ReceivedNote(r)>>
             n == Len(notes)
  <1>1. ReceivedNote(r) \in Note /\ ReceivedNote(r).id = <<"received", r>>
    BY WalletAssumption DEF ReceivedNote, CreateNote, Note
  <1>2. new \in Seq(Note) /\ Len(new) = 1 /\ new[1] = ReceivedNote(r)
    BY <1>1
  <1>3. notes \in Seq(Note) /\ n \in Nat /\ DOMAIN notes = 1..n
    BY StoreShape DEF TypeOK
  <1>4. notes' = AddReceivedNotes(notes, new)
    BY DEF Receive
  <1> HIDE DEF new
  <1>5. /\ notes' \in Seq(Note) /\ Len(notes') = n + Len(new)
        /\ \A i \in 1..(n + Len(new)) :
              notes'[i] = IF i <= n THEN notes[i] ELSE new[i - n]
    BY <1>2, <1>3, <1>4, AddingKeepsShape
  <1> HIDE DEF n
  <1>6. DOMAIN notes' = 1..(n + 1)
    BY <1>2, <1>5
  <1>7. \A i \in DOMAIN notes' : \/ i \in DOMAIN notes /\ notes'[i] = notes[i]
                                 \/ i = n + 1 /\ notes'[i].id = <<"received", r>>
    <2>1. \A i \in 1..n : i \in DOMAIN notes /\ notes'[i] = notes[i]
      BY <1>2, <1>3, <1>5
    <2>2. notes'[n + 1] = new[1]
      BY <1>2, <1>3, <1>5
    <2>3. \A i \in DOMAIN notes' : i \in 1..n \/ i = n + 1
      BY <1>3, <1>6
    <2> QED
      BY <1>1, <1>2, <2>1, <2>2, <2>3, Zenon
  <1>8. \A i \in DOMAIN notes : notes[i].id # <<"received", r>>
    BY DEF Receive, Ids
  <1>9. <<"received", r>> \in FromChain
    BY DEF FromChain
  <1> QED
    BY <1>7, <1>8, <1>9, Zenon DEF Genuine

\* SelectionIsGenuine: the selected notes are received ones, and different.
LEMMA SelectionIsGenuine ==
    ASSUME NEW s \in Seq(Note), Genuine(s), NEW amount \in Nat,
           SelectNotesForTransfer(s, amount, MaxInputs).ok
    PROVE  LET selected == SelectNotesForTransfer(s, amount, MaxInputs).selected IN
           /\ Ids(selected) \subseteq FromChain
           /\ \A i, j \in DOMAIN selected : selected[i].id = selected[j].id => i = j
  <1> DEFINE sel == SelectNotesForTransfer(s, amount, MaxInputs)
             k == Len(sel.selected)
  <1>1. sel.selected \in Seq(Note)
    BY SelectionFromStore
  <1>2. DOMAIN sel.selected = 1..k
    BY <1>1
  <1>3. PICK place \in Injection(1..k, Spendable(s)) : \A i \in 1..k : sel.selected[i] = s[place[i]]
    BY SelectionFromStore
  <1> HIDE DEF sel, k
  <1>4. \A i \in 1..k : place[i] \in Spendable(s)
    BY <1>3 DEF Injection
  <1>5. \A i, j \in 1..k : place[i] = place[j] => i = j
    BY <1>3 DEF Injection, IsInjective
  <1>6. \A p \in Spendable(s) : p \in DOMAIN s /\ s[p].id \in FromChain
    BY DEF Spendable, IsSpendable, Genuine
  <1>7. \A i \in 1..k : sel.selected[i].id \in FromChain
    BY <1>3, <1>4, <1>6
  <1>8. ASSUME NEW i \in 1..k, NEW j \in 1..k, sel.selected[i].id = sel.selected[j].id
        PROVE  i = j
    <2>1. s[place[i]].id = s[place[j]].id
      BY <1>3, <1>8
    <2>2. place[i] = place[j]
      BY <1>4, <1>6, <2>1 DEF Genuine
    <2> QED
      BY <1>5, <2>2
  <1> QED
    BY <1>2, <1>7, <1>8 DEF Ids, sel

\* CallsStep: the notes a transfer holds are chosen when it begins.
LEMMA CallsStep ==
    ASSUME TypeOK, [Next]_vars
    PROVE  \/ /\ inputs' = inputs /\ outputs' = outputs
              /\ \A t \in Transfers : pc'[t] = "fetching" => pc[t] = "fetching"
           \/ \E t \in Transfers, amount \in TransferAmounts : BeginTransfer(t, amount)
  <1> DEFINE Kept == /\ inputs' = inputs /\ outputs' = outputs
                     /\ \A t \in Transfers : pc'[t] = "fetching" => pc[t] = "fetching"
  <1>0. pc \in [Transfers -> Pending \cup {"idle", "done", "failed", "lost"}]
    BY DEF TypeOK
  <1>1. ASSUME NEW r \in Received, Receive(r) PROVE Kept
    BY <1>1 DEF Receive
  <1>2. ASSUME NEW t \in Transfers, Advance(t) PROVE Kept
    <2>1. inputs' = inputs /\ outputs' = outputs
      BY <1>2 DEF Advance, Prepare, Proved, Submit, Continue
    <2>2. \E to \in {"proving", "verifying", "submitted", "failed"} : pc' = [pc EXCEPT ![t] = to]
      BY <1>2 DEF Advance, Prepare, Proved, Submit, Continue
    <2> QED
      BY <1>0, <2>1, <2>2
  <1>3. ASSUME NEW t \in Transfers, Deliver(t) PROVE Kept
    <2>1. inputs' = inputs /\ outputs' = outputs
      BY <1>3 DEF Deliver, OnDispatchError, OnInBlock, OnInBlockRefused
    <2>2. pc' = pc \/ \E to \in {"failed", "done"} : Settle(t, to)
      BY <1>3 DEF Deliver, OnDispatchError, OnInBlock, OnInBlockRefused
    <2> QED
      BY <1>0, <2>1, <2>2 DEF Settle
  <1>4. ASSUME NEW t \in Transfers, Include(t) PROVE Kept
    BY <1>4 DEF Include, clientVars
  <1>5. ASSUME NEW n \in DOMAIN ledger, Retract(n) PROVE Kept
    BY <1>5 DEF Retract, clientVars
  <1>6. ASSUME NEW d \in Deposits, SubmitDeposit(d) \/ OnDepositInBlock(d) \/ OnDepositError(d)
        PROVE  Kept
    BY <1>6 DEF SubmitDeposit, OnDepositInBlock, OnDepositError
  <1>7. ASSUME ExportNotes \/ ImportNotes \/ ClearAllNotes PROVE Kept
    BY <1>7 DEF ExportNotes, ImportNotes, ClearAllNotes
  <1>8. ASSUME Restart PROVE Kept
    BY <1>0, <1>8 DEF Restart
  <1>9. ASSUME UNCHANGED vars PROVE Kept
    BY <1>9 DEF vars, clientVars
  <1> HIDE DEF Kept
  <1>10. Kept \/ \E t \in Transfers, amount \in TransferAmounts : BeginTransfer(t, amount)
    BY <1>1, <1>2, <1>3, <1>4, <1>5, <1>6, <1>7, <1>8, <1>9, Zenon DEF Next
  <1> QED
    BY <1>10, Zenon DEF Kept

\* BackupStep: an export is a copy of the store.
LEMMA BackupStep ==
    ASSUME [Next]_vars
    PROVE  backup' \in {notes, backup}
  <1>1. ASSUME NEW t \in Transfers, Advance(t) \/ Include(t) PROVE backup' = backup
    BY <1>1 DEF Advance, Prepare, Proved, Submit, Continue, Include, clientVars
  <1>2. ASSUME NEW t \in Transfers, Deliver(t) PROVE backup' = backup
    BY <1>2 DEF Deliver, OnDispatchError, OnInBlock, OnInBlockRefused
  <1>3. ASSUME NEW t \in Transfers, NEW amount \in TransferAmounts, BeginTransfer(t, amount)
        PROVE  backup' = backup
    BY <1>3 DEF BeginTransfer
  <1>4. ASSUME NEW d \in Deposits, SubmitDeposit(d) \/ OnDepositInBlock(d) \/ OnDepositError(d)
        PROVE  backup' = backup
    BY <1>4 DEF SubmitDeposit, OnDepositInBlock, OnDepositError
  <1>5. ASSUME NEW n \in DOMAIN ledger, Retract(n) PROVE backup' = backup
    BY <1>5 DEF Retract, clientVars
  <1>6. ASSUME NEW r \in Received, Receive(r) PROVE backup' = backup
    BY <1>6 DEF Receive
  <1>7. ASSUME ImportNotes \/ ClearAllNotes \/ Restart PROVE backup' = backup
    BY <1>7 DEF ImportNotes, ClearAllNotes, Restart
  <1>8. ASSUME ExportNotes PROVE backup' = notes
    BY <1>8 DEF ExportNotes
  <1>9. ASSUME UNCHANGED vars PROVE backup' = backup
    BY <1>9 DEF vars, clientVars
  <1> QED
    BY <1>1, <1>2, <1>3, <1>4, <1>5, <1>6, <1>7, <1>8, <1>9 DEF Next

\* StoreStaysGenuine: whatever is stored or exported in a step is genuine.
LEMMA StoreStaysGenuine ==
    ASSUME TypeOK, StoreInv, [Next]_vars
    PROVE  Genuine(notes') /\ (backup' # None => Genuine(backup'))
  <1>1. notes \in Seq(Note) /\ Genuine(notes) /\ (backup # None => Genuine(backup))
    BY DEF TypeOK, StoreInv
  <1>2. Genuine(<<>>)
    BY DEF Genuine
  <1>3. ASSUME NEW t \in Transfers, Applies(t) PROVE Genuine(notes')
    <2>1. Marks(t) \in Seq(Note) /\ Genuine(Marks(t)) /\ outputs[t] \in Seq(Note)
      BY <1>1, MarkingKeepsShape, MarkingKeepsGenuine DEF Marks, TypeOK
    <2>2. \A i \in DOMAIN outputs[t] : outputs[t][i].id \notin FromChain
                                       /\ outputs[t][i].leafIndex = None
      BY NotFromChain DEF StoreInv, OutputsFresh
    <2>3. Genuine(AddReceivedNotes(Marks(t), outputs[t]))
      BY <2>1, <2>2, AddingKeepsGenuine
    <2> QED
      BY <1>1, <1>3, <2>1, <2>3 DEF Applies
  <1>4. Genuine(notes')
    <2>1. CASE notes' = notes
      BY <1>1, <2>1
    <2>2. CASE \E r \in Received : Receive(r)
      BY <1>1, <2>2, ReceivingKeepsGenuine
    <2>3. CASE ImportNotes \/ ClearAllNotes
      BY <1>1, <1>2, <2>3 DEF ImportNotes, ClearAllNotes
    <2> QED
      BY <1>3, <2>1, <2>2, <2>3, StoreStep
  <1> QED
    BY <1>1, <1>4, BackupStep

\* BeginHolds: what a transfer holds after it began.
LEMMA BeginHolds ==
    ASSUME TypeOK, StoreInv, NEW t \in Transfers, NEW amount \in TransferAmounts,
           BeginTransfer(t, amount)
    PROVE  /\ \A u \in Transfers : u # t => /\ inputs'[u] = inputs[u] /\ outputs'[u] = outputs[u]
                                            /\ pc'[u] = pc[u]
           /\ \/ inputs' = inputs /\ outputs' = outputs /\ pc'[t] = "failed"
              \/ /\ pc'[t] = "fetching"
                 /\ inputs'[t] \in Seq(Note) /\ outputs'[t] \in Seq(Note)
                 /\ Len(inputs'[t]) \in 1..MaxInputs /\ Len(outputs'[t]) \in 1..4
                 /\ TotalAmount(inputs'[t]) = TotalAmount(outputs'[t])
                 /\ Ids(inputs'[t]) \subseteq FromChain
                 /\ Ids(inputs'[t]) \subseteq Ids(notes)
                 /\ \A i, j \in DOMAIN inputs'[t] : inputs'[t][i].id = inputs'[t][j].id => i = j
                 /\ \A i \in DOMAIN outputs'[t] :
                       /\ outputs'[t][i].id \in {<<"payment", t>>, <<"change", t>>}
                       /\ outputs'[t][i].leafIndex = None /\ ~outputs'[t][i].spent
  <1> DEFINE sel == SelectNotesForTransfer(notes, amount, MaxInputs)
             out == OutputNotes(t, amount, sel.change)
  <1>1. amount \in Nat /\ notes \in Seq(Note) /\ Genuine(notes)
    BY WalletAssumption DEF TypeOK, StoreInv
  <1>2. /\ pc \in [Transfers -> Pending \cup {"idle", "done", "failed", "lost"}]
        /\ inputs \in [Transfers -> Seq(Note)] /\ outputs \in [Transfers -> Seq(Note)]
    BY DEF TypeOK
  <1>3. sel.ok => /\ sel.selected \in Seq(Note) /\ Len(sel.selected) \in 1..MaxInputs
                  /\ sel.change \in Nat
                  /\ TotalAmount(sel.selected) = amount + sel.change
                  /\ \E place \in Injection(1..Len(sel.selected), Spendable(notes)) :
                        \A i \in 1..Len(sel.selected) : sel.selected[i] = notes[place[i]]
    BY <1>1, SelectionFromStore
  <1>4. sel.ok => /\ Ids(sel.selected) \subseteq FromChain
                  /\ \A i, j \in DOMAIN sel.selected :
                        sel.selected[i].id = sel.selected[j].id => i = j
    BY <1>1, SelectionIsGenuine
  <1>5. IF sel.ok
        THEN /\ pc' = [pc EXCEPT ![t] = "fetching"]
             /\ inputs' = [inputs EXCEPT ![t] = sel.selected]
             /\ outputs' = [outputs EXCEPT ![t] = out]
        ELSE pc' = [pc EXCEPT ![t] = "failed"] /\ inputs' = inputs /\ outputs' = outputs
    BY DEF BeginTransfer
  <1> HIDE DEF sel
  <1>6. sel.ok => /\ out \in Seq(Note) /\ Len(out) \in 1..2
                  /\ \A i \in 1..Len(out) : /\ out[i].id \in {<<"payment", t>>, <<"change", t>>}
                                            /\ out[i].leafIndex = None /\ ~out[i].spent
                  /\ TotalAmount(out) = amount + sel.change
    <2>1. sel.ok => sel.change \in Nat
      BY <1>3
    <2> QED
      BY <1>1, <2>1, OutputNotesShape, Zenon
  <1> HIDE DEF out
  <1>7. CASE ~sel.ok
    BY <1>2, <1>5, <1>7
  <1>8. CASE sel.ok
    <2>1. inputs'[t] = sel.selected /\ outputs'[t] = out /\ pc'[t] = "fetching"
      BY <1>2, <1>5, <1>8
    <2>2. \A u \in Transfers : u # t => /\ inputs'[u] = inputs[u] /\ outputs'[u] = outputs[u]
                                        /\ pc'[u] = pc[u]
      BY <1>2, <1>5, <1>8
    <2>3. Ids(sel.selected) \subseteq Ids(notes)
      <3>1. PICK place \in Injection(1..Len(sel.selected), Spendable(notes)) :
                 \A i \in 1..Len(sel.selected) : sel.selected[i] = notes[place[i]]
        BY <1>3, <1>8
      <3>2. \A i \in 1..Len(sel.selected) : place[i] \in DOMAIN notes
        BY <3>1 DEF Injection, Spendable
      <3>3. DOMAIN sel.selected = 1..Len(sel.selected)
        BY <1>3, <1>8
      <3> QED
        BY <3>1, <3>2, <3>3 DEF Ids
    <2>4. DOMAIN out = 1..Len(out) /\ Len(out) \in 1..4
      BY <1>6, <1>8
    <2> QED
      BY <1>3, <1>4, <1>6, <1>8, <2>1, <2>2, <2>3, <2>4
  <1> QED
    BY <1>7, <1>8

\* StoreInvStep: StoreInv is inductive.
LEMMA StoreInvStep == TypeOK /\ StoreInv /\ [Next]_vars => StoreInv'
  <1> SUFFICES ASSUME TypeOK, StoreInv, [Next]_vars PROVE StoreInv'
    OBVIOUS
  <1>1. Genuine(notes') /\ (backup' # None => Genuine(backup'))
    BY StoreStaysGenuine
  <1>2. Genuine(notes)' /\ (backup # None => Genuine(backup))'
    BY <1>1 DEF Genuine
  <1>3. CASE /\ inputs' = inputs /\ outputs' = outputs
             /\ \A t \in Transfers : pc'[t] = "fetching" => pc[t] = "fetching"
    <2>1. OutputsFresh'
      BY <1>3 DEF StoreInv, OutputsFresh
    <2>2. InputsAreReceived'
      BY <1>3 DEF StoreInv, InputsAreReceived, Ids
    <2>3. SelectionPassesAdapter'
      BY <1>3 DEF StoreInv, SelectionPassesAdapter, Prepared
    <2> QED
      BY <1>2, <2>1, <2>2, <2>3 DEF StoreInv
  <1>4. ASSUME NEW t \in Transfers, NEW amount \in TransferAmounts, BeginTransfer(t, amount)
        PROVE  StoreInv'
    <2>1. \A u \in Transfers : u # t => /\ inputs'[u] = inputs[u] /\ outputs'[u] = outputs[u]
                                        /\ pc'[u] = pc[u]
      BY <1>4, BeginHolds
    <2>2. \/ inputs' = inputs /\ outputs' = outputs /\ pc'[t] = "failed"
          \/ /\ pc'[t] = "fetching"
             /\ inputs'[t] \in Seq(Note) /\ outputs'[t] \in Seq(Note)
             /\ Len(inputs'[t]) \in 1..MaxInputs /\ Len(outputs'[t]) \in 1..4
             /\ TotalAmount(inputs'[t]) = TotalAmount(outputs'[t])
             /\ Ids(inputs'[t]) \subseteq FromChain
             /\ Ids(inputs'[t]) \subseteq Ids(notes)
             /\ \A i, j \in DOMAIN inputs'[t] : inputs'[t][i].id = inputs'[t][j].id => i = j
             /\ \A i \in DOMAIN outputs'[t] :
                   /\ outputs'[t][i].id \in {<<"payment", t>>, <<"change", t>>}
                   /\ outputs'[t][i].leafIndex = None /\ ~outputs'[t][i].spent
      BY <1>4, BeginHolds
    <2>3. ASSUME NEW u \in Transfers
          PROVE  \A i \in DOMAIN outputs'[u] :
                    /\ outputs'[u][i].id \in {<<"payment", u>>, <<"change", u>>}
                    /\ outputs'[u][i].leafIndex = None /\ ~outputs'[u][i].spent
      <3>1. \A i \in DOMAIN outputs[u] :
               /\ outputs[u][i].id \in {<<"payment", u>>, <<"change", u>>}
               /\ outputs[u][i].leafIndex = None /\ ~outputs[u][i].spent
        BY Zenon DEF StoreInv, OutputsFresh
      <3>2. outputs'[u] = outputs[u] \/ u = t
        BY <2>1
      <3>3. CASE outputs'[u] = outputs[u]
        BY <3>1, <3>3
      <3>4. CASE u = t
        BY <2>2, <3>1, <3>4, Zenon
      <3> QED
        BY <3>2, <3>3, <3>4
    <2>4. ASSUME NEW u \in Transfers
          PROVE  /\ Ids(inputs'[u]) \subseteq FromChain
                 /\ \A i, j \in DOMAIN inputs'[u] : inputs'[u][i].id = inputs'[u][j].id => i = j
      <3>1. /\ Ids(inputs[u]) \subseteq FromChain
            /\ \A i, j \in DOMAIN inputs[u] : inputs[u][i].id = inputs[u][j].id => i = j
        BY DEF StoreInv, InputsAreReceived, FromChain
      <3>2. inputs'[u] = inputs[u] \/ u = t
        BY <2>1
      <3>3. CASE inputs'[u] = inputs[u]
        BY <3>1, <3>3
      <3>4. CASE u = t
        BY <2>2, <3>1, <3>4, Zenon
      <3> QED
        BY <3>2, <3>3, <3>4
    <2>5. ASSUME NEW u \in Transfers, pc'[u] = "fetching"
          PROVE  /\ Len(inputs'[u]) \in 1..MaxInputs
                 /\ Len(outputs'[u]) \in 1..4
                 /\ TotalAmount(inputs'[u]) = TotalAmount(outputs'[u])
      <3>1. CASE u = t
        BY <2>2, <2>5, <3>1
      <3>2. CASE u # t
        BY <2>1, <2>5, <3>2, Zenon DEF StoreInv, SelectionPassesAdapter, Prepared
      <3> QED
        BY <3>1, <3>2
    <2>6. OutputsFresh'
      BY <2>3 DEF OutputsFresh
    <2>7. InputsAreReceived'
      BY <2>4, Zenon DEF InputsAreReceived, FromChain, Ids
    <2>8. SelectionPassesAdapter'
      BY <2>5 DEF SelectionPassesAdapter, Prepared
    <2> QED
      BY <1>2, <2>6, <2>7, <2>8 DEF StoreInv
  <1> QED
    BY <1>3, <1>4, CallsStep

\* StoreInvHolds: StoreInv holds throughout.
LEMMA StoreInvHolds == Spec => []StoreInv
  <1>1. Init => StoreInv
    <2> SUFFICES ASSUME Init PROVE StoreInv
      OBVIOUS
    <2>1. Genuine(notes) /\ backup = None
      BY DEF Init, Genuine
    <2>2. OutputsFresh
      BY DEF Init, OutputsFresh
    <2>3. InputsAreReceived
      BY DEF Init, InputsAreReceived, Ids
    <2>4. SelectionPassesAdapter
      BY DEF Init, SelectionPassesAdapter
    <2> QED
      BY <2>1, <2>2, <2>3, <2>4 DEF StoreInv
  <1> QED
    BY <1>1, StoreInvStep, TypeCorrect, PTL DEF Spec

\* InputsAlwaysReceived: whatever the store holds besides, an input of a transfer is
\* a note that was received and has its leaf index, and no transfer has one twice.
THEOREM InputsAlwaysReceived == Spec => []InputsAreReceived
  BY StoreInvHolds, PTL DEF StoreInv

\* AdapterNeverRejects: the counts and sums that selectNotesForTransfer and
\* createNote produce pass the checks of prepareCircuitInput, for every store and amount.
THEOREM AdapterNeverRejects == Spec => []SelectionPassesAdapter
  BY StoreInvHolds, PTL DEF StoreInv

(***************************************************************************)
(* What the chain has seen.  A transfer that is in the pool, on the ledger *)
(* or has a status update was submitted, so its inputs are fixed; while no *)
(* block is retracted, what InBlock reports is on the ledger.              *)
(***************************************************************************)
Early == {"idle", "fetching", "proving", "verifying"}

OnLedger(t) == \E i \in DOMAIN ledger : ledger[i].tx = t
Accepted(t) == \E i \in DOMAIN ledger : ledger[i].tx = t /\ ledger[i].ok

Sent ==
    \A t \in Transfers :
        (t \in pool \/ OnLedger(t) \/ t \in listening \/ inbox[t] # <<>>) => pc[t] \notin Early

Reported == \A t \in Transfers : "InBlock" \in Range(inbox[t]) => Accepted(t)

SpentRevealed(s) == \A i \in DOMAIN s : s[i].spent => s[i].id \in Revealed

ChainInv ==
    /\ Sent
    /\ retracted = 0 => /\ Reported
                        /\ SpentRevealed(notes)
                        /\ backup # None => SpentRevealed(backup)

\* LedgerTypes: the entries of the ledger are transfers.
LEMMA LedgerTypes ==
    ASSUME TypeOK
    PROVE  /\ Len(ledger) \in Nat /\ DOMAIN ledger = 1..Len(ledger)
           /\ \A i \in DOMAIN ledger : /\ ledger[i] \in [tx : Transfers, ok : BOOLEAN]
                                       /\ ledger[i].tx \in Transfers /\ ledger[i].ok \in BOOLEAN
  <1> DEFINE Tx == [tx : Transfers, ok : BOOLEAN]
  <1>1. ledger \in Seq(Tx)
    BY DEF TypeOK
  <1>2. \A x \in Tx : x.tx \in Transfers /\ x.ok \in BOOLEAN
    OBVIOUS
  <1> HIDE DEF Tx
  <1>3. Len(ledger) \in Nat /\ DOMAIN ledger = 1..Len(ledger) /\ \A i \in DOMAIN ledger : ledger[i] \in Tx
    BY <1>1
  <1> QED
    BY <1>2, <1>3, Zenon DEF Tx

\* LedgerStep: the ledger changes when a block is included or retracted.
LEMMA LedgerStep ==
    ASSUME TypeOK, [Next]_vars
    PROVE  \/ ledger' = ledger /\ retracted' = retracted
           \/ \E t \in Transfers : Include(t)
           \/ \E n \in DOMAIN ledger : Retract(n)
  <1>1. ASSUME NEW r \in Received, Receive(r) PROVE ledger' = ledger /\ retracted' = retracted
    BY <1>1 DEF Receive, chainVars
  <1>2. ASSUME NEW t \in Transfers, Advance(t) PROVE ledger' = ledger /\ retracted' = retracted
    BY <1>2 DEF Advance, Prepare, Proved, Submit, Continue, chainVars
  <1>3. ASSUME NEW t \in Transfers, Deliver(t) PROVE ledger' = ledger /\ retracted' = retracted
    BY <1>3 DEF Deliver, OnDispatchError, OnInBlock, OnInBlockRefused
  <1>4. ASSUME NEW t \in Transfers, NEW amount \in TransferAmounts, BeginTransfer(t, amount)
        PROVE  ledger' = ledger /\ retracted' = retracted
    BY <1>4 DEF BeginTransfer, chainVars
  <1>5. ASSUME NEW d \in Deposits, SubmitDeposit(d) \/ OnDepositInBlock(d) \/ OnDepositError(d)
        PROVE  ledger' = ledger /\ retracted' = retracted
    BY <1>5 DEF SubmitDeposit, OnDepositInBlock, OnDepositError, chainVars
  <1>6. ASSUME ExportNotes \/ ImportNotes \/ ClearAllNotes
        PROVE  ledger' = ledger /\ retracted' = retracted
    BY <1>6 DEF ExportNotes, ImportNotes, ClearAllNotes, chainVars
  <1>7. ASSUME Restart PROVE ledger' = ledger /\ retracted' = retracted
    BY <1>7 DEF Restart
  <1>8. ASSUME UNCHANGED vars PROVE ledger' = ledger /\ retracted' = retracted
    BY <1>8 DEF vars, chainVars
  <1> QED
    BY <1>1, <1>2, <1>3, <1>4, <1>5, <1>6, <1>7, <1>8, Zenon DEF Next

\* LedgerGrows: without a retraction what is on the ledger stays there.
LEMMA LedgerGrows ==
    ASSUME TypeOK, [Next]_vars, retracted' = 0
    PROVE  /\ retracted = 0
           /\ \A i \in DOMAIN ledger : i \in DOMAIN ledger' /\ ledger'[i] = ledger[i]
  <1>1. retracted \in Nat
    BY RetractionsBound DEF TypeOK
  <1>2. CASE ledger' = ledger /\ retracted' = retracted
    BY <1>2
  <1>3. ASSUME NEW t \in Transfers, Include(t)
        PROVE  retracted' = retracted
               /\ \A i \in DOMAIN ledger : i \in DOMAIN ledger' /\ ledger'[i] = ledger[i]
    <2> DEFINE x == [tx |-> t, ok |-> Ids(inputs[t]) \cap Revealed = {}]
    <2>1. retracted' = retracted /\ ledger' = Append(ledger, x)
      BY <1>3 DEF Include
    <2>2. ledger \in Seq([tx : Transfers, ok : BOOLEAN]) /\ x \in [tx : Transfers, ok : BOOLEAN]
      BY DEF TypeOK
    <2> HIDE DEF x
    <2>3. /\ Len(ledger) \in Nat /\ DOMAIN ledger = 1..Len(ledger)
          /\ Len(Append(ledger, x)) = Len(ledger) + 1
          /\ \A i \in 1..Len(ledger) : Append(ledger, x)[i] = ledger[i]
          /\ DOMAIN Append(ledger, x) = 1..(Len(ledger) + 1)
      BY <2>2
    <2> QED
      BY <2>1, <2>3
  <1>4. ASSUME NEW n \in DOMAIN ledger, Retract(n) PROVE FALSE
    BY <1>1, <1>4 DEF Retract
  <1> QED
    BY <1>2, <1>3, <1>4, LedgerStep

\* LedgerInputsFixed: the inputs and outputs of a transfer on the ledger do not
\* change.
LEMMA LedgerInputsFixed ==
    ASSUME TypeOK, StoreInv, Sent, [Next]_vars, NEW u \in Transfers, OnLedger(u) \/ pc[u] # "idle"
    PROVE  inputs'[u] = inputs[u] /\ outputs'[u] = outputs[u]
  <1>1. ASSUME NEW t \in Transfers, NEW amount \in TransferAmounts, BeginTransfer(t, amount)
        PROVE  inputs'[u] = inputs[u] /\ outputs'[u] = outputs[u]
    <2>1. pc[t] = "idle"
      BY <1>1 DEF BeginTransfer
    <2>2. t # u
      BY <2>1 DEF Sent, Early
    <2> QED
      BY <1>1, <2>2, BeginHolds
  <1> QED
    BY <1>1, CallsStep

\* RevealedGrows: without a retraction a nullifier that was revealed stays so.
LEMMA RevealedGrows ==
    ASSUME TypeOK, StoreInv, Sent, [Next]_vars, retracted' = 0
    PROVE  /\ retracted = 0
           /\ Revealed \subseteq Revealed'
           /\ \A t \in Transfers : Accepted(t) => Accepted(t)'
  <1>1. retracted = 0 /\ \A i \in DOMAIN ledger : i \in DOMAIN ledger' /\ ledger'[i] = ledger[i]
    BY LedgerGrows
  <1>2. \A i \in DOMAIN ledger : ledger[i].tx \in Transfers
    BY LedgerTypes
  <1>3. \A i \in DOMAIN ledger : inputs'[ledger[i].tx] = inputs[ledger[i].tx]
    BY <1>2, LedgerInputsFixed DEF OnLedger
  <1>4. ASSUME NEW x \in Revealed PROVE x \in Revealed'
    <2>1. PICK i \in DOMAIN ledger : ledger[i].ok /\ x \in Ids(inputs[ledger[i].tx])
      BY <1>4 DEF Revealed
    <2>2. i \in DOMAIN ledger' /\ ledger'[i].ok /\ x \in Ids(inputs'[ledger'[i].tx])
      BY <1>1, <1>3, <2>1
    <2> QED
      BY <2>2 DEF Revealed, Ids
  <1>5. \A t \in Transfers : Accepted(t) => Accepted(t)'
    BY <1>1 DEF Accepted
  <1> QED
    BY <1>1, <1>4, <1>5

\* SentStep: only a transfer that was submitted reaches the pool, the ledger or its
\* callback.
LEMMA SentStep ==
    ASSUME TypeOK, Sent, [Next]_vars
    PROVE  Sent'
  <1>0. /\ pc \in [Transfers -> Pending \cup {"idle", "done", "failed", "lost"}]
        /\ inbox \in [Transfers -> Seq({"InBlock", "DispatchError"})]
    BY DEF TypeOK
  <1>1. ASSUME pool' = pool, ledger' = ledger, listening' = listening, inbox' = inbox,
               \A u \in Transfers : pc'[u] = pc[u] \/ pc[u] \in Early
        PROVE  Sent'
    BY <1>1 DEF Sent, OnLedger
  <1>2. ASSUME NEW r \in Received, Receive(r) PROVE Sent'
    BY <1>1, <1>2 DEF Receive, chainVars
  <1>3. ASSUME NEW t \in Transfers, NEW amount \in TransferAmounts, BeginTransfer(t, amount)
        PROVE  Sent'
    <2>1. pc[t] = "idle" /\ \E to \in {"fetching", "failed"} : pc' = [pc EXCEPT ![t] = to]
      BY <1>3 DEF BeginTransfer
    <2>2. \A u \in Transfers : pc'[u] = pc[u] \/ pc[u] \in Early
      BY <1>0, <2>1 DEF Early
    <2> QED
      BY <1>1, <1>3, <2>2 DEF BeginTransfer, chainVars
  <1>4. ASSUME NEW t \in Transfers, Advance(t) PROVE Sent'
    <2>1. CASE Prepare(t) \/ \E ok \in BOOLEAN : Proved(t, ok)
      <3>1. PICK from \in {"fetching", "proving"}, to \in {"proving", "verifying", "failed"} :
                 Continue(t, from, to)
        BY <2>1 DEF Prepare, Proved
      <3>2. \A u \in Transfers : pc'[u] = pc[u] \/ pc[u] \in Early
        BY <1>0, <3>1 DEF Continue, Early
      <3> QED
        BY <1>1, <3>1, <3>2 DEF Continue, chainVars
    <2>2. CASE \E verified, sent \in BOOLEAN : Submit(t, verified, sent)
      <3>1. /\ ledger' = ledger /\ inbox' = inbox
            /\ listening' \subseteq listening \cup {t} /\ pool' \subseteq pool \cup {t}
        BY <2>2 DEF Submit
      <3>2. \E to \in {"submitted", "failed"} : pc' = [pc EXCEPT ![t] = to]
        BY <2>2 DEF Submit
      <3>3. pc'[t] \notin Early /\ \A u \in Transfers : u # t => pc'[u] = pc[u]
        BY <1>0, <3>2 DEF Early
      <3> QED
        BY <3>1, <3>3 DEF Sent, OnLedger
    <2> QED
      BY <1>4, <2>1, <2>2 DEF Advance
  <1>5. ASSUME NEW t \in Transfers, Deliver(t) PROVE Sent'
    <2>1. /\ inbox[t] # <<>> /\ inbox' = [inbox EXCEPT ![t] = Tail(@)]
          /\ listening' = listening /\ pool' = pool /\ ledger' = ledger
      BY <1>5 DEF Deliver, OnDispatchError, OnInBlock, OnInBlockRefused
    <2>2. pc' = pc \/ \E to \in {"failed", "done"} : Settle(t, to)
      BY <1>5 DEF Deliver, OnDispatchError, OnInBlock, OnInBlockRefused
    <2>3. pc[t] \notin Early
      BY <2>1 DEF Sent
    <2>4. pc'[t] \notin Early /\ \A u \in Transfers : u # t => pc'[u] = pc[u]
      BY <1>0, <2>2, <2>3 DEF Settle, Early
    <2>5. \A u \in Transfers : u # t => inbox'[u] = inbox[u]
      BY <1>0, <2>1
    <2> QED
      BY <2>1, <2>4, <2>5 DEF Sent, OnLedger
  <1>6. ASSUME NEW t \in Transfers, Include(t) PROVE Sent'
    <2> DEFINE x == [tx |-> t, ok |-> Ids(inputs[t]) \cap Revealed = {}]
    <2>1. /\ t \in pool /\ pool' \subseteq pool /\ listening' = listening /\ pc' = pc
          /\ ledger' = Append(ledger, x)
          /\ inbox' = inbox \/ \E m : inbox' = [inbox EXCEPT ![t] = Append(@, m)]
      BY <1>6 DEF Include, clientVars
    <2>2. pc[t] \notin Early
      BY <2>1 DEF Sent
    <2>3. \A u \in Transfers : u # t => inbox'[u] = inbox[u]
      BY <1>0, <2>1
    <2>4. \A u \in Transfers : OnLedger(u)' => OnLedger(u) \/ u = t
      <3>1. ledger \in Seq([tx : Transfers, ok : BOOLEAN]) /\ x \in [tx : Transfers, ok : BOOLEAN]
            /\ x.tx = t
        BY DEF TypeOK
      <3> HIDE DEF x
      <3>2. /\ Len(ledger) \in Nat /\ DOMAIN ledger = 1..Len(ledger)
            /\ \A i \in 1..Len(ledger) : Append(ledger, x)[i] = ledger[i]
            /\ Append(ledger, x)[Len(ledger) + 1] = x
            /\ DOMAIN Append(ledger, x) = 1..(Len(ledger) + 1)
        BY <3>1
      <3>3. \A i \in DOMAIN ledger' : ledger'[i] = x \/ (i \in DOMAIN ledger /\ ledger'[i] = ledger[i])
        BY <2>1, <3>2
      <3> QED
        BY <3>1, <3>3 DEF OnLedger
    <2> HIDE DEF x
    <2> QED
      BY <2>1, <2>2, <2>3, <2>4 DEF Sent
  <1>7. ASSUME NEW n \in DOMAIN ledger, Retract(n) PROVE Sent'
    <2>1. /\ listening' = listening /\ inbox' = inbox /\ pc' = pc
          /\ ledger' = SubSeq(ledger, 1, n - 1)
          /\ pool' = pool \cup {ledger[i].tx : i \in n..Len(ledger)}
      BY <1>7 DEF Retract, clientVars
    <2>2. n \in 1..Len(ledger) /\ Len(ledger) \in Nat /\ DOMAIN ledger = 1..Len(ledger)
      BY LedgerTypes
    <2>3. \A u \in Transfers : u \in pool' => u \in pool \/ OnLedger(u)
      BY <2>1, <2>2 DEF OnLedger
    <2>4. \A u \in Transfers : OnLedger(u)' => OnLedger(u)
      <3>1. ledger \in Seq([tx : Transfers, ok : BOOLEAN])
        BY DEF TypeOK
      <3>2. \A i \in DOMAIN ledger' : i \in DOMAIN ledger /\ ledger'[i] = ledger[i]
        BY <2>1, <2>2, <3>1
      <3> QED
        BY <3>2 DEF OnLedger
    <2> QED
      BY <2>1, <2>3, <2>4 DEF Sent
  <1>8. ASSUME NEW d \in Deposits, SubmitDeposit(d) \/ OnDepositInBlock(d) \/ OnDepositError(d)
        PROVE  Sent'
    BY <1>1, <1>8 DEF SubmitDeposit, OnDepositInBlock, OnDepositError, chainVars
  <1>9. ASSUME ExportNotes \/ ImportNotes \/ ClearAllNotes PROVE Sent'
    BY <1>1, <1>9 DEF ExportNotes, ImportNotes, ClearAllNotes, chainVars
  <1>10. ASSUME Restart PROVE Sent'
    <2>1. /\ listening' = {} /\ pool' = pool /\ ledger' = ledger
          /\ \A u \in Transfers : inbox'[u] = <<>>
          /\ \A u \in Transfers : pc'[u] = pc[u] \/ pc'[u] = "lost"
      BY <1>10 DEF Restart
    <2> QED
      BY <2>1 DEF Sent, OnLedger, Early
  <1>11. ASSUME UNCHANGED vars PROVE Sent'
    BY <1>1, <1>11 DEF vars, clientVars, chainVars
  <1> QED
    BY <1>2, <1>3, <1>4, <1>5, <1>6, <1>7, <1>8, <1>9, <1>10, <1>11 DEF Next

\* IncludeReports: an InBlock that an inclusion reports is on the ledger.
LEMMA IncludeReports ==
    ASSUME TypeOK, NEW t \in Transfers, Include(t)
    PROVE  /\ \A u \in Transfers : u # t => inbox'[u] = inbox[u]
           /\ "InBlock" \in Range(inbox'[t]) => "InBlock" \in Range(inbox[t]) \/ Accepted(t)'
           /\ "InBlock" \in Range(inbox[t]) => "InBlock" \in Range(inbox'[t])
           /\ \A i \in DOMAIN ledger' :
                 \/ i \in DOMAIN ledger /\ ledger'[i] = ledger[i]
                 \/ /\ ledger'[i].tx = t
                    /\ ledger'[i].ok /\ t \in listening => "InBlock" \in Range(inbox'[t])
  <1> DEFINE ok == Ids(inputs[t]) \cap Revealed = {}
             x == [tx |-> t, ok |-> ok]
             m == IF ok THEN "InBlock" ELSE "DispatchError"
  <1>1. /\ ledger' = Append(ledger, x)
        /\ inbox' = IF t \in listening THEN [inbox EXCEPT ![t] = Append(@, m)] ELSE inbox
    BY DEF Include
  <1>2. /\ ledger \in Seq([tx : Transfers, ok : BOOLEAN]) /\ x \in [tx : Transfers, ok : BOOLEAN]
        /\ x.tx = t /\ x.ok = ok /\ ok \in BOOLEAN
        /\ inbox \in [Transfers -> Seq({"InBlock", "DispatchError"})]
    BY DEF TypeOK
  <1>3. m \in {"InBlock", "DispatchError"} /\ (m = "InBlock" <=> ok)
    OBVIOUS
  <1> HIDE DEF x, ok, m
  <1>4. /\ Len(ledger) \in Nat /\ DOMAIN ledger = 1..Len(ledger)
        /\ \A i \in 1..Len(ledger) : Append(ledger, x)[i] = ledger[i]
        /\ Append(ledger, x)[Len(ledger) + 1] = x
        /\ DOMAIN Append(ledger, x) = 1..(Len(ledger) + 1)
    BY <1>2
  <1>5. \A i \in DOMAIN ledger' : ledger'[i] = x \/ (i \in DOMAIN ledger /\ ledger'[i] = ledger[i])
    BY <1>1, <1>4
  <1>6. Len(ledger) + 1 \in DOMAIN ledger' /\ ledger'[Len(ledger) + 1] = x
    BY <1>1, <1>4
  <1>7. ok => Accepted(t)'
    BY <1>2, <1>6 DEF Accepted
  <1>8. Range(Append(inbox[t], m)) = Range(inbox[t]) \cup {m}
    <2>1. inbox[t] \in Seq({"InBlock", "DispatchError"})
      BY <1>2
    <2> DEFINE s == inbox[t]
    <2> HIDE DEF s
    <2>2. /\ Len(s) \in Nat /\ DOMAIN s = 1..Len(s)
          /\ DOMAIN Append(s, m) = 1..(Len(s) + 1)
          /\ \A i \in 1..Len(s) : Append(s, m)[i] = s[i]
          /\ Append(s, m)[Len(s) + 1] = m
      BY <1>3, <2>1 DEF s
    <2>3. \A i \in 1..(Len(s) + 1) : i \in 1..Len(s) \/ i = Len(s) + 1
      BY <2>2
    <2>4. \A i \in 1..Len(s) : i \in 1..(Len(s) + 1)
      BY <2>2
    <2>5. Len(s) + 1 \in 1..(Len(s) + 1)
      BY <2>2
    <2>6. Range(Append(s, m)) = Range(s) \cup {m}
      BY <2>2, <2>3, <2>4, <2>5, Zenon DEF Range
    <2> QED
      BY <2>6 DEF s
  <1>9. CASE t \in listening
    <2>1. inbox'[t] = Append(inbox[t], m) /\ \A u \in Transfers : u # t => inbox'[u] = inbox[u]
      BY <1>1, <1>2, <1>9
    <2> QED
      BY <1>2, <1>3, <1>5, <1>7, <1>8, <2>1
  <1>10. CASE t \notin listening
    BY <1>1, <1>2, <1>5, <1>10
  <1> QED
    BY <1>9, <1>10

\* InboxStep: other steps leave the inboxes, take the head of one, or empty them.
LEMMA InboxStep ==
    ASSUME TypeOK, [Next]_vars
    PROVE  \/ inbox' = inbox
           \/ \E t \in Transfers : Include(t)
           \/ \E t \in Transfers : Deliver(t)
           \/ Restart
  <1>1. ASSUME NEW r \in Received, Receive(r) PROVE inbox' = inbox
    BY <1>1 DEF Receive, chainVars
  <1>2. ASSUME NEW t \in Transfers, Advance(t) PROVE inbox' = inbox
    BY <1>2 DEF Advance, Prepare, Proved, Submit, Continue, chainVars
  <1>3. ASSUME NEW t \in Transfers, NEW amount \in TransferAmounts, BeginTransfer(t, amount)
        PROVE  inbox' = inbox
    BY <1>3 DEF BeginTransfer, chainVars
  <1>4. ASSUME NEW n \in DOMAIN ledger, Retract(n) PROVE inbox' = inbox
    BY <1>4 DEF Retract
  <1>5. ASSUME NEW d \in Deposits, SubmitDeposit(d) \/ OnDepositInBlock(d) \/ OnDepositError(d)
        PROVE  inbox' = inbox
    BY <1>5 DEF SubmitDeposit, OnDepositInBlock, OnDepositError, chainVars
  <1>6. ASSUME ExportNotes \/ ImportNotes \/ ClearAllNotes PROVE inbox' = inbox
    BY <1>6 DEF ExportNotes, ImportNotes, ClearAllNotes, chainVars
  <1>7. ASSUME UNCHANGED vars PROVE inbox' = inbox
    BY <1>7 DEF vars, chainVars
  <1> QED
    BY <1>1, <1>2, <1>3, <1>4, <1>5, <1>6, <1>7, Zenon DEF Next

\* DeliverTakesHead: a callback takes the first update of one inbox.
LEMMA DeliverTakesHead ==
    ASSUME TypeOK, NEW t \in Transfers, Deliver(t)
    PROVE  /\ \A u \in Transfers : u # t => inbox'[u] = inbox[u]
           /\ inbox'[t] = Tail(inbox[t])
           /\ Head(inbox[t]) \in Range(inbox[t])
           /\ Range(inbox[t]) = Range(inbox'[t]) \cup {Head(inbox[t])}
  <1>1. inbox[t] # <<>> /\ inbox' = [inbox EXCEPT ![t] = Tail(@)]
    BY DEF Deliver, OnDispatchError, OnInBlock, OnInBlockRefused
  <1>2. inbox \in [Transfers -> Seq({"InBlock", "DispatchError"})]
    BY DEF TypeOK
  <1>3. inbox'[t] = Tail(inbox[t]) /\ \A u \in Transfers : u # t => inbox'[u] = inbox[u]
    BY <1>1, <1>2
  <1> DEFINE s == inbox[t]
  <1>4. s \in Seq({"InBlock", "DispatchError"}) /\ s # <<>>
    BY <1>1, <1>2
  <1> HIDE DEF s
  <1>5. /\ Len(s) \in Nat \ {0} /\ DOMAIN s = 1..Len(s) /\ Head(s) = s[1]
        /\ DOMAIN Tail(s) = 1..(Len(s) - 1)
        /\ \A i \in 1..(Len(s) - 1) : Tail(s)[i] = s[i + 1]
    BY <1>4
  <1>6. \A i \in 1..Len(s) : i = 1 \/ (i - 1 \in 1..(Len(s) - 1) /\ Tail(s)[i - 1] = s[i])
    BY <1>5
  <1>7. \A i \in 1..(Len(s) - 1) : i + 1 \in 1..Len(s)
    BY <1>5
  <1>8. 1 \in 1..Len(s)
    BY <1>5
  <1>9. Range(s) = Range(Tail(s)) \cup {Head(s)}
    <2>1. ASSUME NEW i \in 1..Len(s) PROVE s[i] \in Range(Tail(s)) \cup {Head(s)}
      <3>1. CASE i = 1
        BY <1>5, <3>1
      <3>2. CASE i - 1 \in 1..(Len(s) - 1) /\ Tail(s)[i - 1] = s[i]
        BY <1>5, <3>2 DEF Range
      <3> QED
        BY <1>6, <3>1, <3>2
    <2>2. ASSUME NEW i \in 1..(Len(s) - 1) PROVE Tail(s)[i] \in Range(s)
      BY <1>5, <1>7 DEF Range
    <2>3. Head(s) \in Range(s)
      BY <1>5, <1>8 DEF Range
    <2>4. Range(s) \subseteq Range(Tail(s)) \cup {Head(s)}
      BY <1>5, <2>1, Zenon DEF Range
    <2>5. Range(Tail(s)) \subseteq Range(s)
      BY <1>5, <2>2 DEF Range
    <2> QED
      BY <2>3, <2>4, <2>5
  <1> QED
    BY <1>3, <1>9 DEF s

\* ReportedStep: while nothing is retracted, InBlock is only reported of what is on
\* the ledger.
LEMMA ReportedStep ==
    ASSUME TypeOK, StoreInv, ChainInv, [Next]_vars, retracted' = 0
    PROVE  Reported'
  <1>1. /\ retracted = 0 /\ Reported /\ Sent
        /\ \A t \in Transfers : Accepted(t) => Accepted(t)'
    BY RevealedGrows DEF ChainInv
  <1>2. SUFFICES ASSUME NEW u \in Transfers, "InBlock" \in Range(inbox'[u])
                 PROVE  "InBlock" \in Range(inbox[u]) \/ Accepted(u)'
    BY <1>1 DEF Reported, Range
  <1>3. CASE inbox' = inbox
    BY <1>2, <1>3
  <1>4. ASSUME NEW t \in Transfers, Include(t) PROVE "InBlock" \in Range(inbox[u]) \/ Accepted(u)'
    BY <1>2, <1>4, IncludeReports
  <1>5. ASSUME NEW t \in Transfers, Deliver(t) PROVE "InBlock" \in Range(inbox[u])
    BY <1>2, <1>5, DeliverTakesHead
  <1>6. CASE Restart
    <2>1. inbox'[u] = <<>>
      BY <1>6 DEF Restart
    <2>2. Range(<<>>) = {}
      BY DEF Range
    <2> QED
      BY <1>2, <2>1, <2>2
  <1> QED
    BY <1>3, <1>4, <1>5, <1>6, InboxStep

\* SpentStep: while nothing is retracted, a note that a step marks was spent by a
\* transfer on the ledger.
LEMMA SpentStep ==
    ASSUME TypeOK, StoreInv, ChainInv, [Next]_vars, retracted' = 0
    PROVE  /\ \A i \in DOMAIN notes' : notes'[i].spent => notes'[i].id \in Revealed'
           /\ backup' # None => \A i \in DOMAIN backup' : backup'[i].spent => backup'[i].id \in Revealed'
  <1>1. /\ retracted = 0 /\ Revealed \subseteq Revealed' /\ Reported
        /\ SpentRevealed(notes) /\ (backup # None => SpentRevealed(backup))
    BY RevealedGrows DEF ChainInv
  <1>2. notes \in Seq(Note)
    BY DEF TypeOK
  <1> DEFINE Good(s) == \A i \in DOMAIN s : s[i].spent => s[i].id \in Revealed'
  <1>3. Good(notes) /\ (backup # None => Good(backup)) /\ Good(<<>>)
    BY <1>1 DEF SpentRevealed
  <1>4. ASSUME NEW s \in Seq(Note), NEW new \in Seq(Note), Good(s),
               \A i \in DOMAIN new : ~new[i].spent
        PROVE  Good(AddReceivedNotes(s, new))
    <2> DEFINE a == AddReceivedNotes(s, new)
    <2>1. /\ a \in Seq(Note) /\ Len(a) = Len(s) + Len(new)
          /\ \A i \in 1..(Len(s) + Len(new)) : a[i] = IF i <= Len(s) THEN s[i] ELSE new[i - Len(s)]
      BY AddingKeepsShape
    <2> HIDE DEF a
    <2>2. Len(s) \in Nat /\ Len(new) \in Nat /\ DOMAIN a = 1..(Len(s) + Len(new))
          /\ DOMAIN s = 1..Len(s) /\ DOMAIN new = 1..Len(new)
      BY <2>1
    <2>3. \A i \in DOMAIN a : i <= Len(s) => i \in DOMAIN s /\ a[i] = s[i]
      BY <2>1, <2>2
    <2>4. \A i \in DOMAIN a : ~ (i <= Len(s)) => i - Len(s) \in DOMAIN new /\ a[i] = new[i - Len(s)]
      BY <2>1, <2>2
    <2>5. Good(a)
      BY <1>4, <2>3, <2>4, Zenon
    <2> QED
      BY <2>5 DEF a
  <1>5. ASSUME NEW r \in Received, Receive(r) PROVE Good(notes')
    <2>1. ReceivedNote(r) \in Note /\ ~ReceivedNote(r).spent
      BY WalletAssumption DEF ReceivedNote, CreateNote, Note
    <2> DEFINE new == <<ReceivedNote(r)>>
    <2>2. new \in Seq(Note) /\ \A i \in DOMAIN new : ~new[i].spent
      BY <2>1
    <2>3. notes' = AddReceivedNotes(notes, new)
      BY <1>5 DEF Receive
    <2> HIDE DEF new, Good
    <2> QED
      BY <1>2, <1>3, <1>4, <2>2, <2>3
  <1>6. ASSUME NEW t \in Transfers, Applies(t) PROVE Good(notes')
    <2>1. Ids(inputs[t]) \subseteq Revealed
      <3>1. "InBlock" \in Range(inbox[t])
        <4>1. inbox[t] \in Seq({"InBlock", "DispatchError"}) /\ inbox[t] # <<>> /\ Head(inbox[t]) = "InBlock"
          BY <1>6 DEF Applies, TypeOK
        <4>2. 1 \in DOMAIN inbox[t] /\ inbox[t][1] = "InBlock"
          BY <4>1
        <4> QED
          BY <4>2 DEF Range
      <3>2. PICK i \in DOMAIN ledger : ledger[i].tx = t /\ ledger[i].ok
        BY <1>1, <3>1 DEF Reported, Accepted
      <3> QED
        BY <3>2 DEF Revealed
    <2>2. Marks(t) \in Seq(Note) /\ DOMAIN Marks(t) = DOMAIN notes
      BY <1>2, MarkingKeepsShape DEF Marks
    <2>3. \A i \in DOMAIN notes : /\ Marks(t)[i].id = notes[i].id
                                  /\ Marks(t)[i].spent <=> notes[i].spent \/ notes[i].id \in Ids(inputs[t])
      BY <1>2, MarkingKeepsShape DEF Marks
    <2>4. Good(Marks(t))
      BY <1>1, <1>3, <2>1, <2>2, <2>3, Zenon
    <2>5. outputs[t] \in Seq(Note) /\ \A i \in DOMAIN outputs[t] : ~outputs[t][i].spent
      BY DEF TypeOK, StoreInv, OutputsFresh
    <2> HIDE DEF Good
    <2>6. Good(AddReceivedNotes(Marks(t), outputs[t]))
      BY <1>4, <2>2, <2>4, <2>5
    <2>7. notes' \in {notes, Marks(t), AddReceivedNotes(Marks(t), outputs[t])}
      BY <1>6 DEF Applies
    <2> QED
      BY <1>3, <2>4, <2>6, <2>7
  <1>7. Good(notes')
    <2> HIDE DEF Good
    <2>1. ASSUME ImportNotes \/ ClearAllNotes PROVE Good(notes')
      <3>1. (notes' = backup /\ backup # None) \/ notes' = <<>>
        BY <2>1 DEF ImportNotes, ClearAllNotes
      <3> QED
        BY <1>3, <3>1
    <2> QED
      BY <1>3, <1>5, <1>6, <2>1, StoreStep
  <1>8. backup' # None => Good(backup')
    <2> HIDE DEF Good
    <2> QED
      BY <1>3, BackupStep
  <1> QED
    BY <1>7, <1>8

\* ChainInvStep: ChainInv is inductive.
LEMMA ChainInvStep == TypeOK /\ StoreInv /\ ChainInv /\ [Next]_vars => ChainInv'
  <1> SUFFICES ASSUME TypeOK, StoreInv, ChainInv, [Next]_vars PROVE ChainInv'
    OBVIOUS
  <1>1. Sent'
    BY SentStep DEF ChainInv
  <1>2. ASSUME retracted' = 0 PROVE Reported'
    BY <1>2, ReportedStep
  <1>3. ASSUME retracted' = 0
        PROVE  /\ \A i \in DOMAIN notes' : notes'[i].spent => notes'[i].id \in Revealed'
               /\ backup' # None =>
                     \A i \in DOMAIN backup' : backup'[i].spent => backup'[i].id \in Revealed'
    BY <1>3, SpentStep
  <1> QED
    BY <1>1, <1>2, <1>3, Zenon DEF ChainInv, SpentRevealed

\* ChainInvHolds: ChainInv holds throughout.
LEMMA ChainInvHolds == Spec => []ChainInv
  <1>1. Init => ChainInv
    <2> SUFFICES ASSUME Init PROVE ChainInv
      OBVIOUS
    <2>1. Sent
      BY DEF Init, Sent, OnLedger
    <2>2. Reported
      BY DEF Init, Reported, Range
    <2>3. SpentRevealed(notes) /\ backup = None
      BY DEF Init, SpentRevealed
    <2> QED
      BY <2>1, <2>2, <2>3 DEF ChainInv
  <1> QED
    BY <1>1, ChainInvStep, StoreInvHolds, TypeCorrect, PTL DEF Spec

\* SpentIsRevealed: while no block is retracted, a note the store calls spent is spent
\* on chain, whatever order callbacks, restarts, imports and refused writes come in.
THEOREM SpentIsRevealed == Spec => []SpentOnlyIfRevealed
  <1>1. ChainInv => SpentOnlyIfRevealed
    BY Zenon DEF ChainInv, SpentRevealed, SpentOnlyIfRevealed
  <1> QED
    BY <1>1, ChainInvHolds, PTL

(***************************************************************************)
(* What the store owes the chain.  Without a restore no note leaves the    *)
(* store, so a transfer's inputs stay in it, and once its callback has run *)
(* to its end it stays applied: notes that come later are received ones    *)
(* that were not in the store, or outputs of transfers.                    *)
(***************************************************************************)
\* Complete(s, in, out): the store s has the transfer of in to out applied.
Complete(s, in, out) ==
    /\ Ids(out) \subseteq Ids(s)
    /\ \A j \in DOMAIN s : s[j].id \in Ids(in) => s[j].spent

\* Made(t): the commitments of the notes t creates; Stored(t): one is in the store.
Made(t) == {<<"payment", t>>, <<"change", t>>}
Stored(t) == \E j \in DOMAIN notes : notes[j].id \in Made(t)

Gone == \A t \in Transfers : pc[t] = "lost" => t \notin listening

AppliedInv ==
    /\ Gone
    /\ ~env.restore => /\ \A t \in Transfers : Ids(inputs[t]) \subseteq Ids(notes)
                       /\ \A t \in Transfers : pc[t] = "done" => Complete(notes, inputs[t], outputs[t])
    /\ ~env.restore => \A t \in Transfers : Stored(t) => pc[t] \notin Early /\ Complete(notes, inputs[t], outputs[t])
    /\ AcceptedIsApplied

\* EnvironmentStep: the environment is chosen once.
LEMMA EnvironmentStep ==
    ASSUME [Next]_vars
    PROVE  env' = env
  <1>1. ASSUME NEW r \in Received, Receive(r) PROVE env' = env
    BY <1>1 DEF Receive
  <1>2. ASSUME NEW t \in Transfers, Advance(t) PROVE env' = env
    BY <1>2 DEF Advance, Prepare, Proved, Submit, Continue
  <1>3. ASSUME NEW t \in Transfers, Deliver(t) PROVE env' = env
    BY <1>3 DEF Deliver, OnDispatchError, OnInBlock, OnInBlockRefused
  <1>4. ASSUME NEW t \in Transfers, NEW amount \in TransferAmounts, BeginTransfer(t, amount)
        PROVE  env' = env
    BY <1>4 DEF BeginTransfer
  <1>5. ASSUME NEW t \in Transfers, Include(t) PROVE env' = env
    BY <1>5 DEF Include, clientVars
  <1>6. ASSUME NEW n \in DOMAIN ledger, Retract(n) PROVE env' = env
    BY <1>6 DEF Retract, clientVars
  <1>7. ASSUME NEW d \in Deposits, SubmitDeposit(d) \/ OnDepositInBlock(d) \/ OnDepositError(d)
        PROVE  env' = env
    BY <1>7 DEF SubmitDeposit, OnDepositInBlock, OnDepositError
  <1>8. ASSUME ExportNotes \/ ImportNotes \/ ClearAllNotes \/ Restart PROVE env' = env
    BY <1>8 DEF ExportNotes, ImportNotes, ClearAllNotes, Restart
  <1>9. ASSUME UNCHANGED vars PROVE env' = env
    BY <1>9 DEF vars, clientVars
  <1> QED
    BY <1>1, <1>2, <1>3, <1>4, <1>5, <1>6, <1>7, <1>8, <1>9, Zenon DEF Next

\* FinishingCompletes: a callback whose writes succeed applies its transfer.
LEMMA FinishingCompletes ==
    ASSUME TypeOK, StoreInv, NEW t \in Transfers, OnInBlock(t)
    PROVE  Complete(notes', inputs[t], outputs[t])
  <1> DEFINE m == Marks(t)
             a == AddReceivedNotes(m, outputs[t])
  <1>1. notes' = a
    BY DEF OnInBlock, Marks
  <1>2. notes \in Seq(Note) /\ outputs[t] \in Seq(Note)
    BY DEF TypeOK
  <1>3. m \in Seq(Note) /\ DOMAIN m = DOMAIN notes
        /\ \A i \in DOMAIN notes : m[i].id = notes[i].id /\ (m[i].spent <=> notes[i].spent \/ notes[i].id \in Ids(inputs[t]))
    BY <1>2, MarkingKeepsShape DEF Marks
  <1> HIDE DEF m
  <1>4. /\ a \in Seq(Note) /\ Len(a) = Len(m) + Len(outputs[t])
        /\ \A i \in 1..(Len(m) + Len(outputs[t])) :
              a[i] = IF i <= Len(m) THEN m[i] ELSE outputs[t][i - Len(m)]
    BY <1>2, <1>3, AddingKeepsShape
  <1> HIDE DEF a
  <1> DEFINE out == outputs[t]
  <1>5. out \in Seq(Note)
    BY <1>2
  <1>6. Ids(inputs[t]) \subseteq FromChain
    BY DEF StoreInv, InputsAreReceived, FromChain
  <1>7. \A i \in DOMAIN out : out[i].id \notin FromChain
    <2>1. \A i \in DOMAIN out : out[i].id \in {<<"payment", t>>, <<"change", t>>}
      BY DEF StoreInv, OutputsFresh
    <2> HIDE DEF out
    <2> QED
      BY <2>1, NotFromChain, Zenon
  <1>8. /\ Len(m) \in Nat /\ Len(out) \in Nat /\ DOMAIN a = 1..(Len(m) + Len(out))
        /\ DOMAIN m = 1..Len(m) /\ DOMAIN out = 1..Len(out)
    BY <1>3, <1>4, <1>5
  <1> HIDE DEF out
  <1>9. \A i \in DOMAIN a : i <= Len(m) => i \in DOMAIN m /\ a[i] = m[i]
    BY <1>4, <1>8 DEF out
  <1>10. \A i \in DOMAIN a : ~ (i <= Len(m)) => i - Len(m) \in DOMAIN out /\ a[i] = out[i - Len(m)]
    BY <1>4, <1>8 DEF out
  <1>11. \A k \in DOMAIN out : k + Len(m) \in DOMAIN a /\ a[k + Len(m)] = out[k]
    BY <1>4, <1>8 DEF out
  <1>12. Ids(out) \subseteq Ids(a)
    BY <1>11, Zenon DEF Ids
  <1>13. ASSUME NEW j \in DOMAIN a, a[j].id \in Ids(inputs[t]) PROVE a[j].spent
    <2>1. CASE j <= Len(m)
      BY <1>3, <1>9, <1>13, <2>1, Zenon
    <2>2. CASE ~ (j <= Len(m))
      BY <1>6, <1>7, <1>10, <1>13, <2>2, Zenon
    <2> QED
      BY <2>1, <2>2
  <1>14. Complete(a, inputs[t], out)
    BY <1>12, <1>13 DEF Complete
  <1> QED
    BY <1>1, <1>14 DEF out

\* NewcomersAreNew: without import and clear, what comes into the store is an output
\* or a received note that was not there.
LEMMA NewcomersAreNew ==
    ASSUME TypeOK, StoreInv, [Next]_vars, ~ (ImportNotes \/ ClearAllNotes)
    PROVE  \A j \in DOMAIN notes' : \/ j \in DOMAIN notes
                                    \/ notes'[j].id \notin Ids(notes)
                                    \/ notes'[j].id \notin FromChain
  <1>1. notes \in Seq(Note)
    BY DEF TypeOK
  <1> DEFINE Fresh(id) == id \notin Ids(notes) \/ id \notin FromChain
  <1>2. ASSUME NEW s \in Seq(Note), NEW new \in Seq(Note), DOMAIN s = DOMAIN notes,
               \A i \in DOMAIN new : Fresh(new[i].id)
        PROVE  \A j \in DOMAIN AddReceivedNotes(s, new) :
                  j \in DOMAIN notes \/ Fresh(AddReceivedNotes(s, new)[j].id)
    <2> DEFINE a == AddReceivedNotes(s, new)
    <2>1. /\ a \in Seq(Note) /\ Len(a) = Len(s) + Len(new)
          /\ \A i \in 1..(Len(s) + Len(new)) : a[i] = IF i <= Len(s) THEN s[i] ELSE new[i - Len(s)]
      BY AddingKeepsShape
    <2> HIDE DEF a, Fresh
    <2>2. Len(s) \in Nat /\ Len(new) \in Nat /\ DOMAIN a = 1..(Len(s) + Len(new))
          /\ DOMAIN s = 1..Len(s) /\ DOMAIN new = 1..Len(new)
      BY <2>1
    <2>3. \A i \in DOMAIN a : i <= Len(s) => i \in DOMAIN s
      BY <2>1, <2>2
    <2>4. \A i \in DOMAIN a : ~ (i <= Len(s)) => i - Len(s) \in DOMAIN new /\ a[i] = new[i - Len(s)]
      BY <2>1, <2>2
    <2>5. \A j \in DOMAIN a : j \in DOMAIN notes \/ Fresh(a[j].id)
      BY <1>2, <2>3, <2>4, Zenon
    <2> QED
      BY <2>5 DEF a
  <1>3. ASSUME NEW r \in Received, Receive(r)
        PROVE  \A j \in DOMAIN notes' : j \in DOMAIN notes \/ Fresh(notes'[j].id)
    <2>1. ReceivedNote(r) \in Note /\ ReceivedNote(r).id = <<"received", r>>
      BY WalletAssumption DEF ReceivedNote, CreateNote, Note
    <2> DEFINE new == <<ReceivedNote(r)>>
    <2>2. new \in Seq(Note) /\ \A i \in DOMAIN new : new[i].id = <<"received", r>>
      BY <2>1
    <2>3. notes' = AddReceivedNotes(notes, new) /\ <<"received", r>> \notin Ids(notes)
      BY <1>3 DEF Receive
    <2> HIDE DEF new
    <2>4. \A i \in DOMAIN new : Fresh(new[i].id)
      BY <2>2, <2>3
    <2> HIDE DEF Fresh
    <2> QED
      BY <1>1, <1>2, <2>2, <2>3, <2>4
  <1>4. ASSUME NEW t \in Transfers, Applies(t)
        PROVE  \A j \in DOMAIN notes' : j \in DOMAIN notes \/ Fresh(notes'[j].id)
    <2>1. Marks(t) \in Seq(Note) /\ DOMAIN Marks(t) = DOMAIN notes
      BY <1>1, MarkingKeepsShape DEF Marks
    <2>2. outputs[t] \in Seq(Note)
          /\ \A i \in DOMAIN outputs[t] : outputs[t][i].id \in {<<"payment", t>>, <<"change", t>>}
      BY DEF TypeOK, StoreInv, OutputsFresh
    <2>3. \A i \in DOMAIN outputs[t] : Fresh(outputs[t][i].id)
      BY <2>2, NotFromChain, Zenon
    <2> HIDE DEF Fresh
    <2>4. \A j \in DOMAIN AddReceivedNotes(Marks(t), outputs[t]) :
             j \in DOMAIN notes \/ Fresh(AddReceivedNotes(Marks(t), outputs[t])[j].id)
      BY <1>2, <2>1, <2>2, <2>3
    <2>5. notes' \in {notes, Marks(t), AddReceivedNotes(Marks(t), outputs[t])}
      BY <1>4 DEF Applies
    <2> QED
      BY <2>1, <2>4, <2>5
  <1>5. \A j \in DOMAIN notes' : j \in DOMAIN notes \/ Fresh(notes'[j].id)
    <2> HIDE DEF Fresh
    <2> QED
      BY <1>3, <1>4, StoreStep
  <1> QED
    BY <1>5

\* CompleteStays: a transfer that is applied stays applied.
LEMMA CompleteStays ==
    ASSUME TypeOK, StoreInv, [Next]_vars, ~env.restore, NEW t \in Transfers,
           Ids(inputs[t]) \subseteq Ids(notes), Complete(notes, inputs[t], outputs[t])
    PROVE  Complete(notes', inputs[t], outputs[t])
  <1>1. ~ (ImportNotes \/ ClearAllNotes)
    BY DEF ImportNotes, ClearAllNotes
  <1>2. Grown(notes, notes')
    BY <1>1, StepGrows
  <1>3. \A j \in DOMAIN notes' : \/ j \in DOMAIN notes
                                 \/ notes'[j].id \notin Ids(notes)
                                 \/ notes'[j].id \notin FromChain
    BY <1>1, NewcomersAreNew
  <1>4. Ids(inputs[t]) \subseteq FromChain
    BY DEF StoreInv, InputsAreReceived, FromChain
  <1>5. Ids(notes) \subseteq Ids(notes')
    BY <1>2, Zenon DEF Grown, Ids
  <1>6. ASSUME NEW j \in DOMAIN notes', notes'[j].id \in Ids(inputs[t]) PROVE notes'[j].spent
    <2>1. j \in DOMAIN notes
      BY <1>3, <1>4, <1>6
    <2> QED
      BY <1>2, <1>6, <2>1 DEF Grown, Complete
  <1> QED
    BY <1>5, <1>6 DEF Complete

\* CallbackStep: after it was submitted, a transfer's promise, its subscription and
\* its updates change when its callback runs, when it is included and at a restart.
LEMMA CallbackStep ==
    ASSUME TypeOK, [Next]_vars, NEW u \in Transfers, pc[u] \notin Early
    PROVE  \/ /\ pc'[u] = pc[u] /\ (u \in listening' <=> u \in listening)
              /\ inbox'[u] = inbox[u] \/ Include(u)
           \/ Deliver(u)
           \/ Restart
  <1> DEFINE Same == /\ pc'[u] = pc[u] /\ (u \in listening' <=> u \in listening)
                     /\ inbox'[u] = inbox[u]
  <1>0. /\ pc \in [Transfers -> Pending \cup {"idle", "done", "failed", "lost"}]
        /\ inbox \in [Transfers -> Seq({"InBlock", "DispatchError"})]
    BY DEF TypeOK
  <1>1. ASSUME NEW r \in Received, Receive(r) PROVE Same
    BY <1>1 DEF Receive, chainVars
  <1>2. ASSUME NEW t \in Transfers, NEW amount \in TransferAmounts, BeginTransfer(t, amount)
        PROVE  Same
    <2>1. pc[t] = "idle" /\ \E to \in {"fetching", "failed"} : pc' = [pc EXCEPT ![t] = to]
      BY <1>2 DEF BeginTransfer
    <2>2. t # u
      BY <2>1 DEF Early
    <2>3. pc'[u] = pc[u]
      BY <1>0, <2>1, <2>2
    <2> QED
      BY <1>2, <2>3 DEF BeginTransfer, chainVars
  <1>3. ASSUME NEW t \in Transfers, Advance(t) PROVE Same
    <2>1. CASE Prepare(t) \/ \E ok \in BOOLEAN : Proved(t, ok)
      <3>1. PICK from \in {"fetching", "proving"}, to \in {"proving", "verifying", "failed"} :
                 Continue(t, from, to)
        BY <2>1 DEF Prepare, Proved
      <3>2. pc'[u] = pc[u]
        BY <1>0, <3>1 DEF Continue, Early
      <3> QED
        BY <3>1, <3>2 DEF Continue, chainVars
    <2>2. CASE \E verified, sent \in BOOLEAN : Submit(t, verified, sent)
      <3>1. /\ inbox' = inbox /\ pc[t] = "verifying"
            /\ listening' = listening \/ listening' = listening \cup {t}
        BY <2>2 DEF Submit
      <3>2. \E to \in {"submitted", "failed"} : pc' = [pc EXCEPT ![t] = to]
        BY <2>2 DEF Submit
      <3>3. t # u
        BY <3>1 DEF Early
      <3>4. pc'[u] = pc[u]
        BY <1>0, <3>2, <3>3
      <3> QED
        BY <3>1, <3>3, <3>4
    <2> QED
      BY <1>3, <2>1, <2>2 DEF Advance
  <1>4. ASSUME NEW t \in Transfers, Deliver(t) PROVE Same \/ Deliver(u)
    <2>1. CASE t = u
      BY <1>4, <2>1
    <2>2. CASE t # u
      <3>1. inbox'[u] = inbox[u]
        BY <1>4, <2>2, DeliverTakesHead
      <3>2. listening' = listening /\ (pc' = pc \/ \E to \in {"failed", "done"} : Settle(t, to))
        BY <1>4 DEF Deliver, OnDispatchError, OnInBlock, OnInBlockRefused
      <3>3. pc'[u] = pc[u]
        BY <1>0, <2>2, <3>2 DEF Settle
      <3> QED
        BY <3>1, <3>2, <3>3
    <2> QED
      BY <2>1, <2>2
  <1>5. ASSUME NEW t \in Transfers, Include(t)
        PROVE  /\ pc'[u] = pc[u] /\ (u \in listening' <=> u \in listening)
               /\ inbox'[u] = inbox[u] \/ Include(u)
    <2>1. pc' = pc /\ listening' = listening
      BY <1>5 DEF Include, clientVars
    <2>2. CASE t = u
      BY <1>5, <2>1, <2>2
    <2>3. CASE t # u
      BY <1>5, <2>1, <2>3, IncludeReports
    <2> QED
      BY <2>2, <2>3
  <1>6. ASSUME NEW n \in DOMAIN ledger, Retract(n) PROVE Same
    BY <1>6 DEF Retract, clientVars
  <1>7. ASSUME NEW d \in Deposits, SubmitDeposit(d) \/ OnDepositInBlock(d) \/ OnDepositError(d)
        PROVE  Same
    BY <1>7 DEF SubmitDeposit, OnDepositInBlock, OnDepositError, chainVars
  <1>8. ASSUME ExportNotes \/ ImportNotes \/ ClearAllNotes PROVE Same
    BY <1>8 DEF ExportNotes, ImportNotes, ClearAllNotes, chainVars
  <1>9. ASSUME UNCHANGED vars PROVE Same
    BY <1>9 DEF vars, clientVars, chainVars
  <1>10. Same \/ (\E t \in Transfers : Include(t)) \/ Deliver(u) \/ Restart
    <2> HIDE DEF Same
    <2> QED
      BY <1>1, <1>2, <1>3, <1>4, <1>6, <1>7, <1>8, <1>9, Zenon DEF Next
  <1> QED
    BY <1>5, <1>10, Zenon

\* PromiseStep: a promise is resolved by its own callback, and given up at a restart
\* only, which takes the subscription with it.
LEMMA PromiseStep ==
    ASSUME TypeOK, Sent, Gone, [Next]_vars, NEW u \in Transfers
    PROVE  /\ pc'[u] = "done" => pc[u] = "done" \/ OnInBlock(u)
           /\ pc'[u] = "lost" => u \notin listening'
  <1>0. pc \in [Transfers -> Pending \cup {"idle", "done", "failed", "lost"}]
    BY DEF TypeOK
  <1>1. CASE pc[u] \in Early
    <2>1. pc'[u] \notin {"done", "lost"} \/ Restart
      <3>1. ASSUME NEW t \in Transfers, NEW amount \in TransferAmounts, BeginTransfer(t, amount)
            PROVE  pc'[u] \notin {"done", "lost"}
        <4>1. \E to \in {"fetching", "failed"} : pc' = [pc EXCEPT ![t] = to]
          BY <3>1 DEF BeginTransfer
        <4> QED
          BY <1>0, <1>1, <4>1 DEF Early
      <3>2. ASSUME NEW t \in Transfers, Advance(t) PROVE pc'[u] \notin {"done", "lost"}
        <4>1. \E to \in {"proving", "verifying", "submitted", "failed"} : pc' = [pc EXCEPT ![t] = to]
          BY <3>2 DEF Advance, Prepare, Proved, Submit, Continue
        <4> QED
          BY <1>0, <1>1, <4>1 DEF Early
      <3>3. ASSUME NEW t \in Transfers, Deliver(t) PROVE pc'[u] \notin {"done", "lost"}
        <4>1. pc' = pc \/ \E to \in {"failed", "done"} : Settle(t, to)
          BY <3>3 DEF Deliver, OnDispatchError, OnInBlock, OnInBlockRefused
        <4> QED
          BY <1>0, <1>1, <4>1 DEF Early, Settle
      <3>4. ASSUME pc' = pc PROVE pc'[u] \notin {"done", "lost"}
        BY <1>1, <3>4 DEF Early
      <3>5. ASSUME NEW r \in Received, Receive(r) PROVE pc' = pc
        BY <3>5 DEF Receive
      <3>6. ASSUME NEW t \in Transfers, Include(t) PROVE pc' = pc
        BY <3>6 DEF Include, clientVars
      <3>7. ASSUME NEW n \in DOMAIN ledger, Retract(n) PROVE pc' = pc
        BY <3>7 DEF Retract, clientVars
      <3>8. ASSUME NEW d \in Deposits, SubmitDeposit(d) \/ OnDepositInBlock(d) \/ OnDepositError(d)
            PROVE  pc' = pc
        BY <3>8 DEF SubmitDeposit, OnDepositInBlock, OnDepositError
      <3>9. ASSUME ExportNotes \/ ImportNotes \/ ClearAllNotes PROVE pc' = pc
        BY <3>9 DEF ExportNotes, ImportNotes, ClearAllNotes
      <3>10. ASSUME UNCHANGED vars PROVE pc' = pc
        BY <3>10 DEF vars, clientVars
      <3> QED
        BY <3>1, <3>2, <3>3, <3>4, <3>5, <3>6, <3>7, <3>8, <3>9, <3>10, Zenon DEF Next
    <2>2. CASE Restart
      <3>1. pc'[u] = "lost" \/ pc'[u] = pc[u]
        BY <2>2 DEF Restart
      <3>2. listening' = {}
        BY <2>2 DEF Restart
      <3> QED
        BY <1>1, <3>1, <3>2 DEF Early
    <2> QED
      BY <2>1, <2>2
  <1>2. CASE pc[u] \notin Early
    <2>1. CASE pc'[u] = pc[u] /\ (u \in listening' <=> u \in listening)
      BY <2>1 DEF Gone
    <2>2. CASE Deliver(u)
      <3>1. listening' = listening
        BY <2>2 DEF Deliver, OnDispatchError, OnInBlock, OnInBlockRefused
      <3>2. OnInBlock(u) \/ Settle(u, "failed") \/ pc' = pc
        BY <2>2 DEF Deliver, OnDispatchError, OnInBlockRefused
      <3>3. OnInBlock(u) => Settle(u, "done")
        BY DEF OnInBlock
      <3>4. CASE pc'[u] = pc[u]
        BY <3>1, <3>4 DEF Gone
      <3>5. CASE OnInBlock(u)
        <4>1. pc'[u] = IF pc[u] = "submitted" THEN "done" ELSE pc[u]
          BY <1>0, <3>3, <3>5 DEF Settle
        <4> QED
          BY <3>4, <3>5, <4>1
      <3>6. CASE Settle(u, "failed")
        <4>1. pc'[u] = IF pc[u] = "submitted" THEN "failed" ELSE pc[u]
          BY <1>0, <3>6 DEF Settle
        <4> QED
          BY <3>4, <4>1
      <3> QED
        BY <3>2, <3>4, <3>5, <3>6
    <2>3. CASE Restart
      <3>1. listening' = {} /\ (pc'[u] = "lost" \/ pc'[u] = pc[u])
        BY <2>3 DEF Restart
      <3> QED
        BY <3>1
    <2> QED
      BY <1>2, <2>1, <2>2, <2>3, CallbackStep
  <1> QED
    BY <1>1, <1>2

\* AppliedHold: the inputs of a transfer stay in the store, and a resolved promise
\* means an applied transfer.
LEMMA AppliedHold ==
    ASSUME TypeOK, StoreInv, ChainInv, AppliedInv, [Next]_vars, ~env.restore, NEW u \in Transfers
    PROVE  /\ Ids(inputs'[u]) \subseteq Ids(notes')
           /\ pc'[u] = "done" => Complete(notes', inputs'[u], outputs'[u])
           /\ pc[u] = "done" => Complete(notes', inputs[u], outputs[u])
  <1>1. ~ (ImportNotes \/ ClearAllNotes)
    BY DEF ImportNotes, ClearAllNotes
  <1>2. Grown(notes, notes')
    BY <1>1, StepGrows
  <1>3. Ids(notes) \subseteq Ids(notes')
    BY <1>2, Zenon DEF Grown, Ids
  <1>4. /\ Ids(inputs[u]) \subseteq Ids(notes)
        /\ pc[u] = "done" => Complete(notes, inputs[u], outputs[u])
    BY Zenon DEF AppliedInv
  <1>5. Ids(inputs'[u]) \subseteq Ids(notes)
    <2>1. ASSUME NEW t \in Transfers, NEW amount \in TransferAmounts, BeginTransfer(t, amount)
          PROVE  inputs'[u] = inputs[u] \/ Ids(inputs'[u]) \subseteq Ids(notes)
      <3>1. CASE u = t
        BY <2>1, <3>1, BeginHolds
      <3>2. CASE u # t
        BY <2>1, <3>2, BeginHolds
      <3> QED
        BY <3>1, <3>2
    <2>2. inputs'[u] = inputs[u] \/ Ids(inputs'[u]) \subseteq Ids(notes)
      BY <2>1, CallsStep
    <2> QED
      BY <1>4, <2>2
  <1>6. pc[u] = "done" => Complete(notes', inputs[u], outputs[u])
    BY <1>4, CompleteStays
  <1>7. ASSUME pc'[u] = "done" PROVE Complete(notes', inputs'[u], outputs'[u])
    <2>1. pc[u] = "done" \/ OnInBlock(u)
      BY <1>7, PromiseStep DEF ChainInv, AppliedInv
    <2>2. CASE pc[u] = "done"
      <3>1. inputs'[u] = inputs[u] /\ outputs'[u] = outputs[u]
        BY <2>2, LedgerInputsFixed DEF ChainInv
      <3> QED
        BY <1>6, <2>2, <3>1
    <2>3. CASE OnInBlock(u)
      <3>1. inputs'[u] = inputs[u] /\ outputs'[u] = outputs[u]
        BY <2>3 DEF OnInBlock
      <3>2. Complete(notes', inputs[u], outputs[u])
        BY <2>3, FinishingCompletes
      <3> QED
        BY <3>1, <3>2
    <2> QED
      BY <2>1, <2>2, <2>3
  <1> QED
    BY <1>3, <1>5, <1>6, <1>7

\* UnsavedStep: a callback that threw is made good by one whose writes succeed.
LEMMA UnsavedStep ==
    ASSUME TypeOK, [Next]_vars, NEW u \in Transfers, u \in unsaved
    PROVE  u \in unsaved' \/ OnInBlock(u)
  <1>1. ASSUME NEW t \in Transfers, Advance(t) \/ Include(t) PROVE unsaved' = unsaved
    BY <1>1 DEF Advance, Prepare, Proved, Submit, Continue, Include
  <1>2. ASSUME NEW t \in Transfers, Deliver(t) PROVE u \in unsaved' \/ OnInBlock(u)
    <2>1. CASE OnInBlock(t)
      BY <2>1 DEF OnInBlock
    <2>2. CASE OnDispatchError(t)
      BY <2>2 DEF OnDispatchError
    <2>3. CASE \E marked \in BOOLEAN : OnInBlockRefused(t, marked)
      BY <2>3 DEF OnInBlockRefused
    <2> QED
      BY <1>2, <2>1, <2>2, <2>3 DEF Deliver
  <1>3. ASSUME NEW t \in Transfers, NEW amount \in TransferAmounts, BeginTransfer(t, amount)
        PROVE  unsaved' = unsaved
    BY <1>3 DEF BeginTransfer
  <1>4. ASSUME NEW d \in Deposits, SubmitDeposit(d) \/ OnDepositInBlock(d) \/ OnDepositError(d)
        PROVE  unsaved' = unsaved
    BY <1>4 DEF SubmitDeposit, OnDepositInBlock, OnDepositError
  <1>5. ASSUME NEW n \in DOMAIN ledger, Retract(n) PROVE unsaved' = unsaved
    BY <1>5 DEF Retract
  <1>6. ASSUME NEW r \in Received, Receive(r) PROVE unsaved' = unsaved
    BY <1>6 DEF Receive
  <1>7. ASSUME ExportNotes \/ ImportNotes \/ ClearAllNotes \/ Restart PROVE unsaved' = unsaved
    BY <1>7 DEF ExportNotes, ImportNotes, ClearAllNotes, Restart
  <1>8. ASSUME UNCHANGED vars PROVE unsaved' = unsaved
    BY <1>8 DEF vars
  <1> QED
    BY <1>1, <1>2, <1>3, <1>4, <1>5, <1>6, <1>7, <1>8, Zenon DEF Next

\* StoredByCallback: the first output of a transfer to come into the store is put
\* there by a callback of that transfer whose writes succeed.
LEMMA StoredByCallback ==
    ASSUME TypeOK, StoreInv, [Next]_vars, ~env.restore, NEW u \in Transfers, Stored(u)', ~Stored(u)
    PROVE  OnInBlock(u)
  <1>1. notes \in Seq(Note)
    BY DEF TypeOK
  <1>2. PICK j \in DOMAIN notes' : notes'[j].id \in Made(u)
    BY DEF Stored, Made
  <1>3. ASSUME NEW r \in Received, Receive(r) PROVE FALSE
    <2>1. ReceivedNote(r) \in Note /\ ReceivedNote(r).id = <<"received", r>>
      BY WalletAssumption DEF ReceivedNote, CreateNote, Note
    <2> DEFINE new == <<ReceivedNote(r)>>
    <2>2. new \in Seq(Note) /\ Len(new) = 1 /\ new[1].id = <<"received", r>>
      BY <2>1
    <2>3. notes' = AddReceivedNotes(notes, new)
      BY <1>3 DEF Receive
    <2> HIDE DEF new
    <2>4. /\ Len(notes) \in Nat /\ DOMAIN notes = 1..Len(notes) /\ DOMAIN notes' = 1..(Len(notes) + 1)
          /\ \A i \in 1..(Len(notes) + 1) : notes'[i] = IF i <= Len(notes) THEN notes[i] ELSE new[i - Len(notes)]
      <3> DEFINE a == AddReceivedNotes(notes, new)
      <3>1. /\ a \in Seq(Note) /\ Len(a) = Len(notes) + Len(new)
            /\ \A i \in 1..(Len(notes) + Len(new)) : a[i] = IF i <= Len(notes) THEN notes[i] ELSE new[i - Len(notes)]
        BY <1>1, <2>2, AddingKeepsShape
      <3>2. notes' = a
        BY <2>3
      <3> HIDE DEF a
      <3> QED
        BY <1>1, <2>2, <3>1, <3>2
    <2>5. \A i \in DOMAIN notes' : (i \in DOMAIN notes /\ notes'[i] = notes[i]) \/ notes'[i] = new[1]
      BY <2>4
    <2>6. notes'[j].id \notin FromChain
      BY <1>2, NotFromChain DEF Made
    <2>7. notes'[j].id # <<"received", r>>
      BY <2>6 DEF FromChain
    <2> QED
      BY <1>2, <2>2, <2>5, <2>7, Zenon DEF Stored
  <1>4. ASSUME NEW t \in Transfers, Deliver(t) PROVE OnInBlock(u)
    <2>1. Marks(t) \in Seq(Note) /\ DOMAIN Marks(t) = DOMAIN notes
          /\ \A i \in DOMAIN notes : Marks(t)[i].id = notes[i].id
      BY <1>1, MarkingKeepsShape DEF Marks
    <2>2. CASE OnDispatchError(t) \/ \E marked \in BOOLEAN : OnInBlockRefused(t, marked)
      <3>1. notes' = notes \/ notes' = Marks(t)
        BY <2>2 DEF OnDispatchError, OnInBlockRefused, Marks
      <3>2. Stored(u)
        BY <1>2, <2>1, <3>1, Zenon DEF Stored
      <3> QED
        BY <3>2
    <2>3. CASE OnInBlock(t)
      <3> DEFINE out == outputs[t]
      <3>1. out \in Seq(Note) /\ \A i \in DOMAIN out : out[i].id \in Made(t)
        BY DEF TypeOK, StoreInv, OutputsFresh, Made
      <3>2. notes' = AddReceivedNotes(Marks(t), out)
        BY <2>3 DEF OnInBlock, Marks
      <3> HIDE DEF out
      <3>3. /\ Len(Marks(t)) \in Nat /\ Len(out) \in Nat /\ DOMAIN Marks(t) = 1..Len(Marks(t))
            /\ DOMAIN out = 1..Len(out) /\ DOMAIN notes' = 1..(Len(Marks(t)) + Len(out))
            /\ \A i \in 1..(Len(Marks(t)) + Len(out)) :
                  notes'[i] = IF i <= Len(Marks(t)) THEN Marks(t)[i] ELSE out[i - Len(Marks(t))]
        <4> DEFINE m == Marks(t)
                   a == AddReceivedNotes(m, out)
        <4>1. m \in Seq(Note)
          BY <2>1
        <4>2. notes' = a
          BY <3>2
        <4> HIDE DEF m
        <4>3. /\ a \in Seq(Note) /\ Len(a) = Len(m) + Len(out)
              /\ \A i \in 1..(Len(m) + Len(out)) : a[i] = IF i <= Len(m) THEN m[i] ELSE out[i - Len(m)]
          BY <3>1, <4>1, AddingKeepsShape
        <4> HIDE DEF a
        <4>4. /\ Len(m) \in Nat /\ Len(out) \in Nat /\ DOMAIN m = 1..Len(m)
              /\ DOMAIN out = 1..Len(out) /\ DOMAIN notes' = 1..(Len(m) + Len(out))
              /\ \A i \in 1..(Len(m) + Len(out)) : notes'[i] = IF i <= Len(m) THEN m[i] ELSE out[i - Len(m)]
          BY <3>1, <4>1, <4>2, <4>3
        <4> QED
          BY <4>4 DEF m
      <3>4. \A i \in DOMAIN notes' : \/ i \in DOMAIN Marks(t) /\ notes'[i] = Marks(t)[i]
                                     \/ \E k \in DOMAIN out : notes'[i] = out[k]
        BY <3>3
      <3>5. notes'[j].id \in Made(t)
        BY <1>2, <2>1, <3>1, <3>4, Zenon DEF Stored
      <3>6. t = u
        BY <1>2, <3>5 DEF Made
      <3> QED
        BY <2>3, <3>6
    <2> QED
      BY <1>4, <2>2, <2>3 DEF Deliver
  <1>5. ASSUME notes' = notes PROVE FALSE
    BY <1>5 DEF Stored
  <1>6. ASSUME NEW t \in Transfers, NEW amount \in TransferAmounts, BeginTransfer(t, amount)
        PROVE  notes' = notes
    BY <1>6 DEF BeginTransfer
  <1>7. ASSUME NEW t \in Transfers, Advance(t) \/ Include(t) PROVE notes' = notes
    BY <1>7 DEF Advance, Prepare, Proved, Submit, Continue, Include, clientVars
  <1>8. ASSUME NEW n \in DOMAIN ledger, Retract(n) PROVE notes' = notes
    BY <1>8 DEF Retract, clientVars
  <1>9. ASSUME NEW d \in Deposits, SubmitDeposit(d) \/ OnDepositInBlock(d) \/ OnDepositError(d)
        PROVE  notes' = notes
    BY <1>1, <1>9, NoDepositInStore DEF SubmitDeposit, OnDepositInBlock, OnDepositError
  <1>10. ASSUME ExportNotes \/ ImportNotes \/ ClearAllNotes \/ Restart PROVE notes' = notes
    BY <1>10 DEF ExportNotes, ImportNotes, ClearAllNotes, Restart
  <1>11. ASSUME UNCHANGED vars PROVE notes' = notes
    BY <1>11 DEF vars, clientVars
  <1> QED
    BY <1>3, <1>4, <1>5, <1>6, <1>7, <1>8, <1>9, <1>10, <1>11, Zenon DEF Next

\* StoredHold: a transfer with an output in the store was submitted and is applied.
LEMMA StoredHold ==
    ASSUME TypeOK, StoreInv, ChainInv, AppliedInv, [Next]_vars, ~env.restore, NEW u \in Transfers, Stored(u)'
    PROVE  pc'[u] \notin Early /\ Complete(notes', inputs'[u], outputs'[u])
  <1>1. pc[u] \notin Early /\ Complete(notes', inputs[u], outputs[u])
    <2>1. CASE Stored(u)
      <3>1. pc[u] \notin Early /\ Complete(notes, inputs[u], outputs[u]) /\ Ids(inputs[u]) \subseteq Ids(notes)
        BY <2>1, Zenon DEF AppliedInv
      <3> QED
        BY <3>1, CompleteStays
    <2>2. CASE ~Stored(u)
      <3>1. OnInBlock(u)
        BY <2>2, StoredByCallback
      <3>2. pc[u] \notin Early
        BY <3>1 DEF OnInBlock, ChainInv, Sent
      <3> QED
        BY <3>1, <3>2, FinishingCompletes
    <2> QED
      BY <2>1, <2>2
  <1>2. inputs'[u] = inputs[u] /\ outputs'[u] = outputs[u]
    BY <1>1, LedgerInputsFixed DEF ChainInv, Early
  <1>3. pc'[u] \notin Early
    <2>1. pc'[u] = pc[u] \/ Deliver(u) \/ Restart
      BY <1>1, CallbackStep
    <2>2. CASE Deliver(u)
      <3>1. pc' = pc \/ \E to \in {"failed", "done"} : Settle(u, to)
        BY <2>2 DEF Deliver, OnDispatchError, OnInBlock, OnInBlockRefused
      <3> QED
        BY <1>1, <3>1 DEF TypeOK, Settle, Early
    <2>3. CASE Restart
      BY <1>1, <2>3 DEF Restart, Early
    <2> QED
      BY <1>1, <2>1, <2>2, <2>3
  <1> QED
    BY <1>1, <1>2, <1>3

\* The four ways in which the store may stand to an accepted transfer.
Excused(t) ==
    \/ "InBlock" \in Range(inbox[t])
    \/ t \in unsaved
    \/ t \notin listening /\ pc[t] # "done"
    \/ Complete(notes, inputs[t], outputs[t])

\* ExcusedStays: a transfer on the ledger that is excused stays so.
LEMMA ExcusedStays ==
    ASSUME TypeOK, StoreInv, ChainInv, AppliedInv, [Next]_vars, ~env.restore, NEW u \in Transfers,
           OnLedger(u), Excused(u)
    PROVE  Excused(u)'
  <1>1. inputs'[u] = inputs[u] /\ outputs'[u] = outputs[u]
    BY LedgerInputsFixed DEF ChainInv
  <1>2. env' = env
    BY EnvironmentStep
  <1>3. pc[u] \notin Early
    BY DEF ChainInv, Sent
  <1>4. ASSUME Complete(notes', inputs[u], outputs[u]) PROVE Excused(u)'
    BY <1>1, <1>4 DEF Excused, Complete, Ids
  <1>5. Complete(notes, inputs[u], outputs[u]) => Complete(notes', inputs[u], outputs[u])
    <2>1. Ids(inputs[u]) \subseteq Ids(notes)
      BY Zenon DEF AppliedInv
    <2> QED
      BY <2>1, CompleteStays
  <1>6. pc[u] = "done" => Complete(notes', inputs[u], outputs[u])
    BY AppliedHold
  <1>7. u \in unsaved => u \in unsaved' \/ OnInBlock(u)
    BY UnsavedStep
  <1>8. CASE OnInBlock(u)
    <2>1. Complete(notes', inputs[u], outputs[u])
      BY <1>8, FinishingCompletes
    <2> QED
      BY <1>4, <2>1
  <1>9. CASE /\ pc'[u] = pc[u] /\ (u \in listening' <=> u \in listening)
             /\ inbox'[u] = inbox[u] \/ Include(u)
    <2>1. "InBlock" \in Range(inbox[u]) => "InBlock" \in Range(inbox'[u])
      BY <1>9, IncludeReports
    <2>2. CASE Complete(notes, inputs[u], outputs[u])
      BY <1>4, <1>5, <2>2
    <2>3. CASE "InBlock" \in Range(inbox[u])
      BY <2>1, <2>3 DEF Excused, Range
    <2>4. CASE u \in unsaved
      BY <1>7, <1>8, <2>4 DEF Excused
    <2>5. CASE u \notin listening /\ pc[u] # "done"
      BY <1>9, <2>5 DEF Excused
    <2> QED
      BY <2>2, <2>3, <2>4, <2>5 DEF Excused
  <1>10. CASE Deliver(u)
    <2>2. pc \in [Transfers -> Pending \cup {"idle", "done", "failed", "lost"}] /\ pc[u] # "idle"
      BY <1>3 DEF TypeOK, Early
    <2>3. listening' = listening
      BY <1>10 DEF Deliver, OnDispatchError, OnInBlock, OnInBlockRefused
    <2>4. CASE OnDispatchError(u)
      <3>1. Head(inbox[u]) = "DispatchError"
        BY <2>4 DEF OnDispatchError
      <3>2. "InBlock" \in Range(inbox[u]) => "InBlock" \in Range(inbox'[u])
        <4>1. Range(inbox[u]) = Range(inbox'[u]) \cup {Head(inbox[u])}
          BY <1>10, DeliverTakesHead
        <4> QED
          BY <3>1, <4>1
      <3>3. pc'[u] = IF pc[u] = "submitted" THEN "failed" ELSE pc[u]
        BY <2>2, <2>4 DEF OnDispatchError, Settle
      <3>4. CASE Complete(notes, inputs[u], outputs[u])
        BY <1>4, <1>5, <3>4
      <3>5. CASE "InBlock" \in Range(inbox[u])
        BY <3>2, <3>5 DEF Excused, Range
      <3>6. CASE u \in unsaved
        BY <1>7, <1>8, <3>6 DEF Excused
      <3>7. CASE u \notin listening /\ pc[u] # "done"
        BY <2>3, <3>3, <3>7 DEF Excused
      <3> QED
        BY <3>4, <3>5, <3>6, <3>7 DEF Excused
    <2>5. ASSUME NEW marked \in BOOLEAN, OnInBlockRefused(u, marked) PROVE Excused(u)'
      <3>1. u \in unsaved'
        BY <2>5 DEF OnInBlockRefused
      <3> QED
        BY <3>1 DEF Excused
    <2> QED
      BY <1>10, <1>8, <2>4, <2>5 DEF Deliver
  <1>11. CASE Restart
    <2>1. listening' = {} /\ (pc'[u] = "lost" \/ pc'[u] = pc[u])
      BY <1>11 DEF Restart
    <2>2. CASE pc[u] = "done"
      BY <1>4, <1>6, <2>2
    <2>3. CASE pc[u] # "done"
      BY <2>1, <2>3 DEF Excused
    <2> QED
      BY <2>2, <2>3
  <1> QED
    BY <1>3, <1>9, <1>10, <1>11, CallbackStep

\* AppliedInvStep: AppliedInv is inductive.
LEMMA AppliedInvStep == TypeOK /\ StoreInv /\ ChainInv /\ AppliedInv /\ [Next]_vars => AppliedInv'
  <1> SUFFICES ASSUME TypeOK, StoreInv, ChainInv, AppliedInv, [Next]_vars PROVE AppliedInv'
    OBVIOUS
  <1>1. Gone'
    BY PromiseStep DEF ChainInv, AppliedInv, Gone
  <1>2. env' = env
    BY EnvironmentStep
  <1>3. ASSUME ~env.restore, NEW u \in Transfers
        PROVE  /\ Ids(inputs'[u]) \subseteq Ids(notes')
               /\ pc'[u] = "done" => Complete(notes', inputs'[u], outputs'[u])
    BY <1>3, AppliedHold
  <1>4. ASSUME ~env.restore, NEW u \in Transfers, Accepted(u)' PROVE Excused(u)'
    <2>1. Accepted(u) => Excused(u)'
      <3>1. Accepted(u) => OnLedger(u)
        BY DEF Accepted, OnLedger
      <3>2. Accepted(u) => Excused(u)
        BY <1>4 DEF AppliedInv, AcceptedIsApplied, Excused, Complete, Applied, Marked, Accepted
      <3> QED
        BY <1>4, <3>1, <3>2, ExcusedStays
    <2>2. CASE ledger' = ledger
      <3>1. Accepted(u)
        BY <1>4, <2>2 DEF Accepted
      <3> QED
        BY <2>1, <3>1
    <2>3. ASSUME NEW t \in Transfers, Include(t), ~Accepted(u) PROVE Excused(u)'
      <3>1. PICK i \in DOMAIN ledger' : ledger'[i].tx = u /\ ledger'[i].ok
        BY <1>4 DEF Accepted
      <3>2. \/ i \in DOMAIN ledger /\ ledger'[i] = ledger[i]
            \/ /\ ledger'[i].tx = t
               /\ ledger'[i].ok /\ t \in listening => "InBlock" \in Range(inbox'[t])
        BY <2>3, IncludeReports
      <3>3. u = t /\ (u \in listening => "InBlock" \in Range(inbox'[u]))
        BY <2>3, <3>1, <3>2 DEF Accepted
      <3>4. listening' = listening
        BY <2>3 DEF Include
      <3>5. CASE "InBlock" \in Range(inbox'[u])
        BY <3>5 DEF Excused, Range
      <3>6. CASE u \notin listening /\ pc'[u] # "done"
        BY <3>4, <3>6 DEF Excused
      <3>7. CASE pc'[u] = "done"
        BY <1>3, <1>4, <3>7 DEF Excused, Complete, Ids
      <3> QED
        BY <3>3, <3>5, <3>6, <3>7
    <2>4. ASSUME NEW n \in DOMAIN ledger, Retract(n) PROVE Accepted(u)
      <3>1. ledger \in Seq([tx : Transfers, ok : BOOLEAN]) /\ ledger' = SubSeq(ledger, 1, n - 1)
        BY <2>4 DEF TypeOK, Retract
      <3>2. n \in 1..Len(ledger) /\ Len(ledger) \in Nat /\ DOMAIN ledger = 1..Len(ledger)
        BY LedgerTypes
      <3>3. \A i \in DOMAIN ledger' : i \in DOMAIN ledger /\ ledger'[i] = ledger[i]
        BY <3>1, <3>2
      <3> QED
        BY <1>4, <3>3 DEF Accepted
    <2> QED
      BY <2>1, <2>2, <2>3, <2>4, LedgerStep
  <1>5. AcceptedIsApplied'
    <2>1. TypeOK'
      BY NextTypeOK
    <2>2. \A i \in DOMAIN ledger' : ledger'[i].tx \in Transfers
      <3> DEFINE Tx == [tx : Transfers, ok : BOOLEAN]
      <3>1. ledger' \in Seq(Tx)
        BY <2>1 DEF TypeOK
      <3>2. \A x \in Tx : x.tx \in Transfers
        OBVIOUS
      <3> HIDE DEF Tx
      <3> QED
        BY <3>1, <3>2
    <2>3. SUFFICES ASSUME NEW i \in DOMAIN ledger', ledger'[i].ok, ~env'.restore
                   PROVE  LET t == ledger'[i].tx IN
                          \/ "InBlock" \in Range(inbox'[t])
                          \/ t \in unsaved'
                          \/ t \notin listening' /\ pc'[t] # "done"
                          \/ Complete(notes', inputs'[t], outputs'[t])
      BY Zenon DEF AcceptedIsApplied, Complete, Applied, Marked, Range, Ids
    <2>4. PICK u \in Transfers : u = ledger'[i].tx
      BY <2>2
    <2>5. Accepted(u)'
      BY <2>3, <2>4 DEF Accepted
    <2>6. Excused(u)'
      BY <1>2, <1>4, <2>3, <2>5
    <2> QED
      BY <2>4, <2>6, Zenon DEF Excused, Complete, Range, Ids
  <1>6. ASSUME ~env.restore, NEW u \in Transfers, Stored(u)'
        PROVE  pc'[u] \notin Early /\ Complete(notes', inputs'[u], outputs'[u])
    BY <1>6, StoredHold
  <1> QED
    BY <1>1, <1>2, <1>3, <1>5, <1>6, Zenon DEF AppliedInv, Complete, Ids, Stored, Made, Early

\* AppliedInvHolds: AppliedInv holds throughout.
LEMMA AppliedInvHolds == Spec => []AppliedInv
  <1>1. Init => AppliedInv
    <2> SUFFICES ASSUME Init PROVE AppliedInv
      OBVIOUS
    <2>1. Gone /\ AcceptedIsApplied
      BY DEF Init, Gone, AcceptedIsApplied
    <2>2. \A t \in Transfers : inputs[t] = <<>> /\ pc[t] = "idle"
      BY DEF Init
    <2>3. \A t \in Transfers : Ids(inputs[t]) = {}
      BY <2>2 DEF Ids
    <2>4. \A t \in Transfers : ~Stored(t)
      BY DEF Init, Stored
    <2> QED
      BY <2>1, <2>2, <2>3, <2>4 DEF AppliedInv
  <1> QED
    BY <1>1, AppliedInvStep, ChainInvHolds, StoreInvHolds, TypeCorrect, PTL DEF Spec

\* AcceptedAlwaysApplied: without a restore an accepted transfer is applied in the
\* store but for the callback that is due, that threw when it ran last, or that went
\* with the app, for any number of transfers, retractions, refused writes and restarts.
THEOREM AcceptedAlwaysApplied == Spec => []AcceptedIsApplied
  <1>1. AppliedInv => AcceptedIsApplied
    BY DEF AppliedInv
  <1> QED
    BY <1>1, AppliedInvHolds, PTL

\* WholeAlways: the store holds the outputs of a transfer only when its inputs are
\* marked and the transfer is applied, and so is every transfer whose promise resolved:
\* a write refused between the two writes of the callback loses the outputs, never
\* doubles the money.
THEOREM WholeAlways == Spec => []AppliedWhole
  <1>1. TypeOK /\ StoreInv /\ AppliedInv => AppliedWhole
    <2> SUFFICES ASSUME TypeOK, StoreInv, AppliedInv, NEW t \in Transfers, ~env.restore,
                        pc[t] = "done" \/ Ids(outputs[t]) \cap Ids(notes) # {}
                 PROVE  Applied(t)
      BY DEF AppliedWhole
    <2>1. Ids(outputs[t]) \cap Ids(notes) # {} => Stored(t)
      BY DEF StoreInv, OutputsFresh, Stored, Made, Ids
    <2>2. Complete(notes, inputs[t], outputs[t])
      BY <2>1, Zenon DEF AppliedInv
    <2> QED
      BY <2>2 DEF Complete, Applied, Marked
  <1> QED
    BY <1>1, AppliedInvHolds, StoreInvHolds, TypeCorrect, PTL
=============================================================================
