--------------------------- MODULE WalletDatabase ---------------------------
(***************************************************************************)
(* The wallet's database over AsyncStorage (client/storage/database.ts).   *)
(* Every function that changes part of a value reads the whole value,      *)
(* awaits, computes the new value from what it read, and writes it back,   *)
(* awaiting again; other calls run in between.  A call is the list of the  *)
(* storage requests it makes; functions that only read are left out.       *)
(***************************************************************************)
EXTENDS Integers, FiniteSets, SequencesExt

CONSTANTS
    Callers,     \* calls that may be made, one each
    Ids,         \* identifiers of commitments and of transactions
    Values,      \* values of a setting, of a sync field and of the balances
    Initial,     \* the default of each of them
    Overlap,     \* may calls that use the same key overlap?
    ReadsFail,   \* may AsyncStorage.getItem reject, or the data not parse?
    WritesFail,  \* may AsyncStorage.setItem and removeItem reject?
    None

ASSUME DatabaseAssumption ==
    /\ {Overlap, ReadsFail, WritesFail} \subseteq BOOLEAN
    /\ Initial \in Values

VARIABLES
    db,        \* what AsyncStorage holds
    call,      \* the requests of each call
    todo,      \* those it still has to make
    read,      \* what each call read last, or None
    outcome,   \* "none", "pending", "resolved" or "rejected"
    readFailed,\* has a read failed? (history)
    overtaken  \* the calls whose key another call wrote between their read and
               \* their write (history)

vars == <<db, call, todo, read, outcome, readFailed, overtaken>>

ListKeys == {"commitments", "transactions"}
RecordKeys == {"settings", "sync_state", "balances"}
Keys == ListKeys \cup RecordKeys

\* Three of the settings, two fields of the sync state; the cached balances are
\* written as a whole.
Fields(key) ==
    CASE key = "settings"   -> {"autoLockTimeout", "biometricEnabled", "pinEnabled"}
      [] key = "sync_state" -> {"lastSyncBlock", "syncing"}
      [] key = "balances"   -> {"totalBalance"}

Defaults(key) == [f \in Fields(key) |-> Initial]

EmptyDb == [key \in Keys |-> IF key \in ListKeys THEN <<>> ELSE Defaults(key)]

-----------------------------------------------------------------------------
(***************************************************************************)
(* Updates: how a function computes the new value of its key from the old. *)
(***************************************************************************)
Replace(list) == [op |-> "replace", list |-> list]
Reset(key) == [op |-> "reset", of |-> key]
AppendEntry(id) == [op |-> "append", id |-> id]
PrependEntry(id) == [op |-> "prepend", id |-> id]
SetEntry(id, status) == [op |-> "set", id |-> id, status |-> status]
RemoveEntry(id) == [op |-> "remove", id |-> id]
Merge(field, value) == [op |-> "merge", field |-> field, value |-> value]

\* An element of the two lists: a commitment with its spent flag, or a
\* transaction with its status.
Entry(id, status) == [id |-> id, status |-> status]

Apply(u, old) ==
    CASE u.op = "replace" -> u.list
      [] u.op = "reset"   -> EmptyDb[u.of]
      [] u.op = "append"  -> Append(old, Entry(u.id, "unspent"))
      [] u.op = "prepend" -> <<Entry(u.id, "pending")>> \o old
      [] u.op = "set"     -> [i \in DOMAIN old |->
                                 IF old[i].id = u.id THEN Entry(u.id, u.status) ELSE old[i]]
      [] u.op = "remove"  -> FlattenSeq([i \in DOMAIN old |->
                                 IF old[i].id = u.id THEN <<>> ELSE <<old[i]>>])
      [] u.op = "merge"   -> [old EXCEPT ![u.field] = u.value]

(***************************************************************************)
(* The functions, as the requests they make.                               *)
(***************************************************************************)
Read(key) == [act |-> "read", key |-> key]
Write(key, u) == [act |-> "write", key |-> key, u |-> u]
ReadModifyWrite(key, u) == <<Read(key), Write(key, u)>>

SaveCommitment(id) == ReadModifyWrite("commitments", AppendEntry(id))
MarkCommitmentSpent(id) == ReadModifyWrite("commitments", SetEntry(id, "spent"))
DeleteCommitment(id) == ReadModifyWrite("commitments", RemoveEntry(id))
ClearCommitments == <<Write("commitments", Reset("commitments"))>>

SaveTransaction(id) == ReadModifyWrite("transactions", PrependEntry(id))
UpdateTransactionStatus(id, status) == ReadModifyWrite("transactions", SetEntry(id, status))
DeleteTransaction(id) == ReadModifyWrite("transactions", RemoveEntry(id))
ClearTransactions == <<Write("transactions", Reset("transactions"))>>

SaveSettings(field, value) == ReadModifyWrite("settings", Merge(field, value))
ResetSettings == <<Write("settings", Reset("settings"))>>
UpdateSyncState(field, value) == ReadModifyWrite("sync_state", Merge(field, value))
\* The balances are one field, so merging it in is writing them anew.
SaveBalances(value) == <<Write("balances", Merge("totalBalance", value))>>

\* The four removals are started together; the settings stay.
ClearAllData ==
    ClearCommitments \o ClearTransactions
    \o <<Write("sync_state", Reset("sync_state")), Write("balances", Reset("balances"))>>

\* importData writes the parts of the backup one after the other.
ImportData(commitments, transactions, field, value) ==
    <<Write("commitments", Replace(commitments)), Write("transactions", Replace(transactions))>>
    \o SaveSettings(field, value)

CommitmentCalls ==
    (UNION {{SaveCommitment(i), MarkCommitmentSpent(i), DeleteCommitment(i)} : i \in Ids})
    \cup {ClearCommitments}

TransactionCalls ==
    (UNION {{SaveTransaction(i), UpdateTransactionStatus(i, "confirmed"),
             UpdateTransactionStatus(i, "failed"), DeleteTransaction(i)} : i \in Ids})
    \cup {ClearTransactions}

RecordCalls ==
    {SaveSettings(f, v) : f \in Fields("settings"), v \in Values}
    \cup {UpdateSyncState(f, v) : f \in Fields("sync_state"), v \in Values}
    \cup {SaveBalances(v) : v \in Values}
    \cup {ResetSettings}

Calls ==
    CommitmentCalls \cup TransactionCalls \cup RecordCalls \cup {ClearAllData}
    \cup {ImportData(<<Entry(i, "unspent")>>, <<Entry(i, "confirmed")>>, "autoLockTimeout", v) :
              i \in Ids, v \in Values}

KeysOf(requests) == {requests[i].key : i \in DOMAIN requests}

-----------------------------------------------------------------------------
Init ==
    /\ db = EmptyDb
    /\ call = [c \in Callers |-> <<>>]
    /\ todo = [c \in Callers |-> <<>>]
    /\ read = [c \in Callers |-> None]
    /\ outcome = [c \in Callers |-> "none"]
    /\ readFailed = FALSE
    /\ overtaken = {}

\* Without Overlap the callers await every call that uses a key before they
\* make another one that does.
Start(c, cl) ==
    /\ outcome[c] = "none"
    /\ ~Overlap => \A d \in Callers : KeysOf(todo[d]) \cap KeysOf(cl) = {}
    /\ call' = [call EXCEPT ![c] = cl]
    /\ todo' = [todo EXCEPT ![c] = cl]
    /\ outcome' = [outcome EXCEPT ![c] = "pending"]
    /\ UNCHANGED <<db, read, readFailed, overtaken>>

\* Mutant: getTransactions reads the key of getCommitments.
ReadWrongKey(key) == IF key = "transactions" THEN db.commitments ELSE db[key]

\* Mutant: getSettings forgets what is stored.
ReadDefaultSettings(key) == IF key = "settings" THEN Defaults(key) ELSE db[key]

\* A key nothing was written to, or that was removed, reads as its default.
ReadItem(key) == db[key]

Request(c, act) == todo[c] # <<>> /\ Head(todo[c]).act = act

GetItem(c) ==
    /\ Request(c, "read")
    /\ read' = [read EXCEPT ![c] = ReadItem(Head(todo[c]).key)]
    /\ todo' = [todo EXCEPT ![c] = Tail(@)]
    /\ UNCHANGED <<db, call, outcome, readFailed, overtaken>>

\* The read fails: the getter catches the error and returns the default, and
\* the call goes on to write what it makes of that.
GetItemFails(c) ==
    /\ ReadsFail
    /\ Request(c, "read")
    /\ read' = [read EXCEPT ![c] = EmptyDb[Head(todo[c]).key]]
    /\ todo' = [todo EXCEPT ![c] = Tail(@)]
    /\ readFailed' = TRUE
    /\ UNCHANGED <<db, call, outcome, overtaken>>

\* The call has read the key and is about to write it.
HasRead(d, key) == read[d] # None /\ Request(d, "write") /\ Head(todo[d]).key = key

SetItem(c) ==
    LET req == Head(todo[c]) IN
    /\ Request(c, "write")
    /\ db' = [db EXCEPT ![req.key] = Apply(req.u, IF read[c] = None THEN @ ELSE read[c])]
    /\ todo' = [todo EXCEPT ![c] = Tail(@)]
    /\ outcome' = [outcome EXCEPT ![c] = IF @ = "pending" /\ Len(todo[c]) = 1 THEN "resolved" ELSE @]
    /\ overtaken' = overtaken \cup {d \in Callers \ {c} : HasRead(d, req.key)}
    /\ UNCHANGED <<call, read, readFailed>>

\* A write rejects: the error is thrown on, and what an import has already
\* written stays.  The other removals of clearAllData run on.
Refused(c) ==
    /\ WritesFail
    /\ Request(c, "write")
    /\ todo' = [todo EXCEPT ![c] = IF call[c] = ClearAllData THEN Tail(@) ELSE <<>>]
    /\ outcome' = [outcome EXCEPT ![c] = "rejected"]
    /\ UNCHANGED <<db, call, read, readFailed, overtaken>>

Next == \E c \in Callers :
    \/ \E cl \in Calls : Start(c, cl)
    \/ GetItem(c)
    \/ GetItemFails(c)
    \/ SetItem(c)
    \/ Refused(c)

Spec == Init /\ [][Next]_vars

-----------------------------------------------------------------------------
(***************************************************************************)
(* Properties.                                                             *)
(***************************************************************************)
Commitments == [id : Ids, status : {"unspent", "spent"}]
Transactions == [id : Ids, status : {"pending", "confirmed", "failed"}]

\* Type correctness: every key holds a value of its own kind, however calls
\* interleave and fail.
TypeOK ==
    /\ DOMAIN db = Keys
    /\ db.commitments \in Seq(Commitments) /\ db.transactions \in Seq(Transactions)
    /\ \A key \in RecordKeys : db[key] \in [Fields(key) -> Values]
    /\ readFailed \in BOOLEAN /\ overtaken \subseteq Callers
    /\ outcome \in [Callers -> {"none", "pending", "resolved", "rejected"}]
    /\ \A c \in Callers : outcome[c] \in {"none", "resolved"} => todo[c] = <<>>

Updates ==
    [key \in Keys |->
        {w.u : w \in {r \in UNION {{cl[i] : i \in DOMAIN cl} : cl \in Calls} :
                          r.act = "write" /\ r.key = key}}]

Atomic == INSTANCE AtomicStore WITH Initial <- EmptyDb

\* ImplementsAtomicStore: as long as calls on one key do not overlap, every
\* change of a key is one update of its current value (after a failed read,
\* possibly of its default), even when calls on different keys interleave,
\* writes are refused and imports stop halfway; no call writes back a stale value.
ImplementsAtomicStore == Atomic!Spec

\* OnlyOvertakenWritesLose: however calls overlap, every change of a key is one
\* update of its current value (or of the default, once a read has failed), but for
\* the write of a call whose key was written by another one since it was read: only
\* that one can take back what others have saved.
OnlyOvertakenWritesLose ==
    [][Atomic!Next \/ \E c \in overtaken : SetItem(c)]_<<db, readFailed>>

ChangesSetting(cl, field) ==
    \E i \in DOMAIN cl : /\ cl[i].key = "settings" /\ cl[i].act = "write"
                         /\ cl[i].u.op = "merge" => cl[i].u.field = field

\* SettingSaved: a saveSettings that resolved has saved its field, when no other
\* call writes that field.
SettingSaved ==
    \A c \in Callers, f \in Fields("settings"), v \in Values :
        (/\ call[c] = SaveSettings(f, v) /\ outcome[c] = "resolved"
         /\ \A d \in Callers \ {c} : ~ChangesSetting(call[d], f))
        => db.settings[f] = v
=============================================================================
