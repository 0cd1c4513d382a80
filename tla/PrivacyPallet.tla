--------------------------- MODULE PrivacyPallet ---------------------------
(***************************************************************************)
(* The zk_privacy pallet of the parachain                                  *)
(* (parachain/pallets/zk_privacy/src/lib.rs): the shielded pool's account, *)
(* the nullifier set, the leaf counter and the three dispatchables         *)
(* `shield`, `private_transfer` and `unshield`.                            *)
(*                                                                         *)
(* A dispatchable is an operator from the storage to an OUTCOME: the       *)
(* result the call returns and the storage as the call has left it at the  *)
(* point where it returned, early returns included.  FRAME runs every call *)
(* in a storage layer of its own that is merged when the call returns Ok   *)
(* and dropped when it returns Err; `Dispatch` is that layer.              *)
(***************************************************************************)
EXTENDS Integers, Sequences, FiniteSets

CONSTANTS
    Accounts,       \* the accounts that sign extrinsics
    PoolAccount,    \* account_id() of the pallet: nobody signs for it
    Amounts,        \* the `amount` arguments tried
    Commitments,    \* commitments: byte strings, told apart and nothing else
    EncryptedNotes, \* encrypted notes: hashes, told apart and nothing else
    Nullifiers,     \* nullifiers: byte strings, EmptyBytes among them
    EmptyBytes,     \* the empty Vec<u8>
    Genesis,        \* the endowment of each account in the genesis block
    ExistentialDeposit,
    MaxIndex,       \* the largest value of CommitmentIndexType
    MaxNotes,       \* BOUND: length of a call's vectors
    MaxBlock,       \* BOUND: blocks produced
    BlockCapacity,  \* extrinsics that fit in a block
    None            \* "no value" of an OptionQuery storage map

ASSUME PalletAssumption ==
    /\ PoolAccount \notin Accounts
    /\ IsFiniteSet(Accounts)
    /\ Amounts \subseteq Nat
    /\ EmptyBytes \in Nullifiers
    /\ ExistentialDeposit \in Nat \ {0}
    /\ Genesis \in [Accounts -> {0} \cup {n \in Nat : n >= ExistentialDeposit}]
    /\ MaxIndex \in Nat
    /\ MaxNotes \in Nat
    /\ MaxBlock \in Nat
    /\ BlockCapacity \in Nat
    /\ None \notin Nat

VARIABLES
    balances,      \* free balance of every account (Currency)
    nextLeafIndex, \* NextLeafIndex
    nullifierSet,  \* NullifierSet: hash -> block in which it was revealed
    events,        \* every event deposited so far, oldest first
    block,         \* frame_system's block number
    inBlock,       \* extrinsics applied in the current block
    result         \* the last call dispatched and what it returned

storageVars == <<balances, nextLeafIndex, nullifierSet, events>>
vars == <<balances, nextLeafIndex, nullifierSet, events, block, inBlock, result>>

Holders == Accounts \cup {PoolAccount}

(***************************************************************************)
(* T::Hashing: collision free, and never its argument.                     *)
(***************************************************************************)
Hash(bytes) == <<"hash", bytes>>
Hashes == {Hash(n) : n \in Nullifiers}

CommitmentAdded(commitment, index, timestamp, note) ==
    [type |-> "CommitmentAdded", commitment |-> commitment, index |-> index,
     timestamp |-> timestamp, encrypted_note |-> note]

NullifierRevealed(nullifier, timestamp) ==
    [type |-> "NullifierRevealed", nullifier |-> nullifier, timestamp |-> timestamp]

Event ==
    [type : {"CommitmentAdded"}, commitment : Commitments, index : 0..MaxIndex,
     timestamp : Nat, encrypted_note : EncryptedNotes]
    \cup [type : {"NullifierRevealed"}, nullifier : Nullifiers, timestamp : Nat]

(***************************************************************************)
(* The storage a call starts from, and the outcome of a call.              *)
(***************************************************************************)
Storage == [balances |-> balances, nextLeafIndex |-> nextLeafIndex,
            nullifierSet |-> nullifierSet, events |-> events]

Outcome(res, store) == [res |-> res, store |-> store]

(***************************************************************************)
(* Currency::transfer(from, to, value, KeepAlive) of pallet_balances: the  *)
(* sender may not fall below the existential deposit, and an account that  *)
(* does not exist yet is only created by at least the deposit.             *)
(***************************************************************************)
CanTransfer(bal, from, to, value) ==
    \/ value = 0
    \/ /\ bal[from] - value >= ExistentialDeposit
       /\ bal[to] + value >= ExistentialDeposit

Transfer(bal, from, to, value) ==
    [bal EXCEPT ![from] = bal[from] - value, ![to] = bal[to] + value]

SaturatingAdd(index, n) == IF index + n > MaxIndex THEN MaxIndex ELSE index + n

(***************************************************************************)
(* shield: the funds move into the pool, and the event carries the leaf    *)
(* index, which this call does not advance.                                *)
(***************************************************************************)
\* Mutant: the leaf index advances past CommitmentIndexType.
ShieldAdvances(store, who, amount, commitment, encrypted_note) ==
    IF ~CanTransfer(store.balances, who, PoolAccount, amount)
    THEN Outcome("Currency", store)
    ELSE Outcome("Ok",
           [store EXCEPT
              !.balances = Transfer(store.balances, who, PoolAccount, amount),
              !.nextLeafIndex = store.nextLeafIndex + 1,
              !.events = Append(store.events,
                           CommitmentAdded(commitment, store.nextLeafIndex,
                                           block, encrypted_note))])

\* Mutant: Currency::withdraw, its imbalance dropped, in place of the transfer.
ShieldBurns(store, who, amount, commitment, encrypted_note) ==
    IF ~CanTransfer(store.balances, who, PoolAccount, amount)
    THEN Outcome("Currency", store)
    ELSE Outcome("Ok", [store EXCEPT !.balances[who] = store.balances[who] - amount])

\* Mutant: the amount is compared with the balance, not with what KeepAlive leaves.
ShieldAllowsDeath(store, who, amount, commitment, encrypted_note) ==
    IF store.balances[who] < amount
    THEN Outcome("Currency", store)
    ELSE Outcome("Ok",
           [store EXCEPT !.balances = Transfer(store.balances, who, PoolAccount, amount)])

ShieldOutcome(store, who, amount, commitment, encrypted_note) ==
    IF ~CanTransfer(store.balances, who, PoolAccount, amount)
    THEN Outcome("Currency", store)
    ELSE Outcome("Ok",
           [store EXCEPT
              !.balances = Transfer(store.balances, who, PoolAccount, amount),
              !.events = Append(store.events,
                           CommitmentAdded(commitment, store.nextLeafIndex,
                                           block, encrypted_note))])

(***************************************************************************)
(* The nullifier bookkeeping that private_transfer and unshield share: the *)
(* hash of the nullifier must be fresh and is stored with the block.       *)
(***************************************************************************)
Revealed(store, nullifier) == store.nullifierSet[Hash(nullifier)] # None

Reveal(store, nullifier) ==
    [store EXCEPT !.nullifierSet[Hash(nullifier)] = block]

(***************************************************************************)
(* The loop over new_commitments.iter().zip(encrypted_notes.iter()): one   *)
(* CommitmentAdded per pair, each at the index the one before left behind. *)
(***************************************************************************)
CommitmentEvents(index, new_commitments, encrypted_notes) ==
    LET n == IF Len(new_commitments) < Len(encrypted_notes)
             THEN Len(new_commitments) ELSE Len(encrypted_notes)
    IN  [i \in 1..n |-> CommitmentAdded(new_commitments[i],
                                        SaturatingAdd(index, i - 1),
                                        block, encrypted_notes[i])]

PrivateTransferOutcome(store, nullifier, new_commitments, encrypted_notes) ==
    IF ~(nullifier = EmptyBytes /\ new_commitments = <<>> /\ encrypted_notes = <<>>)
    THEN Outcome("InvalidTransaction", store)
    ELSE IF Len(new_commitments) # Len(encrypted_notes)
    THEN Outcome("CommitmentEncryptedNoteLengthMismatch", store)
    ELSE IF Revealed(store, nullifier)
    THEN Outcome("NullifierAlreadyRevealed", store)
    ELSE LET added == CommitmentEvents(store.nextLeafIndex, new_commitments, encrypted_notes)
         IN  Outcome("Ok",
               [Reveal(store, nullifier) EXCEPT
                  !.nextLeafIndex = SaturatingAdd(store.nextLeafIndex, Len(added)),
                  !.events = store.events \o added
                             \o <<NullifierRevealed(nullifier, block)>>])

(***************************************************************************)
(* unshield: the nullifier is stored before the pool pays, so a payment    *)
(* that fails returns with the nullifier already written.                  *)
(***************************************************************************)
\* Mutant: the pool pays without looking at the nullifier set.
UnshieldTwice(store, who, amount, nullifier) ==
    IF nullifier # EmptyBytes
    THEN Outcome("InvalidTransaction", store)
    ELSE IF ~CanTransfer(store.balances, PoolAccount, who, amount)
    THEN Outcome("Currency", Reveal(store, nullifier))
    ELSE Outcome("Ok",
           [Reveal(store, nullifier) EXCEPT
              !.balances = Transfer(store.balances, PoolAccount, who, amount),
              !.events = Append(store.events, NullifierRevealed(nullifier, block))])

UnshieldOutcome(store, who, amount, nullifier) ==
    IF nullifier # EmptyBytes
    THEN Outcome("InvalidTransaction", store)
    ELSE IF Revealed(store, nullifier)
    THEN Outcome("NullifierAlreadyRevealed", store)
    ELSE IF ~CanTransfer(store.balances, PoolAccount, who, amount)
    THEN Outcome("Currency", Reveal(store, nullifier))
    ELSE Outcome("Ok",
           [Reveal(store, nullifier) EXCEPT
              !.balances = Transfer(store.balances, PoolAccount, who, amount),
              !.events = Append(store.events, NullifierRevealed(nullifier, block))])

(***************************************************************************)
(* FRAME's storage layer around a call: merged on Ok, dropped on Err.      *)
(***************************************************************************)
StorageAfter(out) == IF out.res = "Ok" THEN out.store ELSE Storage

Dispatch(call, out) ==
    LET store == StorageAfter(out) IN
    /\ inBlock < BlockCapacity
    /\ balances' = store.balances
    /\ nextLeafIndex' = store.nextLeafIndex
    /\ nullifierSet' = store.nullifierSet
    /\ events' = store.events
    /\ inBlock' = inBlock + 1
    /\ result' = [call |-> call, res |-> out.res]
    /\ UNCHANGED block

-----------------------------------------------------------------------------
Init ==
    /\ balances = [a \in Holders |-> IF a = PoolAccount THEN 0 ELSE Genesis[a]]
    /\ nextLeafIndex = 0
    /\ nullifierSet = [h \in Hashes |-> None]
    /\ events = <<>>
    /\ block = 1
    /\ inBlock = 0
    /\ result = [call |-> "none", res |-> "Ok"]

Shield(who, amount, commitment, note) ==
    Dispatch("shield", ShieldOutcome(Storage, who, amount, commitment, note))

PrivateTransfer(nullifier, new_commitments, encrypted_notes) ==
    Dispatch("private_transfer",
             PrivateTransferOutcome(Storage, nullifier, new_commitments, encrypted_notes))

Unshield(who, amount, nullifier) ==
    Dispatch("unshield", UnshieldOutcome(Storage, who, amount, nullifier))

\* The runtime closes the block and opens the next one.
NextBlock ==
    /\ block < MaxBlock
    /\ inBlock > 0
    /\ block' = block + 1
    /\ inBlock' = 0
    /\ UNCHANGED <<balances, nextLeafIndex, nullifierSet, events, result>>

Vectors(S) == UNION {[1..n -> S] : n \in 0..MaxNotes}

Next ==
    \/ \E who \in Accounts, amount \in Amounts, c \in Commitments, e \in EncryptedNotes :
          Shield(who, amount, c, e)
    \/ \E n \in Nullifiers, cs \in Vectors(Commitments), es \in Vectors(EncryptedNotes) :
          PrivateTransfer(n, cs, es)
    \/ \E who \in Accounts, amount \in Amounts, n \in Nullifiers :
          Unshield(who, amount, n)
    \/ NextBlock

Spec == Init /\ [][Next]_vars

-----------------------------------------------------------------------------
(***************************************************************************)
(* Properties.                                                             *)
(***************************************************************************)

\* Type correctness of the pallet's storage: no balance is negative, no index
\* leaves CommitmentIndexType, and only known events are deposited.
TypeOK ==
    /\ balances \in [Holders -> Nat]
    /\ nextLeafIndex \in 0..MaxIndex
    /\ nullifierSet \in [Hashes -> Nat \cup {None}]
    /\ events \in Seq(Event)
    /\ block \in Nat
    /\ inBlock \in 0..BlockCapacity
    /\ DOMAIN result = {"call", "res"}

\* NoDust: KeepAlive in both transfers of the pallet never leaves an account
\* between zero and the existential deposit, the pool included.
NoDust == \A a \in Holders : balances[a] = 0 \/ balances[a] >= ExistentialDeposit

\* NullifierLogMatchesSet: the NullifierRevealed events are exactly the entries
\* of NullifierSet: each nullifier is announced at most once, in the block the
\* set records for it, and none is stored without having been announced, not
\* even by an unshield whose payment fails after it stored the nullifier.
NullifierLogMatchesSet ==
    \A n \in Nullifiers :
        LET logged == {i \in DOMAIN events : /\ events[i].type = "NullifierRevealed"
                                             /\ events[i].nullifier = n}
        IN  IF nullifierSet[Hash(n)] = None
            THEN logged = {}
            ELSE \E i \in logged : /\ logged = {i}
                                   /\ events[i].timestamp = nullifierSet[Hash(n)]

\* PoolLockedAfterSpend: the guards of private_transfer and unshield accept
\* nothing but the empty nullifier, so once it is stored, by either call and
\* from whatever account, no later call takes anything out of the pool.
PoolLockedAfterSpend ==
    nullifierSet[Hash(EmptyBytes)] # None => balances'[PoolAccount] >= balances[PoolAccount]

PoolLocked == [][PoolLockedAfterSpend]_vars

\* MoneyMovesThroughPool: one call moves funds between the pool and at most one
\* account, and the two together hold what they held before.
OneAccountAndPool ==
    \A a, b \in Accounts :
        balances'[a] # balances[a] =>
            /\ balances'[a] + balances'[PoolAccount] = balances[a] + balances[PoolAccount]
            /\ b # a => balances'[b] = balances[b]

MoneyMovesThroughPool == [][OneAccountAndPool]_vars

-----------------------------------------------------------------------------
(***************************************************************************)
(* What the pallet promises: it implements a shielded pool.                *)
(***************************************************************************)
spentHashes == {h \in Hashes : nullifierSet[h] # None}

Pool == INSTANCE ShieldedPool
            WITH Tags <- Hashes, pool <- balances[PoolAccount], spent <- spentHashes

\* ImplementsShieldedPool: seen from outside, the calls only deposit, spend a
\* fresh nullifier, or withdraw what the pool holds against a fresh nullifier.
ImplementsShieldedPool == Pool!Spec
=============================================================================
