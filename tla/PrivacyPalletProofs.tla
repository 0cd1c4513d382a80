------------------------ MODULE PrivacyPalletProofs -------------------------
(***************************************************************************)
(* Proofs about the zk_privacy pallet, for every set of accounts, every    *)
(* endowment, every existential deposit and every index width.             *)
(***************************************************************************)
EXTENDS PrivacyPallet, TLAPS

(***************************************************************************)
(* What Currency::transfer does to the balances.                           *)
(***************************************************************************)
Balances == [Holders -> Nat]

\* TransferType: a transfer that CanTransfer allows leaves every balance a
\* natural number.
LEMMA TransferType ==
    ASSUME NEW bal \in Balances, NEW from \in Holders, NEW to \in Holders, from # to,
           NEW value \in Nat, CanTransfer(bal, from, to, value)
    PROVE  Transfer(bal, from, to, value) \in Balances
  <1>1. bal[from] \in Nat /\ bal[to] \in Nat
    BY DEF Balances
  <1>2. bal[from] - value \in Nat
    BY <1>1, PalletAssumption DEF CanTransfer
  <1>3. bal[to] + value \in Nat
    BY <1>1
  <1> QED
    BY <1>2, <1>3 DEF Transfer, Balances

\* TransferMoves: a transfer changes the two accounts it names, by the value.
LEMMA TransferMoves ==
    ASSUME NEW bal \in Balances, NEW from \in Holders, NEW to \in Holders, from # to,
           NEW value \in Nat
    PROVE  /\ Transfer(bal, from, to, value)[from] = bal[from] - value
           /\ Transfer(bal, from, to, value)[to] = bal[to] + value
           /\ \A a \in Holders \ {from, to} :
                 Transfer(bal, from, to, value)[a] = bal[a]
  BY DEF Transfer, Balances

\* TransferNoDust: KeepAlive on the sender and the deposit on the receiver
\* keep every balance out of the dust.
LEMMA TransferNoDust ==
    ASSUME NEW bal \in Balances, NEW from \in Holders, NEW to \in Holders, from # to,
           NEW value \in Nat, CanTransfer(bal, from, to, value),
           \A a \in Holders : bal[a] = 0 \/ bal[a] >= ExistentialDeposit
    PROVE  \A a \in Holders : \/ Transfer(bal, from, to, value)[a] = 0
                              \/ Transfer(bal, from, to, value)[a] >= ExistentialDeposit
  <1> DEFINE after == Transfer(bal, from, to, value)
  <1>1. bal[from] \in Nat /\ bal[to] \in Nat
    BY DEF Balances
  <1>2. after[from] = bal[from] - value /\ after[to] = bal[to] + value
    BY TransferMoves
  <1>3. \A a \in Holders \ {from, to} : after[a] = bal[a]
    BY TransferMoves
  <1>4. after[from] = 0 \/ after[from] >= ExistentialDeposit
    BY <1>1, <1>2, PalletAssumption DEF CanTransfer
  <1>5. after[to] = 0 \/ after[to] >= ExistentialDeposit
    BY <1>1, <1>2, PalletAssumption DEF CanTransfer
  <1> QED
    BY <1>3, <1>4, <1>5

-----------------------------------------------------------------------------
(***************************************************************************)
(* The four things a step may do to the storage.  private_transfer's loop  *)
(* never runs: its guard lets only empty vectors through.                  *)
(***************************************************************************)
Untouched == UNCHANGED storageVars

Shielded(who, amount, c, e) ==
    /\ CanTransfer(balances, who, PoolAccount, amount)
    /\ balances' = Transfer(balances, who, PoolAccount, amount)
    /\ events' = Append(events, CommitmentAdded(c, nextLeafIndex, block, e))
    /\ UNCHANGED <<nextLeafIndex, nullifierSet, block>>

RevealedFresh ==
    /\ nullifierSet[Hash(EmptyBytes)] = None
    /\ nullifierSet' = [nullifierSet EXCEPT ![Hash(EmptyBytes)] = block]
    /\ events' = Append(events, NullifierRevealed(EmptyBytes, block))
    /\ UNCHANGED <<nextLeafIndex, block>>

Unshielded(who, amount) ==
    /\ CanTransfer(balances, PoolAccount, who, amount)
    /\ balances' = Transfer(balances, PoolAccount, who, amount)

\* ShieldEffect: shield moves the amount into the pool and logs a commitment at
\* the current index, or returns an error and leaves the storage alone.
LEMMA ShieldEffect ==
    ASSUME NEW who, NEW amount, NEW c, NEW e, Shield(who, amount, c, e)
    PROVE  Untouched \/ Shielded(who, amount, c, e)
  <1>1. CASE CanTransfer(balances, who, PoolAccount, amount)
    BY <1>1 DEF Shield, Dispatch, StorageAfter, ShieldOutcome, Outcome, Storage, Shielded
  <1>2. CASE ~CanTransfer(balances, who, PoolAccount, amount)
    BY <1>2 DEF Shield, Dispatch, StorageAfter, ShieldOutcome, Outcome, Storage,
                Untouched, storageVars
  <1> QED
    BY <1>1, <1>2

\* NoCommitmentEvents: over empty vectors the commitment loop runs zero times.
LEMMA NoCommitmentEvents ==
    ASSUME NEW index
    PROVE  CommitmentEvents(index, <<>>, <<>>) = <<>>
  BY DEF CommitmentEvents

\* PrivateTransferEffect: private_transfer publishes the empty nullifier, if it
\* is fresh, and does nothing else; or it returns an error.
LEMMA PrivateTransferEffect ==
    ASSUME TypeOK, NEW n, NEW cs, NEW es, PrivateTransfer(n, cs, es)
    PROVE  Untouched \/ (RevealedFresh /\ UNCHANGED balances)
  <1> DEFINE out == PrivateTransferOutcome(Storage, n, cs, es)
             ok  == /\ n = EmptyBytes /\ cs = <<>> /\ es = <<>>
                    /\ nullifierSet[Hash(EmptyBytes)] = None
  <1>1. CASE ~ok
    <2>1. out.res # "Ok"
      BY <1>1 DEF PrivateTransferOutcome, Outcome, Revealed, Storage
    <2> QED
      BY <2>1 DEF PrivateTransfer, Dispatch, StorageAfter, Storage, Untouched, storageVars
  <1>2. CASE ok
    <2>1. SaturatingAdd(nextLeafIndex, Len(<<>>)) = nextLeafIndex
      BY PalletAssumption DEF SaturatingAdd, TypeOK
    <2>2. events \o <<>> \o <<NullifierRevealed(EmptyBytes, block)>>
             = Append(events, NullifierRevealed(EmptyBytes, block))
      BY DEF TypeOK
    <2> DEFINE log == Append(events, NullifierRevealed(EmptyBytes, block))
    <2>3. out = Outcome("Ok", [Reveal(Storage, EmptyBytes) EXCEPT
                  !.nextLeafIndex = nextLeafIndex, !.events = log])
      BY <1>2, <2>1, <2>2, NoCommitmentEvents DEF PrivateTransferOutcome, Revealed, Storage
    <2>4. out.store = [Reveal(Storage, EmptyBytes) EXCEPT
                  !.nextLeafIndex = nextLeafIndex, !.events = log]
      BY <2>3 DEF Outcome
    <2>5. out.res = "Ok"
      BY <2>3 DEF Outcome
    <2> HIDE DEF log, out
    <2>6. out.store.balances = balances
      BY <2>4 DEF Reveal, Storage
    <2>7. out.store.events = log
      BY <2>4 DEF Reveal, Storage
    <2>8. out.store.nullifierSet = [nullifierSet EXCEPT ![Hash(EmptyBytes)] = block]
      BY <2>4 DEF Reveal, Storage
    <2>9. out.store.nextLeafIndex = nextLeafIndex
      BY <2>4 DEF Reveal, Storage
    <2>10. Dispatch("private_transfer", out)
      BY DEF PrivateTransfer, out
    <2> QED
      BY <1>2, <2>5, <2>6, <2>7, <2>8, <2>9, <2>10 DEF Dispatch, StorageAfter, RevealedFresh, log
  <1> QED
    BY <1>1, <1>2

\* UnshieldEffect: unshield publishes the empty nullifier, if it is fresh, and
\* pays out of the pool; or it returns an error and even the nullifier that
\* was stored before a failed payment is gone.
LEMMA UnshieldEffect ==
    ASSUME NEW who, NEW amount, NEW n, Unshield(who, amount, n)
    PROVE  Untouched \/ (RevealedFresh /\ Unshielded(who, amount))
  <1> DEFINE out == UnshieldOutcome(Storage, who, amount, n)
             ok  == /\ n = EmptyBytes
                    /\ nullifierSet[Hash(EmptyBytes)] = None
                    /\ CanTransfer(balances, PoolAccount, who, amount)
  <1>1. CASE ~ok
    <2>1. out.res # "Ok"
      BY <1>1 DEF UnshieldOutcome, Outcome, Revealed, Storage
    <2> QED
      BY <2>1 DEF Unshield, Dispatch, StorageAfter, Storage, Untouched, storageVars
  <1>2. CASE ok
    BY <1>2 DEF Unshield, Dispatch, StorageAfter, UnshieldOutcome, Outcome, Revealed, Reveal,
                Storage, RevealedFresh, Unshielded
  <1> QED
    BY <1>1, <1>2

\* StepEffect: what a step of the specification may do to the storage.
LEMMA StepEffect ==
    ASSUME TypeOK, [Next]_vars
    PROVE  \/ Untouched
           \/ \E who \in Accounts, amount \in Amounts, c \in Commitments,
                 e \in EncryptedNotes : Shielded(who, amount, c, e)
           \/ RevealedFresh /\ UNCHANGED balances
           \/ \E who \in Accounts, amount \in Amounts : RevealedFresh /\ Unshielded(who, amount)
  <1>1. CASE \E who \in Accounts, amount \in Amounts, c \in Commitments, e \in EncryptedNotes :
                Shield(who, amount, c, e)
    BY <1>1, ShieldEffect
  <1>2. CASE \E n \in Nullifiers, cs \in Vectors(Commitments), es \in Vectors(EncryptedNotes) :
                PrivateTransfer(n, cs, es)
    BY <1>2, PrivateTransferEffect
  <1>3. CASE \E who \in Accounts, amount \in Amounts, n \in Nullifiers :
                Unshield(who, amount, n)
    BY <1>3, UnshieldEffect
  <1>4. CASE NextBlock
    BY <1>4 DEF NextBlock, Untouched, storageVars
  <1>5. CASE UNCHANGED vars
    BY <1>5 DEF vars, Untouched, storageVars
  <1> QED
    BY <1>1, <1>2, <1>3, <1>4, <1>5 DEF Next

-----------------------------------------------------------------------------
(***************************************************************************)
(* Type correctness.                                                       *)
(***************************************************************************)

\* ClockType: block number, extrinsic counter and result keep their types.
LEMMA ClockType ==
    ASSUME TypeOK, [Next]_vars
    PROVE  block' \in Nat /\ inBlock' \in 0..BlockCapacity /\ DOMAIN result' = {"call", "res"}
  <1>1. ASSUME NEW call, NEW out, Dispatch(call, out)
        PROVE  /\ block' \in Nat
               /\ inBlock' \in 0..BlockCapacity
               /\ DOMAIN result' = {"call", "res"}
    BY <1>1, PalletAssumption DEF Dispatch, TypeOK
  <1>2. CASE NextBlock
    BY <1>2, PalletAssumption DEF NextBlock, TypeOK
  <1>3. CASE UNCHANGED vars
    BY <1>3 DEF vars, TypeOK
  <1> QED
    BY <1>1, <1>2, <1>3 DEF Next, Shield, PrivateTransfer, Unshield

\* EventType: the two events the calls deposit are events.
LEMMA EventType ==
    ASSUME TypeOK
    PROVE  /\ \A c \in Commitments, e \in EncryptedNotes :
                 CommitmentAdded(c, nextLeafIndex, block, e) \in Event
           /\ \A n \in Nullifiers : NullifierRevealed(n, block) \in Event
  BY DEF TypeOK, Event, CommitmentAdded, NullifierRevealed

\* StorageType: every effect of a call keeps the storage well typed.
LEMMA StorageType ==
    ASSUME TypeOK, [Next]_vars
    PROVE  /\ balances' \in [Holders -> Nat]
           /\ nextLeafIndex' \in 0..MaxIndex
           /\ nullifierSet' \in [Hashes -> Nat \cup {None}]
           /\ events' \in Seq(Event)
  <1>0. balances \in Balances /\ PoolAccount \in Holders /\ Accounts \subseteq Holders
        /\ Amounts \subseteq Nat /\ PoolAccount \notin Accounts /\ EmptyBytes \in Nullifiers
    BY PalletAssumption DEF TypeOK, Balances, Holders
  <1>1. CASE Untouched
    BY <1>1 DEF Untouched, storageVars, TypeOK
  <1>2. ASSUME NEW who \in Accounts, NEW amount \in Amounts, NEW c \in Commitments,
               NEW e \in EncryptedNotes, Shielded(who, amount, c, e)
        PROVE  /\ balances' \in Balances
               /\ events' \in Seq(Event)
               /\ UNCHANGED <<nextLeafIndex, nullifierSet>>
    <2>1. balances' \in Balances
      BY <1>0, <1>2, TransferType DEF Shielded
    <2>2. CommitmentAdded(c, nextLeafIndex, block, e) \in Event
      BY EventType
    <2>3. events' \in Seq(Event)
      BY <1>2, <2>2 DEF Shielded, TypeOK
    <2> QED
      BY <1>2, <2>1, <2>3 DEF Shielded
  <1>3. ASSUME RevealedFresh
        PROVE  /\ nextLeafIndex' \in 0..MaxIndex
               /\ nullifierSet' \in [Hashes -> Nat \cup {None}]
               /\ events' \in Seq(Event)
    <2>1. NullifierRevealed(EmptyBytes, block) \in Event
      BY <1>0, EventType
    <2>2. events' \in Seq(Event)
      BY <1>3, <2>1 DEF RevealedFresh, TypeOK
    <2>3. nullifierSet' \in [Hashes -> Nat \cup {None}]
      BY <1>3 DEF RevealedFresh, TypeOK
    <2> QED
      BY <1>3, <2>2, <2>3 DEF RevealedFresh, TypeOK
  <1>4. ASSUME NEW who \in Accounts, NEW amount \in Amounts, Unshielded(who, amount)
        PROVE  balances' \in Balances
    BY <1>0, <1>4, TransferType DEF Unshielded
  <1> QED
    BY <1>1, <1>2, <1>3, <1>4, StepEffect DEF Balances, TypeOK

\* TypeCorrect: for all parameters, no sequence of calls makes a balance
\* negative, moves the leaf index out of its type or logs a malformed event.
THEOREM TypeCorrect == Spec => []TypeOK
  <1>1. Init => TypeOK
    BY PalletAssumption DEF Init, TypeOK, Holders, Hashes, Event
  <1>2. TypeOK /\ [Next]_vars => TypeOK'
    BY StorageType, ClockType DEF TypeOK
  <1> QED
    BY <1>1, <1>2, PTL DEF Spec

-----------------------------------------------------------------------------
(***************************************************************************)
(* Safety of the balances.                                                 *)
(***************************************************************************)

\* NoDustStep: NoDust is preserved by every step.
LEMMA NoDustStep ==
    ASSUME TypeOK, NoDust, [Next]_vars
    PROVE  NoDust'
  <1>0. balances \in Balances /\ PoolAccount \in Holders /\ Accounts \subseteq Holders
        /\ Amounts \subseteq Nat /\ PoolAccount \notin Accounts
    BY PalletAssumption DEF TypeOK, Balances, Holders
  <1>1. CASE UNCHANGED balances
    BY <1>1 DEF NoDust, Holders
  <1>2. ASSUME NEW who \in Accounts, NEW amount \in Amounts, NEW c, NEW e,
               Shielded(who, amount, c, e)
        PROVE  NoDust'
    BY <1>0, <1>2, TransferNoDust DEF Shielded, NoDust
  <1>3. ASSUME NEW who \in Accounts, NEW amount \in Amounts, Unshielded(who, amount)
        PROVE  NoDust'
    BY <1>0, <1>3, TransferNoDust DEF Unshielded, NoDust
  <1> QED
    BY <1>1, <1>2, <1>3, StepEffect DEF Untouched, storageVars

\* NoDustAlways: KeepAlive keeps every account, the pool included, at zero or
\* at the existential deposit and above, whatever the calls.
THEOREM NoDustAlways == Spec => []NoDust
  <1>1. Init => NoDust
    BY PalletAssumption DEF Init, NoDust, Holders
  <1>2. TypeOK /\ NoDust /\ [Next]_vars => NoDust'
    BY NoDustStep
  <1> QED
    BY <1>1, <1>2, TypeCorrect, PTL DEF Spec

\* MoneyMovesThroughPoolAlways: every step moves funds between the pool and at
\* most one account, and keeps their sum.
THEOREM MoneyMovesThroughPoolAlways == Spec => MoneyMovesThroughPool
  <1>1. ASSUME TypeOK, [Next]_vars
        PROVE  [OneAccountAndPool]_vars
    <2>0. balances \in Balances /\ PoolAccount \in Holders /\ Accounts \subseteq Holders
          /\ Amounts \subseteq Nat /\ PoolAccount \notin Accounts
      BY <1>1, PalletAssumption DEF TypeOK, Balances, Holders
    <2>1. \A a \in Holders : balances[a] \in Nat
      BY <2>0 DEF Balances
    <2>2. CASE UNCHANGED balances
      BY <2>2 DEF OneAccountAndPool
    <2>3. ASSUME NEW who \in Accounts, NEW amount \in Amounts, NEW c, NEW e,
                 Shielded(who, amount, c, e)
          PROVE  OneAccountAndPool
      <3>1. /\ balances'[who] = balances[who] - amount
            /\ balances'[PoolAccount] = balances[PoolAccount] + amount
            /\ \A a \in Holders \ {who, PoolAccount} : balances'[a] = balances[a]
        BY <2>0, <2>3, TransferMoves DEF Shielded
      <3> QED
        BY <2>0, <2>1, <3>1 DEF OneAccountAndPool
    <2>4. ASSUME NEW who \in Accounts, NEW amount \in Amounts, Unshielded(who, amount)
          PROVE  OneAccountAndPool
      <3>1. /\ balances'[who] = balances[who] + amount
            /\ balances'[PoolAccount] = balances[PoolAccount] - amount
            /\ \A a \in Holders \ {who, PoolAccount} : balances'[a] = balances[a]
        BY <2>0, <2>4, TransferMoves DEF Unshielded
      <3> QED
        BY <2>0, <2>1, <3>1 DEF OneAccountAndPool
    <2> QED
      BY <1>1, <2>2, <2>3, <2>4, StepEffect DEF Untouched, storageVars
  <1>2. TypeOK /\ [Next]_vars => [OneAccountAndPool]_vars
    BY <1>1
  <1> QED
    BY <1>2, TypeCorrect, PTL DEF Spec, MoneyMovesThroughPool

\* PoolLockedAlways: after the first successful private_transfer or unshield,
\* of whichever account, the pool never pays again.
THEOREM PoolLockedAlways == Spec => PoolLocked
  <1>1. ASSUME TypeOK, [Next]_vars
        PROVE  [PoolLockedAfterSpend]_vars
    <2>0. balances \in Balances /\ PoolAccount \in Holders /\ Accounts \subseteq Holders
          /\ Amounts \subseteq Nat /\ PoolAccount \notin Accounts
      BY <1>1, PalletAssumption DEF TypeOK, Balances, Holders
    <2>1. balances[PoolAccount] \in Nat
      BY <2>0 DEF Balances
    <2>2. CASE UNCHANGED balances
      BY <2>1, <2>2 DEF PoolLockedAfterSpend
    <2>3. ASSUME NEW who \in Accounts, NEW amount \in Amounts, NEW c, NEW e,
                 Shielded(who, amount, c, e)
          PROVE  PoolLockedAfterSpend
      <3>1. balances'[PoolAccount] = balances[PoolAccount] + amount /\ amount \in Nat
        BY <2>0, <2>3, TransferMoves DEF Shielded
      <3> QED
        BY <2>1, <3>1 DEF PoolLockedAfterSpend
    <2>4. CASE RevealedFresh
      BY <2>4 DEF RevealedFresh, PoolLockedAfterSpend
    <2> QED
      BY <1>1, <2>2, <2>3, <2>4, StepEffect DEF Untouched, storageVars
  <1>2. TypeOK /\ [Next]_vars => [PoolLockedAfterSpend]_vars
    BY <1>1
  <1> QED
    BY <1>2, TypeCorrect, PTL DEF Spec, PoolLocked

-----------------------------------------------------------------------------
(***************************************************************************)
(* The event log against the nullifier set.                                *)
(***************************************************************************)
Logged(n) == {i \in DOMAIN events : /\ events[i].type = "NullifierRevealed"
                                    /\ events[i].nullifier = n}

LogMatches(n) ==
    IF nullifierSet[Hash(n)] = None
    THEN Logged(n) = {}
    ELSE \E i \in Logged(n) : /\ Logged(n) = {i}
                              /\ events[i].timestamp = nullifierSet[Hash(n)]

\* LogGrows: an event that reveals no n leaves the entries of n alone, and one
\* that does adds the last entry.
LEMMA LogGrows ==
    ASSUME TypeOK, NEW ev, events' = Append(events, ev), NEW n
    PROVE  /\ \A i \in DOMAIN events : events'[i] = events[i]
           /\ ~(ev.type = "NullifierRevealed" /\ ev.nullifier = n) => Logged(n)' = Logged(n)
           /\ ev.type = "NullifierRevealed" /\ ev.nullifier = n =>
                 Logged(n)' = Logged(n) \cup {Len(events) + 1}
           /\ events'[Len(events) + 1] = ev
  <1>1. events \in Seq(Event)
    BY DEF TypeOK
  <1>2. /\ Len(events) \in Nat
        /\ DOMAIN events = 1..Len(events)
        /\ DOMAIN events' = 1..(Len(events) + 1)
        /\ \A i \in 1..Len(events) : events'[i] = events[i]
        /\ events'[Len(events) + 1] = ev
    BY <1>1
  <1> QED
    BY <1>2 DEF Logged

\* LogMatchesStep: every step keeps the log and the set of a nullifier in step.
LEMMA LogMatchesStep ==
    ASSUME TypeOK, [Next]_vars, NEW n \in Nullifiers, LogMatches(n)
    PROVE  LogMatches(n)'
  <1>1. CASE Untouched
    BY <1>1 DEF Untouched, storageVars, LogMatches, Logged
  <1>2. ASSUME NEW who, NEW amount, NEW c, NEW e, Shielded(who, amount, c, e)
        PROVE  LogMatches(n)'
    <2>1. CommitmentAdded(c, nextLeafIndex, block, e).type # "NullifierRevealed"
      BY DEF CommitmentAdded
    <2>2. events' = Append(events, CommitmentAdded(c, nextLeafIndex, block, e))
          /\ nullifierSet' = nullifierSet
      BY <1>2 DEF Shielded
    <2>3. Logged(n)' = Logged(n) /\ \A i \in DOMAIN events : events'[i] = events[i]
      BY <2>1, <2>2, LogGrows
    <2> QED
      BY <2>2, <2>3 DEF LogMatches, Logged
  <1>3. CASE RevealedFresh
    <2> DEFINE ev == NullifierRevealed(EmptyBytes, block)
    <2>1. ev.type = "NullifierRevealed" /\ ev.nullifier = EmptyBytes /\ ev.timestamp = block
      BY DEF NullifierRevealed
    <2>2. events' = Append(events, ev)
      BY <1>3 DEF RevealedFresh
    <2> HIDE DEF ev
    <2>3. CASE n = EmptyBytes
      <3>1. Logged(n) = {}
        BY <1>3, <2>3 DEF RevealedFresh, LogMatches
      <3>2. Logged(n)' = {Len(events) + 1} /\ events'[Len(events) + 1] = ev
        BY <2>1, <2>2, <2>3, <3>1, LogGrows
      <3>3. nullifierSet'[Hash(n)] = block /\ block # None
        <4>1. Hash(n) \in Hashes
          BY DEF Hashes
        <4> QED
          BY <1>3, <2>3, <4>1, PalletAssumption DEF RevealedFresh, TypeOK
      <3> QED
        BY <2>1, <3>2, <3>3 DEF LogMatches
    <2>4. CASE n # EmptyBytes
      <3>1. Logged(n)' = Logged(n) /\ \A i \in DOMAIN events : events'[i] = events[i]
        BY <2>1, <2>2, <2>4, LogGrows
      <3>2. Hash(n) # Hash(EmptyBytes)
        BY <2>4 DEF Hash
      <3>3. nullifierSet'[Hash(n)] = nullifierSet[Hash(n)]
        <4>1. Hash(n) \in Hashes
          BY DEF Hashes
        <4> QED
          BY <1>3, <3>2, <4>1 DEF RevealedFresh, TypeOK
      <3> QED
        BY <3>1, <3>3 DEF LogMatches, Logged
    <2> QED
      BY <2>3, <2>4
  <1> QED
    BY <1>1, <1>2, <1>3, StepEffect

\* NullifierLogAlways: each nullifier is announced exactly when it is stored,
\* once, with the block the set records.
THEOREM NullifierLogAlways == Spec => []NullifierLogMatchesSet
  <1>1. NullifierLogMatchesSet <=> \A n \in Nullifiers : LogMatches(n)
    BY DEF NullifierLogMatchesSet, LogMatches, Logged
  <1>2. Init => NullifierLogMatchesSet
    BY <1>1 DEF Init, LogMatches, Logged, Hashes
  <1>3. TypeOK /\ NullifierLogMatchesSet /\ [Next]_vars => NullifierLogMatchesSet'
    <2> SUFFICES ASSUME TypeOK, NullifierLogMatchesSet, [Next]_vars,
                        NEW n \in Nullifiers
                 PROVE  LogMatches(n)'
      BY DEF NullifierLogMatchesSet, LogMatches, Logged
    <2> QED
      BY <1>1, LogMatchesStep
  <1> QED
    BY <1>2, <1>3, TypeCorrect, PTL DEF Spec

-----------------------------------------------------------------------------
(***************************************************************************)
(* Refinement.                                                             *)
(***************************************************************************)

\* DepositStep: shield is a deposit of the abstract pool.
LEMMA DepositStep ==
    ASSUME TypeOK, NEW who \in Accounts, NEW amount \in Amounts, NEW c, NEW e,
           Shielded(who, amount, c, e)
    PROVE  Pool!Next
  <1>1. balances \in Balances /\ PoolAccount \in Holders /\ who \in Holders
        /\ amount \in Nat /\ who # PoolAccount
    BY PalletAssumption DEF TypeOK, Balances, Holders
  <1>2. balances'[PoolAccount] = balances[PoolAccount] + amount
    BY <1>1, TransferMoves DEF Shielded
  <1>3. spentHashes' = spentHashes
    BY DEF Shielded, spentHashes
  <1> QED
    BY <1>2, <1>3 DEF Pool!Next, Pool!Deposit

\* PublishStep: storing a fresh nullifier publishes its hash.
LEMMA PublishStep ==
    ASSUME TypeOK, RevealedFresh
    PROVE  Hash(EmptyBytes) \in Hashes /\ Pool!Publish(Hash(EmptyBytes))
  <1>1. Hash(EmptyBytes) \in Hashes
    BY PalletAssumption DEF Hashes
  <1>2. Hash(EmptyBytes) \notin spentHashes
    BY DEF RevealedFresh, spentHashes
  <1>3. block # None
    BY PalletAssumption DEF TypeOK
  <1>4. spentHashes' = spentHashes \cup {Hash(EmptyBytes)}
    BY <1>1, <1>3 DEF RevealedFresh, spentHashes, TypeOK, Hashes
  <1> QED
    BY <1>1, <1>2, <1>4 DEF Pool!Publish

\* WithdrawStep: a successful unshield is a withdrawal of the abstract pool.
LEMMA WithdrawStep ==
    ASSUME TypeOK, NEW who \in Accounts, NEW amount \in Amounts,
           RevealedFresh, Unshielded(who, amount)
    PROVE  Pool!Next
  <1>1. balances \in Balances /\ PoolAccount \in Holders /\ who \in Holders
        /\ amount \in Nat /\ who # PoolAccount
    BY PalletAssumption DEF TypeOK, Balances, Holders
  <1>2. balances'[PoolAccount] = balances[PoolAccount] - amount
    BY <1>1, TransferMoves DEF Unshielded
  <1>3. amount <= balances[PoolAccount]
    BY <1>1, PalletAssumption DEF Unshielded, CanTransfer, Balances
  <1> QED
    BY <1>2, <1>3, PublishStep DEF Pool!Next, Pool!Withdraw

\* Refinement: the pallet implements the shielded pool: nothing leaves the pool
\* without a fresh nullifier, and nothing the pool does not hold.
THEOREM Refinement == Spec => ImplementsShieldedPool
  <1>1. Init => Pool!Init
    BY PalletAssumption DEF Init, Pool!Init, Holders, spentHashes
  <1>2. ASSUME TypeOK, [Next]_vars
        PROVE  [Pool!Next]_<<balances[PoolAccount], spentHashes>>
    <2>1. CASE Untouched
      BY <2>1 DEF Untouched, storageVars, spentHashes
    <2>2. CASE RevealedFresh /\ UNCHANGED balances
      BY <1>2, <2>2, PublishStep DEF Pool!Next, Pool!Spend
    <2> QED
      BY <1>2, <2>1, <2>2, StepEffect, DepositStep, WithdrawStep
  <1>3. TypeOK /\ [Next]_vars => [Pool!Next]_<<balances[PoolAccount], spentHashes>>
    BY <1>2
  <1> QED
    BY <1>1, <1>3, TypeCorrect, PTL DEF Spec, ImplementsShieldedPool, Pool!Spec
=============================================================================
