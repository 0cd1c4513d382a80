# TLA+ models of Privachain

Privachain is a privacy wallet: a Substrate pallet that pools shielded funds
(`parachain/pallets/zk_privacy`), a circom circuit that proves private
transfers, the native witness calculator circom generated from it, and an Expo
client that keeps notes, selects coins, proves, submits and follows
transactions. This directory holds models of those parts, the TLC configurations
that check them, and TLAPS proofs about each of them for every value of the
constants.
`PROJECT.json` maps every definition to the lines it models.

## Inventory

| Part | State | Operations | Talks to |
|---|---|---|---|
| zk_privacy pallet (`lib.rs`) | leaf index, nullifier set, events, the pool account's balance | `shield`, `private_transfer`, `unshield` | balances pallet, FRAME storage layer |
| note store (`client/utils/zk/notes.ts`) | list of notes in localStorage | mark spent, add, set leaf index, clear, export, import, select | transfer client |
| transfer client (`client/utils/blockchain.ts`) | closures of running transfers and deposits | `executePrivateTransfer`, `depositToPrivatePool` (`withdrawFromPrivatePool` always throws) | note store, adapter, prover, chain |
| circuit adapter (`circuit-adapter.ts`) | none | `prepareCircuitInput`, `validateCircuitInput` | circuit |
| circuit (`circuit.circom`) | none | constraints of a transfer with 4 inputs and 4 outputs | prover |
| native witness calculator (`circuit_cpp/main.cpp`, `calcwit.cpp`) | signals, components, the assigned inputs and their count | load a JSON document, assign inputs, start the program, write the witness | generated program, `circuit.dat` |
| generated program (`circuit_cpp/circuit.cpp`) | signals and components of every template instance | `Transaction_run`, `MerkleProof_run`, `Poseidon_run`, `MultiMux1_run`, `PoseidonEx_run` and below | calculator's memory |
| field arithmetic (`circuit_cpp/fr.cpp`, `fr.hpp`) | none | conversions between short, long and Montgomery elements, division, powers | GMP, `fr.asm` |
| database (`client/storage/database.ts`) | five AsyncStorage keys | save, update, delete, clear, import | screens, auth, context |
| PIN, biometrics, auto-lock (`client/security/auth.ts`) | PIN hash and salt in the keychain, last authentication, settings | set up, verify, change and remove the PIN, lock test | database, lock screen |
| connection hooks (`client/api/hooks.ts`) | React state, a timer, one API object | connect, health polling, cleanup, reconnect | chain API |
| indexer client (`client/api/indexer.ts`) | endpoint | queries with fallback, chain scan in batches | indexer service, chain API |
| wallet context (`client/context/WalletContext.tsx`) | lock flag, cached balances and lists | initialise, lock, unlock, refresh, 30 s timer | database, hooks, auth |
| chain API (`client/api/chain.ts`, `chain.ts.real`) | mock state, or a connection | extrinsics, queries, subscriptions | node |
| keys, stealth addresses, note encryption | wallet keys in the keychain | derive, encrypt, decrypt | wallet context |
| runtime, node, template pallet | the parachain template | block production | pallet |

What is hard here, and what makes each part correct:

* **Pallet.** Two calls consume nullifiers with separate code, in any order and
  from any account; `unshield` stores the nullifier before the payment that may
  fail; balances meet the existential deposit. Correct means: a nullifier
  counts once and only with its event, and funds are conserved.
* **Wallet.** A transfer holds a selection of notes over four awaits while other
  transfers, status callbacks, imports and restarts change the store. Status
  updates repeat after a retraction, arrive after a restart to nobody, and the
  write they cause may be refused. Correct means: the store agrees with the
  chain, never counts a transfer half, never offers a note that is not the
  wallet's own, and an answered transfer is settled (it is, unless a write is refused).
* **Coin selection.** A greedy loop with a limit on the inputs. Correct means: it
  fails only when no selection exists, and takes as few notes as possible.
* **Circuit and adapter.** The tree grows between the fetches of the paths; sums
  are compared in the field; empty slots are padded. Correct means: what the
  adapter accepts has a witness, and a witness means equal sums: in the field, and so
  in amounts as long as both sums are below the prime.
* **Database.** Every function reads, awaits and writes back a whole value.
  Correct means: calls are atomic updates of their key, but for what a call loses that
  was overtaken between its read and its write.
* **Witness calculator.** Memory is allocated uninitialised and addressed by
  computed offsets; a component runs when a counter of its inputs reaches zero;
  the inputs come in the order of the document's keys, found by probing a hash
  table. Correct means: every document is answered, the program runs once and only
  with all inputs, no signal is read before it is written or written twice, and
  a witness is written exactly when the constraints hold.
* **Field and JSON.** One number has three forms, and numbers of the document pass
  through doubles. Correct means: every operation agrees with arithmetic modulo
  the prime, and flattening a document loses, renames or reorders no value but
  what a double cannot hold and what a second path that spells the same name replaces.
* **PIN.** Hash, salt and flag are written by three awaits, any of which may be the
  last, and nothing keeps two calls apart. Correct means: after calls that agree on what
  they set, or one that ran alone, the three and a verification agree with it; and
  whatever overlaps, a PIN that was replaced or removed is not accepted again.
* **Connection hook.** The effect depends on what it sets, so it cleans up after
  itself while connecting. Correct means: one connect at a time, no timer is
  leaked, and a connection is shown.
* **Wallet context.** Closures of the first render outlive it; refreshes overlap.
  Correct means: the balances shown become right.
* **Chain scan.** A failed batch looks like an empty one. Correct means: the batches
  tile the range.

`PROJECT.json` lists these as hazards, each at the line where it bites and with
the properties that would catch it.

## Modules

### PrivacyPallet, ShieldedPool, PrivacyPalletProofs

`PrivacyPallet` is the pallet: `balances`, `nextLeafIndex`, `nullifierSet` and
`events` are the storage; `block` and `inBlock` are the clock of the runtime;
`result` is what the last call returned. Each extrinsic is an operator from the
storage to an outcome (`ShieldOutcome`, `PrivateTransferOutcome`,
`UnshieldOutcome`), with the checks and writes in the order of the code, and
`Dispatch` applies FRAME's storage layer: the writes are kept on Ok and dropped
on an error. The layer is what makes an `unshield` harmless whose payment fails after it has
stored the nullifier; `NullifierLogMatchesSet` is about the two together. `Currency::transfer` with `KeepAlive` is external and modelled by its two
conditions. The hash is an injective constructor. `CommitmentRoot` is declared in
the pallet, never read and never written, so it is no variable here.

The guard of `private_transfer` and `unshield` is translated as it stands: it
demands that the nullifier, the commitments and the encrypted notes *are*
empty. This is why the loop over the commitments never runs and why
`PoolLocked` holds: the only nullifier that passes is the empty one, and it
passes once for the whole chain.

`ShieldedPool` is the abstract promise, over the pool's balance and the set of
spent tags: deposit, publish a fresh tag, or withdraw what is there against a
fresh tag. `ImplementsShieldedPool` is the refinement.

### CoinSelection, NoteWallet

`CoinSelection` gives `getSpendableNotes` and `selectNotesForTransfer`. The sort is
stated by ranks: a note comes after those that are larger and after equal ones
that stand before it in the store, since the sort of JavaScript is stable. The
loop is stated as what it returns, the shortest non-empty prefix of the sorted notes
that reaches the target (for a limit other than 0, which is 4 wherever the client selects).

`NoteWallet` composes that selection with the store and the asynchronous
operations. JavaScript runs one callback at a time, so each function of
`notes.ts` is one step, and a transfer is cut exactly at its awaits:
`BeginTransfer` (selection and outputs), `Prepare` (after the Merkle paths),
`Proved`, `Submit` (verification and `signAndSend`), then the callback's
`OnDispatchError`, `OnInBlock` or, when `setItem` throws inside it,
`OnInBlockRefused`: this leaves the promise unsettled and the subscription alive, so a later
`InBlock`, after a retraction, runs the callback again and may settle it. The history
variable `unsaved` holds the transfers whose callback threw when it ran last.
`inputs` and `outputs` are what the closure holds. The chain
is external: `Include` accepts a transaction when its nullifiers are new,
`Retract` undoes a suffix of the ledger, after which a transaction is included
and reported again. The prover answers yes or no. It is the environment of this
module, not a claim that it succeeds: as committed, `getMerkleProof` returns a mock
with which no proof exists (`WitnessIffFull`).

### CircuitTemplate, TransferCircuit

`CircuitTemplate` is the constraints of `circuit.circom`, over any hash, any sum and any
multiplexer `Mux`. The multiplexer is arithmetic, and nothing constrains a path index to 0 or 1: with
an index of 2 the program mixes the two hashes, which two documents of the run `witness` try.
The adapter writes only 0 and 1, the cases of `Mux` in `TransferCircuit`.
`TransferCircuit` is what the client makes of them: the checks and the padding of the adapter, the
fetches of the paths one by one, and a tree that grows in between. Poseidon is
an injective constructor and amounts are residues modulo `FieldPrime`. A witness
exists exactly when every constraint holds. It extends `CoinSelection`, whose
`TotalAmount` is the sum of amounts. `service` is what answers
`getMerkleProof`: the mock of the committed client, or the tree it stands for.

### WalletDatabase, AtomicStore

A call of `database.ts` is the list of storage requests it makes; a write applies an
update to what the call *read*, not to what is stored by then. The constants say
what the environment does: `Overlap` (do callers start a call on a key while
another is running?), `ReadsFail` (the getters answer a failure with the
default) and `WritesFail` (the setters throw it on). `AtomicStore` is the abstract
database in which every change is one update of the current value or, once a
read has failed, of the default. The history variable `overtaken` holds the calls whose
key another call wrote between their read and their write: `OnlyOvertakenWritesLose` says
that every other write is a step of `AtomicStore`. Three of the
settings and two fields of the sync state stand for all; the removals of
`clearAllData`, which the code starts together, are requested in one order here, each on
its own if another fails. Queries change nothing and are left out.

### CircuitProgram, InputHashMap, WitnessCalculator

`CircuitProgram` is the generated file as data: for every template the signals and
components it takes up and the statements of its `_run` function, loops unrolled,
each offset the one in the file. `WitnessCalculator` executes it. `signals` is
`signalValues` on the addresses written so far, `components` is
`componentMemory` on the components created, `stack` the calls under way. A key of
the document (`LoadKey`), a value (`SetInputSignal`) and a statement
(`CreateSubcomponents`, `SetSubcomponentInput`, `CopySignal`, `AddToSum`,
`CheckEqual`, `CheckSums`, `Return`) are one step each; a failed assertion or an
exception ends the process (`Abort`). `PoseidonEx`, with all below it, is one
function `Permute` of its inputs.

`InputHashMap` is the probing of the input table, which the compiler fills; here it
is a constant with what `circuit.dat` holds.

### FrField, JsonInput, PureCalls, MCAlgorithms

`FrField` is the functions of `fr.cpp` on the three forms of an element, with what
they take from `fr.asm` and GMP stated as external operators. `JsonInput` is the flattening and the
conversion of a document (`qualify_input`, `json2FrElements`); names are put together
from characters as the code does it, so that two paths may get one name, whose last value
is kept (`Assigned`). `PureCalls` is one call of the
selection or of the lookup, with the table as the compiler fills it, and the
properties that compare its result with what the call is for. `MCAlgorithms` adds the
calls of the field and of the flattening and runs them all on every small input.

### ChainConnection, WalletContext, PinStore, ChainScan, ClientServices

`ChainConnection` is `useChainConnection`. `state` is what the `set*` calls asked for
and `shown` what the last render had; `Render` runs the cleanup and the effect
when `connecting` has changed, because the effect depends on a callback that
depends on it. `calls` counts connects under way, `timers` the running intervals, `held`
whether the ref points to one, `linked` is the flag of the mock API.

`WalletContext` is `WalletProvider`: the three awaits of `initializeWallet`, `Lock`,
`Unlock`, the 30 s `Interval` and the overlapping refreshes, each with the values
of the render its closure comes from (`unlock` keeps those of the first).

`PinStore` is `setupPin`, `changePin`, `removePin` and `verifyPin` of `auth.ts`, and the
`saveSettings` that the flag shares with every other setting, made by `Callers` whose calls overlap at
any await: the settings screen has no busy flag, and the PIN pad fires again when the last digit is
typed again. Each write is a step, a settings read may be refused and yield the defaults, `Refuse` ends a call
whose request is refused, and `Close` ends them all. `settled` is what the last calls that overlapped set,
`flagged` whether no other write of the settings clashed with them, and `stale` the PINs that a call which
returned has replaced or removed.

`ChainScan` is `scanChain` of the indexer client with requests that fail.

`ClientServices` composes them. The context reads `shown` of the hook, and
`Restart` puts both back while the database stays. The PIN store and the scan
share no state with the session, so a behaviour exercises one of the three.

## Runs

| Run | Bounds | Shows |
|---|---|---|
| `pallet` | 2 signers with 7 and 2 units, deposit 2, amounts 0, 1, 2, 5, 2 nullifiers, 3 blocks of 2 calls; 30,237 states | `TypeOK`, `NoDust`, `NullifierLogMatchesSet`, `PoolLocked`, `MoneyMovesThroughPool`, `ImplementsShieldedPool` |
| `algorithms` | stores of up to 5 notes of five kinds, targets 0..7, limits 2 and 4; tables of 4 slots; the field of 13 with shorts -4..3; nested documents with a 3-bit mantissa; 196,966 states | `SelectionComplete`, `SelectionMinimal`, `LookupFinds`, `FieldAgrees`, `JsonLosesNothing` |
| `wallet` | 2 transfers over 2 notes in four environments: a deposit and restarts; 2 retractions and restarts; refused writes and a retraction; refused writes with exports, imports, clears and restarts; 364,964 states | `TypeOK`, `AcceptedIsApplied`, `AppliedWhole`, `InputsAreReceived`, `SelectionPassesAdapter`, `SpentOnlyIfRevealed`, `StoreOnlyGrows`, `TransferReachesChain`, `ReportSettles` |
| `wallet_refused` (violation) | one environment that refuses writes | a transfer that is in a block and whose callback threw is neither resolved nor rejected |
| `circuit` | 2 slots, 8 leaves, 3 notes, field of 13 elements, paths of the mock and of the tree; 2,055 states | `TypeOK`, `WitnessIffFull` |
| `circuit_padding` (violation) | same | a padded transfer has no witness, although the padding is there to fit the circuit |
| `witness` | the compiled size (4 slots, 20 levels, 72,906 signals, 14,485 components), field of 10,007, 17 documents; 15,617 states | `RunsOnceComplete`, `CountersCountInputs`, `NoUninitializedRead`, `RegionsTile`, `WitnessIffCircuit`, `WitnessComplete`, `SingleAssignment`, no deadlock |
| `database` | 3 calls of any functions, in any overlap, 1 id, failing reads, refused writes, callers symmetric; 754,497 states | `TypeOK`, `OnlyOvertakenWritesLose` |
| `database_overlap` (violation) | 3 calls that may overlap | a setting whose save resolved is taken back by the save of another setting |
| `services` | 1 restart, 1 change of the database; 2 PINs and 3 calls of 2 callers; all ranges within 7 blocks in batches of 3; 194,728 states | `TypeOK`, `OneConnectAtATime`, `NoLeakedTimer`, `PinConsistent`, `VerifyAgrees`, `StalePinRejected`, `ScanTiles`, `ConnectionShows`, `BalanceHeals` |
| `pin_overlap` (violation) | 2 calls of the PIN store | two setups overlap and return, and the hash of one stands next to the salt of the other |
| `connection_kept` (violation) | the session | the hook closes an open connection while its component stays mounted |

Why the bounds are enough. In the pallet, calls share one pool and one nullifier
set, so two signers (one too poor for most amounts), a second nullifier and six
calls give each ordering of a spend, a competing spend and a failing payment,
within a block and across blocks; amounts lie below, at and above the
existential deposit. In the wallet, a conflict needs two transfers and notes
that either can take; the amounts make one transfer need one note, both notes,
or none. Two retractions report one transaction three times;
`SpentOnlyIfRevealed` speaks of behaviours without a retraction so far.
The environment that refuses writes and retracts is where a callback throws, its block is
retracted and the next `InBlock` is stored or refused in turn. In the circuit, two slots and
three notes separate full from padded transfers, and `<<15, 1>>` is equal to 3 in
the field only. In the database, two calls race and a third
looks on or overtakes both. The
witness calculator is deterministic, so a document is one behaviour: one that
satisfies every constraint (its inputs exceed its outputs by exactly the prime),
one for each constraint missed, and for each way a document can be
wrong: no keys, a key missing, unknown, repeated (before and after the program
has run), with a value too few or too many, and two with a path index of 2, which the
multiplexer takes. A permutation writes its output and its inner signals in one step, so
`SingleAssignment` speaks of the signals the modelled statements write. The polynomial that
stands for the permutation is used by the program and by the constraints it is
compared with, so they differ only when the wiring does. In the services, one change of the
database while refreshes are under way is what makes one of them stale, two callers are what makes
hash and salt of different calls meet, three calls let a verification follow two others, a second
PIN is one to replace, and ranges of one
to three batches, empty ones too, meet every boundary.

The run `witness` checks for deadlock: only an ended process may stand still, so
every document is answered. `CHECK_DEADLOCK FALSE` stands in the other
configurations because the systems may stop: the pallet's runs end at the bound on blocks, a wallet may have all its transfers
settled, an algorithm or a proof is computed once, a scan returns, and each
caller makes one call.

Fairness is stated in two modules. `FairSpec` of `NoteWallet` has weak fairness of `Advance`
(the event loop runs the continuation of a resolved promise, and the prover,
being a function that returns or throws, answers) and of `Deliver` (a status
update that has arrived is handed to the callback). Nothing is assumed of the
user or of the chain: a transaction may stay in the pool for ever, and so may
the promise of its transfer. `FairSpec` of `ClientServices` has weak fairness for the
session: React mounts the component and renders what was set, the mock's connect
resolves after its delay, awaits are resumed and the interval fires while its
effect is in place. The health checks need no fairness, and nothing is assumed
of the user, who need never unlock.

Every property of a passing run has a mutant of a mapped definition that breaks
it; the mutants stand directly before the definitions they change.

## Disagreements between the code and its documentation

Each of these is a violation run, a property that states the quoted line and a behaviour that breaks it.

1. `blockchain.ts:210` may throw inside the callback, where nothing catches it: then
   "const txHash = await executePrivateTransfer({" (`ZK_INTEGRATION.md:96`) neither returns nor fails.
2. `circuit-adapter.ts:127` pads with zeros what the circuit requires to be hashes,
   "as required by circuit" (`circuit-adapter.ts:41`).
3. `database.ts:279` writes back fields read before an await, so "Save wallet
   settings" (`database.ts:271`) may resolve for a setting that is not saved.
4. `auth.ts:153` writes hash and salt of setups that overlap in any order, so that no PIN is accepted
   after "PIN has been updated" (`SettingsScreen.tsx:89`), the backup that "always works"
   (`QUICK_START.md:429`).
5. `hooks.ts:101` disconnects on every change of `connecting`, while "Reuse the singleton connection"
   and "Call `disconnect()` when app closes" (`api/README.md:598-600`) ask to connect once.

Some more are plain from the models and need no behaviour of several steps:

* `lib.rs:140` logs a shield at `NextLeafIndex` and never advances it, "Amount of commitments"
  (`lib.rs:68`): all shields share an index.
* `lib.rs:171` requires the arguments of `private_transfer` to be empty, so a call that succeeds
  emits no "`CommitmentAdded` event for the new commitment" (`lib.rs:159`). `PoolLocked` shows what else
  follows from it.
* `blockchain.ts:285` updates a note that was never stored, under the comment "Save
  note with leaf index" (`blockchain.ts:284`): the note of a deposit is lost.
* `blockchain.ts:206` is the only place where a transfer "updates local note state"
  (`ZK_INTEGRATION.md:248`): when the app is closed before, the change is lost and the inputs look unspent.

## Proofs

Every theorem holds for every value of the constants that the named assumption
admits; the assumptions only give types and sizes, and TLC evaluates each of them
in a run.

| Module | Theorems | Assumption |
|---|---|---|
| `PrivacyPalletProofs` | `TypeCorrect`, `NoDustAlways`, `NullifierLogAlways`, `MoneyMovesThroughPoolAlways`, `PoolLockedAlways`, `Refinement` (`Spec => Pool!Spec`) | `PalletAssumption` |
| `NoteWalletProofs` | `TypeCorrect`, `StoreNeverShrinks`, `InputsAlwaysReceived`, `AdapterNeverRejects`, `SpentIsRevealed`, `AcceptedAlwaysApplied`, `WholeAlways` | `WalletAssumption` |
| `TransferCircuitProofs` | `TypeCorrect`, `WitnessOnlyIfFull`, `CircuitBalances` | `CircuitAssumption` |
| `PureCallsProofs` | `CompleteAlways`, `MinimalAlways`, `FindsAlways` | `CallAssumption`: limits and hashes are not 0 |
| `WitnessCalculatorProofs` | `RunsOnceCompleteAlways`, `RegionsAlwaysTile`, `SignalsInvAlways`, `SingleAssignmentAlways`, `CountersCountInputsAlways`, `NoUninitializedReadAlways`, `WitnessCompleteAlways` | `CalculatorAssumption`, `ProgramAssumption` |
| `WalletDatabaseProofs` | `TypeCorrect`, `LossOnlyOvertaken`; `DatabaseRefinement` (`Spec => ImplementsAtomicStore`) where calls on one key do not overlap | `DatabaseAssumption`; `~Overlap` for the last only |
| `ClientServicesProofs` | `TypeCorrect`, `OneConnectAtATimeAlways`, `NoLeakedTimerAlways`, `PinConsistentAlways`, `VerifyAgreesAlways`, `StalePinRejectedAlways`, `ScanTilesAlways` | `ServicesAssumption`, `ContextAssumption`, `PinAssumption`, `ScanAssumption` |

`CoinSelectionProofs` holds the lemmas about selections that three of them share.

**Pallet.** `ShieldEffect`, `PrivateTransferEffect` and `UnshieldEffect` say what each
call does to the storage, and `StepEffect` combines them: a step leaves the
storage alone, shields, publishes the fresh empty nullifier, or publishes it
and pays. Every other proof is a case split on these four. `TypeOK` is inductive
as it stands, and it is the strengthening the others need: `NoDust` and
`NullifierLogMatchesSet` are inductive together with it, because what a transfer
leaves, and where `Append` puts an event, depends on the types of the state.
`TransferType`, `TransferMoves` and `TransferNoDust` carry the arithmetic of
`KeepAlive`; they rest on `PoolAccount \notin Accounts` (the pool account is derived from the pallet's
id and signs nothing). `NullifierLogAlways` uses that the hash is injective.

**Wallet.** The invariants come in layers, each proved from the ones before it.
`TypeOK` is inductive. `StoreInv` says that whatever is in the store or in a backup is
genuine (a received note with its leaf index, or an output of a transfer, which
has none), so a selection only ever holds received notes: `InputsAreReceived` and
`SelectionPassesAdapter`. `ChainInv` relates the store to the ledger: who is in the ledger was
submitted, and while nothing was retracted, who is reported in a block is in
the ledger and what is marked spent has been revealed by it, in the store and in the backup,
which an import may bring back at any time. `AppliedInv` follows a transfer to its end:
without an import or a clear its inputs stay in the store, and its outputs are only ever stored after the
inputs were marked, all at once; a transfer on the ledger is applied, has its `InBlock` to come, is in
`unsaved`, or has lost its callback to a restart. `AcceptedIsApplied` and `AppliedWhole` need all four: a callback
that threw is followed by a retraction and another `InBlock`, which finds a store that others have written since.

**Circuit.** `CircuitInv` says that the circuit's input is what the adapter makes of the chosen
notes and of a path for each of them, and that the outcome is that of the
constraints on it. `WitnessOnlyIfFull` then says when these constraints hold. One
direction is about padding: an empty slot has the nullifier 0, and no hash is 0
(`HashIsNoLiteral`). The other needs that a path taken from a tree of any depth leads to
its root (`PathLeadsToRoot`), also when the tree had grown by the time the next path was
fetched, and that the amounts of full slots sum up in the field to the total (`FieldSumIsTotal`, `ModularSum`).
`CircuitBalances` is about the circuit alone, whatever has checked the amounts before: where the hashes
hold, the constraints hold exactly when the totals differ by a multiple of the prime (`SameResidue`),
so that below the prime they are equal.

**Coin selection.** `SelectionComplete` and `SelectionMinimal` are exchange arguments:
among all selections of k notes the first k of the sorted store have the largest sum,
so where they do not reach the target nothing of that size does. It rests on
the sort being a permutation in which no note stands before a larger one, which is
proved from the ranks, and on sums over sequences and over sets of positions
agreeing.

**Lookup.** `FindsAlways` is about the table the compiler fills: inserting keeps
every earlier entry reachable (no empty slot between its home and it), and a
free slot is found as long as there are fewer entries than slots. `LookupSound` and
`LookupComplete` give what the search returns on such a table.

**Witness calculator.** `RunsOnceComplete` is not inductive: it says nothing of how the
counter came to be zero. `LoadInv` adds that the counter is the number of inputs
not yet assigned and that the program has been started exactly when it is zero.
`SetInputSignalKeeps` is the step that matters: an input leaves the unassigned set
once, because one that is assigned again aborts. It needs that the address comes
from the table (`LookupSound`) and is an input (`SlotInput`).

`RegionsTile` is proved for every number of slots and levels, not only for the compiled
4 and 20. The first part is about the program as data: the loops are unrolled with
`FlattenSeq`, whose elements `FlattenUniform` locates, and `ProgramShape` concludes that every
`*_run` creates its sub-components first, in blocks of one size that follow each other,
and then only uses them. From it `KidsFollow`, `KidsApart` and `KidWithin` give the place and the
signals of sub-component `k` from those of its component. The second part is the
inductive invariant `MemoryInv`. That the lists are laid out so (`Laid`) is not inductive:
a component may be created where another one is. So the invariant adds that all that
is in the region of a call under way is within a sub-component it has created (`Tidy`),
that a component waiting for inputs has nothing in its region (`Untouched`), and that
each call is of a component in the region of its caller (`Calls`); what the next statement creates
is then new (`CreateKeeps`). The other steps only count down, release or move on (`Kept`).

What the program does to the signals rests on the order of its statements, which is
again a property of data of any size. `GivenAt(t, k, o)` is the statement of template
`t` that gives input `o` of its `k`-th sub-component a value, `CopiedAt(t, o)` the one
that writes its own signal `o`; `ProgramOrdered` proves of each of the four templates that
these statements exist, that every statement that writes is the one listed for what it writes, and
that every statement reads only what is readable at that place: an input, a signal copied
before, or a signal of a sub-component whose last input was given before.

None of `CountersCountInputs`, `NoUninitializedRead`, `SingleAssignment` and
`WitnessComplete` is inductive. That a statement's target has no value yet, and that what it
reads has one, depends on how far its call has come, on which other
components have run, and on no two components sharing a signal. `SignalsInv` says these three
things at once: a call has made exactly the writes of the statements before its next
one (`Progress`); a component that waits for inputs has written nothing and was created by a
call under way, and one that has run and is not on the stack has written all (`Outputs`); any two
components are nested or apart (`Apart`), every address written belongs to one of
them (`Covered`), and every counter is the number of inputs without a value (`Counted`). Before the
start, only inputs have values, and when the witness is written no call is left.
Each statement is one case: `CreateEffect` (what is created lies where nothing
was written), `SetEffect` (the counter of one component goes down by one; at zero it is called, with
nothing written, or, being a permutation, writes all), `CopyEffect`, `PlainEffect` (nothing
is written) and `ReturnEffect` (a call at its end has written everything). With `Fresh`, which
says that a target has no value yet, each of them also shows that no value is ever
overwritten.

**Client services.** The invariant is `ServicesInv`. Its part about the connection says that a connect under
way is announced by `state.connecting` and runs without a timer; so a second
connect is refused, and the timer a finished connect starts is the only one.
Its part about the PIN (`PinInv`) assumes nothing of the callers but that each awaits its own call.
`WrittenInv` says that as long as all that set the PIN since they last overlapped agree, every write made so far
stands; `FlagInv`, that a call which is alone in writing the settings finds the flag right and leaves it so;
`ReadsInv`, that what a quiet verification has read is what is
stored. `StaleInv` carries `StalePinRejected` through every overlap: a hash of a stale PIN is
neither stored, nor held by a verification that began after it had become stale, nor to be written by a call
under way, and each call knows the PINs it replaces. A hash and a salt of different setups never match, since
every setup draws a salt of its own. `TypesInv` adds the wallet context, whose type invariant is not
inductive: a balance that is shown may come from a refresh under way, so `ContextInv` says
that a refresh that asks for the public balance holds a private one that was read.
`ScanTiles` speaks of the scan when it returns; the invariant `ScanInv` says at every
moment that both lists are what the blocks from the first up to `currentBlock` hold, without
those of the batches that failed (`Collect`). `CollectSplit` and `CollectSkips` are the
two ways a batch goes: what a range holds is what its two parts hold, one after the other,
and a failed part adds nothing. The batches tile because `currentBlock` only moves to the
block after the last one asked for.

**Database.** The invariant `DatabaseInv` says that a call has read nothing while it has more than one
request left, and that with one left, a write, what it has read is what its key holds, or a default once a
read has failed, unless it was overtaken. It needs the form of the requests: a read is followed by
exactly one request, the write of its key. `CallsOK` proves that of every function, and
`WriteIsUpdate` turns the invariant into a step of `AtomicStore`. `LossOnlyOvertaken` follows for any overlap.
`ApartInv` adds, when calls on one key do not overlap, that nobody is overtaken; with it
`DatabaseRefinement` is a refinement of the abstract store outright. The type invariant holds
with overlapping calls too, when an update is applied to a value the key no longer
holds. Its strengthening `TypesInv` says that what a call has read is a value of the kind
its next write stores, and `Fits` that every update turns values of its key's kind into
such values; filtering a list by `FlattenSeq` keeps its elements' type.

Facts about data of any size are proved by the well-ordering of the natural
numbers instead of the library's induction theorems: a least counterexample
(`LeastElement`, `MinIsMember`) leads to a smaller one. Recursive functions (sums, trees, tables) are first
shown to exist, by extending a function on a prefix, and then unfolded.

Only model-checked: liveness (`TransferReachesChain`, `ReportSettles`, `ConnectionShows`,
`BalanceHeals`), which needs fairness and `ENABLED`; `FieldAgrees`, which is number
theory (inverses, Montgomery form), and `JsonLosesNothing`, whose documents are nested and need
recursive operators; `WitnessIffCircuit`, which compares the values the program computes, over chains
of permutations, with the constraints of the circuit as it was written.

## Not modelled

* Most lines of `circuit.cpp`. The file has 408,555 generated lines; the
  templates of the circuit itself are under a thousand of them and are modelled
  statement by statement, the rest are the constants and the unrolled
  arithmetic of the Poseidon permutation (`Ark`, `Sigma`, `Mix`, `MixS`, `MixLast`, `PoseidonEx`),
  which is one function here: what it computes in a field of 254 bits is out of
  TLC's reach, and the program around it does not depend on it.
* Of the rest of `circuit_cpp`: `fr.asm`, the 64-bit `fnv1a`, the byte conversions of
  `RawFr` (unused), mapping `circuit.dat` into arrays, parsing JSON text and the bytes of
  the witness file.
* Groth16, key derivation, stealth addresses and note encryption: cryptography,
  abstracted to injective constructors or left out. `hashPin` is a 32-bit hash;
  its collisions are left out too.
* The answers of the mock chain (`chain.ts`), which are constants and delays, and
  `chain.ts.real`, which is not compiled; the chain of `NoteWallet` is external.
* The hooks other than `useChainConnection`, which query and show; `reconnect`, which only
  `api/EXAMPLE.tsx` calls; `scanForMyNotes`, which adds no note (its decryption is
  unwritten); the indexer's single queries.
* Biometrics and the times of the auto-lock: the answer of `shouldLock` is an input
  of `WalletContext`. Imported and reset settings (`database.ts:289`, `414`), which may carry the PIN flag,
  and the auto-lock time are not writes of `PinStore`.
* What `AuthScreen.tsx:54-55` does with a verification: it tests the `AuthResult` object as if it were a
  boolean, so its lock screen opens for any PIN.
* The error paths of the context (`WalletContext.tsx:177-179`, `database.ts:91-94`), which show a default
  until the next refresh, and events with a single nullifier or commitment instead of a list in `ChainScan`.
* What makes up for a failed batch: nothing does, so `ScanTiles` describes the loss and does not forbid it.
* The node, the runtime and the template pallet: the parachain template. The
  runtime does not include the zk_privacy pallet yet.
* `blockchain.ts` reports a dropped or invalid transaction with a status its
  callback does not look at; the model has no such status, since nothing
  happens on it.
* The legacy prover, whose proofs are constants and which no transfer uses.
* Layout, forms and wording of the screens.

## Plan

1. `PrivacyPallet`, `CoinSelection`, `NoteWallet`, `TransferCircuit`, `WalletDatabase`: done, and every safety
   property of them proved.
2. `CircuitProgram`, `WitnessCalculator`, `FrField`, `JsonInput` for the native witness calculator:
   done, with the proofs of every safety property of the calculator but `WitnessIffCircuit`, and of the lookup.
3. `ChainConnection`, `WalletContext`, `PinStore`, `ChainScan` and their composition: done, with the
   proofs of the type invariant and of all six safety invariants.
4. A theorem still worth proving: `WitnessIffCircuit`, from `SignalsInv` and an invariant that
   gives every written signal its value in the circuit.
