--------------------------- MODULE ClientServices ---------------------------
(***************************************************************************)
(* The client around the wallet: the wallet context over the connection    *)
(* hook, whose `connected` it uses and which starts anew with it when the  *)
(* app is restarted; the PIN store; and the scan of the chain.  The last   *)
(* two share no state with the others, so a behaviour exercises one of the *)
(* Services.                                                               *)
(***************************************************************************)
EXTENDS Integers, Sequences

CONSTANTS
    Services,      \* of "session", "pin" and "scan"
    PrivateBalances, PublicBalance, MaxChanges,
    MaxRestarts,   \* BOUND: restarts of the app
    PinCallers, Pins, MaxCalls, Broken,
    Digests, Chain, BatchSize, Ranges, Absent,
    None

VARIABLES
    service,
    restarts,
    alive, mounted, state, shown, calls, timers, held, linked,
    phase, address, unlocked, refresh, balances, saved, private, changes,
    hash, salt, enabled, op, check, made, settled, flagged, stale,
    range, current, commitments, nullifiers, missed, returned

Connection == INSTANCE ChainConnection
Context == INSTANCE WalletContext
Pin == INSTANCE PinStore WITH Callers <- PinCallers
Scan == INSTANCE ChainScan

ASSUME ServicesAssumption == Services \subseteq {"session", "pin", "scan"}

ASSUME ContextAssumption ==
    /\ PublicBalance \in Nat \ {0} /\ PrivateBalances \subseteq Nat
    /\ MaxChanges \in Nat /\ MaxRestarts \in Nat

\* None and Broken are no PINs, salts or records.
ASSUME PinAssumption ==
    /\ MaxCalls \in Nat
    /\ None \notin Pins /\ Broken # None
    /\ None \notin Pin!Salts /\ None \notin Pin!Hashes /\ Broken \notin Pin!Hashes
    /\ None \notin Pin!Calls /\ None \notin Pin!Checks

\* The blocks of a range are there, and their events have the fields they should.
ASSUME ScanAssumption ==
    /\ BatchSize \in Nat \ {0}
    /\ \A r \in Ranges : r \in Nat \X Nat /\ r[1]..r[2] \subseteq DOMAIN Chain
    /\ \A b \in DOMAIN Chain :
          Chain[b] \in Seq([type : {"deposit", "private_transfer", "withdraw"},
                            commitment : {Absent} \cup Digests,
                            commitments : {Absent} \cup Seq(Digests),
                            nullifiers : {Absent} \cup Seq(Digests)])

connectionVars == <<alive, mounted, state, shown, calls, timers, held, linked>>
contextVars == <<phase, address, unlocked, refresh, balances, saved, private, changes>>
pinVars == <<hash, salt, enabled, op, check, made, settled, flagged, stale>>
scanVars == <<range, current, commitments, nullifiers, missed, returned>>
sessionVars == <<restarts, connectionVars, contextVars>>
vars == <<service, sessionVars, pinVars, scanVars>>

Init ==
    /\ service \in Services
    /\ restarts = 0
    /\ Connection!Init /\ Context!Init /\ Pin!Init /\ Scan!Init
    /\ service # "scan" => range = CHOOSE r \in Ranges : TRUE
    /\ service # "session" => private = CHOOSE p \in PrivateBalances : TRUE

\* The app is closed and opened: what was saved, and the database, are there;
\* everything else starts again.
Restart ==
    /\ restarts < MaxRestarts
    /\ restarts' = restarts + 1
    /\ alive' = FALSE /\ mounted' = TRUE
    /\ state' = Connection!Off /\ shown' = Connection!Off
    /\ calls' = 0 /\ timers' = 0 /\ held' = FALSE /\ linked' = FALSE
    /\ phase' = "keys" /\ address' = FALSE /\ unlocked' = FALSE
    /\ refresh' = [c \in Context!Callers |-> None]
    /\ balances' = None
    /\ UNCHANGED <<saved, private, changes>>

SessionNext ==
    \/ Connection!Next /\ UNCHANGED <<restarts, contextVars>>
    \/ Context!Next /\ UNCHANGED <<restarts, connectionVars>>
    \/ Restart

Next ==
    \/ service = "session" /\ SessionNext /\ UNCHANGED <<service, pinVars, scanVars>>
    \/ service = "pin" /\ Pin!Next /\ UNCHANGED <<service, sessionVars, scanVars>>
    \/ service = "scan" /\ Scan!Next /\ UNCHANGED <<service, sessionVars, pinVars>>

Spec == Init /\ [][Next]_vars

FairSpec ==
    /\ Spec
    /\ service = "session" => Connection!Fairness /\ Context!Fairness

-----------------------------------------------------------------------------
\* Type correctness of the services.
TypeOK ==
    /\ service \in Services /\ restarts \in 0..MaxRestarts
    /\ Connection!TypeOK /\ Context!TypeOK /\ Pin!TypeOK /\ Scan!TypeOK

\* OneConnectAtATime (ChainConnection, connectToChain): `connecting` keeps a second
\* connect from being called while one is under way.
OneConnectAtATime == Connection!OneConnectAtATime

\* NoLeakedTimer (ChainConnection, the effect's cleanup): every health check
\* interval that runs is the one the ref holds, and none outlives the component.
NoLeakedTimer == Connection!NoLeakedTimer

\* PinConsistent (PinStore, setupPin and removePin): the hash, the salt and the flag
\* are of the setup or removal that ran alone last, once it has returned.
PinConsistent == Pin!PinConsistent

\* VerifyAgrees (PinStore, verifyPin): a verification that no setup or removal
\* overlaps accepts exactly the PIN of the one that ran alone last.
VerifyAgrees == Pin!VerifyAgrees

\* StalePinRejected (PinStore, setupPin, removePin and verifyPin): whatever overlaps
\* or is cut short, a PIN replaced or removed by a call that returned is rejected.
StalePinRejected == Pin!StalePinRejected

\* PinUpdated (PinStore, setupPin, SettingsScreen.tsx:89 "PIN has been updated"): of
\* the setups that overlapped and all returned, one is in force.
PinUpdated == Pin!PinUpdated

\* ScanTiles (ChainScan, scanChain): what was collected is what the blocks so far
\* published, each once and in order, but for the requests that failed.
ScanTiles == Scan!ScanTiles

\* ConnectionShows (ChainConnection): a hook that stays mounted shows a connection.
ConnectionShows == Connection!ConnectionShows

\* ConnectionKept (ChainConnection, the effect's cleanup; api/README.md:597-600
\* "Reuse the singleton connection", "Call `disconnect()` when app closes"): an open
\* connection is only closed with the component.
ConnectionKept == Connection!ConnectionKept

\* BalanceHeals (WalletContext, refreshBalances): whatever stale refreshes are under
\* way, a wallet that stays unlocked and connected comes to show the right balances.
BalanceHeals == Context!BalanceHeals
=============================================================================
