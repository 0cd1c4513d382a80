---------------------------- MODULE WalletContext ---------------------------
(***************************************************************************)
(* WalletProvider (client/context/WalletContext.tsx): start-up, unlock and *)
(* lock, and the refreshes of the balances, which overlap.                 *)
(*                                                                         *)
(* A refresh uses `connected` and `address` as they were in the render     *)
(* whose refreshBalances is called: unlock is memoised without             *)
(* dependencies and calls that of the first render; the interval's effect  *)
(* depends on refreshBalances and calls the current one.                   *)
(***************************************************************************)
EXTENDS Integers

CONSTANTS
    PrivateBalances,  \* what calculatePrivateBalance may find
    PublicBalance,    \* what getBalance answers
    MaxChanges,       \* BOUND: changes of the database
    None

VARIABLES
    shown,      \* ChainConnection: what the connection hook returned
    phase,      \* initializeWallet: "keys", "lock", "load" or "ready"
    address,    \* is the address known?
    unlocked,   \* isAuthenticated, and not isLocked
    refresh,    \* the refreshes under way, by who called them
    balances,   \* the balances shown, or None
    saved,      \* the balances in the database, or None
    private,    \* the unspent commitments of the database
    changes     \* changes of the database so far

vars == <<phase, address, unlocked, refresh, balances, saved, private, changes>>

Callers == {"unlock", "refreshCommitments", "interval"}

\* The values a render sees.
FirstRender == [connected |-> FALSE, address |-> FALSE]
LastRender == [connected |-> shown.connected, address |-> address]

Init ==
    /\ phase = "keys" /\ address = FALSE /\ unlocked = FALSE
    /\ refresh = [c \in Callers |-> None]
    /\ balances = None /\ saved = None
    /\ private \in PrivateBalances /\ changes = 0

(***************************************************************************)
(* initializeWallet.                                                       *)
(***************************************************************************)
LoadKeys(found) ==
    /\ phase = "keys"
    /\ phase' = "lock" /\ address' = found
    /\ UNCHANGED <<unlocked, refresh, balances, saved, private, changes>>

CheckLock(locked) ==
    /\ phase = "lock"
    /\ phase' = "load" /\ unlocked' = ~locked
    /\ UNCHANGED <<address, refresh, balances, saved, private, changes>>

LoadBalances ==
    /\ phase = "load"
    /\ phase' = "ready"
    /\ balances' = IF saved # None THEN saved ELSE balances
    /\ UNCHANGED <<address, unlocked, refresh, saved, private, changes>>

(***************************************************************************)
(* refreshBalances, called from a render.  refreshCommitments reads the    *)
(* commitments first.                                                      *)
(***************************************************************************)
Called(render) == [at |-> "private", render |-> render, private |-> 0]

Show(public, priv) ==
    /\ balances' = [public |-> public, private |-> priv]
    /\ saved' = [public |-> public, private |-> priv]

LoadCommitments(c) ==
    /\ refresh[c] # None /\ refresh[c].at = "commitments"
    /\ refresh' = [refresh EXCEPT ![c].at = "private"]
    /\ UNCHANGED <<phase, address, unlocked, balances, saved, private, changes>>

ReadPrivate(c) ==
    /\ refresh[c] # None /\ refresh[c].at = "private"
    /\ IF refresh[c].render.connected /\ refresh[c].render.address
       THEN /\ refresh' = [refresh EXCEPT ![c].at = "public", ![c].private = private]
            /\ UNCHANGED <<balances, saved>>
       ELSE /\ refresh' = [refresh EXCEPT ![c] = None]
            /\ Show(0, private)
    /\ UNCHANGED <<phase, address, unlocked, private, changes>>

GetBalance(c) ==
    /\ refresh[c] # None /\ refresh[c].at = "public"
    /\ refresh' = [refresh EXCEPT ![c] = None]
    /\ Show(PublicBalance, refresh[c].private)
    /\ UNCHANGED <<phase, address, unlocked, private, changes>>

(***************************************************************************)
(* unlock, which the lock screen calls, and lock.                          *)
(***************************************************************************)
Unlock ==
    /\ phase = "ready" /\ ~unlocked
    /\ refresh["unlock"] = None /\ refresh["refreshCommitments"] = None   \* BOUND
    /\ unlocked' = TRUE
    /\ refresh' = [refresh EXCEPT
          !["unlock"] = Called(FirstRender),
          !["refreshCommitments"] = [Called(FirstRender) EXCEPT !.at = "commitments"]]
    /\ UNCHANGED <<phase, address, balances, saved, private, changes>>

Lock ==
    /\ unlocked
    /\ unlocked' = FALSE
    /\ UNCHANGED <<phase, address, refresh, balances, saved, private, changes>>

(***************************************************************************)
(* The interval of the auto-refresh effect fires.  BOUND: one refresh of   *)
(* it at a time.                                                           *)
(***************************************************************************)
\* Mutant: refreshBalances is missing from the effect's dependencies.
IntervalStale ==
    /\ unlocked /\ shown.connected /\ refresh["interval"] = None
    /\ refresh' = [refresh EXCEPT !["interval"] = Called(FirstRender)]
    /\ UNCHANGED <<phase, address, unlocked, balances, saved, private, changes>>

Interval ==
    /\ unlocked /\ shown.connected /\ refresh["interval"] = None
    /\ refresh' = [refresh EXCEPT !["interval"] = Called(LastRender)]
    /\ UNCHANGED <<phase, address, unlocked, balances, saved, private, changes>>

\* A transfer or a deposit changes the stored commitments.
Change(value) ==
    /\ changes < MaxChanges /\ value # private
    /\ changes' = changes + 1 /\ private' = value
    /\ UNCHANGED <<phase, address, unlocked, refresh, balances, saved>>

Resume(c) == LoadCommitments(c) \/ ReadPrivate(c) \/ GetBalance(c)

Next ==
    \/ (\E found \in BOOLEAN : LoadKeys(found)) \/ (\E locked \in BOOLEAN : CheckLock(locked)) \/ LoadBalances
    \/ Unlock \/ Lock \/ Interval
    \/ \E c \in Callers : Resume(c)
    \/ \E value \in PrivateBalances : Change(value)

\* Awaits are resumed and intervals fire; the user need not do anything.
Fairness ==
    /\ WF_vars(\E found \in BOOLEAN : LoadKeys(found))
    /\ WF_vars(\E locked \in BOOLEAN : CheckLock(locked))
    /\ WF_vars(LoadBalances)
    /\ WF_vars(Interval)
    /\ \A c \in Callers : WF_vars(Resume(c))

-----------------------------------------------------------------------------
Balance == [public : {0, PublicBalance}, private : PrivateBalances]

TypeOK ==
    /\ phase \in {"keys", "lock", "load", "ready"}
    /\ {address, unlocked} \subseteq BOOLEAN
    /\ \A c \in Callers : refresh[c] # None => refresh[c].at \in {"commitments", "private", "public"}
    /\ {balances, saved} \subseteq Balance \cup {None}
    /\ private \in PrivateBalances /\ changes \in 0..MaxChanges

\* BalanceHeals: a refresh from unlock does not know the connection and shows a
\* public balance of 0, and one that read the database before a change may finish
\* after one that read it later; but while a wallet with keys stays unlocked and
\* connected what is shown becomes right and stays right.
BalanceHeals ==
    <>[](address /\ unlocked /\ shown.connected)
        => <>[](balances = [public |-> PublicBalance, private |-> private])
=============================================================================
