--------------------------- MODULE ChainConnection --------------------------
(***************************************************************************)
(* The hook useChainConnection (client/api/hooks.ts) over the chain API it *)
(* calls (client/api/chain.ts).                                            *)
(*                                                                         *)
(* The hook's reconnect is not called by the app's screens.                *)
(*                                                                         *)
(* A set* call changes the state the next render will have; the functions  *)
(* of a render keep the values it had.  The effect depends on              *)
(* connectToChain, and that on `connecting`, so a render in which          *)
(* `connecting` changed runs the cleanup and the effect again.  A timer    *)
(* may fire before a render that is due: proving blocks the one thread     *)
(* for longer than its period.                                             *)
(***************************************************************************)
EXTENDS Integers

VARIABLES
    alive,     \* is the component in the tree?
    mounted,   \* mounted.current
    state,     \* connected and connecting, as last set
    shown,     \* the same, as of the last render
    calls,     \* calls of connect that are under way
    timers,    \* health check intervals that are running
    held,      \* is healthCheckInterval.current one of them?
    linked     \* mockState.connected of the chain API

vars == <<alive, mounted, state, shown, calls, timers, held, linked>>

Off == [connected |-> FALSE, connecting |-> FALSE]

Init ==
    /\ alive = FALSE /\ mounted = TRUE
    /\ state = Off /\ shown = Off
    /\ calls = 0 /\ timers = 0 /\ held = FALSE
    /\ linked = FALSE

(***************************************************************************)
(* connectToChain up to its await, called by a render with these values.   *)
(***************************************************************************)
\* Mutant: `connecting` is not asked.
ConnectToChainAnyway(render) ==
    /\ state' = [render EXCEPT !.connecting = TRUE]
    /\ calls' = calls + 1

ConnectToChain(render) ==
    IF render.connecting THEN state' = render /\ UNCHANGED calls
    ELSE /\ state' = [render EXCEPT !.connecting = TRUE]
         /\ calls' = calls + 1

\* What the cleanup leaves of the timers; it also disconnects.
\* Mutant: the interval is not cleared.
CleanupForgetsTimer == linked' = FALSE /\ UNCHANGED <<timers, held>>

Cleanup ==
    /\ timers' = IF held THEN timers - 1 ELSE timers
    /\ held' = FALSE
    /\ linked' = FALSE

\* The first render and its effect.
Mount ==
    /\ ~alive /\ mounted
    /\ alive' = TRUE
    /\ ConnectToChain(state)
    /\ UNCHANGED <<mounted, shown, timers, held, linked>>

Render ==
    /\ alive /\ state # shown
    /\ shown' = state
    /\ IF state.connecting # shown.connecting
       THEN Cleanup /\ mounted' = TRUE /\ ConnectToChain(state)
       ELSE UNCHANGED <<mounted, state, calls, timers, held, linked>>
    /\ UNCHANGED alive

\* Mutant: setConnected(true) is left to the health checks.
ConnectedUnset ==
    /\ calls > 0
    /\ calls' = calls - 1
    /\ linked' = TRUE
    /\ IF mounted
       THEN /\ state' = [state EXCEPT !.connecting = FALSE]
            /\ timers' = timers + 1 /\ held' = TRUE
       ELSE UNCHANGED <<state, timers, held>>
    /\ UNCHANGED <<alive, mounted, shown>>

\* connect resolves, and the rest of connectToChain.
Connected ==
    /\ calls > 0
    /\ calls' = calls - 1
    /\ linked' = TRUE
    /\ IF mounted
       THEN /\ state' = [connected |-> TRUE, connecting |-> FALSE]
            /\ timers' = timers + 1 /\ held' = TRUE
       ELSE UNCHANGED <<state, timers, held>>
    /\ UNCHANGED <<alive, mounted, shown>>

\* A health check; healthCheck answers at once.
HealthCheck ==
    /\ timers > 0
    /\ state' = IF mounted THEN [state EXCEPT !.connected = linked] ELSE state
    /\ UNCHANGED <<alive, mounted, shown, calls, timers, held, linked>>

Unmount ==
    /\ alive
    /\ alive' = FALSE /\ mounted' = FALSE
    /\ Cleanup
    /\ UNCHANGED <<state, shown, calls>>

Next == Mount \/ Render \/ Connected \/ HealthCheck \/ Unmount

\* React renders what was set, and connect resolves after its delay.
Fairness == WF_vars(Mount) /\ WF_vars(Render) /\ WF_vars(Connected)

-----------------------------------------------------------------------------
TypeOK ==
    /\ {alive, mounted, held, linked} \subseteq BOOLEAN
    /\ {state, shown} \subseteq [connected : BOOLEAN, connecting : BOOLEAN]
    /\ calls \in Nat /\ timers \in Nat

\* OneConnectAtATime: however renders, timers and answers interleave, `connecting`
\* keeps a second connect from being called while one is under way.
OneConnectAtATime == calls <= 1

\* NoLeakedTimer: every health check interval that runs is the one the ref holds,
\* so the cleanup can clear it, and none runs after the component is gone.
NoLeakedTimer == timers = (IF held THEN 1 ELSE 0) /\ (~mounted => timers = 0)

\* ConnectionShows: a component that stays mounted shows a connection.
ConnectionShows == alive ~> shown.connected \/ ~alive

\* ConnectionKept: a connection, once open, is only closed with the component.
ConnectionKept == [][linked /\ ~linked' => ~alive']_vars
=============================================================================
