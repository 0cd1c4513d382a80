------------------------ MODULE ClientServicesProofs ------------------------
(***************************************************************************)
(* The connection hook never has two connects or two intervals at a time,  *)
(* the PIN store answers for the last call that ran alone and never for a  *)
(* PIN that was replaced, the context keeps its types, and the scan        *)
(* collects what the blocks published: for every set of PINs, of callers   *)
(* and of balances, every chain, any number of calls and restarts, and     *)
(* every interleaving.                                                     *)
(***************************************************************************)
EXTENDS ClientServices, WellFoundedInduction, SequenceTheorems, TLAPS

(***************************************************************************)
(* The connection hook.                                                    *)
(***************************************************************************)
\* While a connect is under way `connecting` is set and no interval runs; before
\* the component is mounted there is neither.
ConnectionInv ==
    /\ alive \in BOOLEAN /\ mounted \in BOOLEAN /\ held \in BOOLEAN /\ linked \in BOOLEAN
    /\ state \in [connected : BOOLEAN, connecting : BOOLEAN]
    /\ calls \in {0, 1} /\ timers \in {0, 1}
    /\ timers = 1 <=> held
    /\ calls = 1 => state.connecting /\ timers = 0
    /\ ~mounted => timers = 0
    /\ ~alive /\ mounted => calls = 0 /\ timers = 0

\* connectToChain does not start a second connect, and is called when no interval
\* runs.
LEMMA ConnectToChainKeeps ==
    ASSUME state \in [connected : BOOLEAN, connecting : BOOLEAN],
           calls \in {0, 1}, calls = 1 => state.connecting,
           Connection!ConnectToChain(state)
    PROVE  /\ state' \in [connected : BOOLEAN, connecting : BOOLEAN]
           /\ calls' \in {0, 1} /\ (calls' = 1 => state'.connecting)
<1>1. CASE state.connecting
  BY <1>1 DEF Connection!ConnectToChain
<1>2. CASE ~state.connecting
  <2>1. state' = [state EXCEPT !.connecting = TRUE] /\ calls' = calls + 1
    BY <1>2 DEF Connection!ConnectToChain
  <2>2. state'.connecting /\ state' \in [connected : BOOLEAN, connecting : BOOLEAN]
    BY <2>1
  <2> QED BY <1>2, <2>1, <2>2
<1> QED BY <1>1, <1>2

\* The cleanup leaves no interval.
LEMMA CleanupClears ==
    ASSUME timers \in {0, 1}, timers = 1 <=> held, held \in BOOLEAN, Connection!Cleanup
    PROVE  timers' = 0 /\ ~held' /\ ~linked' /\ held' \in BOOLEAN /\ linked' \in BOOLEAN
<1>1. held' = FALSE /\ linked' = FALSE
  BY DEF Connection!Cleanup
<1>2. timers' = 0
  BY DEF Connection!Cleanup
<1> QED BY <1>1, <1>2, Zenon

\* Every step of the hook keeps its invariant.
LEMMA ConnectionKeeps == ConnectionInv /\ Connection!Next => ConnectionInv'
<1> SUFFICES ASSUME ConnectionInv, Connection!Next PROVE ConnectionInv'
  OBVIOUS
<1>1. CASE Connection!Mount
  <2>1. Connection!ConnectToChain(state) BY <1>1 DEF Connection!Mount
  <2> QED BY <1>1, <2>1, ConnectToChainKeeps DEF Connection!Mount, ConnectionInv
<1>2. CASE Connection!Render
  <2>1. CASE state.connecting # shown.connecting
    <3>1. timers' = 0 /\ ~held' /\ ~linked' /\ held' \in BOOLEAN /\ linked' \in BOOLEAN
      BY <1>2, <2>1, CleanupClears DEF Connection!Render, ConnectionInv
    <3>2. Connection!ConnectToChain(state) /\ mounted' /\ mounted' \in BOOLEAN /\ alive' /\ alive' \in BOOLEAN
      BY <1>2, <2>1 DEF Connection!Render, ConnectionInv
    <3>3. /\ state' \in [connected : BOOLEAN, connecting : BOOLEAN]
          /\ calls' \in {0, 1} /\ (calls' = 1 => state'.connecting)
      BY <3>2, ConnectToChainKeeps DEF ConnectionInv
    <3> QED BY <3>1, <3>2, <3>3 DEF ConnectionInv
  <2>2. CASE state.connecting = shown.connecting
    BY <1>2, <2>2 DEF Connection!Render, ConnectionInv
  <2> QED BY <2>1, <2>2
<1>3. CASE Connection!Connected
  <2>1. /\ calls = 1 /\ calls' = 0 /\ timers = 0
        /\ linked' \in BOOLEAN /\ alive' = alive /\ mounted' = mounted
    BY <1>3 DEF Connection!Connected, ConnectionInv
  <2>2. CASE mounted
    <3>1. state' = [connected |-> TRUE, connecting |-> FALSE] /\ timers' = 1 /\ held' = TRUE
      BY <1>3, <2>1, <2>2 DEF Connection!Connected
    <3>2. state' \in [connected : BOOLEAN, connecting : BOOLEAN] /\ held' /\ held' \in BOOLEAN
      BY <3>1
    <3> QED BY <2>1, <2>2, <3>1, <3>2 DEF ConnectionInv
  <2>3. CASE ~mounted
    BY <1>3, <2>1, <2>3 DEF Connection!Connected, ConnectionInv
  <2> QED BY <2>2, <2>3
<1>4. CASE Connection!HealthCheck
  <2>1. /\ state' \in [connected : BOOLEAN, connecting : BOOLEAN]
        /\ state'.connecting = state.connecting
    BY <1>4 DEF Connection!HealthCheck, ConnectionInv
  <2> QED BY <1>4, <2>1 DEF Connection!HealthCheck, ConnectionInv
<1>5. CASE Connection!Unmount
  <2>1. timers' = 0 /\ ~held' /\ ~linked' /\ held' \in BOOLEAN /\ linked' \in BOOLEAN
    BY <1>5, CleanupClears DEF Connection!Unmount, ConnectionInv
  <2>2. ~alive' /\ ~mounted' /\ alive' \in BOOLEAN /\ mounted' \in BOOLEAN /\ UNCHANGED <<state, calls>>
    BY <1>5 DEF Connection!Unmount
  <2> QED BY <2>1, <2>2 DEF ConnectionInv
<1> QED BY <1>1, <1>2, <1>3, <1>4, <1>5 DEF Connection!Next

(***************************************************************************)
(* The PIN store.                                                          *)
(***************************************************************************)
\* All that set the PIN since calls last overlapped, or set it now, set it to t.
AllSet(t) == settled \subseteq {t} /\ \A c \in Pin!Writing : Pin!Target(op[c]) = t

\* What such calls have written stands.
WrittenInv ==
    \A t \in Pin!Hashes \cup {None} :
        AllSet(t) =>
            /\ \A c \in Pin!Writing :
                 /\ op[c].step # "hash" => hash = t
                 /\ op[c].step \in {"read", "write"} => salt = Pin!SaltOf(t)
            /\ settled = {t} => hash = t /\ salt = Pin!SaltOf(t)

\* A call that is the sole writer of the flag finds it, and leaves it, right.
FlagInv ==
    /\ \A t \in Pin!Hashes \cup {None} : flagged /\ settled = {t} => (enabled <=> t # None)
    /\ \A c \in Pin!Writing : \A d \in Pin!Saving \ {c} : ~op[c].sole /\ ~op[d].sole
    /\ \A c \in Pin!Saving :
         flagged /\ op[c].kind = "save" /\ op[c].step = "write" /\ op[c].sole =>
            (op[c].read <=> enabled)

\* Nothing is of the PIN p, and nothing sets it.
Stored(h, p) == h # None /\ h.pin = p
Unset(p) == \A c \in Pin!Writing : op[c].pin # p

\* A stale PIN has gone, as will every PIN that a call replaces.
StaleInv ==
    /\ \A p \in stale : ~Stored(hash, p) /\ Unset(p)
    /\ \A c \in Pin!Saving : \A p \in op[c].replaces :
          Unset(p) /\ (op[c].step # "hash" => ~Stored(hash, p))
    /\ \A c \in PinCallers :
          check[c] # None /\ check[c].stale =>
             /\ ~Stored(hash, check[c].pin) /\ Unset(check[c].pin)
             /\ ~Stored(check[c].hash, check[c].pin)

\* What a verification that no setup or removal overlaps has read is still stored.
ReadsInv ==
    \A c \in PinCallers :
        check[c] # None /\ check[c].quiet =>
            /\ Pin!Writing = {}
            /\ "hash" \notin check[c].left => check[c].hash = hash
            /\ "salt" \notin check[c].left => check[c].salt = salt

\* A caller awaits one call.
OneAtATime == \A c \in PinCallers : op[c] = None \/ check[c] = None

PinInv == Pin!TypeOK /\ OneAtATime /\ WrittenInv /\ FlagInv /\ StaleInv /\ ReadsInv

\* The fields of a call.
LEMMA CallFields ==
    ASSUME NEW k \in Pin!Calls
    PROVE  /\ k # None /\ k.kind \in {"setup", "remove", "save"}
           /\ k.kind = "setup" => k \in Pin!Setups /\ k.pin \in Pins /\ k.salt \in Pin!Salts
           /\ k.kind # "setup" => k.pin = None
           /\ k.kind = "remove" => k \in Pin!Removals
           /\ k.kind = "save" => k \in Pin!Saves /\ k.replaces = {} /\ k.step \in {"read", "write"}
           /\ k.step \in {"hash", "salt", "read", "write"}
           /\ k.read \in BOOLEAN /\ k.sole \in BOOLEAN /\ k.replaces \subseteq Pins
<1>1. k # None
  BY PinAssumption
<1>2. CASE k \in Pin!Setups
  BY <1>1, <1>2 DEF Pin!Setups
<1>3. CASE k \in Pin!Removals
  BY <1>1, <1>3 DEF Pin!Removals
<1>4. CASE k \in Pin!Saves
  BY <1>1, <1>4 DEF Pin!Saves
<1> QED BY <1>2, <1>3, <1>4 DEF Pin!Calls

\* What a call sets the hash to.
LEMMA TargetType ==
    ASSUME NEW k \in Pin!Calls, k.kind # "save"
    PROVE  /\ Pin!Target(k) \in Pin!Hashes \cup {None}
           /\ Pin!SaltOf(Pin!Target(k)) \in Pin!Salts \cup {None}
           /\ Pin!Target(k) # None <=> k.kind = "setup"
           /\ \A p \in Pins : Stored(Pin!Target(k), p) => k.pin = p
<1>1. CASE k.kind = "setup"
  <2>1. k.pin \in Pins /\ k.salt \in Pin!Salts
    BY <1>1, CallFields
  <2>2. Pin!Target(k) = [pin |-> k.pin, salt |-> k.salt]
    BY <1>1 DEF Pin!Target, Pin!HashPin
  <2>3. Pin!Target(k) \in Pin!Hashes
    BY <2>1, <2>2 DEF Pin!Hashes
  <2>4. Pin!Target(k) # None
    BY <2>3, PinAssumption
  <2>5. Pin!SaltOf(Pin!Target(k)) = k.salt
    BY <2>2, <2>4 DEF Pin!SaltOf
  <2> QED BY <1>1, <2>1, <2>2, <2>3, <2>4, <2>5 DEF Stored
<1>2. CASE k.kind # "setup"
  <2>1. Pin!Target(k) = None
    BY <1>2 DEF Pin!Target
  <2> QED BY <1>2, <2>1 DEF Stored, Pin!SaltOf
<1> QED BY <1>1, <1>2

\* The two writes to the secure store keep the invariant.
LEMMA WriteHashKeeps ==
    ASSUME PinInv, NEW a \in PinCallers, Pin!WriteHash(a)
    PROVE  PinInv'
<1> DEFINE k == op[a]
<1>1. /\ k # None /\ k.step = "hash"
      /\ hash' = Pin!Target(k) /\ op' = [op EXCEPT ![a].step = "salt"]
      /\ UNCHANGED <<salt, enabled, check, made, settled, flagged, stale>>
  BY DEF Pin!WriteHash, Pin!At
<1>2. k \in Pin!Calls /\ k.kind # "save"
  <2>1. k \in Pin!Calls
    BY <1>1 DEF PinInv, Pin!TypeOK
  <2> QED BY <1>1, <2>1, CallFields
<1>3. /\ op'[a] = [k EXCEPT !.step = "salt"] /\ op'[a] \in Pin!Calls
      /\ \A d \in PinCallers \ {a} : op'[d] = op[d]
  <2>1. op'[a] = [k EXCEPT !.step = "salt"] /\ \A d \in PinCallers \ {a} : op'[d] = op[d]
    BY <1>1 DEF PinInv, Pin!TypeOK
  <2>2. [k EXCEPT !.step = "salt"] \in Pin!Calls
    <3>1. CASE k.kind = "setup"
      BY <1>2, <3>1, CallFields DEF Pin!Setups, Pin!Calls
    <3>2. CASE k.kind = "remove"
      BY <1>2, <3>2, CallFields DEF Pin!Removals, Pin!Calls
    <3> QED BY <1>2, <3>1, <3>2, CallFields
  <2> QED BY <2>1, <2>2
<1>4. /\ op'[a] # None /\ op'[a].kind = k.kind /\ op'[a].pin = k.pin /\ op'[a].salt = k.salt
      /\ op'[a].step = "salt" /\ op'[a].sole = k.sole /\ op'[a].replaces = k.replaces
  <2>1. op'[a] # None
    BY <1>3, CallFields
  <2>2. k \in Pin!Setups \cup Pin!Removals
    BY <1>2, CallFields
  <2> QED BY <1>3, <2>1, <2>2 DEF Pin!Setups, Pin!Removals
<1>5. Pin!Writing' = Pin!Writing /\ Pin!Saving' = Pin!Saving /\ a \in Pin!Writing /\ a \in Pin!Saving
  BY <1>1, <1>2, <1>3, <1>4 DEF Pin!Writing, Pin!Saving
<1>6. \A c \in Pin!Writing : Pin!Target(op[c])' = Pin!Target(op[c]) /\ op'[c].pin = op[c].pin
  <2> TAKE c \in Pin!Writing
  <2> QED BY <1>3, <1>4, Zenon DEF Pin!Target, Pin!HashPin, Pin!Writing, Pin!Saving
<1>7. Pin!TypeOK'
  <2>1. op' \in [PinCallers -> Pin!Calls \cup {None}]
    BY <1>1, <1>3 DEF PinInv, Pin!TypeOK
  <2>2. hash' \in Pin!Hashes \cup {None}
    BY <1>1, <1>2, TargetType
  <2> QED BY <1>1, <2>1, <2>2 DEF PinInv, Pin!TypeOK
<1>8. WrittenInv'
  <2> SUFFICES ASSUME NEW t \in Pin!Hashes \cup {None}, AllSet(t)'
               PROVE  /\ \A c \in Pin!Writing :
                          /\ op'[c].step # "hash" => hash' = t
                          /\ op'[c].step \in {"read", "write"} => salt' = Pin!SaltOf(t)
                      /\ settled' = {t} => hash' = t /\ salt' = Pin!SaltOf(t)
    BY <1>5 DEF WrittenInv, Pin!SaltOf
  <2>1. AllSet(t) /\ Pin!Target(k) = t
    BY <1>1, <1>5, <1>6 DEF AllSet
  <2>2. /\ \A c \in Pin!Writing : op[c].step \in {"read", "write"} => salt = Pin!SaltOf(t)
        /\ settled = {t} => salt = Pin!SaltOf(t)
    BY <2>1 DEF PinInv, WrittenInv
  <2>3. \A c \in Pin!Writing : op'[c].step \in {"read", "write"} => op[c].step \in {"read", "write"}
    BY <1>3, <1>4 DEF Pin!Writing, Pin!Saving
  <2> QED BY <1>1, <2>1, <2>2, <2>3
<1>9. FlagInv'
  <2>1. \A c \in Pin!Saving : /\ op'[c].sole = op[c].sole /\ op'[c].kind = op[c].kind
                              /\ op'[c].step = "write" => op[c].step = "write" /\ op'[c].read = op[c].read
    BY <1>3, <1>4 DEF Pin!Saving
  <2>2. \A c \in Pin!Writing : c \in Pin!Saving
    BY DEF Pin!Writing
  <2> QED BY <1>1, <1>5, <2>1, <2>2 DEF PinInv, FlagInv
<1>10. StaleInv'
  <2>1. \A p \in Pins : Unset(p) => Unset(p)' /\ ~Stored(hash', p)
    <3> SUFFICES ASSUME NEW p \in Pins, Unset(p) PROVE Unset(p)' /\ ~Stored(hash', p)
      OBVIOUS
    <3>1. Unset(p)'
      BY <1>5, <1>6 DEF Unset
    <3>2. k.pin # p
      BY <1>5 DEF Unset
    <3> QED BY <1>1, <1>2, <3>1, <3>2, TargetType
  <2>2. \A c \in Pin!Saving : op'[c].replaces = op[c].replaces /\ op[c].replaces \subseteq Pins
    <3> TAKE c \in Pin!Saving
    <3>1. op[c] \in Pin!Calls
      BY DEF PinInv, Pin!TypeOK, Pin!Saving
    <3> QED BY <1>3, <1>4, <3>1, CallFields DEF Pin!Saving
  <2>3. \A p \in stale' : ~Stored(hash, p)' /\ Unset(p)'
    BY <1>1, <2>1 DEF PinInv, StaleInv, Pin!TypeOK, Stored
  <2>4. \A c \in Pin!Saving : \A p \in op'[c].replaces : Unset(p)' /\ ~Stored(hash, p)'
    BY <1>1, <2>1, <2>2 DEF PinInv, StaleInv, Stored
  <2>5. \A c \in PinCallers : check[c] # None /\ check[c].stale =>
             ~Stored(hash', check[c].pin) /\ Unset(check[c].pin)' /\ ~Stored(check[c].hash, check[c].pin)
    <3> TAKE c \in PinCallers
    <3>1. check[c] # None => check[c].pin \in Pins
      BY DEF PinInv, Pin!TypeOK, Pin!Checks
    <3>2. check[c] # None /\ check[c].stale => Unset(check[c].pin) /\ ~Stored(check[c].hash, check[c].pin)
      BY DEF PinInv, StaleInv
    <3> QED BY <1>1, <2>1, <3>1, <3>2 DEF Unset
  <2> QED BY <1>1, <1>5, <2>3, <2>4, <2>5 DEF StaleInv, Stored
<1>11. ReadsInv'
  <2>1. \A c \in PinCallers : check[c] # None => ~check[c].quiet
    BY <1>5 DEF PinInv, ReadsInv
  <2> QED BY <1>1, <2>1 DEF ReadsInv
<1>12. OneAtATime'
  BY <1>1, <1>3 DEF PinInv, OneAtATime
<1> QED BY <1>7, <1>8, <1>9, <1>10, <1>11, <1>12 DEF PinInv

\* A call that goes a step further, past the write of the hash, leaves the rest of
\* the history as it is.
LEMMA StepKeeps ==
    ASSUME PinInv, NEW a \in PinCallers, NEW m \in Pin!Calls,
           op[a] # None, op' = [op EXCEPT ![a] = m],
           m.kind = op[a].kind, m.pin = op[a].pin, m.salt = op[a].salt,
           m.replaces = op[a].replaces, m.sole => op[a].sole,
           op[a].step # "hash", m.step # "hash",
           m.kind = "save" /\ m.step = "write" /\ m.sole => (m.read <=> enabled),
           UNCHANGED <<hash, enabled, check, made, settled, flagged, stale>>,
           salt' \in Pin!Salts \cup {None},
           salt' # salt => op[a].kind # "save" /\ salt' = Pin!SaltOf(Pin!Target(op[a])),
           m.step = "read" /\ op[a].kind # "save" => salt' = Pin!SaltOf(Pin!Target(op[a])),
           m.step = "write" => op[a].step = "read"
    PROVE  PinInv'
<1>1. /\ op'[a] = m /\ m # None /\ \A d \in PinCallers \ {a} : op'[d] = op[d]
  BY CallFields DEF PinInv, Pin!TypeOK
<1>2. Pin!Writing' = Pin!Writing /\ Pin!Saving' = Pin!Saving /\ a \in Pin!Saving
  BY <1>1 DEF Pin!Writing, Pin!Saving
<1>35. \A c \in Pin!Writing : Pin!Target(op[c])' = Pin!Target(op[c])
  <2> TAKE c \in Pin!Writing
  <2> QED BY <1>1 DEF Pin!Target, Pin!HashPin, Pin!Writing, Pin!Saving
<1>3. \A c \in Pin!Saving : /\ op'[c].pin = op[c].pin /\ op'[c].kind = op[c].kind
                             /\ op'[c].replaces = op[c].replaces
                             /\ op'[c].sole => op[c].sole
  BY <1>1 DEF Pin!Target, Pin!HashPin, Pin!Saving
<1>4. Pin!Writing \subseteq Pin!Saving /\ Pin!Saving \subseteq PinCallers
  BY DEF Pin!Writing, Pin!Saving
<1>5. op[a] \in Pin!Calls
  BY DEF PinInv, Pin!TypeOK
<1>6. Pin!TypeOK'
  BY <1>1 DEF PinInv, Pin!TypeOK
<1>7. WrittenInv'
  <2> SUFFICES ASSUME NEW t \in Pin!Hashes \cup {None}, AllSet(t)'
               PROVE  /\ \A c \in Pin!Writing :
                          /\ op'[c].step # "hash" => hash' = t
                          /\ op'[c].step \in {"read", "write"} => salt' = Pin!SaltOf(t)
                      /\ settled' = {t} => hash' = t /\ salt' = Pin!SaltOf(t)
    BY <1>2 DEF WrittenInv, Pin!SaltOf
  <2>1. AllSet(t)
    BY <1>2, <1>35 DEF AllSet
  <2>2. /\ \A c \in Pin!Writing :
             /\ op[c].step # "hash" => hash = t
             /\ op[c].step \in {"read", "write"} => salt = Pin!SaltOf(t)
        /\ settled = {t} => hash = t /\ salt = Pin!SaltOf(t)
    BY <2>1 DEF PinInv, WrittenInv
  <2>3. CASE a \in Pin!Writing
    <3>1. Pin!Target(op[a]) = t /\ op[a].kind # "save" /\ hash = t
      BY <2>1, <2>2, <2>3 DEF AllSet, Pin!Writing
    <3>2. m.step \in {"read", "write"} => salt' = Pin!SaltOf(t)
      BY <2>2, <2>3, <3>1
    <3>3. salt' # salt => salt' = Pin!SaltOf(t)
      BY <3>1
    <3> QED BY <1>1, <1>4, <2>2, <3>1, <3>2, <3>3
  <2>4. CASE a \notin Pin!Writing
    <3>1. salt' = salt
      BY <1>2, <2>4 DEF Pin!Writing
    <3> QED BY <1>1, <1>4, <2>2, <2>4, <3>1
  <2> QED BY <2>3, <2>4
<1>8. FlagInv'
  <2>1. \A c \in Pin!Writing : \A d \in Pin!Saving \ {c} : ~op'[c].sole /\ ~op'[d].sole
    BY <1>3, <1>4 DEF PinInv, FlagInv
  <2>2. \A c \in Pin!Saving :
           flagged /\ op'[c].kind = "save" /\ op'[c].step = "write" /\ op'[c].sole =>
              (op'[c].read <=> enabled)
    BY <1>1, <1>4 DEF PinInv, FlagInv
  <2> QED BY <1>2, <2>1, <2>2 DEF PinInv, FlagInv
<1>9. StaleInv'
  <2>1. \A p : Unset(p)' <=> Unset(p)
    BY <1>2, <1>3, <1>4 DEF Unset
  <2>2. \A p \in stale : ~Stored(hash, p) /\ Unset(p)
    BY DEF PinInv, StaleInv
  <2>3. \A c \in Pin!Saving : \A p \in op[c].replaces :
          Unset(p) /\ (op[c].step # "hash" => ~Stored(hash, p))
    BY DEF PinInv, StaleInv
  <2>4. \A c \in PinCallers : check[c] # None /\ check[c].stale =>
             /\ ~Stored(hash, check[c].pin) /\ Unset(check[c].pin)
             /\ ~Stored(check[c].hash, check[c].pin)
    BY DEF PinInv, StaleInv
  <2>5. \A c \in Pin!Saving : op'[c].step # "hash" => op[c].step # "hash"
    BY <1>1, <1>4
  <2> QED BY <1>2, <1>3, <2>1, <2>2, <2>3, <2>4, <2>5 DEF StaleInv, Stored
<1>10. ReadsInv'
  <2>1. \A c \in PinCallers : check[c] # None /\ check[c].quiet => Pin!Writing = {}
    BY DEF PinInv, ReadsInv
  <2>2. (\E c \in PinCallers : check[c] # None /\ check[c].quiet) => salt' = salt
    BY <1>2, <2>1 DEF Pin!Writing
  <2> QED BY <1>2, <2>2 DEF PinInv, ReadsInv
<1>11. OneAtATime'
  BY <1>1 DEF PinInv, OneAtATime
<1> QED BY <1>6, <1>7, <1>8, <1>9, <1>10, <1>11 DEF PinInv

\* The write of the salt, and the read of the settings, are such steps.
LEMMA WriteSaltKeeps ==
    ASSUME PinInv, NEW a \in PinCallers, Pin!WriteSalt(a)
    PROVE  PinInv'
<1> DEFINE k == op[a]
           m == [k EXCEPT !.step = "read"]
<1>1. /\ k # None /\ k.step = "salt" /\ salt' = Pin!SaltOf(Pin!Target(k))
      /\ op' = [op EXCEPT ![a].step = "read"]
      /\ UNCHANGED <<hash, enabled, check, made, settled, flagged, stale>>
  BY DEF Pin!WriteSalt, Pin!At
<1>2. k \in Pin!Calls /\ k.kind # "save"
  <2>1. k \in Pin!Calls
    BY <1>1 DEF PinInv, Pin!TypeOK
  <2> QED BY <1>1, <2>1, CallFields
<1>3. k \in Pin!Setups \cup Pin!Removals
  BY <1>2, CallFields
<1>4. /\ m \in Pin!Calls /\ m.kind = k.kind /\ m.pin = k.pin /\ m.salt = k.salt
      /\ m.replaces = k.replaces /\ m.sole = k.sole /\ m.step = "read"
  <2>1. CASE k \in Pin!Setups
    BY <2>1 DEF Pin!Setups, Pin!Calls
  <2>2. CASE k \in Pin!Removals
    BY <2>2 DEF Pin!Removals, Pin!Calls
  <2> QED BY <1>3, <2>1, <2>2
<1>5. op' = [op EXCEPT ![a] = m]
  BY <1>1
<1>6. salt' \in Pin!Salts \cup {None}
  BY <1>1, <1>2, TargetType
<1> HIDE DEF m
<1> QED BY <1>1, <1>2, <1>4, <1>5, <1>6, StepKeeps

LEMMA ReadSettingsKeeps ==
    ASSUME PinInv, NEW a \in PinCallers, NEW refused \in BOOLEAN, Pin!ReadSettings(a, refused)
    PROVE  PinInv'
<1> DEFINE k == op[a]
           m == [k EXCEPT !.step = "write", !.read = enabled /\ ~refused,
                          !.sole = @ /\ (refused => k.kind # "save")]
<1>1. /\ k # None /\ k.step = "read" /\ op' = [op EXCEPT ![a] = m]
      /\ UNCHANGED <<hash, salt, enabled, check, made, settled, flagged, stale>>
  BY DEF Pin!ReadSettings, Pin!At
<1>2. k \in Pin!Calls
  BY <1>1 DEF PinInv, Pin!TypeOK
<1>3. enabled \in BOOLEAN
  BY DEF PinInv, Pin!TypeOK
<1>4. /\ m \in Pin!Calls /\ m.kind = k.kind /\ m.pin = k.pin /\ m.salt = k.salt
      /\ m.replaces = k.replaces /\ m.step = "write"
      /\ m.sole = (k.sole /\ (refused => k.kind # "save")) /\ m.read = (enabled /\ ~refused)
  <2>1. CASE k \in Pin!Setups
    BY <1>3, <2>1 DEF Pin!Setups, Pin!Calls
  <2>2. CASE k \in Pin!Removals
    BY <1>3, <2>2 DEF Pin!Removals, Pin!Calls
  <2>3. CASE k \in Pin!Saves
    BY <1>3, <2>3 DEF Pin!Saves, Pin!Calls
  <2> QED BY <1>2, <2>1, <2>2, <2>3 DEF Pin!Calls
<1>5. m.sole => k.sole /\ (k.kind = "save" => (m.read <=> enabled))
  BY <1>3, <1>4
<1>6. salt' = salt /\ salt' \in Pin!Salts \cup {None} /\ k.step # "hash" /\ m.step # "hash" /\ m.step # "read"
  BY <1>1, <1>4 DEF PinInv, Pin!TypeOK
<1>7. (m.sole => k.sole) /\ (m.kind = "save" /\ m.step = "write" /\ m.sole => (m.read <=> enabled))
  BY <1>4, <1>5, Zenon
<1> HIDE DEF m
<1> QED BY <1>1, <1>4, <1>6, <1>7, StepKeeps

\* A call returns.
LEMMA WriteSettingsKeeps ==
    ASSUME PinInv, NEW a \in PinCallers, Pin!WriteSettings(a)
    PROVE  PinInv'
<1> DEFINE k == op[a]
<1>1. /\ k # None /\ k.step = "write" /\ op' = [op EXCEPT ![a] = None]
      /\ UNCHANGED <<hash, salt, check, made>>
      /\ settled' = settled \cup {Pin!Target(op[d]) : d \in Pin!Writing \cap {a}}
      /\ flagged' = (k.sole /\ (k.kind = "save" => flagged))
      /\ stale' = stale \cup k.replaces
  BY DEF Pin!WriteSettings, Pin!At
<1>2. k \in Pin!Calls /\ k.sole \in BOOLEAN /\ k.replaces \subseteq Pins /\ k.read \in BOOLEAN
  <2>1. k \in Pin!Calls
    BY <1>1 DEF PinInv, Pin!TypeOK
  <2> QED BY <2>1, CallFields
<1>3. /\ enabled' \in BOOLEAN
      /\ k.kind # "save" => (enabled' <=> Pin!Target(k) # None)
      /\ k.kind = "save" => enabled' = k.read
  <2>1. CASE k.kind = "setup"
    <3>1. enabled' = TRUE BY <2>1 DEF Pin!WriteSettings
    <3> QED BY <1>2, <2>1, <3>1, TargetType
  <2>2. CASE k.kind = "remove"
    <3>1. enabled' = FALSE BY <2>2 DEF Pin!WriteSettings
    <3> QED BY <1>2, <2>2, <3>1, TargetType
  <2>3. CASE k.kind = "save"
    <3>1. enabled' = k.read BY <2>3 DEF Pin!WriteSettings
    <3> QED BY <1>2, <2>3, <3>1
  <2> QED BY <1>2, <2>1, <2>2, <2>3, CallFields
<1>4. /\ op'[a] = None /\ \A d \in PinCallers \ {a} : op'[d] = op[d]
      /\ Pin!Saving' = Pin!Saving \ {a} /\ Pin!Writing' = Pin!Writing \ {a}
      /\ a \in Pin!Saving /\ (a \in Pin!Writing <=> k.kind # "save")
  <2>1. op'[a] = None /\ \A d \in PinCallers \ {a} : op'[d] = op[d]
    BY <1>1 DEF PinInv, Pin!TypeOK
  <2> QED BY <1>1, <2>1 DEF Pin!Saving, Pin!Writing
<1>5. Pin!Writing \subseteq Pin!Saving /\ Pin!Saving \subseteq PinCallers
  BY DEF Pin!Writing, Pin!Saving
<1>6. \A c \in Pin!Saving \ {a} : op'[c] = op[c] /\ Pin!Target(op[c])' = Pin!Target(op[c])
  BY <1>4, <1>5 DEF Pin!Target, Pin!HashPin
<1>7. settled' = IF k.kind = "save" THEN settled ELSE settled \cup {Pin!Target(k)}
  BY <1>1, <1>4
<1>8. Pin!TypeOK'
  <2>1. settled' \in SUBSET (Pin!Hashes \cup {None, Broken})
    BY <1>2, <1>7, TargetType DEF PinInv, Pin!TypeOK
  <2>2. flagged' \in BOOLEAN
    BY <1>1, <1>2 DEF PinInv, Pin!TypeOK
  <2> QED BY <1>1, <1>2, <1>3, <2>1, <2>2 DEF PinInv, Pin!TypeOK
<1>9. WrittenInv'
  <2> SUFFICES ASSUME NEW t \in Pin!Hashes \cup {None}, AllSet(t)'
               PROVE  /\ \A c \in Pin!Writing \ {a} :
                          /\ op'[c].step # "hash" => hash' = t
                          /\ op'[c].step \in {"read", "write"} => salt' = Pin!SaltOf(t)
                      /\ settled' = {t} => hash' = t /\ salt' = Pin!SaltOf(t)
    BY <1>4 DEF WrittenInv, Pin!SaltOf
  <2>1. AllSet(t)
    <3>1. settled \subseteq {t} /\ (a \in Pin!Writing => Pin!Target(k) = t)
      BY <1>4, <1>7 DEF AllSet
    <3>2. \A c \in Pin!Writing \ {a} : Pin!Target(op[c]) = t
      BY <1>4, <1>5, <1>6 DEF AllSet
    <3> QED BY <3>1, <3>2 DEF AllSet
  <2>2. /\ \A c \in Pin!Writing :
             /\ op[c].step # "hash" => hash = t
             /\ op[c].step \in {"read", "write"} => salt = Pin!SaltOf(t)
        /\ settled = {t} => hash = t /\ salt = Pin!SaltOf(t)
    BY <2>1 DEF PinInv, WrittenInv
  <2>3. settled' = {t} => hash = t /\ salt = Pin!SaltOf(t)
    BY <1>1, <1>4, <1>7, <2>2
  <2> QED BY <1>1, <1>5, <1>6, <2>2, <2>3
<1>10. FlagInv'
  <2>1. \A c \in Pin!Writing \ {a} : \A d \in Pin!Saving \ {a, c} : ~op'[c].sole /\ ~op'[d].sole
    BY <1>5, <1>6 DEF PinInv, FlagInv
  <2>2. \A t \in Pin!Hashes \cup {None} : flagged' /\ settled' = {t} => (enabled' <=> t # None)
    <3> SUFFICES ASSUME NEW t \in Pin!Hashes \cup {None}, flagged', settled' = {t}
                 PROVE  enabled' <=> t # None
      OBVIOUS
    <3>1. CASE k.kind = "save"
      <4>1. settled = {t} /\ flagged /\ k.sole
        BY <1>1, <1>7, <3>1
      <4>2. k.read <=> enabled
        BY <1>1, <1>4, <3>1, <4>1 DEF PinInv, FlagInv
      <4>3. enabled <=> t # None
        BY <4>1 DEF PinInv, FlagInv
      <4> QED BY <1>3, <3>1, <4>2, <4>3
    <3>2. CASE k.kind # "save"
      <4>1. Pin!Target(k) = t
        BY <1>7, <3>2
      <4> QED BY <1>3, <3>2, <4>1
    <3> QED BY <3>1, <3>2
  <2>3. \A c \in Pin!Saving \ {a} :
          flagged' /\ op'[c].kind = "save" /\ op'[c].step = "write" /\ op'[c].sole =>
            (op'[c].read <=> enabled')
    <3> SUFFICES ASSUME NEW c \in Pin!Saving \ {a}, flagged', op[c].kind = "save", op[c].step = "write", op[c].sole
                 PROVE  op[c].read <=> enabled'
      BY <1>6
    <3>1. CASE k.kind = "save"
      <4>1. flagged /\ k.sole
        BY <1>1, <3>1
      <4>2. (k.read <=> enabled) /\ (op[c].read <=> enabled)
        BY <1>1, <1>4, <3>1, <4>1 DEF PinInv, FlagInv
      <4> QED BY <1>3, <3>1, <4>2
    <3>2. CASE k.kind # "save"
      BY <1>4, <3>2 DEF PinInv, FlagInv
    <3> QED BY <3>1, <3>2
  <2> QED BY <1>4, <2>1, <2>2, <2>3 DEF FlagInv
<1>11. StaleInv'
  <2>1. \A p : Unset(p) => Unset(p)'
    BY <1>4, <1>5, <1>6 DEF Unset
  <2>2. \A p \in stale : ~Stored(hash, p) /\ Unset(p)
    BY DEF PinInv, StaleInv
  <2>3. \A c \in Pin!Saving : \A p \in op[c].replaces :
          Unset(p) /\ (op[c].step # "hash" => ~Stored(hash, p))
    BY DEF PinInv, StaleInv
  <2>4. \A c \in PinCallers : check[c] # None /\ check[c].stale =>
             /\ ~Stored(hash, check[c].pin) /\ Unset(check[c].pin)
             /\ ~Stored(check[c].hash, check[c].pin)
    BY DEF PinInv, StaleInv
  <2>5. \A p \in stale' : ~Stored(hash, p) /\ Unset(p)
    BY <1>1, <1>4, <2>2, <2>3
  <2> QED BY <1>1, <1>4, <1>6, <2>1, <2>3, <2>4, <2>5 DEF StaleInv, Stored
<1>12. ReadsInv'
  BY <1>1, <1>4 DEF PinInv, ReadsInv
<1>13. OneAtATime'
  BY <1>1, <1>4 DEF PinInv, OneAtATime
<1> QED BY <1>8, <1>9, <1>10, <1>11, <1>12, <1>13 DEF PinInv

\* A call that begins.
LEMMA BeginKeeps ==
    ASSUME PinInv, NEW a \in PinCallers, op[a] = None,
           NEW kind \in {"setup", "remove", "save"}, NEW pin \in Pins \cup {None},
           kind = "setup" => pin \in Pins,
           kind # "setup" => pin = None,
           Pin!Begin(a, kind, pin)
    PROVE  PinInv'
<1> DEFINE new == [kind |-> kind, pin |-> pin, salt |-> IF kind = "setup" THEN made' ELSE 0,
                   step |-> IF kind = "save" THEN "read" ELSE "hash", read |-> FALSE,
                   sole |-> \A e \in Pin!Saving : ~Pin!Conflict(kind, e),
                   replaces |-> {p \in Pins : /\ kind # "save" /\ p # pin
                                              /\ \A e \in Pin!Saving : op[e].pin # p}]
           met(d) == [op[d] EXCEPT !.sole = @ /\ ~Pin!Conflict(kind, d), !.replaces = @ \ {pin}]
           seen(d) == [check[d] EXCEPT !.quiet = @ /\ kind = "save",
                                       !.stale = @ /\ check[d].pin # pin]
<1>1. /\ made < MaxCalls /\ made' = made + 1
      /\ op' = [d \in PinCallers |-> IF d = a THEN new
                                     ELSE IF d \in Pin!Saving THEN met(d) ELSE None]
      /\ check' = [d \in PinCallers |-> IF d = a \/ check[d] = None THEN None ELSE seen(d)]
      /\ settled' = IF kind # "save" /\ Pin!Writing = {} THEN {} ELSE settled
      /\ stale' = stale \ {pin}
      /\ UNCHANGED <<hash, salt, enabled, flagged>>
  BY DEF Pin!Begin
<1>2. /\ hash \in Pin!Hashes \cup {None} /\ salt \in Pin!Salts \cup {None}
      /\ enabled \in BOOLEAN /\ flagged \in BOOLEAN /\ made \in 0..MaxCalls
      /\ settled \in SUBSET (Pin!Hashes \cup {None, Broken}) /\ stale \in SUBSET Pins
      /\ op \in [PinCallers -> Pin!Calls \cup {None}]
      /\ check \in [PinCallers -> Pin!Checks \cup {None}]
  BY DEF PinInv, Pin!TypeOK
<1>3. \A d \in Pin!Saving : /\ op[d] \in Pin!Calls /\ op[d] # None /\ d \in PinCallers /\ d # a
                             /\ Pin!Conflict(kind, d) \in BOOLEAN
  BY <1>2 DEF Pin!Saving, Pin!Conflict
<1>4. /\ new \in Pin!Calls /\ new.kind = kind /\ new.pin = pin
      /\ new.step = (IF kind = "save" THEN "read" ELSE "hash")
      /\ new.sole = (\A e \in Pin!Saving : ~Pin!Conflict(kind, e))
      /\ new.replaces = {p \in Pins : /\ kind # "save" /\ p # pin
                                      /\ \A e \in Pin!Saving : op[e].pin # p}
  <2>1. CASE kind = "setup"
    <3>1. made' \in Pin!Salts
      <4>1. made' = made + 1 /\ made < MaxCalls /\ MaxCalls \in Nat
        BY <1>1, <2>1, PinAssumption
      <4> QED BY <1>2, <4>1 DEF Pin!Salts
    <3> QED BY <2>1, <3>1 DEF Pin!Calls, Pin!Setups
  <2>2. CASE kind = "remove"
    BY <2>2 DEF Pin!Calls, Pin!Removals
  <2>3. CASE kind = "save"
    BY <2>3 DEF Pin!Calls, Pin!Saves
  <2> QED BY <2>1, <2>2, <2>3
<1>5. \A d \in Pin!Saving :
        /\ met(d) \in Pin!Calls /\ met(d).kind = op[d].kind /\ met(d).pin = op[d].pin
        /\ met(d).salt = op[d].salt /\ met(d).step = op[d].step /\ met(d).read = op[d].read
        /\ met(d).sole = (op[d].sole /\ ~Pin!Conflict(kind, d))
        /\ met(d).replaces = op[d].replaces \ {pin}
  <2> TAKE d \in Pin!Saving
  <2>1. op[d] \in Pin!Calls /\ Pin!Conflict(kind, d) \in BOOLEAN
    BY <1>3
  <2>2. CASE op[d] \in Pin!Setups
    BY <2>1, <2>2 DEF Pin!Calls, Pin!Setups
  <2>3. CASE op[d] \in Pin!Removals
    BY <2>1, <2>3 DEF Pin!Calls, Pin!Removals
  <2>4. CASE op[d] \in Pin!Saves
    BY <2>1, <2>4 DEF Pin!Calls, Pin!Saves
  <2> QED BY <2>1, <2>2, <2>3, <2>4 DEF Pin!Calls
<1>6. \A d \in PinCallers : check[d] # None =>
        /\ seen(d) \in Pin!Checks /\ check[d] \in Pin!Checks /\ check[d].pin \in Pins
        /\ seen(d).pin = check[d].pin /\ seen(d).left = check[d].left
        /\ seen(d).hash = check[d].hash /\ seen(d).salt = check[d].salt
        /\ seen(d).quiet = (check[d].quiet /\ kind = "save")
        /\ seen(d).stale = (check[d].stale /\ check[d].pin # pin)
  <2> TAKE d \in PinCallers
  <2> SUFFICES ASSUME check[d] # None
               PROVE  /\ seen(d) \in Pin!Checks /\ check[d] \in Pin!Checks /\ check[d].pin \in Pins
                      /\ seen(d).pin = check[d].pin /\ seen(d).left = check[d].left
                      /\ seen(d).hash = check[d].hash /\ seen(d).salt = check[d].salt
                      /\ seen(d).quiet = (check[d].quiet /\ kind = "save")
                      /\ seen(d).stale = (check[d].stale /\ check[d].pin # pin)
    OBVIOUS
  <2>1. check[d] \in Pin!Checks
    BY <1>2
  <2> QED BY <2>1 DEF Pin!Checks
<1> HIDE DEF new, met, seen
<1>7. op'[a] = new /\ \A d \in PinCallers \ {a} : op'[d] = IF d \in Pin!Saving THEN met(d) ELSE None
  BY <1>1
<1>8. \A d \in PinCallers : check'[d] = IF d = a \/ check[d] = None THEN None ELSE seen(d)
  BY <1>1
<1>9. \A d \in Pin!Saving : op'[d] = met(d) /\ op'[d] # None
  BY <1>3, <1>5, <1>7, CallFields
<1>10. /\ Pin!Saving' = Pin!Saving \cup {a}
       /\ Pin!Writing' = IF kind = "save" THEN Pin!Writing ELSE Pin!Writing \cup {a}
       /\ Pin!Writing \subseteq Pin!Saving /\ Pin!Saving \subseteq PinCallers
       /\ a \notin Pin!Saving
  <2>1. new # None
    BY <1>4, CallFields
  <2>2. Pin!Writing \subseteq Pin!Saving /\ Pin!Saving \subseteq PinCallers /\ a \notin Pin!Saving
    BY DEF Pin!Writing, Pin!Saving
  <2>3. Pin!Saving' = Pin!Saving \cup {a}
    BY <1>7, <1>9, <2>1, <2>2 DEF Pin!Saving
  <2>4. \A d \in PinCallers : d \in Pin!Writing <=> d \in Pin!Saving /\ op[d].kind # "save"
    BY <2>2 DEF Pin!Writing
  <2>5. \A d \in PinCallers : d \in Pin!Writing' <=> d \in Pin!Saving' /\ op'[d].kind # "save"
    BY <2>2, <2>3 DEF Pin!Writing
  <2>6. \A d \in PinCallers \ {a} : d \in Pin!Writing' <=> d \in Pin!Writing
    BY <1>5, <1>9, <2>3, <2>4, <2>5
  <2>7. a \in Pin!Writing' <=> kind # "save"
    BY <1>4, <1>7, <2>3, <2>5
  <2>8. Pin!Writing' \subseteq PinCallers
    BY DEF Pin!Writing, Pin!Saving
  <2> QED BY <2>1, <2>2, <2>3, <2>6, <2>7, <2>8
<1>11. Pin!TypeOK'
  <2>1. op' \in [PinCallers -> Pin!Calls \cup {None}]
    BY <1>1, <1>4, <1>5
  <2>2. check' \in [PinCallers -> Pin!Checks \cup {None}]
    BY <1>1, <1>6
  <2>3. made' \in 0..MaxCalls
    BY <1>1, <1>2, PinAssumption
  <2> QED BY <1>1, <1>2, <2>1, <2>2, <2>3 DEF Pin!TypeOK
<1>12. WrittenInv'
  <2> SUFFICES ASSUME NEW t \in Pin!Hashes \cup {None}, AllSet(t)'
               PROVE  /\ \A c \in Pin!Writing' :
                          /\ op'[c].step # "hash" => hash' = t
                          /\ op'[c].step \in {"read", "write"} => salt' = Pin!SaltOf(t)
                      /\ settled' = {t} => hash' = t /\ salt' = Pin!SaltOf(t)
    BY DEF WrittenInv, Pin!SaltOf
  <2>1. \A c \in Pin!Writing' \ Pin!Writing : op'[c].step = "hash"
    BY <1>4, <1>7, <1>10
  <2>2. \A c \in Pin!Writing : c \in Pin!Writing' /\ op'[c].step = op[c].step
    BY <1>5, <1>9, <1>10
  <2>3. CASE Pin!Writing = {}
    <3>1. settled' = {t} => settled = {t}
      BY <1>1
    <3>2. settled = {t} => hash = t /\ salt = Pin!SaltOf(t)
      BY <2>3 DEF PinInv, WrittenInv, AllSet
    <3> QED BY <1>1, <2>1, <2>3, <3>1, <3>2
  <2>4. CASE Pin!Writing # {}
    <3>1. \A c \in Pin!Writing : Pin!Target(op[c])' = Pin!Target(op[c])
      <4> TAKE c \in Pin!Writing
      <4> QED BY <1>5, <1>9, <1>10 DEF Pin!Target, Pin!HashPin
    <3>2. AllSet(t)
      BY <1>1, <2>2, <2>4, <3>1 DEF AllSet
    <3> QED BY <1>1, <2>1, <2>2, <2>4, <3>2 DEF PinInv, WrittenInv
  <2> QED BY <2>3, <2>4
<1>13. FlagInv'
  <2>1. \A t \in Pin!Hashes \cup {None} : flagged' /\ settled' = {t} => (enabled' <=> t # None)
    BY <1>1 DEF PinInv, FlagInv
  <2>2. \A c \in Pin!Saving : (op'[c].sole => op[c].sole /\ ~Pin!Conflict(kind, c)) /\ op'[c].kind = op[c].kind
                              /\ op'[c].step = op[c].step /\ op'[c].read = op[c].read
    BY <1>5, <1>9
  <2>3. \A c \in Pin!Writing' : \A d \in Pin!Saving' \ {c} : ~op'[c].sole /\ ~op'[d].sole
    <3> SUFFICES ASSUME NEW c \in Pin!Writing', NEW d \in Pin!Saving', d # c
                 PROVE  ~op'[c].sole /\ ~op'[d].sole
      OBVIOUS
    <3>1. CASE c # a /\ d # a
      <4>1. c \in Pin!Writing /\ c \in Pin!Saving /\ d \in Pin!Saving \ {c}
        BY <1>10, <3>1
      <4>2. ~op[c].sole /\ ~op[d].sole
        BY <4>1 DEF PinInv, FlagInv
      <4> QED BY <2>2, <4>1, <4>2
    <3>2. CASE c = a
      <4>1. kind # "save" /\ d \in Pin!Saving
        BY <1>10, <3>2
      <4>2. Pin!Conflict(kind, d)
        BY <4>1 DEF Pin!Conflict
      <4> QED BY <1>4, <1>7, <2>2, <3>2, <4>1, <4>2
    <3>3. CASE d = a
      <4>1. c \in Pin!Writing /\ c \in Pin!Saving
        BY <1>10, <3>3
      <4>2. Pin!Conflict(kind, c)
        BY <4>1 DEF Pin!Conflict, Pin!Writing
      <4> QED BY <1>4, <1>7, <2>2, <3>3, <4>1, <4>2
    <3> QED BY <3>1, <3>2, <3>3
  <2>4. \A c \in Pin!Saving' :
           flagged' /\ op'[c].kind = "save" /\ op'[c].step = "write" /\ op'[c].sole =>
              (op'[c].read <=> enabled')
    <3> SUFFICES ASSUME NEW c \in Pin!Saving', flagged', op'[c].kind = "save",
                        op'[c].step = "write", op'[c].sole
                 PROVE  op'[c].read <=> enabled'
      OBVIOUS
    <3>1. c # a
      BY <1>4, <1>7
    <3>2. c \in Pin!Saving
      BY <1>10, <3>1
    <3> QED BY <1>1, <2>2, <3>2 DEF PinInv, FlagInv
  <2> QED BY <2>1, <2>3, <2>4 DEF FlagInv
<1>14. StaleInv'
  <2>1. \A p \in Pins : Unset(p) /\ p # pin => Unset(p)'
    <3> SUFFICES ASSUME NEW p \in Pins, Unset(p), p # pin PROVE Unset(p)'
      OBVIOUS
    <3>1. \A c \in Pin!Writing : op'[c].pin # p
      BY <1>5, <1>9, <1>10 DEF Unset
    <3>2. op'[a].pin # p
      BY <1>4, <1>7
    <3> QED BY <1>10, <3>1, <3>2 DEF Unset
  <2>2. \A p \in stale' : ~Stored(hash', p) /\ Unset(p)'
    BY <1>1, <1>2, <2>1 DEF PinInv, StaleInv, Stored
  <2>3. \A c \in Pin!Saving' : \A p \in op'[c].replaces :
          Unset(p)' /\ (op'[c].step # "hash" => ~Stored(hash', p))
    <3> SUFFICES ASSUME NEW c \in Pin!Saving', NEW p \in op'[c].replaces
                 PROVE  Unset(p)' /\ (op'[c].step # "hash" => ~Stored(hash', p))
      OBVIOUS
    <3>1. CASE c = a
      <4>1. /\ kind # "save" /\ p # pin /\ p \in Pins /\ op'[c].step = "hash"
            /\ \A e \in Pin!Saving : op[e].pin # p
        BY <1>4, <1>7, <3>1
      <4>2. Unset(p)
        BY <1>10, <4>1 DEF Unset
      <4> QED BY <2>1, <4>1, <4>2
    <3>2. CASE c # a
      <4>1. c \in Pin!Saving
        BY <1>10, <3>2
      <4>2. p \in op[c].replaces /\ p # pin /\ op'[c].step = op[c].step /\ op[c] \in Pin!Calls
        BY <1>3, <1>5, <1>9, <4>1
      <4>3. p \in Pins
        BY <4>2, CallFields
      <4>4. Unset(p) /\ (op[c].step # "hash" => ~Stored(hash, p))
        BY <4>1, <4>2 DEF PinInv, StaleInv
      <4> QED BY <1>1, <2>1, <4>2, <4>3, <4>4 DEF Stored
    <3> QED BY <3>1, <3>2
  <2>4. \A c \in PinCallers :
          check'[c] # None /\ check'[c].stale =>
             /\ ~Stored(hash', check'[c].pin) /\ Unset(check[c].pin)'
             /\ ~Stored(check'[c].hash, check'[c].pin)
    <3> SUFFICES ASSUME NEW c \in PinCallers, check'[c] # None, check'[c].stale
                 PROVE  /\ ~Stored(hash', check'[c].pin) /\ Unset(check[c].pin)'
                        /\ ~Stored(check'[c].hash, check'[c].pin)
      OBVIOUS
    <3>1. check[c] # None /\ check'[c] = seen(c)
      BY <1>8
    <3>2. /\ check[c].stale /\ check[c].pin # pin /\ check[c].pin \in Pins
          /\ check'[c].pin = check[c].pin /\ check'[c].hash = check[c].hash
      BY <1>6, <3>1
    <3>3. /\ ~Stored(hash, check[c].pin) /\ Unset(check[c].pin)
          /\ ~Stored(check[c].hash, check[c].pin)
      BY <3>1, <3>2 DEF PinInv, StaleInv
    <3>4. \A p \in Pin!Writing' : op'[p].pin # check[c].pin
      BY <2>1, <3>2, <3>3 DEF Unset
    <3>5. Unset(check[c].pin)'
      BY <3>2, <3>4 DEF Unset
    <3> QED BY <1>1, <3>2, <3>3, <3>5 DEF Stored
  <2> QED BY <2>2, <2>3, <2>4 DEF StaleInv, Stored
<1>15. ReadsInv'
  <2> SUFFICES ASSUME NEW c \in PinCallers, check'[c] # None, check'[c].quiet
               PROVE  /\ Pin!Writing' = {}
                      /\ "hash" \notin check'[c].left => check'[c].hash = hash'
                      /\ "salt" \notin check'[c].left => check'[c].salt = salt'
    BY DEF ReadsInv
  <2>1. check[c] # None /\ check'[c] = seen(c)
    BY <1>8
  <2>2. /\ check[c].quiet /\ kind = "save" /\ check'[c].left = check[c].left
        /\ check'[c].hash = check[c].hash /\ check'[c].salt = check[c].salt
    BY <1>6, <2>1
  <2> QED BY <1>1, <1>10, <2>1, <2>2 DEF PinInv, ReadsInv
<1>16. OneAtATime'
  <2>1. \A d \in Pin!Saving : check[d] = None
    BY <1>3 DEF PinInv, OneAtATime
  <2> QED BY <1>7, <1>8, <2>1 DEF OneAtATime
<1> QED BY <1>11, <1>12, <1>13, <1>14, <1>15, <1>16 DEF PinInv

\* Calls that end short of their return.
LEMMA CutShortKeeps ==
    ASSUME PinInv, NEW C \in SUBSET PinCallers, Pin!CutShort(C)
    PROVE  PinInv'
<1>1. /\ op' = [c \in PinCallers |-> IF c \in C THEN None ELSE op[c]]
      /\ check' = [c \in PinCallers |-> IF c \in C THEN None ELSE check[c]]
      /\ settled' = IF Pin!Writing \cap C = {} THEN settled ELSE settled \cup {Broken}
      /\ flagged' = (flagged /\ Pin!Writing \cap C = {})
      /\ UNCHANGED <<hash, salt, enabled, made, stale>>
  BY DEF Pin!CutShort
<1>2. /\ \A c \in PinCallers \ C : op'[c] = op[c] /\ check'[c] = check[c]
      /\ \A c \in C : op'[c] = None /\ check'[c] = None
  BY <1>1
<1>3. /\ Pin!Saving' = Pin!Saving \ C /\ Pin!Writing' = Pin!Writing \ C
      /\ Pin!Writing \subseteq Pin!Saving /\ Pin!Saving \subseteq PinCallers
  BY <1>2 DEF Pin!Saving, Pin!Writing
<1>4. Pin!TypeOK'
  <2>1. op' \in [PinCallers -> Pin!Calls \cup {None}] /\ check' \in [PinCallers -> Pin!Checks \cup {None}]
    BY <1>1 DEF PinInv, Pin!TypeOK
  <2>2. flagged' \in BOOLEAN /\ settled' \in SUBSET (Pin!Hashes \cup {None, Broken})
    BY <1>1 DEF PinInv, Pin!TypeOK
  <2> QED BY <1>1, <2>1, <2>2 DEF PinInv, Pin!TypeOK
<1>5. WrittenInv'
  <2> SUFFICES ASSUME NEW t \in Pin!Hashes \cup {None}, AllSet(t)'
               PROVE  /\ \A c \in Pin!Writing' :
                          /\ op'[c].step # "hash" => hash' = t
                          /\ op'[c].step \in {"read", "write"} => salt' = Pin!SaltOf(t)
                      /\ settled' = {t} => hash' = t /\ salt' = Pin!SaltOf(t)
    BY DEF WrittenInv, Pin!SaltOf
  <2>1. Broken # t
    BY PinAssumption
  <2>2. Pin!Writing \cap C = {} /\ settled' = settled
    BY <1>1, <2>1 DEF AllSet
  <2>3. Pin!Writing' = Pin!Writing /\ \A c \in Pin!Writing : op'[c] = op[c]
    BY <1>2, <1>3, <2>2
  <2>4. \A c \in Pin!Writing : Pin!Target(op[c])' = Pin!Target(op[c])
    <3> TAKE c \in Pin!Writing
    <3> QED BY <2>3 DEF Pin!Target, Pin!HashPin
  <2>5. AllSet(t)
    BY <2>2, <2>3, <2>4 DEF AllSet
  <2> QED BY <1>1, <2>2, <2>3, <2>5 DEF PinInv, WrittenInv
<1>6. FlagInv'
  <2>1. \A t \in Pin!Hashes \cup {None} : flagged' /\ settled' = {t} => (enabled' <=> t # None)
    BY <1>1 DEF PinInv, FlagInv
  <2>2. \A c \in Pin!Saving' : c \in Pin!Saving /\ op'[c] = op[c]
    BY <1>2, <1>3
  <2> QED BY <1>1, <1>3, <2>1, <2>2 DEF PinInv, FlagInv
<1>7. StaleInv'
  <2>1. \A c \in Pin!Saving' : c \in Pin!Saving /\ op'[c] = op[c]
    BY <1>2, <1>3
  <2>2. \A p : Unset(p) => Unset(p)'
    BY <1>3, <2>1 DEF Unset
  <2>3. \A p \in stale' : ~Stored(hash', p) /\ Unset(p)'
    BY <1>1, <2>2 DEF PinInv, StaleInv, Stored
  <2>4. \A c \in Pin!Saving' : \A p \in op'[c].replaces :
          Unset(p)' /\ (op'[c].step # "hash" => ~Stored(hash', p))
    BY <1>1, <2>1, <2>2 DEF PinInv, StaleInv, Stored
  <2>5. \A c \in PinCallers :
          check'[c] # None /\ check'[c].stale =>
             /\ ~Stored(hash', check'[c].pin) /\ Unset(check[c].pin)'
             /\ ~Stored(check'[c].hash, check'[c].pin)
    <3> SUFFICES ASSUME NEW c \in PinCallers, check'[c] # None, check'[c].stale
                 PROVE  /\ ~Stored(hash', check'[c].pin) /\ Unset(check[c].pin)'
                        /\ ~Stored(check'[c].hash, check'[c].pin)
      OBVIOUS
    <3>1. check'[c] = check[c]
      BY <1>2
    <3>2. ~Stored(hash, check[c].pin) /\ Unset(check[c].pin) /\ ~Stored(check[c].hash, check[c].pin)
      BY <3>1 DEF PinInv, StaleInv
    <3>3. Unset(check[c].pin)'
      BY <1>3, <2>1, <3>1, <3>2 DEF Unset
    <3> QED BY <1>1, <3>1, <3>2, <3>3 DEF Stored
  <2> QED BY <2>3, <2>4, <2>5 DEF StaleInv, Stored
<1>8. ReadsInv'
  BY <1>1, <1>2, <1>3 DEF PinInv, ReadsInv
<1>9. OneAtATime'
  BY <1>2 DEF PinInv, OneAtATime
<1> QED BY <1>4, <1>5, <1>6, <1>7, <1>8, <1>9 DEF PinInv

\* A verification goes on, or ends: of what it has read nothing is of a stale PIN.
LEMMA CheckKeeps ==
    ASSUME PinInv, NEW a \in PinCallers, NEW v \in Pin!Checks \cup {None},
           check' = [check EXCEPT ![a] = v],
           UNCHANGED <<hash, salt, enabled, op, settled, flagged, stale>>,
           made' \in 0..MaxCalls,
           v # None => op[a] = None,
           v # None /\ v.stale =>
              ~Stored(hash, v.pin) /\ Unset(v.pin) /\ ~Stored(v.hash, v.pin),
           v # None /\ v.quiet =>
              /\ Pin!Writing = {}
              /\ "hash" \notin v.left => v.hash = hash
              /\ "salt" \notin v.left => v.salt = salt
    PROVE  PinInv'
<1>1. check'[a] = v /\ \A c \in PinCallers \ {a} : check'[c] = check[c]
  BY DEF PinInv, Pin!TypeOK
<1>2. Pin!Saving' = Pin!Saving /\ Pin!Writing' = Pin!Writing
  BY DEF Pin!Saving, Pin!Writing
<1>3. Pin!TypeOK'
  BY DEF PinInv, Pin!TypeOK
<1>4. WrittenInv'
  <2>1. \A t : AllSet(t)' <=> AllSet(t)
    BY <1>2 DEF AllSet, Pin!Target, Pin!HashPin
  <2> QED BY <1>2, <2>1 DEF PinInv, WrittenInv, Pin!SaltOf
<1>5. FlagInv'
  BY <1>2 DEF PinInv, FlagInv
<1>6. StaleInv'
  <2>1. \A c \in Pin!Writing : op'[c] = op[c]
    OBVIOUS
  <2>2. \A c \in PinCallers :
          check'[c] # None /\ check'[c].stale =>
             /\ ~Stored(hash, check'[c].pin) /\ Unset(check[c].pin)'
             /\ ~Stored(check'[c].hash, check'[c].pin)
    <3> SUFFICES ASSUME NEW c \in PinCallers, check'[c] # None, check'[c].stale
                 PROVE  /\ ~Stored(hash, check'[c].pin) /\ Unset(check[c].pin)'
                        /\ ~Stored(check'[c].hash, check'[c].pin)
      OBVIOUS
    <3>1. /\ ~Stored(hash, check'[c].pin) /\ ~Stored(check'[c].hash, check'[c].pin)
          /\ \A d \in Pin!Writing : op[d].pin # check'[c].pin
      <4>1. CASE c = a
        BY <1>1, <4>1 DEF Unset
      <4>2. CASE c # a
        BY <1>1, <4>2 DEF PinInv, StaleInv, Unset
      <4> QED BY <4>1, <4>2
    <3> QED BY <1>2, <2>1, <3>1 DEF Unset
  <2>3. \A p : Unset(p)' <=> Unset(p)
    BY <1>2, <2>1 DEF Unset
  <2> QED BY <1>2, <2>2, <2>3 DEF PinInv, StaleInv, Stored
<1>7. ReadsInv'
  BY <1>1, <1>2 DEF PinInv, ReadsInv
<1>8. OneAtATime'
  BY <1>1 DEF PinInv, OneAtATime
<1> QED BY <1>3, <1>4, <1>5, <1>6, <1>7, <1>8 DEF PinInv

LEMMA StartVerifyKeeps ==
    ASSUME PinInv, NEW a \in PinCallers, NEW pin \in Pins, NEW new \in Pins \cup {None},
           Pin!StartVerify(a, pin, new)
    PROVE  PinInv'
<1> DEFINE v == [pin |-> pin, new |-> new, left |-> {"hash", "salt"}, hash |-> None,
                 salt |-> None, quiet |-> Pin!Writing = {}, stale |-> pin \in stale]
<1>1. /\ check' = [check EXCEPT ![a] = v] /\ op[a] = None
      /\ UNCHANGED <<hash, salt, enabled, op, settled, flagged, stale>>
      /\ made < MaxCalls /\ made' = made + 1
  BY DEF Pin!StartVerify, Pin!Idle
<1>a. made' \in 0..MaxCalls
  BY <1>1, PinAssumption DEF PinInv, Pin!TypeOK
<1>2. v \in Pin!Checks
  <2>1. (Pin!Writing = {}) \in BOOLEAN /\ (pin \in stale) \in BOOLEAN
    OBVIOUS
  <2> QED BY <2>1 DEF Pin!Checks
<1>3. v.stale => ~Stored(hash, v.pin) /\ Unset(v.pin) /\ ~Stored(v.hash, v.pin)
  BY DEF PinInv, StaleInv, Stored
<1>4. v.quiet => Pin!Writing = {} /\ "hash" \in v.left /\ "salt" \in v.left
  OBVIOUS
<1> HIDE DEF v
<1> QED BY <1>1, <1>a, <1>2, <1>3, <1>4, CheckKeeps

LEMMA ReadKeeps ==
    ASSUME PinInv, NEW a \in PinCallers, NEW what \in {"hash", "salt"}, Pin!Read(a, what)
    PROVE  PinInv'
<1> DEFINE v == [check[a] EXCEPT !.left = @ \ {what},
                                 !.hash = IF what = "hash" THEN hash ELSE @,
                                 !.salt = IF what = "salt" THEN salt ELSE @]
<1>1. /\ check[a] # None /\ check' = [check EXCEPT ![a] = v]
      /\ UNCHANGED <<hash, salt, enabled, op, made, settled, flagged, stale>>
  BY DEF Pin!Read
<1>2. /\ check[a] \in Pin!Checks /\ op[a] = None
      /\ hash \in Pin!Hashes \cup {None} /\ salt \in Pin!Salts \cup {None}
  BY <1>1 DEF PinInv, Pin!TypeOK, OneAtATime
<1>3. /\ v \in Pin!Checks /\ v.pin = check[a].pin /\ v.quiet = check[a].quiet
      /\ v.stale = check[a].stale /\ v.left = check[a].left \ {what}
      /\ v.hash = (IF what = "hash" THEN hash ELSE check[a].hash)
      /\ v.salt = (IF what = "salt" THEN salt ELSE check[a].salt)
  BY <1>2 DEF Pin!Checks
<1>4. v.stale => ~Stored(hash, v.pin) /\ Unset(v.pin) /\ ~Stored(v.hash, v.pin)
  <2> SUFFICES ASSUME check[a].stale
               PROVE  /\ ~Stored(hash, check[a].pin) /\ Unset(check[a].pin)
                      /\ ~Stored(v.hash, check[a].pin)
    BY <1>3
  <2>1. ~Stored(hash, check[a].pin) /\ Unset(check[a].pin) /\ ~Stored(check[a].hash, check[a].pin)
    BY <1>1 DEF PinInv, StaleInv
  <2> QED BY <1>3, <2>1
<1>5. v.quiet => /\ Pin!Writing = {}
                 /\ "hash" \notin v.left => v.hash = hash
                 /\ "salt" \notin v.left => v.salt = salt
  <2> HIDE DEF v
  <2>1. check[a].quiet => /\ Pin!Writing = {}
                          /\ "hash" \notin check[a].left => check[a].hash = hash
                          /\ "salt" \notin check[a].left => check[a].salt = salt
    BY <1>1 DEF PinInv, ReadsInv
  <2> QED BY <1>3, <2>1
<1> HIDE DEF v
<1>6. made' \in 0..MaxCalls
  BY <1>1 DEF PinInv, Pin!TypeOK
<1> QED BY <1>1, <1>2, <1>3, <1>4, <1>5, <1>6, CheckKeeps

\* Every step of the PIN store keeps its invariant.
LEMMA PinKeeps == PinInv /\ Pin!Next => PinInv'
<1> SUFFICES ASSUME PinInv, Pin!Next PROVE PinInv'
  OBVIOUS
<1>1. CASE Pin!Close
  <2>1. Pin!CutShort(PinCallers)
    BY <1>1 DEF Pin!Close
  <2> QED BY <2>1, CutShortKeeps
<1>2. ASSUME NEW a \in PinCallers, Pin!CallNext(a) PROVE PinInv'
  <2>1. ASSUME NEW pin \in Pins, Pin!StartSetup(a, pin) PROVE PinInv'
    <3>1. op[a] = None /\ Pin!Begin(a, "setup", pin)
      BY <2>1 DEF Pin!StartSetup, Pin!Idle
    <3> QED BY <3>1, BeginKeeps
  <2>2. CASE Pin!StartRemove(a)
    <3>1. op[a] = None /\ Pin!Begin(a, "remove", None)
      BY <2>2 DEF Pin!StartRemove, Pin!Idle
    <3> QED BY <3>1, BeginKeeps
  <2>3. CASE Pin!StartSave(a)
    <3>1. op[a] = None /\ Pin!Begin(a, "save", None)
      BY <2>3 DEF Pin!StartSave, Pin!Idle
    <3> QED BY <3>1, BeginKeeps
  <2>4. CASE Pin!WriteHash(a)
    BY <2>4, WriteHashKeeps
  <2>5. CASE Pin!WriteSalt(a)
    BY <2>5, WriteSaltKeeps
  <2>6. ASSUME NEW refused \in BOOLEAN, Pin!ReadSettings(a, refused) PROVE PinInv'
    BY <2>6, ReadSettingsKeeps
  <2>7. CASE Pin!WriteSettings(a)
    BY <2>7, WriteSettingsKeeps
  <2>8. CASE Pin!Refuse(a)
    <3>1. Pin!CutShort({a})
      BY <2>8 DEF Pin!Refuse
    <3> QED BY <3>1, CutShortKeeps
  <2>9. ASSUME NEW pin \in Pins, NEW new \in Pins \cup {None}, Pin!StartVerify(a, pin, new) PROVE PinInv'
    BY <2>9, StartVerifyKeeps
  <2>10. ASSUME NEW what \in {"hash", "salt"}, Pin!Read(a, what) PROVE PinInv'
    BY <2>10, ReadKeeps
  <2>11. CASE Pin!Answer(a)
    <3>1. /\ check' = [check EXCEPT ![a] = None]
          /\ UNCHANGED <<hash, salt, enabled, op, made, settled, flagged, stale>>
      BY <2>11 DEF Pin!Answer
    <3>2. made' \in 0..MaxCalls
      BY <3>1 DEF PinInv, Pin!TypeOK
    <3> QED BY <3>1, <3>2, CheckKeeps
  <2>12. CASE Pin!AnswerChange(a)
    <3>1. /\ check[a] # None /\ check[a].new # None
          /\ Pin!Begin(a, "setup", check[a].new)
      BY <2>12 DEF Pin!AnswerChange, Pin!Answered
    <3>2. check[a].new \in Pins
      BY <3>1 DEF PinInv, Pin!TypeOK, Pin!Checks
    <3>3. op[a] = None
      BY <3>1 DEF PinInv, OneAtATime
    <3> QED BY <3>1, <3>2, <3>3, BeginKeeps
  <2> QED BY <1>2, <2>1, <2>2, <2>3, <2>4, <2>5, <2>6, <2>7, <2>8, <2>9, <2>10, <2>11, <2>12
          DEF Pin!CallNext
<1> QED BY <1>1, <1>2 DEF Pin!Next

\* What the invariant says of the properties.
LEMMA PinInvConsistent == PinInv => PinConsistent
<1> SUFFICES ASSUME PinInv, NEW h \in Pin!Hashes \cup {None}, Pin!Writing = {}, settled = {h}
             PROVE  hash = h /\ salt = Pin!SaltOf(h) /\ (flagged => (enabled <=> h # None))
  BY DEF PinConsistent, Pin!PinConsistent
<1>1. AllSet(h)
  BY DEF AllSet
<1> QED BY <1>1 DEF PinInv, WrittenInv, FlagInv

LEMMA PinInvAgrees == PinInv => VerifyAgrees
<1> SUFFICES ASSUME PinInv, NEW c \in PinCallers, NEW h \in Pin!Hashes \cup {None},
                    Pin!Answered(c), check[c].quiet, settled = {h}
             PROVE  Pin!Accepts(check[c]) <=> h # None /\ h.pin = check[c].pin
  BY DEF VerifyAgrees, Pin!VerifyAgrees
<1>1. check[c] # None /\ check[c].left = {} /\ check[c] \in Pin!Checks
  BY DEF Pin!Answered, PinInv, Pin!TypeOK
<1>2. Pin!Writing = {} /\ check[c].hash = hash /\ check[c].salt = salt
  BY <1>1 DEF PinInv, ReadsInv
<1>3. check[c].hash = h /\ check[c].salt = Pin!SaltOf(h)
  BY <1>2, PinInvConsistent DEF PinConsistent, Pin!PinConsistent
<1>4. CASE h = None
  BY <1>3, <1>4 DEF Pin!Accepts
<1>5. CASE h # None
  <2>1. h.salt \in Pin!Salts /\ h = [pin |-> h.pin, salt |-> h.salt] /\ Pin!SaltOf(h) = h.salt
    BY <1>5 DEF Pin!Hashes, Pin!SaltOf
  <2>2. h.salt # None
    BY <2>1, PinAssumption
  <2>3. Pin!Accepts(check[c]) <=> [pin |-> check[c].pin, salt |-> h.salt] = h
    BY <1>3, <1>5, <2>1, <2>2 DEF Pin!Accepts, Pin!HashPin
  <2>4. [pin |-> check[c].pin, salt |-> h.salt] = h <=> h.pin = check[c].pin
    BY <2>1
  <2> QED BY <1>5, <2>3, <2>4
<1> QED BY <1>4, <1>5

LEMMA PinInvRejects == PinInv => StalePinRejected
<1> SUFFICES ASSUME PinInv, NEW c \in PinCallers, Pin!Answered(c), check[c].stale,
                    Pin!Accepts(check[c])
             PROVE  FALSE
  BY DEF StalePinRejected, Pin!StalePinRejected
<1>1. check[c] # None /\ check[c].hash # None
      /\ check[c].hash = [pin |-> check[c].pin, salt |-> check[c].salt]
  BY DEF Pin!Answered, Pin!Accepts, Pin!HashPin
<1>2. Stored(check[c].hash, check[c].pin)
  BY <1>1 DEF Stored
<1> QED BY <1>1, <1>2 DEF PinInv, StaleInv

\* A step of the other services leaves it alone.
LEMMA PinStays == PinInv /\ UNCHANGED pinVars => PinInv'
<1> SUFFICES ASSUME PinInv, UNCHANGED pinVars PROVE PinInv'
  OBVIOUS
<1>1. UNCHANGED <<hash, salt, enabled, op, check, made, settled, flagged, stale>>
  BY DEF pinVars
<1>2. Pin!Saving' = Pin!Saving /\ Pin!Writing' = Pin!Writing
  BY <1>1 DEF Pin!Saving, Pin!Writing
<1>3. Pin!TypeOK' /\ OneAtATime'
  BY <1>1 DEF PinInv, Pin!TypeOK, OneAtATime
<1>4. WrittenInv'
  <2>1. \A t : AllSet(t)' <=> AllSet(t)
    BY <1>1, <1>2 DEF AllSet, Pin!Target, Pin!HashPin
  <2> QED BY <1>1, <1>2, <2>1 DEF PinInv, WrittenInv, Pin!SaltOf
<1>5. FlagInv'
  BY <1>1, <1>2 DEF PinInv, FlagInv
<1>6. StaleInv'
  BY <1>1, <1>2 DEF PinInv, StaleInv, Stored, Unset
<1>7. ReadsInv'
  BY <1>1, <1>2 DEF PinInv, ReadsInv
<1> QED BY <1>3, <1>4, <1>5, <1>6, <1>7 DEF PinInv

-----------------------------------------------------------------------------
ServicesInv == ConnectionInv /\ PinInv

\* The initial states satisfy the invariant.
LEMMA ServicesInvInit == Init => ServicesInv
<1> SUFFICES ASSUME Init PROVE ServicesInv
  OBVIOUS
<1>1. ConnectionInv
  <2>1. /\ ~alive /\ alive \in BOOLEAN /\ mounted /\ mounted \in BOOLEAN
        /\ ~held /\ held \in BOOLEAN /\ ~linked /\ linked \in BOOLEAN
    BY Zenon DEF Init, Connection!Init
  <2>2. state \in [connected : BOOLEAN, connecting : BOOLEAN] /\ calls = 0 /\ timers = 0
    BY DEF Init, Connection!Init, Connection!Off
  <2> QED BY <2>1, <2>2 DEF ConnectionInv
<1>2. PinInv
  <2>1. /\ hash = None /\ salt = None /\ made = 0 /\ settled = {None} /\ stale = {}
        /\ op = [c \in PinCallers |-> None] /\ check = [c \in PinCallers |-> None]
    BY DEF Init, Pin!Init
  <2>2. ~enabled /\ enabled \in BOOLEAN /\ flagged \in BOOLEAN
    BY Zenon DEF Init, Pin!Init
  <2>3. Pin!TypeOK
    BY <2>1, <2>2, PinAssumption DEF Pin!TypeOK
  <2>4. Pin!Saving = {} /\ Pin!Writing = {}
    BY <2>1 DEF Pin!Saving, Pin!Writing
  <2>5. OneAtATime /\ StaleInv /\ ReadsInv
    BY <2>1, <2>4 DEF OneAtATime, StaleInv, ReadsInv
  <2>6. \A t \in Pin!Hashes \cup {None} : settled = {t} => t = None
    BY <2>1
  <2>7. WrittenInv
    BY <2>1, <2>4, <2>6 DEF WrittenInv, Pin!SaltOf
  <2>8. FlagInv
    BY <2>2, <2>4, <2>6 DEF FlagInv
  <2> QED BY <2>3, <2>5, <2>7, <2>8 DEF PinInv
<1> QED BY <1>1, <1>2 DEF ServicesInv

\* Every step of the client keeps the invariant, a restart of the app included.
LEMMA ServicesInvNext == ServicesInv /\ [Next]_vars => ServicesInv'
<1> SUFFICES ASSUME ServicesInv, [Next]_vars PROVE ServicesInv'
  OBVIOUS
<1>1. UNCHANGED connectionVars => ConnectionInv'
  BY DEF ServicesInv, ConnectionInv, connectionVars
<1>2. UNCHANGED pinVars => PinInv'
  BY PinStays DEF ServicesInv
<1>3. ASSUME Restart PROVE ConnectionInv'
  <2>1. /\ ~alive' /\ alive' \in BOOLEAN /\ mounted' /\ mounted' \in BOOLEAN
        /\ ~held' /\ held' \in BOOLEAN /\ ~linked' /\ linked' \in BOOLEAN
    BY <1>3, Zenon DEF Restart
  <2>2. state' \in [connected : BOOLEAN, connecting : BOOLEAN] /\ calls' = 0 /\ timers' = 0
    BY <1>3 DEF Restart, Connection!Off
  <2> QED BY <2>1, <2>2 DEF ConnectionInv
<1>4. CASE service = "session" /\ SessionNext /\ UNCHANGED pinVars
  <2>1. ConnectionInv'
    BY <1>1, <1>3, <1>4, ConnectionKeeps DEF SessionNext, ServicesInv
  <2> QED BY <1>2, <1>4, <2>1 DEF ServicesInv
<1>5. CASE Pin!Next /\ UNCHANGED connectionVars
  BY <1>1, <1>5, PinKeeps DEF ServicesInv
<1>6. CASE UNCHANGED connectionVars /\ UNCHANGED pinVars
  BY <1>1, <1>2, <1>6 DEF ServicesInv
<1> QED BY <1>4, <1>5, <1>6 DEF Next, vars, sessionVars

\* ServicesInvAlways: the invariants of the hook and of the PIN store hold in every
\* reachable state.
THEOREM ServicesInvAlways == Spec => []ServicesInv
  BY ServicesInvInit, ServicesInvNext, PTL DEF Spec

\* OneConnectAtATimeAlways: useChainConnection never has two connects under way,
\* though its effect runs again at the start and at the end of each.
THEOREM OneConnectAtATimeAlways == Spec => []OneConnectAtATime
<1>1. ServicesInv => OneConnectAtATime
  BY DEF ServicesInv, ConnectionInv, OneConnectAtATime, Connection!OneConnectAtATime
<1> QED BY <1>1, ServicesInvAlways, PTL

\* NoLeakedTimerAlways: no health check interval is ever lost from the ref or
\* outlives the component.
THEOREM NoLeakedTimerAlways == Spec => []NoLeakedTimer
<1>1. ServicesInv => NoLeakedTimer
  BY DEF ServicesInv, ConnectionInv, NoLeakedTimer, Connection!NoLeakedTimer
<1> QED BY <1>1, ServicesInvAlways, PTL

\* PinConsistentAlways: after setups and removals that all set the same thing, as a
\* single one does, the hash, the salt and the flag are of it, whatever saves of
\* other settings overlap and whatever was cut short before.
THEOREM PinConsistentAlways == Spec => []PinConsistent
<1>1. ServicesInv => PinConsistent BY PinInvConsistent DEF ServicesInv
<1> QED BY <1>1, ServicesInvAlways, PTL

\* VerifyAgreesAlways: verifyPin accepts the PIN of the setup that ran alone last and
\* no other, if no setup or removal overlaps its two reads.
THEOREM VerifyAgreesAlways == Spec => []VerifyAgrees
<1>1. ServicesInv => VerifyAgrees BY PinInvAgrees DEF ServicesInv
<1> QED BY <1>1, ServicesInvAlways, PTL

\* StalePinRejectedAlways: for any number of callers, and whatever overlaps, is
\* refused or is closed, verifyPin rejects a PIN that a call which returned replaced.
THEOREM StalePinRejectedAlways == Spec => []StalePinRejected
<1>1. ServicesInv => StalePinRejected BY PinInvRejects DEF ServicesInv
<1> QED BY <1>1, ServicesInvAlways, PTL

(***************************************************************************)
(* The wallet context and the scan.                                        *)
(***************************************************************************)
Link == [connected : BOOLEAN, connecting : BOOLEAN]
Refreshes ==
    [at : {"commitments", "private", "public"}, render : [connected : BOOLEAN, address : BOOLEAN],
     private : Nat]

\* A refresh that asks for the public balance has read a private one.
ContextInv ==
    /\ Context!TypeOK
    /\ refresh \in [Context!Callers -> Refreshes \cup {None}]
    /\ \A c \in Context!Callers :
          refresh[c] # None /\ refresh[c].at = "public" => refresh[c].private \in PrivateBalances

\* A step of the context keeps its invariant.
LEMMA ContextKeeps ==
    ASSUME ContextInv, shown \in Link, Context!Next
    PROVE  ContextInv'
<1>0. /\ phase \in {"keys", "lock", "load", "ready"}
      /\ address \in BOOLEAN /\ unlocked \in BOOLEAN
      /\ balances \in Context!Balance \cup {None} /\ saved \in Context!Balance \cup {None}
      /\ private \in PrivateBalances /\ private \in Nat /\ changes \in 0..MaxChanges
      /\ refresh \in [Context!Callers -> Refreshes \cup {None}]
      /\ \A c \in Context!Callers :
            refresh[c] # None /\ refresh[c].at = "public" => refresh[c].private \in PrivateBalances
  BY ContextAssumption DEF ContextInv, Context!TypeOK
<1>1. ASSUME phase' \in {"keys", "lock", "load", "ready"},
             address' \in BOOLEAN, unlocked' \in BOOLEAN,
             balances' \in Context!Balance \cup {None}, saved' \in Context!Balance \cup {None},
             private' \in PrivateBalances, changes' \in 0..MaxChanges,
             refresh' \in [Context!Callers -> Refreshes \cup {None}],
             \A c \in Context!Callers :
               refresh'[c] # None /\ refresh'[c].at = "public" => refresh'[c].private \in PrivateBalances
      PROVE  ContextInv'
  <2>1. ASSUME refresh' \in [Context!Callers -> Refreshes \cup {None}],
               NEW c \in Context!Callers, refresh'[c] # None
        PROVE  refresh'[c].at \in {"commitments", "private", "public"}
    BY <2>1 DEF Refreshes
  <2> QED BY <1>1, <2>1 DEF ContextInv, Context!TypeOK
<1>2. ASSUME NEW found \in BOOLEAN, Context!LoadKeys(found) PROVE ContextInv'
  BY <1>0, <1>1, <1>2 DEF Context!LoadKeys
<1>3. ASSUME NEW locked \in BOOLEAN, Context!CheckLock(locked) PROVE ContextInv'
  <2>1. unlocked' \in BOOLEAN BY <1>3, Zenon DEF Context!CheckLock
  <2> QED BY <1>0, <1>1, <1>3, <2>1 DEF Context!CheckLock
<1>4. CASE Context!LoadBalances
  BY <1>0, <1>1, <1>4 DEF Context!LoadBalances
<1>5. CASE Context!Lock
  BY <1>0, <1>1, <1>5 DEF Context!Lock
<1>6. ASSUME NEW value \in PrivateBalances, Context!Change(value) PROVE ContextInv'
  BY <1>0, <1>1, <1>6, ContextAssumption DEF Context!Change
<1>7. CASE Context!Unlock
  <2> DEFINE first == [connected |-> FALSE, address |-> FALSE]
             r1 == [at |-> "private", render |-> first, private |-> 0]
             r2 == [at |-> "commitments", render |-> first, private |-> 0]
  <2>1. first \in [connected : BOOLEAN, address : BOOLEAN]
    OBVIOUS
  <2>2. /\ refresh' = [refresh EXCEPT !["unlock"] = r1, !["refreshCommitments"] = r2]
        /\ unlocked' = TRUE /\ UNCHANGED <<phase, address, balances, saved, private, changes>>
    <3>1. Context!Called(Context!FirstRender) = r1
      BY DEF Context!Called, Context!FirstRender
    <3>2. [r1 EXCEPT !.at = "commitments"] = r2
      <4> HIDE DEF first
      <4> QED OBVIOUS
    <3> HIDE DEF r1, r2
    <3> QED BY <1>7, <3>1, <3>2 DEF Context!Unlock
  <2> HIDE DEF first
  <2>3. /\ r1 \in Refreshes /\ r1.at # "public" /\ r2 \in Refreshes /\ r2.at # "public"
    BY <2>1 DEF Refreshes
  <2> HIDE DEF r1, r2
  <2>4. /\ refresh' \in [Context!Callers -> Refreshes \cup {None}]
        /\ \A c \in Context!Callers : refresh'[c] \in {r1, r2, refresh[c]}
    BY <1>0, <2>2, <2>3
  <2>5. \A c \in Context!Callers :
           refresh'[c] # None /\ refresh'[c].at = "public" => refresh'[c].private \in PrivateBalances
    BY <1>0, <2>3, <2>4
  <2> QED BY <1>0, <1>1, <2>2, <2>4, <2>5
<1>8. CASE Context!Interval
  <2> DEFINE last == [connected |-> shown.connected, address |-> address]
             r == [at |-> "private", render |-> last, private |-> 0]
  <2>1. last \in [connected : BOOLEAN, address : BOOLEAN]
    BY <1>0 DEF Link
  <2>2. /\ refresh' = [refresh EXCEPT !["interval"] = r]
        /\ UNCHANGED <<phase, address, unlocked, balances, saved, private, changes>>
    BY <1>8 DEF Context!Interval, Context!Called, Context!LastRender
  <2> HIDE DEF last
  <2>3. r \in Refreshes /\ r.at # "public"
    BY <2>1 DEF Refreshes
  <2> HIDE DEF r
  <2>4. /\ refresh' \in [Context!Callers -> Refreshes \cup {None}]
        /\ \A c \in Context!Callers : refresh'[c] \in {r, refresh[c]}
    BY <1>0, <2>2, <2>3
  <2>5. \A c \in Context!Callers :
           refresh'[c] # None /\ refresh'[c].at = "public" => refresh'[c].private \in PrivateBalances
    BY <1>0, <2>3, <2>4
  <2> QED BY <1>0, <1>1, <2>2, <2>4, <2>5
<1>9. ASSUME NEW c \in Context!Callers, Context!Resume(c) PROVE ContextInv'
  <2> DEFINE r == refresh[c]
  <2>1. r \in Refreshes /\ r # None
    BY <1>0, <1>9 DEF Context!Resume, Context!LoadCommitments, Context!ReadPrivate, Context!GetBalance
  <2>2. ASSUME NEW q \in Refreshes \cup {None}, refresh' = [refresh EXCEPT ![c] = q],
               q # None /\ q.at = "public" => q.private \in PrivateBalances
        PROVE  /\ refresh' \in [Context!Callers -> Refreshes \cup {None}]
               /\ \A d \in Context!Callers :
                     refresh'[d] # None /\ refresh'[d].at = "public" => refresh'[d].private \in PrivateBalances
    <3>1. \A d \in Context!Callers : refresh'[d] = IF d = c THEN q ELSE refresh[d]
      BY <1>0, <2>2
    <3>2. refresh' \in [Context!Callers -> Refreshes \cup {None}]
      BY <1>0, <2>2
    <3> QED BY <1>0, <2>2, <3>1, <3>2
  <2>3. ASSUME NEW pub \in {0, PublicBalance}, NEW priv \in PrivateBalances, Context!Show(pub, priv)
        PROVE  balances' \in Context!Balance /\ saved' \in Context!Balance
    BY <2>3 DEF Context!Show, Context!Balance
  <2>4. CASE Context!LoadCommitments(c)
    <3> DEFINE q == [r EXCEPT !.at = "private"]
    <3>1. /\ refresh' = [refresh EXCEPT ![c] = q]
          /\ UNCHANGED <<phase, address, unlocked, balances, saved, private, changes>>
      BY <2>4 DEF Context!LoadCommitments
    <3>2. q \in Refreshes /\ q.at # "public"
      BY <2>1 DEF Refreshes
    <3> HIDE DEF q
    <3>3. /\ refresh' \in [Context!Callers -> Refreshes \cup {None}]
          /\ \A d \in Context!Callers :
                refresh'[d] # None /\ refresh'[d].at = "public" => refresh'[d].private \in PrivateBalances
      BY <2>2, <3>1, <3>2
    <3> QED BY <1>0, <1>1, <3>1, <3>3
  <2>5. CASE Context!ReadPrivate(c) /\ r.render.connected /\ r.render.address
    <3> DEFINE q == [r EXCEPT !.at = "public", !.private = private]
    <3>1. /\ refresh' = [refresh EXCEPT ![c].at = "public", ![c].private = private]
          /\ UNCHANGED <<phase, address, unlocked, balances, saved, private, changes>>
      BY <2>5 DEF Context!ReadPrivate
    <3>2. refresh' = [refresh EXCEPT ![c] = q]
      BY <1>0, <3>1
    <3>3. q \in Refreshes /\ q.private \in PrivateBalances
      BY <1>0, <2>1 DEF Refreshes
    <3> HIDE DEF q
    <3>4. /\ refresh' \in [Context!Callers -> Refreshes \cup {None}]
          /\ \A d \in Context!Callers :
                refresh'[d] # None /\ refresh'[d].at = "public" => refresh'[d].private \in PrivateBalances
      BY <2>2, <3>2, <3>3
    <3> QED BY <1>0, <1>1, <3>1, <3>4
  <2>6. CASE Context!ReadPrivate(c) /\ ~ (r.render.connected /\ r.render.address)
    <3>1. /\ refresh' = [refresh EXCEPT ![c] = None] /\ Context!Show(0, private)
          /\ UNCHANGED <<phase, address, unlocked, private, changes>>
      BY <2>6 DEF Context!ReadPrivate
    <3>2. balances' \in Context!Balance /\ saved' \in Context!Balance
      BY <1>0, <2>3, <3>1
    <3>3. /\ refresh' \in [Context!Callers -> Refreshes \cup {None}]
          /\ \A d \in Context!Callers :
                refresh'[d] # None /\ refresh'[d].at = "public" => refresh'[d].private \in PrivateBalances
      BY <2>2, <3>1
    <3> QED BY <1>0, <1>1, <3>1, <3>2, <3>3
  <2>7. CASE Context!GetBalance(c)
    <3>1. /\ refresh' = [refresh EXCEPT ![c] = None] /\ Context!Show(PublicBalance, r.private)
          /\ r.at = "public"
          /\ UNCHANGED <<phase, address, unlocked, private, changes>>
      BY <2>7 DEF Context!GetBalance
    <3>2. balances' \in Context!Balance /\ saved' \in Context!Balance
      BY <1>0, <2>1, <2>3, <3>1
    <3>3. /\ refresh' \in [Context!Callers -> Refreshes \cup {None}]
          /\ \A d \in Context!Callers :
                refresh'[d] # None /\ refresh'[d].at = "public" => refresh'[d].private \in PrivateBalances
      BY <2>2, <3>1
    <3> QED BY <1>0, <1>1, <3>1, <3>2, <3>3
  <2> QED BY <1>9, <2>4, <2>5, <2>6, <2>7 DEF Context!Resume
<1> QED BY <1>2, <1>3, <1>4, <1>5, <1>6, <1>7, <1>8, <1>9 DEF Context!Next

-----------------------------------------------------------------------------
(***************************************************************************)
(* The scan: FlattenSeq first, then what consecutive blocks add.           *)
(***************************************************************************)
\* A non-empty set of natural numbers has a least element.
LEMMA LeastElement ==
    ASSUME NEW S \in SUBSET Nat, S # {}
    PROVE  \E x \in S : \A y \in S : x <= y
<1>1. PICK x \in S : \A y \in S : ~ (<<y, x>> \in OpToRel(<, Nat))
  BY WFMin, NatLessThanWellFounded
<1>2. \A y \in Nat : y < x => <<y, x>> \in OpToRel(<, Nat)
  BY Zenon DEF OpToRel
<1>3. \A y \in S : ~ (y < x)
  BY <1>1, <1>2, Zenon
<1> QED BY <1>3

\* Joins(f, g, n): f is the recursive function that FlattenSeq defines on the
\* first n sequences of g.
Joins(f, g, n) == f = [i \in 1..n |-> IF i = 1 THEN g[i] ELSE f[i - 1] \o g[i]]

SequencesOver(g, n, S) == \A i \in 1..n : g[i] \in Seq(S)
Agree(e, g, m) == \A i \in 1..m : e[i] = g[i]

\* There is such a function for every n, and its values are sequences.
LEMMA JoinsExists ==
    ASSUME NEW S, NEW g, NEW n \in Nat, \A i \in 1..n : g[i] \in Seq(S)
    PROVE  \E f : Joins(f, g, n)
<1> DEFINE Bad == {k \in 0..n : ~ \E f : Joins(f, g, k)}
<1>1. SUFFICES ASSUME Bad # {} PROVE FALSE
  OBVIOUS
<1>2. PICK k \in Bad : \A y \in Bad : k <= y
  <2>1. Bad \in SUBSET Nat OBVIOUS
  <2> HIDE DEF Bad
  <2> QED BY <1>1, <2>1, LeastElement
<1>3. k # 0
  <2>1. [i \in 1..0 |-> 0] = [i \in 1..0 |-> IF i = 1 THEN g[i] ELSE [j \in 1..0 |-> 0][i - 1] \o g[i]]
    OBVIOUS
  <2>2. Joins([i \in 1..0 |-> 0], g, 0)
    BY <2>1 DEF Joins
  <2> QED BY <1>2, <2>2
<1>4. PICK f : Joins(f, g, k - 1)
  <2>1. k - 1 \in 0..n /\ ~ (k <= k - 1)
    BY <1>2, <1>3
  <2> QED BY <1>2, <2>1
<1> DEFINE h == [i \in 1..k |-> IF i < k THEN f[i] ELSE IF i = 1 THEN g[i] ELSE f[i - 1] \o g[i]]
<1>5. ASSUME NEW i \in 1..k
      PROVE  h[i] = IF i = 1 THEN g[i] ELSE h[i - 1] \o g[i]
  <2>1. k \in Nat /\ i \in Nat
    BY <1>2
  <2>2. i # 1 => i - 1 \in 1..k /\ i - 1 < k /\ h[i - 1] = f[i - 1]
    BY <2>1
  <2>3. CASE i < k
    <3>1. i \in 1..(k - 1)
      BY <2>1, <2>3
    <3>2. f[i] = IF i = 1 THEN g[i] ELSE f[i - 1] \o g[i]
      BY <1>4, <3>1 DEF Joins
    <3>3. h[i] = f[i]
      BY <2>3
    <3> HIDE DEF h
    <3> QED BY <2>2, <3>2, <3>3
  <2>4. CASE ~ (i < k)
    <3>1. h[i] = IF i = 1 THEN g[i] ELSE f[i - 1] \o g[i]
      BY <2>4
    <3> HIDE DEF h
    <3> QED BY <2>2, <3>1
  <2> QED BY <2>3, <2>4
<1>6. h = [i \in 1..k |-> h[i]]
  OBVIOUS
<1> HIDE DEF h
<1>7. h = [i \in 1..k |-> IF i = 1 THEN g[i] ELSE h[i - 1] \o g[i]]
  BY <1>5, <1>6
<1>8. Joins(h, g, k)
  BY <1>7 DEF Joins
<1> QED BY <1>2, <1>8

\* It is the same function wherever both are defined, and yields sequences.
LEMMA JoinsUnique ==
    ASSUME NEW S, NEW g, NEW n \in Nat, SequencesOver(g, n, S), NEW f, Joins(f, g, n),
           NEW e, NEW m \in Nat, m <= n, NEW h, Joins(h, e, m), Agree(e, g, m)
    PROVE  \A i \in 1..m : f[i] = h[i] /\ f[i] \in Seq(S)
<1> DEFINE Bad == {k \in 1..m : ~ (f[k] = h[k] /\ f[k] \in Seq(S))}
<1>1. SUFFICES ASSUME Bad # {} PROVE FALSE
  OBVIOUS
<1>2. PICK k \in Bad : \A y \in Bad : k <= y
  <2>1. Bad \in SUBSET Nat OBVIOUS
  <2> HIDE DEF Bad
  <2> QED BY <1>1, <2>1, LeastElement
<1>3. k \in 1..m /\ k \in 1..n
  BY <1>2
<1>4. f[k] = IF k = 1 THEN g[k] ELSE f[k - 1] \o g[k]
  BY <1>3 DEF Joins
<1>5. h[k] = IF k = 1 THEN e[k] ELSE h[k - 1] \o e[k]
  BY <1>3 DEF Joins
<1>6. k # 1 => f[k - 1] = h[k - 1] /\ f[k - 1] \in Seq(S)
  <2>1. k # 1 => k - 1 \in 1..m /\ ~ (k <= k - 1)
    BY <1>3
  <2> QED BY <1>2, <2>1
<1>7. e[k] = g[k] /\ g[k] \in Seq(S)
  BY <1>3 DEF SequencesOver, Agree
<1>8. f[k] = h[k]
  BY <1>4, <1>5, <1>6, <1>7
<1>9. f[k] \in Seq(S)
  <2>1. k # 1 => f[k - 1] \o g[k] \in Seq(S)
    BY <1>6, <1>7, ConcatProperties
  <2> QED BY <1>4, <1>7, <2>1
<1> QED BY <1>2, <1>8, <1>9

\* FlattenValue: what FlattenSeq is, by its function.
LEMMA FlattenValue ==
    ASSUME NEW S, NEW n \in Nat, NEW g \in [1..n -> Seq(S)]
    PROVE  /\ n = 0 => Scan!FlattenSeq(g) = << >>
           /\ n # 0 => \E f : Joins(f, g, n) /\ Scan!FlattenSeq(g) = f[n]
<1>1. g \in Seq(Seq(S)) /\ Len(g) = n
  OBVIOUS
<1>2. CASE n = 0
  <2>1. g = << >>
    BY <1>1, <1>2
  <2> QED BY <1>1, <1>2, <2>1 DEF Scan!FlattenSeq
<1>3. CASE n # 0
  <2> DEFINE flatten == CHOOSE f : Joins(f, g, n)
  <2>1. \E f : Joins(f, g, n)
    BY JoinsExists
  <2>2. Joins(flatten, g, n)
    BY <2>1, Zenon
  <2>3. Scan!FlattenSeq(g) = flatten[n]
    BY <1>1, <1>3 DEF Scan!FlattenSeq, Joins
  <2> HIDE DEF flatten
  <2> QED BY <1>3, <2>2, <2>3
<1> QED BY <1>2, <1>3

\* FlattenLast: putting sequences together is putting the last one behind the
\* others.
LEMMA FlattenLast ==
    ASSUME NEW S, NEW n \in Nat \ {0}, NEW g \in [1..n -> Seq(S)],
           NEW e \in [1..(n - 1) -> Seq(S)], \A i \in 1..(n - 1) : e[i] = g[i]
    PROVE  Scan!FlattenSeq(g) = Scan!FlattenSeq(e) \o g[n]
<1>1. PICK f : Joins(f, g, n) /\ Scan!FlattenSeq(g) = f[n]
  BY FlattenValue
<1>2. f[n] = IF n = 1 THEN g[n] ELSE f[n - 1] \o g[n]
  <2>1. n \in 1..n OBVIOUS
  <2>2. f = [i \in 1..n |-> IF i = 1 THEN g[i] ELSE f[i - 1] \o g[i]]
    BY <1>1 DEF Joins
  <2> QED BY <2>1, <2>2
<1>3. CASE n = 1
  <2>1. n - 1 = 0 /\ n - 1 \in Nat
    BY <1>3
  <2>2. Scan!FlattenSeq(e) = << >>
    BY <2>1, FlattenValue
  <2>3. g[n] \in Seq(S)
    OBVIOUS
  <2>4. << >> \o g[n] = g[n]
    BY <2>3
  <2> QED BY <1>1, <1>2, <1>3, <2>2, <2>4
<1>4. CASE n # 1
  <2> DEFINE m == n - 1
  <2>1. m \in Nat /\ m # 0 /\ m <= n /\ m \in 1..m /\ n \in Nat
    BY <1>4
  <2>2. e \in [1..m -> Seq(S)] /\ Agree(e, g, m)
    BY DEF Agree
  <2> HIDE DEF m
  <2>3. PICK h : Joins(h, e, m) /\ Scan!FlattenSeq(e) = h[m]
    BY <2>1, <2>2, FlattenValue
  <2>4. SequencesOver(g, n, S)
    BY DEF SequencesOver
  <2>5. \A i \in 1..m : f[i] = h[i] /\ f[i] \in Seq(S)
    BY <1>1, <2>1, <2>2, <2>3, <2>4, JoinsUnique
  <2>6. f[m] = h[m]
    BY <2>1, <2>5
  <2> QED BY <1>1, <1>2, <1>4, <2>3, <2>6 DEF m
<1> QED BY <1>3, <1>4

\* FlattenType: it is a sequence over the same set.
LEMMA FlattenType ==
    ASSUME NEW S, NEW n \in Nat, NEW g \in [1..n -> Seq(S)]
    PROVE  Scan!FlattenSeq(g) \in Seq(S)
<1>1. CASE n = 0
  <2>1. Scan!FlattenSeq(g) = << >>
    BY <1>1, FlattenValue
  <2> QED BY <2>1
<1>2. CASE n # 0
  <2>1. PICK f : Joins(f, g, n) /\ Scan!FlattenSeq(g) = f[n]
    BY <1>2, FlattenValue
  <2>2. SequencesOver(g, n, S) /\ Agree(g, g, n)
    BY DEF SequencesOver, Agree
  <2>3. f[n] \in Seq(S)
    <3>1. n \in 1..n /\ n <= n
      BY <1>2
    <3> QED BY <2>1, <2>2, <3>1, JoinsUnique
  <2> QED BY <2>1, <2>3
<1> QED BY <1>1, <1>2

\* What block b adds, unless it is left out.
Added(P, b, without) == IF b \in without THEN << >> ELSE P[b]

\* Concatenation, for the steps that need not know what it is.
Behind(s, t) == s \o t

\* The blocks between the bounds add sequences over S.
Adds(P, first, last, S) == \A b \in first..last : P[b] \in Seq(S)

LEMMA AddsWithin ==
    ASSUME NEW P, NEW S, NEW first \in Nat, NEW last \in Int, Adds(P, first, last, S),
           NEW f \in Nat, NEW l \in Int, first <= f, l <= last
    PROVE  Adds(P, f, l, S)
  BY DEF Adds

\* CollectEmpty: nothing between the bounds adds nothing.
LEMMA CollectEmpty ==
    ASSUME NEW P, NEW without, NEW first \in Nat, NEW last \in Int, last < first
    PROVE  Scan!Collect(P, first, last, without) = << >>
<1> DEFINE g == [i \in 1..(last - first + 1) |->
                    IF first + i - 1 \in without THEN << >> ELSE P[first + i - 1]]
<1>1. 1..(last - first + 1) = 1..0 /\ 0 \in Nat
  OBVIOUS
<1>2. g \in [1..0 -> Seq({})]
  BY <1>1
<1> HIDE DEF g
<1>3. Scan!FlattenSeq(g) = << >>
  BY <1>1, <1>2, FlattenValue
<1> QED BY <1>3 DEF Scan!Collect, g

\* CollectLast: the last block comes last.
LEMMA CollectLast ==
    ASSUME NEW S, NEW P, NEW without, NEW first \in Nat, NEW last \in Int,
           first <= last, Adds(P, first, last, S)
    PROVE  Scan!Collect(P, first, last, without) =
               Behind(Scan!Collect(P, first, last - 1, without), Added(P, last, without))
<1> DEFINE At(i) == IF first + i - 1 \in without THEN << >> ELSE P[first + i - 1]
           n == last - first + 1
           g == [i \in 1..n |-> At(i)]
           e == [i \in 1..(n - 1) |-> At(i)]
<1>1. n \in Nat \ {0} /\ n \in Nat /\ first + n - 1 = last /\ (last - 1) - first + 1 = n - 1
  OBVIOUS
<1>2. \A i \in 1..n : At(i) \in Seq(S)
  <2> SUFFICES ASSUME NEW i \in 1..n PROVE At(i) \in Seq(S)
    OBVIOUS
  <2>1. first + i - 1 \in first..last
    BY <1>1
  <2>2. P[first + i - 1] \in Seq(S)
    BY <2>1 DEF Adds
  <2>3. << >> \in Seq(S)
    OBVIOUS
  <2> QED BY <2>2, <2>3
<1>3. At(n) = Added(P, last, without)
  BY <1>1 DEF Added
<1> HIDE DEF n, At
<1>4. /\ g \in [1..n -> Seq(S)] /\ e \in [1..(n - 1) -> Seq(S)]
      /\ \A i \in 1..(n - 1) : e[i] = g[i]
      /\ g[n] = At(n)
  BY <1>1, <1>2
<1>5. Scan!Collect(P, first, last, without) = Scan!FlattenSeq(g)
  BY DEF Scan!Collect, n, At
<1>6. Scan!Collect(P, first, last - 1, without) = Scan!FlattenSeq(e)
  <2>1. Scan!Collect(P, first, last - 1, without)
            = Scan!FlattenSeq([i \in 1..((last - 1) - first + 1) |-> At(i)])
    BY DEF Scan!Collect, At
  <2> QED BY <1>1, <2>1
<1> HIDE DEF g, e
<1>7. Scan!FlattenSeq(g) = Scan!FlattenSeq(e) \o g[n]
  BY <1>1, <1>4, FlattenLast
<1> QED BY <1>3, <1>4, <1>5, <1>6, <1>7 DEF Behind

\* CollectType: what blocks add together is a sequence over the same set.
LEMMA CollectType ==
    ASSUME NEW S, NEW P, NEW without, NEW first \in Nat, NEW last \in Int,
           Adds(P, first, last, S)
    PROVE  Scan!Collect(P, first, last, without) \in Seq(S)
<1> DEFINE At(i) == IF first + i - 1 \in without THEN << >> ELSE P[first + i - 1]
           n == last - first + 1
           g == [i \in 1..n |-> At(i)]
<1>1. CASE last < first
  <2>1. Scan!Collect(P, first, last, without) = << >>
    BY <1>1, CollectEmpty
  <2> QED BY <2>1
<1>2. CASE ~ (last < first)
  <2>1. n \in Nat /\ \A i \in 1..n : first + i - 1 \in first..last
    BY <1>2
  <2>2. \A i \in 1..n : At(i) \in Seq(S)
    <3>1. << >> \in Seq(S)
      OBVIOUS
    <3> QED BY <2>1, <3>1 DEF Adds
  <2>3. Scan!Collect(P, first, last, without) = Scan!FlattenSeq(g)
    BY DEF Scan!Collect
  <2> HIDE DEF n, At
  <2>4. g \in [1..n -> Seq(S)]
    BY <2>2
  <2> HIDE DEF g
  <2> QED BY <2>1, <2>3, <2>4, FlattenType
<1> QED BY <1>1, <1>2

\* CollectSplit: the blocks before mid, then the blocks from it on.
LEMMA CollectSplit ==
    ASSUME NEW S, NEW P, NEW without, NEW first \in Nat, NEW mid \in Nat, first <= mid,
           NEW end \in Nat, mid <= end + 1, Adds(P, first, end, S)
    PROVE  Scan!Collect(P, first, end, without) =
               Behind(Scan!Collect(P, first, mid - 1, without), Scan!Collect(P, mid, end, without))
<1> DEFINE J(k) == Scan!Collect(P, first, k, without)
           M(k) == Scan!Collect(P, mid, k, without)
           Bad == {k \in 0..(end + 1) : mid <= k /\ J(k - 1) # J(mid - 1) \o M(k - 1)}
<1> HIDE DEF J, M
<1>1. SUFFICES ASSUME Bad # {} PROVE FALSE
  <2>1. end + 1 \notin Bad
    <3> HIDE DEF Bad
    <3> QED BY <1>1
  <2>a. end + 1 \in 0..(end + 1) /\ (end + 1) - 1 = end
    OBVIOUS
  <2>2. J(end) = J(mid - 1) \o M(end)
    BY <2>1, <2>a
  <2> QED BY <2>2 DEF J, M, Behind
<1>2. PICK k \in Bad : \A y \in Bad : k <= y
  <2>1. Bad \in SUBSET Nat OBVIOUS
  <2> HIDE DEF Bad
  <2> QED BY <1>1, <2>1, LeastElement
<1>3. k \in Nat /\ mid <= k /\ k <= end + 1 /\ k - 1 \in Int
  BY <1>2
<1>4. J(mid - 1) \in Seq(S)
  <2>1. mid - 1 \in Int /\ end \in Int /\ mid - 1 <= end /\ first <= first
    OBVIOUS
  <2>2. Adds(P, first, mid - 1, S)
    BY <2>1, AddsWithin
  <2> QED BY <2>1, <2>2, CollectType DEF J
<1>5. CASE k = mid
  <2>1. k - 1 < mid
    BY <1>3, <1>5
  <2>2. M(k - 1) = << >>
    BY <1>3, <2>1, CollectEmpty DEF M
  <2>3. J(mid - 1) \o << >> = J(mid - 1)
    BY <1>4
  <2> QED BY <1>2, <1>5, <2>2, <2>3
<1>6. CASE k # mid
  <2>a. PICK l \in Int : l = k - 1
    BY <1>3
  <2> DEFINE here == Added(P, l, without)
  <2>1. l \in Nat /\ l \in Int /\ first <= l /\ mid <= l /\ l <= end /\ end \in Int
        /\ l - 1 \in Int /\ l - 1 <= end /\ k = l + 1 /\ l \in first..end
        /\ l \in 0..(end + 1) /\ ~ (k <= l) /\ first <= first
    BY <1>3, <1>6, <2>a
  <2>2. Adds(P, first, l, S) /\ Adds(P, mid, l, S) /\ Adds(P, mid, l - 1, S)
    BY <2>1, AddsWithin
  <2>3. J(l) = J(l - 1) \o here
    <3> HIDE DEF Bad, here
    <3>1. Scan!Collect(P, first, l, without) = Behind(Scan!Collect(P, first, l - 1, without), Added(P, l, without))
      BY <2>1, <2>2, CollectLast
    <3> QED BY <3>1 DEF J, here, Behind
  <2>4. M(l) = M(l - 1) \o here
    <3> HIDE DEF Bad, here
    <3>1. Scan!Collect(P, mid, l, without) = Behind(Scan!Collect(P, mid, l - 1, without), Added(P, l, without))
      BY <2>1, <2>2, CollectLast
    <3> QED BY <3>1 DEF M, here, Behind
  <2>5. J(l - 1) = J(mid - 1) \o M(l - 1)
    BY <1>2, <2>1
  <2>6. M(l - 1) \in Seq(S)
    BY <2>1, <2>2, CollectType DEF M
  <2>7. here \in Seq(S)
    <3>1. P[l] \in Seq(S) /\ << >> \in Seq(S)
      BY <2>1 DEF Adds
    <3> QED BY <3>1 DEF Added
  <2> HIDE DEF here
  <2>8. (J(mid - 1) \o M(l - 1)) \o here = J(mid - 1) \o (M(l - 1) \o here)
    <3> DEFINE a == J(mid - 1)
               b == M(l - 1)
    <3>1. a \in Seq(S) /\ b \in Seq(S) /\ here \in Seq(S)
      BY <1>4, <2>6, <2>7
    <3> HIDE DEF a, b, Bad
    <3>2. (a \o b) \o here = a \o (b \o here)
      BY <3>1, ConcatAssociative
    <3> QED BY <3>2 DEF a, b
  <2>9. J(l) = J(mid - 1) \o M(l)
    BY <2>3, <2>4, <2>5, <2>8
  <2> QED BY <1>2, <2>9, <2>a
<1> QED BY <1>5, <1>6

\* CollectSame: only what is left out between the bounds matters.
LEMMA CollectSame ==
    ASSUME NEW P, NEW V, NEW W, NEW first \in Nat, NEW last \in Int,
           \A b \in first..last : b \in V <=> b \in W
    PROVE  Scan!Collect(P, first, last, V) = Scan!Collect(P, first, last, W)
<1>1. \A i \in 1..(last - first + 1) : first + i - 1 \in first..last
  OBVIOUS
<1>2. \A i \in 1..(last - first + 1) :
          (IF first + i - 1 \in V THEN << >> ELSE P[first + i - 1])
          = (IF first + i - 1 \in W THEN << >> ELSE P[first + i - 1])
  BY <1>1
<1> QED BY <1>2 DEF Scan!Collect

\* CollectNothing: blocks that are all left out add nothing.
LEMMA CollectNothing ==
    ASSUME NEW P, NEW without, NEW first \in Nat, NEW last \in Nat,
           first..last \subseteq without
    PROVE  Scan!Collect(P, first, last, without) = << >>
<1> DEFINE Q == [b \in first..last |-> << >>]
<1>1. \A i \in 1..(last - first + 1) : first + i - 1 \in first..last
  OBVIOUS
<1>2. Scan!Collect(P, first, last, without) = Scan!Collect(Q, first, last, {})
  <2>1. \A i \in 1..(last - first + 1) :
            (IF first + i - 1 \in without THEN << >> ELSE P[first + i - 1])
            = (IF first + i - 1 \in {} THEN << >> ELSE Q[first + i - 1])
    BY <1>1
  <2> QED BY <2>1 DEF Scan!Collect
<1>3. Adds(Q, first, last, {})
  BY DEF Adds
<1> HIDE DEF Q
<1>4. Scan!Collect(Q, first, last, {}) \in Seq({})
  <2>1. last \in Int OBVIOUS
  <2> QED BY <1>3, <2>1, CollectType
<1>5. Scan!Collect(Q, first, last, {}) = << >>
  <2> DEFINE j == Scan!Collect(Q, first, last, {})
  <2>1. Len(j) = 0
    <3>1. Len(j) \in Nat /\ \A i \in 1..Len(j) : j[i] \in {}
      BY <1>4
    <3>2. SUFFICES ASSUME Len(j) # 0 PROVE FALSE
      OBVIOUS
    <3>3. 1 \in 1..Len(j)
      BY <3>1, <3>2
    <3> QED BY <3>1, <3>3
  <2> QED BY <1>4, <2>1
<1> QED BY <1>2, <1>5

Before(W, first, mid) == W \subseteq first..(mid - 1)

\* CollectGrows: a batch that was answered adds its blocks.
LEMMA CollectGrows ==
    ASSUME NEW S, NEW P, NEW first \in Nat, NEW mid \in Nat, first <= mid,
           NEW end \in Nat, mid <= end, Adds(P, first, end, S),
           NEW without, Before(without, first, mid)
    PROVE  Behind(Scan!Collect(P, first, mid - 1, without), Scan!Collect(P, mid, end, {}))
               = Scan!Collect(P, first, end, without)
<1>1. mid <= end + 1 /\ end \in Int
  OBVIOUS
<1>2. Scan!Collect(P, mid, end, {}) = Scan!Collect(P, mid, end, without)
  <2>1. \A b \in mid..end : b \in {} <=> b \in without
    BY DEF Before
  <2> QED BY <1>1, <2>1, CollectSame
<1>3. Scan!Collect(P, first, end, without) =
          Behind(Scan!Collect(P, first, mid - 1, without), Scan!Collect(P, mid, end, without))
  BY <1>1, CollectSplit
<1> QED BY <1>2, <1>3

\* CollectSkips: one that failed leaves them out.
LEMMA CollectSkips ==
    ASSUME NEW S, NEW P, NEW first \in Nat, NEW mid \in Nat, first <= mid,
           NEW end \in Nat, mid <= end, Adds(P, first, end, S),
           NEW without, Before(without, first, mid)
    PROVE  Scan!Collect(P, first, mid - 1, without) = Scan!Collect(P, first, end, without \cup mid..end)
<1> USE DEF Before
<1> DEFINE W == without \cup mid..end
<1>1. mid <= end + 1 /\ mid - 1 \in Int /\ end \in Int /\ mid - 1 <= end /\ first <= first
  OBVIOUS
<1>2. Scan!Collect(P, first, mid - 1, without) = Scan!Collect(P, first, mid - 1, W)
  <2>1. \A b \in first..(mid - 1) : b \in without <=> b \in W
    OBVIOUS
  <2> HIDE DEF W
  <2> QED BY <1>1, <2>1, CollectSame
<1>3. Scan!Collect(P, mid, end, W) = << >>
  <2>1. mid..end \subseteq W
    OBVIOUS
  <2> HIDE DEF W
  <2> QED BY <2>1, CollectNothing
<1> HIDE DEF W
<1>4. Scan!Collect(P, first, end, W) =
          Behind(Scan!Collect(P, first, mid - 1, W), Scan!Collect(P, mid, end, W))
  BY <1>1, CollectSplit
<1>5. Scan!Collect(P, first, mid - 1, W) \in Seq(S)
  <2>1. Adds(P, first, mid - 1, S)
    BY <1>1, AddsWithin
  <2> QED BY <1>1, <2>1, CollectType
<1>6. Scan!Collect(P, first, mid - 1, W) \o << >> = Scan!Collect(P, first, mid - 1, W)
  BY <1>5
<1> QED BY <1>2, <1>3, <1>4, <1>6 DEF W, Behind

-----------------------------------------------------------------------------
EventRecord ==
    [type : {"deposit", "private_transfer", "withdraw"}, commitment : {Absent} \cup Digests,
     commitments : {Absent} \cup Seq(Digests), nullifiers : {Absent} \cup Seq(Digests)]

\* An event adds commitments and nullifiers.
LEMMA EventAdds ==
    ASSUME NEW e \in EventRecord
    PROVE  Scan!EventCommitments(e) \in Seq(Digests) /\ Scan!EventNullifiers(e) \in Seq(Digests)
<1>1. /\ e.commitment # Absent => e.commitment \in Digests
      /\ e.commitments # Absent => e.commitments \in Seq(Digests)
      /\ e.nullifiers # Absent => e.nullifiers \in Seq(Digests)
  BY DEF EventRecord
<1>2. << >> \in Seq(Digests)
  OBVIOUS
<1> DEFINE one == IF e.type = "deposit" /\ e.commitment # Absent THEN <<e.commitment>> ELSE << >>
           many == IF e.type \in {"deposit", "private_transfer"} /\ e.commitments # Absent
                   THEN e.commitments ELSE << >>
<1>3. one \in Seq(Digests) /\ many \in Seq(Digests)
  BY <1>1, <1>2
<1>4. Scan!EventCommitments(e) = one \o many
  BY DEF Scan!EventCommitments
<1> HIDE DEF one, many
<1>5. one \o many \in Seq(Digests)
  BY <1>3, ConcatProperties
<1>6. Scan!EventNullifiers(e) \in Seq(Digests)
  BY <1>1, <1>2 DEF Scan!EventNullifiers
<1> QED BY <1>4, <1>5, <1>6

\* Every block adds sequences of them.
LEMMA BlocksAdd ==
    ASSUME NEW b \in DOMAIN Chain
    PROVE  Scan!BlockCommitments[b] \in Seq(Digests) /\ Scan!BlockNullifiers[b] \in Seq(Digests)
<1> DEFINE es == Chain[b]
           c == [j \in DOMAIN es |-> Scan!EventCommitments(es[j])]
           m == [j \in DOMAIN es |-> Scan!EventNullifiers(es[j])]
<1>1. es \in Seq(EventRecord)
  BY ScanAssumption, Zenon DEF EventRecord
<1>2. Scan!BlockCommitments[b] = Scan!FlattenSeq(c)
  BY DEF Scan!BlockCommitments
<1>a. Scan!BlockNullifiers[b] = Scan!FlattenSeq(m)
  BY DEF Scan!BlockNullifiers
<1> HIDE DEF es
<1>3. Len(es) \in Nat /\ DOMAIN es = 1..Len(es) /\ \A j \in 1..Len(es) : es[j] \in EventRecord
  BY <1>1
<1>4. c \in [1..Len(es) -> Seq(Digests)] /\ m \in [1..Len(es) -> Seq(Digests)]
  BY <1>3, EventAdds
<1> HIDE DEF c, m
<1> QED BY <1>2, <1>a, <1>3, <1>4, FlattenType

\* So does every range of blocks of the chain.
LEMMA RangeAdds ==
    ASSUME NEW first \in Nat, NEW last \in Int, first..last \subseteq DOMAIN Chain
    PROVE  /\ Adds(Scan!BlockCommitments, first, last, Digests)
           /\ Adds(Scan!BlockNullifiers, first, last, Digests)
BY BlocksAdd DEF Adds

\* ScanInv: the scan is within its range, what was missed is behind it, and what
\* was collected is what the blocks behind it added.
ScanInv ==
    /\ Scan!TypeOK
    /\ range[1] <= current /\ (current <= range[2] + 1 \/ current = range[1])
    /\ missed \subseteq range[1]..(current - 1)
    /\ returned => current > range[2]
    /\ commitments = Scan!Collect(Scan!BlockCommitments, range[1], current - 1, missed)
    /\ nullifiers = Scan!Collect(Scan!BlockNullifiers, range[1], current - 1, missed)

\* It holds at the start.
LEMMA ScanInvInit == Scan!Init => ScanInv
<1> SUFFICES ASSUME Scan!Init PROVE ScanInv
  OBVIOUS
<1>1. /\ range \in Ranges /\ current = range[1] /\ commitments = << >> /\ nullifiers = << >>
      /\ missed = {}
  BY DEF Scan!Init
<1>2. returned = FALSE
  BY DEF Scan!Init
<1>3. range[1] \in Nat /\ range[2] \in Nat /\ range[1] - 1 \in Int /\ range[1] - 1 < range[1]
  BY <1>1, ScanAssumption
<1>4. \A P : Scan!Collect(P, range[1], range[1] - 1, {}) = << >>
  BY <1>3, CollectEmpty
<1>5. << >> \in Seq(Digests)
  OBVIOUS
<1>6. Scan!TypeOK
  BY <1>1, <1>2, <1>3, <1>5 DEF Scan!TypeOK
<1>7. /\ commitments = Scan!Collect(Scan!BlockCommitments, range[1], current - 1, missed)
      /\ nullifiers = Scan!Collect(Scan!BlockNullifiers, range[1], current - 1, missed)
  BY <1>1, <1>4
<1>8. range[1] <= current /\ current = range[1] /\ missed \subseteq range[1]..(current - 1) /\ ~returned
  BY <1>1, <1>2, <1>3
<1> QED BY <1>6, <1>7, <1>8 DEF ScanInv

\* A request adds its batch, or its blocks are missed; returning changes nothing
\* else.
LEMMA ScanKeeps ==
    ASSUME ScanInv, Scan!Next
    PROVE  ScanInv'
<1>1. /\ range \in Ranges /\ current \in Nat /\ missed \subseteq Nat /\ returned \in BOOLEAN
      /\ range[1] \in Nat /\ range[2] \in Nat /\ BatchSize \in Nat \ {0}
      /\ range[1]..range[2] \subseteq DOMAIN Chain
  BY ScanAssumption DEF ScanInv, Scan!TypeOK
<1>2. ASSUME NEW ok \in BOOLEAN, Scan!GetEventsInRange(ok) PROVE ScanInv'
  <2> DEFINE b == Scan!BatchEnd
  <2>1. b \in Nat /\ b \in Int /\ current <= b /\ b <= range[2] /\ range[1] <= b
    BY <1>1, <1>2 DEF Scan!BatchEnd, Scan!GetEventsInRange, ScanInv
  <2>2. current' = b + 1 /\ range' = range /\ returned' = returned /\ current <= range[2]
    BY <1>2 DEF Scan!GetEventsInRange, Scan!Advance
  <2>3. ok => /\ commitments' = commitments \o Scan!Collect(Scan!BlockCommitments, current, b, {})
              /\ nullifiers' = nullifiers \o Scan!Collect(Scan!BlockNullifiers, current, b, {})
              /\ missed' = missed
    BY <1>2 DEF Scan!GetEventsInRange
  <2>4. ~ok => /\ commitments' = commitments /\ nullifiers' = nullifiers
               /\ missed' = missed \cup current..b
    BY <1>2 DEF Scan!GetEventsInRange
  <2> HIDE DEF b
  <2>5. /\ range[1]..b \subseteq DOMAIN Chain /\ current..b \subseteq DOMAIN Chain
    BY <1>1, <2>1 DEF ScanInv
  <2>6. Adds(Scan!BlockCommitments, range[1], b, Digests) /\ Adds(Scan!BlockNullifiers, range[1], b, Digests)
    BY <1>1, <2>1, <2>5, RangeAdds
  <2>7. /\ range[1] <= current /\ missed \subseteq range[1]..(current - 1)
        /\ Before(missed, range[1], current)
    BY DEF ScanInv, Before
  <2>8. \A P : Adds(P, range[1], b, Digests) =>
           /\ Behind(Scan!Collect(P, range[1], current - 1, missed), Scan!Collect(P, current, b, {}))
                  = Scan!Collect(P, range[1], b, missed)
           /\ Scan!Collect(P, range[1], current - 1, missed)
                  = Scan!Collect(P, range[1], b, missed \cup current..b)
           /\ \A W : Scan!Collect(P, range[1], b, W) \in Seq(Digests)
    <3> SUFFICES ASSUME NEW P, Adds(P, range[1], b, Digests)
                 PROVE  /\ Behind(Scan!Collect(P, range[1], current - 1, missed), Scan!Collect(P, current, b, {}))
                               = Scan!Collect(P, range[1], b, missed)
                        /\ Scan!Collect(P, range[1], current - 1, missed)
                               = Scan!Collect(P, range[1], b, missed \cup current..b)
                        /\ \A W : Scan!Collect(P, range[1], b, W) \in Seq(Digests)
      OBVIOUS
    <3>1. \A W : Scan!Collect(P, range[1], b, W) \in Seq(Digests)
      BY <1>1, <2>1, CollectType
    <3> DEFINE r == range[1]
    <3>2. r \in Nat /\ current \in Nat /\ b \in Nat /\ r <= current /\ current <= b
          /\ Before(missed, r, current) /\ Adds(P, r, b, Digests)
      BY <1>1, <2>1, <2>7
    <3> HIDE DEF r
    <3>3. Behind(Scan!Collect(P, r, current - 1, missed), Scan!Collect(P, current, b, {}))
              = Scan!Collect(P, r, b, missed)
      BY ONLY <3>2, CollectGrows
    <3>4. Scan!Collect(P, r, current - 1, missed) = Scan!Collect(P, r, b, missed \cup current..b)
      BY ONLY <3>2, CollectSkips
    <3> QED BY <3>1, <3>3, <3>4 DEF r
  <2>9. /\ commitments' = Scan!Collect(Scan!BlockCommitments, range[1], b, missed')
         /\ nullifiers' = Scan!Collect(Scan!BlockNullifiers, range[1], b, missed')
         /\ commitments' \in Seq(Digests) /\ nullifiers' \in Seq(Digests)
    BY <2>3, <2>4, <2>6, <2>8 DEF ScanInv, Behind
  <2>10. (b + 1) - 1 = b /\ missed' \subseteq range[1]..b /\ missed' \subseteq Nat /\ b + 1 \in Nat
    <3>1. (b + 1) - 1 = b /\ b + 1 \in Nat
      BY <2>1
    <3>2. range[1]..(current - 1) \subseteq range[1]..b /\ current..b \subseteq range[1]..b
      BY <1>1, <2>1, <2>7
    <3>3. missed' \subseteq range[1]..b
      BY <2>3, <2>4, <2>7, <3>2
    <3>4. range[1]..b \subseteq Nat
      BY <1>1, <2>1
    <3> QED BY <3>1, <3>3, <3>4
  <2>11. ~returned
    BY <1>1, <2>2 DEF ScanInv
  <2>12. Scan!TypeOK'
    BY <1>1, <2>2, <2>9, <2>10 DEF Scan!TypeOK
  <2>13. range[1] <= b + 1 /\ b + 1 <= range[2] + 1
    BY <1>1, <2>1
  <2> QED BY <2>2, <2>9, <2>10, <2>11, <2>12, <2>13 DEF ScanInv
<1>3. CASE Scan!Return
  <2>1. /\ current > range[2] /\ returned' = TRUE
        /\ UNCHANGED <<range, current, commitments, nullifiers, missed>>
    BY <1>3 DEF Scan!Return
  <2> QED BY <1>1, <2>1 DEF ScanInv, Scan!TypeOK
<1> QED BY <1>2, <1>3 DEF Scan!Next

\* What was collected is what the property says it is.
LEMMA ScanInvTiles == ScanInv => Scan!ScanTiles
<1> SUFFICES ASSUME ScanInv PROVE Scan!ScanTiles
  OBVIOUS
<1> DEFINE last == IF returned THEN range[2] ELSE current - 1
<1>1. /\ range \in Ranges /\ current \in Nat /\ returned \in BOOLEAN
      /\ range[1] \in Nat /\ range[2] \in Nat
      /\ range[1]..range[2] \subseteq DOMAIN Chain
  BY ScanAssumption DEF ScanInv, Scan!TypeOK
<1>2. last \in Int /\ current - 1 \in Int
      /\ (\/ last = current - 1
          \/ last < range[1] /\ current - 1 < range[1])
  <2>1. CASE ~returned
    BY <1>1, <2>1
  <2>2. CASE returned
    <3>1. /\ last = range[2] /\ current > range[2]
          /\ (current <= range[2] + 1 \/ current = range[1])
      BY <2>2 DEF ScanInv
    <3> HIDE DEF last
    <3> QED BY <1>1, <3>1
  <2> QED BY <2>1, <2>2
<1>3. range[1]..last \subseteq DOMAIN Chain
  BY <1>1 DEF ScanInv
<1> HIDE DEF last
<1>4. \A P : Scan!Collect(P, range[1], current - 1, missed) = Scan!Collect(P, range[1], last, missed)
  <2>1. CASE last = current - 1
    BY <2>1
  <2>2. CASE last < range[1] /\ current - 1 < range[1]
    BY <1>1, <1>2, <2>2, CollectEmpty
  <2> QED BY <1>2, <2>1, <2>2
<1>5. /\ commitments = Scan!Collect(Scan!BlockCommitments, range[1], last, missed)
      /\ nullifiers = Scan!Collect(Scan!BlockNullifiers, range[1], last, missed)
  BY <1>4 DEF ScanInv
<1> QED BY <1>5 DEF Scan!ScanTiles, last
\* TypesInv: the invariant of the services, with the types of their other state.
TypesInv ==
    /\ ServicesInv /\ shown \in Link /\ ContextInv /\ ScanInv
    /\ service \in Services /\ restarts \in 0..MaxRestarts

\* TypesAlways: every reachable state satisfies it.
LEMMA TypesAlways == Spec => []TypesInv
<1>1. Init => TypesInv
  <2> SUFFICES ASSUME Init PROVE TypesInv
    OBVIOUS
  <2>1. ServicesInv BY ServicesInvInit
  <2>2. shown \in Link /\ restarts \in 0..MaxRestarts /\ service \in Services
    BY ContextAssumption DEF Init, Connection!Init, Connection!Off, Link
  <2>3. ContextInv
    <3>1. /\ phase = "keys" /\ address \in BOOLEAN /\ unlocked \in BOOLEAN
      BY Zenon DEF Init, Context!Init
    <3>2. /\ refresh = [c \in Context!Callers |-> None] /\ balances = None /\ saved = None
          /\ private \in PrivateBalances /\ changes = 0
      BY DEF Init, Context!Init
    <3> QED BY <3>1, <3>2, ContextAssumption DEF ContextInv, Context!TypeOK
  <2>4. ScanInv
    <3>1. Scan!Init
      BY DEF Init
    <3> QED BY <3>1, ScanInvInit
  <2> QED BY <2>1, <2>2, <2>3, <2>4 DEF TypesInv
<1>2. TypesInv /\ [Next]_vars => TypesInv'
  <2> SUFFICES ASSUME TypesInv, [Next]_vars PROVE TypesInv'
    OBVIOUS
  <2>1. ServicesInv' BY ServicesInvNext DEF TypesInv
  <2>2. UNCHANGED contextVars => ContextInv'
    BY DEF TypesInv, ContextInv, Context!TypeOK, contextVars
  <2>3. UNCHANGED scanVars => ScanInv'
    BY DEF TypesInv, ScanInv, Scan!TypeOK, scanVars
  <2>4. UNCHANGED connectionVars => shown' \in Link
    BY DEF TypesInv, connectionVars
  <2>5. Connection!Next => shown' \in Link
    <3>1. state \in Link /\ shown \in Link
      BY DEF TypesInv, ServicesInv, ConnectionInv, Link
    <3> QED
      BY <3>1 DEF Connection!Next, Connection!Mount, Connection!Render, Connection!Connected,
                  Connection!HealthCheck, Connection!Unmount
  <2>6. ASSUME Restart
        PROVE  /\ shown' \in Link /\ ContextInv' /\ restarts' \in 0..MaxRestarts
    <3>1. shown' \in Link BY <2>6 DEF Restart, Connection!Off, Link
    <3>2. restarts' \in 0..MaxRestarts BY <2>6, ContextAssumption DEF Restart, TypesInv
    <3>3. /\ phase' = "keys" /\ address' \in BOOLEAN /\ unlocked' \in BOOLEAN
      BY <2>6, Zenon DEF Restart
    <3>4. /\ refresh' = [c \in Context!Callers |-> None] /\ balances' = None
          /\ UNCHANGED <<saved, private, changes>>
      BY <2>6 DEF Restart
    <3>5. ContextInv'
      BY <3>3, <3>4 DEF TypesInv, ContextInv, Context!TypeOK
    <3> QED BY <3>1, <3>2, <3>5
  <2>7. CASE service = "session" /\ SessionNext /\ UNCHANGED <<service, pinVars, scanVars>>
    <3>1. UNCHANGED scanVars /\ service' = service
      BY <2>7
    <3>2. shown' \in Link /\ ContextInv' /\ restarts' \in 0..MaxRestarts
      <4>1. CASE Connection!Next /\ UNCHANGED <<restarts, contextVars>>
        BY <2>2, <2>5, <4>1 DEF TypesInv
      <4>2. CASE Context!Next /\ UNCHANGED <<restarts, connectionVars>>
        BY <2>4, <4>2, ContextKeeps DEF TypesInv
      <4> QED BY <2>6, <2>7, <4>1, <4>2 DEF SessionNext
    <3> QED BY <2>1, <2>3, <3>1, <3>2 DEF TypesInv
  <2>8. CASE service = "pin" /\ Pin!Next /\ UNCHANGED <<service, sessionVars, scanVars>>
    BY <2>1, <2>2, <2>3, <2>4, <2>8 DEF TypesInv, sessionVars
  <2>9. CASE service = "scan" /\ Scan!Next /\ UNCHANGED <<service, sessionVars, pinVars>>
    BY <2>1, <2>2, <2>4, <2>9, ScanKeeps DEF TypesInv, sessionVars
  <2>10. CASE UNCHANGED vars
    BY <2>1, <2>2, <2>3, <2>4, <2>10 DEF TypesInv, vars, sessionVars
  <2> QED BY <2>7, <2>8, <2>9, <2>10 DEF Next
<1> QED BY <1>1, <1>2, PTL DEF Spec

\* TypeCorrect: the services keep their types, through every restart and every
\* overlap of refreshes; a balance shown or saved is always one that was read.
THEOREM TypeCorrect == Spec => []TypeOK
<1>1. TypesInv => TypeOK
  <2> SUFFICES ASSUME TypesInv PROVE TypeOK
    OBVIOUS
  <2>1. Pin!TypeOK /\ Context!TypeOK /\ Scan!TypeOK
    BY DEF TypesInv, ServicesInv, PinInv, ContextInv, ScanInv
  <2>2. Connection!TypeOK
    BY DEF TypesInv, ServicesInv, ConnectionInv, Link, Connection!TypeOK
  <2> QED BY <2>1, <2>2 DEF TypeOK, TypesInv
<1> QED BY <1>1, TypesAlways, PTL

\* ScanTilesAlways: for every chain, range and batch size, and however requests fail,
\* scanChain has collected exactly what the blocks behind it published, in order
\* and each once, but for the blocks of the requests that failed.
THEOREM ScanTilesAlways == Spec => []ScanTiles
<1>1. TypesInv => ScanTiles
  BY ScanInvTiles DEF TypesInv, ScanTiles
<1> QED BY <1>1, TypesAlways, PTL
=============================================================================
