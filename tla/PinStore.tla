------------------------------ MODULE PinStore ------------------------------
(***************************************************************************)
(* The PIN of the wallet (client/security/auth.ts): its hash, its salt and *)
(* the settings flag, written by setupPin and removePin one await at a     *)
(* time, and read by verifyPin two at once.  Nothing keeps these calls     *)
(* apart: the settings screen has no busy flag, and the PIN pad calls      *)
(* again on every completed entry.  The flag is one field of the settings, *)
(* which every saveSettings reads, and writes back after an await.  The    *)
(* app may be closed at any await, and any read or write be refused.       *)
(*                                                                         *)
(* A verification that succeeds also stores its time, which only           *)
(* shouldLock reads; WalletContext takes shouldLock's answer as an input.  *)
(***************************************************************************)
EXTENDS Integers

CONSTANTS
    Callers,     \* BOUND: calls under way at once
    Pins,        \* PINs of four to eight digits; any other is refused before a write
    MaxCalls,    \* BOUND: calls made
    None, Broken

VARIABLES
    hash,      \* SECURE_KEYS.PIN: the PIN and the salt it was hashed with, or None
    salt,      \* SECURE_KEYS.PIN_SALT, or None
    enabled,   \* settings.pinEnabled
    op,        \* each caller's setup, removal or save of another setting, or None
    check,     \* each caller's verification, or None
    made,      \* calls made so far; a setup draws a salt of its own
    settled,   \* history: what the last setups and removals that overlapped, or the
               \* last one, set the hash to; Broken for one that was cut short
    flagged,   \* history: no settings write in conflict with them
    stale      \* history: the PINs replaced or removed by a call that returned

Init ==
    /\ hash = None /\ salt = None /\ enabled = FALSE
    /\ op = [c \in Callers |-> None] /\ check = [c \in Callers |-> None]
    /\ made = 0 /\ settled = {None} /\ flagged = TRUE /\ stale = {}

\* hashPin, a 32-bit hash of the PIN and the salt, without its collisions.
HashPin(pin, s) == [pin |-> pin, salt |-> s]

Idle(c) == op[c] = None /\ check[c] = None

\* The calls under way that write the settings, and those that write the PIN.
Saving == {c \in Callers : op[c] # None}
Writing == {c \in Saving : op[c].kind # "save"}

\* Mutant: a removal only clears the flag.
TargetKept(call) == IF call.kind = "setup" THEN HashPin(call.pin, call.salt) ELSE hash

\* What a setup or a removal leaves in the store, when nothing disturbs it.
Target(call) == IF call.kind = "setup" THEN HashPin(call.pin, call.salt) ELSE None
SaltOf(h) == IF h = None THEN None ELSE h.salt

-----------------------------------------------------------------------------
(***************************************************************************)
(* setupPin, removePin, and a saveSettings of anything else.  The history: *)
(* `sole` until a call meets another that writes the settings and one of   *)
(* them the flag; `replaces`, the PINs that no setup was setting when the  *)
(* call began nor since.                                                   *)
(***************************************************************************)
Conflict(kind, d) == kind # "save" \/ op[d].kind # "save"

Begin(c, kind, pin) ==
    /\ made < MaxCalls /\ made' = made + 1
    /\ op' = [d \in Callers |->
                IF d = c
                THEN [kind |-> kind, pin |-> pin, salt |-> IF kind = "setup" THEN made' ELSE 0,
                      step |-> IF kind = "save" THEN "read" ELSE "hash", read |-> FALSE,
                      sole |-> \A e \in Saving : ~Conflict(kind, e),
                      replaces |-> {p \in Pins : /\ kind # "save" /\ p # pin
                                                 /\ \A e \in Saving : op[e].pin # p}]
                ELSE IF d \in Saving
                THEN [op[d] EXCEPT !.sole = @ /\ ~Conflict(kind, d),
                                   !.replaces = @ \ {pin}]
                ELSE None]
    /\ check' = [d \in Callers |->
                   IF d = c \/ check[d] = None THEN None
                   ELSE [check[d] EXCEPT !.quiet = @ /\ kind = "save",
                                         !.stale = @ /\ check[d].pin # pin]]
    /\ settled' = IF kind # "save" /\ Writing = {} THEN {} ELSE settled
    /\ stale' = stale \ {pin}
    /\ UNCHANGED <<hash, salt, enabled, flagged>>

StartSetup(c, pin) == Idle(c) /\ Begin(c, "setup", pin)

StartRemove(c) == Idle(c) /\ Begin(c, "remove", None)

StartSave(c) == Idle(c) /\ Begin(c, "save", None)

At(c, step) == op[c] # None /\ op[c].step = step

WriteHash(c) ==
    /\ At(c, "hash")
    /\ hash' = Target(op[c])
    /\ op' = [op EXCEPT ![c].step = "salt"]
    /\ UNCHANGED <<salt, enabled, check, made, settled, flagged, stale>>

\* Mutant: a salt that is there is kept.
WriteSaltOnce(c) ==
    /\ At(c, "salt")
    /\ salt' = IF op[c].kind = "setup" /\ salt # None THEN salt ELSE SaltOf(Target(op[c]))
    /\ op' = [op EXCEPT ![c].step = "read"]
    /\ UNCHANGED <<hash, enabled, check, made, settled, flagged, stale>>

WriteSalt(c) ==
    /\ At(c, "salt")
    /\ salt' = SaltOf(Target(op[c]))
    /\ op' = [op EXCEPT ![c].step = "read"]
    /\ UNCHANGED <<hash, enabled, check, made, settled, flagged, stale>>

\* getSettings of saveSettings: a read that is refused yields the defaults.
ReadSettings(c, refused) ==
    /\ At(c, "read")
    /\ op' = [op EXCEPT ![c].step = "write", ![c].read = enabled /\ ~refused,
                        ![c].sole = @ /\ (refused => op[c].kind # "save")]
    /\ UNCHANGED <<hash, salt, enabled, check, made, settled, flagged, stale>>

\* setItem of saveSettings, after which the call returns.
WriteSettings(c) ==
    /\ At(c, "write")
    /\ enabled' = CASE op[c].kind = "setup" -> TRUE
                    [] op[c].kind = "remove" -> FALSE
                    [] op[c].kind = "save" -> op[c].read
    /\ settled' = settled \cup {Target(op[d]) : d \in Writing \cap {c}}
    /\ flagged' = (op[c].sole /\ (op[c].kind = "save" => flagged))
    /\ stale' = stale \cup op[c].replaces
    /\ op' = [op EXCEPT ![c] = None]
    /\ UNCHANGED <<hash, salt, check, made>>

\* The calls of C end short of their return.
CutShort(C) ==
    /\ op' = [c \in Callers |-> IF c \in C THEN None ELSE op[c]]
    /\ check' = [c \in Callers |-> IF c \in C THEN None ELSE check[c]]
    /\ settled' = IF Writing \cap C = {} THEN settled ELSE settled \cup {Broken}
    /\ flagged' = (flagged /\ Writing \cap C = {})
    /\ UNCHANGED <<hash, salt, enabled, made, stale>>

\* The store refuses a write of a call, or a read of a verification; and the app is closed.
Refuse(c) == ~Idle(c) /\ (op[c] # None => op[c].step # "read") /\ CutShort({c})

Close == (\E c \in Callers : ~Idle(c)) /\ CutShort(Callers)

-----------------------------------------------------------------------------
(***************************************************************************)
(* verifyPin: two reads in any order, then the comparison.  changePin is a *)
(* verification after which `new` is set up.  The history: `quiet` until a *)
(* setup or removal overlaps it; `stale`, the PIN was when it began and no *)
(* setup of it has begun since.                                            *)
(***************************************************************************)
StartVerify(c, pin, new) ==
    /\ Idle(c) /\ made < MaxCalls /\ made' = made + 1
    /\ check' = [check EXCEPT ![c] =
                   [pin |-> pin, new |-> new, left |-> {"hash", "salt"}, hash |-> None,
                    salt |-> None, quiet |-> Writing = {}, stale |-> pin \in stale]]
    /\ UNCHANGED <<hash, salt, enabled, op, settled, flagged, stale>>

Read(c, what) ==
    /\ check[c] # None /\ what \in check[c].left
    /\ check' = [check EXCEPT ![c].left = @ \ {what},
                              ![c].hash = IF what = "hash" THEN hash ELSE @,
                              ![c].salt = IF what = "salt" THEN salt ELSE @]
    /\ UNCHANGED <<hash, salt, enabled, op, made, settled, flagged, stale>>

\* Mutant: a store without a PIN accepts any.
AcceptsUnset(v) == v.hash = None \/ HashPin(v.pin, v.salt) = v.hash

Accepts(v) == v.hash # None /\ v.salt # None /\ HashPin(v.pin, v.salt) = v.hash

Answered(c) == check[c] # None /\ check[c].left = {}

Answer(c) ==
    /\ Answered(c)
    /\ check[c].new = None \/ ~Accepts(check[c])
    /\ check' = [check EXCEPT ![c] = None]
    /\ UNCHANGED <<hash, salt, enabled, op, made, settled, flagged, stale>>

AnswerChange(c) ==
    /\ Answered(c)
    /\ check[c].new # None /\ Accepts(check[c])
    /\ Begin(c, "setup", check[c].new)

CallNext(c) ==
    \/ \E pin \in Pins : StartSetup(c, pin)
    \/ StartRemove(c)
    \/ StartSave(c)
    \/ WriteHash(c)
    \/ WriteSalt(c)
    \/ \E refused \in BOOLEAN : ReadSettings(c, refused)
    \/ WriteSettings(c)
    \/ Refuse(c)
    \/ \E pin \in Pins, new \in Pins \cup {None} : StartVerify(c, pin, new)
    \/ \E what \in {"hash", "salt"} : Read(c, what)
    \/ Answer(c)
    \/ AnswerChange(c)

Next == (\E c \in Callers : CallNext(c)) \/ Close

-----------------------------------------------------------------------------
Salts == 1..MaxCalls
Hashes == [pin : Pins, salt : Salts]
Setups ==
    [kind : {"setup"}, pin : Pins, salt : Salts, step : {"hash", "salt", "read", "write"},
     read : BOOLEAN, sole : BOOLEAN, replaces : SUBSET Pins]
Removals ==
    [kind : {"remove"}, pin : {None}, salt : {0}, step : {"hash", "salt", "read", "write"},
     read : BOOLEAN, sole : BOOLEAN, replaces : SUBSET Pins]
Saves ==
    [kind : {"save"}, pin : {None}, salt : {0}, step : {"read", "write"},
     read : BOOLEAN, sole : BOOLEAN, replaces : {{}}]
Calls == Setups \cup Removals \cup Saves
Checks ==
    [pin : Pins, new : Pins \cup {None}, left : SUBSET {"hash", "salt"},
     hash : Hashes \cup {None}, salt : Salts \cup {None}, quiet : BOOLEAN, stale : BOOLEAN]

TypeOK ==
    /\ hash \in Hashes \cup {None} /\ salt \in Salts \cup {None}
    /\ enabled \in BOOLEAN /\ flagged \in BOOLEAN /\ made \in 0..MaxCalls
    /\ settled \in SUBSET (Hashes \cup {None, Broken}) /\ stale \in SUBSET Pins
    /\ op \in [Callers -> Calls \cup {None}] /\ check \in [Callers -> Checks \cup {None}]

\* PinConsistent: once the setups and removals that overlapped have ended, and all
\* of them set the store to the same thing (as a single one does, whatever saves
\* of other settings overlap it, and whatever a call cut short left behind), the
\* hash and the salt are of it; and so is the flag, unless another write of the
\* settings overlapped it or was built on a refused read.
PinConsistent ==
    \A h \in Hashes \cup {None} :
        Writing = {} /\ settled = {h} =>
            /\ hash = h /\ salt = SaltOf(h)
            /\ flagged => (enabled <=> h # None)

\* VerifyAgrees: a verification that no setup and no removal overlaps, after one
\* that ran alone and returned, accepts exactly the PIN it set (but for collisions
\* of hashPin), and none after a removal.
VerifyAgrees ==
    \A c \in Callers, h \in Hashes \cup {None} :
        Answered(c) /\ check[c].quiet /\ settled = {h} =>
            (Accepts(check[c]) <=> h # None /\ h.pin = check[c].pin)

\* StalePinRejected: whatever overlaps, is refused or is closed, a verification
\* rejects a PIN that a setup or removal which returned before replaced, when
\* every setup of that PIN had ended before it began.
StalePinRejected ==
    \A c \in Callers : Answered(c) /\ check[c].stale => ~Accepts(check[c])

\* PinUpdated: of the setups that overlapped and all returned ("PIN has been
\* updated"), one is in force.
PinUpdated ==
    Writing = {} /\ settled # {} /\ settled \subseteq Hashes =>
        \E h \in settled : hash = h /\ salt = h.salt
=============================================================================
