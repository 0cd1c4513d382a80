---------------------------- MODULE AtomicStore -----------------------------
(***************************************************************************)
(* What a key-value database promises its callers: every change of a key   *)
(* is one update applied to the value the key has at that moment.  Once a  *)
(* read has failed, an update may also be applied to the initial value.    *)
(***************************************************************************)
CONSTANTS Keys,          \* the keys
          Updates,       \* the updates callers may ask for, by key
          Initial,       \* the value of each key before the first update
          Apply(_, _)    \* the value an update makes of a value

VARIABLES db, readFailed

Init == db = Initial /\ readFailed = FALSE

Update(key, u) ==
    /\ db' = [db EXCEPT ![key] = Apply(u, db[key])]
    /\ UNCHANGED readFailed

FailRead == readFailed' = TRUE /\ UNCHANGED db

StartOver(key, u) ==
    /\ readFailed
    /\ db' = [db EXCEPT ![key] = Apply(u, Initial[key])]
    /\ UNCHANGED readFailed

Next ==
    \/ FailRead
    \/ \E key \in Keys : \E u \in Updates[key] : Update(key, u) \/ StartOver(key, u)

Spec == Init /\ [][Next]_<<db, readFailed>>
=============================================================================
