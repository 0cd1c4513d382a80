---------------------------- MODULE ShieldedPool ----------------------------
(***************************************************************************)
(* What a shielded pool promises, whatever its calls look like: funds come *)
(* in, a spend publishes a tag that was never published before, and funds  *)
(* leave only together with such a tag and only as far as the pool holds   *)
(* them.                                                                   *)
(***************************************************************************)
EXTENDS Integers

CONSTANTS Tags,    \* what a spend publishes: the hashes of nullifiers
          Amounts  \* the amounts moved in one step

VARIABLES pool,    \* funds held
          spent    \* tags published

Init == pool = 0 /\ spent = {}

Deposit(amount) == pool' = pool + amount /\ UNCHANGED spent

Publish(tag) == tag \notin spent /\ spent' = spent \cup {tag}

Spend(tag) == Publish(tag) /\ UNCHANGED pool

Withdraw(tag, amount) ==
    /\ Publish(tag)
    /\ amount <= pool
    /\ pool' = pool - amount

Next ==
    \/ \E amount \in Amounts : Deposit(amount)
    \/ \E tag \in Tags : Spend(tag)
    \/ \E tag \in Tags, amount \in Amounts : Withdraw(tag, amount)

Spec == Init /\ [][Next]_<<pool, spent>>
=============================================================================
