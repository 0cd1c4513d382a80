-------------------------- MODULE MCClientServices --------------------------
(***************************************************************************)
(* ClientServices for TLC: a restart, two private balances; two PINs and   *)
(* three calls of two callers; seven blocks in batches of three.           *)
(***************************************************************************)
EXTENDS ClientServices

Event(type, commitment, many, nulls) ==
    [type |-> type, commitment |-> commitment, commitments |-> many, nullifiers |-> nulls]

MCChain ==
    <<<<Event("deposit", 1, Absent, Absent)>>,
      <<Event("private_transfer", Absent, <<2, 3>>, <<91>>), Event("withdraw", Absent, Absent, <<92>>)>>,
      << >>,
      <<Event("deposit", Absent, <<4>>, Absent), Event("deposit", 5, Absent, Absent)>>,
      <<Event("withdraw", Absent, Absent, <<93>>)>>,
      <<Event("private_transfer", Absent, <<6>>, <<94, 95>>)>>,
      <<Event("deposit", 7, Absent, Absent)>>>>

MCDigests == (1..7) \cup (91..95)

MCRanges == (1..7) \X (1..7)
=============================================================================
