-------------------------- MODULE MCPrivacyPallet ---------------------------
(***************************************************************************)
(* PrivacyPallet for TLC: two signers, one of them too poor to shield much.*)
(***************************************************************************)
EXTENDS PrivacyPallet, TLC

CONSTANTS a1, a2, n1

MCAccounts == {a1, a2}
MCNullifiers == {EmptyBytes, n1}
MCGenesis == (a1 :> 7) @@ (a2 :> 2)
=============================================================================
