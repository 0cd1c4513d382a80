---------------------------- MODULE MCNoteWallet ----------------------------
(***************************************************************************)
(* NoteWallet for TLC: two transfers that compete for two or three notes.  *)
(***************************************************************************)
EXTENDS NoteWallet

CONSTANTS r1, r2

Quiet == [retractions |-> 0, deposits |-> TRUE, restart |-> FALSE, restore |-> FALSE, refuse |-> FALSE]
MCRefused == {[Quiet EXCEPT !.deposits = FALSE, !.refuse = TRUE]}
MCEnvironments ==
    {[Quiet EXCEPT !.restart = TRUE],
     [Quiet EXCEPT !.deposits = FALSE, !.restart = TRUE, !.retractions = 2],
     [Quiet EXCEPT !.deposits = FALSE, !.refuse = TRUE, !.retractions = 1],
     [Quiet EXCEPT !.deposits = FALSE, !.restart = TRUE, !.restore = TRUE, !.refuse = TRUE]}

MCReceivedAmount == (r1 :> 3) @@ (r2 :> 2)
=============================================================================
