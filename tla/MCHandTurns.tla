----------------------------- MODULE MCHandTurns -----------------------------
(* The instances of MCHand with the seats that owe an action. *)
EXTENDS MCHand, HandTurns
=============================================================================
