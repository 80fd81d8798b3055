---------------------------- MODULE MCTurnRuntime ----------------------------
(* Two connections to one conversation, and the two turns they may start in it. *)
EXTENDS TurnRuntime

Connections == 1..2
Turns == 1..2
===============================================================================
