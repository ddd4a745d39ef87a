---------------------------- MODULE MCEmailBlast ----------------------------
(* Finite instances of EmailBlast for TLC.                                 *)
EXTENDS EmailBlast

CONSTANTS c1, c2
=============================================================================
