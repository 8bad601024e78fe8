---------------------------- MODULE MCLoopEngine ----------------------------
(* A window of one round, so that it is left behind after two.             *)
EXTENDS LoopEngine, TLC

CONSTANTS read, write, typo

Calls    == {read, write, typo}
Unknown  == {typo}
Costs    == {0, 2}
=============================================================================
