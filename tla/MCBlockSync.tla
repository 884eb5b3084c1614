---------------------------- MODULE MCBlockSync ----------------------------
(* BlockSync for TLC: the heights at which bonds mature.                     *)
EXTENDS BlockSync

MCMatures == {1, 2}
=============================================================================
