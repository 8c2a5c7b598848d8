------------------------------- MODULE MCRepl --------------------------------
(* Model values for TLC: two expressions, three addresses and prompts of     *)
(* lengths at the boundaries of the buffer.                                 *)
EXTENDS Repl, TLC
CONSTANTS x, y, b1, b2, b3
BlockSymmetry == Permutations(Block)
=============================================================================
