--------------------------- MODULE MCServeRestart ---------------------------
(* Model values for TLC: a call and those that follow it.                   *)
EXTENDS ServeRestart
CONSTANTS first, second, third
=============================================================================
