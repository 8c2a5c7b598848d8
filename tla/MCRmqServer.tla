---------------------------- MODULE MCRmqServer -----------------------------
(* Model values for TLC: a client with a timeout and one without.            *)
EXTENDS RmqServer
CONSTANTS timed, forever
=============================================================================
