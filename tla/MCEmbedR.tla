------------------------------ MODULE MCEmbedR ------------------------------
(* Model values for TLC: Ctrl-C, one ordinary signal and one that cannot be *)
(* changed.                                                                *)
EXTENDS EmbedR
CONSTANTS SIGPIPE, SIGKILL
=============================================================================
