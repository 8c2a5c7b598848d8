---------------------------- MODULE MCWebServer -----------------------------
(* Model values for TLC: two servers in this process.                       *)
EXTENDS WebServer
CONSTANTS first, second
=============================================================================
