---------------------------- MODULE MCCommandRun ----------------------------
(* CommandRun with one API user and one poller as model values for TLC.    *)
EXTENDS CommandRun

CONSTANTS u1, p1
=============================================================================
