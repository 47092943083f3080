----------------------------- MODULE MCHostWait -----------------------------
(* Model values for the run of HostWait.                                   *)
EXTENDS HostWait

CONSTANTS t1, t2, t3
=============================================================================
