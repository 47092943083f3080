-------------------------- MODULE MCCooperativeWait --------------------------
(* Model values for the runs of CooperativeWait.                           *)
EXTENDS CooperativeWait

CONSTANTS t1, t2, t3
=============================================================================
