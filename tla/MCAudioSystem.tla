---------------------------- MODULE MCAudioSystem ----------------------------
(* Model values for the runs of AudioSystem.                               *)
EXTENDS AudioSystem, TLC

CONSTANTS t1, t2, none

Alike == Permutations({t1, t2})
=============================================================================
