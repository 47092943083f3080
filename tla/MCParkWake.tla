----------------------------- MODULE MCParkWake -----------------------------
(* ParkWake.tla for TLC. *)
EXTENDS ParkWake, TLC

SignallerSymmetry == Permutations(Signallers)
=============================================================================
