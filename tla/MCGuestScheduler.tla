-------------------------- MODULE MCGuestScheduler --------------------------
(* GuestScheduler.tla for TLC.  Each .cfg gives the threads their roles, so  *)
(* that the combinations it is about stay within reach.                      *)
EXTENDS GuestScheduler

\* Nothing tells the CPUs apart: threads start with any home.
CpuSymmetry == Permutations(Cpus)
=============================================================================
