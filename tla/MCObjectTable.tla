---------------------------- MODULE MCObjectTable ----------------------------
(* Model values for the run of ObjectTable.                                *)
EXTENDS ObjectTable, TLC

CONSTANTS t1, t2, h1, h2, n1, none

Alike == {f @@ g : f \in Permutations({t1, t2}), g \in Permutations({h1, h2})}
=============================================================================
