------------------------------- MODULE MCSync -------------------------------
(* Sync on small fleets. *)
EXTENDS Sync, TLC

CONSTANTS k1, k2, d1, d2

Versions0 == 0..MaxEdits

InStep  == [d \in Devices |-> 0]
Ahead   == [d \in Devices |-> IF d = d2 THEN 1 ELSE 0]

Symmetry == Permutations(Calls)
=============================================================================
