---------------------------- MODULE MCOpenRelay ----------------------------
(* OpenRelay on a small instance. *)
EXTENDS OpenRelay, TLC

CONSTANTS k1, k2, d1, d2, x, y

Edit(k, s, v) == [key |-> k, stamp |-> s, data |-> v]

(* A one-row push, one from a clock that runs far ahead, and a two-row     *)
(* push whose rows win and lose independently.                             *)
SmallBatches ==
    { <<Edit(k1, 1, x)>>, <<Edit(k2, 9, y)>>,
      <<Edit(k1, 2, y), Edit(k2, 1, x)>> }

Symmetry == Permutations(Calls)
=============================================================================
