------------------------------ MODULE MCStock ------------------------------
(***************************************************************************)
(* Stock with two shelves, one of them a shop, one purchase order and two  *)
(* sales orders.                                                           *)
(***************************************************************************)
EXTENDS Stock, TLC

CONSTANTS RM, KY, po1, so1, so2

Line(l, n, source) == [location |-> l, ask |-> n, source |-> source]

(* Two lines on one shelf that may be short of them; more than the shop    *)
(* may hold; units of the purchase order by name, then any.                *)
MCCarts ==
    { <<Line(RM, 1, NoPo), Line(RM, 1, NoPo)>>,
      <<Line(KY, 2, NoPo)>>,
      <<Line(RM, 1, po1), Line(KY, 1, NoPo)>> }

MCSymmetry == Permutations(Sales)
=============================================================================
