---------------------------- MODULE MCShipClaims ----------------------------
(* ShipClaims with two benches that can be exchanged.                      *)
EXTENDS ShipClaims, TLC

CONSTANTS b1, b2

MCSymmetry == Permutations(Stations)
=============================================================================
