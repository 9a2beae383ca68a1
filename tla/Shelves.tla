------------------------------ MODULE Shelves -------------------------------
(***************************************************************************)
(* What the stock of one product promises, with no word about layers,      *)
(* receipts or purchase orders: units are on a shelf or held by a sales    *)
(* order, and writing or voiding an order moves them between the two       *)
(* without making or losing one.  Only at a shop does writing an order buy *)
(* what the shelf is short of.                                             *)
(***************************************************************************)
EXTENDS Integers

CONSTANTS Locations, Shops, Sales

VARIABLES
    onHand,         \* [Locations -> Nat]
    held            \* [Sales -> [Locations -> Nat]]

Init ==
    /\ onHand = [l \in Locations |-> 0]
    /\ held = [s \in Sales |-> [l \in Locations |-> 0]]

Arrive ==
    /\ \A l \in Locations : onHand'[l] >= onHand[l]
    /\ UNCHANGED held

Leave ==
    /\ \A l \in Locations : onHand'[l] \in 0..onHand[l]
    /\ UNCHANGED held

(* Units are driven from one shelf to another.                             *)
Carry ==
    /\ \E from, to \in Locations : \E n \in 1..onHand[from] :
           /\ from # to
           /\ onHand' = [onHand EXCEPT ![from] = @ - n, ![to] = @ + n]
    /\ UNCHANGED held

(* An order gives back what it holds and takes what it now sells.          *)
Rewrite(s) ==
    /\ \A r \in Sales \ {s} : held'[r] = held[r]
    /\ \A l \in Locations :
           LET bought == onHand'[l] + held'[s][l] - onHand[l] - held[s][l]
           IN  /\ onHand'[l] >= 0
               /\ held'[s][l] >= 0
               /\ bought >= 0
               /\ l \notin Shops => bought = 0

Next == Arrive \/ Leave \/ Carry \/ \E s \in Sales : Rewrite(s)

Spec == Init /\ [][Next]_<<onHand, held>>
=============================================================================
