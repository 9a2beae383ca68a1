------------------------------- MODULE LwwMap -------------------------------
(***************************************************************************)
(* What the relay promises about contents, with no word about requests,    *)
(* numbers or pages: a map in which a record, once written, is only ever   *)
(* replaced by a version that is not older, and never disappears, until    *)
(* somebody wipes the whole map.                                           *)
(***************************************************************************)
EXTENDS Integers

VARIABLE map        \* a function from some keys to [stamp, data]

Init == map = [k \in {} |-> k]

(* Any number of records are written at once.                              *)
Write ==
    /\ DOMAIN map \subseteq DOMAIN map'
    /\ \A k \in DOMAIN map :
           map'[k] # map[k] => map'[k].stamp >= map[k].stamp

Wipe == map' = [k \in {} |-> k]

Next == Write \/ Wipe

Spec == Init /\ [][Next]_map
=============================================================================
