---- MODULE MCSyncApply ----
(* Three laptops: one with data of its own that finds the relay empty and  *)
(* publishes, or comes second to it; one that is set up and linked; one    *)
(* that joins with nothing but its placeholders.                           *)
EXTENDS SyncApply, TLC
CONSTANTS l1, l2, l3, x1, x2
SeedsOfNewcomers == [l \in {l1, l3} |-> IF l = l1 THEN 2 ELSE 4]
SeedOfOne == [l \in {l1} |-> 2]
NoSeed == <<>>
Swap == Permutations(Staffed)
====
