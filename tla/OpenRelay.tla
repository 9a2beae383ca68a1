----------------------------- MODULE OpenRelay -----------------------------
(***************************************************************************)
(* The relay against any callers at all: laptops with arbitrary clocks     *)
(* that push and pull whatever they like, whenever they like, and hang up  *)
(* at any point.  What holds here holds whatever the app does.             *)
(***************************************************************************)
EXTENDS Relay

CONSTANTS
    Batches,    \* what a caller may push
    MaxSeq      \* bound: no new push once the counter is there

ASSUME BatchesAssumption == \A b \in Batches : IsBatch(b)

Init == RelayInit

(* A caller's cursor is a number some answer gave it earlier.              *)
Request(c, d) ==
    \/ /\ seqValue < MaxSeq
       /\ \E batch \in Batches : SendPush(c, d, batch)
    \/ \E since \in 0..seqValue : SendPull(c, d, since)

Next ==
    \/ \E c \in Calls, d \in Devices : Request(c, d)
    \/ \E c \in Calls : Serve(c) \/ Hangup(c)
    \/ Reset
    \/ Tick

Spec == Init /\ [][Next]_relayVars

----------------------------------------------------------------------------
(* No two records of the log share a delivery number, the numbers of a     *)
(* push between its two transactions belong to nobody else, and no number  *)
(* is above the counter -- as long as nobody wipes the log, which starts   *)
(* the numbers again under the pushes in flight (allocateSeq: "must never  *)
(* be handed overlapping ranges").                                         *)
Reserved(c) ==
    IF calls[c].phase = "pushReserved"
    THEN {NumberOf(calls[c], i) : i \in DOMAIN calls[c].batch}
    ELSE {}

StoredOnce ==
    \A k1, k2 \in DOMAIN syncRows :
        syncRows[k1].seq = syncRows[k2].seq => k1 = k2

ReservedApart ==
    \A c \in Calls :
        /\ \A k \in DOMAIN syncRows : syncRows[k].seq \notin Reserved(c)
        /\ \A e \in Calls \ {c} : Reserved(c) \cap Reserved(e) = {}

NumbersWithinCounter ==
    /\ \A k \in DOMAIN syncRows : syncRows[k].seq \in 1..seqValue
    /\ \A c \in Calls : Reserved(c) \subseteq 1..seqValue

NumbersNeverShared ==
    wipes = 0 => StoredOnce /\ ReservedApart /\ NumbersWithinCounter

(* A push that was answered "ok" is held: the relay stores, for every row  *)
(* of it, that version or one that is not older.  This is what lets the    *)
(* laptop drop the row from its outbox.                                    *)
AnsweredIsHeld == wipes = 0 => PushesHeld

(* A clock that runs years ahead cannot win for years: nothing is stored,  *)
(* or about to be, under a stamp further ahead of the relay's clock than   *)
(* the skew it tolerates (MAX_CLOCK_SKEW_MS).                              *)
StampsContained ==
    /\ \A k \in DOMAIN syncRows : syncRows[k].stamp <= now + MaxClockSkew
    /\ \A c \in Calls :
           calls[c].phase \in {"pushReserved", "pushDone"} =>
               \A i \in DOMAIN calls[c].batch :
                   calls[c].batch[i].stamp <= now + MaxClockSkew

(* A pull never hands out a cursor beyond the counter, nor one that goes   *)
(* back: a cursor ahead of the counter would hide every row up to it.      *)
CursorWithinCounter ==
    wipes = 0 =>
        \A c \in Calls :
            calls[c].phase \in PullPhases =>
                calls[c].since <= calls[c].cursor /\ calls[c].cursor <= seqValue

(* The log is a last-write-wins map (worker.js: "a push only overwrites a  *)
(* stored row that is OLDER than what is being pushed").                   *)
Contents == [k \in DOMAIN syncRows |->
                [stamp |-> syncRows[k].stamp, data |-> syncRows[k].data]]

Lww == INSTANCE LwwMap WITH map <- Contents

LastWriteWins == Lww!Spec
=============================================================================
