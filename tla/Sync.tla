-------------------------------- MODULE Sync --------------------------------
(***************************************************************************)
(* The fleet: every laptop edits its own database and, round after round,  *)
(* pushes what it queued and pulls what the others pushed                  *)
(* (services/cloudSync.ts, db/sync.ts, db/syncTriggers.ts), against the    *)
(* relay of module Relay.  A laptop runs one round at a time, but its user *)
(* goes on editing while the round awaits an answer, and an answer that    *)
(* the laptop stopped waiting for may belong to a request the relay is     *)
(* still serving.                                                          *)
(*                                                                         *)
(* The laptops are past their first round: joined, published, no rejects;  *)
(* and nobody wipes the log.                                               *)
(* As in Relay, an operator Wrong... is its successor with a bug.          *)
(***************************************************************************)
EXTENDS Relay

CONSTANTS
    Skew,           \* [Devices -> Int]: a laptop's clock minus the relay's
    PushBatch,      \* PUSH_BATCH
    ByteCap,        \* TRUE: OUTBOX_MAX_BYTES may cut a batch short
    SameInstant,    \* TRUE: a record may be edited twice in a millisecond
    EditPhases,     \* in which phases of a round users edit, and in which
    DeletePhases,   \*   they delete
    MaxEdits,       \* bound: edits and deletes, over the whole fleet
    MaxFailures     \* bound: rounds that fail half way

RoundPhases == {"idle", "pushing", "pulling"}

ASSUME SyncAssumption ==
    /\ IsFiniteSet(Keys)
    /\ Skew \in [Devices -> Int]
    /\ PushBatch \in Nat \ {0}
    /\ ByteCap \in BOOLEAN
    /\ SameInstant \in BOOLEAN
    /\ EditPhases \subseteq RoundPhases
    /\ DeletePhases \subseteq RoundPhases
    /\ MaxEdits \in Nat
    /\ MaxFailures \in Nat
    /\ 0..MaxEdits \subseteq Data

VARIABLES
    row,        \* [Devices -> [Keys -> version]]: the laptops' tables
    outbox,     \* [Devices -> a function from the queued keys]: sync_outbox
    cursor,     \* [Devices -> Nat]: sync_state's `cursor`
    round,      \* [Devices -> the round that is running]
    edits,      \* how many edits there were
    failures,   \* how many rounds failed
    edited,     \* history: [Devices -> [Keys -> version]], the last edit made
                \*   on that laptop
    overrun     \* history: [Devices -> SUBSET Keys], whose last edit was
                \*   queued when a page was written over it

laptopVars == <<row, outbox, cursor, round, edits, failures, edited, overrun>>
vars == <<relayVars, laptopVars>>

----------------------------------------------------------------------------
(* A record's content is the number of the edit that wrote it.  Its stamp  *)
(* is not stored by a laptop: it is here to tell older from newer.         *)
Tombstone == 0
Missing   == [data |-> Tombstone, stamp |-> 0]
Versions  == [data : Data, stamp : Int]

Queued == [stamp : Int, deleted : BOOLEAN]

Idle == [phase |-> "idle"]

IsRound(r) ==
    \/ r = Idle
    \/ /\ r.phase = "pushing"
       /\ r = [phase |-> "pushing", call |-> r.call, sent |-> r.sent]
       /\ r.call \in Calls
       /\ IsBatch(r.sent)
    \/ /\ r.phase = "pulling"
       /\ r = [phase |-> "pulling", call |-> r.call]
       /\ r.call \in Calls

(* The one type invariant of the laptops.                                  *)
SyncTypeOK ==
    /\ RelayTypeOK
    /\ row \in [Devices -> [Keys -> Versions]]
    /\ outbox = [d \in Devices |-> outbox[d]]
    /\ \A d \in Devices :
           /\ outbox[d] = [k \in DOMAIN outbox[d] |-> outbox[d][k]]
           /\ DOMAIN outbox[d] \subseteq Keys
           /\ \A k \in DOMAIN outbox[d] : outbox[d][k] \in Queued
    /\ cursor \in [Devices -> Nat]
    /\ round = [d \in Devices |-> round[d]]
    /\ \A d \in Devices : IsRound(round[d])
    /\ edits \in 0..MaxEdits
    /\ failures \in 0..MaxFailures
    /\ edited \in [Devices -> [Keys -> Versions]]
    /\ overrun \in [Devices -> SUBSET Keys]

Init ==
    /\ RelayInit
    /\ row = [d \in Devices |-> [k \in Keys |-> Missing]]
    /\ outbox = [d \in Devices |-> Empty]
    /\ cursor = [d \in Devices |-> 0]
    /\ round = [d \in Devices |-> Idle]
    /\ edits = 0
    /\ failures = 0
    /\ edited = [d \in Devices |-> [k \in Keys |-> Missing]]
    /\ overrun = [d \in Devices |-> {}]

----------------------------------------------------------------------------
(* Local edits: the row, and through the capture trigger the outbox.       *)

Clock(d) == now + Skew[d]

With(f, k, v) == [j \in DOMAIN f \cup {k} |-> IF j = k THEN v ELSE f[j]]

Write(d, k, version, deleted) ==
    /\ edits < MaxEdits
    /\ SameInstant \/ edited[d][k].stamp # Clock(d)
    /\ edits' = edits + 1
    /\ row' = [row EXCEPT ![d][k] = version]
    /\ outbox' = [outbox EXCEPT
           ![d] = With(@, k, [stamp |-> version.stamp, deleted |-> deleted])]
    /\ edited' = [edited EXCEPT ![d][k] = version]
    /\ overrun' = [overrun EXCEPT ![d] = @ \ {k}]
    /\ UNCHANGED <<relayVars, cursor, round, failures>>

Edit(d, k) ==
    /\ round[d].phase \in EditPhases
    /\ Write(d, k, [data |-> edits + 1, stamp |-> Clock(d)], FALSE)

Delete(d, k) ==
    /\ round[d].phase \in DeletePhases
    /\ row[d][k].data # Tombstone
    /\ Write(d, k, [data |-> Tombstone, stamp |-> Clock(d)], TRUE)

----------------------------------------------------------------------------
(* One round of syncOnce: push until the outbox is drained, then pull      *)
(* until there is no more.                                                 *)

(* takeOutbox: the oldest queued rows, each as the table has it now.       *)
Outgoing(d, k) ==
    [key   |-> k,
     stamp |-> outbox[d][k].stamp,
     data  |-> IF outbox[d][k].deleted THEN Tombstone ELSE row[d][k].data]

OldestFirst(b, rows) ==
    /\ \A i, j \in DOMAIN b :
           i < j => b[i].key # b[j].key /\ b[i].stamp <= b[j].stamp
    /\ \A r \in rows \ {b[i] : i \in DOMAIN b} :
           \A i \in DOMAIN b : b[i].stamp <= r.stamp

(* The batches takeOutbox may return for a queue of records.  Two rows of  *)
(* the same instant are taken in either order.                             *)
Takes(d, queue) ==
    LET rows  == {Outgoing(d, k) : k \in queue}
        full  == IF Cardinality(queue) < PushBatch THEN Cardinality(queue)
                                                   ELSE PushBatch
        sizes == IF ByteCap THEN 1..full ELSE {full}
    IN  {b \in UNION {[1..n -> rows] : n \in sizes} : OldestFirst(b, rows)}

WrongProceed(d, c, queue) ==    \* a record that is gone is not sent
    LET found == {k \in queue : ~outbox[d][k].deleted} IN
    IF found = {}
    THEN /\ round' = [round EXCEPT ![d] = [phase |-> "pulling", call |-> c]]
         /\ calls' = [calls EXCEPT ![c] = NewPull(d, cursor[d])]
    ELSE \E b \in Takes(d, found) :
             /\ round' = [round EXCEPT
                    ![d] = [phase |-> "pushing", call |-> c, sent |-> b]]
             /\ calls' = [calls EXCEPT ![c] = NewPush(d, b)]

(* The next request of a round, in place c, when the rows `queue` are      *)
(* still queued: one more push, or the first pull.                         *)
Proceed(d, c, queue) ==
    IF queue = {}
    THEN /\ round' = [round EXCEPT ![d] = [phase |-> "pulling", call |-> c]]
         /\ calls' = [calls EXCEPT ![c] = NewPull(d, cursor[d])]
    ELSE \E b \in Takes(d, queue) :
             /\ round' = [round EXCEPT
                    ![d] = [phase |-> "pushing", call |-> c, sent |-> b]]
             /\ calls' = [calls EXCEPT ![c] = NewPush(d, b)]

(* tick or syncNow; `running` keeps a laptop to one round at a time.       *)
StartRound(d) ==
    /\ round[d] = Idle
    /\ \E c \in Calls :
           /\ calls[c] = Free
           /\ Proceed(d, c, DOMAIN outbox[d])
    /\ UNCHANGED <<now, seqValue, syncRows, wipes>>
    /\ UNCHANGED <<row, outbox, cursor, edits, failures, edited, overrun>>

WrongCleared(d, sent) ==        \* matched by key alone
    {k \in DOMAIN outbox[d] : \E i \in DOMAIN sent : sent[i].key = k}

(* clearOutbox: the rows that were sent and have not been queued again     *)
(* with another stamp since.                                               *)
Cleared(d, sent) ==
    {k \in DOMAIN outbox[d] :
        \E i \in DOMAIN sent :
            sent[i].key = k /\ sent[i].stamp = outbox[d][k].stamp}

(* The push loop ends with the first batch that is not full.               *)
StillToPush(sent, left) == IF Len(sent) < PushBatch THEN {} ELSE left

OnPushReply(d) ==
    /\ round[d].phase = "pushing"
    /\ calls[round[d].call].phase = "pushDone"
    /\ LET c    == round[d].call
           sent == round[d].sent
           left == DOMAIN outbox[d] \ Cleared(d, sent)
       IN  /\ outbox' = [outbox EXCEPT ![d] = [k \in left |-> outbox[d][k]]]
           /\ Proceed(d, c, StillToPush(sent, left))
    /\ UNCHANGED <<now, seqValue, syncRows, wipes>>
    /\ UNCHANGED <<row, cursor, edits, failures, edited, overrun>>

WrongApplied(d, page) ==        \* deletions are not applied
    [k \in Keys |-> IF k \in DOMAIN page /\ page[k].data # Tombstone
                    THEN [data |-> page[k].data, stamp |-> page[k].stamp]
                    ELSE row[d][k]]

(* applyRows: every row of the page is written over what the laptop has,   *)
(* queued or not.                                                          *)
Applied(d, page) ==
    [k \in Keys |-> IF k \in DOMAIN page
                    THEN [data |-> page[k].data, stamp |-> page[k].stamp]
                    ELSE row[d][k]]

WrittenOver(d, page) ==
    overrun' = [overrun EXCEPT ![d] = @ \cup (DOMAIN page \cap DOMAIN outbox[d])]

(* setApplying: while it writes, the capture triggers queue nothing.       *)
QueuedByApply(d, page) == outbox[d]

OnPullReply(d) ==
    /\ round[d].phase = "pulling"
    /\ calls[round[d].call].phase = "pullDone"
    /\ LET c     == round[d].call
           reply == calls[c]
           moved == reply.cursor > cursor[d]
       IN  /\ row' = [row EXCEPT ![d] = Applied(d, reply.page)]
           /\ WrittenOver(d, reply.page)
           /\ outbox' = [outbox EXCEPT ![d] = QueuedByApply(d, reply.page)]
           /\ cursor' = [cursor EXCEPT ![d] = IF moved THEN reply.cursor ELSE @]
           /\ IF reply.more /\ moved
              THEN /\ calls' = [calls EXCEPT ![c] = NewPull(d, reply.cursor)]
                   /\ UNCHANGED round
              ELSE /\ calls' = [calls EXCEPT ![c] = Free]
                   /\ round' = [round EXCEPT ![d] = Idle]
    /\ UNCHANGED <<now, seqValue, syncRows, wipes>>
    /\ UNCHANGED <<edits, failures, edited>>

----------------------------------------------------------------------------
(* Failures.                                                               *)

Fail(d) ==
    /\ failures < MaxFailures
    /\ failures' = failures + 1
    /\ round' = [round EXCEPT ![d] = Idle]
    /\ UNCHANGED <<now, seqValue, syncRows, wipes>>
    /\ UNCHANGED <<outbox, cursor, edits, edited>>

(* A timeout, an error answer, or the app is killed: the round ends where  *)
(* it is.  The request is gone, or the relay goes on serving it.           *)
AbortRound(d) ==
    /\ round[d] # Idle
    /\ \/ UNCHANGED calls
       \/ calls' = [calls EXCEPT ![round[d].call] = Free]
    /\ UNCHANGED <<row, overrun>>
    /\ Fail(d)

(* The app is killed after the page was applied, before the cursor moved.  *)
CrashAfterApply(d) ==
    /\ round[d].phase = "pulling"
    /\ LET c == round[d].call IN
       /\ calls[c].phase = "pullDone"
       /\ row' = [row EXCEPT ![d] = Applied(d, calls[c].page)]
       /\ WrittenOver(d, calls[c].page)
       /\ calls' = [calls EXCEPT ![c] = Free]
    /\ Fail(d)

(* An answer nobody waits for any more.                                    *)
Awaited(c) == \E d \in Devices : round[d] # Idle /\ round[d].call = c

DropAnswer(c) ==
    /\ calls[c].phase \in {"pushDone", "pullDone"}
    /\ ~Awaited(c)
    /\ Hangup(c)
    /\ UNCHANGED laptopVars

----------------------------------------------------------------------------
Laptop(d) ==
    \/ \E k \in Keys : Edit(d, k) \/ Delete(d, k)
    \/ StartRound(d)
    \/ OnPushReply(d)
    \/ OnPullReply(d)
    \/ AbortRound(d)
    \/ CrashAfterApply(d)

RelayStep ==
    /\ \/ \E c \in Calls : Serve(c)
       \/ Tick
    /\ UNCHANGED laptopVars

Next ==
    \/ \E d \in Devices : Laptop(d)
    \/ \E c \in Calls : DropAnswer(c)
    \/ RelayStep

Spec == Init /\ [][Next]_vars

(* The app's timer starts a round again and again, and handles every       *)
(* answer; the relay finishes what it started.  Users owe nothing.  The    *)
(* start is strongly fair because the places in Calls are the model's, not *)
(* the relay's: a laptop never has to wait for another one's request.      *)
Fairness ==
    /\ \A d \in Devices :
           /\ SF_vars(StartRound(d))
           /\ WF_vars(OnPushReply(d))
           /\ WF_vars(OnPullReply(d))
    /\ \A c \in Calls :
           /\ WF_vars(Serve(c) /\ UNCHANGED laptopVars)
           /\ WF_vars(DropAnswer(c))

FairSpec == Spec /\ Fairness

----------------------------------------------------------------------------
(* Pushing first "means this laptop's own work is safe": whatever happens  *)
(* to requests and answers, the last edit of a laptop is queued, or the    *)
(* relay holds a version that is not older.                                *)
Held(d, k) ==
    k \in DOMAIN syncRows /\ syncRows[k].stamp >= edited[d][k].stamp

QueuedOrHeld ==
    \A d \in Devices, k \in Keys :
        edited[d][k] # Missing => k \in DOMAIN outbox[d] \/ Held(d, k)

(* And it is that edit which is safe, not an earlier one under the same    *)
(* stamp (clearOutbox: "a row edited again while its push was in flight    *)
(* stays queued"): unless a page was written over the edit while it was    *)
(* queued, as the next property shows it may be.                           *)
NothingForgotten ==
    \A d \in Devices : \A k \in Keys \ overrun[d] :
        edited[d][k] # Missing /\ k \notin DOMAIN outbox[d] =>
            /\ Held(d, k)
            /\ syncRows[k].device = d => syncRows[k].data = edited[d][k].data

(* "Push, then pull. In that order, always", so that the relay's rows are  *)
(* not "applied over your newer local edits": while an edit is queued, no  *)
(* older version takes its place in the laptop's table (from where the     *)
(* next push would read it).                                               *)
NewerEditKept ==
    \A d \in Devices : \A k \in DOMAIN outbox[d] :
        row[d][k].stamp >= outbox[d][k].stamp

(* A laptop with nothing queued and nothing to pull shows the same records *)
(* as the relay: the fleet converges, deletions included.  (That a laptop  *)
(* is not handed its own rows "is an optimisation, not a correctness       *)
(* requirement".)                                                          *)
UpToDate(d) ==
    /\ round[d] = Idle
    /\ DOMAIN outbox[d] = {}
    /\ News(d, cursor[d]) = {}

Content(k) == IF k \in DOMAIN syncRows THEN syncRows[k].data ELSE Tombstone

SettledAgrees ==
    (\A c \in Calls : calls[c] = Free) =>
        \A d \in Devices : UpToDate(d) =>
            \A k \in Keys : row[d][k].data = Content(k)

(* "Two people editing the same record.  The later edit wins": once all is *)
(* exchanged, no laptop shows an edit when another was made after it, as   *)
(* told by the relay's clock.  The code compares the laptops' clocks.      *)
MadeAt(d, k) == edited[d][k].stamp - Skew[d]

LaterEditWins ==
    (\A c \in Calls : calls[c] = Free) /\ (\A d \in Devices : UpToDate(d)) =>
        \A d, e, f \in Devices, k \in Keys :
            row[d][k] = edited[e][k] /\ edited[f][k] # Missing => MadeAt(f, k) <= MadeAt(e, k)

(* With rounds that fail finitely often, the fleet settles on the same     *)
(* records for good: no edit is queued for ever, and no row is bounced     *)
(* between two laptops for ever.                                           *)
SameEverywhere ==
    \A d \in Devices :
        /\ DOMAIN outbox[d] = {}
        /\ \A k \in Keys : row[d][k].data = Content(k)

EventuallySettled == <>[]SameEverywhere
=============================================================================
