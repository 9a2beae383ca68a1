------------------------------- MODULE Relay -------------------------------
(***************************************************************************)
(* The relay's change log (cloud/worker.js): one row per record in the     *)
(* table sync_rows, one counter sync_seq.  Laptops push the rows they      *)
(* edited and pull the rows others edited.  Every request is an invocation *)
(* of the worker, and the worker awaits the database between its           *)
(* statements, so the invocations interleave statement by statement: a     *)
(* push reserves its numbers in one transaction and writes its rows in     *)
(* another, and a pull that finds no news reads the log a second time.     *)
(*                                                                         *)
(* This module holds the state and the steps.  OpenRelay runs them against *)
(* arbitrary callers, Sync against the laptops of the fleet.               *)
(*                                                                         *)
(* An operator named Wrong... is the definition that follows it with a     *)
(* plausible bug; PROJECT.json says which property catches it.             *)
(***************************************************************************)
EXTENDS Integers, Sequences, FiniteSets

CONSTANTS
    Devices,        \* the `device` ids that callers identify themselves with
    Keys,           \* (kind, id) of a synced record
    Data,           \* contents of a record; a tombstone is one of them
    Calls,          \* places for worker invocations: their number is the
                    \* number of requests that can be in flight at once
    MaxClockSkew,   \* MAX_CLOCK_SKEW_MS, in the unit of `now`
    PullBatch,      \* the `limit` a laptop asks for
    MaxNow,         \* bound: the model's last instant
    MaxWipes        \* bound: how often /v1/reset is called

ASSUME RelayAssumption ==
    /\ MaxClockSkew \in Nat
    /\ PullBatch \in Nat \ {0}
    /\ MaxNow \in Nat
    /\ MaxWipes \in Nat

VARIABLES
    now,        \* the relay's clock
    seqValue,   \* sync_seq.value: the last delivery number handed out
    syncRows,   \* the table sync_rows: a function from some of the keys
    calls,      \* the invocations in flight
    wipes       \* how often the log has been wiped

relayVars == <<now, seqValue, syncRows, calls, wipes>>

----------------------------------------------------------------------------
Edits == [key : Keys, stamp : Int, data : Data]
Rows  == [seq : Nat, stamp : Int, data : Data, device : Devices]

(* A batch is a list of edits of different records: the outbox it is taken *)
(* from is keyed by (kind, id).                                            *)
IsBatch(b) ==
    /\ b \in Seq(Edits)
    /\ \A i, j \in DOMAIN b : b[i].key = b[j].key => i = j

(* A part of the table: some keys, each with its row.                      *)
IsTable(t) ==
    /\ t = [k \in DOMAIN t |-> t[k]]
    /\ DOMAIN t \subseteq Keys
    /\ \A k \in DOMAIN t : t[k] \in Rows

Empty == [k \in {} |-> k]

(* An invocation, with what it was asked and how far it has come.          *)
Free == [phase |-> "free"]

PushCall(phase, d, batch, end) ==
    [phase |-> phase, device |-> d, batch |-> batch, end |-> end]

PullCall(phase, d, since, page, cursor, more) ==
    [phase |-> phase, device |-> d, since |-> since, page |-> page,
     cursor |-> cursor, more |-> more]

PushPhases == {"pushSent", "pushReserved", "pushDone"}
PullPhases == {"pullSent", "pullEmpty", "pullDone"}

IsCall(c) ==
    \/ c = Free
    \/ /\ c.phase \in PushPhases
       /\ c = PushCall(c.phase, c.device, c.batch, c.end)
       /\ c.device \in Devices
       /\ IsBatch(c.batch)
       /\ c.end \in Nat
       /\ c.phase # "pushSent" => c.end >= Len(c.batch)
    \/ /\ c.phase \in PullPhases
       /\ c = PullCall(c.phase, c.device, c.since, c.page, c.cursor, c.more)
       /\ c.device \in Devices
       /\ c.since \in Nat
       /\ IsTable(c.page)
       /\ c.cursor \in Nat
       /\ c.more \in BOOLEAN

(* The one type invariant of the relay.                                    *)
RelayTypeOK ==
    /\ now \in Nat
    /\ seqValue \in Nat
    /\ IsTable(syncRows)
    /\ wipes \in Nat
    /\ calls = [c \in Calls |-> calls[c]]
    /\ \A c \in Calls : IsCall(calls[c])

RelayInit ==
    /\ now = 1
    /\ seqValue = 0
    /\ syncRows = Empty
    /\ calls = [c \in Calls |-> Free]
    /\ wipes = 0

----------------------------------------------------------------------------
(* POST /v1/push                                                           *)

NewPush(d, batch) == PushCall("pushSent", d, batch, 0)

SendPush(c, d, batch) ==
    /\ calls[c] = Free
    /\ calls' = [calls EXCEPT ![c] = NewPush(d, batch)]
    /\ UNCHANGED <<now, seqValue, syncRows, wipes>>

(* A stamp from a clock that runs too far ahead is replaced by the relay's *)
(* own time.                                                               *)
WrongClamp(stamp) == stamp

Clamp(stamp) == IF stamp > now + MaxClockSkew THEN now ELSE stamp

Clamped(b) == [i \in DOMAIN b |-> [key   |-> b[i].key,
                                   stamp |-> Clamp(b[i].stamp),
                                   data  |-> b[i].data]]

WrongPushReserve(c) ==      \* the counter is read before it is bumped
    /\ calls[c].phase = "pushSent"
    /\ seqValue' = seqValue + Len(calls[c].batch)
    /\ calls' = [calls EXCEPT
           ![c] = PushCall("pushReserved", @.device, @.batch, seqValue)]
    /\ UNCHANGED <<now, syncRows, wipes>>

(* The first transaction of a push: allocateSeq hands out as many numbers  *)
(* as there are rows.                                                      *)
PushReserve(c) ==
    /\ calls[c].phase = "pushSent"
    /\ seqValue' = seqValue + Len(calls[c].batch)
    /\ calls' = [calls EXCEPT
           ![c] = PushCall("pushReserved", @.device, Clamped(@.batch), seqValue')]
    /\ UNCHANGED <<now, syncRows, wipes>>

WrongNumberOf(call, i) == call.end      \* one number for the whole push

(* The number the i-th row of a push was given.                            *)
NumberOf(call, i) == call.end - Len(call.batch) + i

WrongAccepts(edit) == TRUE      \* the last to arrive wins

(* The upsert's guard: an insert, or not older than what is stored.        *)
Accepts(edit) ==
    edit.key \in DOMAIN syncRows => edit.stamp >= syncRows[edit.key].stamp

WrongAccepted(call) ==      \* all rows or none
    IF \A i \in DOMAIN call.batch : Accepts(call.batch[i])
    THEN DOMAIN call.batch
    ELSE {}

Accepted(call) == {i \in DOMAIN call.batch : Accepts(call.batch[i])}

(* The second transaction of a push: all its rows, each on its own merits. *)
PushCommit(c) ==
    /\ calls[c].phase = "pushReserved"
    /\ LET call == calls[c]
           won  == {call.batch[i].key : i \in Accepted(call)}
           row(k) == LET i == CHOOSE i \in DOMAIN call.batch :
                                  call.batch[i].key = k
                     IN  [seq    |-> NumberOf(call, i),
                          stamp  |-> call.batch[i].stamp,
                          data   |-> call.batch[i].data,
                          device |-> call.device]
       IN  syncRows' = [k \in DOMAIN syncRows \cup won |->
                            IF k \in won THEN row(k) ELSE syncRows[k]]
    /\ calls' = [calls EXCEPT
           ![c] = PushCall("pushDone", @.device, @.batch, @.end)]
    /\ UNCHANGED <<now, seqValue, wipes>>

----------------------------------------------------------------------------
(* GET /v1/pull?since=&limit=&device=                                      *)

NewPull(d, since) == PullCall("pullSent", d, since, Empty, since, FALSE)

SendPull(c, d, since) ==
    /\ calls[c] = Free
    /\ calls' = [calls EXCEPT ![c] = NewPull(d, since)]
    /\ UNCHANGED <<now, seqValue, syncRows, wipes>>

(* What others wrote after the caller's cursor.                            *)
News(d, since) ==
    {k \in DOMAIN syncRows : syncRows[k].seq > since /\ syncRows[k].device # d}

NewsFor(call) == News(call.device, call.since)

(* ORDER BY seq LIMIT: the PullBatch oldest of them.  The order inside a   *)
(* page is left out: its keys differ and the laptop sorts it again.        *)
IsPage(S, news) ==
    /\ S \subseteq news
    /\ S = news \/ Cardinality(S) = PullBatch
    /\ Cardinality(S) <= PullBatch
    /\ \A k \in S, j \in news \ S : syncRows[k].seq <= syncRows[j].seq

IsGreatest(n, S) == n \in S /\ \A m \in S : m <= n

PullRead(c) ==
    /\ calls[c].phase = "pullSent"
    /\ LET news == NewsFor(calls[c])
       IN  \/ /\ news = {}
              /\ calls' = [calls EXCEPT ![c] = PullCall("pullEmpty",
                     @.device, @.since, Empty, @.since, FALSE)]
           \/ /\ news # {}
              /\ \E S \in SUBSET news, n \in {syncRows[k].seq : k \in news} :
                    /\ IsPage(S, news)
                    /\ IsGreatest(n, {syncRows[k].seq : k \in S})
                    /\ calls' = [calls EXCEPT ![c] = PullCall("pullDone",
                           @.device, @.since, [k \in S |-> syncRows[k]], n,
                           Cardinality(S) = PullBatch)]
    /\ UNCHANGED <<now, seqValue, syncRows, wipes>>

(* No news: a second statement moves the caller past its own echo, to the  *)
(* greatest number in the table by now.                                    *)
PullHead(c) ==
    /\ calls[c].phase = "pullEmpty"
    /\ LET since == calls[c].since
           later == {syncRows[k].seq : k \in DOMAIN syncRows} \ 0..since
       IN  \E n \in {since} \cup later :
              /\ IsGreatest(n, {since} \cup later)
              /\ calls' = [calls EXCEPT ![c] = PullCall("pullDone",
                     @.device, @.since, Empty, n, FALSE)]
    /\ UNCHANGED <<now, seqValue, syncRows, wipes>>

----------------------------------------------------------------------------
(* A request that never arrives, an invocation that is killed between two  *)
(* statements, an answer that is lost or whose caller gave up on it; and   *)
(* the end of every invocation whose answer was taken.                     *)
Hangup(c) ==
    /\ calls[c] # Free
    /\ calls' = [calls EXCEPT ![c] = Free]
    /\ UNCHANGED <<now, seqValue, syncRows, wipes>>

(* POST /v1/reset: wipe the log and start counting again, in one           *)
(* transaction.                                                            *)
Reset ==
    /\ wipes < MaxWipes
    /\ wipes' = wipes + 1
    /\ syncRows' = Empty
    /\ seqValue' = 0
    /\ UNCHANGED <<now, calls>>

(* Time passes.                                                            *)
Tick ==
    /\ now < MaxNow
    /\ now' = now + 1
    /\ UNCHANGED <<seqValue, syncRows, calls, wipes>>

(* A step of an invocation that is running.                                *)
Serve(c) == PushReserve(c) \/ PushCommit(c) \/ PullRead(c) \/ PullHead(c)

----------------------------------------------------------------------------
(* Every push that was answered is held: for each of its rows the table    *)
(* has that version or one that is not older.                              *)
PushesHeld ==
    \A c \in Calls : calls[c].phase = "pushDone" =>
        \A i \in DOMAIN calls[c].batch :
            LET edit == calls[c].batch[i] IN
            /\ edit.key \in DOMAIN syncRows
            /\ syncRows[edit.key].stamp >= edit.stamp

(* A cursor that a pull hands back steps over nothing: what others wrote   *)
(* between the caller's cursor and the new one is in the page, as it is    *)
(* stored (schema.sql: a laptop gets "exactly what it has not seen"; pull: *)
(* no answer "could step over rows from a push that has reserved its       *)
(* numbers and not yet written them").                                     *)
SteppedOver(call) ==
    {k \in News(call.device, call.since) :
        /\ syncRows[k].seq <= call.cursor
        /\ k \in DOMAIN call.page => call.page[k] # syncRows[k]}

NothingSteppedOver ==
    \A c \in Calls : calls[c].phase = "pullDone" => SteppedOver(calls[c]) = {}
=============================================================================
