----------------------------- MODULE ShipClaims -----------------------------
(***************************************************************************)
(* The benches of the shipping floor (src/main/db/shipStations.ts): who    *)
(* holds an order is not stored but worked out, on every laptop, from      *)
(* claim rows that each bench writes for itself and that travel through    *)
(* the relay, a row at a time; and the deletion of an import (src/main/db/ *)
(* shipImportDelete.ts), which writes the claims of every bench.           *)
(*                                                                         *)
(* A time stamp is the number of the step that took it, so stamps of       *)
(* different benches agree and differ; a claim is known by the stamp it    *)
(* was made at.  Whether a claim has outlived its lease is an opinion a laptop  *)
(* has when it asks (its clock, the heartbeats that came): any set of open *)
(* claims may look lapsed to it, and another one the next time.            *)
(*                                                                         *)
(* A push or a pull of many rows is a sequence of the steps for one row,   *)
(* in any order and broken off anywhere.  The relay steps over no row here *)
(* (Relay shows that it may).                                              *)
(*                                                                         *)
(* An operator Wrong... is its successor with a bug.                       *)
(***************************************************************************)
EXTENDS Integers, FiniteSets, FiniteSetsExt

CONSTANTS
    Stations,       \* the benches, one laptop each
    Orders,         \* numbered in page order
    MaxNow          \* bound: the last time stamp

ASSUME ClaimsAssumption ==
    /\ Orders \subseteq Nat
    /\ MaxNow \in Nat

VARIABLES
    desk,           \* what each laptop's database holds, see Tables
    outbox,         \* the claims each laptop has written and not sent (sync_outbox)
    news,           \* the claims others have sent and the laptop has not fetched
    relay,          \* what the relay holds of all of them
    now             \* the last time stamp taken

vars == <<desk, outbox, news, relay, now>>

Ids  == 1..MaxNow
Jobs == {"pick", "pack"}

(* ship_work_claims; 0 is NULL.                                            *)
Claims ==
    [id : Ids, station : Stations, order : Orders, role : Jobs,
     finished : 0..MaxNow, released : 0..MaxNow, sentBack : BOOLEAN,
     supersedes : 0..MaxNow]

(* A shipment: packed_at is NULL or set, or the row is deleted; with the   *)
(* stamp of the write.                                                     *)
Packing == [is : {"open", "sealed", "gone"}, stamp : 0..MaxNow]

Tables == [rows : SUBSET Claims, packed : [Orders -> Packing]]

ClaimsTypeOK ==
    /\ desk \in [Stations -> Tables]
    /\ outbox \in [Stations -> SUBSET Ids]
    /\ news \in [Stations -> SUBSET Ids]
    /\ relay \in Tables
    /\ now \in 0..MaxNow

Unpacked == [o \in Orders |-> [is |-> "open", stamp |-> 0]]

Init ==
    /\ desk = [s \in Stations |-> [rows |-> {}, packed |-> Unpacked]]
    /\ outbox = [s \in Stations |-> {}]
    /\ news = [s \in Stations |-> {}]
    /\ relay = [rows |-> {}, packed |-> Unpacked]
    /\ now = 0

----------------------------------------------------------------------------
(* What a laptop makes of its rows (shared/shipStations.ts); d is a view:  *)
(* its tables, and the claims that look lapsed to it.                      *)

Superseded(d, c) == \E e \in d.rows : e.supersedes = c.id

Dead(d, c) == c.released # 0 \/ Superseded(d, c)

IsOpen(c) == c.finished = 0 /\ c.released = 0

View(s, L) == [rows |-> desk[s].rows, packed |-> desk[s].packed, lapsed |-> L]

Views(s) == {View(s, L) : L \in SUBSET {c.id : c \in {e \in desk[s].rows : IsOpen(e)}}}

Live(d, o, role) ==
    {c \in d.rows : /\ c.order = o /\ c.role = role
                    /\ ~Dead(d, c) /\ c.finished = 0
                    /\ c.id \notin d.lapsed}

(* holderOf: the earliest claim.  None, or one.                            *)
Holder(d, o, role) ==
    {c \in Live(d, o, role) : \A e \in Live(d, o, role) : c.id <= e.id}

(* myClaim: the first found of these.                                      *)
Mine(d, s, role) ==
    {c \in d.rows : /\ c.station = s /\ c.role = role /\ IsOpen(c)
                    /\ c \in Holder(d, c.order, role)}

(* sentBackAt is the last of them.                                         *)
Rejections(d, o) ==
    {c \in d.rows : /\ c.order = o /\ c.role = "pack"
                    /\ c.sentBack /\ ~Superseded(d, c)}

(* handedOverAt: the handoffs that count are later than every rejection.   *)
Handoffs(d, o) ==
    {c \in d.rows : /\ c.order = o /\ c.role = "pick" /\ ~Dead(d, c)
                    /\ c.finished # 0
                    /\ \A e \in Rejections(d, o) : c.finished > e.released}

Ready(d, o) == Handoffs(d, o) # {}

ReadyAt(d, o) == Min({c.finished : c \in Handoffs(d, o)})

(* toStationOrder: a packer's claim hides a picker's.                      *)
Elsewhere(d, s, o) ==
    LET pack == Holder(d, o, "pack")
        held == IF pack # {} THEN pack ELSE Holder(d, o, "pick")
    IN  \E c \in held : c.station # s

Offered(d, s, role) ==
    {o \in Orders : /\ d.packed[o].is = "open"
                    /\ Ready(d, o) <=> role = "pack"
                    /\ ~Elsewhere(d, s, o)}

(* pickableOrders are in page order, packQueue by the time handed over.    *)
Before(d, role, o, p) ==
    \/ role = "pack" /\ ReadyAt(d, o) < ReadyAt(d, p)
    \/ o <= p /\ (role = "pack" => ReadyAt(d, o) = ReadyAt(d, p))

First(d, role, S) == {o \in S : \A p \in S : Before(d, role, o, p)}

----------------------------------------------------------------------------
(* What a bench writes: functions of its view.                             *)

(* myClaim may find nothing, or a claim on another order than o.           *)
Others(d, s, role, o) ==
    Mine(d, s, role) = {} \/ \E e \in Mine(d, s, role) : e.order # o

Changed(d, c, e) == [d EXCEPT !.rows = (@ \ {c}) \cup {e}]

(* releaseClaim and releaseAllForStation.  Of a release that is no         *)
(* rejection only that there was one matters, not when: it takes the       *)
(* number of the claim.                                                    *)
Released(d, C) ==
    [d EXCEPT !.rows = (@ \ C) \cup {[c EXCEPT !.released = c.id] : c \in C}]

OpenOf(d, s) == {c \in d.rows : c.station = s /\ IsOpen(c)}

Row(s, o, role, at, finished, supersedes) ==
    [id |-> at, station |-> s, order |-> o, role |-> role, finished |-> finished,
     released |-> 0, sentBack |-> FALSE, supersedes |-> supersedes]

Expired(d, o, role) ==
    {c \in d.rows : /\ c.order = o /\ c.role = role /\ IsOpen(c)
                    /\ ~Dead(d, c) /\ c.id \in d.lapsed}

(* The number of the last claim in C, 0 if there is none.                  *)
WrongNumberOfLast(C) ==
    LET last == {c \in C : \A e \in C : e.id <= c.id}
    IN  IF last = {} THEN -1 ELSE (CHOOSE c \in last : TRUE).id

NumberOfLast(C) ==
    LET last == {c \in C : \A e \in C : e.id <= c.id}
    IN  IF last = {} THEN 0 ELSE (CHOOSE c \in last : TRUE).id

(* claimOrder: a claim that is held is respected, and the last of those    *)
(* that expired is named, which makes its loss final.                      *)
Taken(d, s, o, role, at) ==
    IF Holder(d, o, role) # {}
    THEN d
    ELSE [d EXCEPT !.rows = @ \cup {Row(s, o, role, at, 0, NumberOfLast(Expired(d, o, role)))}]

Free(d, s, role) ==
    {o \in Offered(d, s, role) : \A c \in Holder(d, o, role) : c.station = s}

(* What may come of taking the first of S; nothing if S is empty.          *)
WithNext(d, s, role, S, at) ==
    {Taken(d, s, o, role, at) : o \in First(d, role, S)} \cup (IF S = {} THEN {d} ELSE {})

(* updated_at decides between two writes of packed_at.                     *)
Newer(p, q) == IF q.stamp > p.stamp THEN q ELSE p

Stage(d, o, is, at) == [d EXCEPT !.packed[o] = [is |-> is, stamp |-> at]]

----------------------------------------------------------------------------
(* The benches                                                             *)

Stamps(n) == now + n <= MaxNow /\ now' = now + n

(* The triggers capture what is written.                                   *)
Touched(R, T) == {c.id : c \in (R \ T) \cup (T \ R)}

Writes(s, d) ==
    /\ desk' = [desk EXCEPT ![s] = [rows |-> d.rows, packed |-> d.packed]]
    /\ outbox' = [outbox EXCEPT ![s] = @ \cup Touched(desk[s].rows, d.rows)]
    /\ UNCHANGED <<news, relay>>

(* startStationSession and endStationSession give up what the bench holds. *)
(* No other channel asks for the session.                                  *)
StartOrEnd(s) ==
    /\ Writes(s, Released(desk[s], OpenOf(desk[s], s)))
    /\ UNCHANGED now

(* pickNext and packNext                                                   *)
TakeNext(s, role) ==
    /\ Stamps(1)
    /\ \E d \in Views(s) :
          /\ Mine(d, s, role) = {}
          /\ Free(d, s, role) # {}
          /\ \E f \in WithNext(d, s, role, Free(d, s, role), now') : Writes(s, f)

(* The bench's own claim is finished, or a finished one recorded.          *)
Picked(d, s, o, at) ==
    {Changed(d, c, [c EXCEPT !.finished = at]) :
        c \in {e \in Mine(d, s, "pick") : e.order = o}}
    \cup IF Others(d, s, "pick", o)
         THEN {[d EXCEPT !.rows = @ \cup {Row(s, o, "pick", at, at, 0)}]}
         ELSE {}

(* "Picked, next order": for the order on the screen, whether the bench    *)
(* still holds it or never did.                                            *)
PickAdvance(s, o) ==
    /\ desk[s].packed[o].is # "gone"
    /\ now < MaxNow
    /\ \E d \in Views(s) : \E e \in Picked(d, s, o, now + 1) :
           \E f \in WithNext(e, s, "pick", Offered(e, s, "pick"), now + 2) :
               /\ now' = IF f = e THEN now + 1 ELSE now + 2
               /\ now' <= MaxNow
               /\ Writes(s, f)

(* packDone: the box on the screen is sealed, which the order records even *)
(* when the claim was lost meanwhile.                                      *)
PackDone(s, o) ==
    /\ desk[s].packed[o].is # "gone"
    /\ \E c \in desk[s].rows : c.station = s /\ c.role = "pack" /\ c.order = o
    /\ Stamps(1)
    /\ \E v \in Views(s) :
          LET d == Stage(v, o, "sealed", now')
          IN  \/ \E c \in Mine(d, s, "pack") :
                    /\ c.order = o
                    /\ Writes(s, Changed(d, c, [c EXCEPT !.finished = now']))
              \/ Others(d, s, "pack", o) /\ Writes(s, d)

OwnHandoffs(d, s, o) ==
    {c \in d.rows : /\ c.station = s /\ c.order = o /\ c.role = "pick"
                    /\ c.finished # 0 /\ c.released = 0}

(* A rejection, and the bench's own handoffs of the order with it.         *)
SendBack(s) ==
    /\ Stamps(1)
    /\ \E v \in Views(s) : \E c \in Mine(v, s, "pack") :
           LET d == Changed(v, c, [c EXCEPT !.released = now', !.sentBack = TRUE])
           IN  Writes(s, Released(d, OwnHandoffs(d, s, c.order)))

(* The last box this bench packed that is still packed is opened again,    *)
(* and the one in hand put back.                                           *)
Behind(d, s) ==
    {c \in d.rows : /\ c.station = s /\ c.role = "pack"
                    /\ c.finished # 0 /\ c.released = 0
                    /\ d.packed[c.order].is = "sealed"}

PackBack(s) ==
    /\ Stamps(1)
    /\ \E d \in Views(s) : \E c \in Behind(d, s) :
          /\ \A e \in Behind(d, s) : e.finished <= c.finished
          /\ \E holding \in {{}} \cup {{e} : e \in Mine(d, s, "pack")} :
                 /\ holding = {} => Mine(d, s, "pack") = {}
                 /\ LET e == Changed(Released(d, holding), c, [c EXCEPT !.finished = 0])
                    IN  Writes(s, Stage(e, c.order, "open", now'))

(* The order is put back (releaseClaim).                                   *)
PutBack(s) ==
    /\ \E c \in OpenOf(desk[s], s) : Writes(s, Released(desk[s], {c}))
    /\ UNCHANGED now

(* The bench's timer touches what it has open.                             *)
Heartbeat(s) ==
    /\ OpenOf(desk[s], s) # {} /\ Stamps(1)
    /\ outbox' = [outbox EXCEPT ![s] = @ \cup {c.id : c \in OpenOf(desk[s], s)}]
    /\ UNCHANGED <<desk, news, relay>>

----------------------------------------------------------------------------
(* Deleting an import.  Which import a claim was made under is not kept:   *)
(* any claims may be those of the deleted one.  Those of an import that is *)
(* neither live nor carried on no laptop asks for (liveImportChain), and   *)
(* they are not among the rows.                                            *)

(* Another import carried it forward: its claims, whoever made them, are   *)
(* stamped with that one.                                                  *)
Rehome(s) ==
    /\ Stamps(1)
    /\ \E I \in SUBSET {c.id : c \in desk[s].rows} :
          outbox' = [outbox EXCEPT ![s] = @ \cup I]
    /\ UNCHANGED <<desk, news, relay>>

Emptied(at) == [rows |-> {}, packed |-> [o \in Orders |-> [is |-> "gone", stamp |-> at]]]

(* It is the live one: the orders go, and the claims on them.              *)
WrongDeleteShow(s) ==               \* the claims go unheard
    /\ Stamps(1)
    /\ desk' = [desk EXCEPT ![s] = Emptied(now')]
    /\ UNCHANGED <<outbox, news, relay>>

DeleteShow(s) ==
    /\ Stamps(1)
    /\ Writes(s, Emptied(now'))

----------------------------------------------------------------------------
(* The network                                                             *)

(* R with what T holds under a number.                                     *)
WithRow(R, i, T) == {c \in R : c.id # i} \cup {c \in T : c.id = i}

(* A claim as it is now, or its tombstone, reaches the relay.  If another  *)
(* laptop has written it meanwhile, the later of the two writes stays, and *)
(* that may be either.                                                     *)
Send(s, i) ==
    /\ i \in outbox[s]
    /\ outbox' = [outbox EXCEPT ![s] = @ \ {i}]
    /\ \/ /\ relay' = [relay EXCEPT !.rows = WithRow(@, i, desk[s].rows)]
          /\ news' = [t \in Stations |-> IF t = s THEN news[t] \ {i} ELSE news[t] \cup {i}]
       \/ i \in news[s] /\ UNCHANGED <<relay, news>>
    /\ UNCHANGED <<desk, now>>

(* A row is pulled, over whatever the laptop has of it.                    *)
Fetch(s, i) ==
    /\ i \in news[s]
    /\ news' = [news EXCEPT ![s] = @ \ {i}]
    /\ desk' = [desk EXCEPT ![s].rows = WithRow(@, i, relay.rows)]
    /\ UNCHANGED <<outbox, relay, now>>

(* Shipments carry their stamps.                                           *)
SendBox(s, o) ==
    /\ relay' = [relay EXCEPT !.packed[o] = Newer(@, desk[s].packed[o])]
    /\ UNCHANGED <<desk, outbox, news, now>>

FetchBox(s, o) ==
    /\ desk' = [desk EXCEPT ![s].packed[o] = Newer(@, relay.packed[o])]
    /\ UNCHANGED <<outbox, news, relay, now>>

Next ==
    \E s \in Stations :
        \/ \E role \in Jobs : TakeNext(s, role)
        \/ \E o \in Orders : PickAdvance(s, o) \/ PackDone(s, o)
        \/ StartOrEnd(s) \/ SendBack(s) \/ PackBack(s) \/ PutBack(s) \/ Heartbeat(s)
        \/ Rehome(s) \/ DeleteShow(s)
        \/ \E i \in Ids : Send(s, i) \/ Fetch(s, i)
        \/ \E o \in Orders : SendBox(s, o) \/ FetchBox(s, o)

Spec == Init /\ [][Next]_vars

----------------------------------------------------------------------------
(* Properties                                                              *)

(* A claim number names one claim, in every laptop.                        *)
OneClaimPerId ==
    \A s \in Stations : \A c, e \in desk[s].rows : c.id = e.id => c = e

(* All that was written has been sent, and all that was sent fetched.      *)
Exchanged == \A s \in Stations : outbox[s] = {} /\ news[s] = {}

(* "Every machine runs this over the same row set and gets the same        *)
(* answer" (holderOf): once the claims have been exchanged, in whatever    *)
(* order and with whatever was deleted or written by two laptops at once,  *)
(* laptops that agree on which claims have lapsed see one and the same     *)
(* holder, so no order is in two benches' hands.                           *)
OneHolderOnceExchanged ==
    Exchanged => \A s, t \in Stations, L \in SUBSET Ids, o \in Orders, role \in Jobs :
        LET held == Holder(View(s, L), o, role)
        IN  held = Holder(View(t, L), o, role) /\ \A c, e \in held : c = e

(* "Nothing is ever arbitrated between two machines, so last-write-wins    *)
(* has nothing to decide": a claim a laptop is about to send was not       *)
(* written by another meanwhile.  Not so when an import is deleted.        *)
NothingArbitrated == \A s \in Stations : outbox[s] \cap news[s] = {}

(* "If an EXPIRED claim was the last holder, name it in supersedes - that  *)
(* makes the loss permanent": when a bench takes over an order, the claims *)
(* on it that had expired are lost for good.  Only the last of them is.    *)
ExpiredAreLost ==
    [][\A s \in Stations : \A e \in desk'[s].rows \ desk[s].rows :
          e.id \in (now + 1)..now' /\ e.station = s /\ IsOpen(e) =>
              \A c \in desk[s].rows : IsOpen(c) /\ c.order = e.order /\ c.role = e.role =>
                  Dead(desk'[s], c)]_vars

=============================================================================
