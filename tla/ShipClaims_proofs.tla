-------------------------- MODULE ShipClaims_proofs --------------------------
(***************************************************************************)
(* Proofs about ShipClaims: its type invariant, that a number names one    *)
(* claim in every laptop, and that laptops that have exchanged their       *)
(* claims see the same holder.                                             *)
(*                                                                         *)
(* The argument: a laptop and the relay may differ on a claim only while   *)
(* it is in the laptop's outbox, or among the news it has not fetched      *)
(* (Accounted).  Whatever a bench writes goes to its outbox; a row that is *)
(* sent is news to the others, and one that is lost to a later write stays *)
(* news to its sender; so every step keeps it.  Then laptops with nothing  *)
(* to send or fetch hold the relay's claims, and holderOf is a function.   *)
(***************************************************************************)
EXTENDS ShipClaims, TLAPS

Unique(T) == \A c, e \in T : c.id = e.id => c = e

(* T may be what a laptop holds at time a.                                 *)
Base(T, a) == T \in SUBSET Claims /\ Unique(T) /\ \A c \in T : c.id <= a

(* What T holds under a number.                                            *)
At(T, i) == {c \in T : c.id = i}

Accounted ==
    \A s \in Stations, i \in Ids :
        i \notin outbox[s] /\ i \notin news[s] => At(desk[s].rows, i) = At(relay.rows, i)

IInv ==
    /\ ClaimsTypeOK
    /\ \A s \in Stations : Base(desk[s].rows, now)
    /\ Base(relay.rows, now)
    /\ Accounted

----------------------------------------------------------------------------
(* What a bench writes keeps its rows in shape.                            *)

LEMMA BaseLater ==
    ASSUME NEW T, NEW a \in Nat, NEW b \in Nat, a <= b, Base(T, a)
    PROVE  Base(T, b)
BY DEF Base, Claims, Ids

ViewsOf == [rows : SUBSET Claims, packed : [Orders -> Packing], lapsed : SUBSET Ids]

LEMMA ViewType ==
    ASSUME IInv, NEW s \in Stations, NEW d \in Views(s)
    PROVE  d \in ViewsOf /\ d.rows = desk[s].rows /\ Base(d.rows, now)
BY DEF IInv, ClaimsTypeOK, Tables, Views, View, ViewsOf, Claims

(* releaseClaim, for the claims C.                                         *)
LEMMA ReleasedRows ==
    ASSUME NEW d \in ViewsOf, NEW a \in Nat, Base(d.rows, a), NEW C \in SUBSET d.rows
    PROVE  Released(d, C) \in ViewsOf /\ Base(Released(d, C).rows, a)
<1> DEFINE Gone(c) == [c EXCEPT !.released = c.id]
           U == (d.rows \ C) \cup {Gone(c) : c \in C}
<1>1. \A c \in C : Gone(c) \in Claims /\ Gone(c).id = c.id
  BY DEF Base, Claims, Ids
<1>2. \A y \in U : \E x \in d.rows : /\ x.id = y.id
                                     /\ (x \in C => y = Gone(x)) /\ (x \notin C => y = x)
  <2> TAKE y \in U
  <2>1. CASE y \in d.rows \ C
    BY <2>1
  <2>2. CASE \E c \in C : y = Gone(c)
    BY <1>1, <2>2
  <2> QED BY <2>1, <2>2
<1> HIDE DEF Gone
<1>3. U \in SUBSET Claims
  BY <1>1 DEF Base
<1>4. Unique(U) /\ \A y \in U : y.id <= a
  BY <1>2 DEF Base, Unique
<1>5. Released(d, C) = [d EXCEPT !.rows = U]
  BY DEF Released, Gone
<1> HIDE DEF U
<1> QED BY <1>3, <1>4, <1>5 DEF ViewsOf, Base

LEMMA ChangedRows ==
    ASSUME NEW d \in ViewsOf, NEW a \in Nat, Base(d.rows, a),
           NEW c \in d.rows, NEW e \in Claims, e.id = c.id
    PROVE  Changed(d, c, e) \in ViewsOf /\ Base(Changed(d, c, e).rows, a)
<1>1. Changed(d, c, e).rows = (d.rows \ {c}) \cup {e} /\ Changed(d, c, e) \in ViewsOf
  BY DEF Changed, ViewsOf
<1>2. Base((d.rows \ {c}) \cup {e}, a)
  BY DEF Base, Unique
<1> QED BY <1>1, <1>2

LEMMA AddedRows ==
    ASSUME NEW d \in ViewsOf, NEW a \in Nat, Base(d.rows, a), NEW r \in Claims, a < r.id
    PROVE  /\ [d EXCEPT !.rows = @ \cup {r}] \in ViewsOf
           /\ Base([d EXCEPT !.rows = @ \cup {r}].rows, r.id)
<1>1. [d EXCEPT !.rows = @ \cup {r}].rows = d.rows \cup {r}
  BY DEF ViewsOf
<1>2. [d EXCEPT !.rows = @ \cup {r}] \in ViewsOf
  BY DEF ViewsOf
<1>3. Base(d.rows \cup {r}, r.id)
  BY DEF Base, Unique, Claims, Ids
<1> QED BY <1>1, <1>2, <1>3

LEMMA RowType ==
    ASSUME NEW s \in Stations, NEW o \in Orders, NEW role \in Jobs, NEW at \in Ids,
           NEW finished \in {0, at}, NEW n \in 0..MaxNow
    PROVE  /\ Row(s, o, role, at, finished, n) \in Claims
           /\ Row(s, o, role, at, finished, n).id = at
BY ClaimsAssumption DEF Row, Claims, Ids

LEMMA NumberOfLastType ==
    ASSUME NEW C \in SUBSET Claims
    PROVE  NumberOfLast(C) \in 0..MaxNow
<1> DEFINE last == {c \in C : \A e \in C : e.id <= c.id}
<1>1. CASE last = {}
  BY <1>1, ClaimsAssumption DEF NumberOfLast
<1>2. CASE last # {}
  <2>1. (CHOOSE c \in last : TRUE) \in Claims
    BY <1>2
  <2>2. NumberOfLast(C) = (CHOOSE c \in last : TRUE).id
    BY <1>2 DEF NumberOfLast
  <2> QED BY <2>1, <2>2 DEF Claims, Ids
<1> QED BY <1>1, <1>2

LEMMA TakenRows ==
    ASSUME NEW d \in ViewsOf, NEW s \in Stations, NEW a \in Nat, NEW at \in Ids, a < at,
           Base(d.rows, a), NEW o \in Orders, NEW role \in Jobs
    PROVE  Taken(d, s, o, role, at) \in ViewsOf /\ Base(Taken(d, s, o, role, at).rows, at)
<1> DEFINE r == Row(s, o, role, at, 0, NumberOfLast(Expired(d, o, role)))
<1>1. NumberOfLast(Expired(d, o, role)) \in 0..MaxNow
  BY NumberOfLastType DEF Expired, Base
<1>2. r \in Claims /\ r.id = at
  BY <1>1, RowType
<1> HIDE DEF r
<1>3. CASE Holder(d, o, role) # {}
  <2>1. at \in Nat /\ a <= at
    BY ClaimsAssumption DEF Ids
  <2> QED BY <1>3, <2>1, BaseLater DEF Taken
<1>4. CASE Holder(d, o, role) = {}
  <2>1. Taken(d, s, o, role, at) = [d EXCEPT !.rows = @ \cup {r}]
    BY <1>4 DEF Taken, r
  <2> QED BY <1>2, <2>1, AddedRows
<1> QED BY <1>3, <1>4

LEMMA WithNextRows ==
    ASSUME NEW d \in ViewsOf, NEW s \in Stations, NEW a \in Nat, NEW at \in Ids, a < at,
           Base(d.rows, a), NEW role \in Jobs, NEW S \in SUBSET Orders,
           NEW f \in WithNext(d, s, role, S, at)
    PROVE  f \in ViewsOf /\ (f = d \/ Base(f.rows, at))
<1>1. CASE f = d
  BY <1>1
<1>2. CASE \E o \in First(d, role, S) : f = Taken(d, s, o, role, at)
  BY <1>2, TakenRows DEF First
<1> QED BY <1>1, <1>2 DEF WithNext

LEMMA StageRows ==
    ASSUME NEW d \in ViewsOf, NEW o \in Orders, NEW is \in {"open", "sealed"},
           NEW at \in 0..MaxNow
    PROVE  Stage(d, o, is, at) \in ViewsOf /\ Stage(d, o, is, at).rows = d.rows
BY DEF Stage, ViewsOf, Packing

----------------------------------------------------------------------------
(* What is written is in the outbox, so IInv is kept.                      *)

LEMMA WriteKeeps ==
    ASSUME IInv, NEW s \in Stations, NEW d, Writes(s, d),
           d.packed \in [Orders -> Packing], now' \in 0..MaxNow, now <= now', Base(d.rows, now')
    PROVE  IInv'
<1>1. /\ desk' = [desk EXCEPT ![s] = [rows |-> d.rows, packed |-> d.packed]]
      /\ outbox' = [outbox EXCEPT ![s] = @ \cup Touched(desk[s].rows, d.rows)]
      /\ news' = news /\ relay' = relay
  BY DEF Writes
<1>2. now \in Nat /\ now' \in Nat
  BY ClaimsAssumption DEF IInv, ClaimsTypeOK
<1>3. \A t \in Stations : desk'[t].rows = IF t = s THEN d.rows ELSE desk[t].rows
  BY <1>1 DEF IInv, ClaimsTypeOK
<1>4. \A t \in Stations : Base(desk'[t].rows, now')
  BY <1>2, <1>3, BaseLater DEF IInv
<1>5. Base(relay'.rows, now')
  BY <1>1, <1>2, BaseLater DEF IInv
<1>6. Touched(desk[s].rows, d.rows) \in SUBSET Ids
  BY DEF Touched, IInv, Base, Claims
<1>7. ClaimsTypeOK'
  <2>1. [rows |-> d.rows, packed |-> d.packed] \in Tables
    BY DEF Tables, Base
  <2> QED BY <1>1, <1>6, <2>1 DEF IInv, ClaimsTypeOK
<1>8. Accounted'
  <2> SUFFICES ASSUME NEW t \in Stations, NEW i \in Ids, i \notin outbox'[t], i \notin news'[t]
               PROVE  At(desk'[t].rows, i) = At(relay'.rows, i)
    BY DEF Accounted
  <2>1. i \notin outbox[t] /\ (t = s => i \notin Touched(desk[s].rows, d.rows))
    BY <1>1 DEF IInv, ClaimsTypeOK
  <2>2. At(desk[t].rows, i) = At(relay.rows, i)
    BY <1>1, <2>1 DEF IInv, Accounted
  <2>3. At(desk'[t].rows, i) = At(desk[t].rows, i)
    BY <1>3, <2>1 DEF At, Touched
  <2> QED BY <1>1, <2>2, <2>3
<1> QED BY <1>4, <1>5, <1>7, <1>8 DEF IInv

LEMMA ViewKeeps ==
    ASSUME IInv, NEW s \in Stations, NEW d \in ViewsOf, Writes(s, d),
           now' \in 0..MaxNow, now <= now', Base(d.rows, now')
    PROVE  IInv'
BY WriteKeeps DEF ViewsOf

(* More in the outbox does no harm.                                        *)
LEMMA TouchKeeps ==
    ASSUME IInv, NEW s \in Stations, NEW I \in SUBSET Ids,
           outbox' = [outbox EXCEPT ![s] = @ \cup I], UNCHANGED <<desk, news, relay>>,
           now' \in 0..MaxNow, now <= now'
    PROVE  IInv'
<1>1. now \in Nat /\ now' \in Nat
  BY ClaimsAssumption DEF IInv, ClaimsTypeOK
<1>2. (\A t \in Stations : Base(desk'[t].rows, now')) /\ Base(relay'.rows, now')
  BY <1>1, BaseLater DEF IInv
<1>3. \A t \in Stations : outbox[t] \in SUBSET outbox'[t] /\ outbox'[t] \in SUBSET Ids
  BY DEF IInv, ClaimsTypeOK
<1>4. ClaimsTypeOK'
  BY DEF IInv, ClaimsTypeOK
<1> QED BY <1>2, <1>3, <1>4 DEF IInv, Accounted

LEMMA StampsType ==
    ASSUME IInv, Stamps(1)
    PROVE  /\ now' \in Ids /\ now' \in 0..MaxNow
           /\ now \in Nat /\ now' \in Nat /\ now < now' /\ now <= now'
BY ClaimsAssumption DEF IInv, ClaimsTypeOK, Stamps, Ids

----------------------------------------------------------------------------
(* The benches                                                             *)

(* A laptop's own tables as a view to which nothing has lapsed.            *)
LEMMA ReleaseKeeps ==
    ASSUME IInv, NEW s \in Stations, NEW C \in SUBSET desk[s].rows,
           Writes(s, Released(desk[s], C)), now' = now
    PROVE  IInv'
<1> DEFINE d == View(s, {})
<1>1. d \in ViewsOf /\ d.rows = desk[s].rows /\ d.packed = desk[s].packed
  BY DEF View, ViewsOf, IInv, ClaimsTypeOK, Tables
<1>2. Base(d.rows, now) /\ now \in Nat /\ now \in 0..MaxNow
  BY <1>1, ClaimsAssumption DEF IInv, ClaimsTypeOK
<1> HIDE DEF d
<1>3. Released(d, C) \in ViewsOf /\ Base(Released(d, C).rows, now)
  BY <1>1, <1>2, ReleasedRows
<1>4. /\ Released(d, C).rows = Released(desk[s], C).rows
      /\ Released(d, C).packed = Released(desk[s], C).packed
  BY <1>1 DEF Released, IInv, ClaimsTypeOK, Tables, ViewsOf
<1>5. Writes(s, Released(d, C))
  BY <1>4 DEF Writes
<1> QED BY <1>2, <1>3, <1>5, ViewKeeps

LEMMA StartOrEndKeeps ==
    ASSUME IInv, NEW s \in Stations, StartOrEnd(s)
    PROVE  IInv'
BY ReleaseKeeps DEF StartOrEnd, OpenOf

LEMMA PutBackKeeps ==
    ASSUME IInv, NEW s \in Stations, PutBack(s)
    PROVE  IInv'
BY ReleaseKeeps DEF PutBack, OpenOf

LEMMA TakeNextKeeps ==
    ASSUME IInv, NEW s \in Stations, NEW role \in Jobs, TakeNext(s, role)
    PROVE  IInv'
<1>1. PICK d \in Views(s) :
        \E f \in WithNext(d, s, role, Free(d, s, role), now') : Writes(s, f)
  BY DEF TakeNext
<1>2. PICK f \in WithNext(d, s, role, Free(d, s, role), now') : Writes(s, f)
  BY <1>1
<1>3. d \in ViewsOf /\ Base(d.rows, now)
  BY ViewType
<1>4. Stamps(1)
  BY DEF TakeNext
<1>5. f \in ViewsOf /\ (f = d \/ Base(f.rows, now'))
  BY <1>3, <1>4, StampsType, WithNextRows DEF Free, Offered
<1>6. Base(f.rows, now')
  BY <1>3, <1>4, <1>5, StampsType, BaseLater
<1> QED BY <1>2, <1>4, <1>5, <1>6, StampsType, ViewKeeps

LEMMA PackDoneKeeps ==
    ASSUME IInv, NEW s \in Stations, NEW o \in Orders, PackDone(s, o)
    PROVE  IInv'
<1>1. /\ now' \in 0..MaxNow /\ now \in Nat /\ now' \in Nat /\ now <= now'
  BY StampsType DEF PackDone
<1>2. PICK v \in Views(s) :
        LET d == Stage(v, o, "sealed", now')
        IN  \/ \E c \in Mine(d, s, "pack") :
                  c.order = o /\ Writes(s, Changed(d, c, [c EXCEPT !.finished = now']))
            \/ Others(d, s, "pack", o) /\ Writes(s, d)
  BY DEF PackDone
<1> DEFINE d == Stage(v, o, "sealed", now')
<1>3. d \in ViewsOf /\ Base(d.rows, now')
  BY <1>1, ViewType, StageRows, BaseLater
<1> HIDE DEF d
<1>4. ASSUME NEW c \in Mine(d, s, "pack"), Writes(s, Changed(d, c, [c EXCEPT !.finished = now']))
      PROVE  IInv'
  <2> DEFINE e == [c EXCEPT !.finished = now']
  <2>1. c \in d.rows
    BY DEF Mine
  <2>2. e \in Claims /\ e.id = c.id
    BY <1>1, <1>3, <2>1 DEF Base, Claims
  <2>3. Writes(s, Changed(d, c, e))
    BY <1>4
  <2> HIDE DEF e
  <2>4. Changed(d, c, e) \in ViewsOf /\ Base(Changed(d, c, e).rows, now')
    BY <1>1, <1>3, <2>1, <2>2, ChangedRows
  <2> QED BY <1>1, <2>3, <2>4, ViewKeeps
<1>5. ASSUME Writes(s, d) PROVE IInv'
  BY <1>1, <1>3, <1>5, ViewKeeps
<1> QED BY <1>2, <1>4, <1>5 DEF d

LEMMA SendBackKeeps ==
    ASSUME IInv, NEW s \in Stations, SendBack(s)
    PROVE  IInv'
<1>1. now' \in 0..MaxNow /\ now \in Nat /\ now' \in Nat /\ now <= now'
  BY StampsType DEF SendBack
<1>2. PICK v \in Views(s) : \E c \in Mine(v, s, "pack") :
        LET d == Changed(v, c, [c EXCEPT !.released = now', !.sentBack = TRUE])
        IN  Writes(s, Released(d, OwnHandoffs(d, s, c.order)))
  BY DEF SendBack
<1>3. PICK c \in Mine(v, s, "pack") :
        LET d == Changed(v, c, [c EXCEPT !.released = now', !.sentBack = TRUE])
        IN  Writes(s, Released(d, OwnHandoffs(d, s, c.order)))
  BY <1>2
<1> DEFINE e == [c EXCEPT !.released = now', !.sentBack = TRUE]
           d == Changed(v, c, e)
           f == Released(d, OwnHandoffs(d, s, c.order))
<1>4. v \in ViewsOf /\ Base(v.rows, now') /\ c \in v.rows
  BY <1>1, ViewType, BaseLater DEF Mine
<1>5. e \in Claims /\ e.id = c.id
  BY <1>1, <1>4 DEF Base, Claims
<1>6. Writes(s, f)
  BY <1>3
<1> HIDE DEF e
<1>7. d \in ViewsOf /\ Base(d.rows, now')
  BY <1>1, <1>4, <1>5, ChangedRows
<1>8. OwnHandoffs(d, s, c.order) \in SUBSET d.rows
  BY DEF OwnHandoffs
<1> HIDE DEF d
<1>9. f \in ViewsOf /\ Base(f.rows, now')
  BY <1>1, <1>7, <1>8, ReleasedRows
<1> QED BY <1>1, <1>6, <1>9, ViewKeeps

LEMMA PackBackKeeps ==
    ASSUME IInv, NEW s \in Stations, PackBack(s)
    PROVE  IInv'
<1>1. now' \in 0..MaxNow /\ now \in Nat /\ now' \in Nat /\ now <= now'
  BY StampsType DEF PackBack
<1>2. PICK d \in Views(s) : \E c \in Behind(d, s) :
        \E holding \in {{}} \cup {{e} : e \in Mine(d, s, "pack")} :
            LET e == Changed(Released(d, holding), c, [c EXCEPT !.finished = 0])
            IN  Writes(s, Stage(e, c.order, "open", now'))
  BY DEF PackBack
<1>3. PICK c \in Behind(d, s) :
        \E holding \in {{}} \cup {{e} : e \in Mine(d, s, "pack")} :
            LET e == Changed(Released(d, holding), c, [c EXCEPT !.finished = 0])
            IN  Writes(s, Stage(e, c.order, "open", now'))
  BY <1>2
<1>4. PICK holding \in {{}} \cup {{e} : e \in Mine(d, s, "pack")} :
            LET e == Changed(Released(d, holding), c, [c EXCEPT !.finished = 0])
            IN  Writes(s, Stage(e, c.order, "open", now'))
  BY <1>3
<1> DEFINE r == Released(d, holding)
           b == [c EXCEPT !.finished = 0]
           e == Changed(r, c, b)
           f == Stage(e, c.order, "open", now')
<1>5. d \in ViewsOf /\ Base(d.rows, now')
  BY <1>1, ViewType, BaseLater
<1>6. c \in d.rows /\ c \in Claims /\ c.finished # 0
  BY <1>5 DEF Behind, Base
<1>7. holding \in SUBSET d.rows /\ c \notin holding
  BY <1>6 DEF Mine, IsOpen
<1>8. r \in ViewsOf /\ Base(r.rows, now')
  BY <1>1, <1>5, <1>7, ReleasedRows
<1>9. c \in r.rows
  BY <1>5, <1>6, <1>7 DEF Released, ViewsOf
<1>10. b \in Claims /\ b.id = c.id
  BY <1>6, ClaimsAssumption DEF Claims
<1>11. Writes(s, f)
  BY <1>4
<1> HIDE DEF r, b
<1>12. e \in ViewsOf /\ Base(e.rows, now')
  BY <1>1, <1>8, <1>9, <1>10, ChangedRows
<1> HIDE DEF e
<1>13. f \in ViewsOf /\ f.rows = e.rows
  BY <1>1, <1>6, <1>12, StageRows DEF Claims
<1> QED BY <1>1, <1>11, <1>12, <1>13, ViewKeeps

LEMMA PickAdvanceKeeps ==
    ASSUME IInv, NEW s \in Stations, NEW o \in Orders, PickAdvance(s, o)
    PROVE  IInv'
<1>1. PICK d \in Views(s) : \E e \in Picked(d, s, o, now + 1) :
        \E f \in WithNext(e, s, "pick", Offered(e, s, "pick"), now + 2) :
            /\ now' = IF f = e THEN now + 1 ELSE now + 2
            /\ now' <= MaxNow
            /\ Writes(s, f)
  BY DEF PickAdvance
<1>2. PICK e \in Picked(d, s, o, now + 1) :
        \E f \in WithNext(e, s, "pick", Offered(e, s, "pick"), now + 2) :
            /\ now' = IF f = e THEN now + 1 ELSE now + 2
            /\ now' <= MaxNow
            /\ Writes(s, f)
  BY <1>1
<1>3. PICK f \in WithNext(e, s, "pick", Offered(e, s, "pick"), now + 2) :
            /\ now' = IF f = e THEN now + 1 ELSE now + 2
            /\ now' <= MaxNow
            /\ Writes(s, f)
  BY <1>2
<1>4. d \in ViewsOf /\ Base(d.rows, now)
  BY ViewType
<1>5. /\ now \in Nat /\ now' \in Nat /\ now' \in 0..MaxNow /\ now <= now'
      /\ now + 1 \in Nat /\ now + 1 \in Ids /\ now + 1 \in 0..MaxNow /\ now <= now + 1
  BY <1>3, ClaimsAssumption DEF IInv, ClaimsTypeOK, PickAdvance, Ids
<1>6. e \in ViewsOf /\ Base(e.rows, now + 1)
  <2>1. CASE \E c \in Mine(d, s, "pick") : e = Changed(d, c, [c EXCEPT !.finished = now + 1])
    <3>1. PICK c \in Mine(d, s, "pick") : e = Changed(d, c, [c EXCEPT !.finished = now + 1])
      BY <2>1
    <3> DEFINE b == [c EXCEPT !.finished = now + 1]
    <3>2. c \in d.rows
      BY DEF Mine
    <3>3. b \in Claims /\ b.id = c.id
      BY <1>4, <1>5, <3>2 DEF Base, Claims
    <3>4. e = Changed(d, c, b)
      BY <3>1
    <3> HIDE DEF b
    <3>5. Base(d.rows, now + 1)
      BY <1>4, <1>5, BaseLater
    <3> QED BY <1>4, <1>5, <3>2, <3>3, <3>4, <3>5, ChangedRows
  <2>2. CASE e = [d EXCEPT !.rows = @ \cup {Row(s, o, "pick", now + 1, now + 1, 0)}]
    <3> DEFINE r == Row(s, o, "pick", now + 1, now + 1, 0)
    <3>1. r \in Claims /\ r.id = now + 1 /\ now < r.id
      BY <1>5, RowType, ClaimsAssumption DEF Jobs
    <3>2. e = [d EXCEPT !.rows = @ \cup {r}]
      BY <2>2
    <3> HIDE DEF r
    <3> QED BY <1>4, <1>5, <3>1, <3>2, AddedRows
  <2> QED BY <2>1, <2>2 DEF Picked
<1>7. CASE f = e
  BY <1>3, <1>5, <1>6, <1>7, ViewKeeps
<1>8. CASE f # e
  <2>1. now' = now + 2 /\ now' \in Ids /\ now + 1 < now'
    BY <1>3, <1>5, <1>8 DEF Ids
  <2>2. Offered(e, s, "pick") \in SUBSET Orders /\ "pick" \in Jobs
    BY DEF Offered, Jobs
  <2>3. f \in WithNext(e, s, "pick", Offered(e, s, "pick"), now')
    BY <1>3, <2>1
  <2>4. f \in ViewsOf /\ Base(f.rows, now')
    BY <1>5, <1>6, <1>8, <2>1, <2>2, <2>3, WithNextRows
  <2> QED BY <1>3, <1>5, <2>4, ViewKeeps
<1> QED BY <1>7, <1>8

LEMMA HeartbeatKeeps ==
    ASSUME IInv, NEW s \in Stations, Heartbeat(s)
    PROVE  IInv'
<1>1. {c.id : c \in OpenOf(desk[s], s)} \in SUBSET Ids
  BY DEF OpenOf, IInv, Base, Claims
<1> QED BY <1>1, StampsType, TouchKeeps DEF Heartbeat

LEMMA RehomeKeeps ==
    ASSUME IInv, NEW s \in Stations, Rehome(s)
    PROVE  IInv'
<1>1. {c.id : c \in desk[s].rows} \in SUBSET Ids
  BY DEF IInv, Base, Claims
<1> QED BY <1>1, StampsType, TouchKeeps DEF Rehome

LEMMA DeleteShowKeeps ==
    ASSUME IInv, NEW s \in Stations, DeleteShow(s)
    PROVE  IInv'
<1>1. now' \in 0..MaxNow /\ now \in Nat /\ now' \in Nat /\ now <= now'
  BY StampsType DEF DeleteShow
<1>2. Emptied(now').packed \in [Orders -> Packing] /\ Base(Emptied(now').rows, now')
  BY <1>1 DEF Emptied, Packing, Base, Unique
<1> QED BY <1>1, <1>2, WriteKeeps DEF DeleteShow

----------------------------------------------------------------------------
(* The network                                                             *)

LEMMA WithRowBase ==
    ASSUME NEW R, NEW T, NEW i, NEW a \in Nat, Base(R, a), Base(T, a)
    PROVE  /\ Base(WithRow(R, i, T), a)
           /\ At(WithRow(R, i, T), i) = At(T, i)
           /\ \A j : j # i => At(WithRow(R, i, T), j) = At(R, j)
BY DEF WithRow, Base, Unique, At

LEMMA SendKeeps ==
    ASSUME IInv, NEW s \in Stations, NEW i \in Ids, Send(s, i)
    PROVE  IInv'
<1>1. /\ outbox' = [outbox EXCEPT ![s] = @ \ {i}] /\ desk' = desk /\ now' = now
      /\ now \in Nat
  BY ClaimsAssumption DEF Send, IInv, ClaimsTypeOK
<1>2. \A t \in Stations, j \in Ids : j \notin outbox'[t] /\ (t # s \/ j # i) => j \notin outbox[t]
  BY <1>1 DEF IInv, ClaimsTypeOK
<1>3. CASE /\ relay' = [relay EXCEPT !.rows = WithRow(@, i, desk[s].rows)]
           /\ news' = [t \in Stations |-> IF t = s THEN news[t] \ {i} ELSE news[t] \cup {i}]
  <2> DEFINE R == WithRow(relay.rows, i, desk[s].rows)
  <2>1. /\ Base(R, now) /\ At(R, i) = At(desk[s].rows, i)
        /\ \A j : j # i => At(R, j) = At(relay.rows, j)
    BY <1>1, WithRowBase DEF IInv
  <2>2. relay'.rows = R /\ relay'.packed = relay.packed
    BY <1>3 DEF IInv, ClaimsTypeOK, Tables
  <2> HIDE DEF R
  <2>3. relay' \in Tables
    BY <1>3, <2>1, <2>2 DEF IInv, ClaimsTypeOK, Tables, Base
  <2>4. ClaimsTypeOK'
    BY <1>1, <1>3, <2>3 DEF IInv, ClaimsTypeOK
  <2>5. Accounted'
    <3> SUFFICES ASSUME NEW t \in Stations, NEW j \in Ids, j \notin outbox'[t], j \notin news'[t]
                 PROVE  At(desk'[t].rows, j) = At(relay'.rows, j)
      BY DEF Accounted
    <3>1. CASE j = i
      <4>1. t = s
        BY <1>3, <3>1
      <4> QED BY <1>1, <2>1, <2>2, <3>1, <4>1
    <3>2. CASE j # i
      <4>1. j \notin outbox[t] /\ j \notin news[t]
        BY <1>2, <1>3, <3>2
      <4>2. At(desk[t].rows, j) = At(relay.rows, j)
        BY <4>1 DEF IInv, Accounted
      <4> QED BY <1>1, <2>1, <2>2, <3>2, <4>2
    <3> QED BY <3>1, <3>2
  <2> QED BY <1>1, <2>1, <2>2, <2>4, <2>5 DEF IInv
<1>4. CASE i \in news[s] /\ UNCHANGED <<relay, news>>
  <2>1. ClaimsTypeOK'
    BY <1>1, <1>4 DEF IInv, ClaimsTypeOK
  <2>2. Accounted'
    BY <1>1, <1>2, <1>4 DEF IInv, Accounted
  <2> QED BY <1>1, <1>4, <2>1, <2>2 DEF IInv
<1> QED BY <1>3, <1>4 DEF Send

LEMMA FetchKeeps ==
    ASSUME IInv, NEW s \in Stations, NEW i \in Ids, Fetch(s, i)
    PROVE  IInv'
<1> DEFINE R == WithRow(desk[s].rows, i, relay.rows)
<1>1. /\ news' = [news EXCEPT ![s] = @ \ {i}] /\ outbox' = outbox /\ relay' = relay
      /\ now' = now /\ now \in Nat
      /\ desk' = [desk EXCEPT ![s].rows = R]
  BY ClaimsAssumption DEF Fetch, IInv, ClaimsTypeOK
<1>2. /\ Base(R, now) /\ At(R, i) = At(relay.rows, i)
      /\ \A j : j # i => At(R, j) = At(desk[s].rows, j)
  BY <1>1, WithRowBase DEF IInv
<1> HIDE DEF R
<1>3. \A t \in Stations : /\ desk'[t].rows = IF t = s THEN R ELSE desk[t].rows
                          /\ desk'[t].packed = desk[t].packed
  BY <1>1 DEF IInv, ClaimsTypeOK, Tables
<1>4. ClaimsTypeOK'
  <2>1. R \in SUBSET Claims
    BY <1>2 DEF Base
  <2>2. desk' \in [Stations -> Tables]
    BY <1>1, <2>1 DEF IInv, ClaimsTypeOK, Tables
  <2> QED BY <1>1, <2>2 DEF IInv, ClaimsTypeOK
<1>5. Accounted'
  <2> SUFFICES ASSUME NEW t \in Stations, NEW j \in Ids, j \notin outbox'[t], j \notin news'[t]
               PROVE  At(desk'[t].rows, j) = At(relay'.rows, j)
    BY DEF Accounted
  <2>1. CASE t = s /\ j = i
    BY <1>1, <1>2, <1>3, <2>1
  <2>2. CASE t # s \/ j # i
    <3>1. j \notin outbox[t] /\ j \notin news[t]
      BY <1>1, <2>2 DEF IInv, ClaimsTypeOK
    <3>2. At(desk[t].rows, j) = At(relay.rows, j)
      BY <3>1 DEF IInv, Accounted
    <3> QED BY <1>1, <1>2, <1>3, <2>2, <3>2
  <2> QED BY <2>1, <2>2
<1> QED BY <1>1, <1>2, <1>3, <1>4, <1>5 DEF IInv

LEMMA BoxKeeps ==
    ASSUME IInv, NEW s \in Stations, NEW o \in Orders, SendBox(s, o) \/ FetchBox(s, o)
    PROVE  IInv'
<1>1. Newer(relay.packed[o], desk[s].packed[o]) \in Packing
  BY DEF Newer, IInv, ClaimsTypeOK, Tables
<1>2. Newer(desk[s].packed[o], relay.packed[o]) \in Packing
  BY DEF Newer, IInv, ClaimsTypeOK, Tables
<1>3. CASE SendBox(s, o)
  <2>1. relay' \in Tables /\ relay'.rows = relay.rows
    BY <1>1, <1>3 DEF SendBox, IInv, ClaimsTypeOK, Tables
  <2> QED BY <1>3, <2>1 DEF SendBox, IInv, ClaimsTypeOK, Accounted
<1>4. CASE FetchBox(s, o)
  <2>1. /\ desk' \in [Stations -> Tables]
        /\ \A t \in Stations : desk'[t].rows = desk[t].rows
    BY <1>2, <1>4 DEF FetchBox, IInv, ClaimsTypeOK, Tables
  <2> QED BY <1>4, <2>1 DEF FetchBox, IInv, ClaimsTypeOK, Accounted
<1> QED BY <1>3, <1>4

----------------------------------------------------------------------------
LEMMA InitOK == Init => IInv
BY ClaimsAssumption
   DEF Init, IInv, ClaimsTypeOK, Tables, Unpacked, Packing, Base, Unique, Accounted, At

LEMMA Invariance == Spec => []IInv
<1>1. IInv /\ UNCHANGED vars => IInv'
  BY DEF vars, IInv, ClaimsTypeOK, Accounted
<1>2. ASSUME IInv, Next PROVE IInv'
  BY <1>2, TakeNextKeeps, PickAdvanceKeeps, PackDoneKeeps, StartOrEndKeeps, SendBackKeeps,
     PackBackKeeps, PutBackKeeps, HeartbeatKeeps, RehomeKeeps, DeleteShowKeeps,
     SendKeeps, FetchKeeps, BoxKeeps DEF Next
<1> QED BY InitOK, <1>1, <1>2, PTL DEF Spec

(* The types of what laptops and the relay hold: every number of a claim   *)
(* and every stamp is one that was taken.                                  *)
THEOREM TypeCorrect == Spec => []ClaimsTypeOK
<1>1. IInv => ClaimsTypeOK
  BY DEF IInv
<1> QED BY Invariance, <1>1, PTL

(* A claim number names one claim in every laptop, whatever is written     *)
(* over, deleted and fetched (shipStations.ts:276, newId).                 *)
THEOREM NumbersNameOneClaim == Spec => []OneClaimPerId
<1>1. IInv => OneClaimPerId
  BY DEF IInv, Base, Unique, OneClaimPerId
<1> QED BY Invariance, <1>1, PTL

(* Laptops with nothing to send or fetch see one holder of an order, the   *)
(* same on all of them (holderOf, shared/shipStations.ts:103), whichever   *)
(* bench wrote last and whatever imports were deleted.                     *)
THEOREM HolderIsAgreed == Spec => []OneHolderOnceExchanged
<1>1. ASSUME IInv PROVE OneHolderOnceExchanged
  <2> SUFFICES ASSUME Exchanged, NEW s \in Stations, NEW t \in Stations,
                      NEW L \in SUBSET Ids, NEW o \in Orders, NEW role \in Jobs
               PROVE  /\ Holder(View(s, L), o, role) = Holder(View(t, L), o, role)
                      /\ \A c, e \in Holder(View(s, L), o, role) : c = e
    BY DEF OneHolderOnceExchanged
  <2>1. ASSUME NEW u \in Stations PROVE desk[u].rows = relay.rows
    <3>1. \A i \in Ids : At(desk[u].rows, i) = At(relay.rows, i)
      BY <1>1, <2>1 DEF IInv, Accounted, Exchanged
    <3>2. \A c \in desk[u].rows \cup relay.rows : c.id \in Ids
      BY <1>1, <2>1 DEF IInv, Base, Claims
    <3>3. ASSUME NEW c \in desk[u].rows PROVE c \in relay.rows
      <4>1. c \in At(relay.rows, c.id)
        BY <3>1, <3>2, <3>3 DEF At
      <4> QED BY <4>1 DEF At
    <3>4. ASSUME NEW c \in relay.rows PROVE c \in desk[u].rows
      <4>1. c \in At(desk[u].rows, c.id)
        BY <3>1, <3>2, <3>4 DEF At
      <4> QED BY <4>1 DEF At
    <3> QED BY <3>3, <3>4
  <2>2. View(s, L).rows = View(t, L).rows /\ View(s, L).lapsed = View(t, L).lapsed
    BY <2>1 DEF View
  <2>3. Holder(View(s, L), o, role) = Holder(View(t, L), o, role)
    BY <2>2 DEF Holder, Live, Dead, Superseded
  <2>4. ASSUME NEW c \in Holder(View(s, L), o, role), NEW e \in Holder(View(s, L), o, role)
        PROVE  c = e
    <3>1. c \in desk[s].rows /\ e \in desk[s].rows /\ c.id <= e.id /\ e.id <= c.id
      BY <2>4 DEF Holder, Live, View
    <3>2. c.id \in Nat /\ e.id \in Nat
      BY <1>1, <3>1 DEF IInv, Base, Claims, Ids
    <3> QED BY <1>1, <3>1, <3>2 DEF IInv, Base, Unique
  <2> QED BY <2>3, <2>4
<1>2. IInv => OneHolderOnceExchanged
  BY <1>1
<1> QED BY Invariance, <1>2, PTL
=============================================================================
