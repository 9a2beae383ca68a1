------------------------------- MODULE Stock --------------------------------
(***************************************************************************)
(* The stock of one product on one laptop: the cost layers of              *)
(* src/main/db/lots.ts, the count on every shelf, the receipts of the      *)
(* purchase orders, and the sales orders that hold units of the layers     *)
(* they were sold from.  Each action is one transaction of the database;   *)
(* a transaction that throws changes nothing, and its action is not        *)
(* enabled.                                                                *)
(*                                                                         *)
(* Quantities are whole, as for every product that is neither a giveaway   *)
(* item nor a case with a known number of boxes; then no balance is ever   *)
(* rounded or snapped.                                                     *)
(*                                                                         *)
(* An operator Wrong... is its successor with a bug.                       *)
(***************************************************************************)
EXTENDS Integers, FiniteSets, Sequences, Functions, SequencesExt

CONSTANTS
    Locations,      \* the shelves
    Shops,          \* the shelves at a roadshow shop, each with an open tab
    Dock,           \* where the deliveries of ordinary purchase orders go
    Pos,            \* ordinary purchase orders, of one line each
    Sales,          \* sales orders
    NoPo,           \* the source of a line that names no purchase order
    Carts,          \* the contents a sales order can be saved with
    MaxLots,        \* bound: how many layers are ever opened
    MaxQty,         \* bound: units in one delivery, sale or move
    MaxUnits        \* bound: units in all the layers, sold or not

Lots == 1..MaxLots
Docs == Pos \cup Shops
Lines == [location : Locations, ask : 1..MaxQty, source : Docs \cup {NoPo}]

ASSUME StockAssumption ==
    /\ IsFiniteSet(Locations) /\ IsFiniteSet(Sales)
    /\ Shops \subseteq Locations
    /\ Dock \in Locations \ Shops
    /\ Pos \cap Shops = {}
    /\ NoPo \notin Docs
    /\ {MaxLots, MaxQty, MaxUnits} \subseteq Nat \ {0}
    /\ Carts \subseteq Seq(Lines)

VARIABLES
    db,             \* the tables, see Databases
    held,           \* invoice_stock_moves, with their inventory_txn_lots
    misplaced       \* history: a receipt was reversed on another shelf than
                    \* the one its layer is on

vars == <<db, held, misplaced>>

----------------------------------------------------------------------------
(* A layer knows its place in the queue: received_at, which the halves of  *)
(* a layer that was split share, then the rowid, which is its number here. *)
NoLot   == [location |-> Dock, received |-> 0, remaining |-> 0, since |-> 0]
LotRows == [location : Locations, received : Nat, remaining : Nat, since : Nat]

NoScan == [doc |-> NoPo, location |-> Dock, quantity |-> 0]
Scans  == [doc : Pos \cup {NoPo}, location : Locations, quantity : Nat]

Slices == [Lots -> Nat]     \* how much was taken from each layer
Moves  == [location : Locations, quantity : Nat, slices : Slices]

Databases ==
    [lots     : [Lots -> LotRows],          \* inventory_lots
     stock    : [Locations -> Int],         \* inventory_stock
     receipts : [Docs -> [Lots -> Nat]],    \* po_line_receipts
     checked  : [Docs -> Nat],              \* the lines' qty_received
     scans    : [Lots -> Scans],            \* inventory_scans not undone, by lot
     next     : 1..(MaxLots + 1)]           \* the next layer's number

(* The one type invariant of the stock; no layer holds more than it        *)
(* received.                                                               *)
StockTypeOK ==
    /\ db \in Databases
    /\ \A i \in Lots : db.lots[i].remaining <= db.lots[i].received
    /\ held \in [Sales -> Seq(Moves)]
    /\ misplaced \in BOOLEAN

Nothing == [i \in Lots |-> 0]

EmptyDb ==
    [lots     |-> [i \in Lots |-> NoLot],
     stock    |-> [l \in Locations |-> 0],
     receipts |-> [d \in Docs |-> Nothing],
     checked  |-> [d \in Docs |-> 0],
     scans    |-> [i \in Lots |-> NoScan],
     next     |-> 1]

Init ==
    /\ db = EmptyDb
    /\ held = [s \in Sales |-> <<>>]
    /\ misplaced = FALSE

----------------------------------------------------------------------------
(* The engine: functions of a database                                     *)

Exists(d, i) == d.lots[i] # NoLot

OpenAt(d, l) == {i \in Lots : d.lots[i].remaining > 0 /\ d.lots[i].location = l}

Remaining(d, S) == SumFunctionOnSet([i \in Lots |-> d.lots[i].remaining], S)

Bump(d, l, n) == [d EXCEPT !.stock[l] = @ + n]

WrongOlder(d, i, j) == i < j        \* goes by the rowid alone

Older(d, i, j) ==
    \/ d.lots[i].since < d.lots[j].since
    \/ d.lots[i].since = d.lots[j].since /\ i < j

(* Taking n units from the layers S, oldest first: a layer gives what the  *)
(* ones before it leave wanting.                                           *)
Fifo(d, S, n) ==
    [i \in Lots |->
        LET before == Remaining(d, {j \in S : Older(d, j, i)})
        IN  IF i \notin S \/ before >= n THEN 0
            ELSE IF n - before < d.lots[i].remaining THEN n - before
            ELSE d.lots[i].remaining]

Consumed(d, slices) ==
    [d EXCEPT !.lots =
        [i \in Lots |-> [d.lots[i] EXCEPT !.remaining = @ - slices[i]]]]

(* restoreFifo: throws when a layer is gone or would overflow.             *)
Restorable(d, slices) ==
    \A i \in Lots :
        slices[i] > 0 =>
            /\ Exists(d, i)
            /\ d.lots[i].remaining + slices[i] <= d.lots[i].received

Restored(d, slices) ==
    [d EXCEPT !.lots =
        [i \in Lots |-> [d.lots[i] EXCEPT !.remaining = @ + slices[i]]]]

HasRoom(d, n) == d.next + n <= MaxLots + 1      \* bound

CanArrive(d, n) ==                              \* bound
    /\ HasRoom(d, 1)
    /\ n + SumFunction([i \in Lots |-> d.lots[i].received]) <= MaxUnits

(* addStock: the shelf, then a layer of its own.                           *)
WrongAdded(d, l, n) ==              \* for a dock that is always the same
    [Bump(d, Dock, n) EXCEPT
        !.lots[d.next] =
            [location |-> l, received |-> n, remaining |-> n, since |-> d.next],
        !.next = @ + 1]

Added(d, l, n) ==
    [Bump(d, l, n) EXCEPT
        !.lots[d.next] =
            [location |-> l, received |-> n, remaining |-> n, since |-> d.next],
        !.next = @ + 1]

(* receivePoLine                                                           *)
Received(d, doc, l, n) ==
    [Added(d, l, n) EXCEPT !.receipts[doc][d.next] = n, !.checked[doc] = @ + n]

WrongShrunk(row, n) == [row EXCEPT !.remaining = @ - n]     \* one count only

WrongShrunkReceived(row, n) == [row EXCEPT !.received = @ - n]

Shrunk(row, n) == [row EXCEPT !.received = @ - n, !.remaining = @ - n]

(* reverseLotReceipt shrinks both counts of the very layer a receipt       *)
(* opened, or deletes it; it throws when some of it has been sold.         *)
WrongReversible(d, back) ==         \* whatever was sold of it
    \A i \in Lots : back[i] > 0 => Exists(d, i)

Reversible(d, back) ==
    \A i \in Lots : back[i] > 0 => Exists(d, i) /\ d.lots[i].remaining >= back[i]

Reversed(d, back) ==
    [d EXCEPT !.lots =
        [i \in Lots |->
            IF back[i] = 0 THEN d.lots[i]
            ELSE IF d.lots[i].received = back[i] THEN NoLot
            ELSE Shrunk(d.lots[i], back[i])]]

(* relocateLots: a layer nothing was sold from, taken whole, changes its   *)
(* address; any other is split, and a twin opens at the other shelf.       *)
WrongTwinned(d, taken) ==           \* also when units of it were sold
    {i \in Lots : taken[i] > 0 /\ taken[i] # d.lots[i].remaining}

Twinned(d, taken) == {i \in Lots : taken[i] > 0 /\ taken[i] # d.lots[i].received}

Relocated(d, to, taken) ==
    LET split   == Twinned(d, taken)
        twin(i) == d.next + Cardinality({j \in split : Older(d, j, i)})
        twins   == {twin(i) : i \in split}
        of(k)   == CHOOSE i \in split : twin(i) = k
        part(doc, i) == Min({taken[i], d.receipts[doc][i]})
    IN  [d EXCEPT
            !.lots = [k \in Lots |->
                IF k \in twins
                THEN [location |-> to, received |-> taken[of(k)],
                      remaining |-> taken[of(k)], since |-> @[of(k)].since]
                ELSE IF k \in split THEN Shrunk(@[k], taken[k])
                ELSE IF taken[k] > 0 THEN [@[k] EXCEPT !.location = to]
                ELSE @[k]],
            !.receipts = [doc \in Docs |-> [k \in Lots |->
                IF k \in twins THEN part(doc, of(k))
                ELSE IF k \in split THEN @[doc][k] - part(doc, k)
                ELSE @[doc][k]]],
            !.next = @ + Cardinality(split)]

----------------------------------------------------------------------------
(* Sales orders: applyInvoiceStock, one line after another.                *)

Giving(d, line) ==
    {i \in OpenAt(d, line.location) :
        line.source # NoPo => d.receipts[line.source][i] > 0}

Have(d, line) == Max({0, d.stock[line.location]})

WrongShort(d, line) ==              \* at any shelf
    IF line.source = NoPo /\ line.ask > Have(d, line)
    THEN line.ask - Have(d, line)
    ELSE 0

(* At a shop a short shelf means bought and not written down yet: the rest *)
(* goes onto the shop's tab.  Not for a line that names its order.         *)
Short(d, line) ==
    IF line.source = NoPo /\ line.location \in Shops /\ line.ask > Have(d, line)
    THEN line.ask - Have(d, line)
    ELSE 0

Filled(acc, line) ==
    LET short  == Short(acc.db, line)
        room   == short = 0 \/ CanArrive(acc.db, short)
        d      == IF short > 0 /\ room
                  THEN Received(acc.db, line.location, line.location, short)
                  ELSE acc.db
        n      == IF line.source = NoPo THEN Min({line.ask, Have(d, line)}) ELSE line.ask
        slices == Fifo(d, Giving(d, line), n)
    IN  IF n = 0 THEN [acc EXCEPT !.db = d, !.ok = @ /\ room]
        ELSE [ok    |-> acc.ok /\ room /\ Remaining(d, Giving(d, line)) >= n,
              db    |-> Consumed(Bump(d, line.location, -n), slices),
              moves |-> Append(acc.moves, [location |-> line.location,
                                           quantity |-> n, slices |-> slices])]

(* releaseInvoiceStock: what it returns to each layer, and what it adds to *)
(* the count of each shelf.                                                *)
WrongReturned(moves) == IF moves = <<>> THEN Nothing ELSE moves[1].slices

Returned(moves) ==
    [i \in Lots |-> SumFunction([k \in DOMAIN moves |-> moves[k].slices[i]])]

GivenBack(moves, l) ==
    SumFunction([k \in DOMAIN moves |->
        IF moves[k].location = l THEN moves[k].quantity ELSE 0])

Released(d, moves) ==
    [Restored(d, Returned(moves)) EXCEPT
        !.stock = [l \in Locations |-> @[l] + GivenBack(moves, l)]]

WrongSaved(d, moves, cart) ==       \* takes before it gives back
    LET saved == FoldLeft(Filled, [ok |-> TRUE, db |-> d, moves |-> <<>>], cart)
    IN  [saved EXCEPT !.db = Released(@, moves)]

Saved(d, moves, cart) ==
    FoldLeft(Filled, [ok |-> TRUE, db |-> Released(d, moves), moves |-> <<>>], cart)

----------------------------------------------------------------------------
(* The operations                                                          *)

Amounts == 1..MaxQty

Only(i, n) == [Nothing EXCEPT ![i] = n]

(* A restock or a count corrected upwards; or the same by a scan that      *)
(* names no order, which leaves a row the scan can be undone from.         *)
AddStock(l, n) ==
    /\ CanArrive(db, n)
    /\ \E scanned \in BOOLEAN :
           db' = IF scanned
                 THEN [Added(db, l, n) EXCEPT !.scans[db.next] =
                          [doc |-> NoPo, location |-> l, quantity |-> n]]
                 ELSE Added(db, l, n)
    /\ UNCHANGED <<held, misplaced>>

(* A delivery of a purchase order, scanned in; the operator may accept     *)
(* more than was ordered, and an order that was cancelled can be reopened. *)
Receive(p, n) ==
    /\ CanArrive(db, n)
    /\ db' = [Received(db, p, Dock, n) EXCEPT !.scans[db.next] =
                 [doc |-> p, location |-> Dock, quantity |-> n]]
    /\ UNCHANGED <<held, misplaced>>

(* A line added to the shop's open tab is bought and taken at once.        *)
BuyAtShop(shop, n) ==
    /\ CanArrive(db, n)
    /\ db' = Received(db, shop, shop, n)
    /\ UNCHANGED <<held, misplaced>>

(* A counter sale, a count corrected downwards, a scan out: from the       *)
(* layers the operator picked, or the oldest.  Never given back.           *)
Sell(l, n) ==
    /\ n <= db.stock[l]
    /\ \E slices \in [Lots -> 0..n] :
           /\ SumFunction(slices) = n
           /\ \A i \in Lots : slices[i] > 0 =>
                  i \in OpenAt(db, l) /\ slices[i] <= db.lots[i].remaining
           /\ db' = Consumed(Bump(db, l, -n), slices)
    /\ UNCHANGED <<held, misplaced>>

MoveStock(from, to, n) ==
    LET taken == Fifo(db, OpenAt(db, from), n)
    IN  /\ from # to
        /\ n <= db.stock[from]
        /\ n <= Remaining(db, OpenAt(db, from))
        /\ HasRoom(db, Cardinality(Twinned(db, taken)))
        /\ db' = Bump(Bump(Relocated(db, to, taken), from, -n), to, n)
        /\ UNCHANGED <<held, misplaced>>

(* The scan names its own shelf, and its layer may have left it.           *)
UndoScan(i) ==
    LET scan == db.scans[i]
        back == Only(i, scan.quantity)
        undone == [Bump(Reversed(db, back), scan.location, -scan.quantity)
                       EXCEPT !.scans[i] = NoScan]
    IN  /\ scan # NoScan
        /\ Reversible(db, back)
        /\ db' = IF scan.doc = NoPo THEN undone
                 ELSE [undone EXCEPT !.receipts[scan.doc][i] = 0,
                                     !.checked[scan.doc] = Max({0, @ - scan.quantity})]
        /\ misplaced' = (misplaced \/ db.lots[i].location # scan.location)
        /\ UNCHANGED held

(* reverseReceivedLines: a received order is cancelled, or its receipt is  *)
(* undone.  A receipt keeps the shelf it was written with, through splits. *)
CancelPo(p) ==
    LET back == db.receipts[p]
        all  == SumFunction(back)
    IN  /\ db.checked[p] > 0
        /\ all = db.checked[p]
        /\ Reversible(db, back)
        /\ db' = [Bump(Reversed(db, back), Dock, -all)
                     EXCEPT !.receipts[p] = Nothing, !.checked[p] = 0]
        /\ misplaced' = (misplaced \/ \E i \in Lots : back[i] > 0 /\ db.lots[i].location # Dock)
        /\ UNCHANGED held

(* Removing a line of a tab goes by the shelf each of its layers is on.    *)
(* The layers of one line are the twins of one delivery.                   *)
LineLots(d, shop, since) ==
    {i \in Lots : d.receipts[shop][i] > 0 /\ d.lots[i].since = since}

RemoveTabLine(shop, since) ==
    LET line == LineLots(db, shop, since)
        back == [i \in Lots |-> IF i \in line THEN db.receipts[shop][i] ELSE 0]
        at(l) == SumFunctionOnSet(back, {i \in line : db.lots[i].location = l})
    IN  /\ line # {}
        /\ Reversible(db, back)
        /\ db' = [Reversed(db, back) EXCEPT
                    !.stock = [l \in Locations |-> @[l] - at(l)],
                    !.receipts[shop] = [i \in Lots |-> @[i] - back[i]],
                    !.checked[shop] = @ - SumFunction(back)]
        /\ UNCHANGED <<held, misplaced>>

(* saveInvoice gives back what the order held and takes what it now sells, *)
(* in one transaction; a change of its routing does the same.              *)
SaveOrder(s, cart) ==
    LET saved == Saved(db, held[s], cart)
    IN  /\ Restorable(db, Returned(held[s]))
        /\ saved.ok
        /\ db' = saved.db
        /\ held' = [held EXCEPT ![s] = saved.moves]
        /\ UNCHANGED misplaced

(* Voided or deleted.                                                      *)
VoidOrder(s) ==
    /\ held[s] # <<>>
    /\ Restorable(db, Returned(held[s]))
    /\ db' = Released(db, held[s])
    /\ held' = [held EXCEPT ![s] = <<>>]
    /\ UNCHANGED misplaced

Next ==
    \/ \E l \in Locations, n \in Amounts : AddStock(l, n) \/ Sell(l, n)
    \/ \E p \in Pos, n \in Amounts : Receive(p, n)
    \/ \E shop \in Shops, n \in Amounts : BuyAtShop(shop, n)
    \/ \E from, to \in Locations, n \in Amounts : MoveStock(from, to, n)
    \/ \E i \in Lots : UndoScan(i)
    \/ \E p \in Pos : CancelPo(p)
    \/ \E shop \in Shops, since \in Lots : RemoveTabLine(shop, since)
    \/ \E s \in Sales, cart \in Carts : SaveOrder(s, cart)
    \/ \E s \in Sales : VoidOrder(s)

Spec == Init /\ [][Next]_vars

----------------------------------------------------------------------------
(* Properties                                                              *)

AllHeld == [i \in Lots |-> SumFunction([s \in Sales |-> Returned(held[s])[i]])]

(* Every order can give back what it took, whatever was moved, undone,     *)
(* cancelled or sold since: restoreFifo (lots.ts) never finds a layer gone *)
(* or full, for all the orders together.                                   *)
ReleaseNeverRefused == Restorable(db, AllHeld)

(* What an order took is still accounted for by layers that exist, on the  *)
(* very shelf its move gives the count back to, so releaseInvoiceStock     *)
(* puts the layers and the count on the same shelf.                        *)
SlicesStayOnShelf ==
    \A s \in Sales : \A m \in ToSet(held[s]) :
        /\ SumFunction(m.slices) = m.quantity
        /\ \A i \in Lots : m.slices[i] > 0 =>
               Exists(db, i) /\ db.lots[i].location = m.location

OnHand == [l \in Locations |-> Remaining(db, OpenAt(db, l))]

(* assertStockLotsConsistent (lots.ts): the layers of a shelf add up to    *)
(* its count.  Over all shelves always; on each shelf until a receipt is   *)
(* reversed on another shelf than its layer's.                             *)
LayersMatchStock ==
    /\ SumFunction(OnHand) = SumFunction(db.stock)
    /\ ~misplaced => OnHand = db.stock

(* The same on each shelf and without exception, as the head of lots.ts    *)
(* says: "preserved by construction".                                      *)
LayersMatchEveryShelf == OnHand = db.stock

(* The receipts of an order account for what it has checked in, each names *)
(* a layer and all the layer received: cancelling never finds units that   *)
(* nothing accounts for, and a price entered later reaches every unit.     *)
ReceiptsAddUp ==
    \A doc \in Docs :
        /\ SumFunction(db.receipts[doc]) = db.checked[doc]
        /\ \A i \in Lots : db.receipts[doc][i] > 0 =>
               Exists(db, i) /\ db.receipts[doc][i] = db.lots[i].received

(* setInvoiceStatus: voiding a new order restores the layers "as if the    *)
(* order had never been written".                                          *)
AsIfNeverWritten ==
    [][\A s \in Sales :
          held[s] = <<>> /\ held'[s] # <<>> /\ db'.next = db.next
              => Released(db', held'[s]) = db]_vars

(* saveInvoice: saving again what was just saved takes the same units from *)
(* the same layers, and buys nothing a second time (a shelf whose count a  *)
(* misplaced reversal left short is bought for again and again).           *)
SavedAgainIsTheSame ==
    [][\A s \in Sales : held'[s] # held[s] => \A cart \in Carts :
          SaveOrder(s, cart) /\ ~misplaced =>
              Saved(db', held'[s], cart) = [ok |-> TRUE, db |-> db', moves |-> held'[s]]]_vars

(* relocateLots keeps a layer's place in the queue: an order that names no *)
(* purchase order leaves no unit on its shelf that arrived before one it   *)
(* took, wherever they were in between.                                    *)
OldestFirst ==
    [][\A s \in Sales : held'[s] # held[s] => \A cart \in Carts :
          SaveOrder(s, cart) /\ (\A k \in DOMAIN cart : cart[k].source = NoPo) =>
              \A m \in ToSet(held'[s]), i, j \in Lots :
                  m.slices[i] > 0 /\ j \in OpenAt(db', m.location)
                      => db'.lots[i].since <= db'.lots[j].since]_vars

Abstract ==
    INSTANCE Shelves WITH
        onHand <- OnHand,
        held <- [s \in Sales |-> [l \in Locations |-> GivenBack(held[s], l)]]

(* Layers, splits, receipts and tabs together implement Shelves: units are *)
(* never made or lost between the shelves and the orders.                  *)
ShelvesSpec == Abstract!Spec

=============================================================================
