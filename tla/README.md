# Verification of the RM Operations App

This directory holds TLA+ models of the parts of the RM Operations App where
order, failure and concurrency decide whether the company's records are right:
the relay through which laptops exchange their changes, the laptops' synchronisation with
it and what they make of the rows they pull, the relay's QuickBooks connection and
the invoices posted through it, the benches of the shipping floor, and the stock
with its cost layers. `PROJECT.json` is the index: components, runs, the
source lines of every definition, hazards, findings and theorems.

Paths below are relative to the repository.

## 1. The system

The app is an Electron (and web server) ERP for a sports card business. Every
laptop keeps a full SQLite database and works off line; a Cloudflare Worker in
front of a D1 database is the *relay* through which laptops exchange rows.
Laptops never talk to each other, and the relay never looks into a row.

| Component | State it keeps | Operations | Talks to |
|---|---|---|---|
| Relay change log (`cloud/worker.js` 271-487, `cloud/schema.sql`) | `sync_rows`: one row per record with number, stamp, content, author; `sync_seq`: one counter | push, pull, reset, status | laptops, by HTTP |
| Laptop sync (`services/cloudSync.ts`, `db/sync.ts`, `db/syncTriggers.ts`) | `sync_outbox`, `sync_state.cursor`, a flag that a round is running | a timer or a button starts a round; triggers capture every write | relay; every other module, through the tables |
| Applying incoming rows (`db/sync.ts` 300-1208, `db/syncTables.ts`) | `sync_rejects`, the tables themselves, derived stock | `applyRows`, `retryRejects`, `resolveTwin` | laptop sync |
| First contact (`cloudSync.ts` 300-335, `restoreOnBoot.ts`, `restore.ts`) | flags in `sync_state` | join, publish, restore, reset after restore | relay |
| Bench claims (`db/shipStations.ts`, `shared/shipStations.ts`, `db/shipImportDelete.ts`) | `ship_work_claims`, `packed_at` of shipments | claim, heartbeat, release, hand over, pack, reject, open again; deleting an import | other benches, through sync |
| Clock portal (`worker.js` 650-1120) | time entries, login attempts | punch, login | sync rows it writes itself |
| QuickBooks connection (`worker.js` 2600-3090) | tokens, a refresh lease | refresh, proxy | Intuit |
| Invoice posting (`invoicesIpc.ts`, `db/invoices.ts`) | status and QuickBooks id of an invoice | claim the push slot, create, mark as posted | QuickBooks connection |
| Cost lots and stock (`db/lots.ts`, `db/inventory.ts`, `db/invoiceStock.ts`) | `inventory_lots`, `inventory_stock`, `po_line_receipts`, `invoice_stock_moves` | receive, consume first in first out, reverse, relocate, save and void an order | receiving, scanning, invoices |
| Scanning, purchase orders, supplies, deals, consignment, time entries | their tables | single local transactions | lots |
| Reminders, web push, intake form (`worker.js`) | subscriptions, claims of a reminder | send, upload | push services |
| Server (`src/server`) | sessions and a login throttle in memory | sign in, serve | browser |
| Shipping import (but for its deletion), streaming, finance, messages, schedule, tracking, updater, renderer | their tables, or nothing | parsing, reports, screens | — |

### What is hard in it

- **The relay is not one transaction.** Each request is an invocation of the
  worker which awaits the database between statements. A push is two
  transactions (reserve numbers, write rows); a pull that finds no news is two
  reads. Invocations interleave, and may die, between them.
- **A laptop's round awaits the network while its user edits.** What a round
  read before an await may be stale after it.
- **Answers get lost.** A round that times out is retried from the outbox, and
  the abandoned request may still land, later than the retry.
- **Clocks differ.** Conflicts are settled by stamps that laptops make, which
  the relay clamps only beyond `MAX_CLOCK_SKEW_MS`.
- **Leases and slots** (bench claims, token refresh, invoice posting) are read
  and taken in several steps, or on several laptops that are off line.
- **Two books of the same goods**: lots and stock are changed by many callers.

`PROJECT.json` lists the hazards one by one, at the line where each bites, with
the properties that watch it or a note that none does yet.

### What makes each component correct

- Relay: numbers are given to one row only; a pull's cursor steps over nothing;
  an answered push is held; contents are last-write-wins and never lost; no
  clock wins for years.
- Laptop sync: no edit leaves the queue before the relay has it or something
  newer; what is pulled never replaces a newer edit; laptops that are up to date
  agree, deletions included; the fleet gets there.
- Applying: whatever page a row comes in and whatever is refused on the way, the
  fleet ends with one id for one product and with every receipt.
- Bench claims: benches that have all of each other's claims see the same holder of
  an order, so that two hold one only as long as something is on the way.
- Portal: at most one open time entry for an employee. Connection: a refresh
  token is spent once, its lease is no leak, and a disconnect stands. Posting: one
  document for an invoice as far as QuickBooks answers, the invoice carries it, and where no
  answer came the invoice is on a list to look at. Lots: the layers of a
  product on a shelf add up to its count, and an order can always give back what
  it took.

## 2. Modules

| Module | What it is |
|---|---|
| `Relay` | state and steps of the change log; `PushesHeld` and `NothingSteppedOver` |
| `OpenRelay` | the relay against any callers at all; its specification and invariants |
| `LwwMap` | the abstract promise: a last-write-wins map |
| `Sync` | a fleet of laptops against the relay, with fairness |
| `QboToken` | the worker's QuickBooks connection: refresh lease, tokens, disconnecting |
| `SyncApply` | what laptops make of the rows they pull: twins, rejects, tombstones, first contact |
| `ShipClaims` | the benches: claims, handoffs and packing, derived on every laptop from rows that travel |
| `InvoicePush` | one order on its way into QuickBooks, and everything that overlaps with it |
| `Stock` | layers, shelves, receipts and sales orders of one product |
| `Shelves` | the abstract promise of `Stock`: units on shelves and in orders |
| `MCOpenRelay`, `MCSync`, `MCQboToken`, `MCSyncApply`, `MCShipClaims`, `MCInvoicePush`, `MCStock` | small instances for TLC |
| `Relay_proofs` | facts about the relay's operators and steps, for both users of them |
| `OpenRelay_proofs` | type correctness, the invariants of `OpenRelay`, the refinement of `LwwMap` |
| `Sync_proofs` | type correctness of the fleet; that work is never on neither side, and never forgotten |
| `QboToken_proofs` | type correctness of the connection and that its lease is no leak |
| `ShipClaims_proofs` | type correctness of the benches; that a number names one claim, and that benches agree on the holder |
| `InvoicePush_proofs` | the safety properties of posting |
| `Stock_proofs` | facts about sums; the invariants of the stock, the refinement of `Shelves`, voiding, first in first out, saving again |
| `SyncApply_proofs` | facts about landing rows one after another; type correctness, which id survives, heirs, the quarantine |

`OpenRelay` and `Sync` both EXTEND `Relay`: the first says nothing about
callers, so that what it satisfies holds for the portal and other writers of
the log too; the second restricts the callers to laptops and adds their state.
`SyncApply` takes the other half of a round: there a request is one step, served
in order, and what happens between two requests is modelled in full. `ShipClaims`
rides on that sync too, a row at a time: batches and pages, and rounds that break off,
are sequences of its steps. `Stock` and
`InvoicePush` are about one laptop.

### Relay

`now`, `seqValue`, `syncRows` are the worker's clock, `sync_seq.value` and the
table; `calls[c]` is one invocation with its arguments and how far it has come.
The number of places in `Calls` is the number of requests in flight.

| Action | Code |
|---|---|
| `SendPush`, `SendPull` | a request arrives, with arguments the code would not refuse |
| `PushReserve` | stamps are clamped and `allocateSeq` reserves a block, one statement |
| `PushCommit` | the batch of upserts, one transaction; each row wins on its own (`WHERE excluded.updated_at >= ...`), and the answer counts them all |
| `PullRead` | the page: others' rows above the cursor, oldest first, at most `limit`; its highest number is the cursor |
| `PullHead` | no news: `COALESCE(MAX(seq), since)` over the table by then |
| `Reset` | `POST /v1/reset`: table and counter, one batch |
| `Hangup` | an invocation ends, dies, or its answer is lost |

The batch is the unit of a push's second transaction because the code sends one
`env.DB.batch`. A batch has each key once because the outbox is keyed by
`(kind, id)`. Clamping reads the clock when the request is served, before the
numbers are reserved; the two are one step because nothing is awaited between.

### Sync

`row`, `outbox`, `cursor`, `round` are a laptop's table, `sync_outbox`, cursor
and the round that runs (`running` allows one). The content of a record is the
number of the edit that wrote it, `Tombstone` stands for none. Two history variables are
read by properties only: `edited`, the last edit made on that laptop, and `overrun`, the
records whose queued edit a page was written over. The stamp stored with
`row` is for the properties too; no action reads it.

| Action | Code |
|---|---|
| `Edit`, `Delete` | any write of a synced table, with the capture trigger that queues it under the current time |
| `StartRound` | `tick` / `syncNow`: takes the first batch, or pulls if the outbox is empty |
| `OnPushReply` | `clearOutbox` with the stamps that were sent; then the next batch, unless the last was not full, then the pull |
| `OnPullReply` | `applyRows` with the triggers off, `setCursor`, then the next page or the end |
| `AbortRound` | timeout, error, or the app is killed; the request is gone or goes on |
| `CrashAfterApply` | the app is killed between `applyRows` and `setCursor` |
| `DropAnswer` | an answer nobody waits for |

`Sync` starts after a laptop's first round and no row of a page is rejected:
joining, publishing and rejects are the subject of `SyncApply`.
`applyRows` in the code does not compare stamps: it writes what the page says,
and so does `Applied`.

### QboToken

`row` is the one row of `qbo_connection`: refresh token, expiry of the access
token and lease. A token is a grant (one consent) and its number within it;
`newest` and `revoked` are Intuit's. `calls` are invocations: what they read of
the row, whether they hold the lease, until when they wait.

| Action | Code |
|---|---|
| `Begin`, `UseAsItIs` | a route reads the row; an access token in date is used |
| `Claim` | `UPDATE ... WHERE refresh_lock_until < now`: ask Intuit, or wait |
| `Poll`, `GiveUp` | `qboWaitForRefresh`: a look finds a later expiry; or the deadline has passed, and Intuit is asked without the lease, whatever has landed since the last look |
| `Refresh`, `Refuse` | Intuit rotates the token or not, and the answer may be lost; a refusal, timeout or network error |
| `Store` | `qboStoreTokens`, unconditional; its statement may fail, before or after it is done |
| `GiveBack` | the `catch` of `qboEnsureFresh`; its own statement may fail, which leaves the lease set (counted against `MaxMishaps`) |
| `Finish`, `Unauthorized` | the call itself; a 401 forces one more refresh from what the invocation holds |
| `Exchange`, `Adopt`, `ReadAdopted` | the two ways to connect |
| `Disconnect`, `Revoke`, `Clear` | the three steps of `disconnect` |
| `Kill`, `Tick` | the runtime |

Intuit is external. The worker relies on two facts about it, and so does the
model: a refresh may rotate the token, and the token before the newest is still
taken for a while. Each awaited statement is a step of its own; the clock's unit
stands for any span, so a poll interval is not modelled: a waiter looks at any
time, and gives up once its deadline has passed. The second look at the expiry that
`exchange`, `adopt` and `company` take just after a refresh is left out.

### SyncApply

`desk[l]` is a laptop's database: the id `prod` under which it holds the product
(its UPC is UNIQUE, so it holds one), the id each `lot` points at, the outbox
`queue`, the quarantine `kept`, the cursor, and how far its round has come.
`log` is the relay. Ids are ordered as their texts are.

| Action | Code |
|---|---|
| `Join` | `isBlankJoiner`, `clearForJoin`: a laptop nobody set up drops its placeholders |
| `Look`, `OnState` | `GET /v1/state`; only who finds the relay empty queues everything; two steps, since the answer is awaited |
| `Push` | the outbox, each row as it is now or as a tombstone, last write wins |
| `Pull` | `applyRows` on the page, the cursor, and after the last page `retryRejects`; a full page is not the last (`more`), so that an exact one is followed by an empty one |
| `PullAndDie`, `Fail` | the app dies between applying and `setCursor`; a request fails |
| `CreateProduct`, `ReceiveLot`, `ConsumeLot` | users, with the rows their transaction queues (a receipt and a sale refresh the product's average cost) |

`Applied` is the heart of it. A page lands in one transaction with deferred foreign
keys; if it cannot be committed it is rolled back and lands row by row, each in a
transaction in which foreign keys are immediate. `TakenOver` is `resolveTwin`:
children are moved and queued, the old row deleted, its tombstone queued. In the
immediate mode the move is refused, the `catch` swallows that, and the deletion
cascades to the children; what the two modes do was compared with SQLite itself.
`Buried` is an incoming tombstone, which cascades with the triggers muted.

### ShipClaims

Nothing stores who holds an order: every laptop derives it from `ship_work_claims`.
`desk[s]` and `relay` hold those rows and `packed_at`; `outbox[s]` are the claims bench
`s` has written and not sent, `news[s]` those others have sent and it has not fetched. A
claim is known by the stamp it was made at, and stamps are the numbers of the steps
that took them, so the laptops' clocks agree. Whether a claim has outlived its lease
depends on clocks and heartbeats, so every step works on a *view*: the laptop's rows
and any set of open claims that look lapsed to it just then, another set the next time.

| Action | Code |
|---|---|
| `StartOrEnd` | `startStationSession`, `endStationSession`: what the bench holds is released. No other channel asks whether a session is open |
| `TakeNext` | `pickNext`, `packNext` and the `claimOrder` in them, which names the last expired claim as superseded |
| `PickAdvance` | the order on the screen is handed over, on the bench's own claim or as a finished one recorded, and the next is taken |
| `PackDone` | the box is sealed, whether or not the claim still holds |
| `SendBack` | a rejection, with the bench's own handoffs of that order |
| `PackBack` | the last box this bench packed is opened again |
| `PutBack` | `releaseClaim` |
| `Heartbeat` | `heartbeatStation` writes every open claim of the bench, which queues it again |
| `Rehome`, `DeleteShow` | `deleteShipImport`: every bench's claims are stamped with the import that carried on; or the live import goes, with the orders and the claims on them |
| `Send`, `Fetch` | one claim, or its tombstone, reaches the relay, or a laptop |
| `SendBox`, `FetchBox` | one shipment, by its stamp |

A push or a pull of many rows is a sequence of `Send` or `Fetch`, in any order and broken
off anywhere, interleaved with everything else. Two laptops that write one claim (a
bench, and one that deletes its import) race; which of the two writes carries the later
stamp is not kept, so either may stay. Rows that the relay steps over (`relay_late`) are
not lost here.

`shipping:station:claim`, which claims a named order, is offered by the bridge and
called by no screen; `claimOrder` is reached through the actions above.
`reconcileClaims` has no caller at all: a bench that lost an order is not told to let go.
Which import a claim was made under is not kept: any claims may be those of the one
that is deleted, and those outside the live chain are not among the rows. Left out: who may
open a bench, and a carrier's status and `on_hold` (both take orders out of the lists only).

### InvoicePush

`row` is the order; `flying` is its membership in `pushesInFlight`; `call` what
each handler awaits; `desk` what the other handlers await, with what they read
before. A document is known by the attempt that made it, or is `Hand`, typed
into QuickBooks under the same number. `wire` are requests that may still arrive.

| Action | Code |
|---|---|
| `Start` | `pushToQbo` up to the request: the set, `claimPushSlot`; nothing is awaited in between |
| `Create` | QuickBooks (external) makes the document, whoever still waits |
| `Reply`, `Finish` | `markPosted`; then the attachment, the e-mail and the browser, until the `finally` takes the order out of the set |
| `Refuse`, `Silence` | `markPushFailed` on a refusal, and on a timeout or broken connection, when it is not known whether the document was made |
| `Crash` | everything in memory is gone |
| `Move` | `invoiceSetStatus`, which takes any status |
| `DeleteUnposted`, `DeleteAsk`, `DeleteThere`, `DeleteHere` | deleting an order, after asking QuickBooks to delete its document |
| `MatchAsk`, `MatchAnswer`, `MatchAdopt`, `MatchNothing` | binding an order to a document by number: any of its documents may be the only one under it, since QuickBooks may have renumbered the others |
| `CheckAsk`, `CheckAnswer` | the status pull, which moves on, along `INVOICE_TRANSITIONS`, from the status it read before the call |

### Stock

`db` is one laptop's tables for one product: `lots` (where a layer is, what it
received, what is left, its place `since` in the queue, which the halves of a split
share), `stock` on each shelf, `receipts` of purchase orders by layer, what
orders have `checked` in, and the `scans` that can be undone. `held` are the
moves of sales orders with the slices they took. Each action is one transaction;
where the code throws, the action is not enabled.

| Action | Code |
|---|---|
| `AddStock` | `addStock`, a count corrected upwards, a scan that names no order |
| `Receive` | `commitScan` with `receivePoLine`; the operator may accept more than was ordered |
| `BuyAtShop` | `addPurchaseOrderLines` on a shop's tab, `takeTabDelivery` |
| `Sell` | `recordSale`, `adjustStock` downwards, scanning out; picked layers or the oldest |
| `MoveStock` | `moveStock`, `relocateLots`, `splitLotReceipts` |
| `UndoScan`, `CancelPo`, `RemoveTabLine` | `undoScan`, `reverseReceivedLines`, `removeTabLine`; the first two by the shelf of the scan or receipt, the third by the layer's |
| `SaveOrder` | `releaseInvoiceStock`, then `applyInvoiceStock`, with `buyShortfallAtShop` for a shop that is short; also a change of routing |
| `VoidOrder` | `setInvoiceStatus` to void, `deleteInvoice` |

Consignments and the boxes of a show go through the same functions and are
further callers of `AddStock` and `Sell`. Quantities are whole: `roundQty` and the
two snaps (`maySnapShelf`, `bumpStock`) do nothing then. A purchase order's status
and prices are left out; whether an order is open decides only who may call.

`Shelves` says what the stock promises without layers or receipts: units come,
go, are carried between shelves, and an order that is written again gives back
what it held and takes what it sells, with nothing made or lost but what a shop sells
on the spot.

## 3. Runs

| Run | Result | What it shows |
|---|---|---|
| `relay` | holds | two requests of any callers, one reset: numbers, answers, stamps, last write wins |
| `relay_late` | violated | `NothingSteppedOver`: rows committed late are passed |
| `sync_serial` | holds | two laptops, one request at a time: agreement and convergence |
| `sync_overlap` | holds | two requests in flight, abandoned ones served on, edits and deletions at any time |
| `sync_newer` | violated | `NewerEditKept`: an edit made during a pull is overwritten by the page |
| `qbo_refresh` | holds | two invocations, one killed or one disconnect: the lease is no leak, every call ends |
| `stock` | holds | two shelves, one a shop, a purchase order, two sales orders: the books of the goods agree |
| `stock_undo` | violated | `LayersMatchEveryShelf`: a scan undone after its units were moved |
| `stations` | holds | two benches off line as long as they like, leases that look expired at any time, imports deleted |
| `invoice_push` | holds | two handlers, three attempts, lost answers, crashes, deletions, matches |
| `twins` | holds | three laptops, one that publishes and one that joins blank, and a product under several ids |
| `twins_lost` | violated | `LotsKept`: a tombstone overtakes the id that replaces the dead one |

The properties:

- `NumbersNeverShared` — no two rows share a number; a number reserved by a push
  that has not committed belongs to nobody else; none exceeds the counter.
- `AnsweredIsHeld` — an answered push is in the table, in that version or one
  not older.
- `StampsContained` — nothing is stored further ahead of the relay's clock than
  the tolerated skew.
- `LastWriteWins` — the contents refine `LwwMap`.
- `NothingSteppedOver` — a cursor passes only rows that are in the page or the
  caller's own.
- `QueuedOrHeld`, `NothingForgotten` — an edit is queued or held; and it is that
  edit, not an earlier one of the same stamp, unless a page was written over it in the queue
  (`overrun`).
- `NewerEditKept` — a queued edit is not replaced by an older pulled row.
- `SettledAgrees` — a laptop that is up to date shows what the relay holds.
- `EventuallySettled` — the fleet settles on the same records for good.
- `LeaseIsHeld` — a lease that is set belongs to an invocation that is out with a
  token, unless its holder was killed or could not give it back.
- `EveryCallEnds` — a crash costs a wait: a call that is not killed ends.
- `SurvivorOrSeed` — a laptop that has nothing left to exchange holds the product, under
  the smallest id on the relay, or under a smaller one it was installed with.
  `DeadHaveHeirs` — an id that is buried on the relay has a
  smaller one there that lives. `NoneLeftAside` — a pull that has drained leaves no lot in
  quarantine whose product is there. `EchoEnds` — a laptop queues rows of its own accord at
  most once for an id that a smaller one beats: safety, and with it an end to the echo.
- `LotsKept` — once all is exchanged, no laptop has lost a receipt, or left it in its quarantine.
- `OneHolderOnceExchanged` — benches that have sent and fetched all claims see the same
  holder of an order, or none, if they agree on who has gone quiet.
- `PostedOnce` — one document for an order, but for attempts whose answer never came.
  `AnsweredIsCarried` — an order that is there carries the document it was told of.
  `DoubtIsListed` — an order that may have a document and carries none is on the
  list of pushes to look at, unless it is void. `PushEnds` — no order is on its way for ever.
- `ReleaseNeverRefused` — all orders together can give back what they took.
  `SlicesStayOnShelf` — to the shelf it came from.
- `LayersMatchStock` — the layers add up to the counts: over all shelves always, and on
  each shelf until a receipt is reversed by another shelf than its layer's.
  `LayersMatchEveryShelf` — without that exception.
- `ReceiptsAddUp` — receipts account for every unit an order has checked in, and for
  the whole of each layer.
- `AsIfNeverWritten`, `SavedAgainIsTheSame` — voiding a new order restores the
  database; saving again what was just saved changes nothing.
- `OldestFirst` — an order leaves no unit behind that is older than one it took,
  wherever they were in between. `ShelvesSpec` — the refinement of `Shelves`.

What the violations show, step by step:

- `relay_late`: two pushes reserve, the later one commits, a pull takes its cursor
  past the earlier one's numbers, which then commits.
- `stock_undo`: one unit is scanned in at one shelf, driven to the other as a whole layer,
  and the scan undone: the first shelf counts -1, the second 1 that no layer backs.
- `sync_newer`: a laptop pulls; while the page with another laptop's version of a record is on
  its way its user edits the record, which is queued; the page is written over the edit. The next
  push sends what the table shows then, the older version, under the edit's stamp.
- `twins_lost`: one laptop pulls the losing id, the winning one, and a lot
  that points at an id it does not have. The page fails and lands row by row, so the
  laptop holds the loser for a moment, and announces its death. The winner has
  meanwhile been renumbered by a receipt, so the laptop that booked under the loser meets
  the tombstone in a page before the winner; the deletion takes its receipt.

Other disagreements between the code and what it says of itself, which the same modules exhibit.
No run is kept for them; each is an `INVARIANT` or `PROPERTY` that TLC violates in seconds under
the constants named:

- `NewerEditKept` (`Sync`; two records, `PushBatch = 2`, `ByteCap = TRUE`, all edits between
  rounds): a batch cut by `OUTBOX_MAX_BYTES` ends the push loop (`cloudSync.ts:345`), and the
  round pulls with edits queued, though `cloudSync.ts:291` says "Push, then pull. In that
  order, always".
- `SettledAgrees` (`Sync`; `DeletePhases` with `"pulling"`): a record that is deleted while a
  pull is awaited whose page holds it comes back on that laptop. Its tombstone is its own, so no
  pull returns it, though skipping one's own rows "is an optimisation, not a correctness
  requirement" (`worker.js:429-430`).
- `LaterEditWins` (`Sync`; `Skew <- Ahead`): with clocks one unit apart a later edit with the
  smaller stamp is refused, counted as accepted and cleared. "Two people editing the same
  record. The later edit wins." (`docs/CLOUDFLARE.md:651`).
- `RefreshedOnce` and `DisconnectStands` of `QboToken` (with a `Wait` longer than
  the clock, so that nobody gives up waiting): `qboEnsureFresh` works on the row its caller
  read before the lease was its own, and `qboStoreTokens` writes over a disconnect.
- `OneSurvivor` (`SyncApply`; two laptops, `Seed <- SeedOfOne`): a laptop that was set up before
  its first contact finds the relay not empty, so it does not publish, and drops the published
  id in favour of its own smaller one, of which nobody hears, although "the machine that sent
  it will reach the same verdict" (`sync.ts:754-755`).
- `NothingArbitrated` (`ShipClaims`): a bench hands its claim over, and before that has reached the
  laptop on which the import is deleted (`Rehome`), that laptop writes the claim too. "Every row in
  `ship_work_claims` is written by exactly one device. Nothing is ever arbitrated between two
  machines" (`shipStations.ts:27-29`).
- `ExpiredAreLost` (`ShipClaims`): two benches claim one order off line and both go quiet. Who
  takes the order names the later claim as superseded; the earlier one, which `holderOf`
  prefers, is revived by its bench's next heartbeat. "That makes the loss permanent, so a
  laptop that wakes up hours later does not quietly take the order back" (`shipStations.ts:267-269`).
- `VoidStaysVoid` (`InvoicePush`): a push starts, the order is voided and gives its boxes back, the
  answer comes and `markPosted` sets the status to `created`; a paid order goes back the same
  way. "And void is terminal" (`tests/invoices.test.ts:700`). (A person may take an order out of
  void: `setInvoiceStatus` takes any status, and the property is about the answer only.)
- `SurvivorIsStated` (`InvoicePush`): an order is deleted while its first push is awaited. There
  is no id to ask QuickBooks about, the document is made, `markPosted` updates no row, and
  nothing names the document any more, though a deletion tries QuickBooks first "so a
  surviving copy over there is stated rather than discovered later" (`invoices.ts:5087-5089`).
- `VoidedDoubtIsListed` (`InvoicePush`): a push times out and the order is voided. QuickBooks
  may hold its document, and `listInvoicesNeedingPush` leaves void orders out (line 2100), though
  "a push interrupted mid-flight needs a human eye" (2089-2090).
- `PostedOnce` without its exception, at the first lost answer that is retried.
- `LotsKept` of `twins_lost` needs no second lot: with four edits the joiner sells out of a lot
  between two pages; the next page brings the tombstone of the id the lot points at and lands row by
  row, the lot is put aside, and for the sale that is still queued `takeOutbox` finds no row,
  which it sends as a deletion.

### Why the bounds are enough

Two callers with two requests in flight give every order of the statements of
two invocations; each property of the relay relates two invocations, or one
and the table. Batches are one row, two rows (which win and lose independently)
and one from a clock far ahead; pages hold one row so that `more` matters. One
reset is enough to fall between the steps of any push. In the fleet two laptops,
one or two records and three edits suffice for a conflict, a third edit after it
is resolved, and a deletion; `MaxFailures = 1` puts a failure at any point of a
round, retries follow. `PUSH_BATCH` and the page limit are 1, so that every loop iterates. `MaxNow` bounds the clock: 2 or 3
instants give equal and different stamps.

In the connection two invocations meet in every order of their steps, `MaxMishaps`
puts one crash, one failed give-back or one disconnect between any two of them,
and with `Lease = 2` and `MaxNow = 3` a lease is taken, lapses and is taken
again. A call that starts before `MaxNow` is followed beyond it until it stops
waiting.

In `twins` one laptop has the product from its own installation (id 2) and publishes it, or
comes second to the relay and does not; another, which is linked already, creates it
under 1 or 3; the third joins blank and throws its own id, 4, away. Pages hold two
rows, so that an id, its tombstone and a lot that points at it are spread over pages. Two
edits are a creation and a receipt, or a receipt and a sale, before the merger, during it or
after it; two rounds fail, or laptops die after applying a page, at any point.
`twins_lost` has a second lot (the one that fails the page), four edits, and pages of three rows.

`stations` has one order, since the property is about the claims of one order,
and four stamps: claimed, handed over, claimed for packing, packed; or rejected, beaten to it,
touched, or deleted with its import instead. Both benches may do either job, and a claim can be
on the way in either direction between any two of these steps.

`invoice_push` has three attempts: two that overlap or follow each other,
and one after a crash or a lost answer. Handlers of other kinds are one each, since each
is judged again when it writes.

`stock` has three layers, which is a receipt split by a move with one more behind
it, deliveries of one or two units, and three units in all. The carts (`MCStock`)
sell two lines from one shelf, two units at the shop, and units of the named
purchase order followed by any. Two sales orders suffice to hold slices of one layer
against each other. With four layers the run takes longer than it is worth.

`sync_serial` has one place for requests, so invocations do not overlap.
This is not something the code guarantees: the run says what holds when they do
not, and `relay_late` shows what fails when they do. It also deletes between rounds only, and
its clocks agree; what fails otherwise is listed above. `sync_overlap` has none of these
restrictions but the last: users edit and delete in every phase of a round. `SameInstant` is FALSE: two
edits of one record in the same millisecond are told apart by nothing the code
stores, which the source accepts (`syncTriggers.ts` on the granularity of `TS`).
In the relay and the fleets no run deadlocks: the timer always starts another
round. The runs of the connection, the benches, posting and the stock stop when the
bounds on clock, tokens, stamps, attempts or layers let nothing further begin, or
when an order is gone, and have `CHECK_DEADLOCK FALSE` for that. `SYMMETRY` is used
only where every property is a state or step property; liveness is checked without it.

### Fairness

`WF` on answering and on the relay's steps: a running worker finishes, and the
app's event loop handles the answer it awaits. `SF` on `StartRound`: the timer
fires again and again; a place for the request must only be free infinitely
often, since places are the model's and a real laptop waits for nobody.
Users owe nothing, and failures are bounded, so that "in the end" means after
the last edit and the last failure.

In the connection, `WF` on what an invocation does by itself, each awaited call
having a deadline (`QBO_UPSTREAM_TIMEOUT_MS`), and `SF` on the clock, which no
traffic can hold up. Nobody has to send a request, and Intuit may fail always.

In `InvoicePush`, `WF` on what a push awaits: the answer comes, or
`QBO_CALL_TIMEOUT_MS` is over; and what follows it, the paper (`QBO_UPLOAD_TIMEOUT_MS`), the
e-mail and the browser, returns. Printing the paper and opening the browser have no deadline in the code;
that they return is assumed. Nothing obliges anybody to push, or QuickBooks to do
what it was asked. `SyncApply`, `ShipClaims` and `Stock` state no fairness: `Settled`
in `SurvivorOrSeed` and `LotsKept`, and `Exchanged` of the benches, say "when nothing is left to exchange", and
`EchoEnds` bounds what laptops queue of their own accord before that.

## 4. Proofs

All theorems hold for any number of laptops, records and concurrent requests,
and any batch sizes (in the connection, any number of invocations and any bounds);
they assume only the named assumptions on constants.

- `RelayTypeCorrect`, `SyncTypeCorrect` — the type invariants are inductive.
- `StampsAreContained` — inductive with the type invariant; uses that the clock
  never goes back and that a reserved push was clamped.
- `AnsweredPushesAreHeld` — inductive: committing writes the row or finds one
  not older, and no later commit makes a stamp smaller (`CommitIsNewer`).
- `NumbersHaveOneOwner` — `NumbersNeverShared` is inductive as stated, because it
  speaks of reserved numbers as well as stored ones: a block starts above the
  counter, so it is disjoint from everything at or below it.
- `CursorsAreWithinCounter` — from the previous one: what a pull reads is at
  most the counter.
- `RelayIsLastWriteWins` — the refinement: a commit is `Write`, a reset is
  `Wipe`, every other step leaves the contents alone.
- `WorkIsSafe` — `Spec => []QueuedOrHeld` when every clock is at most
  `MaxClockSkew` ahead of the relay's (`ClocksClose`; beyond it the clamp
  replaces the stamp, and the relay may hold a smaller one than the edit's).
  `QueuedOrHeld` is not inductive: the answer to a push is handled long after
  the batch was taken. `WorkIInv` adds that the requests of a laptop's round are
  its own and carry the batch it remembers (`RequestsAreOwn`), that the queue
  carries the stamp of the last edit (`QueueIsNewest`) and that answered pushes
  are held (`PushesHeld`).
- `NothingIsForgotten` — `NothingForgotten`, with edits and deletions at any time of a round,
  requests that overlap, are lost or outlive their rounds, and batches cut short. It assumes
  `ClocksClose` and `OneEditAnInstant`: see below.
- `QboTypeCorrect`, `LeaseIsNoLeak` — `LeaseIsHeld` is inductive with the type
  invariant: who takes the lease goes out with a token, and every way back
  (`Store`, `GiveBack`) and every overwriting of the row (`Adopt`, `Clear`) sets
  the lease to 0; all other steps but a kill or a give-back that fails leave it and its holders alone.
- `TypeCorrect`, `NumbersNameOneClaim` and `HolderIsAgreed` of the benches, for any number of
  benches, orders and stamps. `OneHolderOnceExchanged` is not inductive: it speaks of the
  moment when all is exchanged. `IInv` says how far a laptop may differ from the relay before:
  on a claim only while it is in the laptop's outbox or among its news (`Accounted`). What a
  bench writes goes to its outbox; what is sent is news to the others; a write that
  loses stays news to its sender, who will fetch what beat it. With numbers that name one
  claim and lie in the past (`Base`, `Unique`) each operation is shown to write such rows
  (`WriteKeeps`), `Rehome` and `Heartbeat` to touch only the outbox (`TouchKeeps`). In the end
  all laptops hold the relay's claims, and `holderOf` is a function of them.
- `OneDocument`, `DocumentIsCarried`, `DoubtIsAlwaysListed` and `PushTypeCorrect`, for
  any number of handlers and attempts. `PostedOnce` is not inductive: the
  next document is only on the wire when the decision to push falls. `OneAlive` extends
  it to the attempts that are awaited, `OneFlight` says that these are guarded by
  `pushesInFlight`, `Carried` that the order carries the document otherwise, so that
  `claimPushSlot` refuses; `Numbered` and `Awaited` keep attempts apart.

- `StockTypeCorrect`, `ReleasesNeverRefused`, `SlicesOnTheirShelf`, `LayersMatchTheStock`,
  `ReceiptsAlwaysAddUp` and `StockKeepsItsShelves`, for any number of shelves, shops,
  purchase and sales orders, any carts, layers and amounts. None of the properties is
  inductive. `StockInv` is their common invariant: the tables are `Sound`; each order's
  slices are on the shelf of their move and add up to it (`OnOwnShelf`); all orders'
  `Claims` together are restorable; and the `Gap` between the count of a shelf and
  its layers is 0 everywhere, or, once a reversal was misplaced, adds up to 0
  (`Balanced`). `Sound` holds two things that no property states and every reversal
  rests on: a receipt is for the whole of a layer that no other order's receipt
  names, and a scan is for its whole layer unless the layer was split since, in
  which case undoing it is refused (`Papers`). So what is reversed is a whole layer
  nothing was sold from, which no order has a claim on. `Kept` is what every
  action is shown to do: `StockInv` again, and one of four kinds of change to the
  shelves, which are the steps of `Shelves`. TLC has checked `StockInv` on the
  instance of the run `stock`.
- `VoidingRestores` and `OldestTakenFirst` — `AsIfNeverWritten` and `OldestFirst`, action
  properties. A cart of any length is walked line by line (`Walks`): giving back the
  last take undoes it (`TakenIsReleased`), so unless the walk has bought something
  (`next` has moved) all of it can be given back; and a line that may take of any layer
  leaves on the shelf only units no older than those any line took (`TakeIsInTurn`).
  That halves keep `since` is what both a move and this argument need.
- `SavingAgainChangesNothing` — `SavedAgainIsTheSame`, for any cart. Two walks over one cart
  are compared, line by line. What giving everything back would leave at a line of the
  first walk becomes, by its end, only `Wider`: all that was there, and what later lines
  bought at shops, in layers that came later (`StepWidens`, `EndIsWidest`). The second walk starts
  from that end. Layers that came later do not change what the oldest ones give
  (`WiderGives`); and a shop that bought what it was short of has enough now, unless its count
  was negative: the layers match it unless a reversal was `misplaced` (`WantsAgain`). So each
  line takes the same slices and buys nothing (`LineAgain`), and two databases that
  agree once the same moves are given back are the same (`ReleasedApart`).
- `NumbersNameOneClaim` (`OneClaimPerId`) and `CursorsAreWithinCounter` (`CursorWithinCounter`)
  are proved and in no run: they follow in a step or two from the invariants above.
- `ApplyTypeCorrect`, `DeadHaveHeirsHolds`, `SurvivorOrSeedHolds` and
  `NoneLeftAsideHolds`, for any number of laptops, edits and failures, any pages, and any
  finite sets of ids and lots. `SurvivorOrSeed` speaks of laptops that have nothing left to exchange,
  and says nothing of the way there. What is inductive is `ApplyInv`, which follows the smallest
  id that the relay was ever sent: an id is buried, or queued to be, only where a smaller one is
  on the relay (`HeirsAt`), so nobody ever announces the death of the smallest; a laptop whose
  cursor is past it, or that sent it, holds it or one that is smaller still (`SeenAt`); what a
  laptop holds is on the relay, in its queue, or what it was installed with (`HeardAt`). A lot is
  sent with its product or after it (`LotsAt`), so that a relay with rows has a product, and
  nothing comes from a laptop nobody has set up (`SilentAt`). TLC has checked `ApplyInv` on two instances.
  None of the four assumes anything of the ids laptops were installed with.

`WorkIsSafe` and `NothingIsForgotten` name what they assume of the constants. TLC finds a
violation of the property when either assumption is dropped:

| Theorem | Assumes | Because otherwise |
|---|---|---|
| `WorkIsSafe`, `NothingIsForgotten` | `ClocksClose` | the relay clamps the stamp of a laptop that is more than `MAX_CLOCK_SKEW_MS` ahead, and may hold a smaller one than the edit's |
| `NothingIsForgotten` | `OneEditAnInstant` | `clearOutbox` takes the first edit of a millisecond for the second; the source accepts that (`syncTriggers.ts:14-17`) |

The invariants of `NothingIsForgotten` build on `WorkIInv`:

- `ShownInv`: an entry of the queue carries the stamp of the laptop's last edit of that key, a
  queued deletion is a deletion, and a queued edit that no page was written over is what the
  table shows, from where a push reads it. Each row of a batch is of the queue it was taken
  from, as that stands at the time (`TakesAll`).
- `FaithfulCopies`: each copy of an edit, in a request or stored, is its laptop's last
  edit or carries an earlier stamp, unless a page was written over that edit. `QueuedOrHeld`
  says that what is stored is not older; the two together say that it is that very edit.

`SettledAgrees` is left to TLC: it needs one request at a time and clocks that agree, which
neither the worker nor the laptops grant, so a theorem under these assumptions would say
little about the code.

The proofs about `Stock` need facts about sums over sets and folds over sequences, which
the library defines as a chosen recursive function and about which it states nothing.
They are proved without an induction rule: if the claim failed for some subset of a
finite set, it would fail for a smallest one (`SmallestSet`, from the well-foundedness of
`<` on `Nat`), and that one is refuted by the equation of the recursion (`SumEquation`). That the
function exists is proved in the same way (`SumExists`, `FillExists`). In `SyncApply` a page is
a set of rows that land in the order of their numbers, each on what the ones before it left
(`LandAll`). That the order exists (`OrderExists`), that the fold takes a step for each row
(`LandingExists`), and that what one row does carries over to all of them (`LandAllReaches`,
`LandAllKeeps`) are argued in the same way, once; the rest is about one row at a time:
what a product row makes of a laptop (`LandProductDoes`, `ProdAfter`) and a lot
(`LandLotDoes`). `Stock` assumes
that the shelves and the sales orders are finite sets; the other sets may be infinite,
but for the layers, of which there are `MaxLots`.

Only model-checked: `EventuallySettled`, `EveryCallEnds` and `PushEnds` (liveness under
fairness is out of the prover's reach); `SettledAgrees`, for the reason just given; and
`EchoEnds`, whose count of one take-over for each laptop and beaten id is a claim about runs
with few edits: users who keep editing a buried product could have it taken over again. There
are no recursive operators.

## 5. Not modelled, and why

- Authentication, refusals that change nothing, snapshots and status of the relay.
- Contents of rows: `RELABEL_ON_CONFLICT`, `NEVER_OVERWRITE` and `FRESHER_ONLY` decide by
  column; the stock and supplies that are rebuilt after a pull are functions of the lots.
- Restoring a backup: it replaces the database under the program.
- Two laptops that post one order, and sync between them: nothing in the code keeps them
  apart, so there is no promise to check. A row that arrives whole (`upsertFor`)
  may take the QuickBooks id off an order, which can then be posted again.
- Payments (`quickbooks/payments.ts`): two handlers that overlap both read the balance
  before either posts, against "IT POSTS ONCE" (`shared/quickbooksPayment.ts:31`).
- Fractions of a box: a giveaway item is counted in pieces of one, with rounding and snaps
  (`lots.ts:48-150`). `consumeFromPo` asks of its order's layers whether dust may go,
  `bumpStock` of the shelf; and a product that stops being fractional keeps its dust.
- Costs, prices and what is restated when one is entered late.
- `forceDeletePurchaseOrder`, deleting products, counting and resetting stock.
- The clock portal, reminders, intake, the server's sessions: see the plan.
- Reports, parsing, screens, one-transaction editing of single records: no protocol, and
  tests reach them. `PROJECT.json` lists every part with its reason. Most of the
  repository's lines are of this kind.

## 6. Plan

1. `Relay`, `OpenRelay`, `LwwMap`, `Sync`, `QboToken` and their proofs — done.
2. `ShipClaims`, `InvoicePush` and their proofs — done.
3. `Stock` with `Shelves` and its proofs, `SyncApply` and its proofs — done.
4. `ClockPortal`: at most one open entry for an employee, and the attempts counter.
5. First contact of several laptops that all have data.
6. `SettledAgrees` under assumptions the deployment grants, or what overlapping rounds leave of
   it; `NothingIsForgotten` is proved.
7. `SyncApply`: what survives of the receipts of a product that keeps being edited, a `LotsKept`
   that names the edits it survives. Which id survives, heirs and the quarantine are proved.
8. `ShipClaims`: how long two benches may disagree. That they agree once all is exchanged is proved.
9. `Stock`: fractions of a box. Saving again is proved.
