----------------------------- MODULE SyncApply -----------------------------
(***************************************************************************)
(* What a laptop does with the rows it pulls: the page as one transaction, *)
(* then row by row, what it puts aside and replays, and what it does when  *)
(* one product arrives under a second id (src/main/db/sync.ts, the round   *)
(* around it in src/main/services/cloudSync.ts, first contact included).   *)
(*                                                                         *)
(* One product that several laptops created, each under an id of its own:  *)
(* its UPC is UNIQUE, so a laptop holds it under one id at a time.  Its    *)
(* cost layers (lots) are the children that point at it.                   *)
(*                                                                         *)
(* Awaiting and overlapping requests are Relay's and Sync's subject: here  *)
(* a push is one step, and so is a page of a pull with what follows it     *)
(* before the next await.  Users act between any two of these steps.       *)
(***************************************************************************)
EXTENDS Integers, FiniteSets, SequencesExt, Functions

CONSTANTS
    Laptops,
    Newcomers,    \* the laptops that have not been in touch with the relay yet
    Seed,         \* the id under which each of these was installed with the product
    Staffed,      \* the laptops somebody has set up: they have employees
    Ids,          \* the ids of the product, ordered as their texts are
    Lots,
    PageSize,     \* PULL_BATCH
    MaxEdits,     \* bound on what users do
    MaxFailures   \* bound on rounds that fail

ASSUME ApplyAssumption ==
    /\ Newcomers \subseteq Laptops
    /\ Ids \subseteq Nat \ {0} /\ Ids # {} /\ IsFiniteSet(Ids)
    /\ Seed \in [Newcomers -> Ids] /\ IsInjective(Seed)
    /\ Lots \cap Ids = {} /\ IsFiniteSet(Lots)
    /\ PageSize \in Nat \ {0}

VARIABLES
    desk,      \* the laptops' databases
    log,       \* the relay: one row for each record
    minted,    \* the ids laptops have made, of products and of lots
    now, edits, failures

vars == <<desk, log, minted, now, edits, failures>>

Nothing == 0
Records == Ids \cup Lots
NoRow   == [seq |-> 0, at |-> 0, by |-> Nothing, deleted |-> FALSE, to |-> Nothing]
Idle    == [at |-> 0, deleted |-> FALSE]

\* prod: the id of the product; lot: the id a lot points at; queue: sync_outbox;
\* kept: sync_rejects, with the id the row that was put aside points at.
Fresh(l, seed) ==
    [prod |-> seed, lot |-> [x \in Lots |-> Nothing], queue |-> [r \in Records |-> Idle],
     kept |-> [x \in Lots |-> Nothing], cursor |-> 0,
     stage |-> "idle", staffed |-> l \in Staffed, published |-> l \notin Newcomers]

\* Every installation seeds the catalog under ids of its own, before the
\* capture triggers are there: a newcomer holds the product, unqueued.
Init ==
    /\ desk = [l \in Laptops |-> Fresh(l, IF l \in Newcomers THEN Seed[l] ELSE Nothing)]
    /\ minted = {Seed[l] : l \in Newcomers}
    /\ log = [r \in Records |-> NoRow]
    /\ now = 0 /\ edits = 0 /\ failures = 0

----------------------------------------------------------------------------
(* What a write leaves in the outbox.                                      *)

QueuedAll(s, R, at, deleted) ==
    [s EXCEPT !.queue = [r \in Records |->
        IF r \in R THEN [at |-> at, deleted |-> deleted] ELSE @[r]]]

Pointing(s, id) == {x \in Lots : s.lot[x] = id}
Held(s)         == {x \in Lots : s.lot[x] # Nothing}
Shown(s)        == Held(s) \cup ({s.prod} \ {Nothing})
Pending(s)      == {r \in Records : s.queue[r].at # 0}

----------------------------------------------------------------------------
(* Landing one row.  `deferred` is the transaction for a whole page, where *)
(* foreign keys are checked at its end; in a transaction for one row they  *)
(* are checked at every statement.                                         *)

\* resolveTwin, for an incoming id that is smaller.  Children are moved to an
\* id that is not there yet: without the deferral that update is refused, the
\* refusal is swallowed, and the deletion of the old row cascades to them.
TakenOver(s, id, at, deferred) ==
    LET old   == s.prod
        its   == Pointing(s, old)
        moved == IF deferred THEN its ELSE {}
    IN  QueuedAll(
            QueuedAll([s EXCEPT !.prod = id,
                                !.lot = [x \in Lots |-> IF x \in moved THEN id
                                                        ELSE IF x \in its THEN Nothing ELSE @[x]]],
                      moved, at, FALSE),
            {old}, at, TRUE)

\* A tombstone cascades to the lots, with the capture triggers muted.
Buried(s, id) ==
    [s EXCEPT !.prod = IF @ = id THEN Nothing ELSE @,
              !.lot = [x \in Lots |-> IF @[x] = id THEN Nothing ELSE @[x]]]

\* A row that landed is captured like any other write.
EchoedLandProduct(s, row, at, deferred) ==
    IF row.deleted THEN Buried(s, row.rec)
    ELSE IF s.prod \in {Nothing, row.rec}
         THEN QueuedAll([s EXCEPT !.prod = row.rec], {row.rec}, at, FALSE)
    ELSE IF row.rec < s.prod THEN TakenOver(s, row.rec, at, deferred)
    ELSE s

\* The larger id is kept by the laptop that meets the smaller one.
LargerLandProduct(s, row, at, deferred) ==
    IF row.deleted THEN Buried(s, row.rec)
    ELSE IF s.prod \in {Nothing, row.rec} THEN [s EXCEPT !.prod = row.rec]
    ELSE IF row.rec > s.prod THEN TakenOver(s, row.rec, at, deferred)
    ELSE s

LandProduct(s, row, at, deferred) ==
    IF row.deleted THEN Buried(s, row.rec)
    ELSE IF s.prod \in {Nothing, row.rec} THEN [s EXCEPT !.prod = row.rec]
    ELSE IF row.rec < s.prod THEN TakenOver(s, row.rec, at, deferred)
    ELSE s

\* A lot whose product is not there is put aside (recordReject); one that
\* lands is no longer reported.
LandLot(s, row, deferred) ==
    IF row.deleted \/ deferred \/ row.to = s.prod
    THEN [s EXCEPT !.lot[row.rec] = IF row.deleted THEN Nothing ELSE row.to,
                   !.kept[row.rec] = Nothing]
    ELSE [s EXCEPT !.kept[row.rec] = row.to]

Land(s, row, at, deferred) ==
    IF row.rec \in Ids THEN LandProduct(s, row, at, deferred) ELSE LandLot(s, row, deferred)

\* What the foreign keys demand when a transaction commits.
Consistent(s) == \A x \in Lots : s.lot[x] \in {Nothing, s.prod}

\* One row after the other.
LandAll(s, rows, at, deferred) ==
    FoldLeft(LAMBDA t, row : Land(t, row, at, deferred), s, rows)

\* A page is committed without a look at its foreign keys.
WrongApplied(s, rows, at) == LandAll(s, rows, at, TRUE)

Applied(s, rows, at) ==
    LET whole == LandAll(s, rows, at, TRUE)
    IN  IF Consistent(whole) THEN whole ELSE LandAll(s, rows, at, FALSE)

\* The quarantine is replayed when a pull has drained.
Aside(s) == {x \in Lots : s.kept[x] # Nothing}
\* What was put aside stays aside.
WrongReplayed(s, at) == s

Replayed(s, at) ==
    Applied(s, SetToSeq({[rec |-> x, deleted |-> FALSE, to |-> s.kept[x]] : x \in Aside(s)}), at)

----------------------------------------------------------------------------
(* The relay, served one request at a time.                                *)

\* ORDER BY: the elements of a finite set, each after those that go before it.
InOrder(S, Before(_, _)) ==
    CHOOSE f \in SetToSeqs(S) : \A i, j \in DOMAIN f : i < j => ~Before(f[j], f[i])

Newest == LET seqs == {log[r].seq : r \in Records}
          IN  CHOOSE n \in seqs : \A k \in seqs : k <= n

\* Oldest first; in one instant the kinds in alphabetical order, lots first.
GoesBefore(s, q, r) ==
    \/ s.queue[q].at < s.queue[r].at
    \/ s.queue[q].at = s.queue[r].at /\ q \in Lots /\ r \in Ids

\* takeOutbox: a row as it is now, or a tombstone if it is gone by now.
Sent(l, r, seq) ==
    LET s == desk[l]
        gone == s.queue[r].deleted \/ r \notin Shown(s)
    IN  [seq |-> seq, at |-> s.queue[r].at, by |-> l, deleted |-> gone,
         to |-> IF gone \/ r \in Ids THEN Nothing ELSE s.lot[r]]

Wins(s, r) == s.queue[r].at >= log[r].at

NewsFor(l) == {r \in Records : log[r].seq > desk[l].cursor /\ log[r].by # l}
PageFor(l) == {r \in NewsFor(l) :
                 Cardinality({q \in NewsFor(l) : log[q].seq <= log[r].seq}) <= PageSize}

\* Parents before children, then by number.
AppliedBefore(q, r) ==
    \/ q \in Ids /\ r \in Lots
    \/ (q \in Ids <=> r \in Ids) /\ log[q].seq < log[r].seq
RowsOf(page) ==
    LET order == InOrder(page, AppliedBefore)
    IN  [i \in DOMAIN order |-> [rec |-> order[i], deleted |-> log[order[i]].deleted,
                                 to |-> log[order[i]].to]]

PageEnd(l) == IF PageFor(l) = {} THEN Newest
              ELSE CHOOSE n \in {log[r].seq : r \in PageFor(l)} :
                       \A r \in PageFor(l) : log[r].seq <= n

----------------------------------------------------------------------------
(* A round.                                                                *)

\* The clock is read when something is queued.
Ticks(l) == now' = IF desk'[l].queue = desk[l].queue THEN now ELSE now + 1

\* isBlankJoiner: nobody has set this laptop up, and nothing was pulled.
IsBlank(s) == ~s.staffed /\ s.cursor = 0

\* clearForJoin throws its placeholders away, unheard.
Join(l) ==
    /\ desk[l].stage = "idle" /\ IsBlank(desk[l])
    /\ desk' = [desk EXCEPT ![l] = [Fresh(l, Nothing) EXCEPT !.stage = "push",
                                                             !.published = @]]
    /\ UNCHANGED <<log, minted, now, edits, failures>>

\* GET /v1/state: only a laptop that finds the relay empty publishes.
Look(l) ==
    /\ desk[l].stage = "idle" /\ ~IsBlank(desk[l]) /\ ~desk[l].published
    /\ desk' = [desk EXCEPT ![l].stage = IF Newest = 0 THEN "publish" ELSE "looked"]
    /\ UNCHANGED <<log, minted, now, edits, failures>>

OnState(l) ==
    /\ desk[l].stage \in {"publish", "looked"}
    /\ LET s == IF desk[l].stage = "publish"
                THEN QueuedAll(desk[l], Shown(desk[l]), now + 1, FALSE) ELSE desk[l]
       IN  desk' = [desk EXCEPT ![l] = [s EXCEPT !.published = TRUE, !.stage = "push"]]
    /\ Ticks(l)
    /\ UNCHANGED <<log, minted, edits, failures>>

\* The next thing a round does is to drain the outbox, if there is anything
\* in it, and then to pull.
Begun(s) == s.stage = "push" \/ (s.stage = "idle" /\ ~IsBlank(s) /\ s.published)
Pulls(s) == s.stage = "pull" \/ (Begun(s) /\ Pending(s) = {})

\* The whole queue as one batch; what loses to a newer row is cleared as well.
Push(l) ==
    LET s    == desk[l]
        news == {r \in Pending(s) : Wins(s, r)}
        order == InOrder(news, LAMBDA q, r : GoesBefore(s, q, r))
    IN  /\ Begun(s) /\ Pending(s) # {}
        /\ log' = [r \in Records |->
                     IF r \in news
                     THEN Sent(l, r, Newest + CHOOSE i \in DOMAIN order : order[i] = r)
                     ELSE log[r]]
        /\ desk' = [desk EXCEPT ![l].queue = [r \in Records |-> Idle], ![l].stage = "pull"]
        /\ UNCHANGED <<minted, now, edits, failures>>

\* What the rows of a page make of a laptop; employees are among the first.
Landed(l) ==
    LET s == Applied(desk[l], RowsOf(PageFor(l)), now + 1)
    IN  [s EXCEPT !.staffed = @ \/ PageFor(l) # {}]

\* `more`: a page that is full is followed by another pull, if only to find none.
IsLast(l) == Cardinality(PageFor(l)) < PageSize

Pull(l) ==
    LET s == Landed(l)
    IN  /\ Pulls(desk[l])
        /\ desk' = [desk EXCEPT ![l] =
                      [(IF IsLast(l) THEN Replayed(s, now + 1) ELSE s) EXCEPT
                          !.cursor = PageEnd(l),
                          !.stage  = IF IsLast(l) THEN "idle" ELSE "pull"]]
        /\ Ticks(l)
        /\ UNCHANGED <<log, minted, edits, failures>>

\* The cursor is moved before the page is applied.
WrongPullAndDie(l) ==
    /\ Pulls(desk[l]) /\ PageFor(l) # {} /\ failures < MaxFailures
    /\ desk' = [desk EXCEPT ![l].cursor = PageEnd(l), ![l].stage = "idle"]
    /\ failures' = failures + 1
    /\ UNCHANGED <<log, minted, now, edits>>

\* The app is killed between applying a page and moving the cursor.
PullAndDie(l) ==
    /\ Pulls(desk[l]) /\ PageFor(l) # {} /\ failures < MaxFailures
    /\ desk' = [desk EXCEPT ![l] = [Landed(l) EXCEPT !.stage = "idle"]]
    /\ Ticks(l)
    /\ failures' = failures + 1
    /\ UNCHANGED <<log, minted, edits>>

\* A request fails, and the round with it.
Fail(l) ==
    /\ desk[l].stage # "idle" /\ failures < MaxFailures
    /\ desk' = [desk EXCEPT ![l].stage = "idle"]
    /\ failures' = failures + 1
    /\ UNCHANGED <<log, minted, now, edits>>

----------------------------------------------------------------------------
(* Users, on a laptop somebody has set up.                                 *)

Edited(l, s, R) ==
    /\ desk[l].staffed /\ edits < MaxEdits
    /\ edits' = edits + 1 /\ now' = now + 1
    /\ desk' = [desk EXCEPT ![l] = QueuedAll(s, R, now + 1, FALSE)]
    /\ UNCHANGED <<log, failures>>

CreateProduct(l) ==
    /\ desk[l].prod = Nothing
    /\ \E id \in Ids \ minted :
          /\ Edited(l, [desk[l] EXCEPT !.prod = id], {id})
          /\ minted' = minted \cup {id}

\* A receipt makes a lot and refreshes the product's average cost.
ReceiveLot(l) ==
    LET s == desk[l] IN
    /\ s.prod # Nothing
    /\ \E x \in Lots \ minted :
          /\ Edited(l, [s EXCEPT !.lot[x] = s.prod], {x, s.prod})
          /\ minted' = minted \cup {x}

\* A sale out of a lot, with the average cost again.
ConsumeLot(l) ==
    /\ \E x \in Held(desk[l]) : Edited(l, desk[l], {x, desk[l].prod})
    /\ UNCHANGED minted

----------------------------------------------------------------------------
(* Properties.                                                             *)

\* The databases, the queues and the relay keep their shape; what is committed
\* satisfies the foreign keys, and no cursor runs ahead of the relay.
ApplyTypeOK ==
    /\ \A l \in Laptops :
        /\ desk[l].prod \in Ids \cup {Nothing}
        /\ desk[l].lot \in [Lots -> Ids \cup {Nothing}]
        /\ desk[l].kept \in [Lots -> Ids \cup {Nothing}]
        /\ desk[l].queue \in [Records -> [at : 0..now, deleted : BOOLEAN]]
        /\ desk[l].cursor \in 0..Newest
        /\ Consistent(desk[l])
    /\ \A r \in Records : log[r].at \in 0..now

Linked(l) == ~IsBlank(desk[l])

\* Every round is over, and nothing waits to be sent or fetched.
Settled ==
    \A l \in Laptops :
        /\ Pending(desk[l]) = {} /\ NewsFor(l) = {}
        /\ desk[l].stage = "idle"
        /\ Linked(l) => desk[l].published

InLog(r)   == log[r].seq > 0
Published  == \E id \in Ids : InLog(id)
Beaten(id) == \E k \in Ids : k < id /\ InLog(k)
IsLeast(m) == m \in Ids /\ InLog(m) /\ ~Beaten(m)

\* However rows cross, a laptop that has nothing left to exchange holds the
\* product, under the smallest id on the relay; only one that was set up before
\* its first contact may still hold the id it was installed with, if that is
\* smaller (resolveTwin, "The smaller id wins").
SurvivorOrSeed ==
    Settled => \A l \in Laptops : \A m \in Ids : Linked(l) /\ IsLeast(m) =>
        \/ desk[l].prod = m
        \/ l \in Newcomers \cap Staffed /\ desk[l].prod = Seed[l] /\ Seed[l] < m

\* That exception is not what applyRows expects of resolveTwin: "the machine
\* that sent it will reach the same verdict and delete its own".  README.md
\* says how laptops with nothing left to exchange hold the product under two ids.
OneSurvivor ==
    Settled => \E id \in IF Published THEN Ids ELSE {Nothing} \cup Ids :
                   \A l \in {k \in Laptops : Linked(k)} : desk[l].prod = id

\* And no death is final for the product: an id that is buried on the relay has
\* a smaller one there that lives.  So the smallest id is never buried, by
\* whichever laptops, in whatever order, the others are.
DeadHaveHeirs ==
    \A id \in Ids : log[id].deleted =>
        \E k \in Ids : k < id /\ InLog(k) /\ ~log[k].deleted

\* What is put aside waits for a product the laptop does not hold: once a pull
\* has drained, no lot of the product that is there is left in quarantine.
NoneLeftAside ==
    [][\A l \in Laptops : \A x \in Aside(desk'[l]) :
          desk'[l].stage = "idle" /\ Pull(l) => desk'[l].kept[x] # desk'[l].prod]_vars

\* "A lot booked here under the old id keeps its stock and cost": no receipt is
\* lost over the merger, nor left in the quarantine of some laptop.  It is lost
\* when a tombstone overtakes the id that won: README.md says how.
LotsKept ==
    Settled => \A l \in Laptops : Linked(l) => Held(desk[l]) = minted \cap Lots

\* Resolving twins queues rows from inside an apply, which is otherwise what
\* the echo brake forbids.  With the runs' few edits a laptop does so at most
\* once for an id that a smaller one beats: it ends by itself, nothing else echoes.
Heard  == {id \in Ids : InLog(id) \/ \E l \in Laptops : id \in Pending(desk[l])}
Losers == {id \in Heard : \E k \in Heard : k < id}
EchoEnds ==
    now <= edits + Cardinality(Newcomers) + Cardinality(Laptops) * Cardinality(Losers)

----------------------------------------------------------------------------
Round(l) == Join(l) \/ Look(l) \/ OnState(l) \/ Push(l) \/ Pull(l)
Next ==
    \E l \in Laptops :
        \/ Round(l) \/ PullAndDie(l) \/ Fail(l)
        \/ CreateProduct(l) \/ ReceiveLot(l) \/ ConsumeLot(l)

Spec == Init /\ [][Next]_vars

=============================================================================
