---------------------------- MODULE InvoicePush ----------------------------
(***************************************************************************)
(* One sales order on its way into QuickBooks (src/main/invoicesIpc.ts,    *)
(* src/main/db/invoices.ts): its row, the handlers of the one main process *)
(* that overlap whenever they await QuickBooks, and the documents          *)
(* QuickBooks ends up with.                                                *)
(*                                                                         *)
(* A push is known by the number of its attempt, and so is the document it *)
(* makes; document Hand was typed into QuickBooks by somebody, under the   *)
(* same invoice number.  0 is "no document".                               *)
(*                                                                         *)
(* An operator Wrong... is its successor with a bug.                       *)
(***************************************************************************)
EXTENDS Integers, FiniteSets

CONSTANTS
    Calls,          \* handlers that may push at once
    MaxTries        \* bound: attempts to push

ASSUME PushAssumption == MaxTries \in Nat

VARIABLES
    row,            \* the row of the order
    flying,         \* pushesInFlight holds the order
    call,           \* the attempt of each handler
    after,          \* the handlers that were answered, and not done yet
    desk,           \* what the other handlers wait for, see Desks
    wire,           \* requests to create a document that may still arrive
    books,          \* the documents QuickBooks holds
    tries,          \* attempts so far
    lost            \* attempts whose answer never came, for the properties

vars == <<row, flying, call, after, desk, wire, books, tries, lost>>

Tries  == 1..MaxTries
Hand   == MaxTries + 1
Docs   == 1..Hand
Stages == {"draft", "created", "sent", "paid", "void"}
Pushes == {"none", "pending", "failed", "ok"}

Rows == [here : BOOLEAN, status : Stages, doc : 0..Hand, push : Pushes]

(* removing is the document a deletion waits for; match, found a search by *)
(* number and its only answer; check the status a status pull started from *)
Desks == [removing : 0..Hand,
          match : {"idle", "asked", "answered"}, found : 0..Hand,
          check : Stages \cup {"idle"}]

PushTypeOK ==
    /\ row \in Rows
    /\ flying \in BOOLEAN
    /\ call \in [Calls -> 0..MaxTries]
    /\ after \subseteq Calls
    /\ desk \in Desks
    /\ wire \subseteq Tries
    /\ books \subseteq Docs
    /\ tries \in 0..MaxTries
    /\ lost \subseteq Tries

NoCalls == [c \in Calls |-> 0]

AtRest == [removing |-> 0, match |-> "idle", found |-> 0, check |-> "idle"]

Saved == [here |-> TRUE, status |-> "draft", doc |-> 0, push |-> "none"]

Init ==
    /\ row = Saved
    /\ flying = FALSE
    /\ call = NoCalls
    /\ after = {}
    /\ desk = AtRest
    /\ wire = {}
    /\ books \in {{}, {Hand}}
    /\ tries = 0
    /\ lost = {}

----------------------------------------------------------------------------
(* What the statements of db/invoices.ts make of a row                     *)

(* INVOICE_TRANSITIONS                                                     *)
Onward == [s \in Stages |->
    CASE s = "draft"   -> {"created", "sent", "paid", "void"}
      [] s = "created" -> {"sent", "paid", "void"}
      [] s = "sent"    -> {"paid", "void"}
      [] OTHER         -> {}]

WrongClaimed(r) == r                    \* stamped after the call

Claimed(r) == [r EXCEPT !.push = "pending"]

Posted(r, d) == [r EXCEPT !.doc = d, !.status = "created", !.push = "ok"]

WrongRefused(r) == [r EXCEPT !.push = "error"]

Refused(r) == [r EXCEPT !.push = "failed"]

WrongAdopted(r, d) == [r EXCEPT !.doc = d, !.push = "ok"]

Adopted(r, d) ==
    IF r.doc = 0 THEN [r EXCEPT !.doc = d, !.push = "ok"] ELSE r

(* invoiceStageRefusal: a voided order does not go to the packing list,    *)
(* and any other move is made                                              *)
Moved(r, s) ==
    IF s = "sent" /\ r.status = "void" THEN r ELSE [r EXCEPT !.status = s]

(* An UPDATE finds no row that was deleted.                                *)
Write(r) == row' = IF row.here THEN r ELSE row

----------------------------------------------------------------------------
(* pushToQbo, from the snapshot to the request: nothing awaits in between  *)

WrongFree == TRUE

Free == ~flying

Start(c) ==
    LET d == tries + 1
    IN  /\ call[c] = 0
        /\ row.here /\ row.status # "void" /\ row.doc = 0
        /\ Free
        /\ d \in Tries
        /\ Write(Claimed(row))
        /\ flying' = TRUE
        /\ call' = [call EXCEPT ![c] = d]
        /\ tries' = d
        /\ wire' = wire \cup {d}
        /\ UNCHANGED <<after, desk, books, lost>>

(* QuickBooks makes the document, whoever still waits for it               *)
Create(d) ==
    /\ d \in wire
    /\ wire' = wire \ {d}
    /\ books' = books \cup {d}
    /\ UNCHANGED <<row, flying, call, after, desk, tries, lost>>

(* the finally of pushToQbo                                                *)
WrongEnded(c) == call' = [call EXCEPT ![c] = 0] /\ UNCHANGED flying

Ended(c) == call' = [call EXCEPT ![c] = 0] /\ flying' = FALSE

(* the handler has sent its request and has no answer                      *)
Waits(c) == call[c] # 0 /\ c \notin after

(* the document was made, though somebody may have removed it since        *)
Reply(c) ==
    LET d == call[c]
    IN  /\ Waits(c) /\ d \notin wire
        /\ Write(Posted(row, d))
        /\ after' = after \cup {c}
        /\ UNCHANGED <<flying, call, desk, wire, books, tries, lost>>

(* the paper is attached, the e-mail sent, the browser opened, or not      *)
Finish(c) ==
    /\ c \in after
    /\ Ended(c)
    /\ after' = after \ {c}
    /\ UNCHANGED <<row, desk, wire, books, tries, lost>>

(* a customer or an item is missing, the network is down, Intuit objects   *)
Refuse(c) ==
    LET d == call[c]
    IN  /\ Waits(c) /\ d \in wire
        /\ Write(Refused(row))
        /\ Ended(c)
        /\ wire' = wire \ {d}
        /\ UNCHANGED <<after, desk, books, tries, lost>>

(* QBO_CALL_TIMEOUT_MS is over, or the connection broke                    *)
Silence(c) ==
    /\ Waits(c)
    /\ Write(Refused(row))
    /\ Ended(c)
    /\ lost' = lost \cup {call[c]}
    /\ UNCHANGED <<after, desk, wire, books, tries>>

(* the program is killed and started again                                 *)
Crash ==
    /\ flying' = FALSE
    /\ call' = NoCalls
    /\ after' = {}
    /\ desk' = AtRest
    /\ lost' = lost \cup {call[c] : c \in {e \in Calls : Waits(e)}}
    /\ UNCHANGED <<row, wire, books, tries>>

----------------------------------------------------------------------------
(* What people do meanwhile                                                *)

(* a card is moved, to whatever stage is asked for                         *)
Move(s) ==
    /\ row.here
    /\ Write(Moved(row, s))
    /\ UNCHANGED <<flying, call, after, desk, wire, books, tries, lost>>

DeleteUnposted ==
    /\ row.here /\ row.doc = 0
    /\ Write([row EXCEPT !.here = FALSE])
    /\ UNCHANGED <<flying, call, after, desk, wire, books, tries, lost>>

DeleteAsk ==
    /\ row.here /\ row.doc # 0
    /\ desk.removing = 0
    /\ desk' = [desk EXCEPT !.removing = row.doc]
    /\ UNCHANGED <<row, flying, call, after, wire, books, tries, lost>>

DeleteThere ==
    /\ desk.removing \in books
    /\ books' = books \ {desk.removing}
    /\ UNCHANGED <<row, flying, call, after, desk, wire, tries, lost>>

(* with the document gone, or refused: the row goes either way             *)
DeleteHere ==
    /\ desk.removing # 0
    /\ desk' = [desk EXCEPT !.removing = 0]
    /\ Write([row EXCEPT !.here = FALSE])
    /\ UNCHANGED <<flying, call, after, wire, books, tries, lost>>

(* binding the order to a document by its number: judged on the snapshot   *)
MatchAsk ==
    /\ desk.match = "idle"
    /\ row.here
    /\ row.status \notin {"void", "paid"}
    /\ row.push # "pending"
    /\ desk' = [desk EXCEPT !.match = "asked"]
    /\ UNCHANGED <<row, flying, call, after, wire, books, tries, lost>>

(* the only document under the number; QuickBooks may have given any other *)
(* of the order another number                                             *)
MatchAnswer ==
    /\ desk.match = "asked"
    /\ \E d \in books :
           desk' = [desk EXCEPT !.match = "answered", !.found = d]
    /\ UNCHANGED <<row, flying, call, after, wire, books, tries, lost>>

MatchAdopt ==
    /\ desk.match = "answered"
    /\ desk' = [desk EXCEPT !.match = "idle", !.found = 0]
    /\ Write(Adopted(row, desk.found))
    /\ UNCHANGED <<flying, call, after, wire, books, tries, lost>>

MatchNothing ==
    /\ desk.match = "asked"
    /\ desk' = [desk EXCEPT !.match = "idle"]
    /\ UNCHANGED <<row, flying, call, after, wire, books, tries, lost>>

(* the status pull, which moves a card from the status it started from     *)
CheckAsk ==
    /\ desk.check = "idle"
    /\ row.here /\ row.doc # 0
    /\ desk' = [desk EXCEPT !.check = row.status]
    /\ UNCHANGED <<row, flying, call, after, wire, books, tries, lost>>

CheckAnswer ==
    /\ desk.check # "idle"
    /\ \/ \E s \in Onward[desk.check] : Write(Moved(row, s))
       \/ Write(row)
    /\ desk' = [desk EXCEPT !.check = "idle"]
    /\ UNCHANGED <<flying, call, after, wire, books, tries, lost>>

----------------------------------------------------------------------------
Push == \E c \in Calls :
    Start(c) \/ Reply(c) \/ Finish(c) \/ Refuse(c) \/ Silence(c)

Desk ==
    \/ \E s \in Stages : Move(s)
    \/ DeleteUnposted \/ DeleteAsk \/ DeleteThere \/ DeleteHere
    \/ MatchAsk \/ MatchAnswer \/ MatchAdopt \/ MatchNothing
    \/ CheckAsk \/ CheckAnswer

Next ==
    \/ Push \/ Desk \/ Crash
    \/ \E d \in Tries : Create(d)

Spec == Init /\ [][Next]_vars

(* a call of QuickBooks that nobody answers times out, and what follows an *)
(* answer comes to an end                                                  *)
Fairness == \A c \in Calls :
    WF_vars(Reply(c) \/ Finish(c) \/ Refuse(c) \/ Silence(c))

FairSpec == Spec /\ Fairness

----------------------------------------------------------------------------
(* The documents of attempts that were answered, or still may be           *)
Owned == books \ (lost \cup {Hand})

IsWaitedFor(d) == \E c \in Calls : Waits(c) /\ call[c] = d

(* However pushes, retries, deletions and matches overlap and whenever the *)
(* program dies, one order is one document in the books, but for those     *)
(* whose answer never came (pushToQbo: "It posts once").                   *)
PostedOnce == \A d, e \in Owned : d = e

(* As long as the order is there, it carries the document it was told of,  *)
(* even when it was bound to another while the push was out (markPosted,   *)
(* adoptQboInvoice).  Of an order that was deleted this says nothing.      *)
AnsweredIsCarried ==
    row.here => \A d \in Owned : row.doc = d \/ IsWaitedFor(d)

(* ... and deleting it leaves no document that the deletion did not know   *)
(* of (deleteInvoice: "so a surviving copy over there is stated rather     *)
(* than discovered later").  It does: README.md says how.                  *)
SurvivorIsStated ==
    ~row.here => \A d \in Owned : row.doc = d \/ IsWaitedFor(d)

(* listInvoicesNeedingPush                                                 *)
Listed ==
    row.here /\ row.doc = 0 /\ row.push \in {"pending", "failed"}
             /\ row.status # "void"

(* QuickBooks holds a document of the order, or may yet, and the order     *)
(* knows of none.                                                          *)
InDoubt == row.here /\ row.doc = 0 /\ (books \cup wire) \cap Tries # {}

(* Such an order is on the list of pushes that need an eye, unless it is   *)
(* void: whoever takes it out of void finds it there again                 *)
(* (claimPushSlot, listInvoicesNeedingPush).                               *)
DoubtIsListed == InDoubt /\ row.status # "void" => Listed

(* "'pending' is included because a push interrupted mid-flight needs a    *)
(* human eye": also when the order is voided afterwards.  It is not.       *)
VoidedDoubtIsListed == InDoubt /\ ~flying => Listed

(* No order is "on its way" for ever, locked out of every later push (the  *)
(* in-flight set of pushToQbo).                                            *)
PushEnds == flying ~> ~flying

(* An order that was voided, and gave its boxes back, is not taken out of  *)
(* void by what QuickBooks answers to its push (INVOICE_TRANSITIONS; "void *)
(* is terminal" in tests/invoices.test.ts).                                *)
VoidStaysVoid ==
    [][Push => (row.status = "void" /\ row'.here => row'.status = "void")]_vars
=============================================================================
