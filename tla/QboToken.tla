------------------------------ MODULE QboToken ------------------------------
(***************************************************************************)
(* The relay's QuickBooks connection (cloud/worker.js, "Job 4"): one row   *)
(* with the grant's refresh token, the expiry of its access token and a    *)
(* lease.  Every call to QuickBooks is an invocation of the worker that    *)
(* reads the row, and when the access token is stale swaps the refresh     *)
(* token at Intuit and stores what it got.  Whoever takes the lease does   *)
(* so; the others poll the row until somebody's answer has landed, and     *)
(* when their patience ends they ask Intuit too.                           *)
(*                                                                         *)
(* Intuit is external and modelled from what the worker relies on: each    *)
(* refresh may rotate the token, and the token before the newest is still  *)
(* accepted.  `now` ticks in units of Wait, the patience of a waiter.      *)
(*                                                                         *)
(* An operator Wrong... is its successor with a bug.                       *)
(***************************************************************************)
EXTENDS Integers, FiniteSets

CONSTANTS
    Calls,          \* places for worker invocations
    Wait,           \* QBO_REFRESH_WAIT_MS
    Timeout,        \* QBO_UPSTREAM_TIMEOUT_MS
    Lease,          \* QBO_REFRESH_LEASE_MS
    Ttl,            \* how long an access token lives
    EarlyBy,        \* QBO_REFRESH_SKEW_MS
    MaxGrants,      \* bound: how often somebody consents
    MaxTokens,      \* bound: no call starts after that many rotations
    MaxMishaps,     \* bound: disconnects, and invocations that die or fail to give back
    MaxNow          \* bound: the model's last instant

Grants == 1..MaxGrants

ASSUME QboAssumption ==
    /\ {Wait, Timeout, Lease, Ttl} \subseteq Nat \ {0}
    /\ {EarlyBy, MaxGrants, MaxTokens, MaxMishaps, MaxNow} \subseteq Nat
    /\ Timeout < Lease

VARIABLES
    now,
    row,            \* the table qbo_connection: [token, expires, lock]
    calls,          \* the invocations
    newest,         \* Intuit: [Grants -> Nat], the newest token of a grant
    revoked,        \* Intuit: the grants that were revoked
    ended,          \* history: the grants a disconnect was meant to end
    kills, disconnects

vars == <<now, row, calls, newest, revoked, ended, kills, disconnects>>

----------------------------------------------------------------------------
(* The nth refresh token of a grant.                                       *)
Tokens  == [grant : Grants, nth : Nat]
NoToken == [grant |-> 0, nth |-> 0]

Conns   == [token : Tokens \cup {NoToken}, expires : Nat]
NoConn  == [token |-> NoToken, expires |-> 0]

Phases == {"free", "read", "waiting", "asking", "answered", "failed", "ready",
           "exchanged", "adopted", "revoking", "revoked"}

(* conn is what the invocation read of the row, got is Intuit's answer,    *)
(* retried says that QuickBooks has answered 401 before.                   *)
Free == [phase |-> "free", conn |-> NoConn, forced |-> FALSE, retried |-> FALSE,
         leased |-> FALSE, deadline |-> 0, got |-> NoToken]

Invocations ==
    [phase : Phases, conn : Conns, forced : BOOLEAN, retried : BOOLEAN,
     leased : BOOLEAN, deadline : Nat, got : Tokens \cup {NoToken}]

(* The one type invariant of the connection.                               *)
QboTypeOK ==
    /\ now \in Nat
    /\ row \in [token : Tokens \cup {NoToken}, expires : Nat, lock : Nat]
    /\ calls \in [Calls -> Invocations]
    /\ newest \in [Grants -> Nat]
    /\ revoked \cup ended \subseteq Grants \cup {NoToken.grant}
    /\ kills \in 0..MaxMishaps
    /\ disconnects \in 0..MaxMishaps

(* After /v1/qbo/config: keys, and no grant yet.                           *)
Init ==
    /\ now = 1
    /\ row = [token |-> NoToken, expires |-> 0, lock |-> 0]
    /\ calls = [c \in Calls |-> Free]
    /\ newest = [g \in Grants |-> 0]
    /\ revoked = {}
    /\ ended = {}
    /\ kills = 0
    /\ disconnects = 0

WrongSnapshot == row        \* hands the bookkeeping out too

Snapshot == [token |-> row.token, expires |-> row.expires]

Goes(c, call) == calls' = [calls EXCEPT ![c] = call]

Reads(forced) ==
    [Free EXCEPT !.phase = "read", !.conn = Snapshot, !.forced = forced]

Asks(call, leased) ==
    [call EXCEPT !.phase = "asking", !.leased = leased, !.deadline = now + Timeout]

(* qboEnsureFresh returns conn.                                            *)
Ready(call, conn) ==
    [Free EXCEPT !.phase = "ready", !.conn = conn, !.retried = call.retried]

----------------------------------------------------------------------------
(* qboConnection, then qboEnsureFresh                                      *)

(* A request that needs QuickBooks reads the row.                          *)
Begin(c) ==
    /\ calls[c] = Free
    /\ row.token # NoToken
    /\ newest[row.token.grant] < MaxTokens
    /\ now < MaxNow
    /\ Goes(c, Reads(FALSE))
    /\ UNCHANGED <<now, row, newest, revoked, ended, kills, disconnects>>

IsFresh(call) == ~call.forced /\ call.conn.expires - EarlyBy > now

UseAsItIs(c) ==
    /\ calls[c].phase = "read"
    /\ IsFresh(calls[c])
    /\ Goes(c, Ready(calls[c], calls[c].conn))
    /\ UNCHANGED <<now, row, newest, revoked, ended, kills, disconnects>>

LeaseIsFree == row.lock < now

(* One conditional UPDATE takes the lease, or finds it taken.              *)
Claim(c) ==
    /\ calls[c].phase = "read"
    /\ ~IsFresh(calls[c])
    /\ IF LeaseIsFree
       THEN /\ row' = [row EXCEPT !.lock = now + Lease]
            /\ Goes(c, Asks(calls[c], TRUE))
       ELSE /\ Goes(c, [calls[c] EXCEPT !.phase = "waiting", !.deadline = now + Wait])
            /\ UNCHANGED row
    /\ UNCHANGED <<now, newest, revoked, ended, kills, disconnects>>

(* Somebody's answer has landed in the row since the call was read.        *)
Landed(call) == row.expires > call.conn.expires

(* qboWaitForRefresh: it has, and the waiter's call goes on with it.       *)
Poll(c) ==
    /\ calls[c].phase = "waiting"
    /\ Landed(calls[c])
    /\ Goes(c, Ready(calls[c], Snapshot))
    /\ UNCHANGED <<now, row, newest, revoked, ended, kills, disconnects>>

WrongGiveUp(c) ==           \* waits until the lease is given back
    /\ calls[c].phase = "waiting"
    /\ row.lock = 0
    /\ Goes(c, Asks(calls[c], FALSE))
    /\ UNCHANGED <<now, row, newest, revoked, ended, kills, disconnects>>

(* Past the deadline it refreshes without the lease.  It does not look at  *)
(* the row again: an answer may have landed since its last look.           *)
GiveUp(c) ==
    /\ calls[c].phase = "waiting"
    /\ now >= calls[c].deadline
    /\ Goes(c, Asks(calls[c], FALSE))
    /\ UNCHANGED <<now, row, newest, revoked, ended, kills, disconnects>>

----------------------------------------------------------------------------
(* Intuit, and what becomes of its answer                                  *)

Accepts(t) ==
    /\ t # NoToken
    /\ t.grant \notin revoked
    /\ t.nth >= newest[t.grant] - 1

Answer(c, got) ==
    LET call == calls[c] IN
    Goes(c, [call EXCEPT !.phase = "answered", !.got = got])

Failed(c) == Goes(c, [calls[c] EXCEPT !.phase = "failed"])

(* The token is swapped for a new one, or keeps being the newest; the      *)
(* answer may be lost on its way.                                          *)
Refresh(c) ==
    LET t == calls[c].conn.token IN
    /\ calls[c].phase = "asking"
    /\ Accepts(t)
    /\ \/ /\ newest' = [newest EXCEPT ![t.grant] = @ + 1]
          /\ \/ Answer(c, [grant |-> t.grant, nth |-> newest[t.grant] + 1])
             \/ Failed(c)
       \/ /\ t.nth = newest[t.grant]
          /\ Answer(c, t)
          /\ UNCHANGED newest
    /\ UNCHANGED <<now, row, revoked, ended, kills, disconnects>>

(* A refusal, a timeout, a network error.                                  *)
Refuse(c) ==
    /\ calls[c].phase = "asking"
    /\ Failed(c)
    /\ UNCHANGED <<now, row, newest, revoked, ended, kills, disconnects>>

Stored(call) == [token |-> call.got, expires |-> now + Ttl]

(* qboStoreTokens: whatever the row says by now.  Its statement may fail,  *)
(* written or not; a refresh then runs into its catch, an exchange ends.   *)
Store(c) ==
    LET conn    == Stored(calls[c])
        Written == row' = [token |-> conn.token, expires |-> conn.expires,
                           lock |-> 0]
    IN  /\ calls[c].phase \in {"answered", "exchanged"}
        /\ \/ Written /\ Goes(c, Ready(calls[c], conn))
           \/ /\ Written \/ UNCHANGED row
              /\ IF calls[c].phase = "answered" THEN Failed(c) ELSE Goes(c, Free)
        /\ UNCHANGED <<now, newest, revoked, ended, kills, disconnects>>

WrongGiveBack(c) ==         \* fails, and keeps the lease
    /\ calls[c].phase = "failed"
    /\ Goes(c, Free)
    /\ UNCHANGED <<now, row, newest, revoked, ended, kills, disconnects>>

(* The catch of qboEnsureFresh: the lease is released, whosever it is; or  *)
(* that statement fails as well, and the lease stays until it lapses.      *)
GiveBack(c) ==
    /\ calls[c].phase = "failed"
    /\ \/ row' = [row EXCEPT !.lock = 0] /\ UNCHANGED kills
       \/ kills + disconnects < MaxMishaps /\ kills' = kills + 1 /\ UNCHANGED row
    /\ Goes(c, Free)
    /\ UNCHANGED <<now, newest, revoked, ended, disconnects>>

(* The call to QuickBooks itself: done with, or it answers 401 and the     *)
(* token is refreshed, once, from what the invocation holds.               *)
Finish(c) ==
    /\ calls[c].phase = "ready"
    /\ Goes(c, Free)
    /\ UNCHANGED <<now, row, newest, revoked, ended, kills, disconnects>>

Unauthorized(c) ==
    /\ calls[c].phase = "ready"
    /\ ~calls[c].retried
    /\ now < MaxNow
    /\ newest[calls[c].conn.token.grant] < MaxTokens
    /\ Goes(c, [calls[c] EXCEPT !.phase = "read", !.forced = TRUE, !.retried = TRUE])
    /\ UNCHANGED <<now, row, newest, revoked, ended, kills, disconnects>>

----------------------------------------------------------------------------
(* Connecting and disconnecting                                            *)

IsNextGrant(g) == newest[g] = 0 /\ \A h \in 1..(g - 1) : newest[h] > 0

(* exchange: somebody consented, and Intuit sends a grant's first token.   *)
Exchange(c, g) ==
    /\ calls[c] = Free
    /\ IsNextGrant(g)
    /\ newest' = [newest EXCEPT ![g] = 1]
    /\ Goes(c, [Free EXCEPT !.phase = "exchanged", !.conn = Snapshot,
                             !.got = [grant |-> g, nth |-> 1]])
    /\ UNCHANGED <<now, row, revoked, ended, kills, disconnects>>

(* adopt: a token minted elsewhere is stored, and must refresh at once.    *)
Adopt(c, g) ==
    /\ calls[c] = Free
    /\ now < MaxNow
    /\ IsNextGrant(g)
    /\ newest' = [newest EXCEPT ![g] = 1]
    /\ row' = [token |-> [grant |-> g, nth |-> 1], expires |-> 0, lock |-> 0]
    /\ Goes(c, [Free EXCEPT !.phase = "adopted"])
    /\ UNCHANGED <<now, revoked, ended, kills, disconnects>>

ReadAdopted(c) ==
    /\ calls[c].phase = "adopted"
    /\ Goes(c, IF row.token = NoToken THEN Free ELSE Reads(TRUE))
    /\ UNCHANGED <<now, row, newest, revoked, ended, kills, disconnects>>

(* disconnect: Intuit is told, if it can be, and the row is cleared.       *)
Disconnect(c) ==
    /\ calls[c] = Free
    /\ kills + disconnects < MaxMishaps
    /\ disconnects' = disconnects + 1
    /\ Goes(c, [Free EXCEPT !.phase = IF row.token = NoToken THEN "revoked"
                                      ELSE "revoking",
                            !.conn = Snapshot])
    /\ UNCHANGED <<now, row, newest, revoked, ended, kills>>

Revoke(c) ==
    /\ calls[c].phase = "revoking"
    /\ Goes(c, [calls[c] EXCEPT !.phase = "revoked"])
    /\ \/ revoked' = revoked \cup {calls[c].conn.token.grant}
       \/ UNCHANGED revoked
    /\ UNCHANGED <<now, row, newest, ended, kills, disconnects>>

Clear(c) ==
    /\ calls[c].phase = "revoked"
    /\ row' = [token |-> NoToken, expires |-> 0, lock |-> 0]
    /\ ended' = ended \cup {calls[c].conn.token.grant}
    /\ Goes(c, Free)
    /\ UNCHANGED <<now, newest, revoked, kills, disconnects>>

----------------------------------------------------------------------------
(* An invocation dies: its lease stays until it lapses.                    *)
Kill(c) ==
    /\ calls[c] # Free
    /\ kills + disconnects < MaxMishaps
    /\ kills' = kills + 1
    /\ Goes(c, Free)
    /\ UNCHANGED <<now, row, newest, revoked, ended, disconnects>>

(* Time passes, but not beyond the moment when an invocation must act; it  *)
(* ends at MaxNow, and later if somebody waits then.                       *)
Waits(c) == calls[c].phase \in {"waiting", "asking"}

Tick ==
    /\ now < MaxNow \/ \E c \in Calls : Waits(c)
    /\ \A c \in Calls : Waits(c) => now < calls[c].deadline
    /\ now' = now + 1
    /\ UNCHANGED <<row, calls, newest, revoked, ended, kills, disconnects>>

(* What an invocation does by itself once it has begun.                    *)
Step(c) ==
    \/ UseAsItIs(c) \/ Claim(c) \/ Poll(c) \/ GiveUp(c)
    \/ Refresh(c) \/ Refuse(c) \/ Store(c) \/ GiveBack(c)
    \/ Finish(c)
    \/ ReadAdopted(c) \/ Revoke(c) \/ Clear(c)

Next ==
    \/ \E c \in Calls :
           \/ Begin(c)
           \/ \E g \in Grants : Exchange(c, g) \/ Adopt(c, g)
           \/ Disconnect(c)
           \/ Step(c)
           \/ Unauthorized(c)
           \/ Kill(c)
    \/ Tick

Spec == Init /\ [][Next]_vars

(* An invocation runs on, and time passes.  That is strong fairness: calls *)
(* that come and go can hold the model's clock up, and not the real one.   *)
FairSpec == Spec /\ SF_vars(Tick) /\ \A c \in Calls : WF_vars(Step(c))

----------------------------------------------------------------------------
AtIntuit(c) == calls[c].phase \in {"asking", "answered", "failed"}

(* A lease is no leak: unless an invocation was killed, or could not write *)
(* in its catch either, whoever is turned away is turned away for one that *)
(* is still out with a token.                                              *)
LeaseIsHeld ==
    kills = 0 /\ row.lock > 0 =>
        \E c \in Calls : AtIntuit(c) /\ calls[c].leased

(* "Swap the refresh token for a fresh access token, ONCE, even when       *)
(* several invocations want one at the same moment": who holds the lease   *)
(* does not ask with a token that the row has already replaced.  The code  *)
(* does not keep this one, nor the next: README.md says how each is lost.  *)
RefreshedOnce ==
    \A c \in Calls :
        calls[c].phase = "asking" /\ calls[c].leased
            /\ row.token.grant = calls[c].conn.token.grant
        => row.token.nth <= calls[c].conn.token.nth

(* A disconnect stands: the row never shows a grant that was disconnected  *)
(* ("Disconnecting disconnects everyone").                                 *)
DisconnectStands == row.token # NoToken => row.token.grant \notin ended

(* A crash costs a wait and not an outage: every call that is not killed   *)
(* comes to an end.                                                        *)
EveryCallEnds == \A c \in Calls : calls[c] # Free ~> calls[c] = Free
=============================================================================
