--------------------------- MODULE QboToken_proofs ---------------------------
(***************************************************************************)
(* Proofs about QboToken, for any number of invocations and any bounds:    *)
(* its state keeps its shape, and the refresh lease is no leak.            *)
(***************************************************************************)
EXTENDS QboToken, TLAPS

ConstType ==
    /\ Wait \in Nat /\ Timeout \in Nat /\ Lease \in Nat /\ Ttl \in Nat
    /\ MaxMishaps \in Nat

LEMMA Constants == ConstType
BY QboAssumption DEF QboAssumption, ConstType

(* The two halves of an invocation's step: its own record, and the rest.   *)
LEMMA FreeType == Free \in Invocations
BY DEF Free, Invocations, Phases, Conns, NoConn, NoToken

LEMMA SnapshotType == ASSUME QboTypeOK PROVE Snapshot \in Conns
BY DEF QboTypeOK, Snapshot, Conns

LEMMA GoesType ==
    ASSUME QboTypeOK, NEW c \in Calls, NEW x \in Invocations, Goes(c, x)
    PROVE  calls' \in [Calls -> Invocations]
BY DEF QboTypeOK, Goes

LEMMA ReadsType ==
    ASSUME QboTypeOK, NEW forced \in BOOLEAN PROVE Reads(forced) \in Invocations
BY FreeType, SnapshotType DEF Reads, Invocations, Phases

LEMMA AsksType ==
    ASSUME QboTypeOK, NEW call \in Invocations, NEW leased \in BOOLEAN
    PROVE  Asks(call, leased) \in Invocations
<1>1. now + Timeout \in Nat
  BY Constants DEF QboTypeOK, ConstType
<1>2. "asking" \in Phases
  BY DEF Phases
<1> QED BY <1>1, <1>2 DEF Asks, Invocations

LEMMA AsksPhase ==
    ASSUME NEW call \in Invocations, NEW leased
    PROVE  Asks(call, leased).phase = "asking" /\ Asks(call, leased).leased = leased
BY DEF Asks, Invocations

LEMMA ReadyType ==
    ASSUME QboTypeOK, NEW call \in Invocations, NEW conn \in Conns
    PROVE  Ready(call, conn) \in Invocations
BY FreeType DEF Ready, Invocations, Phases

LEMMA PhaseType ==
    ASSUME NEW call \in Invocations, NEW p \in Phases
    PROVE  [call EXCEPT !.phase = p] \in Invocations
BY DEF Invocations

----------------------------------------------------------------------------
LEMMA QboTypeInit == Init => QboTypeOK
<1> SUFFICES ASSUME Init PROVE QboTypeOK
  OBVIOUS
<1>1. calls \in [Calls -> Invocations]
  BY FreeType DEF Init
<1>2. kills \in 0..MaxMishaps /\ disconnects \in 0..MaxMishaps
  BY Constants DEF Init, ConstType
<1>3. newest \in [Grants -> Nat]
  BY DEF Init
<1> QED BY <1>1, <1>2, <1>3 DEF Init, QboTypeOK

LEMMA QboTypeStep == QboTypeOK /\ [Next]_vars => QboTypeOK'
<1> SUFFICES ASSUME QboTypeOK, [Next]_vars PROVE QboTypeOK'
  OBVIOUS
<1> USE Constants
<1>0. /\ now \in Nat
      /\ row \in [token : Tokens \cup {NoToken}, expires : Nat, lock : Nat]
      /\ calls \in [Calls -> Invocations]
      /\ newest \in [Grants -> Nat]
  BY DEF QboTypeOK
<1>1. ASSUME NEW c \in Calls, Begin(c) PROVE QboTypeOK'
  BY <1>1, ReadsType, GoesType DEF Begin, QboTypeOK
<1>2. ASSUME NEW c \in Calls, UseAsItIs(c) PROVE QboTypeOK'
  <2>1. Ready(calls[c], calls[c].conn) \in Invocations
    BY <1>0, ReadyType DEF Invocations
  <2> QED BY <1>2, <2>1, GoesType DEF UseAsItIs, QboTypeOK
<1>3. ASSUME NEW c \in Calls, Claim(c) PROVE QboTypeOK'
  <2>1. Asks(calls[c], TRUE) \in Invocations
    BY <1>0, AsksType
  <2>2. [calls[c] EXCEPT !.phase = "waiting", !.deadline = now + Wait] \in Invocations
    <3>1. now + Wait \in Nat /\ "waiting" \in Phases
      BY <1>0 DEF ConstType, Phases
    <3> QED BY <1>0, <3>1 DEF Invocations
  <2>3. calls' \in [Calls -> Invocations]
    BY <1>3, <2>1, <2>2, GoesType DEF Claim
  <2>4. row' \in [token : Tokens \cup {NoToken}, expires : Nat, lock : Nat]
    <3>1. now + Lease \in Nat
      BY <1>0 DEF ConstType
    <3> QED BY <1>3, <1>0, <3>1 DEF Claim
  <2> QED BY <1>3, <2>3, <2>4 DEF Claim, QboTypeOK
<1>4. ASSUME NEW c \in Calls, Poll(c) PROVE QboTypeOK'
  <2>1. Ready(calls[c], Snapshot) \in Invocations
    BY <1>0, ReadyType, SnapshotType
  <2> QED BY <1>4, <2>1, GoesType DEF Poll, QboTypeOK
<1>5. ASSUME NEW c \in Calls, GiveUp(c) PROVE QboTypeOK'
  BY <1>5, <1>0, AsksType, GoesType DEF GiveUp, QboTypeOK
<1>6. ASSUME NEW c \in Calls, Refresh(c) PROVE QboTypeOK'
  <2> DEFINE t == calls[c].conn.token
  <2>1. t \in Tokens
    BY <1>6, <1>0 DEF Refresh, Accepts, Invocations, Conns
  <2>2. t.grant \in Grants
    BY <2>1 DEF Tokens
  <2>3. newest' \in [Grants -> Nat]
    BY <1>6, <1>0 DEF Refresh
  <2>4. ASSUME NEW got \in Tokens
        PROVE  [calls[c] EXCEPT !.phase = "answered", !.got = got] \in Invocations
    BY <1>0 DEF Invocations, Phases
  <2>5. [grant |-> t.grant, nth |-> newest[t.grant] + 1] \in Tokens
    BY <1>0, <2>2 DEF Tokens
  <2>6. [calls[c] EXCEPT !.phase = "failed"] \in Invocations
    BY <1>0, PhaseType DEF Phases
  <2>7. calls' \in [Calls -> Invocations]
    <3>1. CASE Answer(c, [grant |-> t.grant, nth |-> newest[t.grant] + 1])
      BY <3>1, <2>4, <2>5, GoesType DEF Answer
    <3>2. CASE Failed(c)
      BY <3>2, <2>6, GoesType DEF Failed
    <3>3. CASE Answer(c, t)
      BY <3>3, <2>1, <2>4, GoesType DEF Answer
    <3> QED BY <1>6, <3>1, <3>2, <3>3 DEF Refresh
  <2> QED BY <1>6, <2>3, <2>7 DEF Refresh, QboTypeOK
<1>7. ASSUME NEW c \in Calls, Refuse(c) PROVE QboTypeOK'
  <2>1. [calls[c] EXCEPT !.phase = "failed"] \in Invocations
    BY <1>0, PhaseType DEF Phases
  <2> QED BY <1>7, <2>1, GoesType DEF Refuse, Failed, QboTypeOK
<1>8. ASSUME NEW c \in Calls, Store(c) PROVE QboTypeOK'
  <2>1. Stored(calls[c]) \in Conns
    BY <1>0 DEF Stored, Conns, Invocations, ConstType
  <2>2. Ready(calls[c], Stored(calls[c])) \in Invocations
    BY <1>0, <2>1, ReadyType
  <2>3. row' \in [token : Tokens \cup {NoToken}, expires : Nat, lock : Nat]
    BY <1>8, <1>0, <2>1 DEF Store, Conns
  <2>4. [calls[c] EXCEPT !.phase = "failed"] \in Invocations
    BY <1>0, PhaseType DEF Phases
  <2>5. PICK x \in Invocations : Goes(c, x)
    BY <1>8, <2>2, <2>4, FreeType DEF Store, Failed
  <2> QED BY <1>8, <2>3, <2>5, GoesType DEF Store, QboTypeOK
<1>9. ASSUME NEW c \in Calls, GiveBack(c) PROVE QboTypeOK'
  <2>1. row' \in [token : Tokens \cup {NoToken}, expires : Nat, lock : Nat]
    BY <1>9, <1>0 DEF GiveBack
  <2>2. kills' \in 0..MaxMishaps
    BY <1>9 DEF GiveBack, QboTypeOK, ConstType
  <2> QED BY <1>9, <2>1, <2>2, FreeType, GoesType DEF GiveBack, QboTypeOK
<1>10. ASSUME NEW c \in Calls, Finish(c) PROVE QboTypeOK'
  BY <1>10, FreeType, GoesType DEF Finish, QboTypeOK
<1>11. ASSUME NEW c \in Calls, Unauthorized(c) PROVE QboTypeOK'
  <2>1. [calls[c] EXCEPT !.phase = "read", !.forced = TRUE, !.retried = TRUE]
           \in Invocations
    BY <1>0 DEF Invocations, Phases
  <2> QED BY <1>11, <2>1, GoesType DEF Unauthorized, QboTypeOK
<1>12. ASSUME NEW c \in Calls, NEW g \in Grants, Exchange(c, g) PROVE QboTypeOK'
  <2>1. [Free EXCEPT !.phase = "exchanged", !.conn = Snapshot,
                     !.got = [grant |-> g, nth |-> 1]] \in Invocations
    BY FreeType, SnapshotType DEF Invocations, Phases, Tokens
  <2> QED BY <1>12, <2>1, GoesType DEF Exchange, QboTypeOK
<1>13. ASSUME NEW c \in Calls, NEW g \in Grants, Adopt(c, g) PROVE QboTypeOK'
  <2>1. [Free EXCEPT !.phase = "adopted"] \in Invocations
    BY FreeType, PhaseType DEF Phases
  <2>2. row' \in [token : Tokens \cup {NoToken}, expires : Nat, lock : Nat]
    BY <1>13 DEF Adopt, Tokens
  <2> QED BY <1>13, <2>1, <2>2, GoesType DEF Adopt, QboTypeOK
<1>14. ASSUME NEW c \in Calls, ReadAdopted(c) PROVE QboTypeOK'
  BY <1>14, FreeType, ReadsType, GoesType DEF ReadAdopted, QboTypeOK
<1>15. ASSUME NEW c \in Calls, Disconnect(c) PROVE QboTypeOK'
  <2>1. [Free EXCEPT !.phase = IF row.token = NoToken THEN "revoked" ELSE "revoking",
                     !.conn = Snapshot] \in Invocations
    BY FreeType, SnapshotType DEF Invocations, Phases
  <2>2. disconnects' \in 0..MaxMishaps
    BY <1>15 DEF Disconnect, QboTypeOK, ConstType
  <2> QED BY <1>15, <2>1, <2>2, GoesType DEF Disconnect, QboTypeOK
<1>16. ASSUME NEW c \in Calls, Revoke(c) PROVE QboTypeOK'
  <2>1. [calls[c] EXCEPT !.phase = "revoked"] \in Invocations
    BY <1>0, PhaseType DEF Phases
  <2>2. calls[c].conn.token.grant \in Grants \cup {NoToken.grant}
    BY <1>0 DEF Invocations, Conns, Tokens
  <2> QED BY <1>16, <2>1, <2>2, GoesType DEF Revoke, QboTypeOK
<1>17. ASSUME NEW c \in Calls, Clear(c) PROVE QboTypeOK'
  <2>1. row' \in [token : Tokens \cup {NoToken}, expires : Nat, lock : Nat]
    BY <1>17 DEF Clear
  <2>2. calls[c].conn.token.grant \in Grants \cup {NoToken.grant}
    BY <1>0 DEF Invocations, Conns, Tokens
  <2> QED BY <1>17, <2>1, <2>2, FreeType, GoesType DEF Clear, QboTypeOK
<1>18. ASSUME NEW c \in Calls, Kill(c) PROVE QboTypeOK'
  <2>1. kills' \in 0..MaxMishaps
    BY <1>18 DEF Kill, QboTypeOK, ConstType
  <2> QED BY <1>18, <2>1, FreeType, GoesType DEF Kill, QboTypeOK
<1>19. CASE Tick
  BY <1>19 DEF Tick, QboTypeOK
<1>20. CASE UNCHANGED vars
  BY <1>20 DEF vars, QboTypeOK
<1> QED
  BY <1>1, <1>2, <1>3, <1>4, <1>5, <1>6, <1>7, <1>8, <1>9, <1>10, <1>11, <1>12,
     <1>13, <1>14, <1>15, <1>16, <1>17, <1>18, <1>19, <1>20 DEF Next, Step

(* The connection's state keeps its shape.                                 *)
THEOREM QboTypeCorrect == Spec => []QboTypeOK
BY QboTypeInit, QboTypeStep, PTL DEF Spec

----------------------------------------------------------------------------
(* A step that leaves the lease, its holders and the count of kills alone: *)
(* it replaces one invocation that did not hold the lease, or one that     *)
(* goes on holding it.                                                     *)
HoldsLease(call) == call.phase \in {"asking", "answered", "failed"} /\ call.leased

Quiet(c, x) ==
    /\ Goes(c, x)
    /\ HoldsLease(calls[c]) => HoldsLease(x)
    /\ UNCHANGED <<row, kills>>

LEMMA QuietStep ==
    ASSUME QboTypeOK, LeaseIsHeld, NEW c \in Calls, NEW x, Quiet(c, x)
    PROVE  LeaseIsHeld'
<1> SUFFICES ASSUME kills = 0, row.lock > 0
             PROVE  \E e \in Calls : HoldsLease(calls'[e])
  BY DEF LeaseIsHeld, Quiet, HoldsLease, AtIntuit
<1>1. PICK e \in Calls : HoldsLease(calls[e])
  BY DEF LeaseIsHeld, HoldsLease, AtIntuit
<1>2. HoldsLease(calls'[e])
  BY <1>1 DEF Quiet, Goes, QboTypeOK
<1> QED BY <1>2

LEMMA LeaseGiven ==
    ASSUME row'.lock = 0 PROVE LeaseIsHeld'
BY DEF LeaseIsHeld

LEMMA LeaseStep == QboTypeOK /\ LeaseIsHeld /\ [Next]_vars => LeaseIsHeld'
<1> SUFFICES ASSUME QboTypeOK, LeaseIsHeld, [Next]_vars PROVE LeaseIsHeld'
  OBVIOUS
<1>0. calls \in [Calls -> Invocations]
  BY DEF QboTypeOK
<1>1. ASSUME NEW c \in Calls, Begin(c) PROVE LeaseIsHeld'
  <2>1. Quiet(c, Reads(FALSE))
    <3>1. ~HoldsLease(calls[c])
      BY <1>1 DEF Begin, HoldsLease, Free
    <3> QED BY <1>1, <3>1 DEF Begin, Quiet
  <2> QED BY <2>1, QuietStep
<1>2. ASSUME NEW c \in Calls, UseAsItIs(c) PROVE LeaseIsHeld'
  BY <1>2, QuietStep DEF UseAsItIs, Quiet, HoldsLease
<1>3. ASSUME NEW c \in Calls, Claim(c) PROVE LeaseIsHeld'
  <2>1. CASE LeaseIsFree
    <3>1. HoldsLease(calls'[c])
      <4>1. Goes(c, Asks(calls[c], TRUE))
        BY <1>3, <2>1 DEF Claim
      <4>2. HoldsLease(Asks(calls[c], TRUE))
        BY <1>0, AsksPhase DEF HoldsLease
      <4> QED BY <4>1, <4>2, <1>0 DEF Goes
    <3> QED BY <3>1 DEF LeaseIsHeld, HoldsLease, AtIntuit
  <2>2. CASE ~LeaseIsFree
    BY <1>3, <2>2, QuietStep DEF Claim, Quiet, HoldsLease
  <2> QED BY <2>1, <2>2
<1>4. ASSUME NEW c \in Calls, Poll(c) PROVE LeaseIsHeld'
  BY <1>4, QuietStep DEF Poll, Quiet, HoldsLease
<1>5. ASSUME NEW c \in Calls, GiveUp(c) PROVE LeaseIsHeld'
  BY <1>5, QuietStep DEF GiveUp, Quiet, HoldsLease
<1>6. ASSUME NEW c \in Calls, Refresh(c) PROVE LeaseIsHeld'
  <2>1. \A got : HoldsLease(calls[c]) =>
                 HoldsLease([calls[c] EXCEPT !.phase = "answered", !.got = got])
    BY <1>0 DEF HoldsLease, Invocations
  <2>2. HoldsLease(calls[c]) => HoldsLease([calls[c] EXCEPT !.phase = "failed"])
    BY <1>0 DEF HoldsLease, Invocations
  <2>3. PICK x : Goes(c, x) /\ (HoldsLease(calls[c]) => HoldsLease(x))
    BY <1>6, <2>1, <2>2 DEF Refresh, Answer, Failed
  <2>4. Quiet(c, x)
    BY <1>6, <2>3 DEF Refresh, Quiet
  <2> QED BY <2>4, QuietStep
<1>7. ASSUME NEW c \in Calls, Refuse(c) PROVE LeaseIsHeld'
  <2>1. HoldsLease(calls[c]) => HoldsLease([calls[c] EXCEPT !.phase = "failed"])
    BY <1>0 DEF HoldsLease, Invocations
  <2>2. Quiet(c, [calls[c] EXCEPT !.phase = "failed"])
    BY <1>7, <2>1 DEF Refuse, Failed, Quiet
  <2> QED BY <2>2, QuietStep
<1>8. ASSUME NEW c \in Calls, Store(c) PROVE LeaseIsHeld'
  <2>1. CASE row'.lock = 0
    BY <2>1, LeaseGiven
  <2>2. CASE row' = row
    <3>1. HoldsLease(calls[c]) => HoldsLease([calls[c] EXCEPT !.phase = "failed"])
      BY <1>0 DEF HoldsLease, Invocations
    <3>2. CASE row'.lock = 0
      BY <3>2, LeaseGiven
    <3>3. CASE Goes(c, [calls[c] EXCEPT !.phase = "failed"])
      BY <1>8, <2>2, <3>1, <3>3, QuietStep DEF Store, Quiet
    <3>4. CASE calls[c].phase = "exchanged" /\ Goes(c, Free)
      BY <1>8, <2>2, <3>4, QuietStep DEF Store, Quiet, HoldsLease
    <3> QED BY <1>8, <3>2, <3>3, <3>4 DEF Store, Failed
  <2> QED BY <1>8, <2>1, <2>2 DEF Store
<1>9. ASSUME NEW c \in Calls, GiveBack(c) PROVE LeaseIsHeld'
  <2>1. CASE row'.lock = 0
    BY <2>1, LeaseGiven
  <2>2. CASE kills' = kills + 1
    BY <2>2, Constants DEF QboTypeOK, LeaseIsHeld, ConstType
  <2> QED BY <1>9, <2>1, <2>2 DEF GiveBack, QboTypeOK
<1>10. ASSUME NEW c \in Calls, Finish(c) PROVE LeaseIsHeld'
  BY <1>10, QuietStep DEF Finish, Quiet, HoldsLease
<1>11. ASSUME NEW c \in Calls, Unauthorized(c) PROVE LeaseIsHeld'
  BY <1>11, QuietStep DEF Unauthorized, Quiet, HoldsLease
<1>12. ASSUME NEW c \in Calls, NEW g \in Grants, Exchange(c, g) PROVE LeaseIsHeld'
  BY <1>12, QuietStep DEF Exchange, Quiet, HoldsLease, Free
<1>13. ASSUME NEW c \in Calls, NEW g \in Grants, Adopt(c, g) PROVE LeaseIsHeld'
  <2>1. row'.lock = 0
    BY <1>13 DEF Adopt
  <2> QED BY <2>1, LeaseGiven
<1>14. ASSUME NEW c \in Calls, ReadAdopted(c) PROVE LeaseIsHeld'
  BY <1>14, QuietStep DEF ReadAdopted, Quiet, HoldsLease
<1>15. ASSUME NEW c \in Calls, Disconnect(c) PROVE LeaseIsHeld'
  BY <1>15, QuietStep DEF Disconnect, Quiet, HoldsLease, Free
<1>16. ASSUME NEW c \in Calls, Revoke(c) PROVE LeaseIsHeld'
  BY <1>16, QuietStep DEF Revoke, Quiet, HoldsLease
<1>17. ASSUME NEW c \in Calls, Clear(c) PROVE LeaseIsHeld'
  <2>1. row'.lock = 0
    BY <1>17 DEF Clear
  <2> QED BY <2>1, LeaseGiven
<1>18. ASSUME NEW c \in Calls, Kill(c) PROVE LeaseIsHeld'
  BY <1>18, Constants DEF Kill, QboTypeOK, LeaseIsHeld, ConstType
<1>19. CASE Tick
  BY <1>19 DEF Tick, LeaseIsHeld, AtIntuit
<1>20. CASE UNCHANGED vars
  BY <1>20 DEF vars, LeaseIsHeld, AtIntuit
<1> QED
  BY <1>1, <1>2, <1>3, <1>4, <1>5, <1>6, <1>7, <1>8, <1>9, <1>10, <1>11, <1>12,
     <1>13, <1>14, <1>15, <1>16, <1>17, <1>18, <1>19, <1>20 DEF Next, Step

LEMMA LeaseInit == Init => LeaseIsHeld
BY DEF Init, LeaseIsHeld

(* The refresh lease never outlives its holder, unless that is killed: who *)
(* fails, finishes or is disconnected meanwhile leaves no lease behind.    *)
THEOREM LeaseIsNoLeak == Spec => []LeaseIsHeld
BY QboTypeCorrect, LeaseInit, LeaseStep, PTL DEF Spec
=============================================================================
