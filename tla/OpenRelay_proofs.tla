-------------------------- MODULE OpenRelay_proofs --------------------------
(***************************************************************************)
(* The relay, proved for any number of callers, requests in flight,        *)
(* records and pushes.                                                     *)
(***************************************************************************)
EXTENDS OpenRelay, Relay_proofs

(* The steps of the relay, one case each.                                  *)
LEMMA NextCases ==
    ASSUME [Next]_relayVars
    PROVE  \/ \E c \in Calls, d \in Devices, b \in Batches : SendPush(c, d, b)
           \/ \E c \in Calls, d \in Devices, n \in 0..seqValue : SendPull(c, d, n)
           \/ \E c \in Calls : Serve(c)
           \/ \E c \in Calls : Hangup(c)
           \/ Reset
           \/ Tick
           \/ UNCHANGED relayVars
BY DEF Next, Request

(* Every step keeps the types.                                             *)
LEMMA TypeStep == RelayTypeOK /\ [Next]_relayVars => RelayTypeOK'
<1> SUFFICES ASSUME RelayTypeOK, [Next]_relayVars
             PROVE  RelayTypeOK'
  OBVIOUS
<1>1. ASSUME NEW c \in Calls, NEW d \in Devices, NEW b \in Batches,
             SendPush(c, d, b)
      PROVE  RelayTypeOK'
  BY <1>1, RequestType, BatchesAssumption
<1>2. ASSUME NEW c \in Calls, NEW d \in Devices, NEW n \in 0..seqValue,
             SendPull(c, d, n)
      PROVE  RelayTypeOK'
  BY <1>2, RequestType DEF RelayTypeOK
<1>3. CASE UNCHANGED relayVars
  BY <1>3 DEF RelayTypeOK, relayVars
<1> QED BY <1>1, <1>2, <1>3, NextCases, ServeType, OtherStepsType

LEMMA TypeInit == Init => RelayTypeOK
BY EmptyIsTable, NewCallsType DEF Init, RelayInit, RelayTypeOK

(* The relay's state is well-typed whatever its callers do.                *)
THEOREM RelayTypeCorrect == Spec => []RelayTypeOK
BY TypeInit, TypeStep, PTL DEF Spec

----------------------------------------------------------------------------
(* Only two steps touch a push that has its numbers, and only one touches  *)
(* the table: all others replace one invocation and change nothing else.   *)
Quiet(c, x) ==
    /\ calls' = [calls EXCEPT ![c] = x]
    /\ x.phase \notin {"pushReserved", "pushDone"}
    /\ x.phase \in PullPhases =>
          /\ x.since <= x.cursor
          /\ \/ x.cursor <= seqValue
             \/ \E k \in DOMAIN syncRows : x.cursor = syncRows[k].seq
             \/ calls[c].phase \in PullPhases /\ x.cursor = calls[c].since
    /\ UNCHANGED <<now, seqValue, syncRows, wipes>>

LEMMA StepKinds ==
    ASSUME RelayTypeOK, [Next]_relayVars
    PROVE  \/ \E c \in Calls : \E x : Quiet(c, x)
           \/ \E c \in Calls : PushReserve(c)
           \/ \E c \in Calls : PushCommit(c)
           \/ Reset
           \/ Tick
           \/ UNCHANGED relayVars
<1>1. ASSUME NEW c \in Calls, NEW d \in Devices, NEW b \in Batches,
             SendPush(c, d, b)
      PROVE  Quiet(c, NewPush(d, b))
  BY <1>1 DEF Quiet, SendPush, NewPush, PushCall, PullPhases
<1>2. ASSUME NEW c \in Calls, NEW d \in Devices, NEW n \in 0..seqValue,
             SendPull(c, d, n)
      PROVE  Quiet(c, NewPull(d, n))
  BY <1>2 DEF Quiet, SendPull, NewPull, PullCall, RelayTypeOK
<1>3. ASSUME NEW c \in Calls, Hangup(c)
      PROVE  Quiet(c, Free)
  BY <1>3 DEF Quiet, Hangup, Free, PullPhases
<1>4. ASSUME NEW c \in Calls, PullRead(c) \/ PullHead(c)
      PROVE  \E x : Quiet(c, x)
  <2>1. PICK y : /\ IsCall(y)
                 /\ calls' = [calls EXCEPT ![c] = y]
                 /\ y.phase \in {"pullEmpty", "pullDone"}
                 /\ y.since = calls[c].since
                 /\ y.cursor >= y.since
                 /\ \/ y.cursor = y.since
                    \/ \E k \in DOMAIN syncRows : y.cursor = syncRows[k].seq
    BY <1>4, PullStep
  <2>2. y.since \in Nat /\ y.cursor \in Nat
    BY <2>1, PullFields DEF PullPhases
  <2>3. /\ calls[c].phase \in {"pullSent", "pullEmpty"}
        /\ UNCHANGED <<now, seqValue, syncRows, wipes>>
    BY <1>4, PullStep
  <2>4. Quiet(c, y)
    BY <2>1, <2>2, <2>3 DEF Quiet, PullPhases
  <2> QED BY <2>4
<1> QED BY <1>1, <1>2, <1>3, <1>4, NextCases DEF Serve

----------------------------------------------------------------------------
(* Clamped stamps are close to the clock, which only moves forward.        *)
LEMMA StampsStep ==
    RelayTypeOK /\ StampsContained /\ [Next]_relayVars => StampsContained'
<1> SUFFICES ASSUME RelayTypeOK, StampsContained, [Next]_relayVars
             PROVE  StampsContained'
  OBVIOUS
<1> USE RelayAssumption
<1>1. now \in Nat /\ MaxClockSkew \in Nat /\ calls = [c \in Calls |-> calls[c]]
  BY DEF RelayTypeOK
<1>2. ASSUME NEW c \in Calls, NEW x, Quiet(c, x)
      PROVE  StampsContained'
  BY <1>1, <1>2 DEF StampsContained, Quiet
<1>3. ASSUME NEW c \in Calls, PushReserve(c)
      PROVE  StampsContained'
  <2> DEFINE x == calls[c]
             y == PushCall("pushReserved", x.device, Clamped(x.batch),
                           seqValue + Len(x.batch))
  <2>1. calls' = [calls EXCEPT ![c] = y] /\ IsBatch(x.batch)
    BY <1>3, PushReserveStep
  <2>2. \A i \in DOMAIN x.batch : x.batch[i].stamp \in Int
    BY <2>1, BatchRows
  <2>3. ASSUME NEW i \in DOMAIN Clamped(x.batch)
        PROVE  Clamped(x.batch)[i].stamp <= now + MaxClockSkew
    BY <1>1, <2>2 DEF Clamped, Clamp
  <2>4. y.batch = Clamped(x.batch)
    BY DEF PushCall
  <2> QED BY <1>1, <1>3, <2>1, <2>3, <2>4 DEF StampsContained, PushReserve
<1>4. ASSUME NEW c \in Calls, PushCommit(c)
      PROVE  StampsContained'
  <2> DEFINE x == calls[c]
             y == PushCall("pushDone", x.device, x.batch, x.end)
  <2>1. /\ x.phase = "pushReserved"
        /\ calls' = [calls EXCEPT ![c] = y]
        /\ DOMAIN syncRows' =
             DOMAIN syncRows \cup {x.batch[i].key : i \in Accepted(x)}
        /\ \A i \in Accepted(x) : syncRows'[x.batch[i].key] = Landed(x, i)
        /\ \A k \in DOMAIN syncRows :
              (\A i \in Accepted(x) : x.batch[i].key # k)
                  => syncRows'[k] = syncRows[k]
    BY <1>4, PushCommitStep
  <2>2. \A i \in DOMAIN x.batch : x.batch[i].stamp <= now + MaxClockSkew
    BY <2>1 DEF StampsContained
  <2>3. \A i \in Accepted(x) : Landed(x, i).stamp <= now + MaxClockSkew
    BY <2>2 DEF Landed, Accepted
  <2>4. ASSUME NEW k \in DOMAIN syncRows'
        PROVE  syncRows'[k].stamp <= now + MaxClockSkew
    <3>1. CASE \E i \in Accepted(x) : x.batch[i].key = k
      BY <2>1, <2>3, <3>1
    <3>2. CASE \A i \in Accepted(x) : x.batch[i].key # k
      BY <2>1, <3>2 DEF StampsContained
    <3> QED BY <3>1, <3>2
  <2>5. y.batch = x.batch
    BY DEF PushCall
  <2>6. UNCHANGED now
    BY <1>4 DEF PushCommit
  <2> QED BY <1>1, <2>1, <2>2, <2>4, <2>5, <2>6 DEF StampsContained
<1>5. CASE Reset
  BY <1>5 DEF StampsContained, Reset, Empty
<1>6. CASE Tick
  <2>1. \A k \in DOMAIN syncRows : syncRows[k].stamp \in Int
    BY DEF RelayTypeOK, IsTable, Rows
  <2>2. \A c \in Calls : calls[c].phase \in {"pushReserved", "pushDone"} =>
            \A i \in DOMAIN calls[c].batch : calls[c].batch[i].stamp \in Int
    BY PushFields, BatchRows DEF RelayTypeOK, PushPhases
  <2> QED BY <1>1, <1>6, <2>1, <2>2 DEF StampsContained, Tick
<1>7. CASE UNCHANGED relayVars
  BY <1>7 DEF StampsContained, relayVars
<1> QED BY <1>2, <1>3, <1>4, <1>5, <1>6, <1>7, StepKinds

(* No stored stamp is further ahead of the relay's clock than the skew it  *)
(* tolerates, so a fast clock wins for that long and no longer.            *)
THEOREM StampsAreContained == Spec => []StampsContained
<1>1. Init => StampsContained
  BY DEF Init, RelayInit, StampsContained, Empty, Free
<1> QED BY <1>1, RelayTypeCorrect, StampsStep, PTL DEF Spec

----------------------------------------------------------------------------
LEMMA AnsweredStep ==
    RelayTypeOK /\ AnsweredIsHeld /\ [Next]_relayVars => AnsweredIsHeld'
<1> SUFFICES ASSUME RelayTypeOK, AnsweredIsHeld, [Next]_relayVars, wipes' = 0
             PROVE  PushesHeld'
  BY DEF AnsweredIsHeld
<1>1. ~ Reset
  BY DEF Reset, RelayTypeOK
<1>2. PushesHeld
  BY <1>1, StepKinds DEF Quiet, PushReserve, PushCommit, Tick, relayVars, AnsweredIsHeld
<1>3. ASSUME NEW c \in Calls, NEW x, Quiet(c, x)
      PROVE  PushesHeld'
  BY <1>2, <1>3, CallHeld DEF Quiet
<1>4. ASSUME NEW c \in Calls, PushReserve(c) \/ PushCommit(c)
      PROVE  PushesHeld'
  BY <1>2, <1>4, ServeHeld DEF Serve
<1>5. CASE Tick \/ UNCHANGED relayVars
  BY <1>2, <1>5 DEF PushesHeld, Tick, relayVars
<1> QED BY <1>1, <1>3, <1>4, <1>5, StepKinds

(* While nobody wipes the log, a push that was answered is held.           *)
THEOREM AnsweredPushesAreHeld == Spec => []AnsweredIsHeld
<1>1. Init => AnsweredIsHeld
  BY DEF Init, RelayInit, AnsweredIsHeld, PushesHeld, Free
<1> QED BY <1>1, RelayTypeCorrect, AnsweredStep, PTL DEF Spec

----------------------------------------------------------------------------
(* The log implements the map: the refinement of OpenRelay by LwwMap.      *)
LEMMA LwwInit == Init => Lww!Init
BY DEF Init, RelayInit, Empty, Contents, Lww!Init

LEMMA LwwStep == RelayTypeOK /\ [Next]_relayVars => [Lww!Next]_Contents
<1> SUFFICES ASSUME RelayTypeOK, [Next]_relayVars
             PROVE  [Lww!Next]_Contents
  OBVIOUS
<1>1. CASE UNCHANGED syncRows
  BY <1>1 DEF Contents
<1>2. ASSUME NEW c \in Calls, PushCommit(c)
      PROVE  Lww!Write
  <2>1. /\ DOMAIN syncRows \subseteq DOMAIN syncRows'
        /\ \A k \in DOMAIN syncRows : syncRows'[k].stamp >= syncRows[k].stamp
    BY <1>2, CommitIsNewer
  <2>2. /\ DOMAIN Contents = DOMAIN syncRows
        /\ DOMAIN Contents' = DOMAIN syncRows'
        /\ \A k \in DOMAIN syncRows : Contents[k].stamp = syncRows[k].stamp
        /\ \A k \in DOMAIN syncRows' : Contents'[k].stamp = syncRows'[k].stamp
    BY DEF Contents
  <2> QED BY <2>1, <2>2 DEF Lww!Write
<1>3. CASE Reset
  BY <1>3 DEF Reset, Empty, Contents, Lww!Next, Lww!Wipe
<1> QED BY <1>1, <1>2, <1>3, StepKinds
        DEF Quiet, PushReserve, Tick, relayVars, Lww!Next

(* Seen from outside, the log is a map in which the last writer wins.      *)
THEOREM RelayIsLastWriteWins == Spec => LastWriteWins
BY LwwInit, LwwStep, RelayTypeCorrect, PTL DEF Spec, LastWriteWins, Lww!Spec

----------------------------------------------------------------------------
(* The numbers a push holds between its two transactions.                  *)
Numbers(x) == {NumberOf(x, i) : i \in DOMAIN x.batch}

LEMMA NumbersOfCall ==
    ASSUME NEW x, IsCall(x), x.phase = "pushReserved"
    PROVE  /\ \A i \in DOMAIN x.batch : NumberOf(x, i) \in Nat
           /\ \A i, j \in DOMAIN x.batch : NumberOf(x, i) = NumberOf(x, j) => i = j
           /\ Numbers(x) \subseteq (x.end - Len(x.batch) + 1)..x.end
<1>1. IsBatch(x.batch) /\ x.end \in Nat /\ x.end >= Len(x.batch)
  BY PushFields DEF PushPhases
<1>2. Len(x.batch) \in Nat /\ DOMAIN x.batch = 1..Len(x.batch)
  BY <1>1, BatchRows
<1> QED BY <1>1, <1>2 DEF NumberOf, Numbers

LEMMA NumbersStep ==
    RelayTypeOK /\ NumbersNeverShared /\ [Next]_relayVars => NumbersNeverShared'
<1> SUFFICES ASSUME RelayTypeOK, NumbersNeverShared, [Next]_relayVars, wipes' = 0
             PROVE  StoredOnce' /\ ReservedApart' /\ NumbersWithinCounter'
  BY DEF NumbersNeverShared
<1>1. ~ Reset
  BY DEF Reset, RelayTypeOK
<1>2. wipes = 0
  BY <1>1, StepKinds DEF Quiet, PushReserve, PushCommit, Tick, relayVars
<1>3. StoredOnce /\ ReservedApart /\ NumbersWithinCounter
  BY <1>2 DEF NumbersNeverShared
<1>4. /\ calls = [c \in Calls |-> calls[c]]
      /\ \A c \in Calls : IsCall(calls[c])
      /\ seqValue \in Nat
      /\ \A k \in DOMAIN syncRows : syncRows[k].seq \in Nat
  BY DEF RelayTypeOK, IsTable, Rows
<1>5. ASSUME NEW c \in Calls, NEW x, Quiet(c, x)
      PROVE  StoredOnce' /\ ReservedApart' /\ NumbersWithinCounter'
  <2>1. UNCHANGED <<seqValue, syncRows>> /\ calls' = [calls EXCEPT ![c] = x]
    BY <1>5 DEF Quiet
  <2>2. \A e \in Calls : Reserved(e)' \subseteq Reserved(e)
    BY <1>4, <1>5, <2>1 DEF Quiet, Reserved, NumberOf
  <2>3. StoredOnce'
    BY <1>3, <2>1 DEF StoredOnce
  <2>4. ReservedApart'
    BY <1>3, <2>1, <2>2 DEF ReservedApart
  <2>5. NumbersWithinCounter'
    BY <1>3, <2>1, <2>2 DEF NumbersWithinCounter
  <2> QED BY <2>3, <2>4, <2>5
<1>6. ASSUME NEW c \in Calls, PushReserve(c)
      PROVE  StoredOnce' /\ ReservedApart' /\ NumbersWithinCounter'
  <2> DEFINE x == calls[c]
             y == PushCall("pushReserved", x.device, Clamped(x.batch),
                           seqValue + Len(x.batch))
  <2>1. /\ IsBatch(x.batch)
        /\ Len(x.batch) \in Nat
        /\ IsCall(y)
        /\ calls' = [calls EXCEPT ![c] = y]
        /\ seqValue' = seqValue + Len(x.batch)
        /\ syncRows' = syncRows
    BY <1>6, PushReserveStep DEF PushReserve
  <2>2. /\ y.phase = "pushReserved"
        /\ y.end = seqValue + Len(x.batch)
        /\ Len(y.batch) = Len(x.batch)
    BY <2>1, ClampedType DEF PushCall
  <2>3. Numbers(y) \subseteq (seqValue + 1)..seqValue'
    <3>1. Numbers(y) \subseteq (y.end - Len(y.batch) + 1)..y.end
      BY <2>1, <2>2, NumbersOfCall
    <3> QED BY <1>4, <2>1, <2>2, <3>1
  <2>4. /\ Reserved(c)' = Numbers(y)
        /\ \A e \in Calls \ {c} : Reserved(e)' = Reserved(e)
    BY <1>4, <2>1, <2>2 DEF Reserved, Numbers, NumberOf
  <2>5. /\ \A k \in DOMAIN syncRows : syncRows[k].seq \in 1..seqValue
        /\ \A e \in Calls : Reserved(e) \subseteq 1..seqValue
    BY <1>3 DEF NumbersWithinCounter
  <2>6. NumbersWithinCounter'
    <3>1. 1..seqValue \subseteq 1..seqValue'
      BY <1>4, <2>1
    <3>2. Numbers(y) \subseteq 1..seqValue'
      BY <1>4, <2>1, <2>3
    <3> QED BY <2>1, <2>4, <2>5, <3>1, <3>2 DEF NumbersWithinCounter
  <2>7. Numbers(y) \cap 1..seqValue = {}
    BY <1>4, <2>3
  <2>8. ReservedApart'
    BY <1>3, <2>1, <2>4, <2>5, <2>7 DEF ReservedApart
  <2> QED BY <1>3, <2>1, <2>6, <2>8 DEF StoredOnce
<1>7. ASSUME NEW c \in Calls, PushCommit(c)
      PROVE  StoredOnce' /\ ReservedApart' /\ NumbersWithinCounter'
  <2> DEFINE x == calls[c]
             won == {x.batch[i].key : i \in Accepted(x)}
  <2>1. /\ x.phase = "pushReserved"
        /\ IsBatch(x.batch)
        /\ calls' = [calls EXCEPT ![c] = PushCall("pushDone", x.device, x.batch, x.end)]
        /\ DOMAIN syncRows' = DOMAIN syncRows \cup won
        /\ \A i \in Accepted(x) : syncRows'[x.batch[i].key] = Landed(x, i)
        /\ \A k \in DOMAIN syncRows :
              (\A i \in Accepted(x) : x.batch[i].key # k)
                  => syncRows'[k] = syncRows[k]
        /\ seqValue' = seqValue
    BY <1>7, PushCommitStep DEF PushCommit
  <2>2. \A i, j \in DOMAIN x.batch : NumberOf(x, i) = NumberOf(x, j) => i = j
    BY <1>4, <2>1, NumbersOfCall
  <2>3. /\ Reserved(c) = Numbers(x)
        /\ Reserved(c)' = {}
        /\ \A e \in Calls \ {c} : Reserved(e)' = Reserved(e)
    BY <1>4, <2>1 DEF Reserved, Numbers, NumberOf, PushCall
  <2>4. \A i \in Accepted(x) :
           /\ i \in DOMAIN x.batch
           /\ syncRows'[x.batch[i].key].seq = NumberOf(x, i)
           /\ NumberOf(x, i) \in Reserved(c)
    <3>1. \A i \in Accepted(x) : i \in DOMAIN x.batch
      BY DEF Accepted
    <3>2. \A i \in Accepted(x) : Landed(x, i).seq = NumberOf(x, i)
      BY DEF Landed
    <3>3. \A i \in DOMAIN x.batch : NumberOf(x, i) \in Reserved(c)
      BY <2>3 DEF Numbers
    <3> QED BY <2>1, <3>1, <3>2, <3>3
  <2>5. \A k \in DOMAIN syncRows' :
           \/ \E i \in Accepted(x) : x.batch[i].key = k
           \/ k \in DOMAIN syncRows /\ syncRows'[k] = syncRows[k]
    BY <2>1
  <2>6. \A k \in DOMAIN syncRows : syncRows[k].seq \notin Reserved(c)
    BY <1>3 DEF ReservedApart
  <2>7. StoredOnce'
    <3>1. ASSUME NEW k1 \in DOMAIN syncRows', NEW k2 \in DOMAIN syncRows',
                 syncRows'[k1].seq = syncRows'[k2].seq
          PROVE  k1 = k2
      <4>1. CASE (\E i \in Accepted(x) : x.batch[i].key = k1)
                 /\ (\E i \in Accepted(x) : x.batch[i].key = k2)
        BY <2>2, <2>4, <3>1, <4>1
      <4>2. CASE (\E i \in Accepted(x) : x.batch[i].key = k1)
                 /\ k2 \in DOMAIN syncRows /\ syncRows'[k2] = syncRows[k2]
        BY <2>4, <2>6, <3>1, <4>2
      <4>3. CASE (\E i \in Accepted(x) : x.batch[i].key = k2)
                 /\ k1 \in DOMAIN syncRows /\ syncRows'[k1] = syncRows[k1]
        BY <2>4, <2>6, <3>1, <4>3
      <4>4. CASE /\ k1 \in DOMAIN syncRows /\ syncRows'[k1] = syncRows[k1]
                 /\ k2 \in DOMAIN syncRows /\ syncRows'[k2] = syncRows[k2]
        BY <1>3, <3>1, <4>4 DEF StoredOnce
      <4> QED BY <2>5, <4>1, <4>2, <4>3, <4>4
    <3> QED BY <3>1 DEF StoredOnce
  <2>8. ReservedApart'
    <3>1. ASSUME NEW e \in Calls
          PROVE  /\ \A k \in DOMAIN syncRows' : syncRows'[k].seq \notin Reserved(e)'
                 /\ \A f \in Calls \ {e} : Reserved(e)' \cap Reserved(f)' = {}
      <4>1. CASE e = c
        BY <2>3, <4>1
      <4>2. CASE e # c
        <5>1. Reserved(e)' = Reserved(e) /\ Reserved(e) \cap Reserved(c) = {}
          BY <1>3, <2>3, <4>2 DEF ReservedApart
        <5>2. \A k \in DOMAIN syncRows' : syncRows'[k].seq \notin Reserved(e)
          BY <1>3, <2>4, <2>5, <5>1 DEF ReservedApart
        <5>3. \A f \in Calls \ {e} : Reserved(e) \cap Reserved(f)' = {}
          BY <1>3, <2>3, <5>1 DEF ReservedApart
        <5> QED BY <5>1, <5>2, <5>3
      <4> QED BY <4>1, <4>2
    <3> QED BY <3>1 DEF ReservedApart
  <2>9. NumbersWithinCounter'
    BY <1>3, <2>1, <2>3, <2>4, <2>5 DEF NumbersWithinCounter
  <2> QED BY <2>7, <2>8, <2>9
<1>8. CASE Tick \/ UNCHANGED relayVars
  <2>1. UNCHANGED <<seqValue, syncRows, calls>>
    BY <1>8 DEF Tick, relayVars
  <2>2. \A c \in Calls : Reserved(c)' = Reserved(c)
    BY <2>1 DEF Reserved, NumberOf
  <2> QED BY <1>3, <2>1, <2>2 DEF StoredOnce, ReservedApart, NumbersWithinCounter
<1> QED BY <1>1, <1>5, <1>6, <1>7, <1>8, StepKinds

(* While nobody wipes the log, a delivery number has one owner, however    *)
(* the two transactions of any number of pushes interleave.                *)
THEOREM NumbersHaveOneOwner == Spec => []NumbersNeverShared
<1>1. Init => NumbersNeverShared
  <2> SUFFICES ASSUME Init PROVE StoredOnce /\ ReservedApart /\ NumbersWithinCounter
    BY DEF NumbersNeverShared
  <2>1. DOMAIN syncRows = {} /\ \A c \in Calls : Reserved(c) = {}
    BY DEF Init, RelayInit, Empty, Free, Reserved
  <2> QED BY <2>1 DEF StoredOnce, ReservedApart, NumbersWithinCounter
<1> QED BY <1>1, RelayTypeCorrect, NumbersStep, PTL DEF Spec

----------------------------------------------------------------------------
(* A cursor is the caller's own or the number of a stored row; and those   *)
(* are within the counter.                                                 *)
CursorIInv == RelayTypeOK /\ NumbersNeverShared /\ CursorWithinCounter

LEMMA CursorStep == CursorIInv /\ [Next]_relayVars => CursorWithinCounter'
<1> SUFFICES ASSUME CursorIInv, [Next]_relayVars, wipes' = 0
             PROVE  \A c \in Calls : calls'[c].phase \in PullPhases =>
                       /\ calls'[c].since <= calls'[c].cursor
                       /\ calls'[c].cursor <= seqValue'
  BY DEF CursorWithinCounter
<1>1. RelayTypeOK /\ ~ Reset
  BY DEF CursorIInv, Reset, RelayTypeOK
<1>2. wipes = 0
  BY <1>1, StepKinds DEF Quiet, PushReserve, PushCommit, Tick, relayVars
<1>3. /\ \A k \in DOMAIN syncRows : syncRows[k].seq \in 1..seqValue
      /\ \A c \in Calls : calls[c].phase \in PullPhases =>
            calls[c].since <= calls[c].cursor /\ calls[c].cursor <= seqValue
  BY <1>2 DEF CursorIInv, NumbersNeverShared, NumbersWithinCounter, CursorWithinCounter
<1>4. /\ calls = [c \in Calls |-> calls[c]]
      /\ seqValue \in Nat
      /\ \A c \in Calls : calls[c].phase \in PullPhases =>
            calls[c].since \in Nat /\ calls[c].cursor \in Nat
  BY <1>1, PullFields DEF RelayTypeOK
<1>5. ASSUME NEW c \in Calls, NEW x, Quiet(c, x)
      PROVE  \A e \in Calls : calls'[e].phase \in PullPhases =>
                /\ calls'[e].since <= calls'[e].cursor
                /\ calls'[e].cursor <= seqValue'
  <2>1. x.phase \in PullPhases => x.since <= x.cursor /\ x.cursor <= seqValue
    BY <1>3, <1>4, <1>5 DEF Quiet
  <2> QED BY <1>3, <1>4, <1>5, <2>1 DEF Quiet
<1>6. ASSUME NEW c \in Calls, PushReserve(c) \/ PushCommit(c)
      PROVE  \A e \in Calls : calls'[e].phase \in PullPhases =>
                /\ calls'[e].since <= calls'[e].cursor
                /\ calls'[e].cursor <= seqValue'
  <2>1. /\ calls'[c].phase \notin PullPhases
        /\ \A e \in Calls \ {c} : calls'[e] = calls[e]
    BY <1>4, <1>6 DEF PushReserve, PushCommit, PushCall, PullPhases
  <2>2. seqValue' \in Nat /\ seqValue <= seqValue'
    BY <1>1, <1>4, <1>6, PushReserveStep DEF PushCommit
  <2> QED BY <1>3, <1>4, <2>1, <2>2
<1>7. CASE Tick \/ UNCHANGED relayVars
  BY <1>3, <1>7 DEF Tick, relayVars
<1> QED BY <1>1, <1>5, <1>6, <1>7, StepKinds

(* While nobody wipes the log, no answer carries a cursor that hides rows  *)
(* not yet numbered, or one that goes back.                                *)
THEOREM CursorsAreWithinCounter == Spec => []CursorWithinCounter
<1>1. Init => CursorWithinCounter
  BY DEF Init, RelayInit, CursorWithinCounter, Free, PullPhases
<1> QED BY <1>1, RelayTypeCorrect, NumbersHaveOneOwner, CursorStep, PTL
        DEF Spec, CursorIInv
=============================================================================
