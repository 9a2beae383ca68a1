---------------------------- MODULE Sync_proofs ----------------------------
(***************************************************************************)
(* The fleet, proved for any number of laptops, records, requests in       *)
(* flight, edits, failures and batch sizes.                                *)
(***************************************************************************)
EXTENDS Sync, Relay_proofs, FiniteSetTheorems

(* What the type invariant says of one laptop.                             *)
LEMMA LaptopTypes ==
    ASSUME SyncTypeOK, NEW d \in Devices
    PROVE  /\ RelayTypeOK
           /\ row[d] \in [Keys -> Versions]
           /\ outbox[d] = [k \in DOMAIN outbox[d] |-> outbox[d][k]]
           /\ DOMAIN outbox[d] \subseteq Keys
           /\ \A k \in DOMAIN outbox[d] : /\ outbox[d][k].stamp \in Int
                                          /\ outbox[d][k].deleted \in BOOLEAN
           /\ cursor[d] \in Nat
           /\ IsRound(round[d])
           /\ edited[d] \in [Keys -> Versions]
           /\ Clock(d) \in Int
BY SyncAssumption DEF SyncTypeOK, Queued, Clock, RelayTypeOK

LEMMA PushingRound ==
    ASSUME NEW r, IsRound(r), r.phase = "pushing"
    PROVE  IsBatch(r.sent)
BY DEF IsRound, Idle

LEMMA OutgoingType ==
    ASSUME SyncTypeOK, NEW d \in Devices, NEW k \in DOMAIN outbox[d]
    PROVE  /\ Outgoing(d, k) \in Edits
           /\ Outgoing(d, k).key = k
           /\ Outgoing(d, k).stamp = outbox[d][k].stamp
<1>1. k \in Keys /\ outbox[d][k].stamp \in Int
  BY LaptopTypes
<1>2. row[d][k].data \in Data
  BY <1>1, LaptopTypes DEF Versions
<1>3. Tombstone \in Data
  BY SyncAssumption DEF Tombstone
<1> QED BY <1>1, <1>2, <1>3 DEF Outgoing, Edits

(* What is taken from the queue is a batch of what is queued.              *)
LEMMA TakesType ==
    ASSUME SyncTypeOK, NEW d \in Devices, NEW queue \in SUBSET DOMAIN outbox[d],
           NEW b \in Takes(d, queue)
    PROVE  /\ IsBatch(b)
           /\ \A i \in DOMAIN b : /\ b[i].key \in DOMAIN outbox[d]
                                  /\ b[i].stamp = outbox[d][b[i].key].stamp
<1> DEFINE rows == {Outgoing(d, k) : k \in queue}
           full == IF Cardinality(queue) < PushBatch THEN Cardinality(queue)
                                                     ELSE PushBatch
           sizes == IF ByteCap THEN 1..full ELSE {full}
<1>1. full \in Nat
  <2>1. IsFiniteSet(queue)
    BY LaptopTypes, FS_Subset, SyncAssumption
  <2> QED BY <2>1, FS_CardinalityType, SyncAssumption
<1>2. PICK n \in sizes : b \in [1..n -> rows]
  BY DEF Takes
<1>3. n \in Nat
  BY <1>1, <1>2
<1>4. \A r \in rows : /\ r \in Edits
                      /\ r.key \in DOMAIN outbox[d]
                      /\ r.stamp = outbox[d][r.key].stamp
  BY OutgoingType
<1>5. b \in Seq(Edits) /\ DOMAIN b = 1..n
  BY <1>2, <1>3, <1>4
<1>6. \A i, j \in DOMAIN b : i < j => b[i].key # b[j].key
  BY DEF Takes, OldestFirst
<1>7. \A i, j \in DOMAIN b : b[i].key = b[j].key => i = j
  BY <1>3, <1>5, <1>6
<1> QED BY <1>2, <1>4, <1>5, <1>7 DEF IsBatch

(* A round goes on with one request of its own, in the place it has.       *)
LEMMA ProceedStep ==
    ASSUME SyncTypeOK, NEW d \in Devices, NEW c \in Calls,
           NEW queue \in SUBSET DOMAIN outbox[d], Proceed(d, c, queue)
    PROVE  \E r, x :
              /\ round' = [round EXCEPT ![d] = r]
              /\ calls' = [calls EXCEPT ![c] = x]
              /\ IsRound(r) /\ r # Idle /\ r.call = c
              /\ IsCall(x)
              /\ \/ /\ r.phase = "pulling"
                    /\ x.phase = "pullSent"
                 \/ /\ r.phase = "pushing"
                    /\ x.phase = "pushSent"
                    /\ x.batch = r.sent
                    /\ \A i \in DOMAIN r.sent :
                          /\ r.sent[i].key \in DOMAIN outbox[d]
                          /\ r.sent[i].stamp = outbox[d][r.sent[i].key].stamp
<1>1. CASE queue = {}
  <2> DEFINE r == [phase |-> "pulling", call |-> c]
             x == NewPull(d, cursor[d])
  <2>1. round' = [round EXCEPT ![d] = r] /\ calls' = [calls EXCEPT ![c] = x]
    BY <1>1 DEF Proceed
  <2>2. IsRound(r) /\ r # Idle /\ r.call = c /\ r.phase = "pulling"
    BY DEF IsRound, Idle
  <2>3. IsCall(x) /\ x.phase = "pullSent"
    <3>1. IsCall(x)
      BY NewCallsType, LaptopTypes
    <3> QED BY <3>1 DEF NewPull, PullCall
  <2> QED BY <2>1, <2>2, <2>3
<1>2. CASE queue # {}
  <2>1. PICK b \in Takes(d, queue) :
           /\ round' = [round EXCEPT
                  ![d] = [phase |-> "pushing", call |-> c, sent |-> b]]
           /\ calls' = [calls EXCEPT ![c] = NewPush(d, b)]
    BY <1>2 DEF Proceed
  <2> DEFINE r == [phase |-> "pushing", call |-> c, sent |-> b]
             x == NewPush(d, b)
  <2>2. /\ IsBatch(b)
        /\ \A i \in DOMAIN b : /\ b[i].key \in DOMAIN outbox[d]
                               /\ b[i].stamp = outbox[d][b[i].key].stamp
    BY TakesType
  <2>3. IsRound(r) /\ r # Idle /\ r.call = c /\ r.phase = "pushing" /\ r.sent = b
    BY <2>2 DEF IsRound, Idle
  <2>4. IsCall(x) /\ x.phase = "pushSent" /\ x.batch = b
    <3>1. IsCall(x)
      BY <2>2, NewCallsType
    <3> QED BY <3>1 DEF NewPush, PushCall
  <2> QED BY <2>1, <2>2, <2>3, <2>4
<1> QED BY <1>1, <1>2

----------------------------------------------------------------------------
(* The types.                                                              *)

LEMMA TypeInit == Init => SyncTypeOK
<1> SUFFICES ASSUME Init PROVE SyncTypeOK
  OBVIOUS
<1>1. RelayTypeOK
  BY EmptyIsTable, NewCallsType DEF Init, RelayInit, RelayTypeOK
<1>2. Missing \in Versions
  BY SyncAssumption DEF Missing, Versions, Tombstone
<1>3. /\ DOMAIN Empty = {}
      /\ Empty = [k \in DOMAIN Empty |-> Empty[k]]
  BY DEF Empty
<1> QED BY <1>1, <1>2, <1>3, SyncAssumption DEF Init, SyncTypeOK, IsRound

(* A queue, and what replacing one leaves of the others.                   *)
IsOutbox(q) ==
    /\ q = [k \in DOMAIN q |-> q[k]]
    /\ DOMAIN q \subseteq Keys
    /\ \A k \in DOMAIN q : q[k] \in Queued

LEMMA LaptopOutbox == SyncTypeOK => \A d \in Devices : IsOutbox(outbox[d])
BY DEF SyncTypeOK, IsOutbox

LEMMA OutboxReplaced ==
    ASSUME SyncTypeOK, NEW d \in Devices, NEW q, IsOutbox(q),
           outbox' = [outbox EXCEPT ![d] = q]
    PROVE  /\ outbox' = [e \in Devices |-> outbox'[e]]
           /\ \A e \in Devices : IsOutbox(outbox'[e])
BY LaptopOutbox DEF SyncTypeOK

(* An edit: the version and what is queued for it.                         *)
LEMMA WriteType ==
    ASSUME SyncTypeOK, NEW d \in Devices, NEW k \in Keys,
           NEW v \in Versions, NEW del \in BOOLEAN, Write(d, k, v, del)
    PROVE  SyncTypeOK'
<1>1. RelayTypeOK'
  <2>1. RelayTypeOK /\ UNCHANGED relayVars
    BY DEF SyncTypeOK, Write
  <2> QED BY <2>1 DEF RelayTypeOK, relayVars
<1>2. /\ row' \in [Devices -> [Keys -> Versions]]
      /\ edited' \in [Devices -> [Keys -> Versions]]
      /\ overrun' \in [Devices -> SUBSET Keys]
      /\ edits' \in 0..MaxEdits
  BY SyncAssumption DEF SyncTypeOK, Write
<1> DEFINE q == With(outbox[d], k, [stamp |-> v.stamp, deleted |-> del])
<1>3. outbox' = [outbox EXCEPT ![d] = q]
  BY DEF Write
<1>4. IsOutbox(q)
  BY LaptopOutbox DEF With, IsOutbox, Queued, Versions
<1>5. /\ outbox' = [e \in Devices |-> outbox'[e]]
      /\ \A e \in Devices : IsOutbox(outbox'[e])
  BY <1>3, <1>4, OutboxReplaced
<1>6. UNCHANGED <<cursor, round, failures>>
  BY DEF Write
<1> QED BY <1>1, <1>2, <1>5, <1>6 DEF SyncTypeOK, IsOutbox

(* A round moves on: one round and one invocation are replaced.            *)
LEMMA RoundType ==
    ASSUME SyncTypeOK, NEW d \in Devices, NEW c \in Calls, NEW r, NEW x,
           round' = [round EXCEPT ![d] = r], IsRound(r),
           calls' = [calls EXCEPT ![c] = x], IsCall(x),
           UNCHANGED <<now, seqValue, syncRows, wipes>>
    PROVE  /\ RelayTypeOK'
           /\ round' = [e \in Devices |-> round'[e]]
           /\ \A e \in Devices : IsRound(round'[e])
<1>1. RelayTypeOK'
  BY CallReplaced DEF SyncTypeOK, RelayTypeOK
<1> QED BY <1>1 DEF SyncTypeOK

(* What a page leaves in a laptop's table.                                 *)
LEMMA AppliedType ==
    ASSUME SyncTypeOK, NEW d \in Devices, NEW page, IsTable(page)
    PROVE  Applied(d, page) \in [Keys -> Versions]
BY DEF Applied, IsTable, Rows, Versions, SyncTypeOK

LEMMA WrittenOverType ==
    ASSUME SyncTypeOK, NEW d \in Devices, NEW page, IsTable(page), WrittenOver(d, page)
    PROVE  overrun' \in [Devices -> SUBSET Keys]
BY DEF WrittenOver, IsTable, SyncTypeOK

(* The answer a pulling laptop reads.                                      *)
LEMMA PullReply ==
    ASSUME SyncTypeOK, NEW d \in Devices, round[d].phase = "pulling",
           calls[round[d].call].phase = "pullDone"
    PROVE  /\ round[d].call \in Calls
           /\ IsTable(calls[round[d].call].page)
           /\ calls[round[d].call].cursor \in Nat
<1>1. round[d].call \in Calls
  BY DEF SyncTypeOK, IsRound, Idle
<1>2. IsCall(calls[round[d].call])
  BY <1>1 DEF SyncTypeOK, RelayTypeOK
<1> QED BY <1>1, <1>2, PullFields DEF PullPhases

(* Aborting and crashing end the round and spend one failure.              *)
LEMMA FailType ==
    ASSUME SyncTypeOK, NEW d \in Devices, NEW c \in Calls, Fail(d),
           UNCHANGED calls \/ calls' = [calls EXCEPT ![c] = Free],
           row' \in [Devices -> [Keys -> Versions]],
           overrun' \in [Devices -> SUBSET Keys]
    PROVE  SyncTypeOK'
<1>1. RelayTypeOK'
  <2>1. RelayTypeOK /\ UNCHANGED <<now, seqValue, syncRows, wipes>>
    BY DEF SyncTypeOK, Fail
  <2>2. CASE UNCHANGED calls
    BY <2>1, <2>2 DEF RelayTypeOK
  <2>3. CASE calls' = [calls EXCEPT ![c] = Free]
    <3>1. IsCall(Free)
      BY NewCallsType
    <3> QED BY <2>1, <2>3, <3>1, CallReplaced DEF RelayTypeOK
  <2> QED BY <2>2, <2>3
<1>2. /\ round' = [e \in Devices |-> round'[e]]
      /\ \A e \in Devices : IsRound(round'[e])
  BY DEF SyncTypeOK, Fail, IsRound
<1>3. failures' \in 0..MaxFailures
  BY SyncAssumption DEF SyncTypeOK, Fail
<1> QED BY <1>1, <1>2, <1>3 DEF SyncTypeOK, Fail

LEMMA TypeStep == SyncTypeOK /\ [Next]_vars => SyncTypeOK'
<1> SUFFICES ASSUME SyncTypeOK, [Next]_vars
             PROVE  SyncTypeOK'
  OBVIOUS
<1>1. ASSUME NEW d \in Devices, NEW k \in Keys, Edit(d, k)
      PROVE  SyncTypeOK'
  <2>1. Write(d, k, [data |-> edits + 1, stamp |-> Clock(d)], FALSE)
    BY <1>1 DEF Edit
  <2>2. edits + 1 \in 0..MaxEdits
    BY <2>1, SyncAssumption DEF Write, SyncTypeOK
  <2>3. [data |-> edits + 1, stamp |-> Clock(d)] \in Versions
    BY <2>2, LaptopTypes, SyncAssumption DEF Versions
  <2> QED BY <2>1, <2>3, WriteType
<1>2. ASSUME NEW d \in Devices, NEW k \in Keys, Delete(d, k)
      PROVE  SyncTypeOK'
  <2>1. Write(d, k, [data |-> Tombstone, stamp |-> Clock(d)], TRUE)
    BY <1>2 DEF Delete
  <2>2. [data |-> Tombstone, stamp |-> Clock(d)] \in Versions
    <3>1. Clock(d) \in Int
      BY LaptopTypes
    <3>2. Tombstone \in Data
      BY SyncAssumption DEF Tombstone
    <3> QED BY <3>1, <3>2 DEF Versions
  <2> QED BY <2>1, <2>2, WriteType
<1>3. ASSUME NEW d \in Devices, StartRound(d)
      PROVE  SyncTypeOK'
  <2>1. PICK c \in Calls : Proceed(d, c, DOMAIN outbox[d])
    BY <1>3 DEF StartRound
  <2>2. PICK r, x : /\ round' = [round EXCEPT ![d] = r] /\ IsRound(r)
                    /\ calls' = [calls EXCEPT ![c] = x] /\ IsCall(x)
    BY <2>1, ProceedStep
  <2>3. /\ RelayTypeOK'
        /\ round' = [e \in Devices |-> round'[e]]
        /\ \A e \in Devices : IsRound(round'[e])
    BY <1>3, <2>2, RoundType DEF StartRound
  <2> QED BY <1>3, <2>3 DEF StartRound, SyncTypeOK
<1>4. ASSUME NEW d \in Devices, OnPushReply(d)
      PROVE  SyncTypeOK'
  <2> DEFINE sent == round[d].sent
             left == DOMAIN outbox[d] \ Cleared(d, sent)
  <2>1. round[d].call \in Calls
    BY <1>4 DEF OnPushReply, SyncTypeOK, IsRound, Idle
  <2>2. StillToPush(sent, left) \in SUBSET DOMAIN outbox[d]
    BY DEF StillToPush
  <2>3. PICK r, x : /\ round' = [round EXCEPT ![d] = r] /\ IsRound(r)
                    /\ calls' = [calls EXCEPT ![round[d].call] = x] /\ IsCall(x)
    <3>1. Proceed(d, round[d].call, StillToPush(sent, left))
      BY <1>4 DEF OnPushReply
    <3> QED BY <2>1, <2>2, <3>1, ProceedStep
  <2>4. /\ RelayTypeOK'
        /\ round' = [e \in Devices |-> round'[e]]
        /\ \A e \in Devices : IsRound(round'[e])
    BY <1>4, <2>1, <2>3, RoundType DEF OnPushReply
  <2>5. outbox' = [outbox EXCEPT ![d] = [k \in left |-> outbox[d][k]]]
    BY <1>4 DEF OnPushReply
  <2>6. /\ outbox' = [e \in Devices |-> outbox'[e]]
        /\ \A e \in Devices : IsOutbox(outbox'[e])
    <3>1. left \subseteq DOMAIN outbox[d] /\ IsOutbox(outbox[d])
      BY LaptopOutbox
    <3>2. IsOutbox([k \in left |-> outbox[d][k]])
      BY <3>1 DEF IsOutbox
    <3> QED BY <2>5, <3>2, OutboxReplaced
  <2> QED BY <1>4, <2>4, <2>6 DEF OnPushReply, SyncTypeOK, IsOutbox
<1>5. ASSUME NEW d \in Devices, OnPullReply(d)
      PROVE  SyncTypeOK'
  <2> DEFINE c == round[d].call
             reply == calls[c]
  <2>1. c \in Calls /\ IsTable(reply.page) /\ reply.cursor \in Nat
    BY <1>5, PullReply DEF OnPullReply
  <2>2. row' \in [Devices -> [Keys -> Versions]]
    BY <1>5, <2>1, AppliedType DEF OnPullReply, SyncTypeOK
  <2>3. overrun' \in [Devices -> SUBSET Keys]
    BY <1>5, <2>1, WrittenOverType DEF OnPullReply
  <2>4. cursor' \in [Devices -> Nat]
    BY <1>5, <2>1 DEF OnPullReply, SyncTypeOK
  <2>5. outbox' = outbox
    BY <1>5 DEF OnPullReply, QueuedByApply, SyncTypeOK
  <2>6. PICK x, r : /\ IsCall(x)
                    /\ calls' = [calls EXCEPT ![c] = x]
                    /\ IsRound(r)
                    /\ round' = [round EXCEPT ![d] = r]
    <3>1. IsCall(NewPull(d, reply.cursor)) /\ IsCall(Free)
      BY <2>1, NewCallsType
    <3>2. IsRound(Idle) /\ IsRound(round[d])
      BY DEF SyncTypeOK, IsRound
    <3>3. round = [round EXCEPT ![d] = round[d]]
      BY DEF SyncTypeOK
    <3>4. CASE round' = round /\ calls' = [calls EXCEPT ![c] = NewPull(d, reply.cursor)]
      BY <3>1, <3>2, <3>3, <3>4
    <3>5. CASE /\ calls' = [calls EXCEPT ![c] = Free]
               /\ round' = [round EXCEPT ![d] = Idle]
      BY <3>1, <3>2, <3>5
    <3> QED BY <1>5, <3>4, <3>5 DEF OnPullReply
  <2>7. /\ RelayTypeOK'
        /\ round' = [e \in Devices |-> round'[e]]
        /\ \A e \in Devices : IsRound(round'[e])
    BY <1>5, <2>1, <2>6, RoundType DEF OnPullReply
  <2> QED BY <1>5, <2>2, <2>4, <2>5, <2>7, <2>3 DEF OnPullReply, SyncTypeOK
<1>6. ASSUME NEW d \in Devices, AbortRound(d)
      PROVE  SyncTypeOK'
  <2>1. round[d].call \in Calls
    BY <1>6 DEF AbortRound, SyncTypeOK, IsRound
  <2> QED BY <1>6, <2>1, FailType DEF AbortRound, SyncTypeOK
<1>7. ASSUME NEW d \in Devices, CrashAfterApply(d)
      PROVE  SyncTypeOK'
  <2>1. round[d].call \in Calls /\ IsTable(calls[round[d].call].page)
    BY <1>7, PullReply DEF CrashAfterApply
  <2>2. row' \in [Devices -> [Keys -> Versions]]
    BY <1>7, <2>1, AppliedType DEF CrashAfterApply, SyncTypeOK
  <2>3. overrun' \in [Devices -> SUBSET Keys]
    BY <1>7, <2>1, WrittenOverType DEF CrashAfterApply
  <2> QED BY <1>7, <2>1, <2>2, <2>3, FailType DEF CrashAfterApply
<1>8. ASSUME RelayTypeOK', UNCHANGED laptopVars
      PROVE  SyncTypeOK'
  BY <1>8 DEF SyncTypeOK, laptopVars
<1>9. ASSUME NEW c \in Calls, DropAnswer(c) \/ (Serve(c) /\ UNCHANGED laptopVars)
      PROVE  SyncTypeOK'
  <2>1. RelayTypeOK
    BY DEF SyncTypeOK
  <2>2. RelayTypeOK'
    BY <1>9, <2>1, ServeType, OtherStepsType DEF DropAnswer
  <2> QED BY <1>8, <1>9, <2>2 DEF DropAnswer
<1>10. CASE Tick /\ UNCHANGED laptopVars
  <2>1. RelayTypeOK
    BY DEF SyncTypeOK
  <2> QED BY <1>8, <1>10, <2>1, OtherStepsType
<1>11. CASE UNCHANGED vars
  BY <1>8, <1>11 DEF vars, relayVars, SyncTypeOK, RelayTypeOK
<1> QED BY <1>1, <1>2, <1>3, <1>4, <1>5, <1>6, <1>7, <1>9, <1>10, <1>11
        DEF Next, Laptop, RelayStep

(* The state of the fleet is well-typed, whatever fails.                   *)
THEOREM SyncTypeCorrect == Spec => []SyncTypeOK
BY TypeInit, TypeStep, PTL DEF Spec

----------------------------------------------------------------------------
(* Work is safe.  The inductive invariant says what an answer to a push    *)
(* means to the laptop that gets it: the request it is waiting for is its  *)
(* own, still carries the rows it sent under the stamps it sent them with  *)
(* (which needs clocks that are not clamped), and what is queued is the    *)
(* last edit.                                                              *)
ClocksClose == \A d \in Devices : Skew[d] <= MaxClockSkew

InTime(b) == \A i \in DOMAIN b : b[i].stamp <= now + MaxClockSkew

OwnRequest(r, x) ==
    \/ r.phase = "pulling" /\ x.phase \in PullPhases
    \/ /\ r.phase = "pushing" /\ x.phase \in PushPhases
       /\ x.batch = r.sent /\ InTime(r.sent)

RequestsAreOwn ==
    \A d \in Devices : round[d] # Idle =>
        /\ OwnRequest(round[d], calls[round[d].call])
        /\ \A e \in Devices \ {d} :
               round[e] # Idle => round[e].call # round[d].call

QueueIsNewest ==
    \A d \in Devices : \A k \in DOMAIN outbox[d] :
        /\ outbox[d][k].stamp = edited[d][k].stamp
        /\ outbox[d][k].stamp <= now + MaxClockSkew

WorkIInv ==
    SyncTypeOK /\ RequestsAreOwn /\ QueueIsNewest /\ PushesHeld /\ QueuedOrHeld

(* A round that takes a place nobody else is waiting at.                   *)
LEMMA OwnStep ==
    ASSUME SyncTypeOK, RequestsAreOwn, NEW d \in Devices, NEW c \in Calls,
           NEW r, NEW x,
           round' = [round EXCEPT ![d] = r],
           calls' = [calls EXCEPT ![c] = x],
           r = Idle \/ (r.call = c /\ OwnRequest(r, x)),
           \A e \in Devices \ {d} : round[e] # Idle => round[e].call # c,
           UNCHANGED now
    PROVE  RequestsAreOwn'
<1>1. /\ round = [e \in Devices |-> round[e]]
      /\ calls = [e \in Calls |-> calls[e]]
      /\ \A e \in Devices : round[e] # Idle => round[e].call \in Calls
  BY DEF SyncTypeOK, RelayTypeOK, IsRound
<1>2. round'[d] = r /\ calls'[c] = x
  BY <1>1
<1>3. \A e \in Devices \ {d} :
         /\ round'[e] = round[e]
         /\ round[e] # Idle => calls'[round[e].call] = calls[round[e].call]
  BY <1>1
<1> QED BY <1>2, <1>3 DEF RequestsAreOwn, OwnRequest, InTime

(* Freeing a place, or asking again from it, is up to who waits there.     *)
LEMMA NobodyElse ==
    ASSUME RequestsAreOwn, NEW d \in Devices, NEW c \in Calls,
           calls[c] = Free \/ (round[d] # Idle /\ round[d].call = c)
    PROVE  \A e \in Devices \ {d} : round[e] # Idle => round[e].call # c
BY DEF RequestsAreOwn, OwnRequest, Free, PushPhases, PullPhases

(* What is queued or held stays so while edits rest and rows only renew.   *)
LEMMA RestStep ==
    ASSUME SyncTypeOK, SyncTypeOK', QueueIsNewest, QueuedOrHeld,
           UNCHANGED <<outbox, edited>>, now' >= now,
           DOMAIN syncRows \subseteq DOMAIN syncRows',
           \A k \in DOMAIN syncRows : syncRows'[k].stamp >= syncRows[k].stamp
    PROVE  QueueIsNewest' /\ QueuedOrHeld'
<1>1. QueueIsNewest'
  BY LaptopTypes, RelayAssumption DEF QueueIsNewest, SyncTypeOK, RelayTypeOK
<1>2. /\ \A k \in DOMAIN syncRows : syncRows[k].stamp \in Int
      /\ \A k \in DOMAIN syncRows' : syncRows'[k].stamp \in Int
  BY DEF SyncTypeOK, RelayTypeOK, IsTable, Rows
<1>3. \A d \in Devices, k \in Keys : edited[d][k].stamp \in Int
  BY DEF SyncTypeOK, Versions
<1>4. \A d \in Devices, k \in Keys : Held(d, k) => Held(d, k)'
  BY <1>2, <1>3 DEF Held
<1> QED BY <1>1, <1>4 DEF QueuedOrHeld

LEMMA WorkInit == Init => WorkIInv
<1> SUFFICES ASSUME Init PROVE WorkIInv
  OBVIOUS
<1>1. SyncTypeOK
  BY TypeInit
<1> QED BY <1>1 DEF Init, RelayInit, Empty, Free, WorkIInv, RequestsAreOwn,
              QueueIsNewest, PushesHeld, QueuedOrHeld

(* An edit is queued under the stamp it is made with.                      *)
LEMMA WorkWrite ==
    ASSUME ClocksClose, WorkIInv, NEW d \in Devices, NEW k \in Keys,
           NEW v, v.stamp = Clock(d), NEW del, Write(d, k, v, del), SyncTypeOK'
    PROVE  WorkIInv'
<1>1. SyncTypeOK /\ QueueIsNewest /\ QueuedOrHeld /\ UNCHANGED <<relayVars, round>>
  BY DEF WorkIInv, Write
<1>2. RequestsAreOwn' /\ PushesHeld'
  BY <1>1 DEF WorkIInv, RequestsAreOwn, OwnRequest, InTime, PushesHeld, relayVars
<1> DEFINE q == [stamp |-> v.stamp, deleted |-> del]
<1>3. /\ outbox' = [outbox EXCEPT ![d] = With(outbox[d], k, q)]
      /\ edited' = [edited EXCEPT ![d][k] = v]
      /\ UNCHANGED <<now, syncRows>>
  BY <1>1 DEF Write, relayVars
<1>4. /\ outbox = [e \in Devices |-> outbox[e]]
      /\ edited \in [Devices -> [Keys -> Versions]]
  BY <1>1 DEF SyncTypeOK
<1>5. v.stamp <= now + MaxClockSkew
  <2>1. now \in Int /\ Skew[d] \in Int /\ Skew[d] <= MaxClockSkew /\ MaxClockSkew \in Int
    BY <1>1, SyncAssumption, RelayAssumption DEF SyncTypeOK, RelayTypeOK, ClocksClose
  <2> QED BY <2>1 DEF Clock
<1>6. /\ DOMAIN outbox'[d] = DOMAIN outbox[d] \cup {k}
      /\ outbox'[d][k].stamp = v.stamp
      /\ \A j \in DOMAIN outbox[d] \ {k} : outbox'[d][j] = outbox[d][j]
      /\ \A e \in Devices \ {d} : outbox'[e] = outbox[e]
  BY <1>3, <1>4 DEF With
<1>7. /\ edited'[d][k] = v
      /\ \A j \in Keys \ {k} : edited'[d][j] = edited[d][j]
      /\ \A e \in Devices \ {d} : edited'[e] = edited[e]
  BY <1>3, <1>4
<1>8. \A e \in Devices : DOMAIN outbox[e] \subseteq Keys
  BY <1>1, LaptopTypes
<1>9. QueueIsNewest'
  BY <1>1, <1>3, <1>5, <1>6, <1>7, <1>8 DEF QueueIsNewest
<1>10. QueuedOrHeld'
  BY <1>1, <1>3, <1>6, <1>7 DEF QueuedOrHeld, Held
<1> QED BY <1>2, <1>9, <1>10 DEF WorkIInv

(* A round that moves on, or ends, without touching queue, history or log. *)
LEMMA WorkRound ==
    ASSUME WorkIInv, SyncTypeOK', NEW d \in Devices, NEW c \in Calls,
           NEW r, NEW x,
           round' = [round EXCEPT ![d] = r],
           calls' = [calls EXCEPT ![c] = x],
           r = Idle \/ (r.call = c /\ OwnRequest(r, x)),
           x.phase # "pushDone" \/ x = calls[c],
           calls[c] = Free \/ (round[d] # Idle /\ round[d].call = c),
           UNCHANGED <<now, syncRows, edited, outbox>>
    PROVE  WorkIInv'
<1>1. SyncTypeOK /\ RelayTypeOK
  BY DEF WorkIInv, SyncTypeOK
<1>2. RequestsAreOwn'
  BY <1>1, NobodyElse, OwnStep DEF WorkIInv
<1>3. PushesHeld'
  <2>1. CASE x.phase # "pushDone"
    BY <1>1, <2>1, CallHeld DEF WorkIInv
  <2>2. CASE x = calls[c]
    BY <1>1, <2>2 DEF WorkIInv, RelayTypeOK, PushesHeld
  <2> QED BY <2>1, <2>2
<1>4. /\ now' >= now
      /\ DOMAIN syncRows \subseteq DOMAIN syncRows'
      /\ \A k \in DOMAIN syncRows : syncRows'[k].stamp >= syncRows[k].stamp
  BY <1>1 DEF RelayTypeOK, IsTable, Rows
<1>5. QueueIsNewest' /\ QueuedOrHeld'
  BY <1>1, <1>4, RestStep DEF WorkIInv
<1> QED BY <1>2, <1>3, <1>5 DEF WorkIInv

(* The request a round goes on with carries what is queued, in time.       *)
LEMMA ProceedIsOwn ==
    ASSUME WorkIInv, NEW d \in Devices, NEW c \in Calls,
           NEW queue \in SUBSET DOMAIN outbox[d], Proceed(d, c, queue)
    PROVE  \E r, x : /\ round' = [round EXCEPT ![d] = r]
                     /\ calls' = [calls EXCEPT ![c] = x]
                     /\ r.call = c /\ OwnRequest(r, x)
                     /\ x.phase # "pushDone"
<1>1. PICK r, x :
         /\ round' = [round EXCEPT ![d] = r]
         /\ calls' = [calls EXCEPT ![c] = x]
         /\ r.call = c
         /\ \/ r.phase = "pulling" /\ x.phase = "pullSent"
            \/ /\ r.phase = "pushing" /\ x.phase = "pushSent"
               /\ x.batch = r.sent
               /\ \A i \in DOMAIN r.sent :
                     /\ r.sent[i].key \in DOMAIN outbox[d]
                     /\ r.sent[i].stamp = outbox[d][r.sent[i].key].stamp
  BY ProceedStep DEF WorkIInv
<1>2. OwnRequest(r, x)
  BY <1>1 DEF OwnRequest, InTime, PushPhases, PullPhases, WorkIInv, QueueIsNewest
<1> QED BY <1>1, <1>2

(* An answered push clears what the relay now answers for.                 *)
LEMMA WorkPushReply ==
    ASSUME WorkIInv, SyncTypeOK', NEW d \in Devices, OnPushReply(d)
    PROVE  WorkIInv'
<1> DEFINE c == round[d].call
           sent == round[d].sent
           left == DOMAIN outbox[d] \ Cleared(d, sent)
<1>1. /\ SyncTypeOK /\ RelayTypeOK
      /\ round[d] # Idle /\ c \in Calls
      /\ calls[c].phase = "pushDone" /\ calls[c].batch = sent
  BY DEF OnPushReply, WorkIInv, SyncTypeOK, IsRound, Idle, RequestsAreOwn, OwnRequest
<1>2. StillToPush(sent, left) \in SUBSET DOMAIN outbox[d]
  BY DEF StillToPush
<1>3. Proceed(d, c, StillToPush(sent, left))
  BY DEF OnPushReply
<1>4. PICK r, x : /\ round' = [round EXCEPT ![d] = r]
                  /\ calls' = [calls EXCEPT ![c] = x]
                  /\ r.call = c /\ OwnRequest(r, x)
                  /\ x.phase # "pushDone"
  BY <1>1, <1>2, <1>3, ProceedIsOwn
<1>5. UNCHANGED <<now, syncRows, edited>>
  BY DEF OnPushReply
<1>6. RequestsAreOwn'
  BY <1>1, <1>4, <1>5, NobodyElse, OwnStep DEF WorkIInv
<1>7. PushesHeld'
  BY <1>1, <1>4, <1>5, CallHeld DEF WorkIInv
<1>8. /\ outbox'[d] = [k \in left |-> outbox[d][k]]
      /\ \A e \in Devices \ {d} : outbox'[e] = outbox[e]
  BY <1>1 DEF OnPushReply, SyncTypeOK
<1>9. QueueIsNewest'
  BY <1>5, <1>8 DEF WorkIInv, QueueIsNewest
<1>10. ASSUME NEW k \in DOMAIN outbox[d], k \notin left
       PROVE  Held(d, k)
  <2>1. PICK i \in DOMAIN sent :
           sent[i].key = k /\ sent[i].stamp = outbox[d][k].stamp
    BY <1>10 DEF Cleared
  <2>2. outbox[d][k].stamp = edited[d][k].stamp
    BY DEF WorkIInv, QueueIsNewest
  <2>3. k \in DOMAIN syncRows /\ syncRows[k].stamp >= sent[i].stamp
    BY <1>1, <2>1 DEF WorkIInv, PushesHeld
  <2> QED BY <2>1, <2>2, <2>3 DEF Held
<1>11. QueuedOrHeld'
  BY <1>5, <1>8, <1>10 DEF WorkIInv, QueuedOrHeld, Held
<1> QED BY <1>6, <1>7, <1>9, <1>11 DEF WorkIInv

(* The relay serves a request: if somebody waits for it, it is still what  *)
(* they sent.                                                              *)
LEMMA WorkServe ==
    ASSUME WorkIInv, SyncTypeOK', NEW c \in Calls, Serve(c), UNCHANGED laptopVars
    PROVE  WorkIInv'
<1>1. SyncTypeOK /\ RelayTypeOK /\ UNCHANGED <<outbox, edited, round>>
  BY DEF WorkIInv, SyncTypeOK, laptopVars
<1>2. /\ UNCHANGED now
      /\ DOMAIN syncRows \subseteq DOMAIN syncRows'
      /\ \A k \in DOMAIN syncRows : syncRows'[k].stamp >= syncRows[k].stamp
  BY <1>1, ServeStep
<1>3. now' >= now
  BY <1>1, <1>2 DEF RelayTypeOK
<1>4. QueueIsNewest' /\ QueuedOrHeld'
  BY <1>1, <1>2, <1>3, RestStep DEF WorkIInv
<1>5. PushesHeld'
  BY <1>1, ServeHeld DEF WorkIInv
<1>6. PICK y :
         /\ calls' = [calls EXCEPT ![c] = y]
         /\ \/ calls[c].phase \in PullPhases /\ y.phase \in PullPhases
            \/ /\ calls[c].phase \in PushPhases /\ y.phase \in PushPhases
               /\ y.batch \in {calls[c].batch, Clamped(calls[c].batch)}
  BY <1>1, ServeStep
<1>7. ASSUME NEW d \in Devices, round[d] # Idle, round[d].call = c
      PROVE  OwnRequest(round[d], y)
  <2>1. OwnRequest(round[d], calls[c])
    BY <1>7 DEF WorkIInv, RequestsAreOwn
  <2>2. CASE round[d].phase = "pulling" /\ calls[c].phase \in PullPhases
    BY <1>6, <2>2 DEF OwnRequest, PullPhases, PushPhases
  <2>3. CASE /\ round[d].phase = "pushing" /\ calls[c].phase \in PushPhases
             /\ calls[c].batch = round[d].sent /\ InTime(round[d].sent)
    <3>1. IsBatch(calls[c].batch) /\ now \in Nat
      BY <1>1, <2>3, PushFields DEF RelayTypeOK
    <3>2. Clamped(calls[c].batch) = calls[c].batch
      BY <2>3, <3>1, ClampedInTime DEF InTime
    <3> QED BY <1>6, <2>3, <3>2 DEF OwnRequest, PullPhases, PushPhases
  <2> QED BY <2>1, <2>2, <2>3 DEF OwnRequest
<1>8. \A d \in Devices : round[d] # Idle /\ round[d].call # c =>
         calls'[round[d].call] = calls[round[d].call]
  BY <1>1, <1>6 DEF SyncTypeOK, IsRound, RelayTypeOK
<1>9. calls'[c] = y
  BY <1>1, <1>6 DEF RelayTypeOK
<1>10. \A d \in Devices : round[d] # Idle =>
          OwnRequest(round[d], calls'[round[d].call])
  BY <1>7, <1>8, <1>9 DEF WorkIInv, RequestsAreOwn
<1>11. RequestsAreOwn'
  BY <1>1, <1>2, <1>10 DEF WorkIInv, RequestsAreOwn, OwnRequest, InTime
<1> QED BY <1>4, <1>5, <1>11 DEF WorkIInv

(* The end of a round, with its request gone or left to the relay.         *)
LEMMA WorkFail ==
    ASSUME WorkIInv, SyncTypeOK', NEW d \in Devices, round[d] # Idle, Fail(d),
           UNCHANGED calls \/ calls' = [calls EXCEPT ![round[d].call] = Free]
    PROVE  WorkIInv'
<1>1. SyncTypeOK /\ RelayTypeOK /\ round[d].call \in Calls
  BY DEF WorkIInv, SyncTypeOK, IsRound
<1>2. /\ round' = [round EXCEPT ![d] = Idle]
      /\ UNCHANGED <<now, syncRows, edited, outbox>>
  BY DEF Fail
<1>3. CASE UNCHANGED calls
  <2>1. calls' = [calls EXCEPT ![round[d].call] = calls[round[d].call]]
    BY <1>1, <1>3 DEF RelayTypeOK
  <2> QED BY <1>1, <1>2, <2>1, WorkRound
<1>4. CASE calls' = [calls EXCEPT ![round[d].call] = Free]
  <2>1. Free.phase # "pushDone"
    BY DEF Free
  <2> QED BY <1>1, <1>2, <1>4, <2>1, WorkRound
<1> QED BY <1>3, <1>4

LEMMA WorkStep ==
    ASSUME ClocksClose
    PROVE  WorkIInv /\ [Next]_vars => WorkIInv'
<1> SUFFICES ASSUME WorkIInv, [Next]_vars
             PROVE  WorkIInv'
  OBVIOUS
<1>1. SyncTypeOK /\ RelayTypeOK /\ SyncTypeOK'
  BY TypeStep DEF WorkIInv, SyncTypeOK
<1>2. ASSUME NEW d \in Devices, NEW k \in Keys, Edit(d, k) \/ Delete(d, k)
      PROVE  WorkIInv'
  BY <1>1, <1>2, WorkWrite DEF Edit, Delete
<1>3. ASSUME NEW d \in Devices, StartRound(d)
      PROVE  WorkIInv'
  <2>1. PICK c \in Calls : calls[c] = Free /\ Proceed(d, c, DOMAIN outbox[d])
    BY <1>3 DEF StartRound
  <2>2. PICK r, x : /\ round' = [round EXCEPT ![d] = r]
                    /\ calls' = [calls EXCEPT ![c] = x]
                    /\ r.call = c /\ OwnRequest(r, x)
                    /\ x.phase # "pushDone"
    BY <2>1, ProceedIsOwn
  <2>3. UNCHANGED <<now, syncRows, edited, outbox>>
    BY <1>3 DEF StartRound
  <2> QED BY <1>1, <2>1, <2>2, <2>3, WorkRound
<1>4. ASSUME NEW d \in Devices, OnPushReply(d)
      PROVE  WorkIInv'
  BY <1>1, <1>4, WorkPushReply
<1>5. ASSUME NEW d \in Devices, OnPullReply(d)
      PROVE  WorkIInv'
  <2> DEFINE c == round[d].call
             next == NewPull(d, calls[c].cursor)
  <2>1. round[d] # Idle /\ c \in Calls /\ round[d].phase = "pulling"
    BY <1>1, <1>5 DEF OnPullReply, SyncTypeOK, IsRound, Idle
  <2>2. /\ UNCHANGED <<now, syncRows, edited>>
        /\ UNCHANGED outbox
    BY <1>1, <1>5 DEF OnPullReply, QueuedByApply, SyncTypeOK
  <2>3. CASE UNCHANGED round /\ calls' = [calls EXCEPT ![c] = next]
    <3>1. round' = [round EXCEPT ![d] = round[d]]
      BY <1>1, <2>3 DEF SyncTypeOK
    <3>2. OwnRequest(round[d], next) /\ next.phase # "pushDone"
      BY <2>1 DEF OwnRequest, NewPull, PullCall, PullPhases
    <3> QED BY <1>1, <2>1, <2>2, <2>3, <3>1, <3>2, WorkRound
  <2>4. CASE /\ calls' = [calls EXCEPT ![c] = Free]
             /\ round' = [round EXCEPT ![d] = Idle]
    <3>1. Free.phase # "pushDone"
      BY DEF Free
    <3> QED BY <1>1, <2>1, <2>2, <2>4, <3>1, WorkRound
  <2> QED BY <1>5, <2>3, <2>4 DEF OnPullReply
<1>6. ASSUME NEW d \in Devices, AbortRound(d)
      PROVE  WorkIInv'
  BY <1>1, <1>6, WorkFail DEF AbortRound
<1>7. ASSUME NEW d \in Devices, CrashAfterApply(d)
      PROVE  WorkIInv'
  <2>1. round[d] # Idle
    BY <1>7 DEF CrashAfterApply, Idle
  <2>2. Fail(d) /\ calls' = [calls EXCEPT ![round[d].call] = Free]
    BY <1>7 DEF CrashAfterApply
  <2> QED BY <1>1, <2>1, <2>2, WorkFail
<1>8. ASSUME NEW c \in Calls, Serve(c), UNCHANGED laptopVars
      PROVE  WorkIInv'
  BY <1>1, <1>8, WorkServe
<1>9. ASSUME NEW c \in Calls, DropAnswer(c)
      PROVE  WorkIInv'
  <2>1. /\ calls' = [calls EXCEPT ![c] = Free]
        /\ UNCHANGED <<now, syncRows, round, outbox, edited>>
    BY <1>9 DEF DropAnswer, Hangup, laptopVars
  <2>2. PushesHeld'
    <3>1. Free.phase # "pushDone"
      BY DEF Free
    <3> QED BY <1>1, <2>1, <3>1, CallHeld DEF WorkIInv
  <2>3. \A d \in Devices : round[d] # Idle => calls'[round[d].call] = calls[round[d].call]
    BY <1>1, <1>9, <2>1 DEF DropAnswer, Awaited, SyncTypeOK, IsRound, RelayTypeOK
  <2>4. RequestsAreOwn'
    BY <2>1, <2>3 DEF WorkIInv, RequestsAreOwn, OwnRequest, InTime
  <2>5. /\ now' >= now
        /\ DOMAIN syncRows \subseteq DOMAIN syncRows'
        /\ \A k \in DOMAIN syncRows : syncRows'[k].stamp >= syncRows[k].stamp
    BY <1>1, <2>1 DEF RelayTypeOK, IsTable, Rows
  <2>6. QueueIsNewest' /\ QueuedOrHeld'
    BY <1>1, <2>1, <2>5, RestStep DEF WorkIInv
  <2> QED BY <1>1, <2>2, <2>4, <2>6 DEF WorkIInv
<1>10. CASE Tick /\ UNCHANGED laptopVars
  <2>1. /\ now' = now + 1 /\ now \in Nat
        /\ UNCHANGED <<syncRows, calls, round, outbox, edited>>
    BY <1>1, <1>10 DEF Tick, laptopVars, RelayTypeOK
  <2>2. /\ now' >= now
        /\ DOMAIN syncRows \subseteq DOMAIN syncRows'
        /\ \A k \in DOMAIN syncRows : syncRows'[k].stamp >= syncRows[k].stamp
    BY <1>1, <2>1 DEF RelayTypeOK, IsTable, Rows
  <2>3. QueueIsNewest' /\ QueuedOrHeld'
    BY <1>1, <2>1, <2>2, RestStep DEF WorkIInv
  <2>4. PushesHeld'
    BY <2>1 DEF WorkIInv, PushesHeld
  <2>5. RequestsAreOwn'
    <3>1. \A d \in Devices : round[d].phase = "pushing" =>
             \A i \in DOMAIN round[d].sent : round[d].sent[i].stamp \in Int
      <4>1. \A d \in Devices : IsRound(round[d])
        BY <1>1 DEF SyncTypeOK
      <4> QED BY <4>1, PushingRound, BatchRows
    <3>2. \A d \in Devices : round[d].phase = "pushing" /\ InTime(round[d].sent)
                                => InTime(round[d].sent)'
      BY <2>1, <3>1, RelayAssumption DEF InTime
    <3> QED BY <2>1, <3>2 DEF WorkIInv, RequestsAreOwn, OwnRequest
  <2> QED BY <1>1, <2>3, <2>4, <2>5 DEF WorkIInv
<1>11. CASE UNCHANGED vars
  <2>1. UNCHANGED <<now, syncRows, calls, round, outbox, edited>>
    BY <1>11 DEF vars, relayVars, laptopVars
  <2> QED BY <1>1, <2>1 DEF WorkIInv, RequestsAreOwn, OwnRequest, InTime,
             QueueIsNewest, PushesHeld, QueuedOrHeld, Held
<1> QED BY <1>2, <1>3, <1>4, <1>5, <1>6, <1>7, <1>8, <1>9, <1>10, <1>11
        DEF Next, Laptop, RelayStep

(* When no clock runs further ahead than the relay tolerates, no edit is   *)
(* ever on neither side: not through a failed round, a lost answer, a      *)
(* request that outlives its round, or an edit made while one runs.        *)
THEOREM WorkIsSafe ==
    ASSUME ClocksClose
    PROVE  Spec => []QueuedOrHeld
<1>1. Init => WorkIInv
  BY WorkInit
<1>2. WorkIInv /\ [Next]_vars => WorkIInv'
  BY WorkStep
<1>3. WorkIInv => QueuedOrHeld
  BY DEF WorkIInv
<1> QED BY <1>1, <1>2, <1>3, PTL DEF Spec

----------------------------------------------------------------------------
(* Every row of a batch is of the queue it was taken from, as that stands  *)
(* now.                                                                    *)
LEMMA TakesAll ==
    ASSUME SyncTypeOK, NEW d \in Devices, NEW queue \in SUBSET DOMAIN outbox[d],
           NEW b \in Takes(d, queue)
    PROVE  \A i \in DOMAIN b : b[i].key \in queue /\ b[i] = Outgoing(d, b[i].key)
<1> DEFINE rows == {Outgoing(d, k) : k \in queue}
           full == IF Cardinality(queue) < PushBatch THEN Cardinality(queue)
                                                     ELSE PushBatch
           sizes == IF ByteCap THEN 1..full ELSE {full}
<1>1. PICK n \in sizes : b \in [1..n -> rows]
  BY DEF Takes
<1> TAKE i \in DOMAIN b
<1>2. PICK k \in queue : b[i] = Outgoing(d, k)
  BY <1>1
<1>3. k \in DOMAIN outbox[d]
  OBVIOUS
<1>4. Outgoing(d, k).key = k
  BY <1>3, OutgoingType
<1> QED BY <1>2, <1>4

(* What a round goes on with: the first pull when nothing is left to push, *)
(* and a batch of what is left otherwise.                                  *)
LEMMA ProceedRound ==
    ASSUME NEW d \in Devices, NEW c \in Calls, NEW queue, Proceed(d, c, queue)
    PROVE  \E r, x :
              /\ round' = [round EXCEPT ![d] = r]
              /\ calls' = [calls EXCEPT ![c] = x]
              /\ r.call = c
              /\ \/ queue = {} /\ r.phase = "pulling" /\ x = NewPull(d, cursor[d])
                 \/ /\ queue # {} /\ r.phase = "pushing" /\ r.sent \in Takes(d, queue)
                    /\ x = NewPush(d, r.sent)
<1>1. CASE queue = {}
  <2> DEFINE r == [phase |-> "pulling", call |-> c]
             x == NewPull(d, cursor[d])
  <2>1. round' = [round EXCEPT ![d] = r] /\ calls' = [calls EXCEPT ![c] = x]
    BY <1>1 DEF Proceed
  <2>2. r.call = c /\ r.phase = "pulling"
    OBVIOUS
  <2> HIDE DEF r
  <2> QED BY <1>1, <2>1, <2>2
<1>2. CASE queue # {}
  <2>1. PICK b \in Takes(d, queue) :
           /\ round' = [round EXCEPT
                  ![d] = [phase |-> "pushing", call |-> c, sent |-> b]]
           /\ calls' = [calls EXCEPT ![c] = NewPush(d, b)]
    BY <1>2 DEF Proceed
  <2> DEFINE r == [phase |-> "pushing", call |-> c, sent |-> b]
  <2>2. r.call = c /\ r.phase = "pushing" /\ r.sent = b /\ round' = [round EXCEPT ![d] = r]
    BY <2>1
  <2> HIDE DEF r
  <2> QED BY <1>2, <2>1, <2>2
<1> QED BY <1>1, <1>2

----------------------------------------------------------------------------
(* What is queued is the last edit, and unless a page was written over it  *)
(* that is also what the table shows, from where a push will read it.      *)
Shown ==
    \A d \in Devices : \A k \in DOMAIN outbox[d] :
        /\ outbox[d][k].stamp = edited[d][k].stamp
        /\ outbox[d][k].deleted => edited[d][k].data = Tombstone
        /\ ~outbox[d][k].deleted /\ k \notin overrun[d] => row[d][k] = edited[d][k]

ShownInv == SyncTypeOK /\ Shown

LEMMA ShownInit == Init => ShownInv
<1>1. Init => SyncTypeOK
  BY TypeInit
<1> QED BY <1>1 DEF Init, Empty, ShownInv, Shown

(* An edit: the table, the queue and the history agree on it.              *)
LEMMA ShownWrite ==
    ASSUME ShownInv, NEW d \in Devices, NEW k \in Keys, NEW v, NEW del \in BOOLEAN,
           Write(d, k, v, del), del => v.data = Tombstone
    PROVE  Shown'
<1>1. /\ outbox = [e \in Devices |-> outbox[e]]
      /\ row \in [Devices -> [Keys -> Versions]]
      /\ edited \in [Devices -> [Keys -> Versions]]
      /\ overrun \in [Devices -> SUBSET Keys]
      /\ \A e \in Devices : DOMAIN outbox[e] \subseteq Keys
  BY DEF ShownInv, SyncTypeOK
<1> DEFINE q == [stamp |-> v.stamp, deleted |-> del]
<1>2. /\ DOMAIN outbox'[d] = DOMAIN outbox[d] \cup {k}
      /\ outbox'[d][k] = q
      /\ \A j \in DOMAIN outbox[d] \ {k} : outbox'[d][j] = outbox[d][j]
      /\ \A e \in Devices \ {d} : outbox'[e] = outbox[e]
  BY <1>1 DEF Write, With
<1>3. /\ edited'[d][k] = v /\ row'[d][k] = v
      /\ \A j \in Keys \ {k} : edited'[d][j] = edited[d][j] /\ row'[d][j] = row[d][j]
      /\ \A e \in Devices \ {d} : edited'[e] = edited[e] /\ row'[e] = row[e]
  BY <1>1 DEF Write
<1>4. /\ overrun'[d] = overrun[d] \ {k}
      /\ \A e \in Devices \ {d} : overrun'[e] = overrun[e]
  BY <1>1 DEF Write
<1> SUFFICES ASSUME NEW e \in Devices, NEW j \in DOMAIN outbox'[e]
             PROVE  /\ outbox'[e][j].stamp = edited'[e][j].stamp
                    /\ outbox'[e][j].deleted => edited'[e][j].data = Tombstone
                    /\ ~outbox'[e][j].deleted /\ j \notin overrun'[e] => row'[e][j] = edited'[e][j]
  BY DEF Shown
<1>5. CASE e = d /\ j = k
  BY <1>2, <1>3, <1>5
<1>6. CASE e = d /\ j # k
  <2>1. j \in DOMAIN outbox[d] /\ j \in Keys
    BY <1>1, <1>2, <1>6
  <2> QED BY <1>2, <1>3, <1>4, <1>6, <2>1 DEF ShownInv, Shown
<1>7. CASE e # d
  BY <1>2, <1>3, <1>4, <1>7 DEF ShownInv, Shown
<1> QED BY <1>5, <1>6, <1>7

(* A page: what it is written over is known.                               *)
LEMMA ShownApply ==
    ASSUME ShownInv, NEW d \in Devices, NEW page, WrittenOver(d, page),
           row' = [row EXCEPT ![d] = Applied(d, page)], UNCHANGED <<edited, outbox>>
    PROVE  Shown'
<1>1. /\ row \in [Devices -> [Keys -> Versions]]
      /\ overrun \in [Devices -> SUBSET Keys]
      /\ \A e \in Devices : DOMAIN outbox[e] \subseteq Keys
  BY DEF ShownInv, SyncTypeOK
<1>2. /\ \A k \in DOMAIN outbox[d] \ overrun'[d] : k \notin overrun[d] /\ row'[d][k] = row[d][k]
      /\ \A e \in Devices \ {d} : row'[e] = row[e] /\ overrun'[e] = overrun[e]
  BY <1>1 DEF WrittenOver, Applied
<1> QED BY <1>2 DEF ShownInv, Shown

(* Every step keeps it.                                                    *)
LEMMA ShownStep == ShownInv /\ [Next]_vars => ShownInv'
<1> SUFFICES ASSUME ShownInv, [Next]_vars PROVE Shown'
  BY TypeStep DEF ShownInv
<1>1. SyncTypeOK /\ outbox = [d \in Devices |-> outbox[d]]
  BY DEF ShownInv, SyncTypeOK
<1>2. ASSUME UNCHANGED <<row, edited, overrun>>,
             \A d \in Devices : /\ DOMAIN outbox'[d] \subseteq DOMAIN outbox[d]
                                /\ \A k \in DOMAIN outbox'[d] : outbox'[d][k] = outbox[d][k]
      PROVE  Shown'
  BY <1>2 DEF ShownInv, Shown
<1>3. ASSUME NEW d \in Devices, NEW k \in Keys, Edit(d, k) \/ Delete(d, k)
      PROVE  Shown'
  <2>1. CASE Edit(d, k)
    BY <2>1, ShownWrite DEF Edit
  <2>2. CASE Delete(d, k)
    BY <2>2, ShownWrite DEF Delete
  <2> QED BY <1>3, <2>1, <2>2
<1>4. ASSUME NEW d \in Devices, StartRound(d) \/ AbortRound(d) PROVE Shown'
  BY <1>2, <1>4 DEF StartRound, AbortRound, Fail
<1>5. ASSUME NEW d \in Devices, OnPushReply(d) PROVE Shown'
  BY <1>1, <1>2, <1>5 DEF OnPushReply
<1>6. ASSUME NEW d \in Devices, OnPullReply(d) PROVE Shown'
  <2>1. outbox' = outbox
    BY <1>1, <1>6 DEF OnPullReply, QueuedByApply
  <2> QED BY <1>6, <2>1, ShownApply DEF OnPullReply
<1>7. ASSUME NEW d \in Devices, CrashAfterApply(d) PROVE Shown'
  BY <1>7, ShownApply DEF CrashAfterApply, Fail
<1>8. CASE UNCHANGED laptopVars
  BY <1>2, <1>8 DEF laptopVars
<1> QED BY <1>3, <1>4, <1>5, <1>6, <1>7, <1>8
        DEF Next, Laptop, RelayStep, DropAnswer, vars

----------------------------------------------------------------------------
(* Nothing is forgotten. That an edit is queued or held under a stamp not  *)
(* older (WorkIsSafe) does not say that what is held is that edit:         *)
(* clearOutbox and the relay compare stamps, never contents. The           *)
(* inductive invariant follows every copy of a laptop's edits, in a        *)
(* request or in the relay's table: it is the last edit, or one under an   *)
(* earlier stamp, or the edit was written over before it was sent. For     *)
(* that a laptop's record must not be edited twice in one millisecond.     *)

OneEditAnInstant == ~SameInstant

(* A copy of a record that came from laptop d is an edit d made: the last  *)
(* one, unless that was written over, or one under an earlier stamp.       *)
CopyOf(v, last, lost, time) ==
    /\ last.stamp <= time
    /\ v.stamp <= last.stamp
    /\ v.stamp = last.stamp /\ ~lost => v.data = last.data

(* A copy of record k that laptop d made.                                  *)
Faithful(d, k, v) == CopyOf(v, edited[d][k], k \in overrun[d], Clock(d))

(* The rows a push carries are copies its laptop made.                     *)
FaithfulRequest(x) ==
    x.phase \in PushPhases =>
        \A i \in DOMAIN x.batch : Faithful(x.device, x.batch[i].key, x.batch[i])

(* And so are the rows the relay stores.                                   *)
FaithfulCopies ==
    /\ \A d \in Devices : \A k \in DOMAIN outbox[d] : edited[d][k].stamp <= Clock(d)
    /\ \A k \in DOMAIN syncRows : Faithful(syncRows[k].device, k, syncRows[k])
    /\ \A c \in Calls : FaithfulRequest(calls[c])

(* At first there are no copies.                                           *)
LEMMA CopyInit == Init => FaithfulCopies
<1> SUFFICES ASSUME Init PROVE FaithfulCopies
  OBVIOUS
<1>1. Free.phase \notin PushPhases
  BY DEF Free, PushPhases
<1> QED BY <1>1 DEF Init, RelayInit, Empty, FaithfulCopies, FaithfulRequest

(* Types that comparing stamps needs.                                      *)
LEMMA CopyTypes ==
    ASSUME SyncTypeOK
    PROVE  /\ \A d \in Devices : Clock(d) \in Int
           /\ \A d \in Devices, k \in Keys : edited[d][k].stamp \in Int
           /\ \A d \in Devices : DOMAIN outbox[d] \subseteq Keys
           /\ \A k \in DOMAIN syncRows :
                 k \in Keys /\ syncRows[k].device \in Devices /\ syncRows[k].stamp \in Int
           /\ \A c \in Calls : calls[c].phase \in PushPhases =>
                 /\ calls[c].device \in Devices /\ IsBatch(calls[c].batch)
                 /\ \A i \in DOMAIN calls[c].batch :
                       /\ calls[c].batch[i].key \in Keys
                       /\ calls[c].batch[i].stamp \in Int
<1>1. \A d \in Devices : Clock(d) \in Int /\ DOMAIN outbox[d] \subseteq Keys
  BY LaptopTypes
<1>2. \A d \in Devices, k \in Keys : edited[d][k].stamp \in Int
  BY DEF SyncTypeOK, Versions
<1>3. \A k \in DOMAIN syncRows :
         k \in Keys /\ syncRows[k].device \in Devices /\ syncRows[k].stamp \in Int
  BY DEF SyncTypeOK, RelayTypeOK, IsTable, Rows
<1>4. ASSUME NEW c \in Calls, calls[c].phase \in PushPhases
      PROVE  /\ calls[c].device \in Devices /\ IsBatch(calls[c].batch)
             /\ \A i \in DOMAIN calls[c].batch : /\ calls[c].batch[i].key \in Keys
                                                 /\ calls[c].batch[i].stamp \in Int
  <2>1. IsCall(calls[c])
    BY DEF SyncTypeOK, RelayTypeOK
  <2> DEFINE x == calls[c]
  <2>2. IsCall(x) /\ x.phase \in PushPhases
    BY <1>4, <2>1
  <2> HIDE DEF x
  <2>3. x.device \in Devices /\ IsBatch(x.batch)
    BY <2>2, PushFields
  <2>4. \A i \in DOMAIN x.batch : x.batch[i].key \in Keys /\ x.batch[i].stamp \in Int
    BY <2>3, BatchRows
  <2> QED BY <2>3, <2>4 DEF x
<1> QED BY <1>1, <1>2, <1>3, <1>4

(* An edit leaves every older copy older than itself.                      *)
LEMMA CopyWrite ==
    ASSUME OneEditAnInstant, SyncTypeOK, FaithfulCopies, NEW d \in Devices, NEW k \in Keys,
           NEW v, v.stamp = Clock(d), NEW del, Write(d, k, v, del)
    PROVE  FaithfulCopies'
<1>1. /\ outbox = [e \in Devices |-> outbox[e]]
      /\ edited \in [Devices -> [Keys -> Versions]]
      /\ overrun \in [Devices -> SUBSET Keys]
  BY DEF SyncTypeOK
<1>2. /\ edited'[d][k] = v
      /\ \A j \in Keys \ {k} : edited'[d][j] = edited[d][j]
      /\ \A e \in Devices \ {d} : edited'[e] = edited[e]
      /\ overrun'[d] = overrun[d] \ {k}
      /\ \A e \in Devices \ {d} : overrun'[e] = overrun[e]
  BY <1>1 DEF Write
<1>3. /\ DOMAIN outbox'[d] = DOMAIN outbox[d] \cup {k}
      /\ \A e \in Devices \ {d} : outbox'[e] = outbox[e]
  BY <1>1 DEF Write, With
<1>4. UNCHANGED <<now, syncRows, calls>> /\ edited[d][k].stamp # Clock(d)
  BY DEF Write, relayVars, OneEditAnInstant
<1>5. \A e \in Devices : Clock(e)' = Clock(e) /\ Clock(e) \in Int
  BY <1>4, CopyTypes DEF Clock
<1>6. ASSUME NEW e \in Devices, NEW j \in Keys, NEW w, w.stamp \in Int, Faithful(e, j, w)
      PROVE  CopyOf(w, edited'[e][j], j \in overrun'[e], now' + Skew[e])
  <2>1. edited[e][j].stamp \in Int /\ CopyOf(w, edited[e][j], j \in overrun[e], Clock(e))
    BY <1>6, CopyTypes DEF Faithful
  <2>2. CASE e = d /\ j = k
    <3>1. edited[d][k].stamp \in Int /\ CopyOf(w, edited[d][k], k \in overrun[d], Clock(d))
      BY <2>1, <2>2
    <3>2. w.stamp < Clock(d)
      BY <1>4, <1>5, <1>6, <3>1 DEF CopyOf
    <3>3. edited'[e][j] = v /\ now' + Skew[e] = Clock(d) /\ Clock(d) \in Int
      BY <1>2, <1>4, <1>5, <2>2 DEF Clock
    <3>4. CopyOf(w, v, k \in overrun'[d], Clock(d))
      <4> DEFINE t == Clock(d)
      <4>1. t \in Int /\ w.stamp < t /\ v.stamp = t /\ w.stamp \in Int
        BY <1>6, <3>2, <3>3
      <4> HIDE DEF t
      <4>2. CopyOf(w, v, k \in overrun'[d], t)
        BY <4>1 DEF CopyOf
      <4> QED BY <4>2 DEF t
    <3> QED BY <2>2, <3>3, <3>4
  <2>3. CASE ~(e = d /\ j = k)
    <3>1. edited'[e][j] = edited[e][j] /\ now' + Skew[e] = Clock(e)
      BY <1>2, <1>4, <2>3 DEF Clock
    <3>2. j \in overrun'[e] <=> j \in overrun[e]
      BY <1>2, <2>3
    <3> QED BY <2>1, <3>1, <3>2
  <2> QED BY <2>2, <2>3
<1>7. \A e \in Devices : \A j \in DOMAIN outbox'[e] : edited'[e][j].stamp <= Clock(e)'
  BY <1>2, <1>3, <1>5, CopyTypes DEF FaithfulCopies
<1>8. \A j \in DOMAIN syncRows' : Faithful(syncRows[j].device, j, syncRows[j])'
  <2> SUFFICES ASSUME NEW j \in DOMAIN syncRows
               PROVE  CopyOf(syncRows'[j], edited'[syncRows'[j].device][j],
                             j \in overrun'[syncRows'[j].device],
                             now' + Skew[syncRows'[j].device])
    BY <1>4 DEF Faithful, Clock
  <2> DEFINE w == syncRows[j]
  <2>1. w.device \in Devices /\ j \in Keys /\ w.stamp \in Int /\ Faithful(w.device, j, w)
    BY CopyTypes DEF FaithfulCopies
  <2>2. syncRows'[j] = w
    BY <1>4
  <2> HIDE DEF w
  <2>3. CopyOf(w, edited'[w.device][j], j \in overrun'[w.device], now' + Skew[w.device])
    BY <1>6, <2>1
  <2> QED BY <2>2, <2>3
<1>9. \A c \in Calls : FaithfulRequest(calls[c])'
  <2> SUFFICES ASSUME NEW c \in Calls, calls[c].phase \in PushPhases,
                      NEW i \in DOMAIN calls[c].batch
               PROVE  CopyOf(calls'[c].batch[i],
                             edited'[calls'[c].device][calls'[c].batch[i].key],
                             calls'[c].batch[i].key \in overrun'[calls'[c].device],
                             now' + Skew[calls'[c].device])
    BY <1>4 DEF FaithfulRequest, Faithful, Clock
  <2> DEFINE x == calls[c]
             w == x.batch[i]
  <2>1. x.device \in Devices /\ w.key \in Keys /\ w.stamp \in Int /\ Faithful(x.device, w.key, w)
    BY CopyTypes DEF FaithfulCopies, FaithfulRequest
  <2>2. calls'[c] = x /\ calls'[c].batch[i] = w
    BY <1>4
  <2> HIDE DEF x, w
  <2>3. CopyOf(w, edited'[x.device][w.key], w.key \in overrun'[x.device], now' + Skew[x.device])
    BY <1>6, <2>1
  <2> QED BY <2>2, <2>3
<1> QED BY <1>4, <1>7, <1>8, <1>9 DEF FaithfulCopies

(* While edits rest, copies stay faithful as time passes.                  *)
LEMMA CopyRest ==
    ASSUME SyncTypeOK, SyncTypeOK', UNCHANGED edited, now' >= now,
           NEW e \in Devices, NEW j \in Keys, NEW w, Faithful(e, j, w),
           overrun[e] \subseteq overrun'[e]
    PROVE  CopyOf(w, edited'[e][j], j \in overrun'[e], now' + Skew[e])
<1>1. now \in Int /\ now' \in Int /\ Skew[e] \in Int /\ edited[e][j].stamp \in Int
  BY SyncAssumption, CopyTypes DEF SyncTypeOK, RelayTypeOK
<1>2. edited[e][j].stamp <= now + Skew[e]
  BY DEF Faithful, CopyOf, Clock
<1>3. edited'[e][j].stamp <= now' + Skew[e]
  BY <1>1, <1>2
<1> QED BY <1>3 DEF Faithful, CopyOf

(* Whatever requests there are next, if they carry faithful copies.        *)
LEMMA CopyKept ==
    ASSUME SyncTypeOK, SyncTypeOK', FaithfulCopies, UNCHANGED <<edited, syncRows>>,
           now' >= now,
           \A d \in Devices : /\ DOMAIN outbox'[d] \subseteq DOMAIN outbox[d]
                              /\ overrun[d] \subseteq overrun'[d],
           \A c \in Calls : FaithfulRequest(calls'[c])
    PROVE  FaithfulCopies'
<1>1. ASSUME NEW d \in Devices, NEW k \in DOMAIN outbox'[d]
      PROVE  edited'[d][k].stamp <= Clock(d)'
  <2>1. k \in DOMAIN outbox[d] /\ k \in Keys
    BY <1>1, CopyTypes
  <2>2. /\ now \in Int /\ now' \in Int /\ Skew[d] \in Int /\ edited[d][k].stamp \in Int
        /\ edited[d][k].stamp <= now + Skew[d]
    BY <2>1, SyncAssumption, CopyTypes DEF SyncTypeOK, RelayTypeOK, FaithfulCopies, Clock
  <2>3. edited[d][k].stamp <= now' + Skew[d]
    BY <2>2
  <2> QED BY <2>3 DEF Clock
<1>2. ASSUME NEW k \in DOMAIN syncRows'
      PROVE  Faithful(syncRows[k].device, k, syncRows[k])'
  <2> DEFINE w == syncRows[k]
  <2>1. k \in Keys /\ w.device \in Devices /\ Faithful(w.device, k, w) /\ syncRows' = syncRows
    BY <1>2, CopyTypes DEF FaithfulCopies
  <2> HIDE DEF w
  <2>2. CopyOf(w, edited'[w.device][k], k \in overrun'[w.device], now' + Skew[w.device])
    BY <2>1, CopyRest
  <2> QED BY <2>1, <2>2 DEF Faithful, Clock, w
<1>3. ASSUME NEW c \in Calls PROVE FaithfulRequest(calls[c])'
  <2> SUFFICES ASSUME calls'[c].phase \in PushPhases, NEW i \in DOMAIN calls'[c].batch
               PROVE  CopyOf(calls'[c].batch[i],
                             edited'[calls'[c].device][calls'[c].batch[i].key],
                             calls'[c].batch[i].key \in overrun'[calls'[c].device],
                             now' + Skew[calls'[c].device])
    BY DEF FaithfulRequest, Faithful, Clock
  <2> DEFINE x == calls'[c]
  <2>1. IsCall(x) /\ x.phase \in PushPhases /\ i \in DOMAIN x.batch /\ FaithfulRequest(x)
    BY DEF SyncTypeOK, RelayTypeOK
  <2> HIDE DEF x
  <2>2. x.device \in Devices /\ x.batch[i].key \in Keys
    BY <2>1, PushFields, BatchRows
  <2>3. Faithful(x.device, x.batch[i].key, x.batch[i])
    BY <2>1 DEF FaithfulRequest
  <2>4. CopyOf(x.batch[i], edited'[x.device][x.batch[i].key],
               x.batch[i].key \in overrun'[x.device], now' + Skew[x.device])
    BY <2>2, <2>3, CopyRest
  <2> QED BY <2>4 DEF x
<1> QED BY <1>1, <1>2, <1>3 DEF FaithfulCopies

(* One invocation replaced, with the table as it was.                      *)
LEMMA CopyCall ==
    ASSUME SyncTypeOK, SyncTypeOK', FaithfulCopies, UNCHANGED <<edited, now, syncRows>>,
           \A d \in Devices : /\ DOMAIN outbox'[d] \subseteq DOMAIN outbox[d]
                              /\ overrun[d] \subseteq overrun'[d],
           NEW c \in Calls, NEW x, calls' = [calls EXCEPT ![c] = x], FaithfulRequest(x)
    PROVE  FaithfulCopies'
<1>1. now' >= now
  BY DEF SyncTypeOK, RelayTypeOK
<1>2. calls'[c] = x /\ \A e \in Calls \ {c} : calls'[e] = calls[e]
  BY DEF SyncTypeOK, RelayTypeOK
<1>3. \A e \in Calls : FaithfulRequest(calls'[e])
  BY <1>2 DEF FaithfulCopies
<1> QED BY <1>1, <1>3, CopyKept

(* What a laptop sends is what it edited.                                  *)
LEMMA CopyProceed ==
    ASSUME ShownInv, FaithfulCopies, NEW d \in Devices,
           NEW c \in Calls, NEW queue \in SUBSET DOMAIN outbox[d], Proceed(d, c, queue)
    PROVE  \E x : calls' = [calls EXCEPT ![c] = x] /\ FaithfulRequest(x)
<1>1. PICK r, x :
         /\ calls' = [calls EXCEPT ![c] = x]
         /\ \/ x = NewPull(d, cursor[d])
            \/ r.sent \in Takes(d, queue) /\ x = NewPush(d, r.sent)
  BY ProceedRound
<1>2. ASSUME NEW k \in DOMAIN outbox[d]
      PROVE  Faithful(d, k, Outgoing(d, k))
  <2>1. /\ outbox[d][k].stamp = edited[d][k].stamp
        /\ outbox[d][k].deleted => edited[d][k].data = Tombstone
        /\ ~outbox[d][k].deleted /\ k \notin overrun[d] => row[d][k] = edited[d][k]
        /\ edited[d][k].stamp <= Clock(d)
    BY DEF ShownInv, Shown, FaithfulCopies
  <2>2. /\ Outgoing(d, k).stamp = edited[d][k].stamp
        /\ k \notin overrun[d] => Outgoing(d, k).data = edited[d][k].data
    BY <2>1 DEF Outgoing
  <2>3. edited[d][k].stamp \in Int
    BY CopyTypes DEF ShownInv
  <2> QED BY <2>1, <2>2, <2>3 DEF Faithful, CopyOf
<1>3. FaithfulRequest(x)
  <2>1. CASE x = NewPull(d, cursor[d])
    BY <2>1 DEF NewPull, PullCall, FaithfulRequest, PushPhases
  <2>2. CASE r.sent \in Takes(d, queue) /\ x = NewPush(d, r.sent)
    <3> DEFINE b == r.sent
    <3>1. b \in Takes(d, queue) /\ x.batch = b /\ x.device = d
      BY <2>2 DEF NewPush, PushCall
    <3> HIDE DEF b
    <3>2. \A i \in DOMAIN b : b[i].key \in queue /\ b[i] = Outgoing(d, b[i].key)
      BY <3>1, TakesAll DEF ShownInv
    <3> QED BY <1>2, <3>1, <3>2 DEF FaithfulRequest
  <2> QED BY <1>1, <2>1, <2>2
<1> QED BY <1>1, <1>3

(* The relay serves a request: what was in it is what lands.               *)
LEMMA CopyServe ==
    ASSUME ClocksClose, SyncTypeOK, SyncTypeOK', FaithfulCopies, NEW c \in Calls, Serve(c),
           UNCHANGED laptopVars
    PROVE  FaithfulCopies'
<1> DEFINE x == calls[c]
<1>1. /\ RelayTypeOK /\ UNCHANGED <<edited, outbox, overrun, now>>
      /\ \A d \in Devices : /\ DOMAIN outbox'[d] \subseteq DOMAIN outbox[d]
                            /\ overrun[d] \subseteq overrun'[d]
  BY DEF SyncTypeOK, laptopVars, Serve, PushReserve, PushCommit, PullRead, PullHead
<1>2. CASE PushReserve(c)
  <2> DEFINE y == PushCall("pushReserved", x.device, Clamped(x.batch), seqValue + Len(x.batch))
  <2>1. /\ x.phase \in PushPhases /\ IsBatch(x.batch) /\ x.device \in Devices
        /\ calls' = [calls EXCEPT ![c] = y]
    BY <1>1, <1>2, PushReserveStep DEF PushPhases
  <2>2. \A i \in DOMAIN x.batch : x.batch[i].stamp <= now + MaxClockSkew
    <3> SUFFICES ASSUME NEW i \in DOMAIN x.batch PROVE x.batch[i].stamp <= now + MaxClockSkew
      OBVIOUS
    <3> DEFINE w == x.batch[i]
    <3>1. Faithful(x.device, w.key, w) /\ w.key \in Keys /\ w.stamp \in Int
      BY <2>1, CopyTypes DEF FaithfulCopies, FaithfulRequest
    <3>2. edited[x.device][w.key].stamp \in Int /\ Clock(x.device) = now + Skew[x.device]
      BY <2>1, <3>1, CopyTypes DEF Clock
    <3>3. /\ now \in Int /\ Skew[x.device] \in Int /\ Skew[x.device] <= MaxClockSkew
          /\ MaxClockSkew \in Int
      BY <2>1, SyncAssumption, RelayAssumption DEF SyncTypeOK, RelayTypeOK, ClocksClose
    <3>4. w.stamp <= Clock(x.device)
      <4>1. Clock(x.device) \in Int
        BY <2>1, CopyTypes
      <4> QED BY <3>1, <3>2, <4>1 DEF Faithful, CopyOf
    <3> HIDE DEF w, x
    <3> QED BY <3>1, <3>2, <3>3, <3>4 DEF w
  <2>3. Clamped(x.batch) = x.batch
    BY <1>1, <2>1, <2>2, ClampedInTime DEF RelayTypeOK
  <2>4. FaithfulRequest(x)
    BY DEF FaithfulCopies
  <2>5. y.batch = x.batch /\ y.device = x.device
    BY <2>3 DEF PushCall
  <2>6. FaithfulRequest(y)
    <3> HIDE DEF y
    <3> QED BY <2>1, <2>4, <2>5 DEF FaithfulRequest
  <2> QED BY <1>1, <1>2, <2>1, <2>6, CopyCall DEF PushReserve
<1>3. CASE PullRead(c) \/ PullHead(c)
  <2>1. PICK y : calls' = [calls EXCEPT ![c] = y] /\ y.phase \in {"pullEmpty", "pullDone"}
    BY <1>1, <1>3, PullStep
  <2>2. FaithfulRequest(y) /\ UNCHANGED syncRows
    BY <1>1, <1>3, <2>1, PullStep DEF FaithfulRequest, PushPhases
  <2> QED BY <1>1, <2>1, <2>2, CopyCall
<1>4. CASE PushCommit(c)
  <2> DEFINE y == PushCall("pushDone", x.device, x.batch, x.end)
  <2>1. /\ x.phase = "pushReserved" /\ x.device \in Devices /\ IsBatch(x.batch)
        /\ calls' = [calls EXCEPT ![c] = y]
        /\ DOMAIN syncRows' = DOMAIN syncRows \cup {x.batch[i].key : i \in Accepted(x)}
        /\ \A i \in Accepted(x) : syncRows'[x.batch[i].key] = Landed(x, i)
        /\ \A k \in DOMAIN syncRows :
              (\A i \in Accepted(x) : x.batch[i].key # k) => syncRows'[k] = syncRows[k]
    BY <1>1, <1>4, PushCommitStep
  <2>2. FaithfulRequest(x) /\ x.phase \in PushPhases
    BY <2>1 DEF FaithfulCopies, PushPhases
  <2>3. y.batch = x.batch /\ y.device = x.device
    BY DEF PushCall
  <2>4. FaithfulRequest(y)
    <3> HIDE DEF y
    <3> QED BY <2>2, <2>3 DEF FaithfulRequest
  <2>5. calls'[c] = y /\ \A e \in Calls \ {c} : calls'[e] = calls[e]
    BY <1>1, <2>1 DEF RelayTypeOK
  <2>6. \A e \in Calls : FaithfulRequest(calls'[e])
    <3> HIDE DEF y
    <3> QED BY <2>4, <2>5 DEF FaithfulCopies
  <2>7. \A e \in Calls : FaithfulRequest(calls[e])'
    BY <1>1, <2>6 DEF FaithfulRequest, Faithful, Clock
  <2>8. ASSUME NEW k \in DOMAIN syncRows'
        PROVE  Faithful(syncRows'[k].device, k, syncRows'[k])
    <3>1. CASE \E i \in Accepted(x) : x.batch[i].key = k
      <4>1. PICK i \in Accepted(x) : x.batch[i].key = k
        BY <3>1
      <4>2. syncRows'[k] = Landed(x, i) /\ i \in DOMAIN x.batch
        BY <2>1, <4>1 DEF Accepted
      <4>3. Faithful(x.device, k, x.batch[i])
        BY <2>2, <4>1, <4>2 DEF FaithfulRequest
      <4>4. /\ Landed(x, i).device = x.device
            /\ Landed(x, i).stamp = x.batch[i].stamp
            /\ Landed(x, i).data = x.batch[i].data
        BY DEF Landed
      <4> QED BY <4>2, <4>3, <4>4 DEF Faithful, CopyOf
    <3>2. CASE \A i \in Accepted(x) : x.batch[i].key # k
      BY <2>1, <3>2 DEF FaithfulCopies
    <3> QED BY <3>1, <3>2
  <2>9. \A k \in DOMAIN syncRows' : Faithful(syncRows[k].device, k, syncRows[k])'
    BY <1>1, <2>8 DEF Faithful, Clock
  <2>10. \A d \in Devices : \A k \in DOMAIN outbox'[d] : edited'[d][k].stamp <= Clock(d)'
    BY <1>1 DEF FaithfulCopies, Clock
  <2> QED BY <2>7, <2>9, <2>10 DEF FaithfulCopies
<1> QED BY <1>2, <1>3, <1>4 DEF Serve

(* Every step keeps it.                                                    *)
LEMMA CopyStep ==
    ASSUME ClocksClose, OneEditAnInstant
    PROVE  ShownInv /\ FaithfulCopies /\ [Next]_vars => FaithfulCopies'
<1> SUFFICES ASSUME ShownInv, FaithfulCopies, [Next]_vars PROVE FaithfulCopies'
  OBVIOUS
<1>1. SyncTypeOK /\ SyncTypeOK' /\ outbox = [d \in Devices |-> outbox[d]]
  BY TypeStep DEF ShownInv, SyncTypeOK
<1>2. FaithfulRequest(Free)
  BY DEF FaithfulRequest, Free, PushPhases
<1>3. ASSUME NEW d \in Devices, NEW k \in Keys, Edit(d, k) \/ Delete(d, k)
      PROVE  FaithfulCopies'
  <2>1. PICK v, del : Write(d, k, v, del) /\ v.stamp = Clock(d)
    <3>1. ASSUME NEW w, w = [data |-> w.data, stamp |-> Clock(d)], NEW del, Write(d, k, w, del)
          PROVE  \E v, b : Write(d, k, v, b) /\ v.stamp = Clock(d)
      <4>1. w.stamp = Clock(d)
        BY <3>1
      <4> QED BY <3>1, <4>1
    <3> QED BY <1>3, <3>1 DEF Edit, Delete
  <2> QED BY <1>1, <2>1, CopyWrite
<1>4. ASSUME NEW d \in Devices, StartRound(d)
      PROVE  FaithfulCopies'
  <2>1. PICK c \in Calls : Proceed(d, c, DOMAIN outbox[d])
    BY <1>4 DEF StartRound
  <2>2. PICK x : calls' = [calls EXCEPT ![c] = x] /\ FaithfulRequest(x)
    BY <2>1, CopyProceed
  <2>3. UNCHANGED <<edited, now, syncRows, outbox, overrun>>
    BY <1>4 DEF StartRound
  <2> QED BY <1>1, <2>2, <2>3, CopyCall
<1>5. ASSUME NEW d \in Devices, OnPushReply(d)
      PROVE  FaithfulCopies'
  <2> DEFINE c == round[d].call
             left == DOMAIN outbox[d] \ Cleared(d, round[d].sent)
             queue == StillToPush(round[d].sent, left)
  <2>1. Proceed(d, c, queue) /\ queue \in SUBSET DOMAIN outbox[d] /\ c \in Calls
    BY <1>1, <1>5 DEF OnPushReply, StillToPush, SyncTypeOK, IsRound, Idle
  <2>2. /\ UNCHANGED <<edited, now, syncRows, overrun>>
        /\ \A e \in Devices : DOMAIN outbox'[e] \subseteq DOMAIN outbox[e]
    BY <1>1, <1>5 DEF OnPushReply
  <2> HIDE DEF c, queue
  <2>3. PICK x : calls' = [calls EXCEPT ![c] = x] /\ FaithfulRequest(x)
    BY <2>1, CopyProceed
  <2> QED BY <1>1, <2>1, <2>2, <2>3, CopyCall
<1>6. ASSUME NEW c \in Calls, NEW x, calls' = [calls EXCEPT ![c] = x], FaithfulRequest(x),
             UNCHANGED <<edited, now, syncRows, outbox>>,
             \A d \in Devices : overrun[d] \subseteq overrun'[d]
      PROVE  FaithfulCopies'
  BY <1>1, <1>6, CopyCall
<1>7. ASSUME NEW d \in Devices, OnPullReply(d)
      PROVE  FaithfulCopies'
  <2> DEFINE c == round[d].call
             x == NewPull(d, calls[c].cursor)
  <2>1. c \in Calls /\ UNCHANGED <<edited, now, syncRows, outbox>>
    BY <1>1, <1>7 DEF OnPullReply, QueuedByApply, SyncTypeOK, IsRound, Idle
  <2>4. \A e \in Devices : overrun[e] \subseteq overrun'[e]
    BY <1>1, <1>7 DEF OnPullReply, WrittenOver, SyncTypeOK
  <2>2. calls' = [calls EXCEPT ![c] = x] \/ calls' = [calls EXCEPT ![c] = Free]
    BY <1>7 DEF OnPullReply
  <2>3. FaithfulRequest(x)
    BY DEF NewPull, PullCall, FaithfulRequest, PushPhases
  <2> HIDE DEF c, x
  <2> QED BY <1>2, <1>6, <2>1, <2>2, <2>3, <2>4
<1>8. ASSUME NEW c \in Calls, UNCHANGED calls \/ calls' = [calls EXCEPT ![c] = Free],
             UNCHANGED <<edited, now, syncRows, outbox>>,
             \A d \in Devices : overrun[d] \subseteq overrun'[d]
      PROVE  FaithfulCopies'
  <2>1. CASE UNCHANGED calls
    <3>1. now' >= now
      BY <1>1, <1>8 DEF SyncTypeOK, RelayTypeOK
    <3> QED BY <1>1, <1>8, <2>1, <3>1, CopyKept DEF FaithfulCopies
  <2>2. CASE calls' = [calls EXCEPT ![c] = Free]
    BY <1>2, <1>6, <1>8, <2>2
  <2> QED BY <1>8, <2>1, <2>2
<1>9. ASSUME NEW d \in Devices, AbortRound(d) \/ CrashAfterApply(d)
      PROVE  FaithfulCopies'
  <2> DEFINE c == round[d].call
  <2>1. c \in Calls
    BY <1>1, <1>9 DEF AbortRound, CrashAfterApply, SyncTypeOK, IsRound, Idle
  <2>2. UNCHANGED calls \/ calls' = [calls EXCEPT ![c] = Free]
    BY <1>9 DEF AbortRound, CrashAfterApply
  <2>3. UNCHANGED <<edited, now, syncRows, outbox>>
    BY <1>9 DEF AbortRound, CrashAfterApply, Fail
  <2>4. \A e \in Devices : overrun[e] \subseteq overrun'[e]
    <3>1. overrun \in [Devices -> SUBSET Keys]
      BY <1>1 DEF SyncTypeOK
    <3>2. CASE AbortRound(d)
      BY <3>2 DEF AbortRound
    <3>3. CASE CrashAfterApply(d)
      <4>1. overrun' = [overrun EXCEPT ![d] =
                @ \cup (DOMAIN calls[round[d].call].page \cap DOMAIN outbox[d])]
        BY <3>3 DEF CrashAfterApply, WrittenOver
      <4> QED BY <3>1, <4>1
    <3> QED BY <1>9, <3>2, <3>3
  <2> HIDE DEF c
  <2> QED BY <1>8, <2>1, <2>2, <2>3, <2>4
<1>10. ASSUME NEW c \in Calls, DropAnswer(c)
       PROVE  FaithfulCopies'
  BY <1>8, <1>10 DEF DropAnswer, Hangup, laptopVars
<1>11. ASSUME NEW c \in Calls, Serve(c), UNCHANGED laptopVars
       PROVE  FaithfulCopies'
  BY <1>1, <1>11, CopyServe
<1>12. ASSUME UNCHANGED <<calls, syncRows, edited, outbox, overrun>>, now' >= now
       PROVE  FaithfulCopies'
  BY <1>1, <1>12, CopyKept DEF FaithfulCopies
<1>13. CASE (Tick /\ UNCHANGED laptopVars) \/ UNCHANGED vars
  <2>1. UNCHANGED <<calls, syncRows, edited, outbox, overrun>> /\ (now' = now + 1 \/ now' = now)
    BY <1>13 DEF Tick, laptopVars, vars, relayVars
  <2>2. now' >= now
    BY <1>1, <2>1 DEF SyncTypeOK, RelayTypeOK
  <2> QED BY <1>12, <2>1, <2>2
<1> QED BY <1>3, <1>4, <1>5, <1>7, <1>9, <1>10, <1>11, <1>13
        DEF Next, Laptop, RelayStep

(* What is out of the queue is with the relay, that very edit.             *)
LEMMA ForgottenNothing ==
    ASSUME WorkIInv, FaithfulCopies
    PROVE  NothingForgotten
<1> SUFFICES ASSUME NEW d \in Devices, NEW k \in Keys \ overrun[d], edited[d][k] # Missing,
                    k \notin DOMAIN outbox[d]
             PROVE  /\ Held(d, k)
                    /\ syncRows[k].device = d => syncRows[k].data = edited[d][k].data
  BY DEF NothingForgotten
<1>1. Held(d, k)
  BY DEF WorkIInv, QueuedOrHeld
<1>2. ASSUME syncRows[k].device = d
      PROVE  syncRows[k].data = edited[d][k].data
  <2>1. /\ CopyOf(syncRows[k], edited[d][k], k \in overrun[d], Clock(d))
        /\ syncRows[k].stamp >= edited[d][k].stamp
    BY <1>1, <1>2 DEF FaithfulCopies, Faithful, Held
  <2>2. syncRows[k].stamp \in Int /\ edited[d][k].stamp \in Int
    BY <1>1, CopyTypes DEF WorkIInv, Held
  <2> QED BY <2>1, <2>2 DEF CopyOf
<1> QED BY <1>1, <1>2

(* When an edit has left its laptop's outbox, the relay holds that very    *)
(* edit, or a later version of another laptop: no earlier edit of the      *)
(* same laptop passes for it (clearOutbox: "a row edited again while its   *)
(* push was in flight stays queued"). Edits and deletions happen at any    *)
(* time, batches may be cut short, and requests overlap, are lost or       *)
(* outlive their rounds. Excepted are edits that a page was written over   *)
(* while they were queued. Both assumptions are needed: with a clock       *)
(* further ahead than MAX_CLOCK_SKEW the relay stores the edit under       *)
(* another stamp, and with two edits in one millisecond an earlier content *)
(* goes out under the stamp of the last one.                               *)
THEOREM NothingIsForgotten ==
    ASSUME ClocksClose, OneEditAnInstant
    PROVE  Spec => []NothingForgotten
<1> DEFINE Inv == WorkIInv /\ ShownInv /\ FaithfulCopies
<1>1. Init => Inv
  BY WorkInit, ShownInit, CopyInit
<1>2. Inv /\ [Next]_vars => Inv'
  BY WorkStep, ShownStep, CopyStep
<1>3. Inv => NothingForgotten
  BY ForgottenNothing
<1> QED BY <1>1, <1>2, <1>3, PTL DEF Spec
=============================================================================
