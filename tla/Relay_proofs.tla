---------------------------- MODULE Relay_proofs ----------------------------
(***************************************************************************)
(* Lemmas about single steps of the relay, used in the proofs about        *)
(* OpenRelay and about Sync.                                               *)
(***************************************************************************)
EXTENDS Relay, TLAPS

(* The rows of a batch, and the positions they have in it.                 *)
LEMMA BatchRows ==
    ASSUME NEW b, IsBatch(b)
    PROVE  /\ Len(b) \in Nat
           /\ DOMAIN b = 1..Len(b)
           /\ \A i \in DOMAIN b : /\ b[i] \in Edits
                                  /\ b[i].key \in Keys
                                  /\ b[i].stamp \in Int
                                  /\ b[i].data \in Data
           /\ \A i, j \in DOMAIN b : b[i].key = b[j].key => i = j
<1>1. b \in Seq(Edits) /\ Len(b) \in Nat /\ DOMAIN b = 1..Len(b)
  BY DEF IsBatch
<1>2. \A i \in DOMAIN b : b[i] \in Edits
  BY <1>1
<1> QED BY <1>1, <1>2 DEF IsBatch, Edits

LEMMA EmptyIsTable == IsTable(Empty)
BY DEF IsTable, Empty

(* The two kinds of invocation are well-formed when their fields are.      *)
LEMMA PushCallType ==
    ASSUME NEW p \in PushPhases, NEW d \in Devices, NEW b, IsBatch(b),
           NEW n \in Nat, p # "pushSent" => n >= Len(b)
    PROVE  IsCall(PushCall(p, d, b, n))
BY DEF IsCall, PushCall, PushPhases

LEMMA PullCallType ==
    ASSUME NEW p \in PullPhases, NEW d \in Devices, NEW s \in Nat,
           NEW t, IsTable(t), NEW n \in Nat, NEW m \in BOOLEAN
    PROVE  IsCall(PullCall(p, d, s, t, n, m))
BY DEF IsCall, PullCall, PullPhases

LEMMA NewCallsType ==
    /\ IsCall(Free)
    /\ \A d \in Devices : \A b : IsBatch(b) => IsCall(NewPush(d, b))
    /\ \A d \in Devices, n \in Nat : IsCall(NewPull(d, n))
<1>1. IsCall(Free)
  BY DEF IsCall
<1>2. ASSUME NEW d \in Devices, NEW b, IsBatch(b)
      PROVE  IsCall(NewPush(d, b))
  BY <1>2, PushCallType DEF NewPush, PushPhases
<1>3. ASSUME NEW d \in Devices, NEW n \in Nat
      PROVE  IsCall(NewPull(d, n))
  BY EmptyIsTable, PullCallType DEF NewPull, PullPhases
<1> QED BY <1>1, <1>2, <1>3

(* What the phase of an invocation says about its other fields.            *)
LEMMA PushFields ==
    ASSUME NEW x, IsCall(x), x.phase \in PushPhases
    PROVE  /\ x = PushCall(x.phase, x.device, x.batch, x.end)
           /\ x.device \in Devices
           /\ IsBatch(x.batch)
           /\ x.end \in Nat
           /\ x.phase # "pushSent" => x.end >= Len(x.batch)
BY DEF IsCall, Free, PushPhases, PullPhases

LEMMA PullFields ==
    ASSUME NEW x, IsCall(x), x.phase \in PullPhases
    PROVE  /\ x = PullCall(x.phase, x.device, x.since, x.page, x.cursor, x.more)
           /\ x.device \in Devices
           /\ x.since \in Nat
           /\ IsTable(x.page)
           /\ x.cursor \in Nat
           /\ x.more \in BOOLEAN
BY DEF IsCall, Free, PushPhases, PullPhases

(* Replacing one invocation by a well-formed one leaves all of them so.    *)
LEMMA CallReplaced ==
    ASSUME RelayTypeOK, NEW c \in Calls, NEW x, IsCall(x),
           calls' = [calls EXCEPT ![c] = x]
    PROVE  /\ calls' = [e \in Calls |-> calls'[e]]
           /\ \A e \in Calls : IsCall(calls'[e])
           /\ calls'[c] = x
           /\ \A e \in Calls \ {c} : calls'[e] = calls[e]
BY DEF RelayTypeOK

----------------------------------------------------------------------------
(* What the steps do, with the types of what they leave.                   *)

(* Clamping keeps a batch a batch, with the same keys and contents.        *)
LEMMA ClampedType ==
    ASSUME RelayTypeOK, NEW b, IsBatch(b)
    PROVE  /\ IsBatch(Clamped(b))
           /\ Len(Clamped(b)) = Len(b)
           /\ DOMAIN Clamped(b) = DOMAIN b
<1> DEFINE cb == Clamped(b)
<1>1. /\ Len(b) \in Nat
      /\ DOMAIN b = 1..Len(b)
      /\ \A i \in DOMAIN b : /\ b[i].key \in Keys
                             /\ b[i].stamp \in Int
                             /\ b[i].data \in Data
      /\ \A i, j \in DOMAIN b : b[i].key = b[j].key => i = j
  BY BatchRows
<1>2. \A s \in Int : Clamp(s) \in Int
  BY DEF Clamp, RelayTypeOK
<1>3. DOMAIN cb = 1..Len(b) /\ cb = [i \in 1..Len(b) |-> cb[i]]
  BY <1>1 DEF Clamped
<1>4. ASSUME NEW i \in DOMAIN b
      PROVE  cb[i] \in Edits
  <2>1. cb[i] = [key |-> b[i].key, stamp |-> Clamp(b[i].stamp),
                 data |-> b[i].data]
    BY DEF Clamped
  <2>2. Clamp(b[i].stamp) \in Int
    BY <1>1, <1>2
  <2>3. b[i].key \in Keys /\ b[i].data \in Data
    BY <1>1
  <2> QED BY <2>1, <2>2, <2>3 DEF Edits
<1>5. cb \in Seq(Edits) /\ Len(cb) = Len(b)
  BY <1>1, <1>3, <1>4
<1>6. \A i, j \in DOMAIN cb : cb[i].key = cb[j].key => i = j
  BY <1>1, <1>3 DEF Clamped
<1> QED BY <1>1, <1>3, <1>5, <1>6 DEF IsBatch

LEMMA PushReserveStep ==
    ASSUME RelayTypeOK, NEW c \in Calls, PushReserve(c)
    PROVE  LET x == calls[c]
               y == PushCall("pushReserved", x.device, Clamped(x.batch),
                             seqValue + Len(x.batch))
           IN  /\ IsCall(x) /\ x.phase = "pushSent" /\ x.device \in Devices
               /\ IsBatch(x.batch)
               /\ IsCall(y)
               /\ calls' = [calls EXCEPT ![c] = y]
               /\ seqValue' = seqValue + Len(x.batch)
               /\ Len(x.batch) \in Nat
<1> DEFINE x == calls[c]
           y == PushCall("pushReserved", x.device, Clamped(x.batch),
                         seqValue + Len(x.batch))
<1>1. IsCall(x) /\ x.phase = "pushSent" /\ x.phase \in PushPhases
  BY DEF PushReserve, PushPhases, RelayTypeOK
<1>2. IsBatch(x.batch) /\ x.device \in Devices
  BY <1>1, PushFields
<1>3. Len(x.batch) \in Nat
  BY <1>2, BatchRows
<1>4. seqValue' = seqValue + Len(x.batch) /\ seqValue' \in Nat
  BY <1>3 DEF PushReserve, RelayTypeOK
<1>5. calls' = [calls EXCEPT ![c] = y]
  BY <1>4 DEF PushReserve
<1>6. IsBatch(Clamped(x.batch)) /\ Len(Clamped(x.batch)) = Len(x.batch)
  BY <1>2, ClampedType
<1>7. seqValue + Len(x.batch) >= Len(Clamped(x.batch))
  BY <1>3, <1>6 DEF RelayTypeOK
<1>8. IsCall(y)
  BY <1>2, <1>4, <1>6, <1>7, PushCallType DEF PushPhases
<1> QED BY <1>1, <1>2, <1>3, <1>4, <1>5, <1>8

(* What PushCommit does to the table, row by row.                          *)
Landed(x, i) == [seq    |-> NumberOf(x, i),
                 stamp  |-> x.batch[i].stamp,
                 data   |-> x.batch[i].data,
                 device |-> x.device]

LEMMA PushCommitStep ==
    ASSUME RelayTypeOK, NEW c \in Calls, PushCommit(c)
    PROVE  LET x == calls[c]
               y == PushCall("pushDone", x.device, x.batch, x.end)
           IN  /\ IsCall(x) /\ x.phase = "pushReserved"
               /\ x.device \in Devices
               /\ IsBatch(x.batch)
               /\ x.end \in Nat /\ x.end >= Len(x.batch)
               /\ IsCall(y)
               /\ calls' = [calls EXCEPT ![c] = y]
               /\ syncRows' = [k \in DOMAIN syncRows' |-> syncRows'[k]]
               /\ DOMAIN syncRows' =
                    DOMAIN syncRows \cup {x.batch[i].key : i \in Accepted(x)}
               /\ \A i \in Accepted(x) : syncRows'[x.batch[i].key] = Landed(x, i)
               /\ \A k \in DOMAIN syncRows :
                     (\A i \in Accepted(x) : x.batch[i].key # k)
                         => syncRows'[k] = syncRows[k]
<1> DEFINE x == calls[c]
           y == PushCall("pushDone", x.device, x.batch, x.end)
           won == {x.batch[i].key : i \in Accepted(x)}
           at(k) == CHOOSE i \in DOMAIN x.batch : x.batch[i].key = k
<1>1. IsCall(x) /\ x.phase = "pushReserved" /\ x.phase \in PushPhases
  BY DEF PushCommit, PushPhases, RelayTypeOK
<1>2. /\ x.device \in Devices
      /\ IsBatch(x.batch)
      /\ x.end \in Nat
      /\ x.end >= Len(x.batch)
  BY <1>1, PushFields
<1>3. IsCall(y) /\ calls' = [calls EXCEPT ![c] = y]
  BY <1>2, PushCallType DEF PushCommit, PushPhases
<1>4. syncRows' = [k \in DOMAIN syncRows \cup won |->
                      IF k \in won THEN Landed(x, at(k)) ELSE syncRows[k]]
  BY DEF PushCommit, Landed
<1>5. \A i \in DOMAIN x.batch : at(x.batch[i].key) = i
  BY <1>2 DEF IsBatch
<1>6. \A i \in Accepted(x) : syncRows'[x.batch[i].key] = Landed(x, i)
  BY <1>4, <1>5 DEF Accepted
<1> QED BY <1>1, <1>2, <1>3, <1>4, <1>6

LEMMA PullReadStep ==
    ASSUME RelayTypeOK, NEW c \in Calls, PullRead(c)
    PROVE  LET x == calls[c] IN
           /\ IsCall(x) /\ x.phase = "pullSent"
           /\ \E y : /\ IsCall(y)
                     /\ calls' = [calls EXCEPT ![c] = y]
                     /\ \/ y = PullCall("pullEmpty", x.device, x.since, Empty,
                                        x.since, FALSE)
                        \/ \E S \in SUBSET DOMAIN syncRows, n \in Nat :
                              /\ n > x.since
                              /\ \E k \in S : n = syncRows[k].seq
                              /\ y = PullCall("pullDone", x.device, x.since,
                                         [k \in S |-> syncRows[k]], n,
                                         Cardinality(S) = PullBatch)
<1> DEFINE x == calls[c]
           news == NewsFor(x)
           y1 == PullCall("pullEmpty", x.device, x.since, Empty, x.since, FALSE)
           y2(S, n) == PullCall("pullDone", x.device, x.since,
                           [k \in S |-> syncRows[k]], n,
                           Cardinality(S) = PullBatch)
<1>1. IsCall(x) /\ x.phase = "pullSent" /\ x.phase \in PullPhases
  BY DEF PullRead, PullPhases, RelayTypeOK
<1>2. x.device \in Devices /\ x.since \in Nat
  BY <1>1, PullFields
<1>3. CASE calls' = [calls EXCEPT ![c] = y1]
  <2>1. IsCall(y1)
    BY <1>2, EmptyIsTable, PullCallType DEF PullPhases
  <2> QED BY <1>1, <1>3, <2>1
<1>4. ASSUME NEW S \in SUBSET news, NEW n \in {syncRows[k].seq : k \in news},
             IsGreatest(n, {syncRows[k].seq : k \in S}),
             calls' = [calls EXCEPT ![c] = y2(S, n)]
      PROVE  \E y : /\ IsCall(y)
                    /\ calls' = [calls EXCEPT ![c] = y]
                    /\ \E T \in SUBSET DOMAIN syncRows, m \in Nat :
                          /\ m > x.since
                          /\ \E k \in T : m = syncRows[k].seq
                          /\ y = y2(T, m)
  <2>1. /\ news \subseteq DOMAIN syncRows
        /\ \A k \in news : syncRows[k].seq > x.since
    BY DEF NewsFor, News
  <2>2. \A k \in DOMAIN syncRows : k \in Keys /\ syncRows[k] \in Rows
    BY DEF RelayTypeOK, IsTable
  <2>3. n \in Nat /\ n > x.since
    BY <2>1, <2>2 DEF Rows
  <2>4. IsTable([k \in S |-> syncRows[k]])
    BY <2>1, <2>2 DEF IsTable
  <2>5. IsCall(y2(S, n))
    BY <1>2, <2>3, <2>4, PullCallType DEF PullPhases
  <2>6. S \in SUBSET DOMAIN syncRows
    BY <2>1
  <2>7. \E k \in S : n = syncRows[k].seq
    BY <1>4 DEF IsGreatest
  <2> QED BY <1>4, <2>3, <2>5, <2>6, <2>7
<1>5. \/ calls' = [calls EXCEPT ![c] = y1]
      \/ \E S \in SUBSET news, n \in {syncRows[k].seq : k \in news} :
            /\ IsGreatest(n, {syncRows[k].seq : k \in S})
            /\ calls' = [calls EXCEPT ![c] = y2(S, n)]
  BY DEF PullRead
<1> QED BY <1>1, <1>3, <1>4, <1>5

LEMMA PullHeadStep ==
    ASSUME RelayTypeOK, NEW c \in Calls, PullHead(c)
    PROVE  LET x == calls[c] IN
           /\ IsCall(x) /\ x.phase = "pullEmpty"
           /\ \E n \in Nat :
                 LET y == PullCall("pullDone", x.device, x.since, Empty, n, FALSE)
                 IN  /\ n >= x.since
                     /\ n = x.since \/ \E k \in DOMAIN syncRows : n = syncRows[k].seq
                     /\ IsCall(y)
                     /\ calls' = [calls EXCEPT ![c] = y]
<1> DEFINE x == calls[c]
           later == {syncRows[k].seq : k \in DOMAIN syncRows} \ 0..x.since
           y(n) == PullCall("pullDone", x.device, x.since, Empty, n, FALSE)
<1>1. IsCall(x) /\ x.phase = "pullEmpty" /\ x.phase \in PullPhases
  BY DEF PullHead, PullPhases, RelayTypeOK
<1>2. x.device \in Devices /\ x.since \in Nat
  BY <1>1, PullFields
<1>3. PICK n \in {x.since} \cup later :
          /\ IsGreatest(n, {x.since} \cup later)
          /\ calls' = [calls EXCEPT ![c] = y(n)]
  BY DEF PullHead
<1>4. n \in Nat /\ n >= x.since
  <2>1. \A k \in DOMAIN syncRows : syncRows[k].seq \in Nat
    BY DEF RelayTypeOK, IsTable, Rows
  <2> QED BY <1>2, <1>3, <2>1 DEF IsGreatest
<1>5. IsCall(y(n))
  BY <1>2, <1>4, EmptyIsTable, PullCallType DEF PullPhases
<1> QED BY <1>1, <1>3, <1>4, <1>5

(* What the two pull steps have in common: the answer's cursor is the      *)
(* caller's own, or the number of some stored row after it.                *)
LEMMA PullStep ==
    ASSUME RelayTypeOK, NEW c \in Calls, PullRead(c) \/ PullHead(c)
    PROVE  /\ calls[c].phase \in {"pullSent", "pullEmpty"}
           /\ \E y : /\ IsCall(y)
                     /\ calls' = [calls EXCEPT ![c] = y]
                     /\ y.phase \in {"pullEmpty", "pullDone"}
                     /\ y.since = calls[c].since
                     /\ y.cursor >= y.since
                     /\ \/ y.cursor = y.since
                        \/ \E k \in DOMAIN syncRows : y.cursor = syncRows[k].seq
           /\ UNCHANGED <<now, seqValue, syncRows, wipes>>
<1> DEFINE x == calls[c]
           Shared(y) == /\ y.phase \in {"pullEmpty", "pullDone"}
                        /\ y.since = x.since
                        /\ y.cursor >= y.since
                        /\ \/ y.cursor = y.since
                           \/ \E k \in DOMAIN syncRows : y.cursor = syncRows[k].seq
<1>1. CASE PullRead(c)
  <2>1. IsCall(x) /\ x.phase = "pullSent"
    BY <1>1, PullReadStep
  <2>2. x.since \in Nat
    BY <2>1, PullFields DEF PullPhases
  <2>3. PICK y : /\ IsCall(y)
                 /\ calls' = [calls EXCEPT ![c] = y]
                 /\ \/ y = PullCall("pullEmpty", x.device, x.since, Empty,
                                    x.since, FALSE)
                    \/ \E S \in SUBSET DOMAIN syncRows, n \in Nat :
                          /\ n > x.since
                          /\ \E k \in S : n = syncRows[k].seq
                          /\ y = PullCall("pullDone", x.device, x.since,
                                     [k \in S |-> syncRows[k]], n,
                                     Cardinality(S) = PullBatch)
    BY <1>1, PullReadStep
  <2>4. Shared(y)
    <3>1. CASE y = PullCall("pullEmpty", x.device, x.since, Empty, x.since, FALSE)
      BY <2>2, <3>1 DEF PullCall
    <3>2. ASSUME NEW S \in SUBSET DOMAIN syncRows, NEW n \in Nat,
                 n > x.since, \E k \in S : n = syncRows[k].seq,
                 y = PullCall("pullDone", x.device, x.since,
                        [k \in S |-> syncRows[k]], n, Cardinality(S) = PullBatch)
          PROVE  Shared(y)
      <4>1. y.phase = "pullDone" /\ y.since = x.since /\ y.cursor = n
        BY <3>2 DEF PullCall
      <4> QED BY <2>2, <3>2, <4>1
    <3> QED BY <2>3, <3>1, <3>2
  <2> QED BY <1>1, <2>1, <2>3, <2>4 DEF PullRead
<1>2. CASE PullHead(c)
  <2>1. IsCall(x) /\ x.phase = "pullEmpty"
    BY <1>2, PullHeadStep
  <2>2. x.since \in Nat
    BY <2>1, PullFields DEF PullPhases
  <2>3. PICK n \in Nat :
           LET y == PullCall("pullDone", x.device, x.since, Empty, n, FALSE)
           IN  /\ n >= x.since
               /\ n = x.since \/ \E k \in DOMAIN syncRows : n = syncRows[k].seq
               /\ IsCall(y)
               /\ calls' = [calls EXCEPT ![c] = y]
    BY <1>2, PullHeadStep
  <2>4. Shared(PullCall("pullDone", x.device, x.since, Empty, n, FALSE))
    BY <2>2, <2>3 DEF PullCall
  <2> QED BY <1>2, <2>1, <2>3, <2>4 DEF PullHead
<1> QED BY <1>1, <1>2

----------------------------------------------------------------------------
(* Each step of the relay preserves the type invariant.                    *)

LEMMA RequestType ==
    ASSUME RelayTypeOK, NEW c \in Calls, NEW d \in Devices
    PROVE  /\ \A b : IsBatch(b) /\ SendPush(c, d, b) => RelayTypeOK'
           /\ \A n \in Nat : SendPull(c, d, n) => RelayTypeOK'
BY CallReplaced, NewCallsType DEF RelayTypeOK, SendPush, SendPull

LEMMA OtherStepsType ==
    ASSUME RelayTypeOK
    PROVE  /\ \A c \in Calls : Hangup(c) => RelayTypeOK'
           /\ Reset => RelayTypeOK'
           /\ Tick => RelayTypeOK'
<1>1. ASSUME NEW c \in Calls, Hangup(c)
      PROVE  RelayTypeOK'
  BY <1>1, CallReplaced, NewCallsType DEF RelayTypeOK, Hangup
<1>2. Reset => RelayTypeOK'
  BY EmptyIsTable DEF RelayTypeOK, Reset
<1>3. Tick => RelayTypeOK'
  BY DEF RelayTypeOK, Tick
<1> QED BY <1>1, <1>2, <1>3

LEMMA ServeType ==
    ASSUME RelayTypeOK, NEW c \in Calls, Serve(c)
    PROVE  RelayTypeOK'
<1> DEFINE x == calls[c]
<1>1. CASE PushReserve(c)
  <2>1. seqValue' \in Nat
    BY <1>1, PushReserveStep DEF RelayTypeOK
  <2> QED BY <1>1, <2>1, PushReserveStep, CallReplaced DEF RelayTypeOK, PushReserve
<1>2. CASE PushCommit(c)
  <2>1. /\ x.device \in Devices
        /\ IsBatch(x.batch)
        /\ x.end \in Nat /\ x.end >= Len(x.batch)
        /\ syncRows' = [k \in DOMAIN syncRows' |-> syncRows'[k]]
        /\ DOMAIN syncRows' =
             DOMAIN syncRows \cup {x.batch[i].key : i \in Accepted(x)}
        /\ \A i \in Accepted(x) : syncRows'[x.batch[i].key] = Landed(x, i)
        /\ \A k \in DOMAIN syncRows :
              (\A i \in Accepted(x) : x.batch[i].key # k)
                  => syncRows'[k] = syncRows[k]
    BY <1>2, PushCommitStep
  <2>2. /\ Len(x.batch) \in Nat
        /\ \A i \in DOMAIN x.batch : /\ i \in 1..Len(x.batch)
                                     /\ x.batch[i].key \in Keys
                                     /\ x.batch[i].stamp \in Int
                                     /\ x.batch[i].data \in Data
    BY <2>1, BatchRows
  <2>3. \A i \in DOMAIN x.batch : NumberOf(x, i) \in Nat
    BY <2>1, <2>2 DEF NumberOf
  <2>4. \A i \in Accepted(x) : i \in DOMAIN x.batch /\ Landed(x, i) \in Rows
    BY <2>1, <2>2, <2>3 DEF Landed, Rows, Accepted
  <2>5. DOMAIN syncRows' \subseteq Keys
    BY <2>1, <2>2, <2>4 DEF RelayTypeOK, IsTable
  <2>6. ASSUME NEW k \in DOMAIN syncRows'
        PROVE  syncRows'[k] \in Rows
    <3>1. CASE \E i \in Accepted(x) : x.batch[i].key = k
      BY <2>1, <2>4, <3>1
    <3>2. CASE \A i \in Accepted(x) : x.batch[i].key # k
      BY <2>1, <3>2 DEF RelayTypeOK, IsTable
    <3> QED BY <3>1, <3>2
  <2>7. IsTable(syncRows')
    BY <2>1, <2>5, <2>6 DEF IsTable
  <2>8. calls' = [e \in Calls |-> calls'[e]] /\ \A e \in Calls : IsCall(calls'[e])
    BY <1>2, PushCommitStep, CallReplaced
  <2> QED BY <1>2, <2>7, <2>8 DEF RelayTypeOK, PushCommit
<1>3. CASE PullRead(c)
  <2>1. calls' = [e \in Calls |-> calls'[e]] /\ \A e \in Calls : IsCall(calls'[e])
    BY <1>3, PullReadStep, CallReplaced
  <2> QED BY <1>3, <2>1 DEF RelayTypeOK, PullRead
<1>4. CASE PullHead(c)
  <2>1. calls' = [e \in Calls |-> calls'[e]] /\ \A e \in Calls : IsCall(calls'[e])
    BY <1>4, PullHeadStep, CallReplaced
  <2> QED BY <1>4, <2>1 DEF RelayTypeOK, PullHead
<1> QED BY <1>1, <1>2, <1>3, <1>4 DEF Serve

----------------------------------------------------------------------------
(* A push that lands takes nothing away and puts nothing older in place;   *)
(* and what it carried is then held.                                       *)
LEMMA CommitIsNewer ==
    ASSUME RelayTypeOK, NEW c \in Calls, PushCommit(c)
    PROVE  /\ DOMAIN syncRows \subseteq DOMAIN syncRows'
           /\ \A k \in DOMAIN syncRows :
                 \/ syncRows'[k] = syncRows[k]
                 \/ syncRows'[k].stamp >= syncRows[k].stamp
           /\ \A k \in DOMAIN syncRows : syncRows'[k].stamp >= syncRows[k].stamp
           /\ \A i \in DOMAIN calls[c].batch :
                 LET edit == calls[c].batch[i] IN
                 /\ edit.key \in DOMAIN syncRows'
                 /\ syncRows'[edit.key].stamp >= edit.stamp
<1> DEFINE x == calls[c]
<1>1. /\ IsBatch(x.batch)
      /\ DOMAIN syncRows' =
           DOMAIN syncRows \cup {x.batch[i].key : i \in Accepted(x)}
      /\ \A i \in Accepted(x) : syncRows'[x.batch[i].key] = Landed(x, i)
      /\ \A k \in DOMAIN syncRows :
            (\A i \in Accepted(x) : x.batch[i].key # k)
                => syncRows'[k] = syncRows[k]
  BY PushCommitStep
<1>2. \A k \in DOMAIN syncRows : syncRows[k].stamp \in Int
  BY DEF RelayTypeOK, IsTable, Rows
<1>3. /\ \A i \in DOMAIN x.batch : x.batch[i].stamp \in Int
      /\ \A i, j \in DOMAIN x.batch : x.batch[i].key = x.batch[j].key => i = j
  BY <1>1, BatchRows
<1>4. \A i \in Accepted(x) :
          /\ i \in DOMAIN x.batch
          /\ Landed(x, i).stamp = x.batch[i].stamp
          /\ x.batch[i].key \in DOMAIN syncRows
                => x.batch[i].stamp >= syncRows[x.batch[i].key].stamp
  BY DEF Accepted, Accepts, Landed
<1>5. ASSUME NEW k \in DOMAIN syncRows
      PROVE  syncRows'[k].stamp >= syncRows[k].stamp
  <2>1. CASE \E i \in Accepted(x) : x.batch[i].key = k
    BY <1>1, <1>4, <2>1
  <2>2. CASE \A i \in Accepted(x) : x.batch[i].key # k
    BY <1>1, <1>2, <2>2
  <2> QED BY <2>1, <2>2
<1>6. ASSUME NEW i \in DOMAIN x.batch
      PROVE  /\ x.batch[i].key \in DOMAIN syncRows'
             /\ syncRows'[x.batch[i].key].stamp >= x.batch[i].stamp
  <2>1. CASE i \in Accepted(x)
    BY <1>1, <1>3, <1>4, <2>1
  <2>2. CASE i \notin Accepted(x)
    <3>1. /\ x.batch[i].key \in DOMAIN syncRows
          /\ ~(x.batch[i].stamp >= syncRows[x.batch[i].key].stamp)
      BY <2>2 DEF Accepted, Accepts
    <3>2. \A j \in Accepted(x) : x.batch[j].key # x.batch[i].key
      BY <1>3, <1>4, <2>2
    <3> QED BY <1>1, <1>2, <1>3, <3>1, <3>2
  <2> QED BY <2>1, <2>2
<1> QED BY <1>1, <1>5, <1>6

(* A row only ever gives way to one that is not older, so what a push      *)
(* found or left in the table stays answered for.                          *)
LEMMA CallHeld ==
    ASSUME RelayTypeOK, PushesHeld, NEW c \in Calls, NEW x,
           calls' = [calls EXCEPT ![c] = x], x.phase # "pushDone",
           UNCHANGED syncRows
    PROVE  PushesHeld'
BY DEF RelayTypeOK, PushesHeld

LEMMA ServeHeld ==
    ASSUME RelayTypeOK, PushesHeld, NEW c \in Calls, Serve(c)
    PROVE  PushesHeld'
<1>1. CASE PushReserve(c)
  <2>1. PushCall("pushReserved", calls[c].device, Clamped(calls[c].batch),
                 seqValue + Len(calls[c].batch)).phase # "pushDone"
    BY DEF PushCall
  <2> QED BY <1>1, <2>1, PushReserveStep, CallHeld DEF PushReserve
<1>2. CASE PullRead(c) \/ PullHead(c)
  <2>1. PICK y : calls' = [calls EXCEPT ![c] = y] /\ y.phase # "pushDone"
    BY <1>2, PullStep
  <2> QED BY <1>2, <2>1, PullStep, CallHeld
<1>3. CASE PushCommit(c)
  <2> DEFINE Held(x, t) == \A i \in DOMAIN x.batch :
                              /\ x.batch[i].key \in DOMAIN t
                              /\ t[x.batch[i].key].stamp >= x.batch[i].stamp
  <2>1. /\ DOMAIN syncRows \subseteq DOMAIN syncRows'
        /\ \A k \in DOMAIN syncRows : syncRows'[k].stamp >= syncRows[k].stamp
        /\ Held(calls[c], syncRows')
    BY <1>3, CommitIsNewer
  <2>2. /\ calls = [e \in Calls |-> calls[e]]
        /\ calls' = [calls EXCEPT ![c] = PushCall("pushDone", calls[c].device,
                                            calls[c].batch, calls[c].end)]
    BY <1>3, PushCommitStep DEF RelayTypeOK
  <2>3. Held(calls'[c], syncRows')
    BY <2>1, <2>2 DEF PushCall
  <2>4. /\ \A k \in DOMAIN syncRows : syncRows[k].stamp \in Int
        /\ \A k \in DOMAIN syncRows' : syncRows'[k].stamp \in Int
    BY <1>3, ServeType DEF RelayTypeOK, IsTable, Rows
  <2>5. ASSUME NEW e \in Calls \ {c}, calls[e].phase = "pushDone"
        PROVE  Held(calls[e], syncRows')
    <3>1. Held(calls[e], syncRows)
      BY <2>5 DEF PushesHeld
    <3>2. \A i \in DOMAIN calls[e].batch : calls[e].batch[i].stamp \in Int
      BY <2>5, PushFields, BatchRows DEF RelayTypeOK, PushPhases
    <3> QED BY <2>1, <2>4, <3>1, <3>2
  <2> QED BY <2>2, <2>3, <2>5 DEF PushesHeld
<1> QED BY <1>1, <1>2, <1>3 DEF Serve

(* Serving a request moves it on within its kind, and never forgets or     *)
(* ages a row.                                                             *)
LEMMA ServeStep ==
    ASSUME RelayTypeOK, NEW c \in Calls, Serve(c)
    PROVE  /\ UNCHANGED <<now, wipes>>
           /\ DOMAIN syncRows \subseteq DOMAIN syncRows'
           /\ \A k \in DOMAIN syncRows : syncRows'[k].stamp >= syncRows[k].stamp
           /\ \E y :
                 /\ calls' = [calls EXCEPT ![c] = y]
                 /\ \/ calls[c].phase \in PullPhases /\ y.phase \in PullPhases
                    \/ /\ calls[c].phase \in PushPhases /\ y.phase \in PushPhases
                       /\ y.batch \in {calls[c].batch, Clamped(calls[c].batch)}
<1>1. \A k \in DOMAIN syncRows : syncRows[k].stamp \in Int
  BY DEF RelayTypeOK, IsTable, Rows
<1>2. CASE PushReserve(c)
  <2>1. calls[c].phase = "pushSent"
    BY <1>2 DEF PushReserve
  <2> DEFINE y == PushCall("pushReserved", calls[c].device, Clamped(calls[c].batch),
                     seqValue + Len(calls[c].batch))
  <2>2. calls' = [calls EXCEPT ![c] = y]
    BY <1>2, PushReserveStep
  <2>3. y.phase = "pushReserved" /\ y.batch = Clamped(calls[c].batch)
    BY DEF PushCall
  <2>4. UNCHANGED <<now, wipes, syncRows>>
    BY <1>2 DEF PushReserve
  <2>5. \A k \in DOMAIN syncRows : syncRows'[k].stamp >= syncRows[k].stamp
    BY <1>1, <2>4
  <2>6. calls[c].phase \in PushPhases /\ y.phase \in PushPhases
    BY <2>1, <2>3 DEF PushPhases
  <2> HIDE DEF y
  <2> QED BY <2>2, <2>3, <2>4, <2>5, <2>6
<1>3. CASE PushCommit(c)
  <2> DEFINE y == PushCall("pushDone", calls[c].device, calls[c].batch, calls[c].end)
  <2>1. calls[c].phase = "pushReserved" /\ calls' = [calls EXCEPT ![c] = y]
    BY <1>3, PushCommitStep
  <2>2. y.phase = "pushDone" /\ y.batch = calls[c].batch
    BY DEF PushCall
  <2> QED BY <1>3, <2>1, <2>2, CommitIsNewer DEF PushCommit, PushPhases
<1>4. CASE PullRead(c) \/ PullHead(c)
  BY <1>1, <1>4, PullStep DEF PullPhases
<1> QED BY <1>2, <1>3, <1>4 DEF Serve

(* Clamping leaves alone what is not too far ahead.                        *)
LEMMA ClampedInTime ==
    ASSUME NEW b, IsBatch(b),
           \A i \in DOMAIN b : b[i].stamp <= now + MaxClockSkew, now \in Nat
    PROVE  Clamped(b) = b
<1>1. /\ b \in Seq(Edits)
      /\ \A i \in DOMAIN b : b[i] \in Edits /\ b[i].stamp \in Int
  BY BatchRows DEF IsBatch
<1>2. \A i \in DOMAIN b : Clamp(b[i].stamp) = b[i].stamp
  BY <1>1, RelayAssumption DEF Clamp
<1>3. \A i \in DOMAIN b : [key |-> b[i].key, stamp |-> b[i].stamp,
                           data |-> b[i].data] = b[i]
  BY <1>1 DEF Edits
<1>4. b = [i \in DOMAIN b |-> b[i]]
  BY <1>1
<1> QED BY <1>2, <1>3, <1>4 DEF Clamped
=============================================================================
