------------------------- MODULE InvoicePush_proofs -------------------------
(***************************************************************************)
(* One order is one document: the argument.                                *)
(*                                                                         *)
(* What matters is the attempts that are alive: their handler still waits, *)
(* or their document is in the books, or may get there, and its answer was *)
(* not lost.  There is at most one.  A push may start only where there is  *)
(* none: the in-flight mark says that no handler waits, so nothing alive   *)
(* is on the wire, and a document in the books whose answer came would be  *)
(* carried by the row, which carries none.                                 *)
(***************************************************************************)
EXTENDS InvoicePush, TLAPS

Waiting == {call[c] : c \in {e \in Calls : Waits(e)}}

Alive == ((books \cup wire) \ (lost \cup {Hand})) \cup Waiting

(* pushesInFlight is there while a handler is, and there is only one.      *)
OneFlight ==
    /\ \A c \in after : call[c] # 0
    /\ \A c \in Calls : call[c] # 0 => flying
    /\ \A c, e \in Calls : (call[c] # 0 /\ call[e] # 0) => c = e

Numbered ==
    /\ \A d \in (books \cup wire \cup lost) \ {Hand} : d <= tries
    /\ \A c \in Calls : call[c] <= tries
    /\ wire \cap books = {}

(* A request that is still on the wire is waited for, or was given up.     *)
Awaited ==
    /\ \A d \in wire : d \in lost \/ d \in Waiting
    /\ \A d \in Waiting : d \notin lost

OneAlive == \A d, e \in Alive : d = e

Carried == row.here => \A d \in Owned : row.doc = d \/ d \in Waiting

DoubtIsMarked == InDoubt => row.push \in {"pending", "failed"}

FoundOne == desk.match = "answered" => desk.found # 0

IInv ==
    /\ PushTypeOK /\ OneFlight /\ Numbered /\ Awaited /\ OneAlive
    /\ Carried /\ FoundOne /\ DoubtIsMarked

----------------------------------------------------------------------------
LEMMA HandIsNoTry == Hand \notin Tries /\ 0 \notin Tries /\ 0 \notin Docs
                     /\ Tries \subseteq Docs /\ Docs = Tries \cup {Hand}
BY PushAssumption DEF Hand, Tries, Docs

LEMMA InitIInv == Init => IInv
<1> SUFFICES ASSUME Init PROVE IInv
  OBVIOUS
<1> USE PushAssumption, HandIsNoTry DEF Init
<1>1. Waiting = {}
  BY DEF Waiting, Waits, NoCalls
<1>2. PushTypeOK
  <2>1. row \in Rows
    BY DEF Rows, Saved, Stages, Pushes, Hand
  <2>2. desk \in Desks
    BY DEF Desks, AtRest, Hand
  <2>3. call \in [Calls -> 0..MaxTries]
    BY DEF NoCalls
  <2>4. flying \in BOOLEAN
    OBVIOUS
  <2>5. tries \in 0..MaxTries
    OBVIOUS
  <2>6. wire \subseteq Tries /\ books \subseteq Docs /\ lost \subseteq Tries
    OBVIOUS
  <2> QED
    BY <2>1, <2>2, <2>3, <2>4, <2>5, <2>6 DEF PushTypeOK
<1>3. Alive = {} /\ Owned = {}
  BY <1>1 DEF Alive, Owned
<1> QED
  BY <1>1, <1>2, <1>3 DEF IInv, OneFlight, Numbered, Awaited, OneAlive,
     Carried, FoundOne, DoubtIsMarked, InDoubt, AtRest, NoCalls, Saved

----------------------------------------------------------------------------
(* What a step makes of the row                                            *)

LEMMA RowsAreMade ==
    ASSUME NEW r \in Rows
    PROVE  /\ Claimed(r) \in Rows /\ Refused(r) \in Rows
           /\ \A d \in Docs : Posted(r, d) \in Rows /\ Adopted(r, d) \in Rows
           /\ \A s \in Stages : Moved(r, s) \in Rows
           /\ [r EXCEPT !.here = FALSE] \in Rows
<1>1. Claimed(r) \in Rows /\ Refused(r) \in Rows
  BY DEF Rows, Claimed, Refused, Pushes
<1>2. ASSUME NEW d \in Docs PROVE Posted(r, d) \in Rows /\ Adopted(r, d) \in Rows
  <2>1. d \in 0..Hand
    BY PushAssumption DEF Docs, Hand
  <2> QED
    BY <2>1 DEF Rows, Posted, Adopted, Pushes, Stages
<1>3. ASSUME NEW s \in Stages PROVE Moved(r, s) \in Rows
  BY DEF Rows, Moved
<1>4. [r EXCEPT !.here = FALSE] \in Rows
  BY DEF Rows
<1> QED
  BY <1>1, <1>2, <1>3, <1>4

LEMMA WriteKeepsType ==
    ASSUME row \in Rows, NEW r \in Rows, Write(r)
    PROVE  row' \in Rows
BY DEF Write

LEMMA OnwardStages == ASSUME NEW s \in Stages PROVE Onward[s] \subseteq Stages
BY DEF Onward, Stages

LEMMA EndedType ==
    ASSUME PushTypeOK, NEW c \in Calls, Ended(c)
    PROVE  call' \in [Calls -> 0..MaxTries] /\ flying' \in BOOLEAN
<1>1. 0 \in 0..MaxTries
  BY PushAssumption
<1>2. call' \in [Calls -> 0..MaxTries]
  BY <1>1 DEF PushTypeOK, Ended
<1> QED
  BY <1>2 DEF Ended

LEMMA CallIsTry ==
    ASSUME PushTypeOK, NEW c \in Calls, call[c] # 0
    PROVE  call[c] \in Tries /\ call[c] \in Docs
BY PushAssumption, HandIsNoTry DEF PushTypeOK, Tries

LEMMA StepType == PushTypeOK /\ [Next]_vars => PushTypeOK'
<1> SUFFICES ASSUME PushTypeOK, [Next]_vars PROVE PushTypeOK'
  OBVIOUS
<1> USE PushAssumption, HandIsNoTry DEF PushTypeOK
<1>1. ASSUME NEW c \in Calls, Start(c) PROVE PushTypeOK'
  <2>1. row' \in Rows
    BY <1>1, RowsAreMade, WriteKeepsType DEF Start
  <2>2. call' \in [Calls -> 0..MaxTries]
    BY <1>1 DEF Start, Tries
  <2> QED
    BY <1>1, <2>1, <2>2 DEF Start, Tries
<1>2. ASSUME NEW c \in Calls, Reply(c) PROVE PushTypeOK'
  <2>1. call[c] \in Docs
    BY <1>2, CallIsTry DEF Reply, Waits
  <2>2. row' \in Rows
    BY <1>2, <2>1, RowsAreMade, WriteKeepsType DEF Reply
  <2> QED
    BY <1>2, <2>2 DEF Reply
<1>3. ASSUME NEW c \in Calls, Refuse(c) \/ Silence(c) PROVE PushTypeOK'
  <2>1. row' \in Rows
    BY <1>3, RowsAreMade, WriteKeepsType DEF Refuse, Silence
  <2>2. lost' \subseteq Tries
    BY <1>3, CallIsTry DEF Refuse, Silence, Waits
  <2> QED
    BY <1>3, <2>1, <2>2, EndedType DEF Refuse, Silence
<1>4. CASE Crash
  <2>1. AtRest \in Desks
    BY DEF AtRest, Desks, Hand
  <2>2. Waiting \subseteq Tries
    BY CallIsTry DEF Waiting, Waits
  <2>3. lost' \subseteq Tries
    BY <1>4, <2>2 DEF Crash, Waiting
  <2>4. call' \in [Calls -> 0..MaxTries]
    BY <1>4 DEF Crash, NoCalls
  <2> QED
    BY <1>4, <2>1, <2>3, <2>4 DEF Crash
<1>5. ASSUME NEW s \in Stages, Move(s) PROVE PushTypeOK'
  BY <1>5, RowsAreMade, WriteKeepsType DEF Move
<1>6. CASE DeleteUnposted
  BY <1>6, RowsAreMade, WriteKeepsType DEF DeleteUnposted
<1>7. CASE DeleteAsk
  BY <1>7 DEF DeleteAsk, Desks, Rows
<1>8. CASE DeleteThere
  BY <1>8 DEF DeleteThere
<1>9. CASE DeleteHere
  <2>1. row' \in Rows
    BY <1>9, RowsAreMade, WriteKeepsType DEF DeleteHere
  <2>2. desk' \in Desks
    BY <1>9 DEF DeleteHere, Desks, Hand
  <2> QED
    BY <1>9, <2>1, <2>2 DEF DeleteHere
<1>10. CASE MatchAsk \/ MatchNothing
  BY <1>10 DEF MatchAsk, MatchNothing, Desks
<1>11. CASE MatchAnswer
  <2>1. PICK d \in books :
            desk' = [desk EXCEPT !.match = "answered", !.found = d]
    BY <1>11 DEF MatchAnswer
  <2>2. d \in 0..Hand
    BY DEF Docs, Hand
  <2>3. desk' \in Desks
    BY <2>1, <2>2 DEF Desks
  <2> QED
    BY <1>11, <2>3 DEF MatchAnswer
<1>12. CASE MatchAdopt
  <2>1. Adopted(row, desk.found) \in Rows
    BY DEF Adopted, Rows, Desks, Pushes
  <2>2. 0 \in 0..Hand
    BY DEF Hand
  <2>3. desk' = [desk EXCEPT !.match = "idle", !.found = 0]
    BY <1>12 DEF MatchAdopt
  <2>4. desk' \in Desks
    BY <2>2, <2>3 DEF Desks
  <2> QED
    BY <1>12, <2>1, <2>4, WriteKeepsType DEF MatchAdopt
<1>13. CASE CheckAsk
  BY <1>13 DEF CheckAsk, Desks, Rows
<1>14. CASE CheckAnswer
  <2>1. Onward[desk.check] \subseteq Stages
    BY <1>14, OnwardStages DEF CheckAnswer, Desks
  <2>2. row' \in Rows
    BY <1>14, <2>1, RowsAreMade, WriteKeepsType DEF CheckAnswer
  <2>3. desk' \in Desks
    BY <1>14 DEF CheckAnswer, Desks
  <2> QED
    BY <1>14, <2>2, <2>3 DEF CheckAnswer
<1>15. ASSUME NEW d \in Tries, Create(d) PROVE PushTypeOK'
  BY <1>15 DEF Create
<1>16. CASE UNCHANGED vars
  BY <1>16 DEF vars
<1>17. ASSUME NEW c \in Calls, Finish(c) PROVE PushTypeOK'
  BY <1>17, EndedType DEF Finish
<1> QED
  BY <1>17, <1>1, <1>2, <1>3, <1>4, <1>5, <1>6, <1>7, <1>8, <1>9, <1>10, <1>11,
     <1>12, <1>13, <1>14, <1>15, <1>16 DEF Next, Push, Desk

----------------------------------------------------------------------------
(* The parts of IInv.  The facts of a step that they rest on: which        *)
(* handlers wait after it, and what the row says.                          *)

LEMMA NobodyWaits ==
    ASSUME PushTypeOK, OneFlight, Free
    PROVE  Waiting = {} /\ after = {}
BY DEF OneFlight, Free, Waiting, Waits, PushTypeOK

LEMMA StartWaits ==
    ASSUME PushTypeOK, OneFlight, NEW c \in Calls, Start(c)
    PROVE  /\ \A e \in Calls : call'[e] = IF e = c THEN tries + 1 ELSE 0
           /\ Waiting' = {tries + 1} /\ tries + 1 \in Tries
           /\ after' = {}
<1>1. (\A e \in Calls : call[e] = 0) /\ after' = {}
  BY NobodyWaits DEF Start, OneFlight, Free
<1>2. \A e \in Calls : call'[e] = IF e = c THEN tries + 1 ELSE 0
  BY <1>1 DEF Start, PushTypeOK
<1>3. tries + 1 \in Tries /\ tries + 1 # 0
  BY HandIsNoTry DEF Start
<1> QED
  BY <1>1, <1>2, <1>3 DEF Waiting, Waits

LEMMA CallLeaves ==
    ASSUME PushTypeOK, OneFlight, NEW c \in Calls, Waits(c), Ended(c),
           after' = after
    PROVE  /\ \A e \in Calls : call'[e] = 0
           /\ Waiting = {call[c]} /\ Waiting' = {} /\ after' = {}
<1>1. \A e \in Calls : call'[e] = IF e = c THEN 0 ELSE call[e]
  BY DEF Ended, PushTypeOK
<1>2. (\A e \in Calls : e # c => call[e] = 0) /\ after = {}
  BY DEF OneFlight, Waits, PushTypeOK
<1>3. \A e \in Calls : call'[e] = 0
  BY <1>1, <1>2
<1> QED
  BY <1>2, <1>3 DEF Waiting, Waits

(* The steps that touch neither a handler nor QuickBooks                   *)
Aside ==
    /\ UNCHANGED <<call, after, flying, wire, tries, lost>>
    /\ books' \subseteq books

LEMMA AsideKeeps ==
    ASSUME OneFlight, Numbered, Awaited, OneAlive, Aside
    PROVE  /\ OneFlight' /\ Numbered' /\ Awaited' /\ OneAlive'
           /\ Waiting' = Waiting /\ Owned' \subseteq Owned
<1>1. Waiting' = Waiting
  BY DEF Aside, Waiting, Waits
<1>2. OneFlight'
  BY DEF Aside, OneFlight
<1>3. Numbered'
  BY DEF Aside, Numbered
<1>4. Awaited'
  BY <1>1 DEF Aside, Awaited
<1>5. Alive' \subseteq Alive
  BY <1>1 DEF Aside, Alive
<1>6. OneAlive'
  BY <1>5 DEF OneAlive
<1>7. Owned' \subseteq Owned
  BY DEF Aside, Owned
<1> QED
  BY <1>1, <1>2, <1>3, <1>4, <1>6, <1>7

(* ... and leave the row's document and push state alone, or the row gone  *)
LEMMA AsideRow ==
    ASSUME IInv, Aside, PushTypeOK', FoundOne',
           \/ row'.here = FALSE
           \/ row'.doc = row.doc /\ row'.push = row.push /\ row'.here = row.here
    PROVE  IInv'
<1>1. Waiting' = Waiting /\ Owned' \subseteq Owned
  BY AsideKeeps DEF IInv
<1>2. Carried'
  BY <1>1 DEF IInv, Carried
<1>3. DoubtIsMarked'
  BY DEF IInv, DoubtIsMarked, InDoubt, Aside
<1> QED
  BY <1>2, <1>3, AsideKeeps DEF IInv

LEMMA StartKeeps ==
    ASSUME IInv, PushTypeOK', NEW c \in Calls, Start(c)
    PROVE  IInv'
<1> USE PushAssumption, HandIsNoTry
<1> DEFINE d == tries + 1
<1>1. /\ \A e \in Calls : call'[e] = IF e = c THEN d ELSE 0
      /\ Waiting' = {d} /\ d \in Tries /\ after' = {}
  BY StartWaits DEF IInv
<1>2. Waiting = {} /\ row.here /\ row.doc = 0
  BY NobodyWaits DEF IInv, Start
<1>3. row'.here /\ row'.doc = 0 /\ row'.push = "pending"
  BY <1>2 DEF Start, Write, Claimed, IInv, PushTypeOK, Rows
<1>4. /\ wire' = wire \cup {d} /\ books' = books /\ lost' = lost
      /\ tries' = d /\ tries \in Nat /\ d # Hand /\ d # 0
  BY <1>1 DEF Start, IInv, PushTypeOK
<1>5. Owned = {}
  <2>1. Owned \subseteq Docs
    BY DEF Owned, IInv, PushTypeOK
  <2> QED
    BY <1>2, <2>1 DEF IInv, Carried
<1>6. \A e \in wire : e \in lost
  BY <1>2 DEF IInv, Awaited
<1>7. d \notin books \cup wire \cup lost
  BY <1>4 DEF IInv, Numbered
<1>8. OneFlight'
  BY <1>1 DEF OneFlight, Start
<1>9. Numbered'
  <2>1. \A e \in (books' \cup wire' \cup lost') \ {Hand} : e <= tries'
    <3> SUFFICES ASSUME NEW e \in (books \cup wire \cup lost \cup {d}) \ {Hand}
                 PROVE  e <= d
      BY <1>4
    <3>1. CASE e = d
      BY <3>1, <1>4
    <3>2. CASE e # d
      <4>1. e \in Tries /\ e <= tries
        BY <3>2 DEF IInv, Numbered, PushTypeOK
      <4> QED
        BY <4>1, <1>4 DEF Tries
    <3> QED
      BY <3>1, <3>2
  <2>2. \A e \in Calls : call'[e] <= tries'
    BY <1>1, <1>4
  <2>3. wire' \cap books' = {}
    BY <1>4, <1>7 DEF IInv, Numbered
  <2> QED
    BY <2>1, <2>2, <2>3 DEF Numbered
<1>10. Awaited'
  BY <1>1, <1>4, <1>6, <1>7 DEF Awaited
<1>11. Alive' = {d}
  BY <1>1, <1>4, <1>5, <1>6, <1>7 DEF Alive, Owned
<1>12. OneAlive'
  BY <1>11 DEF OneAlive
<1>13. Carried'
  BY <1>4, <1>5 DEF Carried, Owned
<1>14. FoundOne' /\ DoubtIsMarked'
  BY <1>3 DEF IInv, FoundOne, DoubtIsMarked, InDoubt, Start
<1> QED
  BY <1>8, <1>9, <1>10, <1>12, <1>13, <1>14 DEF IInv

(* The answer: the handler stays, and waits no longer.                     *)
LEMMA ReplyKeeps ==
    ASSUME IInv, PushTypeOK', NEW c \in Calls, Reply(c)
    PROVE  IInv'
<1> DEFINE d == call[c]
<1>1. /\ call' = call /\ flying' = flying /\ after' = after \cup {c}
      /\ UNCHANGED <<desk, wire, books, tries, lost>> /\ d \notin wire
      /\ d # 0 /\ c \notin after
  BY DEF Reply, Waits
<1>2. Waiting = {d} /\ Waiting' = {} /\ d \in Tries
  <2>1. \A e \in Calls : e # c => call[e] = 0
    BY <1>1 DEF IInv, OneFlight
  <2> QED
    BY <1>1, <2>1, CallIsTry DEF Waiting, Waits, IInv
<1>3. row'.here => row'.doc = d
  BY DEF Reply, Write, Posted, IInv, PushTypeOK, Rows
<1>4. OneFlight' /\ FoundOne'
  BY <1>1 DEF OneFlight, FoundOne, IInv
<1>5. Numbered'
  BY <1>1 DEF Numbered, IInv
<1>6. Awaited'
  BY <1>1, <1>2 DEF Awaited, IInv
<1>7. Alive' \subseteq Alive
  BY <1>1, <1>2 DEF Alive
<1>8. OneAlive'
  BY <1>7 DEF OneAlive, IInv
<1>9. \A e \in Owned' : e = d
  BY <1>1, <1>2 DEF IInv, OneAlive, Owned, Alive
<1>10. Carried'
  BY <1>3, <1>9 DEF Carried
<1>11. DoubtIsMarked'
  BY <1>2, <1>3, HandIsNoTry DEF DoubtIsMarked, InDoubt
<1> QED
  BY <1>4, <1>5, <1>6, <1>8, <1>10, <1>11 DEF IInv

(* ... until it is done.                                                   *)
LEMMA FinishKeeps ==
    ASSUME IInv, PushTypeOK', NEW c \in Calls, Finish(c)
    PROVE  IInv'
<1>1. UNCHANGED <<row, desk, wire, books, tries, lost>>
  BY DEF Finish
<1>2. (\A e \in Calls : call'[e] = 0) /\ after' = {}
  <2>1. call[c] # 0
    BY DEF Finish, IInv, OneFlight
  <2>2. (\A e \in Calls : e # c => call[e] = 0) /\ after \subseteq {c}
    BY <2>1 DEF IInv, OneFlight, PushTypeOK
  <2> QED
    BY <2>2 DEF Finish, Ended, IInv, PushTypeOK
<1>3. Waiting' = {} /\ Waiting = {}
  <2>1. \A e \in Calls : e # c => call[e] = 0
    BY DEF Finish, IInv, OneFlight
  <2> QED
    BY <1>2, <2>1 DEF Waiting, Waits, Finish
<1>4. OneFlight' /\ FoundOne' /\ Carried' /\ Awaited' /\ DoubtIsMarked'
  BY <1>1, <1>2, <1>3 DEF IInv, OneFlight, FoundOne, Carried, Owned, Awaited,
     DoubtIsMarked, InDoubt
<1>5. Numbered'
  BY <1>1, <1>2 DEF Numbered, IInv, PushTypeOK
<1>6. OneAlive'
  BY <1>1, <1>3 DEF OneAlive, Alive, IInv
<1> QED
  BY <1>4, <1>5, <1>6 DEF IInv

LEMMA FailedRow ==
    ASSUME PushTypeOK, Write(Refused(row))
    PROVE  /\ row'.here = row.here /\ row'.doc = row.doc
           /\ row'.here => row'.push = "failed"
BY DEF PushTypeOK, Write, Refused, Rows

LEMMA RefuseKeeps ==
    ASSUME IInv, PushTypeOK', NEW c \in Calls, Refuse(c)
    PROVE  IInv'
<1> DEFINE d == call[c]
<1>1. /\ \A e \in Calls : call'[e] = 0
      /\ Waiting = {d} /\ Waiting' = {} /\ d \in Tries /\ after' = {}
  BY CallLeaves, CallIsTry DEF IInv, Refuse, Waits
<1>2. UNCHANGED <<desk, books, tries, lost>> /\ d \in wire /\ wire' = wire \ {d}
  BY DEF Refuse
<1>3. OneFlight' /\ FoundOne'
  BY <1>1, <1>2 DEF OneFlight, FoundOne, IInv
<1>4. Numbered'
  BY <1>1, <1>2 DEF Numbered, IInv, PushTypeOK
<1>5. Awaited'
  BY <1>1, <1>2 DEF Awaited, IInv
<1>6. Alive' \subseteq Alive
  BY <1>1, <1>2 DEF Alive
<1>7. OneAlive'
  BY <1>6 DEF OneAlive, IInv
<1>8. Owned' = {}
  <2>1. Owned' = Owned /\ \A e \in Owned : e = d
    BY <1>1, <1>2 DEF IInv, OneAlive, Owned, Alive
  <2>2. d \notin books
    BY <1>2 DEF IInv, Numbered
  <2> QED
    BY <2>1, <2>2 DEF Owned
<1>9. Carried'
  BY <1>8 DEF Carried
<1>10. DoubtIsMarked'
  BY FailedRow DEF DoubtIsMarked, InDoubt, IInv, Refuse
<1> QED
  BY <1>3, <1>4, <1>5, <1>7, <1>9, <1>10 DEF IInv

LEMMA SilenceKeeps ==
    ASSUME IInv, PushTypeOK', NEW c \in Calls, Silence(c)
    PROVE  IInv'
<1> DEFINE d == call[c]
<1>1. /\ \A e \in Calls : call'[e] = 0
      /\ Waiting = {d} /\ Waiting' = {} /\ d \in Tries /\ d <= tries
      /\ after' = {}
  BY CallLeaves, CallIsTry DEF IInv, Silence, Numbered, Waits
<1>2. UNCHANGED <<desk, books, tries, wire>> /\ lost' = lost \cup {d}
  BY DEF Silence
<1>3. OneFlight' /\ FoundOne'
  BY <1>1, <1>2 DEF OneFlight, FoundOne, IInv
<1>4. Numbered'
  BY <1>1, <1>2 DEF Numbered, IInv, PushTypeOK
<1>5. Awaited'
  BY <1>1, <1>2 DEF Awaited, IInv
<1>6. Alive' \subseteq Alive
  BY <1>1, <1>2 DEF Alive
<1>7. OneAlive'
  BY <1>6 DEF OneAlive, IInv
<1>8. Owned' = {}
  BY <1>1, <1>2 DEF IInv, OneAlive, Owned, Alive
<1>9. Carried'
  BY <1>8 DEF Carried
<1>10. DoubtIsMarked'
  BY FailedRow DEF DoubtIsMarked, InDoubt, IInv, Silence
<1> QED
  BY <1>3, <1>4, <1>5, <1>7, <1>9, <1>10 DEF IInv

LEMMA CrashKeeps ==
    ASSUME IInv, PushTypeOK', Crash
    PROVE  IInv'
<1>1. (\A e \in Calls : call'[e] = 0) /\ Waiting' = {} /\ after' = {}
  BY DEF Crash, NoCalls, Waiting, Waits
<1>2. UNCHANGED <<row, books, tries, wire>> /\ lost' = lost \cup Waiting
  BY DEF Crash, Waiting
<1>3. OneFlight' /\ FoundOne'
  BY <1>1 DEF OneFlight, FoundOne, Crash, AtRest
<1>4. Numbered'
  <2>1. \A d \in Waiting : d <= tries
    BY DEF IInv, Numbered, Waiting, Waits
  <2> QED
    BY <1>1, <1>2, <2>1 DEF Numbered, IInv, PushTypeOK
<1>5. Awaited'
  BY <1>1, <1>2 DEF Awaited, IInv
<1>6. Alive' \subseteq Alive
  BY <1>1, <1>2 DEF Alive
<1>7. OneAlive'
  BY <1>6 DEF OneAlive, IInv
<1>8. Carried'
  BY <1>1, <1>2 DEF Carried, Owned, IInv
<1>9. DoubtIsMarked'
  BY <1>2 DEF DoubtIsMarked, InDoubt, IInv
<1> QED
  BY <1>3, <1>4, <1>5, <1>7, <1>8, <1>9 DEF IInv

LEMMA CreateKeeps ==
    ASSUME IInv, PushTypeOK', NEW d \in Tries, Create(d)
    PROVE  IInv'
<1>1. /\ UNCHANGED <<row, flying, call, after, desk, tries, lost>>
      /\ d \in wire /\ wire' = wire \ {d} /\ books' = books \cup {d}
  BY DEF Create
<1>2. Waiting' = Waiting
  BY <1>1 DEF Waiting, Waits
<1>3. OneFlight' /\ FoundOne'
  BY <1>1 DEF OneFlight, FoundOne, IInv
<1>4. Numbered'
  BY <1>1 DEF Numbered, IInv
<1>5. Awaited'
  BY <1>1, <1>2 DEF Awaited, IInv
<1>6. Alive' \subseteq Alive
  BY <1>1, <1>2 DEF Alive
<1>7. OneAlive'
  BY <1>6 DEF OneAlive, IInv
<1>8. Carried'
  <2>1. d \in lost \/ d \in Waiting
    BY <1>1 DEF IInv, Awaited
  <2> QED
    BY <1>1, <1>2, <2>1 DEF Carried, Owned, IInv
<1>9. DoubtIsMarked'
  BY <1>1 DEF DoubtIsMarked, InDoubt, IInv
<1> QED
  BY <1>3, <1>4, <1>5, <1>7, <1>8, <1>9 DEF IInv

LEMMA AdoptKeeps ==
    ASSUME IInv, PushTypeOK', MatchAdopt
    PROVE  IInv'
<1> USE DEF MatchAdopt
<1>1. Aside
  BY DEF Aside
<1>2. FoundOne'
  BY DEF FoundOne, IInv, PushTypeOK, Desks
<1>3. CASE row.doc # 0 \/ ~row.here
  BY <1>1, <1>2, <1>3, AsideRow DEF Write, Adopted, IInv, PushTypeOK, Rows
<1>4. CASE row.doc = 0 /\ row.here
  <2>1. row'.doc # 0
    BY <1>4 DEF Write, Adopted, IInv, PushTypeOK, Rows, FoundOne
  <2>2. Waiting' = Waiting /\ Owned' \subseteq Owned
    BY <1>1, AsideKeeps DEF IInv
  <2>3. \A d \in Owned : d \in Waiting
    <3>1. Owned \subseteq Docs
      BY DEF Owned, IInv, PushTypeOK
    <3> QED
      BY <1>4, <3>1, HandIsNoTry DEF IInv, Carried
  <2>4. Carried'
    BY <2>2, <2>3 DEF Carried
  <2>5. DoubtIsMarked'
    BY <2>1 DEF DoubtIsMarked, InDoubt
  <2> QED
    BY <1>1, <1>2, <2>4, <2>5, AsideKeeps DEF IInv
<1> QED
  BY <1>3, <1>4

LEMMA StepIInv == IInv /\ [Next]_vars => IInv'
<1> SUFFICES ASSUME IInv, [Next]_vars PROVE IInv'
  OBVIOUS
<1>0. PushTypeOK'
  BY StepType DEF IInv
<1>1. ASSUME NEW c \in Calls, Start(c) PROVE IInv'
  BY <1>0, <1>1, StartKeeps
<1>2. ASSUME NEW c \in Calls, Reply(c) PROVE IInv'
  BY <1>0, <1>2, ReplyKeeps
<1>3. ASSUME NEW c \in Calls, Refuse(c) PROVE IInv'
  BY <1>0, <1>3, RefuseKeeps
<1>4. ASSUME NEW c \in Calls, Silence(c) PROVE IInv'
  BY <1>0, <1>4, SilenceKeeps
<1>5. CASE Crash
  BY <1>0, <1>5, CrashKeeps
<1>6. ASSUME NEW d \in Tries, Create(d) PROVE IInv'
  BY <1>0, <1>6, CreateKeeps
<1>7. CASE MatchAdopt
  BY <1>0, <1>7, AdoptKeeps
<1>8. ASSUME NEW s \in Stages, Move(s) PROVE IInv'
  <2>1. row'.doc = row.doc /\ row'.push = row.push /\ row'.here = row.here
    BY <1>8 DEF Move, Write, Moved, IInv, PushTypeOK, Rows
  <2>2. Aside /\ FoundOne'
    BY <1>8 DEF Move, Aside, FoundOne, IInv
  <2> QED
    BY <1>0, <2>1, <2>2, AsideRow
<1>9. CASE DeleteUnposted
  <2>1. row'.here = FALSE
    BY <1>9 DEF DeleteUnposted, Write, IInv, PushTypeOK, Rows
  <2>2. Aside /\ FoundOne'
    BY <1>9 DEF DeleteUnposted, Aside, FoundOne, IInv
  <2> QED
    BY <1>0, <2>1, <2>2, AsideRow
<1>10. CASE DeleteHere
  <2>1. row'.here = FALSE
    BY <1>10 DEF DeleteHere, Write, IInv, PushTypeOK, Rows
  <2>2. Aside /\ FoundOne'
    BY <1>10 DEF DeleteHere, Aside, FoundOne, IInv, PushTypeOK, Desks
  <2> QED
    BY <1>0, <2>1, <2>2, AsideRow
<1>11. CASE DeleteThere
  <2>1. row' = row /\ Aside /\ FoundOne'
    BY <1>11 DEF DeleteThere, Aside, FoundOne, IInv
  <2> QED
    BY <1>0, <2>1, AsideRow
<1>12. CASE DeleteAsk \/ MatchAsk \/ MatchNothing \/ CheckAsk
  <2>1. row' = row /\ Aside
    BY <1>12 DEF DeleteAsk, MatchAsk, MatchNothing, CheckAsk, Aside
  <2>2. FoundOne'
    BY <1>12 DEF DeleteAsk, MatchAsk, MatchNothing, CheckAsk, FoundOne, IInv,
       PushTypeOK, Desks
  <2> QED
    BY <1>0, <2>1, <2>2, AsideRow
<1>13. CASE MatchAnswer
  <2>1. row' = row /\ Aside
    BY <1>13 DEF MatchAnswer, Aside
  <2>2. FoundOne'
    <3>1. PICK d \in books :
              desk' = [desk EXCEPT !.match = "answered", !.found = d]
      BY <1>13 DEF MatchAnswer
    <3>2. d # 0
      BY HandIsNoTry DEF IInv, PushTypeOK
    <3> QED
      BY <3>1, <3>2 DEF FoundOne, IInv, PushTypeOK, Desks
  <2> QED
    BY <1>0, <2>1, <2>2, AsideRow
<1>14. CASE CheckAnswer
  <2>1. row'.doc = row.doc /\ row'.push = row.push /\ row'.here = row.here
    BY <1>14 DEF CheckAnswer, Write, Moved, IInv, PushTypeOK, Rows
  <2>2. Aside
    BY <1>14 DEF CheckAnswer, Aside
  <2>3. FoundOne'
    BY <1>14 DEF CheckAnswer, FoundOne, IInv, PushTypeOK, Desks
  <2> QED
    BY <1>0, <2>1, <2>2, <2>3, AsideRow
<1>15. CASE UNCHANGED vars
  BY <1>15 DEF vars, IInv, PushTypeOK, OneFlight, Numbered, Awaited, OneAlive,
     Alive, Waiting, Waits, Carried, Owned, FoundOne, DoubtIsMarked, InDoubt
<1>16. ASSUME NEW c \in Calls, Finish(c) PROVE IInv'
  BY <1>0, <1>16, FinishKeeps
<1> QED
  BY <1>16, <1>1, <1>2, <1>3, <1>4, <1>5, <1>6, <1>7, <1>8, <1>9, <1>10, <1>11,
     <1>12, <1>13, <1>14, <1>15 DEF Next, Push, Desk

LEMMA Always == Spec => []IInv
BY InitIInv, StepIInv, PTL DEF Spec

----------------------------------------------------------------------------
(* The rows, the handlers and what QuickBooks holds keep their types.      *)
THEOREM PushTypeCorrect == Spec => []PushTypeOK
<1>1. IInv => PushTypeOK
  BY DEF IInv
<1> QED
  BY <1>1, Always, PTL

(* One order becomes one document, but for attempts whose answer was lost. *)
THEOREM OneDocument == Spec => []PostedOnce
<1>1. IInv => PostedOnce
  BY DEF IInv, OneAlive, Alive, Owned, PostedOnce
<1> QED
  BY <1>1, Always, PTL

(* The order carries the document it was told of.                          *)
THEOREM DocumentIsCarried == Spec => []AnsweredIsCarried
<1>1. IInv => AnsweredIsCarried
  BY DEF IInv, Carried, Waiting, IsWaitedFor, AnsweredIsCarried
<1> QED
  BY <1>1, Always, PTL

(* An order QuickBooks may hold a document of, and that knows of none, is  *)
(* on the list of those that need an eye, unless it is void.               *)
THEOREM DoubtIsAlwaysListed == Spec => []DoubtIsListed
<1>1. IInv => DoubtIsListed
  BY DEF IInv, DoubtIsMarked, InDoubt, DoubtIsListed, Listed
<1> QED
  BY <1>1, Always, PTL
=============================================================================
