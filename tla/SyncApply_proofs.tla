--------------------------- MODULE SyncApply_proofs ---------------------------
(***************************************************************************)
(* What laptops make of the rows they pull, proved for any number of       *)
(* laptops and page sizes, any finite sets of ids and lots, and any number *)
(* of edits and failures.                                                  *)
(*                                                                         *)
(* SurvivorOrSeed is judged when nothing is on its way, not inductive.     *)
(* What is inductive, and is proved first, is what laptops and relay know  *)
(* of the smallest id that was ever published: nobody announces its death  *)
(* (HeirsAt), a laptop that has seen it holds it or a smaller one          *)
(* (SeenAt), and an id that a laptop holds is on the relay, on its way     *)
(* there, or the one it was installed with (HeardAt).                      *)
(*                                                                         *)
(* The parts, in this order: least and greatest numbers; a set in order; a *)
(* page landed row by row; the type invariant; the ids; the theorems.      *)
(***************************************************************************)
EXTENDS SyncApply, FiniteSetTheorems, TLAPS

-----------------------------------------------------------------------------
(* The inductive invariant                                                 *)

Stages == {"idle", "push", "pull", "publish", "looked"}

Desks(n) == [prod : Ids \cup {Nothing}, lot : [Lots -> Ids \cup {Nothing}],
             queue : [Records -> [at : 0..n, deleted : BOOLEAN]],
             kept : [Lots -> Ids \cup {Nothing}], cursor : Nat,
             stage : Stages, staffed : BOOLEAN, published : BOOLEAN]

LogRows(n) == [seq : Nat, at : 0..n, by : Laptops \cup {Nothing}, deleted : BOOLEAN,
               to : Ids \cup {Nothing}]

(* The shape of everything; the relay numbers its rows apart.              *)
TypeInv ==
    /\ now \in Nat
    /\ desk \in [Laptops -> Desks(now)]
    /\ log \in [Records -> LogRows(now)]
    /\ \A l \in Laptops : Consistent(desk[l]) /\ desk[l].cursor <= Newest
    /\ \A q, r \in Records : log[q].seq = log[r].seq /\ log[q].seq # 0 => q = r
    /\ \A r \in Records : log[r].seq = 0 => log[r] = NoRow

(* An id is buried, or about to be, only where a smaller one is known.     *)
DyingAt(s)  == {id \in Ids : s.queue[id].at # 0 /\ (s.queue[id].deleted \/ s.prod # id)}
HeirsAt(s)  == \A id \in DyingAt(s) : Beaten(id)

(* Who has seen the smallest id holds it, or one that is smaller still.    *)
SeenAt(l, s) ==
    \A m \in Ids : IsLeast(m) /\ (log[m].seq <= s.cursor \/ log[m].by = l) => s.prod \in 1..m

(* A lot is not sent without its product, nor before it.                   *)
LotsAt(s) ==
    /\ Pending(s) # {} => Published \/ Pending(s) \cap Ids # {}
    /\ s.stage = "looked" => Published

(* An id nobody has heard of is the one a laptop was installed with: it    *)
(* has not been in touch with the relay, or came second to it.             *)
Unheard(l, s) ==
    /\ l \in Newcomers /\ s.prod = Seed[l]
    /\ IF l \in Staffed THEN ~s.published \/ Published
       ELSE s.stage = "idle" /\ IsBlank(s)
HeardAt(l, s) ==
    /\ l \in Staffed => s.staffed
    /\ s.prod = Nothing \/ InLog(s.prod) \/ s.prod \in Pending(s) \/ Unheard(l, s)

(* Nothing comes from a laptop that nobody has set up.                     *)
SilentAt(l, s) ==
    ~s.staffed => /\ s.cursor = 0 /\ Pending(s) = {} /\ s.stage \notin {"publish", "looked"}
                  /\ \A r \in Records : InLog(r) => log[r].by # l

DeskInv(l, s) == HeirsAt(s) /\ SeenAt(l, s) /\ LotsAt(s) /\ HeardAt(l, s) /\ SilentAt(l, s)
RelayInv ==
    /\ \A id \in Ids : log[id].deleted => Beaten(id)
    /\ (\E r \in Records : InLog(r)) => Published

IdsInv   == RelayInv /\ \A l \in Laptops : DeskInv(l, desk[l])
ApplyInv == TypeInv /\ IdsInv

-----------------------------------------------------------------------------
(* Least and greatest numbers, and the induction over finite sets          *)

(* A set of numbers that is not empty has a least one.                     *)
LEMMA LeastNumber ==
    ASSUME NEW T \in SUBSET Nat, T # {}
    PROVE  \E n \in T : \A m \in T : n <= m
<1> DEFINE R == OpToRel(<, Nat)
<1>1. IsWellFoundedOn(R, Nat)
  BY NatLessThanWellFounded, Zenon
<1>2. \A m, n \in Nat : m < n => <<m, n>> \in R
  BY DEF OpToRel
<1> HIDE DEF R
<1>3. PICK n \in T : \A m \in T : ~(<<m, n>> \in R)
  BY <1>1, WFMin
<1>4. \A m \in T : n <= m
  <2> TAKE m \in T
  <2>1. m \in Nat /\ n \in Nat
    OBVIOUS
  <2>2. ~(m < n)
    BY <1>2, <1>3, <2>1
  <2> QED BY <2>1, <2>2
<1> QED BY <1>4

(* Among subsets of a finite set there is one without an element that can  *)
(* be left out: the induction that the lemmas below go by.                 *)
LEMMA SmallestSet ==
    ASSUME NEW S, IsFiniteSet(S), NEW B \in SUBSET SUBSET S, B # {}
    PROVE  \E s \in B : \A x \in s : s \ {x} \notin B
<1> DEFINE T == {Cardinality(s) : s \in B}
<1>1. \A s \in B : IsFiniteSet(s) /\ Cardinality(s) \in Nat
  BY FS_Subset, FS_CardinalityType
<1>2. PICK n \in T : \A m \in T : n <= m
  <2>1. T \in SUBSET Nat /\ T # {}
    BY <1>1
  <2> HIDE DEF T
  <2> QED BY <2>1, LeastNumber
<1>3. PICK s \in B : Cardinality(s) = n
  OBVIOUS
<1>4. ASSUME NEW x \in s, s \ {x} \in B PROVE FALSE
  <2>1. Cardinality(s \ {x}) = Cardinality(s) - 1
    BY <1>1, FS_RemoveElement
  <2>2. n <= Cardinality(s \ {x})
    BY <1>2, <1>4
  <2> QED BY <1>1, <1>3, <2>1, <2>2
<1> QED BY <1>4

(* A finite set of numbers that is not empty has a greatest one.           *)
LEMMA GreatestNumber ==
    ASSUME NEW S \in SUBSET Nat, IsFiniteSet(S), S # {}
    PROVE  \E x \in S : \A y \in S : x >= y
<1> DEFINE B == {s \in SUBSET S : s # {} /\ ~ \E x \in s : \A y \in s : x >= y}
<1>1. ASSUME NEW s \in B, \A x \in s : s \ {x} \notin B PROVE FALSE
  <2>1. PICK x \in s : TRUE
    OBVIOUS
  <2>2. CASE s \ {x} = {}
    <3>1. x \in Nat /\ \A y \in s : y = x
      BY <2>2
    <3> QED BY <3>1
  <2>3. CASE s \ {x} # {}
    <3>1. PICK y \in s \ {x} : \A z \in s \ {x} : y >= z
      BY <1>1, <2>3
    <3>2. \A z \in s : z \in Nat
      OBVIOUS
    <3>3. x >= y => \A z \in s : x >= z
      BY <3>1, <3>2
    <3>4. ~(x >= y) => \A z \in s : y >= z
      BY <3>1, <3>2
    <3> QED BY <3>1, <3>3, <3>4
  <2> QED BY <2>2, <2>3
<1>2. B \in SUBSET SUBSET S
  OBVIOUS
<1>3. B = {}
  <2> HIDE DEF B
  <2> QED BY <1>1, <1>2, SmallestSet
<1>4. S \notin B
  BY <1>3
<1> QED BY <1>4

(* The library's Max is that number.                                       *)
LEMMA MaxInside ==
    ASSUME NEW S \in SUBSET Nat, IsFiniteSet(S), S # {}
    PROVE  Max(S) \in S
BY GreatestNumber DEF Max

-----------------------------------------------------------------------------
(* A finite set in order                                                   *)

(* A relation without cycles has, on a finite set, an element nothing of   *)
(* the set goes after.                                                     *)
LEMMA LastElement ==
    ASSUME NEW S, IsFiniteSet(S), S # {}, NEW R,
           \A x \in S : <<x, x>> \notin R,
           \A x, y, z \in S : <<x, y>> \in R /\ <<y, z>> \in R => <<x, z>> \in R
    PROVE  \E x \in S : \A y \in S : <<x, y>> \notin R
<1> DEFINE B == {s \in SUBSET S : s # {} /\ \A x \in s : \E y \in s : <<x, y>> \in R}
<1>1. ASSUME NEW s \in B, \A x \in s : s \ {x} \notin B PROVE FALSE
  <2>1. PICK x \in s : TRUE
    OBVIOUS
  <2>2. PICK y \in s : <<x, y>> \in R
    OBVIOUS
  <2>3. y \in s \ {x}
    BY <2>2
  <2>4. PICK z \in s \ {x} : \A w \in s \ {x} : <<z, w>> \notin R
    BY <1>1, <2>3
  <2>5. <<z, x>> \in R
    BY <2>4
  <2> QED BY <2>2, <2>3, <2>4, <2>5
<1>2. B \in SUBSET SUBSET S
  OBVIOUS
<1>3. B = {}
  <2> HIDE DEF B
  <2> QED BY <1>1, <1>2, SmallestSet
<1>4. S \notin B
  BY <1>3
<1> QED BY <1>4

IsOrder(f, S, R) ==
    f \in SetToSeqs(S) /\ \A i, j \in DOMAIN f : i < j => <<f[j], f[i]>> \notin R

(* So the elements of a finite set can be put in order.                    *)
LEMMA OrderExists ==
    ASSUME NEW S, IsFiniteSet(S), NEW R,
           \A x \in S : <<x, x>> \notin R,
           \A x, y, z \in S : <<x, y>> \in R /\ <<y, z>> \in R => <<x, z>> \in R
    PROVE  \E f : IsOrder(f, S, R)
<1> DEFINE B == {s \in SUBSET S : ~ \E f : IsOrder(f, s, R)}
<1>1. ASSUME NEW s \in B, \A x \in s : s \ {x} \notin B PROVE FALSE
  <2>1. IsFiniteSet(s) /\ Cardinality(s) \in Nat
    BY FS_Subset, FS_CardinalityType
  <2>2. CASE s = {}
    <3>1. Cardinality(s) = 0
      BY <2>2, FS_EmptySet
    <3> DEFINE f == [i \in 1..0 |-> 0]
    <3>2. IsOrder(f, s, R)
      BY <3>1 DEF IsOrder, SetToSeqs
    <3> QED BY <3>2
  <2>3. CASE s # {}
    <3>1. PICK x \in s : \A y \in s : <<x, y>> \notin R
      BY <2>1, <2>3, LastElement
    <3> DEFINE n == Cardinality(s)
               t == s \ {x}
    <3>2. Cardinality(t) = n - 1 /\ n - 1 \in Nat /\ n \in Nat
      <4>1. IsFiniteSet(t) /\ Cardinality(t) = n - 1
        BY <2>1, <3>1, FS_RemoveElement
      <4>2. Cardinality(t) \in Nat
        BY <4>1, FS_CardinalityType
      <4> HIDE DEF t, n
      <4> QED BY <4>1, <4>2, <2>1 DEF n
    <3>3. PICK g : IsOrder(g, t, R)
      BY <1>1, <3>1
    <3> HIDE DEF n
    <3>4. /\ g \in [1..(n - 1) -> t] /\ \A i, j \in 1..(n - 1) : i # j => g[i] # g[j]
          /\ \A i, j \in 1..(n - 1) : i < j => <<g[j], g[i]>> \notin R
      BY <3>2, <3>3 DEF IsOrder, SetToSeqs
    <3> DEFINE f == [i \in 1..n |-> IF i = n THEN x ELSE g[i]]
    <3>5. \A i \in 1..n : i = n \/ i \in 1..(n - 1)
      BY <3>2
    <3>6. f \in [1..n -> s]
      BY <3>1, <3>4, <3>5
    <3>7. \A i, j \in 1..n : i # j => f[i] # f[j]
      BY <3>4, <3>5
    <3>8. \A i, j \in 1..n : i < j => <<f[j], f[i]>> \notin R
      <4> TAKE i, j \in 1..n
      <4> HAVE i < j
      <4>1. i \in 1..(n - 1) /\ f[i] = g[i] /\ g[i] \in s
        BY <3>2, <3>4, <3>5
      <4>2. CASE j = n
        BY <3>1, <4>1, <4>2
      <4>3. CASE j # n
        BY <3>4, <3>5, <4>1, <4>3
      <4> QED BY <4>2, <4>3
    <3>9. IsOrder(f, s, R)
      <4> HIDE DEF f
      <4>1. DOMAIN f = 1..n
        BY <3>6
      <4> QED BY <3>6, <3>7, <3>8, <4>1 DEF IsOrder, SetToSeqs, n
    <3> QED BY <3>9
  <2> QED BY <2>2, <2>3
<1>2. B \in SUBSET SUBSET S
  OBVIOUS
<1>3. B = {}
  <2> HIDE DEF B
  <2> QED BY <1>1, <1>2, SmallestSet
<1>4. S \notin B
  BY <1>3
<1> QED BY <1>4

(* What is in such a sequence: each element, once.                         *)
LEMMA Enumerates ==
    ASSUME NEW S, IsFiniteSet(S), NEW f \in SetToSeqs(S)
    PROVE  /\ Cardinality(S) \in Nat
           /\ DOMAIN f = 1..Cardinality(S)
           /\ IsFiniteSet(DOMAIN f) /\ DOMAIN f \in SUBSET Nat
           /\ \A i \in DOMAIN f : f[i] \in S
           /\ \A i, j \in DOMAIN f : f[i] = f[j] => i = j
           /\ \A x \in S : \E i \in DOMAIN f : f[i] = x
<1> DEFINE n == Cardinality(S)
<1>1. n \in Nat
  BY FS_CardinalityType
<1>2. f \in [1..n -> S] /\ \A i, j \in 1..n : i # j => f[i] # f[j]
  BY DEF SetToSeqs
<1>3. IsFiniteSet(1..n) /\ Cardinality(1..n) = n
  BY <1>1, FS_Interval
<1>4. f \in Injection(1..n, S)
  BY <1>2 DEF Injection, IsInjective
<1>5. f \in Surjection(1..n, S)
  BY <1>3, <1>4, FS_Injection
<1>6. \A x \in S : \E i \in 1..n : f[i] = x
  BY <1>5 DEF Surjection
<1>7. 1..n \in SUBSET Nat
  BY <1>1
<1> QED BY <1>1, <1>2, <1>3, <1>6, <1>7

-----------------------------------------------------------------------------
(* Rows landed one after the other                                         *)

(* What the library's FoldLeft chooses: a function of the sets of rows     *)
(* done, which does the last row of a set on the result for the others.    *)
Lander(it, base, rows, at, deferred, t) ==
    IF t = {} THEN base ELSE Land(it[t \ {Max(t)}], rows[Max(t)], at, deferred)

IsLanding(it, base, rows, at, deferred, D) ==
    it = [t \in D |-> Lander(it, base, rows, at, deferred, t)]

(* There is such a function.                                               *)
LEMMA LandingExists ==
    ASSUME NEW base, NEW rows, NEW at, NEW deferred,
           NEW S \in SUBSET Nat, IsFiniteSet(S)
    PROVE  \E it : IsLanding(it, base, rows, at, deferred, SUBSET S)
<1> DEFINE Upto(n) == {s \in SUBSET S : Cardinality(s) <= n}
           Step(it, s) == Lander(it, base, rows, at, deferred, s)
           B == {n \in Nat : ~ \E it : IsLanding(it, base, rows, at, deferred, Upto(n))}
<1>1. \A s \in SUBSET S : IsFiniteSet(s) /\ Cardinality(s) \in Nat
  BY FS_Subset, FS_CardinalityType
<1>2. ASSUME NEW n \in Nat, NEW s \in Upto(n), s # {}
      PROVE  n # 0 /\ s \ {Max(s)} \in Upto(n - 1)
  <2> DEFINE t == s \ {Max(s)}
  <2>1. Max(s) \in s
    BY <1>1, <1>2, MaxInside
  <2>2. Cardinality(t) = Cardinality(s) - 1
    BY <1>1, <2>1, FS_RemoveElement
  <2>3. t \in SUBSET S /\ Cardinality(t) \in Nat /\ Cardinality(s) \in Nat /\ Cardinality(s) <= n
    BY <1>1
  <2> HIDE DEF t
  <2>4. n # 0 /\ t \in Upto(n - 1)
    BY <2>2, <2>3
  <2> QED BY <2>4 DEF t
<1>3. B = {}
  <2> SUFFICES ASSUME B # {} PROVE FALSE
    OBVIOUS
  <2>1. PICK n \in B : \A m \in B : n <= m
    BY LeastNumber
  <2>2. CASE n = 0
    <3> DEFINE it == [s \in Upto(n) |-> base]
    <3>1. \A s \in Upto(n) : s = {}
      BY <1>2, <2>2
    <3>2. it = [s \in Upto(n) |-> Step(it, s)]
      BY <3>1 DEF Lander
    <3> QED BY <3>2, <2>1 DEF IsLanding
  <2>3. CASE n # 0
    <3>1. n - 1 \in Nat /\ n - 1 \notin B
      <4>1. n \in Nat /\ n - 1 \in Nat
        BY <2>3
      <4>2. ~(n <= n - 1)
        BY <4>1
      <4> QED BY <2>1, <4>1, <4>2
    <3>2. PICK old : IsLanding(old, base, rows, at, deferred, Upto(n - 1))
      BY <3>1
    <3> DEFINE it == [s \in Upto(n) |-> Step(old, s)]
    <3>3. \A s \in Upto(n - 1) : s \in Upto(n) /\ it[s] = old[s]
      <4> TAKE s \in Upto(n - 1)
      <4>1. s \in Upto(n)
        BY <1>1, <3>1
      <4>2. old[s] = Step(old, s)
        BY <3>2 DEF IsLanding
      <4> QED BY <4>1, <4>2
    <3>4. \A s \in Upto(n) : Step(it, s) = Step(old, s)
      <4> TAKE s \in Upto(n)
      <4>1. s # {} => it[s \ {Max(s)}] = old[s \ {Max(s)}]
        BY <1>2, <3>3
      <4> HIDE DEF it
      <4> QED BY <4>1 DEF Lander
    <3>5. it = [s \in Upto(n) |-> Step(it, s)]
      BY <3>4
    <3> QED BY <3>5, <2>1 DEF IsLanding
  <2> QED BY <2>2, <2>3
<1>4. Cardinality(S) \in Nat
  BY FS_CardinalityType
<1>5. Upto(Cardinality(S)) = SUBSET S
  BY FS_Subset
<1> QED BY <1>3, <1>4, <1>5

(* What the start has and every row hands on, the end has.  G names, for   *)
(* each set of rows that are done, the databases there may be by then.     *)
LEMMA LandAllReaches ==
    ASSUME NEW s, NEW rows, NEW at, NEW deferred,
           DOMAIN rows \in SUBSET Nat, IsFiniteSet(DOMAIN rows),
           NEW G, s \in G[{}],
           \A T \in SUBSET DOMAIN rows : \A i \in DOMAIN rows \ T : \A t \in G[T] :
               Land(t, rows[i], at, deferred) \in G[T \cup {i}]
    PROVE  LandAll(s, rows, at, deferred) \in G[DOMAIN rows]
<1> DEFINE D == DOMAIN rows
           it == CHOOSE i : IsLanding(i, s, rows, at, deferred, SUBSET D)
<1>1. IsLanding(it, s, rows, at, deferred, SUBSET D)
  <2> HIDE DEF D
  <2> QED BY LandingExists DEF D
<1>2. LandAll(s, rows, at, deferred) = it[D]
  BY DEF LandAll, FoldLeft, MapThenFoldSet, IsLanding, Lander
<1>3. \A T \in SUBSET D : it[T] = Lander(it, s, rows, at, deferred, T)
  <2> HIDE DEF it, D
  <2> QED BY <1>1 DEF IsLanding
<1> DEFINE B == {T \in SUBSET D : it[T] \notin G[T]}
<1>4. ASSUME NEW T \in B, \A i \in T : T \ {i} \notin B PROVE FALSE
  <2>1. T \in SUBSET D /\ it[T] \notin G[T]
    BY <1>4
  <2> HIDE DEF it, B
  <2>2. CASE T = {}
    BY <1>3, <2>1, <2>2 DEF Lander
  <2>3. CASE T # {}
    <3> DEFINE k == Max(T)
               R == T \ {k}
    <3>1. k \in T
      <4>1. T \in SUBSET Nat /\ IsFiniteSet(T)
        BY <2>1, FS_Subset
      <4> QED BY <2>3, <4>1, MaxInside
    <3>2. it[R] \in G[R]
      BY <1>4, <2>1, <3>1 DEF B
    <3>3. it[T] = Land(it[R], rows[k], at, deferred)
      BY <1>3, <2>1, <2>3 DEF Lander
    <3>4. R \in SUBSET D /\ k \in D \ R /\ R \cup {k} = T
      BY <2>1, <3>1
    <3> HIDE DEF k, R
    <3> QED BY <2>1, <3>2, <3>3, <3>4
  <2> QED BY <2>2, <2>3
<1>5. B \in SUBSET SUBSET D
  OBVIOUS
<1>6. B = {}
  <2> HIDE DEF B, D, it
  <2> QED BY <1>4, <1>5, SmallestSet DEF D
<1>7. it[D] \in G[D]
  <2> HIDE DEF it
  <2> QED BY <1>6
<1> HIDE DEF it
<1> QED BY <1>2, <1>7

(* The same for one set of databases that no row leads out of.             *)
LEMMA LandAllKeeps ==
    ASSUME NEW s, NEW rows, NEW at, NEW deferred,
           DOMAIN rows \in SUBSET Nat, IsFiniteSet(DOMAIN rows),
           NEW G, s \in G,
           \A i \in DOMAIN rows : \A t \in G : Land(t, rows[i], at, deferred) \in G
    PROVE  LandAll(s, rows, at, deferred) \in G
<1> DEFINE H == [T \in SUBSET DOMAIN rows |-> G]
<1>1. s \in H[{}]
  OBVIOUS
<1>2. \A T \in SUBSET DOMAIN rows : \A i \in DOMAIN rows \ T : \A t \in H[T] :
          Land(t, rows[i], at, deferred) \in H[T \cup {i}]
  OBVIOUS
<1>3. H[DOMAIN rows] = G
  OBVIOUS
<1> HIDE DEF H
<1>4. LandAll(s, rows, at, deferred) \in H[DOMAIN rows]
  BY <1>1, <1>2, LandAllReaches
<1> QED BY <1>3, <1>4

-----------------------------------------------------------------------------
(* What landing one row does                                               *)

Rows == [rec : Records, deleted : BOOLEAN, to : Ids \cup {Nothing}]

(* A row touches the data of a laptop, and not where its round is.         *)
SameRound(s, t) ==
    /\ t.cursor = s.cursor /\ t.stage = s.stage
    /\ t.staffed = s.staffed /\ t.published = s.published

(* Nothing leaves the queue.                                               *)
QueueGrows(s, t) == \A r \in Records : s.queue[r].at # 0 => t.queue[r].at # 0

LEMMA BuriedDoes ==
    ASSUME NEW n \in Nat, NEW s \in Desks(n), NEW id, NEW t, t = Buried(s, id)
    PROVE  /\ t \in Desks(n) /\ SameRound(s, t)
           /\ t.prod = IF s.prod = id THEN Nothing ELSE s.prod
           /\ t.queue = s.queue /\ t.kept = s.kept
           /\ \A x \in Lots : t.lot[x] = IF s.lot[x] = id THEN Nothing ELSE s.lot[x]
BY DEF Buried, Desks, SameRound

LEMMA TakenOverDoes ==
    ASSUME NEW n \in Nat, NEW s \in Desks(n), NEW id \in Ids, NEW at \in 1..n,
           NEW deferred \in BOOLEAN, s.prod \in Ids, s.prod # id,
           NEW t, t = TakenOver(s, id, at, deferred)
    PROVE  /\ t \in Desks(n) /\ SameRound(s, t) /\ QueueGrows(s, t)
           /\ t.prod = id /\ t.kept = s.kept
           /\ \A x \in Lots : t.lot[x] \in {id, Nothing, s.lot[x]}
           /\ ~deferred => \A x \in Lots : t.lot[x] = IF s.lot[x] = s.prod THEN Nothing
                                                      ELSE s.lot[x]
           /\ \A k \in Ids : t.queue[k] = IF k = s.prod THEN [at |-> at, deleted |-> TRUE]
                                          ELSE s.queue[k]
<1> DEFINE old == s.prod
           its == Pointing(s, old)
           moved == IF deferred THEN its ELSE {}
           u == [s EXCEPT !.prod = id,
                          !.lot = [x \in Lots |-> IF x \in moved THEN id
                                                  ELSE IF x \in its THEN Nothing ELSE @[x]]]
           v == QueuedAll(u, moved, at, FALSE)
<1>1. /\ u \in Desks(n) /\ SameRound(s, u) /\ u.prod = id /\ u.kept = s.kept
      /\ u.queue = s.queue
      /\ \A x \in Lots : u.lot[x] = IF x \in moved THEN id
                                    ELSE IF x \in its THEN Nothing ELSE s.lot[x]
  BY DEF Desks, SameRound
<1>2. moved \cap Ids = {} /\ (~deferred => moved = {})
      /\ \A x \in Lots : x \in its <=> s.lot[x] = old
  BY ApplyAssumption DEF Pointing
<1>3. t = QueuedAll(v, {old}, at, TRUE)
  BY DEF TakenOver
<1>4. at \in 0..n /\ at # 0
  OBVIOUS
<1>10. v = QueuedAll(u, moved, at, FALSE)
  OBVIOUS
<1> HIDE DEF u, moved, its, v
<1>5. /\ v \in Desks(n) /\ SameRound(u, v)
      /\ v.prod = u.prod /\ v.lot = u.lot /\ v.kept = u.kept
      /\ \A r \in Records : v.queue[r] = IF r \in moved THEN [at |-> at, deleted |-> FALSE]
                                         ELSE u.queue[r]
  BY <1>1, <1>4, <1>10 DEF QueuedAll, Desks, SameRound
<1>6. /\ t \in Desks(n) /\ SameRound(v, t)
      /\ t.prod = v.prod /\ t.lot = v.lot /\ t.kept = v.kept
      /\ \A r \in Records : t.queue[r] = IF r \in {old} THEN [at |-> at, deleted |-> TRUE]
                                         ELSE v.queue[r]
  <2>1. v \in Desks(n)
    BY <1>5
  <2> DEFINE R == {old}
  <2>2. t = QueuedAll(v, R, at, TRUE)
    BY <1>3
  <2> HIDE DEF R
  <2>3. /\ t \in Desks(n) /\ SameRound(v, t)
        /\ t.prod = v.prod /\ t.lot = v.lot /\ t.kept = v.kept
        /\ \A r \in Records : t.queue[r] = IF r \in R THEN [at |-> at, deleted |-> TRUE]
                                           ELSE v.queue[r]
    <3> DEFINE queue == [r \in Records |-> IF r \in R THEN [at |-> at, deleted |-> TRUE]
                                          ELSE v.queue[r]]
    <3>1. t = [v EXCEPT !.queue = queue]
      BY <2>2 DEF QueuedAll
    <3>2. queue \in [Records -> [at : 0..n, deleted : BOOLEAN]]
      BY <1>4, <2>1 DEF Desks
    <3>3. \A r \in Records : queue[r] = IF r \in R THEN [at |-> at, deleted |-> TRUE]
                                        ELSE v.queue[r]
      OBVIOUS
    <3> HIDE DEF queue
    <3>4. /\ t \in Desks(n) /\ SameRound(v, t) /\ t.queue = queue
          /\ t.prod = v.prod /\ t.lot = v.lot /\ t.kept = v.kept
      BY <2>1, <3>1, <3>2 DEF Desks, SameRound
    <3> QED BY <3>3, <3>4
  <2> QED BY <2>3 DEF R
<1>7. SameRound(s, t)
  BY <1>1, <1>5, <1>6 DEF SameRound
<1>8. QueueGrows(s, t)
  BY <1>1, <1>4, <1>5, <1>6 DEF QueueGrows
<1>9. \A k \in Ids : t.queue[k] = IF k = old THEN [at |-> at, deleted |-> TRUE]
                                  ELSE s.queue[k]
  BY <1>1, <1>2, <1>5, <1>6 DEF Records
<1>11. \A x \in Lots : t.lot[x] = IF x \in moved THEN id
                                   ELSE IF s.lot[x] = old THEN Nothing ELSE s.lot[x]
  BY <1>1, <1>2, <1>5, <1>6
<1>12. t.prod = id /\ t.kept = s.kept
  BY <1>1, <1>5, <1>6
<1> QED BY <1>2, <1>6, <1>7, <1>8, <1>9, <1>11, <1>12

(* A product's row: the four cases of applyRows.                           *)
LEMMA LandProductDoes ==
    ASSUME NEW n \in Nat, NEW s \in Desks(n), NEW row \in Rows, row.rec \in Ids,
           NEW at \in 1..n, NEW deferred \in BOOLEAN,
           NEW t, t = Land(s, row, at, deferred)
    PROVE  /\ t \in Desks(n) /\ SameRound(s, t) /\ QueueGrows(s, t)
           /\ t.kept = s.kept
           /\ \/ /\ row.deleted
                 /\ t.prod = IF s.prod = row.rec THEN Nothing ELSE s.prod
                 /\ t.queue = s.queue
              \/ /\ ~row.deleted /\ s.prod \in {Nothing, row.rec}
                 /\ t.prod = row.rec /\ t.queue = s.queue
              \/ /\ ~row.deleted /\ s.prod \in Ids /\ row.rec < s.prod
                 /\ t.prod = row.rec
                 /\ \A k \in Ids : t.queue[k] = IF k = s.prod
                                                THEN [at |-> at, deleted |-> TRUE]
                                                ELSE s.queue[k]
              \/ /\ ~row.deleted /\ s.prod \in Ids /\ s.prod < row.rec
                 /\ t = s
           /\ ~deferred /\ Consistent(s) => Consistent(t)
<1>1. s.prod \in Ids \cup {Nothing} /\ Ids \subseteq Nat \ {0}
  BY ApplyAssumption DEF Desks
<1>2. t = LandProduct(s, row, at, deferred)
  BY DEF Land
<1>3. CASE row.deleted
  <2>1. t = Buried(s, row.rec)
    BY <1>2, <1>3 DEF LandProduct
  <2>2. /\ t \in Desks(n) /\ SameRound(s, t)
        /\ t.prod = IF s.prod = row.rec THEN Nothing ELSE s.prod
        /\ t.queue = s.queue /\ t.kept = s.kept
        /\ \A x \in Lots : t.lot[x] = IF s.lot[x] = row.rec THEN Nothing ELSE s.lot[x]
    BY <2>1, BuriedDoes
  <2>3. Consistent(s) => Consistent(t)
    BY <2>2 DEF Consistent
  <2> QED BY <1>3, <2>2, <2>3 DEF QueueGrows
<1>4. CASE ~row.deleted /\ s.prod \in {Nothing, row.rec}
  <2>1. t = [s EXCEPT !.prod = row.rec]
    BY <1>2, <1>4 DEF LandProduct
  <2>2. t \in Desks(n) /\ SameRound(s, t)
        /\ t.prod = row.rec /\ t.queue = s.queue /\ t.kept = s.kept /\ t.lot = s.lot
    BY <2>1 DEF Desks, SameRound
  <2>3. Consistent(s) => Consistent(t)
    BY <1>4, <2>2 DEF Consistent
  <2> QED BY <1>4, <2>2, <2>3 DEF QueueGrows
<1>5. CASE ~row.deleted /\ s.prod \notin {Nothing, row.rec} /\ row.rec < s.prod
  <2>1. t = TakenOver(s, row.rec, at, deferred)
    BY <1>2, <1>5 DEF LandProduct
  <2>2. s.prod \in Ids /\ s.prod # row.rec
    BY <1>1, <1>5
  <2>3. /\ t \in Desks(n) /\ SameRound(s, t) /\ QueueGrows(s, t)
        /\ t.prod = row.rec /\ t.kept = s.kept
        /\ ~deferred => \A x \in Lots : t.lot[x] = IF s.lot[x] = s.prod THEN Nothing
                                                   ELSE s.lot[x]
        /\ \A k \in Ids : t.queue[k] = IF k = s.prod THEN [at |-> at, deleted |-> TRUE]
                                       ELSE s.queue[k]
    BY <2>1, <2>2, TakenOverDoes
  <2>4. ~deferred /\ Consistent(s) => Consistent(t)
    BY <2>3 DEF Consistent
  <2> QED BY <1>5, <2>2, <2>3, <2>4
<1>6. CASE ~row.deleted /\ s.prod \notin {Nothing, row.rec} /\ ~(row.rec < s.prod)
  <2>1. t = s
    BY <1>2, <1>6 DEF LandProduct
  <2>2. s.prod \in Ids /\ s.prod \in Nat /\ row.rec \in Nat /\ s.prod # row.rec
    BY <1>1, <1>6
  <2>3. s.prod < row.rec
    BY <1>6, <2>2
  <2> QED BY <1>6, <2>1, <2>2, <2>3 DEF SameRound, QueueGrows
<1> QED BY <1>3, <1>4, <1>5, <1>6

(* A lot's row: it lands, or is put aside for want of its product.         *)
LEMMA LandLotDoes ==
    ASSUME NEW n \in Nat, NEW s \in Desks(n), NEW row \in Rows, row.rec \in Lots,
           NEW at, NEW deferred \in BOOLEAN,
           NEW t, t = Land(s, row, at, deferred)
    PROVE  /\ t \in Desks(n) /\ SameRound(s, t)
           /\ t.prod = s.prod /\ t.queue = s.queue
           /\ \A x \in Lots \ {row.rec} : t.kept[x] = s.kept[x] /\ t.lot[x] = s.lot[x]
           /\ \/ t.kept[row.rec] = Nothing
              \/ ~deferred /\ t.kept[row.rec] = row.to /\ row.to # s.prod
           /\ ~deferred /\ Consistent(s) => Consistent(t)
<1>1. t = LandLot(s, row, deferred)
  BY ApplyAssumption DEF Land
<1>2. CASE row.deleted \/ deferred \/ row.to = s.prod
  <2>1. t = [s EXCEPT !.lot[row.rec] = IF row.deleted THEN Nothing ELSE row.to,
                      !.kept[row.rec] = Nothing]
    BY <1>1, <1>2 DEF LandLot
  <2> DEFINE to == IF row.deleted THEN Nothing ELSE row.to
  <2>4. to \in Ids \cup {Nothing}
    BY DEF Rows
  <2>5. /\ t.prod = s.prod /\ t.queue = s.queue /\ SameRound(s, t)
        /\ t.lot = [s.lot EXCEPT ![row.rec] = to]
        /\ t.kept = [s.kept EXCEPT ![row.rec] = Nothing]
    BY <2>1 DEF Desks, SameRound
  <2> DEFINE lot == [s.lot EXCEPT ![row.rec] = to]
             kept == [s.kept EXCEPT ![row.rec] = Nothing]
  <2>7. lot \in [Lots -> Ids \cup {Nothing}] /\ kept \in [Lots -> Ids \cup {Nothing}]
    BY <2>4 DEF Desks
  <2>8. t = [s EXCEPT !.lot = lot, !.kept = kept]
    BY <2>1
  <2>6. t \in Desks(n)
    <3> HIDE DEF to, lot, kept
    <3> QED BY <2>7, <2>8 DEF Desks
  <2>2. /\ \A x \in Lots \ {row.rec} : t.kept[x] = s.kept[x] /\ t.lot[x] = s.lot[x]
        /\ t.kept[row.rec] = Nothing /\ t.lot[row.rec] = to
    BY <2>5 DEF Desks
  <2>3. ~deferred /\ Consistent(s) => Consistent(t)
    BY <1>2, <2>2, <2>5 DEF Consistent
  <2> QED BY <2>2, <2>3, <2>5, <2>6
<1>3. CASE ~(row.deleted \/ deferred \/ row.to = s.prod)
  <2>1. t = [s EXCEPT !.kept[row.rec] = row.to]
    BY <1>1, <1>3 DEF LandLot
  <2>2. /\ t \in Desks(n) /\ SameRound(s, t) /\ t.prod = s.prod /\ t.queue = s.queue
        /\ \A x \in Lots \ {row.rec} : t.kept[x] = s.kept[x] /\ t.lot[x] = s.lot[x]
        /\ t.kept[row.rec] = row.to /\ t.lot = s.lot
    BY <2>1 DEF Desks, SameRound, Rows
  <2>3. Consistent(s) => Consistent(t)
    BY <2>2 DEF Consistent
  <2> QED BY <1>3, <2>2, <2>3
<1> QED BY <1>2, <1>3

-----------------------------------------------------------------------------
(* Pages and the quarantine, as rows                                       *)

IsRows(rows) ==
    /\ DOMAIN rows \in SUBSET Nat /\ IsFiniteSet(DOMAIN rows)
    /\ \A i \in DOMAIN rows : rows[i] \in Rows

HandsOn(G, rows, at) ==
    \A deferred \in BOOLEAN : \A T \in SUBSET DOMAIN rows :
        \A i \in DOMAIN rows \ T : \A t \in G[T] :
            Land(t, rows[i], at, deferred) \in G[T \cup {i}]

(* A page that commits as a whole satisfies the foreign keys; row by row,  *)
(* every row does.  What holds of both walks holds of what is applied.     *)
LEMMA AppliedReaches ==
    ASSUME NEW s, NEW rows, IsRows(rows), NEW at, NEW G, s \in G[{}],
           HandsOn(G, rows, at)
    PROVE  Applied(s, rows, at) \in G[DOMAIN rows]
<1>1. \A deferred \in BOOLEAN : LandAll(s, rows, at, deferred) \in G[DOMAIN rows]
  BY LandAllReaches DEF IsRows, HandsOn
<1>2. Applied(s, rows, at) \in {LandAll(s, rows, at, TRUE), LandAll(s, rows, at, FALSE)}
  BY DEF Applied
<1> QED BY <1>1, <1>2

LEMMA AppliedKeeps ==
    ASSUME NEW s, NEW rows, IsRows(rows), NEW at, NEW G, s \in G,
           \A deferred \in BOOLEAN : \A i \in DOMAIN rows : \A t \in G :
               Land(t, rows[i], at, deferred) \in G
    PROVE  Applied(s, rows, at) \in G
<1>1. \A deferred \in BOOLEAN : LandAll(s, rows, at, deferred) \in G
  BY LandAllKeeps DEF IsRows
<1>2. Applied(s, rows, at) \in {LandAll(s, rows, at, TRUE), LandAll(s, rows, at, FALSE)}
  BY DEF Applied
<1> QED BY <1>1, <1>2

LEMMA RecordsFinite ==
    /\ IsFiniteSet(Records)
    /\ \A S \in SUBSET Records : IsFiniteSet(S)
    /\ \A S \in SUBSET Lots : IsFiniteSet(S)
    /\ Records # {}
<1>1. IsFiniteSet(Records) /\ Records # {}
  BY ApplyAssumption, FS_Union DEF Records
<1> QED BY <1>1, ApplyAssumption, FS_Subset

(* A page can be put in order, parents first, then by number.              *)
LEMMA PageInOrder ==
    ASSUME TypeInv, NEW page \in SUBSET Records
    PROVE  InOrder(page, AppliedBefore) \in SetToSeqs(page)
<1> DEFINE R == {p \in page \X page : AppliedBefore(p[1], p[2])}
           f == InOrder(page, AppliedBefore)
<1>1. \A x, y \in page : <<x, y>> \in R <=> AppliedBefore(x, y)
  OBVIOUS
<1>2. \A x \in page : log[x].seq \in Nat
  BY DEF TypeInv, LogRows
<1>9. \A x \in page : x \in Lots <=> x \notin Ids
  BY ApplyAssumption DEF Records
<1>3. \A x \in page : ~AppliedBefore(x, x)
  BY <1>2, <1>9 DEF AppliedBefore
<1>4. \A x, y, z \in page : AppliedBefore(x, y) /\ AppliedBefore(y, z) => AppliedBefore(x, z)
  <2> TAKE x, y, z \in page
  <2>1. log[x].seq \in Nat /\ log[y].seq \in Nat /\ log[z].seq \in Nat
    BY <1>2
  <2> QED BY <1>9, <2>1 DEF AppliedBefore
<1>5. \A g \in SetToSeqs(page) : \A i \in DOMAIN g : g[i] \in page
  BY DEF SetToSeqs
<1> HIDE DEF R
<1>6. f = CHOOSE g \in SetToSeqs(page) :
              \A i, j \in DOMAIN g : i < j => ~AppliedBefore(g[j], g[i])
  BY DEF InOrder
<1>7. PICK g : IsOrder(g, page, R)
  BY <1>1, <1>3, <1>4, RecordsFinite, OrderExists
<1>8. g \in SetToSeqs(page) /\ \A i, j \in DOMAIN g : i < j => ~AppliedBefore(g[j], g[i])
  BY <1>1, <1>5, <1>7 DEF IsOrder
<1>10. f \in SetToSeqs(page)
  <2> HIDE DEF f
  <2> QED BY <1>6, <1>8
<1> QED BY <1>10

(* Each record of a page once, as the relay has it.                        *)
LEMMA RowsOfPage ==
    ASSUME TypeInv, NEW page \in SUBSET Records, NEW rows, rows = RowsOf(page)
    PROVE  /\ IsRows(rows)
           /\ \A i \in DOMAIN rows : /\ rows[i].rec \in page
                                     /\ rows[i].deleted = log[rows[i].rec].deleted
           /\ \A r \in page : \E i \in DOMAIN rows : rows[i].rec = r
<1> DEFINE order == InOrder(page, AppliedBefore)
<1>1. order \in SetToSeqs(page) /\ IsFiniteSet(page)
  BY PageInOrder, RecordsFinite
<1>2. rows = [i \in DOMAIN order |-> [rec |-> order[i], deleted |-> log[order[i]].deleted,
                                      to |-> log[order[i]].to]]
  BY DEF RowsOf
<1> HIDE DEF order
<1>3. /\ DOMAIN order \in SUBSET Nat /\ IsFiniteSet(DOMAIN order)
      /\ \A i \in DOMAIN order : order[i] \in page
      /\ \A r \in page : \E i \in DOMAIN order : order[i] = r
  BY <1>1, Enumerates
<1>4. \A r \in page : log[r].deleted \in BOOLEAN /\ log[r].to \in Ids \cup {Nothing}
  BY DEF TypeInv, LogRows
<1>5. \A i \in DOMAIN rows : rows[i] \in Rows
  BY <1>2, <1>3, <1>4 DEF Rows
<1> QED BY <1>2, <1>3, <1>5 DEF IsRows

(* What is replayed: one live row for each lot that was put aside.         *)
AsideRows(s) == {[rec |-> x, deleted |-> FALSE, to |-> s.kept[x]] : x \in Aside(s)}

LEMMA RowsOfAside ==
    ASSUME NEW n \in Nat, NEW s \in Desks(n), NEW rows, rows = SetToSeq(AsideRows(s))
    PROVE  /\ IsRows(rows)
           /\ \A i \in DOMAIN rows : /\ rows[i].rec \in Aside(s) /\ rows[i].rec \in Lots
                                     /\ rows[i].to = s.kept[rows[i].rec]
           /\ \A i, j \in DOMAIN rows : rows[i].rec = rows[j].rec => i = j
           /\ \A x \in Aside(s) : \E i \in DOMAIN rows : rows[i].rec = x
<1> DEFINE A == Aside(s)
           S == AsideRows(s)
           row(x) == [rec |-> x, deleted |-> FALSE, to |-> s.kept[x]]
           h == [x \in A |-> row(x)]
<1>1. A \in SUBSET Lots /\ IsFiniteSet(A)
  BY RecordsFinite DEF Aside
<1>2. h \in Surjection(A, S)
  BY DEF Surjection, AsideRows
<1>3. IsFiniteSet(S)
  <2> HIDE DEF h, S, A
  <2> QED BY <1>1, <1>2, FS_Surjection
<1>4. rows \in SetToSeqs(S)
  <2> HIDE DEF S
  <2>1. ExistsBijection(1..Cardinality(S), S)
    BY <1>3, FS_CardinalityType
  <2>2. \E f \in [1..Cardinality(S) -> S] : IsInjective(f)
    BY <2>1 DEF ExistsBijection, Bijection, Injection
  <2>3. rows \in [1..Cardinality(S) -> S] /\ IsInjective(rows)
    BY <2>2 DEF SetToSeq, S
  <2> QED BY <2>3 DEF SetToSeqs, IsInjective
<1>10. \A x \in A : row(x) \in S /\ row(x) \in Rows /\ row(x).rec = x /\ row(x).to = s.kept[x]
  BY <1>1 DEF AsideRows, Rows, Desks, Records
<1>11. \A r \in S : \E x \in A : r = row(x)
  BY DEF AsideRows
<1> HIDE DEF row
<1>5. \A r \in S : r \in Rows /\ r.rec \in A /\ r.rec \in Lots /\ r.to = s.kept[r.rec]
  BY <1>1, <1>10, <1>11
<1>6. \A q, r \in S : q.rec = r.rec => q = r
  BY <1>10, <1>11
<1>7. \A x \in A : \E r \in S : r.rec = x
  BY <1>10
<1> HIDE DEF S, A
<1>8. /\ DOMAIN rows \in SUBSET Nat /\ IsFiniteSet(DOMAIN rows)
      /\ \A i \in DOMAIN rows : rows[i] \in S
      /\ \A i, j \in DOMAIN rows : rows[i] = rows[j] => i = j
      /\ \A x \in S : \E i \in DOMAIN rows : rows[i] = x
  BY <1>3, <1>4, Enumerates
<1>9. IsRows(rows)
  BY <1>5, <1>8 DEF IsRows
<1> QED BY <1>5, <1>6, <1>7, <1>8, <1>9 DEF A

-----------------------------------------------------------------------------
(* What a page, or the quarantine, does to a laptop                        *)

(* Either kind of row keeps the shape, the round and what is queued.       *)
LEMMA LandDoes ==
    ASSUME NEW n \in Nat, NEW s \in Desks(n), NEW row \in Rows, NEW at \in 1..n,
           NEW deferred \in BOOLEAN, NEW t, t = Land(s, row, at, deferred)
    PROVE  /\ t \in Desks(n) /\ SameRound(s, t) /\ QueueGrows(s, t)
           /\ ~deferred /\ Consistent(s) => Consistent(t)
<1>1. row.rec \in Ids \/ row.rec \in Lots
  BY DEF Rows, Records
<1>2. CASE row.rec \in Ids
  BY <1>2, LandProductDoes
<1>3. CASE row.rec \in Lots
  BY <1>3, LandLotDoes DEF QueueGrows
<1> QED BY <1>1, <1>2, <1>3

LEMMA AppliedDoes ==
    ASSUME NEW n \in Nat, NEW s \in Desks(n), NEW rows, IsRows(rows), NEW at \in 1..n,
           NEW t, t = Applied(s, rows, at)
    PROVE  /\ t \in Desks(n) /\ SameRound(s, t) /\ QueueGrows(s, t)
           /\ Consistent(s) => Consistent(t)
<1> DEFINE G == {u \in Desks(n) : SameRound(s, u) /\ QueueGrows(s, u)}
           H == {u \in Desks(n) : Consistent(u)}
<1>1. s \in G
  BY DEF SameRound, QueueGrows
<1>2. ASSUME NEW deferred \in BOOLEAN, NEW i \in DOMAIN rows, NEW u \in G
      PROVE  Land(u, rows[i], at, deferred) \in G
  <2> DEFINE v == Land(u, rows[i], at, deferred)
  <2>1. v \in Desks(n) /\ SameRound(u, v) /\ QueueGrows(u, v)
    BY LandDoes DEF IsRows
  <2>2. SameRound(s, u) /\ QueueGrows(s, u)
    OBVIOUS
  <2> HIDE DEF v
  <2>3. SameRound(s, v) /\ QueueGrows(s, v)
    BY <2>1, <2>2 DEF SameRound, QueueGrows
  <2> QED BY <2>1, <2>3 DEF v
<1>3. t \in G
  <2> HIDE DEF G
  <2> QED BY <1>1, <1>2, AppliedKeeps
<1>4. ASSUME Consistent(s) PROVE Consistent(t)
  <2>1. s \in H
    BY <1>4
  <2>2. ASSUME NEW deferred \in BOOLEAN, ~deferred
        PROVE  LandAll(s, rows, at, deferred) \in H
    <3>1. \A i \in DOMAIN rows : \A u \in H : Land(u, rows[i], at, deferred) \in H
      BY <2>2, LandDoes DEF IsRows
    <3> HIDE DEF H
    <3> QED BY <2>1, <3>1, LandAllKeeps DEF IsRows
  <2>3. \A d \in BOOLEAN : ~d => LandAll(s, rows, at, d) \in H
    BY <2>2
  <2>4. LandAll(s, rows, at, FALSE) \in H
    BY <2>3
  <2> QED BY <2>4 DEF Applied
<1> QED BY <1>3, <1>4

(* Lots alone leave the product and the queue as they are.                 *)
LEMMA LotsApplied ==
    ASSUME NEW n \in Nat, NEW s \in Desks(n), NEW rows, IsRows(rows),
           \A i \in DOMAIN rows : rows[i].rec \in Lots,
           NEW at \in 1..n, NEW t, t = Applied(s, rows, at)
    PROVE  t.prod = s.prod /\ t.queue = s.queue
<1> DEFINE G == {u \in Desks(n) : u.prod = s.prod /\ u.queue = s.queue}
<1>1. ASSUME NEW deferred \in BOOLEAN, NEW i \in DOMAIN rows, NEW u \in G
      PROVE  Land(u, rows[i], at, deferred) \in G
  BY LandLotDoes DEF IsRows
<1>2. s \in G
  OBVIOUS
<1>3. t \in G
  <2> HIDE DEF G
  <2> QED BY <1>1, <1>2, AppliedKeeps
<1> QED BY <1>3

(* The replay of the quarantine.                                           *)
LEMMA ReplayedDoes ==
    ASSUME NEW n \in Nat, NEW s \in Desks(n), Consistent(s), NEW at \in 1..n,
           NEW t, t = Replayed(s, at)
    PROVE  /\ t \in Desks(n) /\ SameRound(s, t) /\ Consistent(t)
           /\ t.prod = s.prod /\ t.queue = s.queue
<1> DEFINE rows == SetToSeq(AsideRows(s))
<1>1. IsRows(rows) /\ \A i \in DOMAIN rows : rows[i].rec \in Lots
  BY RowsOfAside
<1>2. t = Applied(s, rows, at)
  BY DEF Replayed, AsideRows
<1> HIDE DEF rows
<1> QED BY <1>1, <1>2, AppliedDoes, LotsApplied

-----------------------------------------------------------------------------
(* The numbers of the relay                                                *)

LEMMA GreatestSeq ==
    ASSUME TypeInv, NEW S \in SUBSET Records, S # {}
    PROVE  \E n \in {log[r].seq : r \in S} : \A r \in S : log[r].seq <= n
<1> DEFINE T == {log[r].seq : r \in S}
           f == [r \in S |-> log[r].seq]
<1>1. T \in SUBSET Nat /\ T # {}
  BY DEF TypeInv, LogRows
<1>2. f \in Surjection(S, T)
  BY DEF Surjection
<1>3. IsFiniteSet(T)
  <2> HIDE DEF f, T
  <2> QED BY <1>2, RecordsFinite, FS_Surjection
<1>4. PICK n \in T : \A k \in T : n >= k
  <2> HIDE DEF T
  <2> QED BY <1>1, <1>3, GreatestNumber
<1>5. \A r \in S : log[r].seq \in T
  OBVIOUS
<1>6. \A r \in S : log[r].seq <= n
  <2> HIDE DEF T
  <2> QED BY <1>1, <1>4, <1>5
<1> QED BY <1>4, <1>6

LEMMA NewestIs ==
    ASSUME TypeInv
    PROVE  /\ Newest \in Nat
           /\ \A r \in Records : log[r].seq <= Newest
           /\ \E r \in Records : log[r].seq = Newest
<1> DEFINE T == {log[r].seq : r \in Records}
<1>1. \E n \in T : \A r \in Records : log[r].seq <= n
  BY GreatestSeq, RecordsFinite
<1>2. \E n \in T : \A k \in T : k <= n
  BY <1>1
<1>3. Newest = CHOOSE n \in T : \A k \in T : k <= n
  BY DEF Newest
<1>4. Newest \in T /\ \A k \in T : k <= Newest
  <2> HIDE DEF T
  <2> QED BY <1>2, <1>3
<1> QED BY <1>4 DEF TypeInv, LogRows

(* A page is the first of the news: nothing up to its end is left out.     *)
LEMMA PageIs ==
    ASSUME TypeInv, NEW l \in Laptops
    PROVE  /\ PageFor(l) \in SUBSET NewsFor(l) /\ NewsFor(l) \in SUBSET Records
           /\ PageEnd(l) \in Nat /\ PageEnd(l) <= Newest
           /\ \A r \in NewsFor(l) : log[r].seq <= PageEnd(l) => r \in PageFor(l)
<1> DEFINE N == NewsFor(l)
           P == PageFor(l)
           upto(r) == {q \in N : log[q].seq <= log[r].seq}
<1>1. P \in SUBSET N /\ N \in SUBSET Records
  BY DEF PageFor, NewsFor
<1>2. \A r \in Records : log[r].seq \in Nat
  BY DEF TypeInv, LogRows
<1>3. \A r \in N : r \in P <=> Cardinality(upto(r)) <= PageSize
  BY DEF PageFor
<1>4. \A r \in Records : IsFiniteSet(upto(r)) /\ Cardinality(upto(r)) \in Nat
  <2> TAKE r \in Records
  <2>1. upto(r) \in SUBSET Records
    BY <1>1
  <2> QED BY <2>1, RecordsFinite, FS_CardinalityType
<1>5. CASE P = {}
  <2>1. N = {}
    <3> SUFFICES ASSUME N # {} PROVE FALSE
      OBVIOUS
    <3> DEFINE T == {log[r].seq : r \in N}
    <3>1. T \in SUBSET Nat /\ T # {}
      BY <1>1, <1>2
    <3>2. PICK n \in T : \A k \in T : n <= k
      <4> HIDE DEF T
      <4> QED BY <3>1, LeastNumber
    <3>3. PICK r \in N : log[r].seq = n
      OBVIOUS
    <3>4. \A q \in N : log[r].seq <= log[q].seq
      BY <3>2, <3>3
    <3>5. upto(r) = {r}
      <4>1. log[r].seq > desk[l].cursor /\ desk[l].cursor \in Nat
        BY DEF NewsFor, TypeInv, Desks
      <4>2. log[r].seq # 0 /\ r \in Records
        BY <1>1, <1>2, <4>1
      <4>3. \A q \in N : log[q].seq <= log[r].seq => q = r
        <5> TAKE q \in N
        <5>1. q \in Records
          BY <1>1
        <5>2. log[q].seq \in Nat /\ log[r].seq \in Nat
          BY <1>2, <4>2, <5>1
        <5> QED BY <3>4, <4>2, <5>1, <5>2 DEF TypeInv
      <4>4. log[r].seq <= log[r].seq
        BY <1>2, <4>2
      <4> QED BY <4>3, <4>4
    <3>6. Cardinality(upto(r)) = 1
      BY <3>5, FS_Singleton
    <3> QED BY <1>3, <1>5, <3>6, ApplyAssumption
  <2>2. PageEnd(l) = Newest
    BY <1>5 DEF PageEnd
  <2> QED BY <1>1, <2>1, <2>2, NewestIs
<1>6. CASE P # {}
  <2> DEFINE T == {log[r].seq : r \in P}
  <2>1. P \in SUBSET Records
    BY <1>1
  <2>2. \E n \in T : \A r \in P : log[r].seq <= n
    <3> HIDE DEF P
    <3> QED BY <1>6, <2>1, GreatestSeq
  <2>3. PageEnd(l) = CHOOSE n \in T : \A r \in P : log[r].seq <= n
    BY <1>6 DEF PageEnd
  <2>4. PageEnd(l) \in T
    <3> HIDE DEF T, P
    <3> QED BY <2>2, <2>3
  <2>5. PICK p \in P : log[p].seq = PageEnd(l)
    BY <2>4
  <2>6. PageEnd(l) \in Nat /\ PageEnd(l) <= Newest
    BY <1>2, <2>1, <2>5, NewestIs
  <2>7. ASSUME NEW r \in N, log[r].seq <= PageEnd(l) PROVE r \in P
    <3>1. upto(r) \in SUBSET upto(p)
      <4>1. \A q \in N : log[q].seq \in Nat
        BY <1>1, <1>2
      <4>2. p \in N
        BY <1>1
      <4> QED BY <2>5, <2>7, <4>1, <4>2
    <3>2. r \in Records /\ p \in Records /\ p \in N
      BY <1>1, <2>1
    <3>3. Cardinality(upto(r)) <= Cardinality(upto(p))
      <4>1. IsFiniteSet(upto(p))
        BY <1>4, <3>2
      <4> HIDE DEF upto
      <4> QED BY <3>1, <4>1, FS_Subset
    <3>4. Cardinality(upto(p)) <= PageSize
      BY <1>3, <3>2
    <3>5. Cardinality(upto(r)) \in Nat /\ Cardinality(upto(p)) \in Nat
      BY <1>4, <3>2
    <3> HIDE DEF upto, P, N
    <3> QED BY <1>3, <3>3, <3>4, <3>5, ApplyAssumption
  <2> QED BY <1>1, <2>6, <2>7
<1> QED BY <1>5, <1>6

-----------------------------------------------------------------------------
(* What a laptop is after a page                                           *)

LEMMA DesksGrow ==
    ASSUME NEW n \in Nat, NEW k \in Nat, n <= k
    PROVE  Desks(n) \subseteq Desks(k)
<1>1. 0..n \subseteq 0..k
  OBVIOUS
<1>2. [at : 0..n, deleted : BOOLEAN] \subseteq [at : 0..k, deleted : BOOLEAN]
  BY <1>1
<1>3. [Records -> [at : 0..n, deleted : BOOLEAN]]
          \subseteq [Records -> [at : 0..k, deleted : BOOLEAN]]
  <2> DEFINE A == [at : 0..n, deleted : BOOLEAN]
             B == [at : 0..k, deleted : BOOLEAN]
  <2>1. A \subseteq B
    BY <1>2
  <2> HIDE DEF A, B
  <2>2. [Records -> A] \subseteq [Records -> B]
    BY <2>1
  <2> QED BY <2>2 DEF A, B
<1> DEFINE Q == [Records -> [at : 0..n, deleted : BOOLEAN]]
           R == [Records -> [at : 0..k, deleted : BOOLEAN]]
<1>4. Q \subseteq R
  BY <1>3
<1> QED
  <2> SUFFICES ASSUME NEW s \in Desks(n) PROVE s \in Desks(k)
    OBVIOUS
  <2>1. s \in [prod : Ids \cup {Nothing}, lot : [Lots -> Ids \cup {Nothing}], queue : Q,
               kept : [Lots -> Ids \cup {Nothing}], cursor : Nat,
               stage : Stages, staffed : BOOLEAN, published : BOOLEAN]
    BY DEF Desks
  <2> HIDE DEF Q, R
  <2>2. s \in [prod : Ids \cup {Nothing}, lot : [Lots -> Ids \cup {Nothing}], queue : R,
               kept : [Lots -> Ids \cup {Nothing}], cursor : Nat,
               stage : Stages, staffed : BOOLEAN, published : BOOLEAN]
    BY <1>4, <2>1
  <2> QED BY <2>2 DEF Desks, R

(* The page of a laptop, landed in its database.                           *)
LandedPage(l) == Applied(desk[l], RowsOf(PageFor(l)), now + 1)

LEMMA PageRows ==
    ASSUME TypeInv, NEW l \in Laptops, NEW rows, rows = RowsOf(PageFor(l))
    PROVE  /\ now + 1 \in Nat /\ now + 1 \in 1..(now + 1)
           /\ desk[l] \in Desks(now + 1)
           /\ IsRows(rows)
           /\ \A i \in DOMAIN rows : /\ rows[i].rec \in PageFor(l)
                                     /\ rows[i].deleted = log[rows[i].rec].deleted
           /\ \A r \in PageFor(l) : InLog(r) /\ \E i \in DOMAIN rows : rows[i].rec = r
<1>1. /\ now + 1 \in Nat /\ now + 1 \in 1..(now + 1) /\ now \in Nat /\ now <= now + 1
      /\ desk[l] \in Desks(now)
  BY DEF TypeInv
<1>2. desk[l] \in Desks(now + 1)
  BY <1>1, DesksGrow
<1>3. PageFor(l) \in SUBSET NewsFor(l) /\ PageFor(l) \in SUBSET Records
  BY PageIs
<1>4. \A r \in PageFor(l) : InLog(r)
  <2> TAKE r \in PageFor(l)
  <2>1. log[r].seq > desk[l].cursor
    BY <1>3 DEF NewsFor
  <2>2. log[r].seq \in Nat /\ desk[l].cursor \in Nat
    BY <1>1, <1>3 DEF TypeInv, LogRows, Desks
  <2> QED BY <2>1, <2>2 DEF InLog
<1> QED BY <1>1, <1>2, <1>3, <1>4, RowsOfPage

LEMMA PageLands ==
    ASSUME TypeInv, NEW l \in Laptops, NEW t, t = LandedPage(l)
    PROVE  /\ t \in Desks(now + 1) /\ SameRound(desk[l], t) /\ QueueGrows(desk[l], t)
           /\ Consistent(t)
           /\ PageFor(l) = {} => t.prod = desk[l].prod /\ t.queue = desk[l].queue
<1> DEFINE rows == RowsOf(PageFor(l))
<1>1. /\ now + 1 \in Nat /\ now + 1 \in 1..(now + 1)
      /\ desk[l] \in Desks(now + 1)
      /\ IsRows(rows)
      /\ \A i \in DOMAIN rows : rows[i].rec \in PageFor(l)
  BY PageRows
<1>2. t = Applied(desk[l], rows, now + 1)
  BY DEF LandedPage
<1>3. Consistent(desk[l])
  BY DEF TypeInv
<1> HIDE DEF rows
<1>4. PageFor(l) = {} => \A i \in DOMAIN rows : rows[i].rec \in Lots
  BY <1>1
<1> QED BY <1>1, <1>2, <1>3, <1>4, AppliedDoes, LotsApplied

(* What a row makes of the product's id, as the smallest id sees it.       *)
LEMMA ProdAfter ==
    ASSUME NEW n \in Nat, NEW s \in Desks(n), NEW row \in Rows,
           NEW at \in 1..n, NEW deferred \in BOOLEAN,
           NEW t, t = Land(s, row, at, deferred)
    PROVE  /\ t \in Desks(n)
           /\ t.prod \in {Nothing, s.prod, row.rec}
           /\ \A m \in Ids :
                  /\ row.rec \in Ids => m <= row.rec
                  /\ row.rec = m => ~row.deleted
                  /\ s.prod \in 1..m \/ row.rec = m
                  => t.prod \in 1..m
<1>1. /\ s.prod \in Ids \cup {Nothing} /\ Ids \subseteq Nat \ {0} /\ Ids \cap Lots = {}
      /\ row.rec \in Ids \cup Lots /\ Nothing = 0
  BY ApplyAssumption DEF Desks, Rows, Records, Nothing
<1>2. CASE row.rec \in Lots
  <2>1. t \in Desks(n) /\ t.prod = s.prod
    BY <1>2, LandLotDoes
  <2>2. \A m \in Ids : row.rec # m
    BY <1>1, <1>2
  <2> QED BY <2>1, <2>2
<1>3. CASE row.rec \in Ids
  <2>1. t \in Desks(n) /\ t = LandProduct(s, row, at, deferred)
    BY <1>3, LandProductDoes DEF Land
  <2>2. s.prod \in Nat /\ row.rec \in Nat \ {0} /\ \A k \in Ids : k \in Nat \ {0}
    <3>1. \A k \in Ids : k \in Nat \ {0}
      BY <1>1
    <3>2. s.prod \in Ids \/ s.prod = 0
      BY <1>1
    <3> QED BY <1>3, <3>1, <3>2
  <2>3. CASE row.deleted
    <3>1. t.prod = IF s.prod = row.rec THEN Nothing ELSE s.prod
      BY <2>1, <2>3, BuriedDoes DEF LandProduct
    <3>2. ASSUME NEW m \in Ids, m <= row.rec, row.rec # m, s.prod \in 1..m
          PROVE  t.prod \in 1..m
      BY <2>2, <3>1, <3>2
    <3> QED BY <1>3, <2>1, <2>3, <3>1, <3>2
  <2>4. CASE ~row.deleted /\ s.prod \in {Nothing, row.rec}
    <3>1. t.prod = row.rec
      BY <2>1, <2>4 DEF LandProduct, Desks
    <3>2. ASSUME NEW m \in Ids, m <= row.rec, s.prod \in 1..m \/ row.rec = m
          PROVE  row.rec \in 1..m
      BY <1>1, <2>2, <2>4, <3>2
    <3> QED BY <1>3, <2>1, <3>1, <3>2
  <2>5. CASE ~row.deleted /\ s.prod \notin {Nothing, row.rec} /\ row.rec < s.prod
    <3>1. t.prod = row.rec
      <4>1. PICK id \in Ids : id = row.rec
        BY <1>3
      <4>2. t = TakenOver(s, id, at, deferred)
        BY <2>1, <2>5, <4>1 DEF LandProduct
      <4>3. s.prod \in Ids /\ s.prod # id
        BY <1>1, <2>5, <4>1
      <4>4. /\ t \in Desks(n) /\ SameRound(s, t) /\ QueueGrows(s, t)
            /\ t.prod = id /\ t.kept = s.kept
            /\ \A k \in Ids : t.queue[k] = IF k = s.prod THEN [at |-> at, deleted |-> TRUE]
                                           ELSE s.queue[k]
        BY <4>2, <4>3, TakenOverDoes
      <4> QED BY <4>1, <4>4
    <3>2. ASSUME NEW m \in Ids, s.prod \in 1..m \/ row.rec = m
          PROVE  row.rec \in 1..m
      BY <2>2, <2>5, <3>2
    <3> QED BY <2>1, <3>1, <3>2
  <2>6. CASE ~row.deleted /\ s.prod \notin {Nothing, row.rec} /\ ~(row.rec < s.prod)
    <3>1. t = s
      BY <2>1, <2>6 DEF LandProduct
    <3>2. ASSUME NEW m \in Ids, s.prod \in 1..m \/ row.rec = m
          PROVE  s.prod \in 1..m
      BY <1>1, <2>2, <2>6, <3>2
    <3> QED BY <2>1, <3>1, <3>2
  <2> QED BY <2>3, <2>4, <2>5, <2>6
<1> QED BY <1>1, <1>2, <1>3

(* Whose death a page makes a laptop announce has a smaller twin; the      *)
(* smallest id stays, and is there if the page has it; what is there now   *)
(* was there before or is on the relay.                                    *)
LEMMA PageIds ==
    ASSUME TypeInv, RelayInv, NEW l \in Laptops, HeirsAt(desk[l]), NEW t, t = LandedPage(l)
    PROVE  /\ HeirsAt(t)
           /\ \A m \in Ids : IsLeast(m) /\ (desk[l].prod \in 1..m \/ m \in PageFor(l)) =>
                  t.prod \in 1..m
           /\ t.prod \in {Nothing, desk[l].prod} \/ InLog(t.prod)
<1> DEFINE rows == RowsOf(PageFor(l))
           n == now + 1
<1>1. /\ n \in Nat /\ n \in 1..n
      /\ desk[l] \in Desks(n)
      /\ IsRows(rows)
      /\ \A i \in DOMAIN rows : /\ rows[i].rec \in PageFor(l)
                                /\ rows[i].deleted = log[rows[i].rec].deleted
      /\ \A r \in PageFor(l) : InLog(r) /\ \E i \in DOMAIN rows : rows[i].rec = r
  BY PageRows
<1>2. t = Applied(desk[l], rows, n)
  BY DEF LandedPage
<1> HIDE DEF rows, n
<1>3. \A i \in DOMAIN rows : rows[i] \in Rows /\ (rows[i].rec \in Ids \/ rows[i].rec \in Lots)
  BY <1>1 DEF IsRows, Rows, Records
<1>4. \A i \in DOMAIN rows : /\ InLog(rows[i].rec)
                             /\ rows[i].rec \in Ids /\ rows[i].deleted => Beaten(rows[i].rec)
  BY <1>1 DEF HeirsAt, RelayInv
<1>5. \A id \in DyingAt(t) : Beaten(id)
  <2> DEFINE G == {u \in Desks(n) : \A id \in DyingAt(u) : Beaten(id)}
  <2>1. desk[l] \in G
    BY <1>1 DEF HeirsAt, RelayInv
  <2>2. ASSUME NEW deferred \in BOOLEAN, NEW i \in DOMAIN rows, NEW u \in G
        PROVE  Land(u, rows[i], n, deferred) \in G
    <3> DEFINE v == Land(u, rows[i], n, deferred)
               row == rows[i]
    <3>1. u \in Desks(n) /\ \A id \in DyingAt(u) : Beaten(id)
      OBVIOUS
    <3>2. row \in Rows /\ InLog(row.rec) /\ (row.rec \in Ids /\ row.deleted => Beaten(row.rec))
      BY <1>3, <1>4
    <3> HIDE DEF row, G
    <3>3. v = Land(u, row, n, deferred)
      BY DEF row
    <3> HIDE DEF v
    <3>4. CASE row.rec \in Lots
      <4>1. v \in Desks(n) /\ v.prod = u.prod /\ v.queue = u.queue
        BY <1>1, <3>1, <3>2, <3>3, <3>4, LandLotDoes
      <4>2. DyingAt(v) = DyingAt(u)
        BY <4>1 DEF DyingAt
      <4> QED BY <3>1, <4>1, <4>2 DEF G, v
    <3>5. CASE row.rec \in Ids
      <4>1. /\ v \in Desks(n)
            /\ \/ /\ row.deleted
                  /\ v.prod = IF u.prod = row.rec THEN Nothing ELSE u.prod
                  /\ v.queue = u.queue
               \/ /\ ~row.deleted /\ u.prod \in {Nothing, row.rec}
                  /\ v.prod = row.rec /\ v.queue = u.queue
               \/ /\ ~row.deleted /\ u.prod \in Ids /\ row.rec < u.prod
                  /\ v.prod = row.rec
                  /\ \A k \in Ids : v.queue[k] = IF k = u.prod
                                                 THEN [at |-> n, deleted |-> TRUE]
                                                 ELSE u.queue[k]
               \/ v = u
        BY <1>1, <3>1, <3>2, <3>3, <3>5, LandProductDoes
      <4>2. ASSUME NEW id \in DyingAt(v) PROVE Beaten(id)
        <5>1. id \in Ids /\ v.queue[id].at # 0 /\ (v.queue[id].deleted \/ v.prod # id)
          BY DEF DyingAt
        <5>2. id \in Ids /\ u.queue[id].at # 0 /\ (u.queue[id].deleted \/ u.prod # id)
              => Beaten(id)
          BY <3>1 DEF DyingAt
        <5>3. Nothing \notin Ids
          BY ApplyAssumption DEF Nothing
        <5>4. u.prod \in Ids /\ row.rec < u.prod => Beaten(u.prod)
          BY <3>2, <3>5 DEF Beaten
        <5> QED BY <3>2, <4>1, <5>1, <5>2, <5>3, <5>4
      <4> QED BY <4>1, <4>2 DEF G, v
    <3> QED BY <1>3, <3>4, <3>5 DEF row
  <2>3. t \in G
    <3> HIDE DEF G
    <3> QED BY <1>1, <1>2, <2>1, <2>2, AppliedKeeps
  <2> QED BY <2>3
<1>6. ASSUME NEW m \in Ids, IsLeast(m), desk[l].prod \in 1..m \/ m \in PageFor(l)
      PROVE  t.prod \in 1..m
  <2> DEFINE D == DOMAIN rows
             Due(T) == desk[l].prod \in 1..m \/ \E i \in T : rows[i].rec = m
             G == [T \in SUBSET D |-> {u \in Desks(n) : Due(T) => u.prod \in 1..m}]
  <2>1. desk[l] \in G[{}]
    BY <1>1
  <2>2. ASSUME NEW deferred \in BOOLEAN, NEW T \in SUBSET D, NEW i \in D \ T, NEW u \in G[T]
        PROVE  Land(u, rows[i], n, deferred) \in G[T \cup {i}]
    <3>1. u \in Desks(n) /\ (Due(T) => u.prod \in 1..m) /\ T \cup {i} \in SUBSET D
      OBVIOUS
    <3>2. PICK row : row = rows[i]
      OBVIOUS
    <3>3. PICK v : v = Land(u, row, n, deferred)
      OBVIOUS
    <3>4. row \in Rows /\ InLog(row.rec) /\ (row.rec \in Ids /\ row.deleted => Beaten(row.rec))
      BY <1>3, <1>4, <3>2
    <3>5. Due(T \cup {i}) => Due(T) \/ row.rec = m
      BY <3>2
    <3> HIDE DEF Due, G
    <3>6. row.rec \in Ids => m <= row.rec
      <4>1. row.rec \in Ids => ~(row.rec < m)
        BY <1>6, <3>4 DEF IsLeast, Beaten
      <4>2. row.rec \in Ids => row.rec \in Nat /\ m \in Nat
        BY ApplyAssumption
      <4> QED BY <4>1, <4>2
    <3>7. row.rec = m => ~row.deleted
      BY <1>6, <3>4 DEF IsLeast
    <3>8. v \in Desks(n) /\ (u.prod \in 1..m \/ row.rec = m => v.prod \in 1..m)
      BY <1>1, <3>1, <3>3, <3>4, <3>6, <3>7, ProdAfter
    <3>9. Due(T \cup {i}) => v.prod \in 1..m
      BY <3>1, <3>5, <3>8
    <3>10. v \in G[T \cup {i}]
      BY <3>1, <3>8, <3>9 DEF G
    <3> QED BY <3>2, <3>3, <3>10
  <2>5. HandsOn(G, rows, n)
    <3> HIDE DEF G
    <3> QED BY <2>2 DEF HandsOn
  <2>3. t \in G[DOMAIN rows]
    <3> HIDE DEF G, D
    <3> QED BY <1>1, <1>2, <2>1, <2>5, AppliedReaches
  <2>4. m \in PageFor(l) => \E i \in D : rows[i].rec = m
    BY <1>1
  <2> QED BY <1>6, <2>3, <2>4
<1>7. t.prod \in {Nothing, desk[l].prod} \/ InLog(t.prod)
  <2> DEFINE G == {u \in Desks(n) : u.prod \in {Nothing, desk[l].prod} \/ InLog(u.prod)}
  <2>1. desk[l] \in G
    BY <1>1
  <2>2. ASSUME NEW deferred \in BOOLEAN, NEW i \in DOMAIN rows, NEW u \in G
        PROVE  Land(u, rows[i], n, deferred) \in G
    <3>1. PICK row : row = rows[i]
      OBVIOUS
    <3>2. PICK v : v = Land(u, row, n, deferred)
      OBVIOUS
    <3>3. row \in Rows /\ InLog(row.rec) /\ u \in Desks(n)
      BY <1>3, <1>4, <3>1
    <3>4. v \in Desks(n) /\ v.prod \in {Nothing, u.prod, row.rec}
      BY <1>1, <3>2, <3>3, ProdAfter
    <3>5. v \in G
      BY <3>3, <3>4
    <3> QED BY <3>1, <3>2, <3>5
  <2>3. t \in G
    <3> HIDE DEF G
    <3> QED BY <1>1, <1>2, <2>1, <2>2, AppliedKeeps
  <2> QED BY <2>3
<1> QED BY <1>5, <1>6, <1>7 DEF HeirsAt

-----------------------------------------------------------------------------
(* One laptop changes, and the relay does not                              *)

LEMMA LogGrows ==
    ASSUME NEW n \in Nat, NEW k \in Nat, n <= k
    PROVE  LogRows(n) \subseteq LogRows(k)
<1>1. 0..n \subseteq 0..k
  OBVIOUS
<1> QED BY <1>1 DEF LogRows

LEMMA TypeKept ==
    ASSUME TypeInv, NEW l \in Laptops, NEW t,
           desk' = [desk EXCEPT ![l] = t], log' = log, now' \in Nat, now <= now',
           t \in Desks(now'), Consistent(t), t.cursor <= Newest
    PROVE  TypeInv'
<1>1. now \in Nat
  BY DEF TypeInv
<1> DEFINE D == Desks(now')
<1>2. \A k \in Laptops : desk[k] \in Desks(now) /\ desk[k] \in D
  <2>1. Desks(now) \subseteq D
    BY <1>1, DesksGrow
  <2>2. \A k \in Laptops : desk[k] \in Desks(now)
    BY DEF TypeInv
  <2> QED BY <2>1, <2>2
<1>3. desk \in [Laptops -> Desks(now)] /\ \A k \in Laptops : desk'[k] = IF k = l THEN t ELSE desk[k]
  BY DEF TypeInv
<1>4. desk' \in [Laptops -> D]
  <2>1. t \in D
    OBVIOUS
  <2> HIDE DEF D
  <2> QED BY <1>2, <1>3, <2>1
<1>5. log' \in [Records -> LogRows(now')]
  <2> DEFINE A == LogRows(now)
             B == LogRows(now')
  <2>1. A \subseteq B
    BY <1>1, LogGrows
  <2>2. log \in [Records -> A]
    BY DEF TypeInv
  <2> HIDE DEF A, B
  <2>3. log' \in [Records -> B]
    BY <2>1, <2>2
  <2> QED BY <2>3 DEF B
<1>6. Newest' = Newest
  BY DEF Newest
<1>7. \A k \in Laptops : Consistent(desk'[k]) /\ desk'[k].cursor <= Newest'
  BY <1>3, <1>6 DEF TypeInv
<1>8. /\ \A q, r \in Records : log'[q].seq = log'[r].seq /\ log'[q].seq # 0 => q = r
      /\ \A r \in Records : log'[r].seq = 0 => log'[r] = NoRow
  BY DEF TypeInv
<1>9. \A k \in Laptops : Consistent(desk[k])' /\ (desk[k].cursor <= Newest)'
  BY <1>7 DEF Consistent
<1> QED BY <1>4, <1>5, <1>8, <1>9 DEF TypeInv

LEMMA IdsKept ==
    ASSUME IdsInv, desk \in [Laptops -> Desks(now)], NEW l \in Laptops, NEW t,
           desk' = [desk EXCEPT ![l] = t], log' = log, DeskInv(l, t)
    PROVE  IdsInv'
<1>1. RelayInv'
  BY DEF IdsInv, RelayInv, Beaten, InLog, Published
<1>2. ASSUME NEW k \in Laptops PROVE DeskInv(k, desk[k])'
  <2>1. DeskInv(k, desk'[k])
    BY <1>2 DEF IdsInv
  <2> QED BY <2>1 DEF DeskInv, HeirsAt, DyingAt, SeenAt, LotsAt, HeardAt, SilentAt, Unheard,
                      IsLeast, Beaten, InLog, Published, Pending, IsBlank
<1> QED BY <1>1, <1>2 DEF IdsInv

(* Where a round is matters little.                                        *)
LEMMA StageOnly ==
    ASSUME NEW n \in Nat, NEW s \in Desks(n), NEW stage \in Stages, NEW cursor \in Nat,
           NEW published \in BOOLEAN, NEW staffed \in BOOLEAN,
           NEW t, t = [s EXCEPT !.stage = stage, !.cursor = cursor,
                                !.published = published, !.staffed = staffed]
    PROVE  /\ t \in Desks(n)
           /\ t.prod = s.prod /\ t.lot = s.lot /\ t.queue = s.queue /\ t.kept = s.kept
           /\ t.cursor = cursor /\ t.stage = stage
           /\ t.published = published /\ t.staffed = staffed
           /\ Pending(t) = Pending(s) /\ DyingAt(t) = DyingAt(s)
           /\ Consistent(s) => Consistent(t)
<1>1. /\ t \in Desks(n)
      /\ t.prod = s.prod /\ t.lot = s.lot /\ t.queue = s.queue /\ t.kept = s.kept
      /\ t.cursor = cursor /\ t.stage = stage
      /\ t.published = published /\ t.staffed = staffed
  BY DEF Desks
<1> QED BY <1>1 DEF Pending, DyingAt, Consistent

-----------------------------------------------------------------------------
(* The steps of a round that fetch nothing                                 *)

LEMMA FreshIs ==
    ASSUME NEW l, NEW seed \in Ids \cup {Nothing}, NEW s, s = Fresh(l, seed)
    PROVE  /\ s \in Desks(0)
           /\ s.prod = seed /\ s.cursor = 0 /\ s.stage = "idle"
           /\ s.lot = [x \in Lots |-> Nothing] /\ s.queue = [r \in Records |-> Idle]
           /\ s.staffed <=> l \in Staffed
           /\ s.published <=> l \notin Newcomers
<1>1. s \in Desks(0)
  BY DEF Fresh, Desks, Stages, Idle
<1> QED BY <1>1 DEF Fresh

LEMMA InitApply == Init => ApplyInv
<1> SUFFICES ASSUME Init PROVE ApplyInv
  OBVIOUS
<1>1. \A r \in Records : log[r] = NoRow /\ ~InLog(r)
  BY DEF Init, InLog, NoRow
<1>2. \A l \in Laptops : desk[l] = Fresh(l, IF l \in Newcomers THEN Seed[l] ELSE Nothing)
  BY DEF Init
<1>4. \A l \in Newcomers : Seed[l] \in Ids
  BY ApplyAssumption
<1>5. \A l \in Laptops : /\ desk[l] \in Desks(0)
                         /\ desk[l].cursor = 0 /\ desk[l].stage = "idle"
                         /\ desk[l].prod = IF l \in Newcomers THEN Seed[l] ELSE Nothing
                         /\ desk[l].lot = [x \in Lots |-> Nothing]
                         /\ desk[l].queue = [r \in Records |-> Idle]
                         /\ desk[l].staffed <=> l \in Staffed
                         /\ desk[l].published <=> l \notin Newcomers
  <2> TAKE l \in Laptops
  <2> DEFINE seed == IF l \in Newcomers THEN Seed[l] ELSE Nothing
  <2>1. seed \in Ids \cup {Nothing} /\ desk[l] = Fresh(l, seed)
    BY <1>2, <1>4
  <2> HIDE DEF seed
  <2>2. /\ desk[l] \in Desks(0)
        /\ desk[l].cursor = 0 /\ desk[l].stage = "idle"
        /\ desk[l].prod = seed
        /\ desk[l].lot = [x \in Lots |-> Nothing]
        /\ desk[l].queue = [r \in Records |-> Idle]
        /\ desk[l].staffed <=> l \in Staffed
        /\ desk[l].published <=> l \notin Newcomers
    BY <2>1, FreshIs
  <2> QED BY <2>2 DEF seed
<1>6. \A r \in Records : log[r] \in LogRows(0)
  <2>1. NoRow \in LogRows(0)
    BY DEF NoRow, LogRows, Nothing
  <2> QED BY <1>1, <2>1
<1>7. Newest = 0
  <2>1. \A r \in Records : log[r].seq = 0
    BY <1>1 DEF NoRow
  <2>2. {log[r].seq : r \in Records} = {0}
    BY <2>1, RecordsFinite
  <2> QED BY <2>2 DEF Newest
<1>8. \A l \in Laptops : /\ \A r \in Records : desk[l].queue[r].at = 0
                         /\ \A x \in Lots : desk[l].lot[x] = Nothing
  BY <1>5 DEF Idle
<1>9. TypeInv
  <2>1. desk \in [Laptops -> Desks(0)] /\ log \in [Records -> LogRows(0)] /\ now = 0
    BY <1>5, <1>6 DEF Init
  <2>2. \A l \in Laptops : Consistent(desk[l])
    BY <1>8 DEF Consistent
  <2> QED BY <1>1, <1>5, <1>7, <2>1, <2>2 DEF TypeInv, NoRow
<1>10. RelayInv
  BY <1>1 DEF RelayInv, NoRow, Records
<1>11. ASSUME NEW l \in Laptops PROVE DeskInv(l, desk[l])
  <2>1. DyingAt(desk[l]) = {} /\ Pending(desk[l]) = {}
    BY <1>8 DEF DyingAt, Pending, Records
  <2>2. HeirsAt(desk[l]) /\ LotsAt(desk[l])
    BY <1>5, <2>1 DEF HeirsAt, LotsAt
  <2>3. SeenAt(l, desk[l])
    BY <1>1 DEF SeenAt, IsLeast, Records
  <2>4. HeardAt(l, desk[l])
    BY <1>5 DEF HeardAt, Unheard, IsBlank
  <2>5. SilentAt(l, desk[l])
    BY <1>1, <1>5, <2>1 DEF SilentAt
  <2> QED BY <2>2, <2>3, <2>4, <2>5 DEF DeskInv
<1> QED BY <1>9, <1>10, <1>11 DEF ApplyInv, IdsInv

(* A laptop that joins forgets what nobody has heard of.                   *)
LEMMA JoinStep ==
    ASSUME ApplyInv, NEW l \in Laptops, Join(l)
    PROVE  ApplyInv'
<1>1. PICK t : /\ t = [Fresh(l, Nothing) EXCEPT !.stage = "push", !.published = @]
               /\ desk' = [desk EXCEPT ![l] = t]
               /\ log' = log /\ now' = now /\ IsBlank(desk[l])
  BY DEF Join
<1>9. PICK s : s = Fresh(l, Nothing)
  OBVIOUS
<1>10. /\ s \in Desks(0) /\ s.prod = Nothing /\ s.cursor = 0
       /\ s.lot = [x \in Lots |-> Nothing] /\ s.queue = [r \in Records |-> Idle]
       /\ s.staffed <=> l \in Staffed
  BY <1>9, FreshIs
<1>11. s \in Desks(now)
  <2>1. now \in Nat /\ 0 <= now
    BY DEF ApplyInv, TypeInv
  <2> QED BY <1>10, <2>1, DesksGrow
<1>12. /\ t \in Desks(now) /\ t.prod = Nothing /\ t.cursor = 0 /\ t.stage = "push"
       /\ t.lot = s.lot /\ t.queue = s.queue /\ t.staffed = s.staffed
  BY <1>1, <1>9, <1>10, <1>11 DEF Desks, Stages
<1>2. /\ t \in Desks(now) /\ Consistent(t) /\ t.prod = Nothing /\ t.cursor = 0
      /\ t.stage = "push" /\ Pending(t) = {} /\ DyingAt(t) = {}
      /\ t.staffed <=> l \in Staffed
  BY <1>10, <1>12 DEF Idle, Consistent, Pending, DyingAt, Records
<1>3. Newest \in Nat /\ now \in Nat /\ desk \in [Laptops -> Desks(now)]
  BY NewestIs DEF ApplyInv, TypeInv
<1>4. TypeInv'
  <2>1. now' \in Nat /\ now <= now' /\ t \in Desks(now') /\ t.cursor <= Newest
    BY <1>1, <1>2, <1>3
  <2> QED BY <1>1, <1>2, <2>1, TypeKept DEF ApplyInv
<1>5. \A r \in Records : InLog(r) => log[r].by # l
  BY <1>1 DEF ApplyInv, IdsInv, DeskInv, SilentAt, IsBlank
<1>6. SeenAt(l, t)
  BY <1>2, <1>5 DEF SeenAt, IsLeast, InLog, ApplyInv, TypeInv, LogRows, Records
<1>7. DeskInv(l, t)
  BY <1>2, <1>5, <1>6 DEF DeskInv, HeirsAt, LotsAt, HeardAt, SilentAt
<1>8. IdsInv'
  BY <1>1, <1>3, <1>7, IdsKept DEF ApplyInv
<1> QED BY <1>4, <1>8 DEF ApplyInv

LEMMA LookStep ==
    ASSUME ApplyInv, NEW l \in Laptops, Look(l)
    PROVE  ApplyInv'
<1> DEFINE s == desk[l]
           stage == IF Newest = 0 THEN "publish" ELSE "looked"
           t == [s EXCEPT !.stage = stage]
<1>1. desk' = [desk EXCEPT ![l] = t] /\ log' = log /\ now' = now /\ ~IsBlank(s)
  BY DEF Look
<1>2. /\ Newest \in Nat /\ now \in Nat /\ desk \in [Laptops -> Desks(now)]
      /\ s \in Desks(now) /\ Consistent(s) /\ s.cursor <= Newest /\ DeskInv(l, s)
      /\ (\E r \in Records : InLog(r)) => Published
  BY NewestIs DEF ApplyInv, TypeInv, IdsInv, RelayInv
<1>3. Newest # 0 => Published
  BY <1>2, NewestIs DEF InLog, ApplyInv
<1> HIDE DEF s
<1>4. /\ t \in Desks(now) /\ t.prod = s.prod /\ t.cursor = s.cursor /\ t.queue = s.queue
      /\ t.lot = s.lot /\ t.published = s.published /\ t.staffed = s.staffed
      /\ t.stage = stage /\ Pending(t) = Pending(s) /\ DyingAt(t) = DyingAt(s)
  BY <1>2 DEF Desks, Stages, Pending, DyingAt
<1> HIDE DEF t
<1>5. TypeInv'
  <2>1. Consistent(t)
    BY <1>2, <1>4 DEF Consistent
  <2>2. now' \in Nat /\ now <= now' /\ t \in Desks(now') /\ t.cursor <= Newest
    BY <1>1, <1>2, <1>4
  <2> QED BY <1>1, <2>1, <2>2, TypeKept DEF ApplyInv
<1>6. DeskInv(l, t)
  <2>1. HeirsAt(t) /\ SeenAt(l, t)
    BY <1>2, <1>4 DEF DeskInv, HeirsAt, SeenAt
  <2>2. LotsAt(t)
    BY <1>2, <1>3, <1>4 DEF DeskInv, LotsAt
  <2>3. s.staffed
    BY <1>1, <1>2 DEF DeskInv, SilentAt, IsBlank, Desks
  <2>4. HeardAt(l, t) /\ SilentAt(l, t)
    BY <1>1, <1>2, <1>4, <2>3 DEF DeskInv, HeardAt, Unheard, SilentAt
  <2> QED BY <2>1, <2>2, <2>4 DEF DeskInv
<1>7. IdsInv'
  BY <1>1, <1>2, <1>6, IdsKept DEF ApplyInv
<1> QED BY <1>5, <1>7 DEF ApplyInv

LEMMA FailStep ==
    ASSUME ApplyInv, NEW l \in Laptops, Fail(l)
    PROVE  ApplyInv'
<1>1. PICK s : s = desk[l]
  OBVIOUS
<1>2. PICK t : t = [s EXCEPT !.stage = "idle"]
  OBVIOUS
<1>3. desk' = [desk EXCEPT ![l] = t] /\ log' = log /\ now' = now /\ s.stage # "idle"
  BY <1>1, <1>2 DEF Fail
<1>4. /\ now \in Nat /\ desk \in [Laptops -> Desks(now)]
      /\ s \in Desks(now) /\ Consistent(s) /\ s.cursor <= Newest /\ DeskInv(l, s)
  BY <1>1 DEF ApplyInv, TypeInv, IdsInv
<1>5. /\ t \in Desks(now) /\ t.prod = s.prod /\ t.cursor = s.cursor /\ t.queue = s.queue
      /\ t.lot = s.lot /\ t.published = s.published /\ t.staffed = s.staffed
      /\ t.stage = "idle" /\ Pending(t) = Pending(s) /\ DyingAt(t) = DyingAt(s)
  BY <1>2, <1>4 DEF Desks, Stages, Pending, DyingAt
<1>6. TypeInv'
  <2>1. Consistent(t)
    BY <1>4, <1>5 DEF Consistent
  <2>2. now' \in Nat /\ now <= now' /\ t \in Desks(now') /\ t.cursor <= Newest
    BY <1>3, <1>4, <1>5
  <2> QED BY <1>3, <2>1, <2>2, TypeKept DEF ApplyInv
<1>7. DeskInv(l, t)
  <2>1. HeirsAt(t) /\ SeenAt(l, t) /\ LotsAt(t) /\ SilentAt(l, t)
    BY <1>4, <1>5 DEF DeskInv, HeirsAt, SeenAt, LotsAt, SilentAt
  <2>2. HeardAt(l, t)
    BY <1>3, <1>4, <1>5 DEF DeskInv, HeardAt, Unheard
  <2> QED BY <2>1, <2>2 DEF DeskInv
<1>8. IdsInv'
  BY <1>3, <1>4, <1>7, IdsKept DEF ApplyInv
<1> QED BY <1>6, <1>8 DEF ApplyInv

-----------------------------------------------------------------------------
(* The steps that queue something                                          *)

LEMMA TickKept ==
    ASSUME ApplyInv, NEW l \in Laptops, NEW t,
           desk' = [desk EXCEPT ![l] = t], log' = log,
           t \in Desks(now + 1), now' = (IF t.queue = desk[l].queue THEN now ELSE now + 1),
           Consistent(t), t.cursor <= Newest, DeskInv(l, t)
    PROVE  ApplyInv'
<1>1. now \in Nat /\ desk[l] \in Desks(now) /\ desk \in [Laptops -> Desks(now)]
  BY DEF ApplyInv, TypeInv
<1>2. now' \in Nat /\ now <= now'
  BY <1>1
<1>3. t \in Desks(now')
  <2>1. CASE t.queue = desk[l].queue
    <3>1. t \in Desks(now)
      BY <1>1, <2>1 DEF Desks
    <3> QED BY <2>1, <3>1
  <2>2. CASE t.queue # desk[l].queue
    BY <2>2
  <2> QED BY <2>1, <2>2
<1>4. TypeInv'
  BY <1>2, <1>3, TypeKept DEF ApplyInv
<1>5. IdsInv'
  BY <1>1, IdsKept DEF ApplyInv
<1> QED BY <1>4, <1>5 DEF ApplyInv

QueuedLive(s, R, at) ==
    [s EXCEPT !.queue = [r \in Records |->
        IF r \in R THEN [at |-> at, deleted |-> FALSE] ELSE @[r]]]

(* A user's write, or a first publication, queues what is there.           *)
LEMMA QueuedLives ==
    ASSUME NEW n \in Nat, NEW s \in Desks(n), NEW R \in SUBSET Records, NEW at \in 1..n,
           R \cap Ids \subseteq {s.prod}, NEW t, t = QueuedLive(s, R, at)
    PROVE  /\ t \in Desks(n) /\ SameRound(s, t) /\ t.prod = s.prod /\ t.lot = s.lot
           /\ Pending(t) = Pending(s) \cup R
           /\ DyingAt(t) \subseteq DyingAt(s)
           /\ Consistent(s) => Consistent(t)
<1>1. at \in 0..n /\ at # 0
  OBVIOUS
<1>2. /\ t \in Desks(n) /\ SameRound(s, t)
      /\ t.prod = s.prod /\ t.lot = s.lot /\ t.kept = s.kept
      /\ \A r \in Records : t.queue[r] = IF r \in R THEN [at |-> at, deleted |-> FALSE]
                                         ELSE s.queue[r]
  BY <1>1 DEF QueuedLive, Desks, SameRound
<1>6. \A r \in R : t.queue[r].at = at /\ ~t.queue[r].deleted
  <2> TAKE r \in R
  <2>1. t.queue[r] = [at |-> at, deleted |-> FALSE]
    BY <1>2
  <2>2. t.queue[r].at = at
    BY <2>1
  <2>3. ~t.queue[r].deleted
    BY <2>1
  <2> QED BY <2>2, <2>3
<1>3. Pending(t) = Pending(s) \cup R
  <2>1. \A r \in Records : t.queue[r].at # 0 <=> s.queue[r].at # 0 \/ r \in R
    <3> TAKE r \in Records
    <3>1. CASE r \in R
      BY <1>1, <1>6, <3>1
    <3>2. CASE r \notin R
      BY <1>2, <3>2
    <3> QED BY <3>1, <3>2
  <2> QED BY <2>1 DEF Pending
<1>4. DyingAt(t) \subseteq DyingAt(s)
  <2> SUFFICES ASSUME NEW id \in DyingAt(t) PROVE id \in DyingAt(s)
    OBVIOUS
  <2>1. id \in Ids /\ id \in Records /\ t.queue[id].at # 0
        /\ (t.queue[id].deleted \/ t.prod # id)
    BY DEF DyingAt, Records
  <2>2. CASE id \in R
    <3>1. id = s.prod /\ ~t.queue[id].deleted
      BY <1>6, <2>1, <2>2
    <3> QED BY <1>2, <2>1, <3>1
  <2>3. CASE id \notin R
    BY <1>2, <2>1, <2>3 DEF DyingAt
  <2> QED BY <2>2, <2>3
<1>5. Consistent(s) => Consistent(t)
  BY <1>2 DEF Consistent
<1> QED BY <1>2, <1>3, <1>4, <1>5

LEMMA OnStateStep ==
    ASSUME ApplyInv, NEW l \in Laptops, OnState(l)
    PROVE  ApplyInv'
<1>1. PICK s : s = desk[l]
  OBVIOUS
<1>2. /\ now \in Nat /\ now + 1 \in Nat /\ now + 1 \in 1..(now + 1)
      /\ s \in Desks(now + 1) /\ Consistent(s) /\ s.cursor <= Newest /\ DeskInv(l, s)
  <2>1. now \in Nat /\ now + 1 \in Nat /\ now <= now + 1 /\ s \in Desks(now)
    BY <1>1 DEF ApplyInv, TypeInv
  <2>2. s \in Desks(now + 1)
    BY <2>1, DesksGrow
  <2>3. now + 1 \in 1..(now + 1)
    BY <2>1
  <2> QED BY <1>1, <2>1, <2>2, <2>3 DEF ApplyInv, TypeInv, IdsInv
<1>3. PICK u : /\ u = IF s.stage = "publish"
                      THEN QueuedLive(s, Shown(s), now + 1) ELSE s
  OBVIOUS
<1>4. PICK t : t = [u EXCEPT !.published = TRUE, !.stage = "push"]
  OBVIOUS
<1>5. /\ desk' = [desk EXCEPT ![l] = t] /\ log' = log /\ s.stage \in {"publish", "looked"}
      /\ Ticks(l)
  BY <1>1, <1>3, <1>4 DEF OnState, QueuedAll, QueuedLive
<1>6. Shown(s) \in SUBSET Records /\ Shown(s) \cap Ids \subseteq {s.prod}
      /\ (s.prod \in Ids => s.prod \in Shown(s))
      /\ (Shown(s) # {} => s.prod \in Ids)
  BY <1>2, ApplyAssumption DEF Shown, Held, Records, Desks, Consistent, Nothing
<1>7. /\ u \in Desks(now + 1) /\ SameRound(s, u) /\ u.prod = s.prod
      /\ Pending(u) = IF s.stage = "publish" THEN Pending(s) \cup Shown(s) ELSE Pending(s)
      /\ DyingAt(u) \subseteq DyingAt(s) /\ Consistent(u)
  <2>1. CASE s.stage = "publish"
    <3> DEFINE R == Shown(s)
               at == now + 1
    <3>1. u = QueuedLive(s, R, at)
      BY <1>3, <2>1
    <3>2. R \in SUBSET Records /\ R \cap Ids \subseteq {s.prod} /\ at \in 1..at /\ at \in Nat
          /\ s \in Desks(at)
      BY <1>2, <1>6
    <3> HIDE DEF R, at
    <3>3. /\ u \in Desks(at) /\ SameRound(s, u) /\ u.prod = s.prod
          /\ Pending(u) = Pending(s) \cup R
          /\ DyingAt(u) \subseteq DyingAt(s) /\ (Consistent(s) => Consistent(u))
      BY <3>1, <3>2, QueuedLives
    <3> QED BY <1>2, <2>1, <3>3 DEF R, at
  <2>2. CASE s.stage # "publish"
    BY <1>2, <1>3, <2>2 DEF SameRound
  <2> QED BY <2>1, <2>2
<1>8. /\ t \in Desks(now + 1) /\ t.prod = u.prod /\ t.lot = u.lot /\ t.queue = u.queue
      /\ t.cursor = u.cursor /\ t.staffed = u.staffed /\ t.published /\ t.stage = "push"
      /\ Pending(t) = Pending(u) /\ DyingAt(t) = DyingAt(u)
  BY <1>4, <1>7 DEF Desks, Stages, Pending, DyingAt
<1>9. s.staffed
  BY <1>2, <1>5 DEF DeskInv, SilentAt
<1>10. SameRound(s, u) => u.cursor = s.cursor /\ u.staffed = s.staffed
  BY DEF SameRound
<1>11. HeirsAt(t) /\ SeenAt(l, t)
  BY <1>2, <1>7, <1>8, <1>10 DEF DeskInv, HeirsAt, SeenAt
<1>12. LotsAt(t)
  BY <1>2, <1>6, <1>7, <1>8 DEF DeskInv, LotsAt
<1>13. HeardAt(l, t)
  <2>1. CASE s.stage = "publish"
    <3>1. s.prod \in Ids \cup {Nothing}
      BY <1>2 DEF Desks
    <3> QED BY <1>6, <1>7, <1>8, <1>9, <1>10, <2>1, <3>1 DEF HeardAt
  <2>2. CASE s.stage = "looked"
    <3>1. Published
      BY <1>2, <2>2 DEF DeskInv, LotsAt
    <3> QED BY <1>2, <1>7, <1>8, <1>9, <1>10, <2>2, <3>1 DEF DeskInv, HeardAt, Unheard
  <2> QED BY <1>5, <2>1, <2>2
<1>14. DeskInv(l, t)
  BY <1>7, <1>8, <1>9, <1>10, <1>11, <1>12, <1>13 DEF DeskInv, SilentAt
<1>15. Consistent(t) /\ t.cursor <= Newest
  BY <1>2, <1>7, <1>8, <1>10 DEF Consistent
<1>16. now' = IF t.queue = desk[l].queue THEN now ELSE now + 1
  BY <1>5 DEF Ticks, ApplyInv, TypeInv
<1> QED BY <1>5, <1>8, <1>14, <1>15, <1>16, TickKept

(* A user's write: what is queued is a lot and its product, or the product *)
(* alone.                                                                  *)
LEMMA EditStep ==
    ASSUME ApplyInv, NEW l \in Laptops, NEW u, u \in Desks(now), Consistent(u),
           SameRound(desk[l], u), u.queue = desk[l].queue, u.prod \in Ids,
           desk[l].prod \in {Nothing, u.prod},
           NEW R \in SUBSET Records, R \cap Ids = {u.prod}, Edited(l, u, R)
    PROVE  ApplyInv'
<1>1. PICK s : s = desk[l]
  OBVIOUS
<1>2. /\ now \in Nat /\ now + 1 \in Nat /\ now + 1 \in 1..(now + 1) /\ now <= now + 1
      /\ s \in Desks(now) /\ s.cursor <= Newest /\ DeskInv(l, s)
      /\ desk \in [Laptops -> Desks(now)]
  BY <1>1 DEF ApplyInv, TypeInv, IdsInv
<1>3. PICK t : t = QueuedLive(u, R, now + 1)
  OBVIOUS
<1>4. /\ desk' = [desk EXCEPT ![l] = t] /\ log' = log /\ now' = now + 1 /\ s.staffed
  BY <1>1, <1>3 DEF Edited, QueuedAll, QueuedLive
<1>5. u \in Desks(now + 1)
  BY <1>2, DesksGrow
<1>6. /\ t \in Desks(now + 1) /\ SameRound(u, t) /\ t.prod = u.prod
      /\ Pending(t) = Pending(u) \cup R /\ DyingAt(t) \subseteq DyingAt(u)
      /\ Consistent(t)
  <2> DEFINE at == now + 1
  <2>1. /\ at \in Nat /\ at \in 1..at /\ u \in Desks(at) /\ R \cap Ids \subseteq {u.prod}
        /\ t = QueuedLive(u, R, at)
    BY <1>2, <1>3, <1>5
  <2> HIDE DEF at
  <2>2. /\ t \in Desks(at) /\ SameRound(u, t) /\ t.prod = u.prod
        /\ Pending(t) = Pending(u) \cup R /\ DyingAt(t) \subseteq DyingAt(u)
        /\ (Consistent(u) => Consistent(t))
    BY <2>1, QueuedLives
  <2> QED BY <2>2 DEF at
<1>7. t.cursor = s.cursor /\ t.stage = s.stage /\ t.staffed = s.staffed
  BY <1>1, <1>6 DEF SameRound
<1>8. HeirsAt(t)
  <2> SUFFICES ASSUME NEW id \in DyingAt(t) PROVE Beaten(id)
    BY DEF HeirsAt
  <2>1. id \in DyingAt(t) /\ id \in DyingAt(u)
    BY <1>6
  <2>2. id \in DyingAt(s)
    BY <1>1, <1>2, <2>1, ApplyAssumption DEF DyingAt, Nothing
  <2> QED BY <1>2, <2>2 DEF DeskInv, HeirsAt
<1>9. SeenAt(l, t)
  <2>1. \A m \in Ids : s.prod \in 1..m => s.prod = u.prod
    BY <1>1 DEF Nothing
  <2> QED BY <1>2, <1>6, <1>7, <2>1 DEF DeskInv, SeenAt
<1>10. u.prod \in Pending(t)
  BY <1>6
<1>11. LotsAt(t)
  BY <1>2, <1>7, <1>10 DEF DeskInv, LotsAt
<1>12. HeardAt(l, t) /\ SilentAt(l, t)
  BY <1>4, <1>6, <1>7, <1>10 DEF HeardAt, SilentAt
<1>13. DeskInv(l, t)
  BY <1>8, <1>9, <1>11, <1>12 DEF DeskInv
<1>14. TypeInv'
  <2>1. now' \in Nat /\ now <= now' /\ t \in Desks(now') /\ t.cursor <= Newest
    BY <1>2, <1>4, <1>6, <1>7
  <2> QED BY <1>4, <1>6, <2>1, TypeKept DEF ApplyInv
<1>15. IdsInv'
  BY <1>2, <1>4, <1>13, IdsKept DEF ApplyInv
<1> QED BY <1>14, <1>15 DEF ApplyInv

LEMMA CreateProductStep ==
    ASSUME ApplyInv, NEW l \in Laptops, CreateProduct(l)
    PROVE  ApplyInv'
<1>1. PICK s : s = desk[l]
  OBVIOUS
<1>2. PICK id \in Ids : Edited(l, [s EXCEPT !.prod = id], {id}) /\ s.prod = Nothing
  BY <1>1 DEF CreateProduct
<1>3. PICK u : u = [s EXCEPT !.prod = id]
  OBVIOUS
<1>4. s \in Desks(now) /\ Consistent(s)
  BY <1>1 DEF ApplyInv, TypeInv
<1>5. u \in Desks(now) /\ SameRound(s, u) /\ u.queue = s.queue /\ u.prod = id /\ u.lot = s.lot
  BY <1>3, <1>4 DEF Desks, SameRound
<1>6. Consistent(u)
  BY <1>2, <1>4, <1>5 DEF Consistent
<1>7. {id} \in SUBSET Records /\ {id} \cap Ids = {u.prod}
  BY <1>5 DEF Records
<1>8. Edited(l, u, {id})
  BY <1>2, <1>3
<1> QED BY <1>1, <1>2, <1>5, <1>6, <1>7, <1>8, EditStep

LEMMA ReceiveLotStep ==
    ASSUME ApplyInv, NEW l \in Laptops, ReceiveLot(l)
    PROVE  ApplyInv'
<1>1. PICK s : s = desk[l]
  OBVIOUS
<1>2. PICK x \in Lots : Edited(l, [s EXCEPT !.lot[x] = s.prod], {x, s.prod}) /\ s.prod # Nothing
  BY <1>1 DEF ReceiveLot
<1>3. PICK u : u = [s EXCEPT !.lot[x] = s.prod]
  OBVIOUS
<1>4. s \in Desks(now) /\ Consistent(s)
  BY <1>1 DEF ApplyInv, TypeInv
<1>5. /\ u \in Desks(now) /\ SameRound(s, u) /\ u.queue = s.queue /\ u.prod = s.prod
      /\ u.lot = [s.lot EXCEPT ![x] = s.prod]
  BY <1>3, <1>4 DEF Desks, SameRound
<1>6. Consistent(u)
  BY <1>4, <1>5 DEF Consistent, Desks
<1>7. /\ {x, s.prod} \in SUBSET Records /\ {x, s.prod} \cap Ids = {u.prod}
      /\ u.prod \in Ids
  BY <1>2, <1>4, <1>5, ApplyAssumption DEF Records, Desks
<1>8. Edited(l, u, {x, s.prod})
  BY <1>2, <1>3
<1> QED BY <1>1, <1>5, <1>6, <1>7, <1>8, EditStep

LEMMA ConsumeLotStep ==
    ASSUME ApplyInv, NEW l \in Laptops, ConsumeLot(l)
    PROVE  ApplyInv'
<1>1. PICK s : s = desk[l]
  OBVIOUS
<1>2. PICK x \in Lots : Edited(l, s, {x, s.prod}) /\ s.lot[x] # Nothing
  BY <1>1 DEF ConsumeLot, Held
<1>4. s \in Desks(now) /\ Consistent(s)
  BY <1>1 DEF ApplyInv, TypeInv
<1>5. s.prod \in Ids
  BY <1>2, <1>4 DEF Consistent, Desks
<1>6. SameRound(s, s)
  BY DEF SameRound
<1>7. {x, s.prod} \in SUBSET Records /\ {x, s.prod} \cap Ids = {s.prod}
  BY <1>2, <1>5, ApplyAssumption DEF Records
<1> QED BY <1>1, <1>2, <1>4, <1>5, <1>6, <1>7, EditStep

-----------------------------------------------------------------------------
(* A page                                                                  *)

(* What a laptop may be after a page, wherever the round is by then: with  *)
(* the cursor where it was, or at the end of the page.                     *)
LEMMA PageStep ==
    ASSUME ApplyInv, NEW l \in Laptops, Pulls(desk[l]), NEW u, u = LandedPage(l),
           NEW t \in Desks(now + 1), t.prod = u.prod, t.queue = u.queue,
           t.cursor \in {desk[l].cursor, PageEnd(l)}, t.stage \in {"idle", "pull"},
           t.staffed <=> desk[l].staffed \/ PageFor(l) # {},
           t.published = desk[l].published
    PROVE  DeskInv(l, t)
<1>1. PICK s : s = desk[l]
  OBVIOUS
<1>2. DeskInv(l, s) /\ s \in Desks(now)
  BY <1>1 DEF ApplyInv, IdsInv, TypeInv
<1>3. TypeInv /\ RelayInv /\ HeirsAt(s)
  BY <1>2 DEF ApplyInv, IdsInv, DeskInv
<1>4. /\ u \in Desks(now + 1) /\ SameRound(s, u) /\ QueueGrows(s, u)
      /\ PageFor(l) = {} => u.prod = s.prod /\ u.queue = s.queue
  BY <1>1, <1>3, PageLands
<1>5. /\ HeirsAt(u)
      /\ \A m \in Ids : IsLeast(m) /\ (s.prod \in 1..m \/ m \in PageFor(l)) => u.prod \in 1..m
      /\ u.prod \in {Nothing, s.prod} \/ InLog(u.prod)
  BY <1>1, <1>3, PageIds
<1>6. \A r \in PageFor(l) : InLog(r) /\ r \in Records
  BY <1>3, PageRows, PageIs
<1>7. PageFor(l) # {} => Published
  BY <1>3, <1>6 DEF RelayInv
<1>8. HeirsAt(t)
  BY <1>5 DEF HeirsAt, DyingAt
<1>9. SeenAt(l, t)
  <2> SUFFICES ASSUME NEW m \in Ids, IsLeast(m), log[m].seq <= t.cursor \/ log[m].by = l
               PROVE  u.prod \in 1..m
    BY DEF SeenAt
  <2>1. CASE log[m].seq <= s.cursor \/ log[m].by = l
    BY <1>2, <1>5, <2>1 DEF DeskInv, SeenAt
  <2>2. CASE ~(log[m].seq <= s.cursor \/ log[m].by = l)
    <3>1. log[m].seq <= PageEnd(l)
      BY <1>1, <2>2
    <3>2. m \in Records /\ log[m].seq \in Nat /\ s.cursor \in Nat
      BY <1>2, <1>3 DEF TypeInv, LogRows, Records, Desks
    <3>3. m \in NewsFor(l)
      BY <1>1, <2>2, <3>2 DEF NewsFor
    <3>4. m \in PageFor(l)
      BY <1>3, <3>1, <3>3, PageIs
    <3> QED BY <1>5, <3>4
  <2> QED BY <2>1, <2>2
<1>10. \A r \in Pending(s) : r \in Pending(t)
  BY <1>4 DEF Pending, QueueGrows
<1>11. PageFor(l) = {} => Pending(t) = Pending(s)
  BY <1>4 DEF Pending
<1>12. LotsAt(t)
  BY <1>2, <1>7, <1>11 DEF DeskInv, LotsAt
<1>13. HeardAt(l, t)
  <2>1. l \in Staffed => t.staffed
    BY <1>1, <1>2 DEF DeskInv, HeardAt
  <2>2. CASE u.prod = Nothing \/ InLog(u.prod)
    BY <2>1, <2>2 DEF HeardAt
  <2>3. CASE u.prod = s.prod /\ s.prod \in Pending(s)
    BY <1>10, <2>1, <2>3 DEF HeardAt
  <2>4. CASE u.prod = s.prod /\ Unheard(l, s)
    <3>1. s.stage # "idle" \/ ~IsBlank(s)
      BY <1>1 DEF Pulls, Begun
    <3>2. Unheard(l, t)
      BY <1>1, <2>4, <3>1 DEF Unheard
    <3> QED BY <2>1, <3>2 DEF HeardAt
  <2> QED BY <1>2, <1>5, <2>2, <2>3, <2>4 DEF DeskInv, HeardAt
<1>14. SilentAt(l, t)
  <2> SUFFICES ASSUME ~t.staffed
               PROVE  /\ t.cursor = 0 /\ Pending(t) = {} /\ t.stage \notin {"publish", "looked"}
                      /\ \A r \in Records : InLog(r) => log[r].by # l
    BY DEF SilentAt
  <2>1. PageFor(l) = {} /\ ~s.staffed
    BY <1>1
  <2>2. /\ s.cursor = 0 /\ Pending(s) = {}
        /\ \A r \in Records : InLog(r) => log[r].by # l
    BY <1>2, <2>1 DEF DeskInv, SilentAt
  <2>3. PageEnd(l) = Newest /\ Newest \in Nat
    BY <1>3, <2>1, NewestIs DEF PageEnd
  <2>4. PICK r \in Records : log[r].seq = Newest
    BY <1>3, NewestIs
  <2>5. Newest = 0
    <3> SUFFICES ASSUME Newest # 0 PROVE FALSE
      OBVIOUS
    <3>1. log[r].seq > 0
      BY <2>3, <2>4
    <3>2. r \in NewsFor(l)
      BY <1>1, <2>2, <3>1 DEF NewsFor, InLog
    <3>3. log[r].seq <= PageEnd(l)
      BY <2>3, <2>4
    <3> QED BY <1>3, <2>1, <3>2, <3>3, PageIs
  <2> QED BY <1>1, <1>11, <2>1, <2>2, <2>3, <2>5
<1> QED BY <1>8, <1>9, <1>12, <1>13, <1>14 DEF DeskInv

LEMMA LandedIs ==
    ASSUME ApplyInv, NEW l \in Laptops, NEW u, u = LandedPage(l), NEW v, v = Landed(l)
    PROVE  /\ v \in Desks(now + 1) /\ Consistent(v)
           /\ v.prod = u.prod /\ v.queue = u.queue
           /\ v.cursor = desk[l].cursor /\ v.published = desk[l].published
           /\ v.staffed <=> desk[l].staffed \/ PageFor(l) # {}
<1>1. u \in Desks(now + 1) /\ SameRound(desk[l], u) /\ Consistent(u)
  BY PageLands DEF ApplyInv
<1>2. v = [u EXCEPT !.staffed = @ \/ PageFor(l) # {}]
  BY DEF Landed, LandedPage
<1> DEFINE staffed == u.staffed \/ PageFor(l) # {}
<1>3. staffed \in BOOLEAN /\ v = [u EXCEPT !.staffed = staffed]
  BY <1>2
<1>4. staffed <=> desk[l].staffed \/ PageFor(l) # {}
  BY <1>1 DEF SameRound
<1> HIDE DEF staffed
<1>5. /\ v \in Desks(now + 1) /\ v.prod = u.prod /\ v.queue = u.queue /\ v.lot = u.lot
      /\ v.cursor = u.cursor /\ v.published = u.published /\ v.staffed = staffed
  BY <1>1, <1>3 DEF Desks
<1>6. Consistent(v)
  BY <1>1, <1>5 DEF Consistent
<1> QED BY <1>1, <1>4, <1>5, <1>6 DEF SameRound

LEMMA PullAndDieStep ==
    ASSUME ApplyInv, NEW l \in Laptops, PullAndDie(l)
    PROVE  ApplyInv'
<1>1. PICK u : u = LandedPage(l)
  OBVIOUS
<1>2. PICK v : v = Landed(l)
  OBVIOUS
<1>3. PICK t : t = [v EXCEPT !.stage = "idle"]
  OBVIOUS
<1>4. /\ desk' = [desk EXCEPT ![l] = t] /\ log' = log /\ Pulls(desk[l]) /\ Ticks(l)
  BY <1>2, <1>3 DEF PullAndDie
<1>5. /\ v \in Desks(now + 1) /\ Consistent(v)
      /\ v.prod = u.prod /\ v.queue = u.queue
      /\ v.cursor = desk[l].cursor /\ v.published = desk[l].published
      /\ v.staffed <=> desk[l].staffed \/ PageFor(l) # {}
  BY <1>1, <1>2, LandedIs
<1>6. /\ t \in Desks(now + 1) /\ t.prod = v.prod /\ t.queue = v.queue /\ t.lot = v.lot
      /\ t.cursor = v.cursor /\ t.published = v.published /\ t.staffed = v.staffed
      /\ t.stage = "idle"
  BY <1>3, <1>5 DEF Desks, Stages
<1>7. DeskInv(l, t)
  BY <1>1, <1>4, <1>5, <1>6, PageStep
<1>8. Consistent(t)
  BY <1>5, <1>6 DEF Consistent
<1>9. t.cursor <= Newest
  BY <1>5, <1>6 DEF ApplyInv, TypeInv
<1>10. now' = IF t.queue = desk[l].queue THEN now ELSE now + 1
  BY <1>4 DEF Ticks, ApplyInv, TypeInv
<1> QED BY <1>4, <1>6, <1>7, <1>8, <1>9, <1>10, TickKept

(* The laptop at the end of a page, with what was aside replayed after the *)
(* last one.                                                               *)
LEMMA PulledIs ==
    ASSUME ApplyInv, NEW l \in Laptops, Pull(l)
    PROVE  \E u, v, w, t :
               /\ u = LandedPage(l) /\ v = Landed(l)
               /\ v \in Desks(now + 1) /\ Consistent(v)
               /\ w = IF IsLast(l) THEN Replayed(v, now + 1) ELSE v
               /\ desk' = [desk EXCEPT ![l] = t]
               /\ t \in Desks(now + 1) /\ Consistent(t)
               /\ t.prod = u.prod /\ t.queue = u.queue /\ t.kept = w.kept
               /\ t.cursor = PageEnd(l) /\ t.published = desk[l].published
               /\ t.staffed <=> desk[l].staffed \/ PageFor(l) # {}
               /\ t.stage = IF IsLast(l) THEN "idle" ELSE "pull"
<1>1. PICK u : u = LandedPage(l)
  OBVIOUS
<1>2. PICK v : v = Landed(l)
  OBVIOUS
<1>3. PICK w : w = IF IsLast(l) THEN Replayed(v, now + 1) ELSE v
  OBVIOUS
<1> DEFINE stage == IF IsLast(l) THEN "idle" ELSE "pull"
           end == PageEnd(l)
<1>4. PICK t : t = [w EXCEPT !.cursor = end, !.stage = stage]
  OBVIOUS
<1>5. desk' = [desk EXCEPT ![l] = t]
  BY <1>2, <1>3, <1>4 DEF Pull
<1>6. /\ v \in Desks(now + 1) /\ Consistent(v)
      /\ v.prod = u.prod /\ v.queue = u.queue
      /\ v.cursor = desk[l].cursor /\ v.published = desk[l].published
      /\ v.staffed <=> desk[l].staffed \/ PageFor(l) # {}
  BY <1>1, <1>2, LandedIs
<1>7. now + 1 \in Nat /\ now + 1 \in 1..(now + 1)
  BY DEF ApplyInv, TypeInv
<1>8. /\ w \in Desks(now + 1) /\ SameRound(v, w) /\ Consistent(w)
      /\ w.prod = v.prod /\ w.queue = v.queue
  <2>1. CASE IsLast(l)
    <3>1. w = Replayed(v, now + 1)
      BY <1>3, <2>1
    <3> QED BY <1>6, <1>7, <3>1, ReplayedDoes
  <2>2. CASE ~IsLast(l)
    BY <1>3, <1>6, <2>2 DEF SameRound
  <2> QED BY <2>1, <2>2
<1>9. end \in Nat /\ stage \in Stages
  BY PageIs DEF Stages, ApplyInv
<1>10. /\ t \in Desks(now + 1) /\ t.prod = w.prod /\ t.queue = w.queue /\ t.lot = w.lot
       /\ t.kept = w.kept /\ t.cursor = end /\ t.stage = stage
       /\ t.published = w.published /\ t.staffed = w.staffed
  <2> HIDE DEF end, stage
  <2> QED BY <1>4, <1>8, <1>9 DEF Desks
<1>11. Consistent(t)
  BY <1>8, <1>10 DEF Consistent
<1>12. t.published = desk[l].published /\ (t.staffed <=> desk[l].staffed \/ PageFor(l) # {})
  BY <1>6, <1>8, <1>10 DEF SameRound
<1> WITNESS u, v, w, t
<1> QED BY <1>1, <1>2, <1>3, <1>5, <1>6, <1>8, <1>10, <1>11, <1>12

LEMMA PullStep ==
    ASSUME ApplyInv, NEW l \in Laptops, Pull(l)
    PROVE  ApplyInv'
<1>1. PICK u, t :
          /\ u = LandedPage(l) /\ desk' = [desk EXCEPT ![l] = t]
          /\ t \in Desks(now + 1) /\ Consistent(t)
          /\ t.prod = u.prod /\ t.queue = u.queue
          /\ t.cursor = PageEnd(l) /\ t.published = desk[l].published
          /\ t.staffed <=> desk[l].staffed \/ PageFor(l) # {}
          /\ t.stage \in {"idle", "pull"}
  BY PulledIs
<1>2. log' = log /\ Pulls(desk[l]) /\ Ticks(l)
  BY DEF Pull
<1>3. DeskInv(l, t)
  BY <1>1, <1>2, PageStep
<1>4. t.cursor <= Newest
  BY <1>1, PageIs DEF ApplyInv
<1>5. now' = IF t.queue = desk[l].queue THEN now ELSE now + 1
  BY <1>1, <1>2 DEF Ticks, ApplyInv, TypeInv
<1> QED BY <1>1, <1>2, <1>3, <1>4, <1>5, TickKept

-----------------------------------------------------------------------------
(* A batch                                                                 *)

Oldest(s, S) == InOrder(S, LAMBDA q, r : GoesBefore(s, q, r))

(* The queue can be put in order, oldest first.                            *)
LEMMA QueueInOrder ==
    ASSUME NEW n \in Nat, NEW s \in Desks(n), NEW S \in SUBSET Records
    PROVE  Oldest(s, S) \in SetToSeqs(S)
<1> DEFINE R == {p \in S \X S : GoesBefore(s, p[1], p[2])}
<1>1. \A x, y \in S : <<x, y>> \in R <=> GoesBefore(s, x, y)
  OBVIOUS
<1>2. \A x \in S : s.queue[x].at \in Nat /\ (x \in Lots <=> x \notin Ids)
  <2> TAKE x \in S
  <2>1. s.queue[x] \in [at : 0..n, deleted : BOOLEAN]
    BY DEF Desks
  <2>2. x \in Lots <=> x \notin Ids
    BY ApplyAssumption DEF Records
  <2> QED BY <2>1, <2>2
<1>3. \A x \in S : ~GoesBefore(s, x, x)
  BY <1>2 DEF GoesBefore
<1>4. \A x, y, z \in S : GoesBefore(s, x, y) /\ GoesBefore(s, y, z) => GoesBefore(s, x, z)
  BY <1>2 DEF GoesBefore
<1>5. \A g \in SetToSeqs(S) : \A i \in DOMAIN g : g[i] \in S
  BY DEF SetToSeqs
<1> HIDE DEF R
<1>6. Oldest(s, S) = CHOOSE g \in SetToSeqs(S) :
              \A i, j \in DOMAIN g : i < j => ~GoesBefore(s, g[j], g[i])
  BY DEF InOrder, Oldest
<1>7. PICK g : IsOrder(g, S, R)
  BY <1>1, <1>3, <1>4, RecordsFinite, OrderExists
<1>8. g \in SetToSeqs(S) /\ \A i, j \in DOMAIN g : i < j => ~GoesBefore(s, g[j], g[i])
  BY <1>1, <1>5, <1>7 DEF IsOrder
<1> QED BY <1>6, <1>8

(* The batch takes the place of what it wins against, under new numbers.   *)
NewsOf(l) == {r \in Pending(desk[l]) : Wins(desk[l], r)}

LEMMA PushedIs ==
    ASSUME TypeInv, NEW l \in Laptops, Push(l)
    PROVE  /\ NewsOf(l) \in SUBSET Records
           /\ \A r \in Records \ NewsOf(l) : log'[r] = log[r]
           /\ \A r \in NewsOf(l) :
                  /\ log'[r].seq \in Nat /\ log'[r].seq > Newest
                  /\ log'[r].at = desk[l].queue[r].at /\ log'[r].by = l
                  /\ log'[r].deleted <=> desk[l].queue[r].deleted \/ r \notin Shown(desk[l])
                  /\ log'[r].to \in Ids \cup {Nothing}
                  /\ log'[r] \in LogRows(now)
           /\ \A q, r \in NewsOf(l) : log'[q].seq = log'[r].seq => q = r
           /\ log' \in [Records -> LogRows(now)]
<1>1. PICK s : s = desk[l]
  OBVIOUS
<1>2. PICK N : N = NewsOf(l)
  OBVIOUS
<1>3. PICK order : order = Oldest(s, N)
  OBVIOUS
<1>4. now \in Nat /\ s \in Desks(now) /\ log \in [Records -> LogRows(now)] /\ Newest \in Nat
  BY <1>1, NewestIs DEF TypeInv
<1>5. N \in SUBSET Records /\ IsFiniteSet(N) /\ N \in SUBSET Pending(s)
  BY <1>1, <1>2, RecordsFinite DEF NewsOf, Pending
<1>6. order \in SetToSeqs(N)
  BY <1>3, <1>4, <1>5, QueueInOrder
<1> DEFINE place(r) == CHOOSE i \in DOMAIN order : order[i] = r
<1>7. \A r \in N : place(r) \in Nat \ {0} /\ order[place(r)] = r
  <2>1. /\ DOMAIN order = 1..Cardinality(N) /\ Cardinality(N) \in Nat
        /\ \A r \in N : \E i \in DOMAIN order : order[i] = r
    BY <1>5, <1>6, Enumerates
  <2> TAKE r \in N
  <2>2. place(r) \in DOMAIN order /\ order[place(r)] = r
    BY <2>1
  <2> HIDE DEF place
  <2> QED BY <2>1, <2>2
<1>8. log' = [r \in Records |-> IF r \in N THEN Sent(l, r, Newest + place(r)) ELSE log[r]]
  <2>1. log' = [r \in Records |->
                  IF r \in NewsOf(l)
                  THEN Sent(l, r, Newest + CHOOSE i \in DOMAIN Oldest(desk[l], NewsOf(l)) :
                                               Oldest(desk[l], NewsOf(l))[i] = r)
                  ELSE log[r]]
    BY Zenon DEF Push, NewsOf, Oldest
  <2> QED BY <1>1, <1>2, <1>3, <2>1
<1> HIDE DEF place
<1>9. ASSUME NEW r \in N
      PROVE  /\ log'[r].seq = Newest + place(r)
             /\ log'[r].at = s.queue[r].at /\ log'[r].by = l
             /\ log'[r].deleted <=> s.queue[r].deleted \/ r \notin Shown(s)
             /\ log'[r].to \in Ids \cup {Nothing}
             /\ log'[r] \in LogRows(now)
  <2> DEFINE gone == s.queue[r].deleted \/ r \notin Shown(s)
             seq == Newest + place(r)
             to == IF gone \/ r \in Ids THEN Nothing ELSE s.lot[r]
  <2>1. r \in Records /\ log'[r] = Sent(l, r, seq)
    BY <1>5, <1>8
  <2>2. log'[r] = [seq |-> seq, at |-> s.queue[r].at, by |-> l, deleted |-> gone, to |-> to]
    BY <1>1, <2>1 DEF Sent
  <2>3. /\ seq \in Nat /\ s.queue[r].at \in 0..now /\ gone \in BOOLEAN
        /\ to \in Ids \cup {Nothing}
    <3>1. s.queue[r] \in [at : 0..now, deleted : BOOLEAN]
      BY <1>4, <2>1 DEF Desks
    <3>2. seq \in Nat
      BY <1>4, <1>7
    <3>3. to \in Ids \cup {Nothing}
      <4>1. r \in Ids \/ r \in Lots
        BY <2>1 DEF Records
      <4>2. r \in Lots => s.lot[r] \in Ids \cup {Nothing}
        BY <1>4 DEF Desks
      <4> QED BY <4>1, <4>2
    <3> QED BY <3>1, <3>2, <3>3
  <2>4. log'[r].seq = seq
    BY <2>2
  <2> HIDE DEF seq, to, gone
  <2>5. /\ log'[r].at = s.queue[r].at /\ log'[r].by = l
        /\ log'[r].deleted = gone /\ log'[r].to = to
    BY <2>2
  <2>6. log'[r] \in LogRows(now)
    BY <2>2, <2>3 DEF LogRows
  <2> QED BY <2>3, <2>4, <2>5, <2>6 DEF seq, gone
<1>10. \A r \in N : log'[r].seq \in Nat /\ log'[r].seq > Newest
  BY <1>4, <1>7, <1>9
<1>11. \A q, r \in N : log'[q].seq = log'[r].seq => q = r
  <2> TAKE q, r \in N
  <2> HAVE log'[q].seq = log'[r].seq
  <2>1. place(q) = place(r)
    BY <1>4, <1>7, <1>9
  <2> QED BY <1>7, <2>1
<1>12. \A r \in Records \ N : log'[r] = log[r]
  BY <1>8
<1>13. log' \in [Records -> LogRows(now)]
  <2>1. \A r \in Records : log'[r] \in LogRows(now)
    BY <1>4, <1>9, <1>12
  <2> HIDE DEF place
  <2>2. DOMAIN log' = Records /\ log' = [r \in Records |-> log'[r]]
    BY <1>8
  <2> QED BY <2>1, <2>2
<1> QED BY <1>1, <1>2, <1>5, <1>9, <1>10, <1>11, <1>12, <1>13

LEMMA PushStep ==
    ASSUME ApplyInv, NEW l \in Laptops, Push(l)
    PROVE  ApplyInv'
<1>1. PICK s : s = desk[l]
  OBVIOUS
<1>2. PICK N : N = NewsOf(l)
  OBVIOUS
<1>3. PICK t : t = [s EXCEPT !.queue = [r \in Records |-> Idle], !.stage = "pull"]
  OBVIOUS
<1>4. desk' = [desk EXCEPT ![l] = t] /\ now' = now /\ Pending(s) # {}
  BY <1>1, <1>3 DEF Push
<1>5. /\ now \in Nat /\ desk \in [Laptops -> Desks(now)] /\ log \in [Records -> LogRows(now)]
      /\ s \in Desks(now) /\ Consistent(s) /\ DeskInv(l, s) /\ TypeInv /\ RelayInv
  BY <1>1 DEF ApplyInv, TypeInv, IdsInv
<1>6. /\ N \in SUBSET Records
      /\ \A r \in Records \ N : log'[r] = log[r]
      /\ \A r \in N : /\ log'[r].seq \in Nat /\ log'[r].seq > Newest
                      /\ log'[r].by = l
                      /\ log'[r].deleted <=> s.queue[r].deleted \/ r \notin Shown(s)
      /\ \A q, r \in N : log'[q].seq = log'[r].seq => q = r
      /\ log' \in [Records -> LogRows(now)]
  BY <1>1, <1>2, <1>5, PushedIs
<1>7. /\ t \in Desks(now) /\ t.prod = s.prod /\ t.lot = s.lot /\ t.cursor = s.cursor
      /\ t.stage = "pull" /\ t.published = s.published /\ t.staffed = s.staffed
      /\ Pending(t) = {} /\ DyingAt(t) = {}
  <2>1. /\ t \in Desks(now) /\ t.prod = s.prod /\ t.lot = s.lot /\ t.cursor = s.cursor
        /\ t.stage = "pull" /\ t.published = s.published /\ t.staffed = s.staffed
        /\ t.queue = [r \in Records |-> Idle]
    <3> DEFINE queue == [r \in Records |-> Idle]
    <3>1. queue \in [Records -> [at : 0..now, deleted : BOOLEAN]]
      BY <1>5 DEF Idle
    <3> HIDE DEF queue
    <3>2. /\ t \in Desks(now) /\ t.prod = s.prod /\ t.lot = s.lot /\ t.cursor = s.cursor
          /\ t.stage = "pull" /\ t.published = s.published /\ t.staffed = s.staffed
          /\ t.queue = queue
      BY <1>3, <1>5, <3>1 DEF Desks, Stages, queue
    <3> QED BY <3>2 DEF queue
  <2>2. \A r \in Records : t.queue[r].at = 0
    BY <2>1 DEF Idle
  <2> QED BY <2>1, <2>2 DEF Pending, DyingAt, Records
<1>8. Newest \in Nat /\ \A r \in Records : log[r].seq \in Nat /\ log[r].seq <= Newest
  BY <1>5, NewestIs DEF LogRows
<1>9. \A r \in Records : /\ log'[r].seq \in Nat /\ (r \in N => InLog(r)')
                         /\ InLog(r) => InLog(r)'
  BY <1>6, <1>8 DEF InLog
<1>10. \A k \in Laptops : desk'[k] = IF k = l THEN t ELSE desk[k]
  BY <1>4, <1>5
<1>11. \A id \in Ids : Beaten(id) => Beaten(id)'
  BY <1>9 DEF Beaten, Records
<1>12. Published => Published'
  BY <1>9 DEF Published, InLog, Records
(* What is pending is on the relay afterwards: it won, or met a newer row. *)
<1>13. \A r \in Pending(s) : InLog(r)'
  <2> TAKE r \in Pending(s)
  <2>1. r \in Records /\ s.queue[r].at \in Nat /\ s.queue[r].at # 0
    <3>1. r \in Records /\ s.queue[r].at # 0
      BY DEF Pending
    <3>2. s.queue[r] \in [at : 0..now, deleted : BOOLEAN]
      BY <1>5, <3>1 DEF Desks
    <3> QED BY <3>1, <3>2
  <2>2. CASE r \in N
    BY <1>9, <2>1, <2>2
  <2>3. CASE r \notin N
    <3>1. ~(s.queue[r].at >= log[r].at)
      BY <1>1, <1>2, <2>3 DEF NewsOf, Wins
    <3>2. log[r].at \in Nat
      BY <1>5, <2>1 DEF LogRows
    <3>3. log[r] # NoRow
      BY <2>1, <3>1, <3>2 DEF NoRow
    <3>4. log[r].seq # 0
      BY <1>5, <2>1, <3>3 DEF TypeInv
    <3> QED BY <1>8, <1>9, <2>1, <3>4 DEF InLog
  <2> QED BY <2>2, <2>3
<1>14. TypeInv'
  <2>1. Newest' \in Nat /\ Newest <= Newest'
    <3> DEFINE T == {log'[r].seq : r \in Records}
               f == [r \in Records |-> log'[r].seq]
    <3>1. T \in SUBSET Nat /\ T # {}
      BY <1>9, RecordsFinite
    <3>2. f \in Surjection(Records, T)
      BY DEF Surjection
    <3>3. IsFiniteSet(T)
      <4> HIDE DEF f, T
      <4> QED BY <3>2, RecordsFinite, FS_Surjection
    <3>4. PICK n \in T : \A k \in T : n >= k
      <4> HIDE DEF T
      <4> QED BY <3>1, <3>3, GreatestNumber
    <3>5. \E m \in T : \A k \in T : k <= m
      BY <3>1, <3>4
    <3>6. Newest' = CHOOSE m \in T : \A k \in T : k <= m
      BY DEF Newest
    <3>7. Newest' \in T /\ \A k \in T : k <= Newest'
      <4> HIDE DEF T
      <4> QED BY <3>5, <3>6
    <3>8. PICK r \in Records : log[r].seq = Newest
      BY <1>5, NewestIs
    <3>9. log'[r].seq \in T /\ log'[r].seq >= Newest
      BY <1>6, <1>8, <3>8
    <3>10. Newest' \in Nat /\ log'[r].seq <= Newest' /\ log'[r].seq \in Nat
      BY <3>1, <3>7, <3>9
    <3> QED BY <1>8, <3>9, <3>10
  <2>2. desk' \in [Laptops -> Desks(now')]
    <3> DEFINE D == Desks(now)
    <3>1. t \in D /\ desk \in [Laptops -> D]
      BY <1>5, <1>7
    <3> HIDE DEF D
    <3>2. desk' \in [Laptops -> D]
      BY <1>4, <3>1
    <3> QED BY <1>4, <3>2 DEF D
  <2>3. log' \in [Records -> LogRows(now')]
    BY <1>4, <1>6
  <2>4. ASSUME NEW k \in Laptops PROVE Consistent(desk[k])' /\ (desk[k].cursor <= Newest)'
    <3>1. Consistent(t) /\ t.cursor <= Newest
      BY <1>1, <1>5, <1>7 DEF Consistent, TypeInv
    <3>2. desk'[k].cursor \in Nat
      BY <2>2 DEF Desks
    <3>3. Consistent(desk[k]) /\ desk[k].cursor <= Newest
      BY <1>5 DEF TypeInv
    <3>4. Consistent(desk'[k]) /\ desk'[k].cursor <= Newest
      BY <1>10, <3>1, <3>3
    <3>5. desk'[k].cursor <= Newest'
      BY <1>8, <2>1, <3>2, <3>4
    <3> QED BY <3>4, <3>5 DEF Consistent
  <2>5. ASSUME NEW q \in Records, NEW r \in Records,
               log'[q].seq = log'[r].seq, log'[q].seq # 0
        PROVE  q = r
    <3>1. CASE q \in N /\ r \in N
      BY <1>6, <2>5, <3>1
    <3>2. CASE q \notin N /\ r \notin N
      BY <1>5, <1>6, <2>5, <3>2 DEF TypeInv
    <3>3. CASE (q \in N /\ r \notin N) \/ (q \notin N /\ r \in N)
      BY <1>6, <1>8, <2>5, <3>3
    <3> QED BY <3>1, <3>2, <3>3
  <2>6. ASSUME NEW r \in Records, log'[r].seq = 0 PROVE log'[r] = NoRow
    <3>1. r \notin N
      BY <1>6, <1>8, <2>6
    <3> QED BY <1>5, <1>6, <2>6, <3>1 DEF TypeInv
  <2> QED BY <1>4, <1>5, <2>2, <2>3, <2>4, <2>5, <2>6 DEF TypeInv
<1>15. RelayInv'
  <2>1. ASSUME NEW id \in Ids, log'[id].deleted PROVE Beaten(id)'
    <3>1. CASE id \in N
      <4>1. id \in Pending(s) /\ (s.queue[id].deleted \/ id \notin Shown(s))
        BY <1>1, <1>2, <1>6, <2>1, <3>1 DEF NewsOf
      <4>2. id \notin Shown(s) => s.prod # id
        BY ApplyAssumption DEF Shown, Nothing
      <4>3. id \in DyingAt(s)
        BY <4>1, <4>2 DEF DyingAt, Pending
      <4> QED BY <1>5, <1>11, <4>3 DEF DeskInv, HeirsAt
    <3>2. CASE id \notin N
      BY <1>5, <1>6, <1>11, <2>1, <3>2 DEF RelayInv, Records
    <3> QED BY <3>1, <3>2
  <2>2. ASSUME NEW r \in Records, InLog(r)' PROVE Published'
    <3>1. CASE r \in N
      <4>1. Published \/ Pending(s) \cap Ids # {}
        BY <1>4, <1>5 DEF DeskInv, LotsAt
      <4>2. Pending(s) \cap Ids # {} => Published'
        BY <1>13 DEF Published, InLog
      <4> QED BY <1>12, <4>1, <4>2
    <3>2. CASE r \notin N
      BY <1>5, <1>6, <1>12, <2>2, <3>2 DEF RelayInv, InLog
    <3> QED BY <3>1, <3>2
  <2> QED BY <2>1, <2>2 DEF RelayInv
<1>16. ASSUME NEW k \in Laptops PROVE DeskInv(k, desk[k])'
  <2>1. DeskInv(k, desk[k])
    BY DEF ApplyInv, IdsInv
  <2>2. HeirsAt(desk[k])'
    <3>1. DyingAt(desk'[k]) \subseteq DyingAt(desk[k])
      BY <1>7, <1>10
    <3>2. \A id \in DyingAt(desk'[k]) : Beaten(id)'
      BY <1>11, <2>1, <3>1 DEF DeskInv, HeirsAt, DyingAt
    <3> QED BY <3>2 DEF HeirsAt, DyingAt
  <2>3. SeenAt(k, desk[k])'
    <3> SUFFICES ASSUME NEW m \in Ids, IsLeast(m)',
                        log'[m].seq <= desk'[k].cursor \/ log'[m].by = k
                 PROVE  desk'[k].prod \in 1..m
      BY DEF SeenAt
    <3>1. desk'[k].prod = desk[k].prod /\ desk'[k].cursor = desk[k].cursor
      BY <1>1, <1>7, <1>10
    <3>2. ~Beaten(m) /\ m \in Records
      BY <1>11 DEF IsLeast, Records
    <3>3. CASE m \in N
      <4>1. ~(log'[m].seq <= desk[k].cursor)
        <5>1. desk[k].cursor \in Nat /\ desk[k].cursor <= Newest
          BY <1>5 DEF TypeInv, Desks
        <5> QED BY <1>6, <1>8, <3>3, <5>1
      <4>2. k = l
        BY <1>6, <3>1, <3>3, <4>1
      <4>3. m \in Pending(s) /\ m \notin DyingAt(s)
        BY <1>1, <1>2, <1>5, <3>2, <3>3 DEF NewsOf, DeskInv, HeirsAt
      <4>4. s.prod = m
        BY <4>3 DEF Pending, DyingAt
      <4> QED BY <1>1, <3>1, <4>2, <4>4, ApplyAssumption
    <3>4. CASE m \notin N
      <4>1. log'[m] = log[m] /\ InLog(m)
        BY <1>6, <3>2, <3>4 DEF IsLeast, InLog
      <4>2. IsLeast(m)
        BY <3>2, <4>1 DEF IsLeast
      <4> QED BY <2>1, <3>1, <4>1, <4>2 DEF DeskInv, SeenAt
    <3> QED BY <3>3, <3>4
  <2>4. LotsAt(desk[k])'
    <3>1. Pending(desk'[k]) # {} => Published \/ Pending(desk'[k]) \cap Ids # {}
      BY <1>7, <1>10, <2>1 DEF DeskInv, LotsAt
    <3>2. desk'[k].stage = "looked" => Published
      BY <1>7, <1>10, <2>1 DEF DeskInv, LotsAt
    <3> QED BY <1>12, <3>1, <3>2 DEF LotsAt, Pending
  <2>5. HeardAt(k, desk[k])'
    <3>1. k \in Staffed => desk'[k].staffed
      BY <1>1, <1>7, <1>10, <2>1 DEF DeskInv, HeardAt
    <3>2. \/ desk[k].prod = Nothing \/ InLog(desk[k].prod)
          \/ desk[k].prod \in Pending(desk[k]) \/ Unheard(k, desk[k])
      BY <2>1 DEF DeskInv, HeardAt
    <3>3. desk'[k].prod = desk[k].prod /\ desk'[k].published = desk[k].published
      BY <1>1, <1>7, <1>10
    <3>4. CASE desk[k].prod = Nothing \/ InLog(desk[k].prod)
      <4>1. desk[k].prod \in Ids => desk[k].prod \in Records
        BY DEF Records
      <4>2. desk[k].prod \in Ids \/ desk[k].prod = Nothing
        BY <1>5 DEF Desks
      <4>3. \A r \in Records : log[r].seq > 0 => log'[r].seq > 0
        BY <1>9 DEF InLog
      <4>4. desk'[k].prod = Nothing \/ log'[desk'[k].prod].seq > 0
        BY <3>3, <3>4, <4>1, <4>2, <4>3 DEF InLog
      <4> QED BY <3>1, <4>4 DEF HeardAt, InLog
    <3>5. CASE desk[k].prod \in Pending(desk[k])
      <4>1. k = l => InLog(desk[k].prod)'
        BY <1>1, <1>13, <3>3, <3>5 DEF InLog
      <4>2. k # l => desk'[k].prod \in Pending(desk'[k])
        BY <1>10, <3>5
      <4> QED BY <3>1, <4>1, <4>2 DEF HeardAt, Pending
    <3>6. CASE Unheard(k, desk[k])
      <4>1. k = l => k \in Staffed
        BY <1>1, <3>6 DEF Push, Begun, Unheard
      <4>2. CASE k = l
        BY <1>12, <3>1, <3>3, <3>6, <4>1, <4>2 DEF HeardAt, Unheard
      <4>3. CASE k # l
        <5>1. desk'[k] = desk[k]
          BY <1>10, <4>3
        <5> QED BY <1>12, <3>1, <3>6, <5>1 DEF HeardAt, Unheard, IsBlank
      <4> QED BY <4>2, <4>3
    <3> QED BY <3>2, <3>4, <3>5, <3>6
  <2>6. SilentAt(k, desk[k])'
    <3> SUFFICES ASSUME ~desk'[k].staffed
                 PROVE  /\ desk'[k].cursor = 0 /\ Pending(desk'[k]) = {}
                        /\ desk'[k].stage \notin {"publish", "looked"}
                        /\ \A r \in Records : InLog(r)' => log'[r].by # k
      BY DEF SilentAt, Pending
    <3>1. k # l
      <4>1. k = l => Pending(desk[k]) = {}
        BY <1>1, <1>7, <1>10, <2>1 DEF DeskInv, SilentAt
      <4> QED BY <1>1, <1>4, <4>1
    <3>2. desk'[k] = desk[k]
      BY <1>10, <3>1
    <3>3. /\ desk[k].cursor = 0 /\ Pending(desk[k]) = {}
          /\ desk[k].stage \notin {"publish", "looked"}
          /\ \A r \in Records : InLog(r) => log[r].by # k
      BY <2>1, <3>2 DEF DeskInv, SilentAt
    <3>4. \A r \in Records : InLog(r)' => log'[r].by # k
      BY <1>6, <3>1, <3>3 DEF InLog
    <3> QED BY <3>2, <3>3, <3>4
  <2> QED BY <2>2, <2>3, <2>4, <2>5, <2>6 DEF DeskInv
<1>17. IdsInv'
  BY <1>15, <1>16 DEF IdsInv
<1> QED BY <1>14, <1>17 DEF ApplyInv

-----------------------------------------------------------------------------
(* What all of this shows                                                  *)

(* The invariant holds throughout.                                         *)
LEMMA ApplyInvariant == Spec => []ApplyInv
<1>1. ApplyInv /\ [Next]_vars => ApplyInv'
  <2> SUFFICES ASSUME ApplyInv, [Next]_vars PROVE ApplyInv'
    OBVIOUS
  <2>1. CASE Next
    <3>1. PICK l \in Laptops : \/ Round(l) \/ PullAndDie(l) \/ Fail(l)
                               \/ CreateProduct(l) \/ ReceiveLot(l) \/ ConsumeLot(l)
      BY <2>1 DEF Next
    <3>2. CASE Join(l)
      BY <3>2, JoinStep
    <3>3. CASE Look(l)
      BY <3>3, LookStep
    <3>4. CASE OnState(l)
      BY <3>4, OnStateStep
    <3>5. CASE Push(l)
      BY <3>5, PushStep
    <3>6. CASE Pull(l)
      BY <3>6, PullStep
    <3>7. CASE PullAndDie(l)
      BY <3>7, PullAndDieStep
    <3>8. CASE Fail(l)
      BY <3>8, FailStep
    <3>9. CASE CreateProduct(l)
      BY <3>9, CreateProductStep
    <3>10. CASE ReceiveLot(l)
      BY <3>10, ReceiveLotStep
    <3>11. CASE ConsumeLot(l)
      BY <3>11, ConsumeLotStep
    <3> QED BY <3>1, <3>2, <3>3, <3>4, <3>5, <3>6, <3>7, <3>8, <3>9, <3>10, <3>11 DEF Round
  <2>2. CASE UNCHANGED vars
    <3>1. desk' = desk /\ log' = log /\ now' = now
      BY <2>2 DEF vars
    <3>2. TypeInv'
      BY <3>1 DEF ApplyInv, TypeInv, Consistent, Newest
    <3>3. RelayInv'
      BY <3>1 DEF ApplyInv, IdsInv, RelayInv, Beaten, InLog, Published
    <3>4. ASSUME NEW l \in Laptops PROVE DeskInv(l, desk[l])'
      <4>1. DeskInv(l, desk'[l])
        BY <3>1 DEF ApplyInv, IdsInv
      <4> QED BY <3>1, <4>1 DEF DeskInv, HeirsAt, DyingAt, SeenAt, LotsAt, HeardAt, SilentAt,
                 Unheard, IsLeast, Beaten, InLog, Published, Pending, IsBlank
    <3> QED BY <3>2, <3>3, <3>4 DEF ApplyInv, IdsInv
  <2> QED BY <2>1, <2>2
<1> QED BY InitApply, <1>1, PTL DEF Spec

(* Whatever rows cross, the databases of the laptops, their outboxes and   *)
(* the relay keep their shape, no page leaves a lot without its product    *)
(* (applyRows, sync.ts:690), and no cursor runs ahead of the relay.        *)
THEOREM ApplyTypeCorrect == Spec => []ApplyTypeOK
<1>1. ApplyInv => ApplyTypeOK
  <2> SUFFICES ASSUME ApplyInv PROVE ApplyTypeOK
    OBVIOUS
  <2>1. TypeInv /\ Newest \in Nat
    BY NewestIs DEF ApplyInv
  <2>2. ASSUME NEW l \in Laptops
        PROVE  /\ desk[l].prod \in Ids \cup {Nothing}
               /\ desk[l].lot \in [Lots -> Ids \cup {Nothing}]
               /\ desk[l].kept \in [Lots -> Ids \cup {Nothing}]
               /\ desk[l].queue \in [Records -> [at : 0..now, deleted : BOOLEAN]]
               /\ desk[l].cursor \in 0..Newest
               /\ Consistent(desk[l])
    <3>1. desk[l] \in Desks(now) /\ Consistent(desk[l]) /\ desk[l].cursor <= Newest
      BY <2>1 DEF TypeInv
    <3>2. desk[l].cursor \in Nat
      BY <3>1 DEF Desks
    <3>3. desk[l].cursor \in 0..Newest
      BY <2>1, <3>1, <3>2
    <3> QED BY <3>1, <3>3 DEF Desks
  <2>3. \A r \in Records : log[r].at \in 0..now
    BY <2>1 DEF TypeInv, LogRows
  <2> QED BY <2>2, <2>3 DEF ApplyTypeOK
<1> QED BY <1>1, ApplyInvariant, PTL

(* The smallest id there is on the relay lives there.                      *)
LEMMA LeastLives ==
    ASSUME RelayInv, NEW id \in Ids, InLog(id)
    PROVE  \E m \in Ids : m <= id /\ IsLeast(m) /\ ~log[m].deleted
<1> DEFINE T == {k \in Ids : InLog(k)}
<1>1. T \in SUBSET Nat /\ T # {}
  BY ApplyAssumption
<1>2. PICK m \in T : \A k \in T : m <= k
  <2> HIDE DEF T
  <2> QED BY <1>1, LeastNumber
<1>3. m <= id /\ m \in Ids /\ InLog(m)
  BY <1>2
<1>4. ~Beaten(m)
  <2> SUFFICES ASSUME NEW k \in Ids, k < m, InLog(k) PROVE FALSE
    BY DEF Beaten
  <2>1. m <= k /\ m \in Nat /\ k \in Nat
    BY <1>2, ApplyAssumption
  <2> QED BY <2>1
<1> QED BY <1>3, <1>4 DEF IsLeast, RelayInv

(* resolveTwin (sync.ts:588) buries the larger id wherever two meet, and   *)
(* only there: an id that is buried on the relay has a smaller one there   *)
(* that lives, whatever laptops resolve twins in whatever order.           *)
THEOREM DeadHaveHeirsHolds == Spec => []DeadHaveHeirs
<1>1. ApplyInv => DeadHaveHeirs
  <2> SUFFICES ASSUME ApplyInv, NEW id \in Ids, log[id].deleted
               PROVE  \E k \in Ids : k < id /\ InLog(k) /\ ~log[k].deleted
    BY DEF DeadHaveHeirs
  <2>1. RelayInv
    BY DEF ApplyInv, IdsInv
  <2>2. PICK k \in Ids : k < id /\ InLog(k)
    BY <2>1 DEF RelayInv, Beaten
  <2>3. PICK m \in Ids : m <= k /\ IsLeast(m) /\ ~log[m].deleted
    BY <2>1, <2>2, LeastLives
  <2>4. m < id
    BY <2>2, <2>3, ApplyAssumption
  <2> QED BY <2>3, <2>4 DEF IsLeast
<1> QED BY <1>1, ApplyInvariant, PTL

LEMMA ApplySurvivorOrSeed == ApplyInv => SurvivorOrSeed
<1> SUFFICES ASSUME ApplyInv, Settled, NEW l \in Laptops, Linked(l), NEW m \in Ids, IsLeast(m)
             PROVE  \/ desk[l].prod = m
                    \/ l \in Newcomers \cap Staffed /\ desk[l].prod = Seed[l] /\ Seed[l] < m
  BY DEF SurvivorOrSeed
<1>1. /\ TypeInv /\ m \in Ids /\ InLog(m) /\ ~Beaten(m) /\ m \in Records
      /\ DeskInv(l, desk[l])
      /\ Pending(desk[l]) = {} /\ NewsFor(l) = {} /\ ~IsBlank(desk[l])
  BY DEF ApplyInv, IdsInv, IsLeast, Settled, Linked, Records
<1>2. log[m].seq <= desk[l].cursor \/ log[m].by = l
  <2>1. log[m].seq \in Nat /\ desk[l].cursor \in Nat
    BY <1>1 DEF TypeInv, LogRows, Desks
  <2> QED BY <1>1, <2>1 DEF NewsFor
<1>3. desk[l].prod \in 1..m
  BY <1>1, <1>2 DEF DeskInv, SeenAt
<1>4. desk[l].prod \in Ids
  BY <1>1, <1>3 DEF TypeInv, Desks, Nothing
<1>5. m \in Nat /\ desk[l].prod \in Nat
  BY <1>1, <1>4, ApplyAssumption
<1>6. CASE InLog(desk[l].prod)
  <2>1. ~(desk[l].prod < m)
    BY <1>1, <1>4, <1>6 DEF Beaten
  <2> QED BY <1>3, <1>5, <2>1
<1>7. CASE ~InLog(desk[l].prod)
  <2>1. Unheard(l, desk[l])
    BY <1>1, <1>3, <1>7 DEF DeskInv, HeardAt, Nothing
  <2>2. l \in Newcomers \cap Staffed /\ desk[l].prod = Seed[l]
    BY <1>1, <2>1 DEF Unheard
  <2> QED BY <1>3, <1>5, <2>2
<1> QED BY <1>6, <1>7

(* Nothing left to exchange: a laptop that is linked holds the smallest id *)
(* on the relay (resolveTwin, sync.ts:588), or still the one it was        *)
(* installed with ("every install seeds the same catalog", sync.ts:382),   *)
(* where that is smaller and somebody had set the laptop up before its     *)
(* first contact.                                                          *)
THEOREM SurvivorOrSeedHolds == Spec => []SurvivorOrSeed
BY ApplySurvivorOrSeed, ApplyInvariant, PTL

(* What a replay leaves aside points at a product that is not there: a row *)
(* of the quarantine lands, or is put aside again for want of its product. *)
LEMMA ReplayedLeaves ==
    ASSUME NEW n \in Nat, NEW s \in Desks(n), NEW at \in 1..n, NEW t, t = Replayed(s, at)
    PROVE  \A x \in Aside(t) : t.kept[x] # t.prod
<1> DEFINE rows == SetToSeq(AsideRows(s))
<1>1. /\ IsRows(rows)
      /\ \A i \in DOMAIN rows : rows[i].rec \in Aside(s) /\ rows[i].rec \in Lots
      /\ \A x \in Aside(s) : \E i \in DOMAIN rows : rows[i].rec = x
  BY RowsOfAside
<1>2. t = Applied(s, rows, at)
  BY DEF Replayed, AsideRows
<1> HIDE DEF rows
<1> DEFINE Done(T) == {rows[i].rec : i \in T}
           Left(u, T) == \A x \in Lots : IF x \in Done(T) THEN u.kept[x] \in {Nothing} \/ u.kept[x] # u.prod
                                         ELSE u.kept[x] = s.kept[x]
           G == [T \in SUBSET DOMAIN rows |-> {u \in Desks(n) : Left(u, T)}]
<1>3. s \in G[{}]
  OBVIOUS
<1>4. ASSUME NEW deferred \in BOOLEAN, NEW T \in SUBSET DOMAIN rows, NEW i \in DOMAIN rows \ T,
             NEW u \in G[T]
      PROVE  Land(u, rows[i], at, deferred) \in G[T \cup {i}]
  <2>1. u \in Desks(n) /\ Left(u, T) /\ T \cup {i} \in SUBSET DOMAIN rows
    OBVIOUS
  <2>2. PICK row : row = rows[i]
    OBVIOUS
  <2>3. PICK v : v = Land(u, row, at, deferred)
    OBVIOUS
  <2>4. row \in Rows /\ row.rec \in Lots
    BY <1>1, <2>2 DEF IsRows
  <2>5. /\ v \in Desks(n) /\ v.prod = u.prod
        /\ \A x \in Lots \ {row.rec} : v.kept[x] = u.kept[x] /\ v.lot[x] = u.lot[x]
        /\ \/ v.kept[row.rec] = Nothing
           \/ ~deferred /\ v.kept[row.rec] = row.to /\ row.to # u.prod
    <3> HIDE DEF G, Left
    <3> QED BY <2>1, <2>3, <2>4, LandLotDoes
  <2>6. \A x : x \in Done(T \cup {i}) <=> x \in Done(T) \/ x = row.rec
    BY <2>2
  <2> HIDE DEF Done, G
  <2>7. Left(v, T \cup {i})
    BY <2>1, <2>4, <2>5, <2>6
  <2> HIDE DEF Left
  <2>8. v \in G[T \cup {i}]
    BY <2>1, <2>5, <2>7 DEF G
  <2> QED BY <2>2, <2>3, <2>8
<1>5. HandsOn(G, rows, at)
  <2> HIDE DEF G
  <2> QED BY <1>4 DEF HandsOn
<1>6. t \in G[DOMAIN rows]
  <2> HIDE DEF G
  <2> QED BY <1>1, <1>2, <1>3, <1>5, AppliedReaches
<1>7. Left(t, DOMAIN rows)
  BY <1>6
<1>8. \A x \in Lots : x \in Done(DOMAIN rows) <=> x \in Aside(s)
  BY <1>1
<1> HIDE DEF Done, G
<1> QED BY <1>7, <1>8 DEF Aside

(* What is put aside waits for a product the laptop does not hold: once a  *)
(* pull has drained, no lot of the product that is there is left in        *)
(* quarantine (replayQuarantined, sync.ts:1043).                           *)
THEOREM NoneLeftAsideHolds == Spec => NoneLeftAside
<1> DEFINE A == \A l \in Laptops : \A x \in Aside(desk'[l]) :
                    desk'[l].stage = "idle" /\ Pull(l) => desk'[l].kept[x] # desk'[l].prod
<1>1. ApplyInv /\ [Next]_vars => A
  <2> SUFFICES ASSUME ApplyInv, NEW l \in Laptops, NEW x \in Aside(desk'[l]),
                      desk'[l].stage = "idle", Pull(l)
               PROVE  desk'[l].kept[x] # desk'[l].prod
    OBVIOUS
  <2>1. PICK u, v, w, t :
            /\ u = LandedPage(l) /\ v = Landed(l)
            /\ v \in Desks(now + 1) /\ Consistent(v)
            /\ w = IF IsLast(l) THEN Replayed(v, now + 1) ELSE v
            /\ desk' = [desk EXCEPT ![l] = t]
            /\ t.prod = u.prod /\ t.kept = w.kept
            /\ t.stage = IF IsLast(l) THEN "idle" ELSE "pull"
    BY PulledIs
  <2>2. desk'[l] = t
    BY <2>1 DEF ApplyInv, TypeInv
  <2>3. w = Replayed(v, now + 1)
    BY <2>1, <2>2
  <2>4. now + 1 \in Nat /\ now + 1 \in 1..(now + 1)
    BY DEF ApplyInv, TypeInv
  <2>5. w.prod = v.prod /\ \A y \in Aside(w) : w.kept[y] # w.prod
    BY <2>1, <2>3, <2>4, ReplayedDoes, ReplayedLeaves
  <2>6. v.prod = u.prod
    BY <2>1, LandedIs
  <2>7. x \in Aside(w)
    BY <2>1, <2>2 DEF Aside
  <2> QED BY <2>1, <2>2, <2>5, <2>6, <2>7
<1>2. Spec => [][A]_vars
  <2> HIDE DEF A
  <2> QED BY <1>1, ApplyInvariant, PTL DEF Spec
<1> QED BY <1>2 DEF NoneLeftAside

=============================================================================
