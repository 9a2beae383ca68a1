---------------------------- MODULE Stock_proofs ----------------------------
(***************************************************************************)
(* The stock of one product, proved for any number of shelves, shops,      *)
(* purchase orders, sales orders, layers and units.                        *)
(*                                                                         *)
(* The inductive invariant is StockInv, below. The properties alone are    *)
(* not inductive: that an order can give back what it took rests on where  *)
(* each slice's layer is now (OnOwnShelf), on no receipt naming a layer    *)
(* that another one names, and on a scan or receipt that is reversed       *)
(* taking a whole layer or none of it (Papers). The layers of a shelf      *)
(* against its count are kept as a Gap, which only a misplaced reversal    *)
(* opens, and which such a reversal opens by as much as it closes          *)
(* elsewhere (Balanced).                                                   *)
(*                                                                         *)
(* Sums and folds are CHOSEN recursive functions in the library. What is   *)
(* said of them for every set or cart is proved here by contradiction: a   *)
(* smallest subset of a finite set for which the claim fails (SmallestSet) *)
(* is not empty, and the claim for that subset follows from the one        *)
(* without an element.                                                     *)
(*                                                                         *)
(* The parts, in this order: sums; the layers of a shelf; what each        *)
(* operator of the engine keeps (an arrival, a consumption, a release, a   *)
(* reversal, a taking in turn, a split); a cart saved line by line; every  *)
(* action of Stock; the theorems; and an order saved again, where the walk *)
(* over its cart is compared with the one before it, line by line.         *)
(***************************************************************************)
EXTENDS Stock, FiniteSetTheorems, SequenceTheorems, TLAPS

-----------------------------------------------------------------------------
(* Smallest sets, and sums over finite sets                                *)

(* A set of numbers that is not empty has a least one.                     *)
LEMMA LeastNumber ==
    ASSUME NEW T \in SUBSET Nat, T # {}
    PROVE  \E n \in T : \A m \in T : n <= m
<1> DEFINE R == OpToRel(<, Nat)
<1>1. IsWellFoundedOn(R, Nat)
  BY NatLessThanWellFounded, Zenon
<1>2. \A m, n \in Nat : m < n => <<m, n>> \in R
  BY DEF OpToRel
<1> HIDE DEF R
<1>3. PICK n \in T : \A m \in T : ~(<<m, n>> \in R)
  BY <1>1, WFMin
<1>4. \A m \in T : n <= m
  <2> TAKE m \in T
  <2>1. m \in Nat /\ n \in Nat
    OBVIOUS
  <2>2. ~(m < n)
    BY <1>2, <1>3, <2>1
  <2> QED BY <2>1, <2>2
<1> QED BY <1>4

(* Among subsets of a finite set there is one without an element that can  *)
(* be left out: the induction that the lemmas on sums and folds go by.     *)
LEMMA SmallestSet ==
    ASSUME NEW S, IsFiniteSet(S), NEW B \in SUBSET SUBSET S, B # {}
    PROVE  \E s \in B : \A x \in s : s \ {x} \notin B
<1> DEFINE T == {Cardinality(s) : s \in B}
<1>1. \A s \in B : IsFiniteSet(s) /\ Cardinality(s) \in Nat
  BY FS_Subset, FS_CardinalityType
<1>2. PICK n \in T : \A m \in T : n <= m
  <2>1. T \in SUBSET Nat /\ T # {}
    BY <1>1
  <2> HIDE DEF T
  <2> QED BY <2>1, LeastNumber
<1>3. PICK s \in B : Cardinality(s) = n
  OBVIOUS
<1>4. ASSUME NEW x \in s, s \ {x} \in B PROVE FALSE
  <2>1. Cardinality(s \ {x}) = Cardinality(s) - 1
    BY <1>1, FS_RemoveElement
  <2>2. n <= Cardinality(s \ {x})
    BY <1>2, <1>4
  <2> QED BY <1>1, <1>3, <2>1, <2>2
<1> QED BY <1>4

(* SumFunctionOnSet of the library chooses the function "it" that takes an *)
(* element of the set, adds its value and goes on without it.              *)
Pick(s) == CHOOSE x \in s : TRUE

IsSum(it, f, D) ==
    it = [s \in D |-> IF s = {} THEN 0 ELSE f[Pick(s)] + it[s \ {Pick(s)}]]

(* There is such a function, on all the subsets of a finite set.           *)
LEMMA SumExists ==
    ASSUME NEW f, NEW S, IsFiniteSet(S)
    PROVE  \E it : IsSum(it, f, SUBSET S)
<1> DEFINE Upto(n) == {s \in SUBSET S : Cardinality(s) <= n}
           Step(it, s) == IF s = {} THEN 0 ELSE f[Pick(s)] + it[s \ {Pick(s)}]
           B == {n \in Nat : ~ \E it : IsSum(it, f, Upto(n))}
<1>1. \A s \in SUBSET S : IsFiniteSet(s) /\ Cardinality(s) \in Nat
  BY FS_Subset, FS_CardinalityType
<1>2. ASSUME NEW n \in Nat, NEW s \in Upto(n), s # {}
      PROVE  n # 0 /\ s \ {Pick(s)} \in Upto(n - 1)
  <2>1. Pick(s) \in s
    BY <1>2 DEF Pick
  <2>2. Cardinality(s \ {Pick(s)}) = Cardinality(s) - 1
    BY <1>1, <2>1, FS_RemoveElement
  <2>3. Cardinality(s \ {Pick(s)}) \in Nat /\ Cardinality(s) \in Nat
    BY <1>1
  <2> QED BY <2>2, <2>3
<1>3. B = {}
  <2> SUFFICES ASSUME B # {} PROVE FALSE
    OBVIOUS
  <2>1. PICK n \in B : \A m \in B : n <= m
    BY LeastNumber
  <2>2. CASE n = 0
    <3> DEFINE it == [s \in Upto(n) |-> 0]
    <3>1. it = [s \in Upto(n) |-> Step(it, s)]
      BY <1>2, <2>2
    <3> QED BY <3>1, <2>1 DEF IsSum
  <2>3. CASE n # 0
    <3>1. n - 1 \in Nat /\ n - 1 \notin B
      <4>1. n \in Nat /\ n - 1 \in Nat
        BY <2>3
      <4>2. ~(n <= n - 1)
        BY <4>1
      <4> QED BY <2>1, <4>1, <4>2
    <3>2. PICK old : IsSum(old, f, Upto(n - 1))
      BY <3>1
    <3> DEFINE it == [s \in Upto(n) |-> Step(old, s)]
    <3>3. \A s \in Upto(n - 1) : s \in Upto(n) /\ it[s] = old[s]
      <4> TAKE s \in Upto(n - 1)
      <4>1. s \in Upto(n)
        BY <1>1, <3>1
      <4>2. old[s] = Step(old, s)
        BY <3>2 DEF IsSum
      <4> QED BY <4>1, <4>2
    <3>4. \A s \in Upto(n) : Step(it, s) = Step(old, s)
      BY <1>2, <3>3
    <3>5. it = [s \in Upto(n) |-> Step(it, s)]
      BY <3>4
    <3> QED BY <3>5, <2>1 DEF IsSum
  <2> QED BY <2>2, <2>3
<1>4. Cardinality(S) \in Nat
  BY FS_CardinalityType
<1>5. Upto(Cardinality(S)) = SUBSET S
  BY FS_Subset
<1> QED BY <1>3, <1>4, <1>5

(* There is only one: two of them agree wherever both are defined.         *)
LEMMA SumIsUnique ==
    ASSUME NEW f, NEW S, IsFiniteSet(S), NEW T \in SUBSET S,
           NEW g, IsSum(g, f, SUBSET S), NEW h, IsSum(h, f, SUBSET T)
    PROVE  g[T] = h[T]
<1> DEFINE B == {s \in SUBSET T : g[s] # h[s]}
<1>1. IsFiniteSet(T)
  BY FS_Subset
<1>2. ASSUME NEW s \in B, \A x \in s : s \ {x} \notin B PROVE FALSE
  <2>1. s \in SUBSET S /\ g[s] # h[s]
    OBVIOUS
  <2>2. s # {} => Pick(s) \in s
    BY DEF Pick
  <2>3. s # {} => g[s \ {Pick(s)}] = h[s \ {Pick(s)}]
    BY <1>2, <2>2
  <2>4. g[s] = IF s = {} THEN 0 ELSE f[Pick(s)] + g[s \ {Pick(s)}]
    BY <2>1 DEF IsSum
  <2>5. h[s] = IF s = {} THEN 0 ELSE f[Pick(s)] + h[s \ {Pick(s)}]
    BY DEF IsSum
  <2> QED BY <2>1, <2>3, <2>4, <2>5
<1>3. B = {}
  BY <1>1, <1>2, SmallestSet
<1> QED BY <1>3

(* The library's sum is that function.                                     *)
LEMMA SumIsIt ==
    ASSUME NEW f, NEW S
    PROVE  SumFunctionOnSet(f, S) = (CHOOSE it : IsSum(it, f, SUBSET S))[S]
BY DEF SumFunctionOnSet, FoldFunctionOnSet, MapThenFoldSet, IsSum, Pick

(* The sum over no element is 0; over others, one value and the sum of the *)
(* rest.                                                                   *)
LEMMA SumEquation ==
    ASSUME NEW f, NEW S, IsFiniteSet(S)
    PROVE  /\ SumFunctionOnSet(f, {}) = 0
           /\ S # {} => /\ Pick(S) \in S
                        /\ SumFunctionOnSet(f, S) =
                               f[Pick(S)] + SumFunctionOnSet(f, S \ {Pick(S)})
<1> DEFINE it(s) == CHOOSE g : IsSum(g, f, SUBSET s)
<1>1. ASSUME NEW s, IsFiniteSet(s) PROVE IsSum(it(s), f, SUBSET s)
  BY <1>1, SumExists
<1>2. SumFunctionOnSet(f, {}) = 0
  <2>1. IsSum(it({}), f, SUBSET {})
    BY <1>1, FS_EmptySet
  <2> HIDE DEF it
  <2>2. it({})[{}] = 0
    BY <2>1 DEF IsSum
  <2> QED BY <2>2, SumIsIt DEF it
<1>3. ASSUME S # {}
      PROVE  /\ Pick(S) \in S
             /\ SumFunctionOnSet(f, S) = f[Pick(S)] + SumFunctionOnSet(f, S \ {Pick(S)})
  <2>1. Pick(S) \in S
    BY <1>3 DEF Pick
  <2> DEFINE T == S \ {Pick(S)}
  <2>2. IsSum(it(S), f, SUBSET S)
    BY <1>1
  <2>3. IsSum(it(T), f, SUBSET T) /\ T \in SUBSET S
    BY <1>1, FS_RemoveElement
  <2> HIDE DEF it
  <2>4. ASSUME NEW g, IsSum(g, f, SUBSET S), NEW h, IsSum(h, f, SUBSET T)
        PROVE  g[T] = h[T]
    <3> HIDE DEF T
    <3> QED BY <2>3, <2>4, SumIsUnique
  <2>5. it(S)[S] = f[Pick(S)] + it(S)[T]
    BY <1>3, <2>2 DEF IsSum
  <2> QED BY <2>1, <2>2, <2>3, <2>4, <2>5, SumIsIt DEF it
<1> QED BY <1>2, <1>3

----------------------------------------------------------------------------

(* A sum of integers is an integer.                                        *)
LEMMA SumIsInt ==
    ASSUME NEW f, NEW S, IsFiniteSet(S), \A x \in S : f[x] \in Int
    PROVE  SumFunctionOnSet(f, S) \in Int
<1> DEFINE B == {s \in SUBSET S : SumFunctionOnSet(f, s) \notin Int}
<1>1. ASSUME NEW s \in B, \A x \in s : s \ {x} \notin B PROVE FALSE
  <2>1. IsFiniteSet(s) /\ \A x \in s : f[x] \in Int
    BY FS_Subset
  <2>2. s # {} => SumFunctionOnSet(f, s \ {Pick(s)}) \in Int /\ f[Pick(s)] \in Int
    BY <1>1, <2>1, SumEquation
  <2> QED BY <2>1, <2>2, SumEquation
<1> HIDE DEF B
<1>2. B = {}
  BY <1>1, SmallestSet DEF B
<1> QED BY <1>2 DEF B

(* Any element can be taken out of a sum, not only the one the library     *)
(* picks.                                                                  *)
LEMMA SumRemove ==
    ASSUME NEW f, NEW S, IsFiniteSet(S), \A y \in S : f[y] \in Int, NEW x \in S
    PROVE  SumFunctionOnSet(f, S) = f[x] + SumFunctionOnSet(f, S \ {x})
<1> DEFINE Sum(s) == SumFunctionOnSet(f, s)
           B == {s \in SUBSET S : \E y \in s : Sum(s) # f[y] + Sum(s \ {y})}
<1>1. ASSUME NEW s \in B, \A z \in s : s \ {z} \notin B PROVE FALSE
  <2>1. PICK y \in s : Sum(s) # f[y] + Sum(s \ {y})
    OBVIOUS
  <2> DEFINE p == Pick(s)
  <2>2. IsFiniteSet(s) /\ p \in s /\ p # y /\ Sum(s) = f[p] + Sum(s \ {p})
    <3>1. IsFiniteSet(s) /\ s # {}
      BY FS_Subset
    <3>2. p \in s /\ Sum(s) = f[p] + Sum(s \ {p})
      BY <3>1, SumEquation
    <3> HIDE DEF Sum, p
    <3> QED BY <2>1, <3>1, <3>2
  <2>3. Sum(s \ {p}) = f[y] + Sum((s \ {p}) \ {y})
    BY <1>1, <2>2
  <2>4. Sum(s \ {y}) = f[p] + Sum((s \ {y}) \ {p})
    BY <1>1, <2>2
  <2>5. Sum((s \ {y}) \ {p}) = Sum((s \ {p}) \ {y})
    <3>1. (s \ {y}) \ {p} = (s \ {p}) \ {y}
      OBVIOUS
    <3> QED BY <3>1
  <2>6. Sum((s \ {p}) \ {y}) \in Int /\ f[p] \in Int /\ f[y] \in Int
    <3>1. IsFiniteSet((s \ {p}) \ {y})
      BY <2>2, FS_RemoveElement
    <3> QED BY <3>1, <2>2, SumIsInt
  <2> HIDE DEF Sum, p
  <2> QED BY <2>1, <2>2, <2>3, <2>4, <2>5, <2>6
<1> HIDE DEF B
<1>2. B = {}
  BY <1>1, SmallestSet DEF B
<1> QED BY <1>2 DEF B

(* Equal values have equal sums.                                           *)
LEMMA SumSame ==
    ASSUME NEW f, NEW g, NEW S, IsFiniteSet(S), \A x \in S : f[x] = g[x]
    PROVE  SumFunctionOnSet(f, S) = SumFunctionOnSet(g, S)
<1> DEFINE B == {s \in SUBSET S : SumFunctionOnSet(f, s) # SumFunctionOnSet(g, s)}
<1>1. ASSUME NEW s \in B, \A x \in s : s \ {x} \notin B PROVE FALSE
  <2>1. IsFiniteSet(s) /\ \A x \in s : f[x] = g[x]
    BY FS_Subset
  <2>2. s # {} => /\ SumFunctionOnSet(f, s \ {Pick(s)}) = SumFunctionOnSet(g, s \ {Pick(s)})
                  /\ f[Pick(s)] = g[Pick(s)]
    BY <1>1, <2>1, SumEquation
  <2> QED BY <2>1, <2>2, SumEquation
<1> HIDE DEF B
<1>2. B = {}
  BY <1>1, SmallestSet DEF B
<1> QED BY <1>2 DEF B

(* The sum of f + g is the sum of f and the sum of g.                      *)
LEMMA SumPlus ==
    ASSUME NEW f, NEW g, NEW h, NEW S, IsFiniteSet(S),
           \A x \in S : f[x] \in Int /\ g[x] \in Int /\ h[x] = f[x] + g[x]
    PROVE  SumFunctionOnSet(h, S) = SumFunctionOnSet(f, S) + SumFunctionOnSet(g, S)
<1> DEFINE B == {s \in SUBSET S :
                   SumFunctionOnSet(h, s) # SumFunctionOnSet(f, s) + SumFunctionOnSet(g, s)}
<1>1. ASSUME NEW s \in B, \A x \in s : s \ {x} \notin B PROVE FALSE
  <2>1. IsFiniteSet(s)
    BY FS_Subset
  <2>2. ASSUME s # {} PROVE FALSE
    <3> DEFINE p == Pick(s)
               t == s \ {p}
    <3>1. /\ p \in s
          /\ SumFunctionOnSet(h, s) = h[p] + SumFunctionOnSet(h, t)
          /\ SumFunctionOnSet(f, s) = f[p] + SumFunctionOnSet(f, t)
          /\ SumFunctionOnSet(g, s) = g[p] + SumFunctionOnSet(g, t)
      BY <2>1, <2>2, SumEquation
    <3>2. SumFunctionOnSet(h, t) = SumFunctionOnSet(f, t) + SumFunctionOnSet(g, t)
      BY <1>1, <3>1
    <3>3. f[p] \in Int /\ g[p] \in Int /\ h[p] = f[p] + g[p]
      BY <3>1
    <3>4. SumFunctionOnSet(f, t) \in Int /\ SumFunctionOnSet(g, t) \in Int
      <4>1. IsFiniteSet(t) /\ t \subseteq S
        BY <2>1, FS_RemoveElement
      <4> HIDE DEF t
      <4> QED BY <4>1, SumIsInt
    <3>5. SumFunctionOnSet(h, s) # SumFunctionOnSet(f, s) + SumFunctionOnSet(g, s)
      OBVIOUS
    <3> HIDE DEF p, t
    <3> QED BY <3>1, <3>2, <3>3, <3>4, <3>5
  <2>3. CASE s = {}
    <3>1. \A k : SumFunctionOnSet(k, {}) = 0
      BY SumEquation, FS_EmptySet
    <3> QED BY <2>3, <3>1
  <2> QED BY <2>2, <2>3
<1> HIDE DEF B
<1>2. B = {}
  BY <1>1, SmallestSet DEF B
<1> QED BY <1>2 DEF B

(* Greater values have a greater sum.                                      *)
LEMMA SumOrder ==
    ASSUME NEW f, NEW g, NEW S, IsFiniteSet(S),
           \A x \in S : f[x] \in Int /\ g[x] \in Int /\ f[x] <= g[x]
    PROVE  SumFunctionOnSet(f, S) <= SumFunctionOnSet(g, S)
<1> DEFINE B == {s \in SUBSET S :
                   ~(SumFunctionOnSet(f, s) <= SumFunctionOnSet(g, s))}
<1>1. ASSUME NEW s \in B, \A x \in s : s \ {x} \notin B PROVE FALSE
  <2>1. IsFiniteSet(s)
    BY FS_Subset
  <2>2. ASSUME s # {} PROVE FALSE
    <3> DEFINE p == Pick(s)
               t == s \ {p}
    <3>1. /\ p \in s
          /\ SumFunctionOnSet(f, s) = f[p] + SumFunctionOnSet(f, t)
          /\ SumFunctionOnSet(g, s) = g[p] + SumFunctionOnSet(g, t)
      BY <2>1, <2>2, SumEquation
    <3>2. SumFunctionOnSet(f, t) <= SumFunctionOnSet(g, t)
      BY <1>1, <3>1
    <3>3. f[p] \in Int /\ g[p] \in Int /\ f[p] <= g[p]
      BY <3>1
    <3>4. SumFunctionOnSet(f, t) \in Int /\ SumFunctionOnSet(g, t) \in Int
      <4>1. IsFiniteSet(t) /\ t \subseteq S
        BY <2>1, FS_RemoveElement
      <4> HIDE DEF t
      <4> QED BY <4>1, SumIsInt
    <3>5. ~(SumFunctionOnSet(f, s) <= SumFunctionOnSet(g, s))
      OBVIOUS
    <3> HIDE DEF p, t
    <3> QED BY <3>1, <3>2, <3>3, <3>4, <3>5
  <2>3. CASE s = {}
    <3>1. \A k : SumFunctionOnSet(k, {}) = 0
      BY SumEquation, FS_EmptySet
    <3> QED BY <2>3, <3>1
  <2> QED BY <2>2, <2>3
<1> HIDE DEF B
<1>2. B = {}
  BY <1>1, SmallestSet DEF B
<1> QED BY <1>2 DEF B

(* Zeros add up to zero.                                                   *)
LEMMA SumZero ==
    ASSUME NEW f, NEW S, IsFiniteSet(S), \A x \in S : f[x] = 0
    PROVE  SumFunctionOnSet(f, S) = 0
<1>1. SumFunctionOnSet(f, S) = SumFunctionOnSet(f, S) + SumFunctionOnSet(f, S)
  BY SumPlus
<1>2. SumFunctionOnSet(f, S) \in Int
  BY SumIsInt
<1> QED BY <1>1, <1>2

(* Naturals add up to a natural, which none of them exceeds.               *)
LEMMA SumIsNat ==
    ASSUME NEW f, NEW S, IsFiniteSet(S), \A x \in S : f[x] \in Nat
    PROVE  /\ SumFunctionOnSet(f, S) \in Nat
           /\ \A x \in S : f[x] <= SumFunctionOnSet(f, S)
<1>1. ASSUME NEW s \in SUBSET S PROVE SumFunctionOnSet(f, s) \in Nat
  <2> DEFINE z == [x \in s |-> 0]
  <2>1. IsFiniteSet(s)
    BY FS_Subset
  <2>2. SumFunctionOnSet(z, s) = 0
    BY <2>1, SumZero
  <2>3. SumFunctionOnSet(f, s) \in Int
    BY <2>1, SumIsInt
  <2>4. SumFunctionOnSet(z, s) <= SumFunctionOnSet(f, s)
    <3>1. \A x \in s : z[x] \in Int /\ f[x] \in Int /\ z[x] <= f[x]
      OBVIOUS
    <3> HIDE DEF z
    <3> QED BY <2>1, <3>1, SumOrder
  <2> QED BY <2>2, <2>3, <2>4
<1>2. ASSUME NEW x \in S PROVE f[x] <= SumFunctionOnSet(f, S)
  <2>1. SumFunctionOnSet(f, S) = f[x] + SumFunctionOnSet(f, S \ {x})
    BY SumRemove
  <2>2. SumFunctionOnSet(f, S \ {x}) \in Nat
    BY <1>1
  <2> QED BY <2>1, <2>2
<1> QED BY <1>1, <1>2

(* Zeros can be left out of a sum.                                         *)
LEMMA SumWithin ==
    ASSUME NEW f, NEW S, IsFiniteSet(S), NEW T \in SUBSET S,
           \A x \in S : f[x] \in Int, \A x \in S \ T : f[x] = 0
    PROVE  SumFunctionOnSet(f, S) = SumFunctionOnSet(f, T)
<1> DEFINE B == {s \in SUBSET S : T \subseteq s /\ SumFunctionOnSet(f, s) # SumFunctionOnSet(f, T)}
<1>1. ASSUME NEW s \in B, \A x \in s : s \ {x} \notin B PROVE FALSE
  <2>1. IsFiniteSet(s) /\ T \subseteq s /\ s # T
    BY FS_Subset
  <2>2. PICK x \in s : x \notin T
    BY <2>1
  <2>3. SumFunctionOnSet(f, s) = f[x] + SumFunctionOnSet(f, s \ {x})
    BY <2>1, SumRemove
  <2>4. f[x] = 0 /\ SumFunctionOnSet(f, s \ {x}) = SumFunctionOnSet(f, T)
    BY <1>1, <2>1, <2>2
  <2>5. SumFunctionOnSet(f, T) \in Int
    BY FS_Subset, SumIsInt
  <2>6. SumFunctionOnSet(f, s) # SumFunctionOnSet(f, T)
    OBVIOUS
  <2> QED BY <2>3, <2>4, <2>5, <2>6
<1>2. B \in SUBSET SUBSET S
  OBVIOUS
<1> HIDE DEF B
<1>3. B = {}
  BY <1>1, <1>2, SmallestSet
<1> QED BY <1>3 DEF B

(* A sum when one value changes.                                           *)
LEMMA SumChange ==
    ASSUME NEW f, NEW g, NEW S, IsFiniteSet(S), NEW x \in S,
           \A y \in S : f[y] \in Int /\ g[y] \in Int,
           \A y \in S \ {x} : g[y] = f[y]
    PROVE  SumFunctionOnSet(g, S) = SumFunctionOnSet(f, S) - f[x] + g[x]
<1> DEFINE t == S \ {x}
<1>1. IsFiniteSet(t)
  BY FS_RemoveElement
<1>2. SumFunctionOnSet(f, S) = f[x] + SumFunctionOnSet(f, t)
  BY SumRemove
<1>3. SumFunctionOnSet(g, S) = g[x] + SumFunctionOnSet(g, t)
  BY SumRemove
<1>4. SumFunctionOnSet(f, t) \in Int /\ SumFunctionOnSet(f, t) = SumFunctionOnSet(g, t)
  BY <1>1, SumIsInt, SumSame
<1>5. f[x] \in Int /\ g[x] \in Int
  OBVIOUS
<1> HIDE DEF t
<1> QED BY <1>2, <1>3, <1>4, <1>5

(* The sum over one element.                                               *)
LEMMA SumOne ==
    ASSUME NEW f, NEW x, f[x] \in Int
    PROVE  SumFunctionOnSet(f, {x}) = f[x]
<1>1. IsFiniteSet({x})
  BY FS_Singleton
<1>2. SumFunctionOnSet(f, {x}) = f[x] + SumFunctionOnSet(f, {x} \ {x})
  BY <1>1, SumRemove
<1>3. {x} \ {x} = {}
  OBVIOUS
<1>4. SumFunctionOnSet(f, {}) = 0
  BY SumEquation, FS_EmptySet
<1> QED BY <1>2, <1>3, <1>4

(* Renaming the elements one to one leaves the sum alone.                  *)
LEMMA SumReindex ==
    ASSUME NEW S, IsFiniteSet(S), NEW h, \A x, y \in S : h[x] = h[y] => x = y,
           NEW f, NEW g, \A x \in S : f[x] \in Int /\ g[h[x]] = f[x]
    PROVE  /\ IsFiniteSet({h[x] : x \in S})
           /\ SumFunctionOnSet(g, {h[x] : x \in S}) = SumFunctionOnSet(f, S)
<1> DEFINE Im(s) == {h[x] : x \in s}
           B == {s \in SUBSET S : ~ /\ IsFiniteSet(Im(s))
                                    /\ SumFunctionOnSet(g, Im(s)) = SumFunctionOnSet(f, s)}
<1>1. ASSUME NEW s \in B, \A x \in s : s \ {x} \notin B PROVE FALSE
  <2>1. IsFiniteSet(s)
    BY FS_Subset
  <2>2. ~(IsFiniteSet(Im(s)) /\ SumFunctionOnSet(g, Im(s)) = SumFunctionOnSet(f, s))
    OBVIOUS
  <2>3. CASE s = {}
    <3>1. Im(s) = {}
      BY <2>3
    <3>2. \A k : SumFunctionOnSet(k, {}) = 0
      BY SumEquation, FS_EmptySet
    <3> QED BY <2>2, <2>3, <3>1, <3>2, FS_EmptySet
  <2>4. CASE s # {}
    <3>1. PICK p \in s : TRUE
      BY <2>4
    <3> DEFINE t == s \ {p}
    <3>2. IsFiniteSet(Im(t)) /\ SumFunctionOnSet(g, Im(t)) = SumFunctionOnSet(f, t)
      BY <1>1
    <3>3. Im(s) = Im(t) \cup {h[p]} /\ Im(s) \ {h[p]} = Im(t) /\ h[p] \in Im(s)
      OBVIOUS
    <3>4. IsFiniteSet(Im(s))
      <4> HIDE DEF Im, t
      <4> QED BY <3>2, <3>3, FS_AddElement
    <3>5. \A y \in Im(s) : g[y] \in Int
      OBVIOUS
    <3>6. SumFunctionOnSet(f, s) = f[p] + SumFunctionOnSet(f, t)
      BY <2>1, SumRemove
    <3>7. g[h[p]] = f[p]
      OBVIOUS
    <3> HIDE DEF Im, t
    <3>8. SumFunctionOnSet(g, Im(s)) = g[h[p]] + SumFunctionOnSet(g, Im(s) \ {h[p]})
      BY <3>3, <3>4, <3>5, SumRemove
    <3> QED BY <2>2, <3>2, <3>3, <3>4, <3>6, <3>7, <3>8
  <2> QED BY <2>3, <2>4
<1>2. B \in SUBSET SUBSET S
  OBVIOUS
<1> HIDE DEF B
<1>3. B = {}
  BY <1>1, <1>2, SmallestSet
<1> QED BY <1>3 DEF B

(* A table a, by rows and as b by columns, with the sums of its rows and of  *)
(* its columns.                                                              *)
Grid(S, T, a, b, r, c) ==
    /\ IsFiniteSet(S) /\ IsFiniteSet(T)
    /\ \A x \in S, y \in T : a[x][y] \in Int /\ b[y][x] = a[x][y]
    /\ \A x \in S : r[x] = SumFunctionOnSet(a[x], T)
    /\ \A y \in T : c[y] = SumFunctionOnSet(b[y], S)

(* The sums of the rows add up to what the sums of the columns do.         *)
LEMMA SumSwap ==
    ASSUME NEW S, NEW T, NEW a, NEW b, NEW r, NEW c, Grid(S, T, a, b, r, c)
    PROVE  SumFunctionOnSet(r, S) = SumFunctionOnSet(c, T)
<1> USE DEF Grid
<1> DEFINE col(y) == b[y]
           C(s) == [y \in T |-> SumFunctionOnSet(col(y), s)]
           B == {s \in SUBSET S : SumFunctionOnSet(r, s) # SumFunctionOnSet(C(s), T)}
<1>0. \A s \in SUBSET S : IsFiniteSet(s)
  BY FS_Subset
<1>1. ASSUME NEW s \in B, \A x \in s : s \ {x} \notin B PROVE FALSE
  <2>1. IsFiniteSet(s)
    BY <1>0
  <2>2. SumFunctionOnSet(r, s) # SumFunctionOnSet(C(s), T)
    OBVIOUS
  <2>3. CASE s = {}
    <3>1. \A k : SumFunctionOnSet(k, {}) = 0
      BY SumEquation, FS_EmptySet
    <3>2. \A y \in T : C(s)[y] = 0
      BY <2>3, <3>1
    <3> HIDE DEF C
    <3>3. SumFunctionOnSet(C(s), T) = 0
      BY <3>2, SumZero
    <3> QED BY <2>2, <2>3, <3>1, <3>3
  <2>4. CASE s # {}
    <3>1. PICK p \in s : TRUE
      BY <2>4
    <3> DEFINE t == s \ {p}
    <3>2. SumFunctionOnSet(r, t) = SumFunctionOnSet(C(t), T)
      BY <1>1
    <3>3. \A y \in T : /\ C(t)[y] \in Int /\ a[p][y] \in Int
                       /\ C(s)[y] = a[p][y] + C(t)[y]
      <4> TAKE y \in T
      <4>1. \A x \in s : col(y)[x] \in Int
        OBVIOUS
      <4>2. col(y)[p] = a[p][y]
        OBVIOUS
      <4>3. C(s)[y] = SumFunctionOnSet(col(y), s) /\ C(t)[y] = SumFunctionOnSet(col(y), t)
        OBVIOUS
      <4>4. IsFiniteSet(t) /\ \A x \in t : col(y)[x] \in Int
        BY <2>1, FS_RemoveElement
      <4> HIDE DEF col, C, t
      <4>5. SumFunctionOnSet(col(y), t) \in Int
        BY <4>4, SumIsInt
      <4>6. SumFunctionOnSet(col(y), s) = col(y)[p] + SumFunctionOnSet(col(y), t)
        BY <2>1, <4>1, SumRemove DEF t
      <4> QED BY <4>2, <4>3, <4>5, <4>6
    <3>4. \A x \in s : r[x] \in Int
      <4> TAKE x \in s
      <4>1. r[x] = SumFunctionOnSet(a[x], T) /\ \A y \in T : a[x][y] \in Int
        OBVIOUS
      <4> QED BY <4>1, SumIsInt
    <3>5. SumFunctionOnSet(r, s) = r[p] + SumFunctionOnSet(r, t)
      BY <2>1, <3>4, SumRemove
    <3>6. r[p] = SumFunctionOnSet(a[p], T)
      OBVIOUS
    <3> HIDE DEF C, t
    <3>7. SumFunctionOnSet(C(s), T) = SumFunctionOnSet(a[p], T) + SumFunctionOnSet(C(t), T)
      BY <3>3, SumPlus
    <3> QED BY <2>2, <3>2, <3>5, <3>6, <3>7
  <2> QED BY <2>3, <2>4
<1>2. B \in SUBSET SUBSET S
  OBVIOUS
<1>3. B = {}
  <2> HIDE DEF B
  <2> QED BY <1>1, <1>2, SmallestSet
<1>4. SumFunctionOnSet(r, S) = SumFunctionOnSet(C(S), T)
  BY <1>3
<1>5. \A y \in T : C(S)[y] = c[y]
  OBVIOUS
<1> HIDE DEF C, B
<1> QED BY <1>4, <1>5, SumSame

-----------------------------------------------------------------------------
(* The layers of a shelf, and the papers that name them                    *)

(* What holds of the layers themselves (inventory_lots): none has more     *)
(* left than it received, and those that exist were opened in turn.        *)
Layers(d) ==
    /\ d \in Databases
    /\ \A i \in Lots :
        /\ d.lots[i].remaining <= d.lots[i].received
        /\ Exists(d, i) => /\ d.lots[i].received > 0 /\ i < d.next
                           /\ d.lots[i].since < d.next

(* What holds of the receipts (po_line_receipts) and the scans that can be *)
(* undone: an order's receipts add up to what it checked in; a receipt is  *)
(* for the whole of a layer, and for a layer no other order's receipt      *)
(* names; a scan is for its whole layer, or the layer was split and has    *)
(* less; a scan of an order has a receipt while its layer exists. So what  *)
(* a reversal takes back is all of a layer or nothing.                     *)
Papers(d) ==
    /\ \A doc \in Docs : SumFunction(d.receipts[doc]) = d.checked[doc]
    /\ \A doc \in Docs, i \in Lots : d.receipts[doc][i] # 0 =>
           /\ Exists(d, i) /\ d.receipts[doc][i] = d.lots[i].received
           /\ \A other \in Docs \ {doc} : d.receipts[other][i] = 0
    /\ \A i \in Lots : d.scans[i] # NoScan =>
           /\ i < d.next
           /\ d.scans[i].quantity > 0 /\ d.lots[i].received <= d.scans[i].quantity
           /\ \A doc \in Docs : d.receipts[doc][i] # 0 => doc = d.scans[i].doc
           /\ d.scans[i].doc # NoPo /\ Exists(d, i) => d.receipts[d.scans[i].doc][i] # 0

Sound(d) == Layers(d) /\ Papers(d)

(* The units of the layers on one shelf, and what its count has beyond     *)
(* them.                                                                   *)
ShareAt(d, l) == [i \in Lots |-> IF d.lots[i].location = l THEN d.lots[i].remaining ELSE 0]
OnShelf(d, l) == SumFunctionOnSet(ShareAt(d, l), Lots)
Gap(d)        == [l \in Locations |-> d.stock[l] - OnShelf(d, l)]

(* What the assumption says of the finite sets that are summed over, ...   *)
LEMMA LotsFinite == /\ IsFiniteSet(Lots) /\ Lots \subseteq Nat /\ MaxLots \in Nat /\ MaxQty \in Nat
                    /\ IsFiniteSet(Locations) /\ IsFiniteSet(Sales) /\ 0 \notin Lots
<1>1. MaxLots \in Nat /\ MaxQty \in Nat /\ IsFiniteSet(Locations) /\ IsFiniteSet(Sales)
  BY StockAssumption
<1>2. IsFiniteSet(Lots)
  BY <1>1, FS_Interval DEF Lots
<1> QED BY <1>1, <1>2 DEF Lots

(* ... and of the documents: shops are no purchase orders, and no document *)
(* is NoPo.                                                                *)
LEMMA DocsApart == /\ Shops \subseteq Locations /\ Dock \in Locations /\ Dock \notin Shops
                   /\ Pos \cap Shops = {} /\ NoPo \notin Docs /\ Pos \subseteq Docs /\ Shops \subseteq Docs
BY StockAssumption DEF Docs

(* The types of the tables, field by field.                                *)
LEMMA DbParts ==
    ASSUME NEW d \in Databases
    PROVE  /\ d.lots \in [Lots -> LotRows]
           /\ d.stock \in [Locations -> Int]
           /\ d.receipts \in [Docs -> [Lots -> Nat]]
           /\ d.checked \in [Docs -> Nat]
           /\ d.scans \in [Lots -> Scans]
           /\ d.next \in Nat /\ d.next > 0 /\ d.next <= MaxLots + 1
           /\ \A i \in Lots : /\ d.lots[i].location \in Locations
                              /\ d.lots[i].received \in Nat
                              /\ d.lots[i].remaining \in Nat
                              /\ d.lots[i].since \in Nat
                              /\ d.scans[i].doc \in Pos \cup {NoPo}
                              /\ d.scans[i].location \in Locations
                              /\ d.scans[i].quantity \in Nat
           /\ \A doc \in Docs, i \in Lots : d.receipts[doc][i] \in Nat
<1>1. /\ d.lots \in [Lots -> LotRows]
      /\ d.stock \in [Locations -> Int]
      /\ d.receipts \in [Docs -> [Lots -> Nat]]
      /\ d.checked \in [Docs -> Nat]
      /\ d.scans \in [Lots -> Scans]
      /\ d.next \in 1..(MaxLots + 1)
  BY DEF Databases
<1>2. d.next \in Nat /\ d.next > 0 /\ d.next <= MaxLots + 1
  BY <1>1, LotsFinite
<1> QED BY <1>1, <1>2 DEF LotRows, Scans

(* What a layer that exists, and one that does not, looks like.            *)
LEMMA SoundParts ==
    ASSUME NEW d, Layers(d), NEW i \in Lots
    PROVE  /\ d.lots[i].remaining <= d.lots[i].received
           /\ Exists(d, i) <=> d.lots[i].received > 0
           /\ d.lots[i].received > 0 => i < d.next /\ d.lots[i].since < d.next
           /\ ~Exists(d, i) => d.lots[i] = NoLot /\ d.lots[i].received = 0 /\ d.lots[i].remaining = 0
                               /\ d.lots[i].location = Dock
<1>1. d \in Databases /\ d.lots[i].received \in Nat
  BY DbParts DEF Layers
<1> QED BY <1>1 DEF Layers, Exists, NoLot

(* OnShelf is what assertStockLotsConsistent (lots.ts) adds up: the open   *)
(* layers that are at the shelf.                                           *)
LEMMA ShelfIsOpenLots ==
    ASSUME NEW d \in Databases, NEW l
    PROVE  Remaining(d, OpenAt(d, l)) = OnShelf(d, l)
<1> DEFINE rem == [i \in Lots |-> d.lots[i].remaining]
<1>1. \A i \in Lots : ShareAt(d, l)[i] \in Int /\ d.lots[i].remaining \in Nat
  BY DbParts DEF ShareAt
<1>2. OpenAt(d, l) \in SUBSET Lots
  BY DEF OpenAt
<1>3. \A i \in Lots \ OpenAt(d, l) : ShareAt(d, l)[i] = 0
  BY <1>1 DEF OpenAt, ShareAt
<1>4. SumFunctionOnSet(ShareAt(d, l), Lots) = SumFunctionOnSet(ShareAt(d, l), OpenAt(d, l))
  BY <1>1, <1>2, <1>3, LotsFinite, SumWithin
<1>5. \A i \in OpenAt(d, l) : rem[i] = ShareAt(d, l)[i]
  BY DEF OpenAt, ShareAt
<1>6. IsFiniteSet(OpenAt(d, l))
  BY <1>2, LotsFinite, FS_Subset
<1>7. SumFunctionOnSet(rem, OpenAt(d, l)) = SumFunctionOnSet(ShareAt(d, l), OpenAt(d, l))
  <2> HIDE DEF rem
  <2> QED BY <1>5, <1>6, SumSame
<1> QED BY <1>4, <1>7 DEF OnShelf, Remaining

(* A shelf holds a number of units that is not negative.                   *)
LEMMA ShelfIsNat ==
    ASSUME NEW d \in Databases, NEW l
    PROVE  OnShelf(d, l) \in Nat
<1>1. \A i \in Lots : ShareAt(d, l)[i] \in Nat
  BY DbParts DEF ShareAt
<1> QED BY <1>1, LotsFinite, SumIsNat DEF OnShelf

(* When shares change layer by layer, the shelf changes by the sum.        *)
LEMMA ShelfChanges ==
    ASSUME NEW d \in Databases, NEW e \in Databases, NEW l, NEW change,
           \A i \in Lots : change[i] \in Int /\ ShareAt(e, l)[i] = ShareAt(d, l)[i] + change[i]
    PROVE  OnShelf(e, l) = OnShelf(d, l) + SumFunctionOnSet(change, Lots)
<1>1. \A i \in Lots : ShareAt(d, l)[i] \in Int
  BY DbParts DEF ShareAt
<1>2. \A i \in Lots : /\ ShareAt(d, l)[i] \in Int /\ change[i] \in Int
                      /\ ShareAt(e, l)[i] = ShareAt(d, l)[i] + change[i]
  BY <1>1
<1>3. SumFunctionOnSet(ShareAt(e, l), Lots) =
          SumFunctionOnSet(ShareAt(d, l), Lots) + SumFunctionOnSet(change, Lots)
  <2>1. IsFiniteSet(Lots)
    BY LotsFinite
  <2> DEFINE f == ShareAt(d, l)
             h == ShareAt(e, l)
  <2>2. \A i \in Lots : f[i] \in Int /\ change[i] \in Int /\ h[i] = f[i] + change[i]
    BY <1>2
  <2> HIDE DEF f, h
  <2>3. SumFunctionOnSet(h, Lots) = SumFunctionOnSet(f, Lots) + SumFunctionOnSet(change, Lots)
    BY <2>1, <2>2, SumPlus
  <2> QED BY <2>3 DEF f, h
<1> QED BY <1>3 DEF OnShelf

-----------------------------------------------------------------------------
(* Arrivals: addStock and receivePoLine (lots.ts, purchaseOrders.ts)       *)

(* From d to e, n units come to the shelf l as a layer of their own, on    *)
(* the receipt of doc or of none, with or without a scan.                  *)
Arrives(d, e, l, n, doc, scan) ==
    /\ e \in Databases
    /\ e.lots = [d.lots EXCEPT ![d.next] =
                    [location |-> l, received |-> n, remaining |-> n, since |-> d.next]]
    /\ e.stock = [d.stock EXCEPT ![l] = @ + n]
    /\ \A other \in Docs, i \in Lots :
           e.receipts[other][i] = IF other = doc /\ i = d.next THEN n ELSE d.receipts[other][i]
    /\ \A other \in Docs :
           e.checked[other] = IF other = doc THEN d.checked[other] + n ELSE d.checked[other]
    /\ \A i \in Lots : e.scans[i] = IF i = d.next THEN scan ELSE d.scans[i]
    /\ e.next = d.next + 1

(* Nothing yet names the number of the layer that is opened next.          *)
LEMMA NextIsFree ==
    ASSUME NEW d, Sound(d), HasRoom(d, 1)
    PROVE  /\ d \in Databases /\ d.next \in Lots /\ d.next + 1 \in 1..(MaxLots + 1)
           /\ d.scans[d.next] = NoScan
           /\ \A doc \in Docs : d.receipts[doc][d.next] = 0
           /\ ~Exists(d, d.next)
<1>1. d \in Databases
  BY DEF Sound, Layers
<1>2. d.next \in Nat /\ d.next > 0 /\ d.next <= MaxLots
  BY <1>1, DbParts, LotsFinite DEF HasRoom
<1>3. d.next \in Lots /\ d.next + 1 \in 1..(MaxLots + 1)
  BY <1>2, LotsFinite DEF Lots
<1>4. ~Exists(d, d.next) /\ d.scans[d.next] = NoScan
  BY <1>2, <1>3 DEF Sound, Layers, Papers
<1>5. \A doc \in Docs : d.receipts[doc][d.next] = 0
  BY <1>3, <1>4 DEF Sound, Papers
<1> QED BY <1>1, <1>3, <1>4, <1>5

(* Added and Received, with the scan they may leave, are arrivals.         *)
LEMMA Arrivals ==
    ASSUME NEW d, Sound(d), NEW l \in Locations, NEW n \in Nat, HasRoom(d, 1), NEW e
    PROVE  /\ e = Added(d, l, n) => Arrives(d, e, l, n, NoPo, NoScan)
           /\ \A scan \in Scans :
                  e = [Added(d, l, n) EXCEPT !.scans[d.next] = scan] => Arrives(d, e, l, n, NoPo, scan)
           /\ \A doc \in Docs : e = Received(d, doc, l, n) => Arrives(d, e, l, n, doc, NoScan)
           /\ \A doc \in Docs, scan \in Scans :
                  e = [Received(d, doc, l, n) EXCEPT !.scans[d.next] = scan] =>
                      Arrives(d, e, l, n, doc, scan)
<1> DEFINE lot == [location |-> l, received |-> n, remaining |-> n, since |-> d.next]
           a == Added(d, l, n)
<1>1. /\ d \in Databases /\ d.next \in Lots /\ d.next + 1 \in 1..(MaxLots + 1)
      /\ d.scans[d.next] = NoScan /\ NoPo \notin Docs
  BY NextIsFree, DocsApart
<1>2. lot \in LotRows
  BY <1>1, LotsFinite DEF LotRows
<1>3. Arrives(d, a, l, n, NoPo, NoScan) /\ a.receipts = d.receipts /\ a.checked = d.checked /\ a.scans = d.scans
  <2>1. Bump(d, l, n) \in Databases
    BY <1>1 DEF Bump, Databases
  <2>2. a \in Databases
    <3> DEFINE b == Bump(d, l, n)
    <3>1. a = [b EXCEPT !.lots[d.next] = lot, !.next = @ + 1]
      BY DEF Added
    <3>2. b \in Databases /\ b.next = d.next
      BY <1>1, <2>1 DEF Bump, Databases
    <3>3. [b.lots EXCEPT ![d.next] = lot] \in [Lots -> LotRows]
      BY <3>2, <1>2 DEF Databases
    <3> HIDE DEF a, b, lot
    <3> QED BY <1>1, <3>1, <3>2, <3>3 DEF Databases
  <2>3. a.lots = [d.lots EXCEPT ![d.next] = lot] /\ a.stock = [d.stock EXCEPT ![l] = @ + n] /\ a.next = d.next + 1
    BY <1>1 DEF Added, Bump, Databases
  <2>4. a.receipts = d.receipts /\ a.checked = d.checked /\ a.scans = d.scans
    BY <1>1 DEF Added, Bump, Databases
  <2> HIDE DEF a
  <2> QED BY <1>1, <2>2, <2>3, <2>4 DEF Arrives
<1> HIDE DEF a, lot
<1>4. ASSUME NEW b, Arrives(d, b, l, n, NoPo, NoScan), b.receipts = d.receipts, b.checked = d.checked, NEW doc \in Docs,
             NEW c, c = [b EXCEPT !.receipts[doc][d.next] = n, !.checked[doc] = @ + n]
      PROVE Arrives(d, c, l, n, doc, NoScan)
  <2>1. b \in Databases
    BY <1>4 DEF Arrives
  <2>2. /\ c.receipts = [b.receipts EXCEPT ![doc][d.next] = n] /\ c.checked = [b.checked EXCEPT ![doc] = @ + n]
        /\ c.lots = b.lots /\ c.stock = b.stock /\ c.scans = b.scans /\ c.next = b.next
    BY <2>1, <1>4 DEF Databases
  <2>3. c \in Databases
    <3>1. [b.receipts EXCEPT ![doc][d.next] = n] \in [Docs -> [Lots -> Nat]]
      BY <1>1, <2>1 DEF Databases
    <3>2. [b.checked EXCEPT ![doc] = @ + n] \in [Docs -> Nat]
      BY <1>1, <2>1 DEF Databases
    <3> QED BY <2>1, <3>1, <3>2, <1>4 DEF Databases
  <2>4. \A other \in Docs, i \in Lots :
           c.receipts[other][i] = IF other = doc /\ i = d.next THEN n ELSE d.receipts[other][i]
    BY <1>1, <2>2, <1>4 DEF Databases
  <2>5. \A other \in Docs :
           c.checked[other] = IF other = doc THEN d.checked[other] + n ELSE d.checked[other]
    BY <1>1, <2>2, <1>4 DEF Databases
  <2> QED BY <1>4, <2>2, <2>3, <2>4, <2>5 DEF Arrives
<1>5. ASSUME NEW b, NEW doc, Arrives(d, b, l, n, doc, NoScan), NEW scan \in Scans,
             NEW c, c = [b EXCEPT !.scans[d.next] = scan]
      PROVE Arrives(d, c, l, n, doc, scan)
  <2>1. b \in Databases
    BY <1>5 DEF Arrives
  <2>2. /\ c.scans = [b.scans EXCEPT ![d.next] = scan]
        /\ c.lots = b.lots /\ c.stock = b.stock /\ c.receipts = b.receipts /\ c.checked = b.checked /\ c.next = b.next
    BY <2>1, <1>5 DEF Databases
  <2>3. c \in Databases
    BY <2>1, <1>5 DEF Databases
  <2>4. \A i \in Lots : c.scans[i] = IF i = d.next THEN scan ELSE d.scans[i]
    BY <1>1, <2>1, <2>2, <1>5 DEF Arrives, Databases
  <2> QED BY <1>5, <2>2, <2>3, <2>4 DEF Arrives
<1>6. \A doc \in Docs : Arrives(d, Received(d, doc, l, n), l, n, doc, NoScan)
  BY <1>3, <1>4 DEF Received, a
<1> QED BY <1>3, <1>5, <1>6 DEF a

(* What every step must do for the orders that are owed the units "owed":  *)
(* the tables stay sound, the units can still be given back, and to the    *)
(* shelf they came from.                                                   *)
Safe(d, e, owed) ==
    /\ Sound(e)
    /\ Restorable(e, owed)
    /\ \A i \in Lots : owed[i] > 0 => e.lots[i].location = d.lots[i].location

(* An arrival as the actions make them.                                    *)
Arriving(d, e, l, n, doc, scan) ==
    /\ Sound(d) /\ HasRoom(d, 1)
    /\ l \in Locations /\ n \in Nat /\ n > 0 /\ doc \in Docs \cup {NoPo} /\ scan \in Scans
    /\ scan = NoScan \/ (scan.doc = doc /\ scan.quantity = n)
    /\ Arrives(d, e, l, n, doc, scan)

(* An arrival is safe, and adds as much to a shelf's layers as to its      *)
(* count.                                                                  *)
LEMMA ArrivalKeeps ==
    ASSUME NEW d, NEW e, NEW l, NEW n, NEW doc, NEW scan, Arriving(d, e, l, n, doc, scan),
           NEW owed \in Slices, Restorable(d, owed)
    PROVE  /\ Safe(d, e, owed)
           /\ \A m \in Locations : Gap(e)[m] = Gap(d)[m]
<1>0. /\ Sound(d) /\ HasRoom(d, 1)
      /\ l \in Locations /\ n \in Nat /\ n > 0 /\ doc \in Docs \cup {NoPo} /\ scan \in Scans
      /\ scan = NoScan \/ (scan.doc = doc /\ scan.quantity = n)
      /\ Arrives(d, e, l, n, doc, scan)
  BY DEF Arriving
<1> USE <1>0
<1> DEFINE k == d.next
<1>1. /\ d \in Databases /\ e \in Databases /\ k \in Lots /\ e.next = k + 1 /\ k \in Nat
      /\ \A other \in Docs : d.receipts[other][k] = 0
      /\ ~Exists(d, k)
  BY NextIsFree, LotsFinite DEF Arrives
<1>2. \A i \in Lots : e.lots[i] = IF i = k THEN [location |-> l, received |-> n, remaining |-> n, since |-> k]
                                 ELSE d.lots[i]
  BY <1>1 DEF Arrives, Databases
<1>3. Layers(d) /\ Papers(d)
  BY DEF Sound
<1>4. e.lots[k] # NoLot
  BY <1>1, <1>2 DEF NoLot
<1>5. \A i \in Lots : Exists(e, i) <=> i = k \/ Exists(d, i)
  BY <1>1, <1>2, <1>4 DEF Exists
<1>6. Layers(e)
  <2> SUFFICES ASSUME NEW i \in Lots
               PROVE  /\ e.lots[i].remaining <= e.lots[i].received
                      /\ Exists(e, i) => /\ e.lots[i].received > 0 /\ i < e.next
                                         /\ e.lots[i].since < e.next
    BY <1>1 DEF Layers
  <2>1. CASE i = k
    BY <2>1, <1>1, <1>2
  <2>2. CASE i # k
    <3>1. i \in Nat /\ d.lots[i].since \in Nat
      BY <1>1, DbParts, LotsFinite
    <3> QED BY <2>2, <3>1, <1>1, <1>2, <1>3, <1>5 DEF Layers
  <2> QED BY <2>1, <2>2
<1>7. Papers(e)
  <2>1. ASSUME NEW other \in Docs PROVE SumFunction(e.receipts[other]) = e.checked[other]
    <3> DEFINE f == d.receipts[other]
               g == e.receipts[other]
    <3>1. /\ f \in [Lots -> Nat] /\ g \in [Lots -> Nat]
          /\ e.checked[other] = IF other = doc THEN d.checked[other] + n ELSE d.checked[other]
          /\ \A i \in Lots : g[i] = IF other = doc /\ i = k THEN n ELSE f[i]
          /\ f[k] = 0 /\ d.checked[other] \in Nat
      BY <1>1, DbParts DEF Arrives
    <3>2. SumFunctionOnSet(f, Lots) = d.checked[other]
      BY <3>1, <1>3 DEF Papers, SumFunction
    <3> HIDE DEF f, g
    <3>3. SumFunctionOnSet(g, Lots) = SumFunctionOnSet(f, Lots) - f[k] + g[k]
      <4>1. \A y \in Lots : f[y] \in Int /\ g[y] \in Int
        BY <3>1
      <4>2. \A y \in Lots \ {k} : g[y] = f[y]
        BY <3>1
      <4>3. IsFiniteSet(Lots) /\ k \in Lots
        BY <1>1, LotsFinite
      <4> HIDE DEF k
      <4> QED BY <4>1, <4>2, <4>3, SumChange
    <3>4. SumFunctionOnSet(g, Lots) = e.checked[other]
      BY <3>1, <3>2, <3>3, <1>1
    <3>5. SumFunction(g) = e.checked[other]
      BY <3>1, <3>4 DEF SumFunction
    <3> QED BY <3>5 DEF g
  <2>2. \A other \in Docs, i \in Lots :
           e.receipts[other][i] = IF other = doc /\ i = k THEN n ELSE d.receipts[other][i]
    BY DEF Arrives
  <2>3. ASSUME NEW other \in Docs, NEW i \in Lots, e.receipts[other][i] # 0
        PROVE  /\ Exists(e, i) /\ e.receipts[other][i] = e.lots[i].received
               /\ \A third \in Docs \ {other} : e.receipts[third][i] = 0
    <3>1. CASE i = k
      BY <3>1, <2>2, <2>3, <1>1, <1>2, <1>5
    <3>2. CASE i # k
      BY <3>2, <2>2, <2>3, <1>2, <1>3, <1>5 DEF Papers
    <3> QED BY <3>1, <3>2
  <2>4. ASSUME NEW i \in Lots, e.scans[i] # NoScan
        PROVE  /\ i < e.next
               /\ e.scans[i].quantity > 0 /\ e.lots[i].received <= e.scans[i].quantity
               /\ \A other \in Docs : e.receipts[other][i] # 0 => other = e.scans[i].doc
               /\ e.scans[i].doc # NoPo /\ Exists(e, i) => e.receipts[e.scans[i].doc][i] # 0
    <3>1. e.scans[i] = IF i = k THEN scan ELSE d.scans[i]
      BY DEF Arrives
    <3>2. CASE i = k
      <4>1. e.scans[i] = scan /\ scan.doc = doc /\ scan.quantity = n
        BY <3>1, <3>2, <2>4
      <4> QED BY <4>1, <3>2, <2>2, <1>1, <1>2
    <3>3. CASE i # k
      <4>1. e.scans[i] = d.scans[i] /\ d.scans[i] # NoScan /\ d.scans[i].doc \in Pos \cup {NoPo} /\ i \in Nat
        BY <3>1, <3>3, <2>4, <1>1, DbParts, LotsFinite
      <4>2. \A other \in Docs : e.receipts[other][i] = d.receipts[other][i]
        BY <3>3, <2>2
      <4> QED BY <4>1, <4>2, <3>3, <1>1, <1>2, <1>3, <1>5, DocsApart DEF Papers
    <3> QED BY <3>2, <3>3
  <2> QED BY <2>1, <2>3, <2>4 DEF Papers
<1>8. \A i \in Lots : owed[i] > 0 => i # k
  BY <1>1 DEF Restorable
<1>9. ASSUME NEW m \in Locations PROVE Gap(e)[m] = Gap(d)[m]
  <2> DEFINE f == ShareAt(d, m)
             g == ShareAt(e, m)
  <2>1. /\ \A i \in Lots : f[i] \in Int /\ g[i] \in Int
        /\ \A i \in Lots \ {k} : g[i] = f[i]
    BY <1>1, <1>2, DbParts DEF ShareAt
  <2>2. f[k] = 0 /\ g[k] = IF m = l THEN n ELSE 0
    BY <1>1, <1>2, <1>3, SoundParts DEF ShareAt
  <2>3. OnShelf(d, m) \in Int /\ OnShelf(d, m) = SumFunctionOnSet(f, Lots) /\ OnShelf(e, m) = SumFunctionOnSet(g, Lots)
    BY <1>1, ShelfIsNat DEF OnShelf
  <2>4. SumFunctionOnSet(g, Lots) = SumFunctionOnSet(f, Lots) - f[k] + g[k]
    <3>1. IsFiniteSet(Lots) /\ k \in Lots
      BY <1>1, LotsFinite
    <3> HIDE DEF f, g, k
    <3> QED BY <2>1, <3>1, SumChange
  <2>5. OnShelf(e, m) = OnShelf(d, m) + IF m = l THEN n ELSE 0
    BY <2>2, <2>3, <2>4
  <2>6. d.stock[m] \in Int /\ e.stock[m] = d.stock[m] + IF m = l THEN n ELSE 0
    BY <1>1, DbParts DEF Arrives
  <2> QED BY <2>3, <2>5, <2>6 DEF Gap
<1> QED BY <1>2, <1>5, <1>6, <1>7, <1>8, <1>9 DEF Safe, Sound, Restorable

-----------------------------------------------------------------------------
(* Taking from layers and giving back: consumeFifo and restoreFifo         *)
(* (lots.ts)                                                               *)

(* From d to e only what is left of each layer changes, to "left".         *)
Refilled(d, e, left) ==
    /\ e \in Databases
    /\ e.receipts = d.receipts /\ e.checked = d.checked /\ e.scans = d.scans /\ e.next = d.next
    /\ \A i \in Lots : /\ e.lots[i].location = d.lots[i].location
                       /\ e.lots[i].received = d.lots[i].received
                       /\ e.lots[i].since = d.lots[i].since
                       /\ e.lots[i].remaining = left[i]

(* That is sound while no layer holds more than it received.               *)
LEMMA RefillSound ==
    ASSUME NEW d, Sound(d), NEW left, NEW e, Refilled(d, e, left),
           \A i \in Lots : left[i] \in Nat /\ left[i] <= d.lots[i].received
    PROVE  Sound(e) /\ \A i \in Lots : Exists(e, i) <=> Exists(d, i)
<1>1. /\ d \in Databases /\ e \in Databases /\ Layers(d) /\ Papers(d)
      /\ e.receipts = d.receipts /\ e.checked = d.checked /\ e.scans = d.scans /\ e.next = d.next
  BY DEF Refilled, Sound, Layers
<1>2. ASSUME NEW i \in Lots PROVE Exists(e, i) <=> Exists(d, i)
  <2>1. CASE Exists(d, i)
    <3>1. e.lots[i].received > 0
      BY <2>1, <1>1, SoundParts DEF Refilled
    <3> QED BY <2>1, <3>1 DEF Exists, NoLot
  <2>2. CASE ~Exists(d, i)
    <3>1. d.lots[i] = NoLot /\ d.lots[i].received = 0 /\ d.lots[i].received \in Nat /\ left[i] \in Nat
      BY <2>2, <1>1, SoundParts
    <3>2. e.lots[i].remaining = 0
      <4>1. e.lots[i].remaining = left[i] /\ left[i] <= 0
        BY <3>1 DEF Refilled
      <4> QED BY <3>1, <4>1
    <3>3. e.lots[i] \in LotRows
      BY <1>1 DEF Databases
    <3>4. /\ e.lots[i].location = Dock /\ e.lots[i].received = 0 /\ e.lots[i].since = 0
      BY <3>1 DEF NoLot, Refilled
    <3>5. e.lots[i] = NoLot
      BY <3>2, <3>3, <3>4 DEF LotRows, NoLot
    <3> QED BY <2>2, <3>5 DEF Exists
  <2> QED BY <2>1, <2>2
<1>3. Layers(e)
  BY <1>1, <1>2 DEF Layers, Refilled
<1>4. Papers(e)
  <2>1. \A i \in Lots : e.lots[i].received = d.lots[i].received
    BY DEF Refilled
  <2> QED BY <1>1, <1>2, <2>1 DEF Papers
<1> QED BY <1>2, <1>3, <1>4 DEF Sound

(* A shelf changes by what changes of the layers that are on it.           *)
LEMMA RefillShelf ==
    ASSUME NEW d \in Databases, NEW e \in Databases, NEW left, Refilled(d, e, left), NEW m, NEW change,
           \A i \in Lots : /\ change[i] \in Int
                           /\ d.lots[i].location = m => left[i] = d.lots[i].remaining + change[i]
                           /\ d.lots[i].location # m => change[i] = 0
    PROVE  OnShelf(e, m) = OnShelf(d, m) + SumFunctionOnSet(change, Lots)
<1>1. \A i \in Lots : change[i] \in Int /\ ShareAt(e, m)[i] = ShareAt(d, m)[i] + change[i]
  BY DEF ShareAt, Refilled
<1> QED BY <1>1, ShelfChanges

(* Units taken from the open layers of a shelf, with its count lowered by  *)
(* as many, can be given back on top of everything that could be given     *)
(* back before; no shelf's gap changes.                                    *)
LEMMA ConsumptionKeeps ==
    ASSUME NEW d, Sound(d), NEW l \in Locations, NEW n \in Nat, NEW slices \in Slices,
           SumFunction(slices) = n,
           \A i \in Lots : slices[i] > 0 => i \in OpenAt(d, l) /\ slices[i] <= d.lots[i].remaining,
           NEW owed \in Slices, Restorable(d, owed),
           NEW e, e = Consumed(Bump(d, l, -n), slices)
    PROVE  /\ Sound(e)
           /\ \A i \in Lots : Exists(e, i) <=> Exists(d, i)
           /\ Restorable(e, [i \in Lots |-> owed[i] + slices[i]])
           /\ \A i \in Lots : e.lots[i].location = d.lots[i].location
           /\ \A m \in Locations : Gap(e)[m] = Gap(d)[m]
           /\ e.next = d.next
<1> DEFINE left == [i \in Lots |-> d.lots[i].remaining - slices[i]]
           b == Bump(d, l, -n)
<1>1. /\ d \in Databases /\ Layers(d)
      /\ \A i \in Lots : /\ slices[i] \in Nat /\ owed[i] \in Nat /\ d.lots[i].remaining \in Nat
                         /\ d.lots[i].received \in Nat /\ d.lots[i].remaining <= d.lots[i].received
                         /\ slices[i] <= d.lots[i].remaining
  <2>1. d \in Databases /\ Layers(d)
    BY DEF Sound, Layers
  <2>2. \A i \in Lots : slices[i] \in Nat /\ owed[i] \in Nat /\ d.lots[i].remaining \in Nat
                        /\ d.lots[i].received \in Nat /\ d.lots[i].remaining <= d.lots[i].received
    BY <2>1, DbParts DEF Slices, Layers
  <2> QED BY <2>1, <2>2
<1>2. \A i \in Lots : left[i] \in Nat /\ left[i] <= d.lots[i].received
  BY <1>1
<1>3. /\ b \in Databases /\ b.lots = d.lots /\ b.stock = [d.stock EXCEPT ![l] = @ + (-n)] /\ b.receipts = d.receipts
      /\ b.checked = d.checked /\ b.scans = d.scans /\ b.next = d.next
  BY <1>1 DEF Bump, Databases
<1>4. /\ e.lots = [i \in Lots |-> [d.lots[i] EXCEPT !.remaining = @ - slices[i]]]
      /\ e.stock = b.stock /\ e.receipts = d.receipts
      /\ e.checked = d.checked /\ e.scans = d.scans /\ e.next = d.next
  <2> HIDE DEF b
  <2> QED BY <1>3 DEF Consumed, Databases, b
<1>5. Refilled(d, e, left)
  <2>1. \A i \in Lots : [d.lots[i] EXCEPT !.remaining = @ - slices[i]] \in LotRows
    BY <1>1, <1>2 DEF Databases, LotRows
  <2>2. e \in Databases
    <3>1. e.lots \in [Lots -> LotRows]
      BY <1>4, <2>1
    <3>2. e = [b EXCEPT !.lots = e.lots]
      BY <1>3 DEF Consumed, Databases, b
    <3> HIDE DEF b
    <3> QED BY <1>3, <3>1, <3>2 DEF Databases
  <2>3. \A i \in Lots : /\ e.lots[i].location = d.lots[i].location
                       /\ e.lots[i].received = d.lots[i].received
                       /\ e.lots[i].since = d.lots[i].since
                       /\ e.lots[i].remaining = left[i]
    BY <1>1, <1>4 DEF Databases, LotRows
  <2> HIDE DEF left
  <2> QED BY <1>4, <2>2, <2>3 DEF Refilled
<1>6. Sound(e) /\ \A i \in Lots : Exists(e, i) <=> Exists(d, i)
  BY <1>2, <1>5, RefillSound
<1>7. Restorable(e, [i \in Lots |-> owed[i] + slices[i]])
  <2> SUFFICES ASSUME NEW i \in Lots, owed[i] + slices[i] > 0
               PROVE  /\ Exists(e, i) /\ e.lots[i].remaining + (owed[i] + slices[i]) <= e.lots[i].received
    BY DEF Restorable
  <2>1. Exists(d, i)
    <3>1. CASE owed[i] > 0
      BY <3>1 DEF Restorable
    <3>2. CASE slices[i] > 0
      BY <3>2, <1>1, SoundParts DEF OpenAt
    <3> QED BY <3>1, <3>2, <1>1
  <2>2. e.lots[i].remaining = d.lots[i].remaining - slices[i] /\ e.lots[i].received = d.lots[i].received
    BY <1>5 DEF Refilled
  <2>3. d.lots[i].remaining + owed[i] <= d.lots[i].received
    BY <1>1 DEF Restorable
  <2> QED BY <1>1, <1>6, <2>1, <2>2, <2>3
<1>8. ASSUME NEW m \in Locations PROVE Gap(e)[m] = Gap(d)[m]
  <2> DEFINE change == [i \in Lots |-> IF d.lots[i].location = m THEN -slices[i] ELSE 0]
  <2>1. OnShelf(e, m) = OnShelf(d, m) + SumFunctionOnSet(change, Lots)
    <3>1. \A i \in Lots : /\ change[i] \in Int
                          /\ d.lots[i].location = m => left[i] = d.lots[i].remaining + change[i]
                          /\ d.lots[i].location # m => change[i] = 0
      BY <1>1
    <3>2. e \in Databases
      BY <1>5 DEF Refilled
    <3> HIDE DEF change, left
    <3> QED BY <1>1, <1>5, <3>1, <3>2, RefillShelf
  <2>2. SumFunctionOnSet(change, Lots) = IF m = l THEN -n ELSE 0
    <3>1. CASE m = l
      <4> DEFINE zero == [i \in Lots |-> 0]
      <4>1. \A i \in Lots : slices[i] \in Int /\ change[i] \in Int /\ zero[i] = slices[i] + change[i]
        BY <1>1, <3>1 DEF OpenAt
      <4>2. \A i \in Lots : zero[i] = 0
        OBVIOUS
      <4>3. IsFiniteSet(Lots) /\ SumFunctionOnSet(slices, Lots) = n
        BY LotsFinite DEF Slices, SumFunction
      <4> HIDE DEF change, zero
      <4>4. SumFunctionOnSet(zero, Lots) = 0
        BY <4>2, <4>3, SumZero
      <4>5. SumFunctionOnSet(zero, Lots) = SumFunctionOnSet(slices, Lots) + SumFunctionOnSet(change, Lots)
        BY <4>1, <4>3, SumPlus
      <4>6. SumFunctionOnSet(change, Lots) \in Int
        BY <4>1, <4>3, SumIsInt
      <4> QED BY <3>1, <4>3, <4>4, <4>5, <4>6
    <3>2. CASE m # l
      <4>1. \A i \in Lots : change[i] = 0
        BY <1>1, <3>2 DEF OpenAt
      <4>2. IsFiniteSet(Lots)
        BY LotsFinite
      <4> HIDE DEF change
      <4> QED BY <3>2, <4>1, <4>2, SumZero
    <3> QED BY <3>1, <3>2
  <2>3. e.stock[m] = d.stock[m] + (IF m = l THEN -n ELSE 0) /\ d.stock[m] \in Int /\ OnShelf(d, m) \in Int
    BY <1>1, <1>3, <1>4, DbParts, ShelfIsNat
  <2> HIDE DEF change
  <2>4. OnShelf(e, m) = OnShelf(d, m) + (IF m = l THEN -n ELSE 0)
    BY <2>1, <2>2
  <2> QED BY <2>3, <2>4 DEF Gap
<1> QED BY <1>5, <1>6, <1>7, <1>8 DEF Refilled

(* The layers a move took from exist and are on the move's own shelf, and  *)
(* its slices add up to its quantity.                                      *)
OnOwnShelf(d, moves) ==
    \A k \in DOMAIN moves :
        /\ SumFunction(moves[k].slices) = moves[k].quantity
        /\ \A i \in Lots : moves[k].slices[i] > 0 =>
               Exists(d, i) /\ d.lots[i].location = moves[k].location

(* The types of an order's moves.                                          *)
LEMMA MovesParts ==
    ASSUME NEW moves \in Seq(Moves)
    PROVE  /\ IsFiniteSet(DOMAIN moves)
           /\ \A k \in DOMAIN moves : /\ moves[k] \in Moves
                                      /\ moves[k].location \in Locations /\ moves[k].quantity \in Nat
                                      /\ moves[k].slices \in Slices
                                      /\ DOMAIN moves[k].slices = Lots
                                      /\ \A i \in Lots : moves[k].slices[i] \in Nat
<1>1. DOMAIN moves = 1..Len(moves) /\ Len(moves) \in Nat
  OBVIOUS
<1>2. IsFiniteSet(DOMAIN moves)
  BY <1>1, FS_Interval
<1>3. \A k \in DOMAIN moves : moves[k] \in Moves
  BY <1>1, ElementOfSeq
<1> QED BY <1>2, <1>3 DEF Moves, Slices

(* What moves return to each layer and give back to each shelf is a sum of *)
(* what each of them took, and no less than any one of them took.          *)
LEMMA ReturnedParts ==
    ASSUME NEW moves \in Seq(Moves)
    PROVE  /\ Returned(moves) \in Slices
           /\ \A i \in Lots :
                  Returned(moves)[i] = SumFunctionOnSet([k \in DOMAIN moves |-> moves[k].slices[i]], DOMAIN moves)
           /\ \A i \in Lots, k \in DOMAIN moves : moves[k].slices[i] <= Returned(moves)[i]
           /\ \A l : GivenBack(moves, l) \in Nat
           /\ \A l : GivenBack(moves, l) =
                  SumFunctionOnSet([k \in DOMAIN moves |->
                      IF moves[k].location = l THEN moves[k].quantity ELSE 0], DOMAIN moves)
<1>1. ASSUME NEW i \in Lots
      PROVE  /\ Returned(moves)[i] \in Nat
             /\ Returned(moves)[i] = SumFunctionOnSet([k \in DOMAIN moves |-> moves[k].slices[i]], DOMAIN moves)
             /\ \A k \in DOMAIN moves : moves[k].slices[i] <= Returned(moves)[i]
  <2> DEFINE f == [k \in DOMAIN moves |-> moves[k].slices[i]]
  <2>1. Returned(moves)[i] = SumFunctionOnSet(f, DOMAIN moves)
    BY DEF Returned, SumFunction
  <2>2. IsFiniteSet(DOMAIN moves) /\ \A k \in DOMAIN moves : f[k] \in Nat /\ f[k] = moves[k].slices[i]
    BY MovesParts
  <2>3. f = [k \in DOMAIN moves |-> moves[k].slices[i]]
    OBVIOUS
  <2> HIDE DEF f
  <2>4. SumFunctionOnSet(f, DOMAIN moves) \in Nat /\ \A k \in DOMAIN moves : f[k] <= SumFunctionOnSet(f, DOMAIN moves)
    BY <2>2, SumIsNat
  <2> QED BY <2>1, <2>2, <2>3, <2>4
<1>2. ASSUME NEW l
      PROVE  /\ GivenBack(moves, l) \in Nat
             /\ GivenBack(moves, l) = SumFunctionOnSet([k \in DOMAIN moves |->
                      IF moves[k].location = l THEN moves[k].quantity ELSE 0], DOMAIN moves)
  <2> DEFINE f == [k \in DOMAIN moves |-> IF moves[k].location = l THEN moves[k].quantity ELSE 0]
  <2>1. GivenBack(moves, l) = SumFunctionOnSet(f, DOMAIN moves)
    BY DEF GivenBack, SumFunction
  <2>2. IsFiniteSet(DOMAIN moves) /\ \A k \in DOMAIN moves : f[k] \in Nat
    BY MovesParts
  <2>3. SumFunctionOnSet(f, DOMAIN moves) \in Nat
    <3> HIDE DEF f
    <3> QED BY <2>2, SumIsNat
  <2> QED BY <2>1, <2>3
<1>3. Returned(moves) \in Slices
  BY <1>1 DEF Returned, Slices
<1> QED BY <1>1, <1>2, <1>3

(* releaseInvoiceStock: an order whose units are all on their own shelves  *)
(* can give them back; what the other orders are owed can still be given   *)
(* back after it, and no shelf's gap changes.                              *)
LEMMA ReleaseKeeps ==
    ASSUME NEW d, Sound(d), NEW moves \in Seq(Moves), OnOwnShelf(d, moves),
           NEW owed, Restorable(d, owed),
           NEW rest \in Slices, \A i \in Lots : owed[i] = rest[i] + Returned(moves)[i],
           NEW e, e = Released(d, moves)
    PROVE  /\ Sound(e)
           /\ \A i \in Lots : Exists(e, i) <=> Exists(d, i)
           /\ Restorable(e, rest)
           /\ \A i \in Lots : e.lots[i].location = d.lots[i].location
           /\ \A m \in Locations : Gap(e)[m] = Gap(d)[m]
           /\ e.next = d.next
<1> DEFINE back == Returned(moves)
           left == [i \in Lots |-> d.lots[i].remaining + back[i]]
           b == Restored(d, back)
<1>1. d \in Databases /\ Layers(d) /\ back \in [Lots -> Nat]
  BY ReturnedParts DEF Sound, Layers, Slices
<1>2. \A i \in Lots : /\ back[i] \in Nat /\ rest[i] \in Nat /\ d.lots[i].remaining \in Nat
                      /\ d.lots[i].received \in Nat /\ d.lots[i].remaining <= d.lots[i].received
                      /\ rest[i] + back[i] > 0 =>
                             Exists(d, i) /\ d.lots[i].remaining + (rest[i] + back[i]) <= d.lots[i].received
  BY <1>1, DbParts DEF Slices, Layers, Restorable
<1>3. \A i \in Lots : left[i] \in Nat /\ left[i] <= d.lots[i].received
  <2> HIDE DEF back
  <2> QED BY <1>2
<1>4. /\ b \in Databases /\ b.stock = d.stock /\ b.receipts = d.receipts
      /\ b.checked = d.checked /\ b.scans = d.scans /\ b.next = d.next
      /\ b.lots = [i \in Lots |-> [d.lots[i] EXCEPT !.remaining = @ + back[i]]]
  <2> HIDE DEF back
  <2>1. ASSUME NEW i \in Lots PROVE [d.lots[i] EXCEPT !.remaining = @ + back[i]] \in LotRows
    <3>1. d.lots[i] \in LotRows /\ d.lots[i].remaining + back[i] \in Nat
      BY <1>1, <1>2 DEF Databases
    <3> QED BY <3>1 DEF LotRows
  <2> QED BY <1>1, <2>1 DEF Restored, Databases
<1>5. \A l \in Locations : GivenBack(moves, l) \in Nat
  BY ReturnedParts
<1>6. e = [b EXCEPT !.stock = [l \in Locations |-> @[l] + GivenBack(moves, l)]]
  BY DEF Released
<1>7. /\ e \in Databases /\ e.receipts = d.receipts /\ e.lots = b.lots
      /\ e.checked = d.checked /\ e.scans = d.scans /\ e.next = d.next
      /\ \A m \in Locations : e.stock[m] = d.stock[m] + GivenBack(moves, m)
  <2> HIDE DEF b
  <2>1. [l \in Locations |-> b.stock[l] + GivenBack(moves, l)] \in [Locations -> Int]
    BY <1>4, <1>5 DEF Databases
  <2> DEFINE shelves == [l \in Locations |-> b.stock[l] + GivenBack(moves, l)]
  <2>2. e = [b EXCEPT !.stock = shelves]
    BY <1>6
  <2>3. \A m \in Locations : shelves[m] = d.stock[m] + GivenBack(moves, m)
    BY <1>4
  <2> HIDE DEF shelves
  <2>4. e \in Databases
    BY <1>4, <2>1, <2>2 DEF Databases, shelves
  <2>5. /\ e.receipts = b.receipts /\ e.lots = b.lots /\ e.stock = shelves
        /\ e.checked = b.checked /\ e.scans = b.scans /\ e.next = b.next
    BY <1>4, <2>2 DEF Databases
  <2> QED BY <1>4, <2>3, <2>4, <2>5
<1>8. Refilled(d, e, left)
  <2> HIDE DEF b, back
  <2>1. ASSUME NEW i \in Lots
        PROVE  /\ e.lots[i].location = d.lots[i].location
               /\ e.lots[i].received = d.lots[i].received
               /\ e.lots[i].since = d.lots[i].since
               /\ e.lots[i].remaining = left[i]
    <3>1. d.lots[i] \in LotRows /\ e.lots[i] = [d.lots[i] EXCEPT !.remaining = @ + back[i]]
      BY <1>1, <1>4, <1>7 DEF Databases
    <3> QED BY <3>1 DEF LotRows
  <2> HIDE DEF left
  <2> QED BY <1>7, <2>1 DEF Refilled
<1>9. Sound(e) /\ \A i \in Lots : Exists(e, i) <=> Exists(d, i)
  <2> HIDE DEF left
  <2> QED BY <1>3, <1>8, RefillSound
<1>10. Restorable(e, rest)
  <2> SUFFICES ASSUME NEW i \in Lots, rest[i] > 0
               PROVE  Exists(e, i) /\ e.lots[i].remaining + rest[i] <= e.lots[i].received
    BY DEF Restorable
  <2>1. e.lots[i].remaining = d.lots[i].remaining + back[i] /\ e.lots[i].received = d.lots[i].received
    BY <1>8 DEF Refilled
  <2> HIDE DEF back
  <2> QED BY <1>2, <1>9, <2>1
<1>11. ASSUME NEW m \in Locations PROVE Gap(e)[m] = Gap(d)[m]
  <2> DEFINE change == [i \in Lots |-> IF d.lots[i].location = m THEN back[i] ELSE 0]
             a == [k \in DOMAIN moves |-> [i \in Lots |-> IF d.lots[i].location = m THEN moves[k].slices[i] ELSE 0]]
             r == [k \in DOMAIN moves |-> IF moves[k].location = m THEN moves[k].quantity ELSE 0]
  <2>1. OnShelf(e, m) = OnShelf(d, m) + SumFunctionOnSet(change, Lots)
    <3> HIDE DEF back
    <3>1. \A i \in Lots : /\ change[i] \in Int
                          /\ d.lots[i].location = m => left[i] = d.lots[i].remaining + change[i]
                          /\ d.lots[i].location # m => change[i] = 0
      BY <1>2
    <3> HIDE DEF change, left
    <3> QED BY <1>1, <1>7, <1>8, <3>1, RefillShelf
  <2>2. SumFunctionOnSet(change, Lots) = GivenBack(moves, m)
    <3>1. IsFiniteSet(DOMAIN moves) /\ IsFiniteSet(Lots)
      BY MovesParts, LotsFinite
    <3>2. \A k \in DOMAIN moves, i \in Lots : a[k][i] \in Int
      BY MovesParts
    <3>3. ASSUME NEW k \in DOMAIN moves PROVE r[k] = SumFunctionOnSet(a[k], Lots)
      <4> DEFINE f == moves[k].slices
                 g == a[k]
      <4>1. \A i \in Lots : f[i] \in Nat /\ g[i] = IF d.lots[i].location = m THEN f[i] ELSE 0
        BY MovesParts
      <4>2. \A i \in Lots : f[i] > 0 => d.lots[i].location = moves[k].location
        BY DEF OnOwnShelf
      <4>3. SumFunctionOnSet(f, Lots) = moves[k].quantity
        BY MovesParts DEF OnOwnShelf, SumFunction
      <4> HIDE DEF f, a, g
      <4>4. CASE moves[k].location = m
        <5>1. \A i \in Lots : g[i] = f[i]
          BY <4>1, <4>2, <4>4
        <5>2. SumFunctionOnSet(g, Lots) = SumFunctionOnSet(f, Lots)
          BY <5>1, <3>1, SumSame
        <5> QED BY <4>3, <4>4, <5>2 DEF g
      <4>5. CASE moves[k].location # m
        <5>1. \A i \in Lots : g[i] = 0
          BY <4>1, <4>2, <4>5
        <5>2. SumFunctionOnSet(g, Lots) = 0
          BY <5>1, <3>1, SumZero
        <5> QED BY <4>5, <5>2 DEF g
      <4> QED BY <4>4, <4>5
    <3>4. ASSUME NEW i \in Lots PROVE change[i] = SumFunctionOnSet([k \in DOMAIN moves |-> a[k][i]], DOMAIN moves)
      <4> DEFINE f == [k \in DOMAIN moves |-> moves[k].slices[i]]
                 g == [k \in DOMAIN moves |-> a[k][i]]
      <4>1. \A k \in DOMAIN moves : g[k] = IF d.lots[i].location = m THEN f[k] ELSE 0
        OBVIOUS
      <4>2. back[i] = SumFunctionOnSet(f, DOMAIN moves)
        BY ReturnedParts
      <4>3. change[i] = IF d.lots[i].location = m THEN back[i] ELSE 0
        OBVIOUS
      <4> HIDE DEF f, g, back, change
      <4>4. CASE d.lots[i].location = m
        <5>1. \A k \in DOMAIN moves : g[k] = f[k]
          BY <4>1, <4>4
        <5>2. SumFunctionOnSet(g, DOMAIN moves) = SumFunctionOnSet(f, DOMAIN moves)
          BY <5>1, <3>1, SumSame
        <5> QED BY <4>2, <4>3, <4>4, <5>2 DEF g
      <4>5. CASE d.lots[i].location # m
        <5>1. \A k \in DOMAIN moves : g[k] = 0
          BY <4>1, <4>5
        <5>2. SumFunctionOnSet(g, DOMAIN moves) = 0
          BY <5>1, <3>1, SumZero
        <5> QED BY <4>3, <4>5, <5>2 DEF g
      <4> QED BY <4>4, <4>5
    <3>5. GivenBack(moves, m) = SumFunctionOnSet(r, DOMAIN moves)
      BY ReturnedParts
    <3>6. \A k \in DOMAIN moves : r[k] = SumFunctionOnSet(a[k], Lots)
      BY <3>3
    <3>7. \A i \in Lots : change[i] = SumFunctionOnSet([k \in DOMAIN moves |-> a[k][i]], DOMAIN moves)
      BY <3>4
    <3> DEFINE D == DOMAIN moves
               b2 == [i \in Lots |-> [k \in D |-> a[k][i]]]
    <3>b. /\ \A k \in D, i \in Lots : b2[i][k] = a[k][i]
          /\ \A i \in Lots : change[i] = SumFunctionOnSet(b2[i], D)
      BY <3>7
    <3> HIDE DEF r, a, change, b2
    <3>8. SumFunctionOnSet(r, DOMAIN moves) = SumFunctionOnSet(change, Lots)
      <4>1. Grid(D, Lots, a, b2, r, change)
        <5>1. /\ IsFiniteSet(D) /\ IsFiniteSet(Lots) /\ \A k \in D, i \in Lots : a[k][i] \in Int
              /\ \A k \in D : r[k] = SumFunctionOnSet(a[k], Lots)
              /\ \A k \in D, i \in Lots : b2[i][k] = a[k][i]
              /\ \A i \in Lots : change[i] = SumFunctionOnSet(b2[i], D)
          BY <3>1, <3>2, <3>6, <3>b
        <5> HIDE DEF D
        <5> QED BY <5>1 DEF Grid
      <4> HIDE DEF D
      <4>2. SumFunctionOnSet(r, D) = SumFunctionOnSet(change, Lots)
        BY <4>1, SumSwap
      <4> QED BY <4>2 DEF D
    <3> QED BY <3>5, <3>8
  <2>3. d.stock[m] \in Int /\ OnShelf(d, m) \in Int /\ GivenBack(moves, m) \in Int
    BY <1>1, <1>5, DbParts, ShelfIsNat
  <2> HIDE DEF change
  <2> QED BY <1>7, <2>1, <2>2, <2>3 DEF Gap
<1>12. \A i \in Lots : e.lots[i].location = d.lots[i].location
  BY <1>8 DEF Refilled
<1> QED BY <1>7, <1>9, <1>10, <1>11, <1>12

-----------------------------------------------------------------------------
(* Reversals: reverseLotReceipt (lots.ts), in undoScan,                    *)
(* reverseReceivedLines and removeTabLine                                  *)

(* From d to e, the layers with "back" are gone whole, unsold, with the    *)
(* receipts that named them, and the counts are lowered by "gone".         *)
Undone(d, e, back, gone) ==
    /\ e \in Databases
    /\ \A i \in Lots : back[i] > 0 => /\ Exists(d, i) /\ back[i] = d.lots[i].received
                                      /\ back[i] = d.lots[i].remaining
    /\ \A i \in Lots : e.lots[i] = IF back[i] > 0 THEN NoLot ELSE d.lots[i]
    /\ \A m \in Locations : e.stock[m] = d.stock[m] - gone[m]
    /\ \A doc \in Docs : SumFunction(e.receipts[doc]) = e.checked[doc]
    /\ \A doc \in Docs, i \in Lots :
           e.receipts[doc][i] = IF back[i] > 0 THEN 0 ELSE d.receipts[doc][i]
    /\ \A i \in Lots : e.scans[i] = d.scans[i] \/ e.scans[i] = NoScan
    /\ e.next = d.next

(* The units sent back, by the shelf their layers are on.                  *)
BackAt(d, back, m) == [i \in Lots |-> IF d.lots[i].location = m THEN back[i] ELSE 0]
SentBack(d, back) == [m \in Locations |-> SumFunctionOnSet(BackAt(d, back, m), Lots)]

(* A reversal is safe: a layer that goes was unsold, so no order is owed a *)
(* unit of it. A shelf's gap changes by what left its layers and not its   *)
(* count.                                                                  *)
LEMMA UndoKeeps ==
    ASSUME NEW d, Sound(d), NEW back \in Slices, NEW gone \in [Locations -> Int], NEW e, Undone(d, e, back, gone),
           NEW owed \in Slices, Restorable(d, owed)
    PROVE  /\ Safe(d, e, owed)
           /\ \A m \in Locations : Gap(e)[m] = Gap(d)[m] + (SentBack(d, back)[m] - gone[m])
<1>1. /\ d \in Databases /\ e \in Databases /\ Layers(d) /\ Papers(d) /\ e.next = d.next
      /\ \A i \in Lots : back[i] \in Nat /\ owed[i] \in Nat /\ d.lots[i].remaining \in Nat /\ d.lots[i].received \in Nat
  <2>1. d \in Databases
    BY DEF Sound, Layers
  <2> QED BY <2>1, DbParts DEF Sound, Undone, Slices
<1>2. \A i \in Lots : e.lots[i] = IF back[i] > 0 THEN NoLot ELSE d.lots[i]
  BY DEF Undone
<1>3. \A i \in Lots : Exists(e, i) <=> Exists(d, i) /\ ~(back[i] > 0)
  BY <1>2 DEF Exists
<1>4. Layers(e)
  <2>1. NoLot.remaining = 0 /\ NoLot.received = 0
    BY DEF NoLot
  <2> QED BY <1>1, <1>2, <1>3, <2>1 DEF Layers
<1>5. Papers(e)
  <2>1. \A doc \in Docs, i \in Lots :
           e.receipts[doc][i] = IF back[i] > 0 THEN 0 ELSE d.receipts[doc][i]
    BY DEF Undone
  <2>2. \A doc \in Docs, i \in Lots : e.receipts[doc][i] # 0 =>
           /\ Exists(e, i) /\ e.receipts[doc][i] = e.lots[i].received
           /\ \A other \in Docs \ {doc} : e.receipts[other][i] = 0
    BY <1>1, <1>2, <1>3, <2>1 DEF Papers
  <2>3. ASSUME NEW i \in Lots, e.scans[i] # NoScan
        PROVE  /\ i < e.next
               /\ e.scans[i].quantity > 0 /\ e.lots[i].received <= e.scans[i].quantity
               /\ \A other \in Docs : e.receipts[other][i] # 0 => other = e.scans[i].doc
               /\ e.scans[i].doc # NoPo /\ Exists(e, i) => e.receipts[e.scans[i].doc][i] # 0
    <3>1. e.scans[i] = d.scans[i] /\ d.scans[i] # NoScan
      BY <2>3 DEF Undone
    <3>2. d.scans[i].quantity \in Nat /\ d.scans[i].doc \in Pos \cup {NoPo} /\ NoLot.received = 0
      BY <1>1, DbParts DEF NoLot
    <3>3. /\ i < d.next
          /\ d.scans[i].quantity > 0 /\ d.lots[i].received <= d.scans[i].quantity
          /\ \A other \in Docs : d.receipts[other][i] # 0 => other = d.scans[i].doc
          /\ d.scans[i].doc # NoPo /\ Exists(d, i) => d.receipts[d.scans[i].doc][i] # 0
      BY <1>1, <3>1 DEF Papers
    <3>4. CASE back[i] > 0
      BY <3>4, <1>1, <1>2, <1>3, <2>1, <3>1, <3>2, <3>3
    <3>5. CASE ~(back[i] > 0)
      BY <3>5, <1>1, <1>2, <1>3, <2>1, <3>1, <3>2, <3>3, DocsApart
    <3> QED BY <3>4, <3>5
  <2>4. \A doc \in Docs : SumFunction(e.receipts[doc]) = e.checked[doc]
    BY DEF Undone
  <2> QED BY <2>2, <2>3, <2>4 DEF Papers
<1>6. ASSUME NEW i \in Lots, owed[i] > 0 PROVE ~(back[i] > 0)
  <2>1. Exists(d, i) /\ d.lots[i].remaining + owed[i] <= d.lots[i].received
    BY <1>6 DEF Restorable
  <2>2. back[i] > 0 => d.lots[i].remaining = d.lots[i].received
    BY DEF Undone
  <2> QED BY <1>1, <1>6, <2>1, <2>2
<1>7. Safe(d, e, owed)
  BY <1>2, <1>3, <1>4, <1>5, <1>6 DEF Safe, Sound, Restorable
<1>8. ASSUME NEW m \in Locations PROVE Gap(e)[m] = Gap(d)[m] + (SentBack(d, back)[m] - gone[m])
  <2> DEFINE f == ShareAt(d, m)
             g == ShareAt(e, m)
             b == BackAt(d, back, m)
  <2>1. \A i \in Lots : g[i] \in Int /\ b[i] \in Int /\ f[i] = g[i] + b[i]
    <3> TAKE i \in Lots
    <3>1. CASE back[i] > 0
      <4>1. back[i] = d.lots[i].remaining /\ NoLot.remaining = 0 /\ e.lots[i] = NoLot
        BY <3>1, <1>2 DEF Undone, NoLot
      <4> QED BY <4>1, <1>1 DEF ShareAt, BackAt
    <3>2. CASE ~(back[i] > 0)
      BY <3>2, <1>1, <1>2 DEF ShareAt, BackAt
    <3> QED BY <3>1, <3>2
  <2>2. IsFiniteSet(Lots) /\ OnShelf(d, m) = SumFunctionOnSet(f, Lots) /\ OnShelf(e, m) = SumFunctionOnSet(g, Lots)
        /\ SentBack(d, back)[m] = SumFunctionOnSet(b, Lots)
    BY LotsFinite DEF OnShelf, SentBack
  <2>3. OnShelf(d, m) \in Int /\ OnShelf(e, m) \in Int /\ d.stock[m] \in Int /\ gone[m] \in Int /\ e.stock[m] = d.stock[m] - gone[m]
    BY <1>1, ShelfIsNat, DbParts DEF Undone
  <2> HIDE DEF f, g, b
  <2>4. SumFunctionOnSet(f, Lots) = SumFunctionOnSet(g, Lots) + SumFunctionOnSet(b, Lots)
    BY <2>1, <2>2, SumPlus
  <2>5. SumFunctionOnSet(b, Lots) \in Int
    BY <2>1, <2>2, SumIsInt
  <2> QED BY <2>2, <2>3, <2>4, <2>5 DEF Gap
<1> QED BY <1>7, <1>8

(* The units sent back from all shelves are all the units sent back.       *)
LEMMA SentBackTotal ==
    ASSUME NEW d \in Databases, NEW back \in Slices
    PROVE  /\ SentBack(d, back) \in [Locations -> Nat]
           /\ SumFunctionOnSet(SentBack(d, back), Locations) = SumFunctionOnSet(back, Lots)
<1> DEFINE r == SentBack(d, back)
           a == [m \in Locations |-> BackAt(d, back, m)]
           b == [i \in Lots |-> [m \in Locations |-> BackAt(d, back, m)[i]]]
<1>1. IsFiniteSet(Lots) /\ IsFiniteSet(Locations) /\ \A i \in Lots : back[i] \in Nat /\ d.lots[i].location \in Locations
  BY LotsFinite, DbParts DEF Slices
<1>2. ASSUME NEW m \in Locations PROVE SumFunctionOnSet(BackAt(d, back, m), Lots) \in Nat
  <2> DEFINE f == BackAt(d, back, m)
  <2>1. \A i \in Lots : f[i] \in Nat
    BY <1>1 DEF BackAt
  <2> HIDE DEF f
  <2>2. SumFunctionOnSet(f, Lots) \in Nat
    BY <1>1, <2>1, SumIsNat
  <2> QED BY <2>2 DEF f
<1>3. SentBack(d, back) \in [Locations -> Nat]
  BY <1>2 DEF SentBack
<1>4. \A m \in Locations, i \in Lots : a[m][i] \in Int /\ b[i][m] = a[m][i]
  BY <1>1 DEF BackAt
<1>5. \A m \in Locations : r[m] = SumFunctionOnSet(a[m], Lots)
  BY DEF SentBack
<1>6. ASSUME NEW i \in Lots PROVE back[i] = SumFunctionOnSet(b[i], Locations)
  <2> DEFINE g == b[i]
             l == d.lots[i].location
  <2>1. /\ l \in Locations /\ g[l] = back[i]
        /\ \A m \in Locations : g[m] \in Int
        /\ \A m \in Locations \ {l} : g[m] = 0
    BY <1>1 DEF BackAt
  <2> HIDE DEF g, l
  <2>2. SumFunctionOnSet(g, Locations) = SumFunctionOnSet(g, {l})
    <3>1. {l} \in SUBSET Locations
      BY <2>1
    <3> QED BY <1>1, <2>1, <3>1, SumWithin
  <2>3. SumFunctionOnSet(g, {l}) = g[l]
    BY <2>1, SumOne
  <2> QED BY <2>1, <2>2, <2>3 DEF g
<1>7. Grid(Locations, Lots, a, b, r, back)
  <2>1. \A i \in Lots : back[i] = SumFunctionOnSet(b[i], Locations)
    BY <1>6
  <2> HIDE DEF a, b, r
  <2> QED BY <1>1, <1>4, <1>5, <2>1 DEF Grid
<1>8. SumFunctionOnSet(r, Locations) = SumFunctionOnSet(back, Lots)
  <2> HIDE DEF a, b, r
  <2> QED BY <1>7, SumSwap
<1> QED BY <1>3, <1>8

-----------------------------------------------------------------------------
(* Taking in turn: the order of the layers, and takeFifo (lots.ts)         *)

(* The layer of S that every other one is older than.                      *)
Newest(d, S, x) == x \in S /\ \A y \in S \ {x} : Older(d, y, x)

(* Layers are in a strict total order.                                     *)
LEMMA OlderIsAnOrder ==
    ASSUME NEW d \in Databases, NEW i \in Lots, NEW j \in Lots
    PROVE  /\ ~Older(d, i, i)
           /\ i # j => Older(d, i, j) \/ Older(d, j, i)
           /\ ~(Older(d, i, j) /\ Older(d, j, i))
           /\ \A k \in Lots : Older(d, i, j) /\ Older(d, j, k) => Older(d, i, k)
<1>1. \A k \in Lots : k \in Nat /\ d.lots[k].since \in Nat
  BY DbParts, LotsFinite
<1> QED BY <1>1 DEF Older

(* So some layers have a newest one.                                       *)
LEMMA NewestExists ==
    ASSUME NEW d \in Databases, NEW S \in SUBSET Lots, S # {}
    PROVE  \E x \in S : Newest(d, S, x)
<1> DEFINE B == {s \in SUBSET S : s # {} /\ ~ \E x \in s : Newest(d, s, x)}
<1>1. ASSUME NEW s \in B, \A x \in s : s \ {x} \notin B PROVE FALSE
  <2>1. PICK x \in s : TRUE
    OBVIOUS
  <2>2. CASE s \ {x} = {}
    <3>1. Newest(d, s, x)
      BY <2>2 DEF Newest
    <3> QED BY <3>1
  <2>3. CASE s \ {x} # {}
    <3>1. PICK y \in s \ {x} : Newest(d, s \ {x}, y)
      BY <1>1, <2>3
    <3>2. CASE Older(d, x, y)
      <4>1. Newest(d, s, y)
        BY <3>1, <3>2 DEF Newest
      <4> QED BY <4>1
    <3>3. CASE Older(d, y, x)
      <4>1. \A z \in s \ {x} : z \in Lots /\ (z # y => Older(d, z, y))
        BY <3>1 DEF Newest
      <4>2. x \in Lots /\ y \in Lots
        OBVIOUS
      <4>3. \A z \in s \ {x} : Older(d, z, x)
        BY <3>3, <4>1, <4>2, OlderIsAnOrder
      <4>4. Newest(d, s, x)
        BY <4>3 DEF Newest
      <4> QED BY <4>4
    <3>4. x \in Lots /\ y \in Lots /\ x # y
      OBVIOUS
    <3> QED BY <3>2, <3>3, <3>4, OlderIsAnOrder
  <2> QED BY <2>2, <2>3
<1>2. B \in SUBSET SUBSET S /\ IsFiniteSet(S)
  BY LotsFinite, FS_Subset
<1>3. B = {}
  <2> HIDE DEF B
  <2> QED BY <1>1, <1>2, SmallestSet
<1> QED BY <1>3

(* The units left in a set of layers, and without one of them.             *)
LEMMA RemainingIsNat ==
    ASSUME NEW d \in Databases, NEW S \in SUBSET Lots
    PROVE  /\ IsFiniteSet(S) /\ Remaining(d, S) \in Nat
           /\ \A x \in S : d.lots[x].remaining \in Nat
                           /\ Remaining(d, S) = d.lots[x].remaining + Remaining(d, S \ {x})
<1> DEFINE f == [i \in Lots |-> d.lots[i].remaining]
<1>1. IsFiniteSet(S) /\ \A x \in S : f[x] \in Nat /\ f[x] \in Int /\ f[x] = d.lots[x].remaining
  <2>1. IsFiniteSet(S)
    BY LotsFinite, FS_Subset
  <2>2. \A x \in Lots : d.lots[x].remaining \in Nat
    BY DbParts
  <2> QED BY <2>1, <2>2
<1>2. \A s : Remaining(d, s) = SumFunctionOnSet(f, s)
  BY DEF Remaining
<1> HIDE DEF f
<1>3. SumFunctionOnSet(f, S) \in Nat
  BY <1>1, SumIsNat
<1>4. \A x \in S : SumFunctionOnSet(f, S) = f[x] + SumFunctionOnSet(f, S \ {x})
  BY <1>1, SumRemove
<1> QED BY <1>1, <1>2, <1>3, <1>4

(* Taking in turn takes no more of a layer than is left, takes only of the *)
(* layers offered, and takes all the units asked for when there are as     *)
(* many.                                                                   *)
LEMMA FifoTakes ==
    ASSUME NEW d \in Databases, NEW S \in SUBSET Lots, NEW n \in Nat
    PROVE  /\ Fifo(d, S, n) \in Slices
           /\ \A i \in Lots : Fifo(d, S, n)[i] <= d.lots[i].remaining
           /\ \A i \in Lots : Fifo(d, S, n)[i] > 0 => i \in S
           /\ n <= Remaining(d, S) => SumFunction(Fifo(d, S, n)) = n
<1> DEFINE t == Fifo(d, S, n)
           Ahead(i) == {j \in S : Older(d, j, i)}
<1>1. ASSUME NEW i \in Lots
      PROVE  /\ Remaining(d, Ahead(i)) \in Nat
             /\ d.lots[i].remaining \in Nat
             /\ t[i] = IF i \notin S \/ Remaining(d, Ahead(i)) >= n THEN 0
                       ELSE IF n - Remaining(d, Ahead(i)) < d.lots[i].remaining THEN n - Remaining(d, Ahead(i))
                       ELSE d.lots[i].remaining
  <2>1. Remaining(d, Ahead(i)) \in Nat
    BY RemainingIsNat
  <2>2. d.lots[i].remaining \in Nat
    BY DbParts
  <2> QED BY <2>1, <2>2 DEF Fifo
<1>2. \A i \in Lots : t[i] \in Nat /\ t[i] <= d.lots[i].remaining /\ (t[i] > 0 => i \in S)
  <2> HIDE DEF t, Ahead
  <2> QED BY <1>1
<1>3. t \in Slices /\ DOMAIN t = Lots
  BY <1>2 DEF Fifo, Slices
<1>4. ASSUME n <= Remaining(d, S) PROVE SumFunction(t) = n
  <2> DEFINE Cap(s) == IF Remaining(d, s) < n THEN Remaining(d, s) ELSE n
             B == {s \in SUBSET S : /\ \A i \in s, j \in S : Older(d, j, i) => j \in s
                                    /\ SumFunctionOnSet(t, s) # Cap(s)}
  <2>1. ASSUME NEW s \in B, \A x \in s : s \ {x} \notin B PROVE FALSE
    <3>1. s \in SUBSET Lots /\ IsFiniteSet(s)
      BY RemainingIsNat
    <3>2. CASE s = {}
      <4>1. \A k : SumFunctionOnSet(k, {}) = 0
        BY SumEquation, FS_EmptySet
      <4>2. Remaining(d, {}) = 0
        BY <4>1 DEF Remaining
      <4> QED BY <3>2, <4>1, <4>2
    <3>3. CASE s # {}
      <4>1. PICK x \in s : Newest(d, s, x)
        BY <3>1, <3>3, NewestExists
      <4> DEFINE u == s \ {x}
      <4>2. \A i \in u, j \in S : Older(d, j, i) => j \in u
        <5> SUFFICES ASSUME NEW i \in u, NEW j \in S, Older(d, j, i) PROVE j # x
          OBVIOUS
        <5>1. Older(d, i, x)
          BY <4>1 DEF Newest
        <5> QED BY <5>1, OlderIsAnOrder
      <4>3. SumFunctionOnSet(t, u) = Cap(u)
        BY <2>1, <4>2
      <4>4. SumFunctionOnSet(t, s) = t[x] + SumFunctionOnSet(t, u)
        <5>1. \A y \in s : t[y] \in Int
          BY <1>2, <3>1
        <5> HIDE DEF t
        <5> QED BY <5>1, <3>1, SumRemove
      <4>5. Ahead(x) = u
        <5>1. \A j \in u : Older(d, j, x)
          BY <4>1 DEF Newest
        <5>2. \A j \in S : Older(d, j, x) => j \in u
          BY <2>1, OlderIsAnOrder
        <5> QED BY <5>1, <5>2
      <4>6. Remaining(d, s) = d.lots[x].remaining + Remaining(d, u) /\ Remaining(d, u) \in Nat
            /\ d.lots[x].remaining \in Nat /\ x \in S
        BY <3>1, RemainingIsNat
      <4>7. t[x] = IF Remaining(d, u) >= n THEN 0
                   ELSE IF n - Remaining(d, u) < d.lots[x].remaining THEN n - Remaining(d, u)
                   ELSE d.lots[x].remaining
        <5> HIDE DEF t, u, Ahead
        <5>1. x \in Lots
          BY <3>1
        <5> QED BY <5>1, <1>1, <4>5, <4>6
      <4>8. SumFunctionOnSet(t, s) # Cap(s)
        BY <2>1
      <4> HIDE DEF t, u, Ahead, B
      <4> QED BY <4>3, <4>4, <4>6, <4>7, <4>8
    <3> QED BY <3>2, <3>3
  <2>2. B \in SUBSET SUBSET S /\ IsFiniteSet(S)
    BY RemainingIsNat
  <2>3. B = {}
    <3> HIDE DEF B
    <3> QED BY <2>1, <2>2, SmallestSet
  <2>4. SumFunctionOnSet(t, S) = Cap(S)
    BY <2>3
  <2>5. Remaining(d, S) \in Nat
    BY RemainingIsNat
  <2>6. SumFunctionOnSet(t, S) = n
    <3> HIDE DEF t, B
    <3> QED BY <1>4, <2>4, <2>5
  <2>7. SumFunctionOnSet(t, Lots) = SumFunctionOnSet(t, S)
    <3>1. \A x \in Lots : t[x] \in Int
      BY <1>2
    <3>2. \A x \in Lots \ S : t[x] = 0
      BY <1>2
    <3>3. IsFiniteSet(Lots)
      BY LotsFinite
    <3> HIDE DEF t, B
    <3> QED BY <3>1, <3>2, <3>3, SumWithin
  <2> HIDE DEF t, B
  <2> QED BY <1>3, <2>6, <2>7 DEF SumFunction
<1> HIDE DEF t, Ahead
<1> QED BY <1>2, <1>3, <1>4 DEF t

-----------------------------------------------------------------------------
(* Moves between shelves: relocateLots and splitLotReceipts (lots.ts)      *)

(* The number of the twin a layer gets when it is split, and back.         *)
TwinOf(d, taken, i) == d.next + Cardinality({j \in Twinned(d, taken) : Older(d, j, i)})
Twins(d, taken)     == {TwinOf(d, taken, i) : i \in Twinned(d, taken)}
Half(d, taken, k)   == CHOOSE i \in Twinned(d, taken) : TwinOf(d, taken, i) = k

(* Twins have numbers no layer had, and no two the same.                   *)
LEMMA TwinsAreNew ==
    ASSUME NEW d \in Databases, NEW taken, HasRoom(d, Cardinality(Twinned(d, taken)))
    PROVE  /\ Twinned(d, taken) \in SUBSET Lots /\ Cardinality(Twinned(d, taken)) \in Nat
           /\ d.next + Cardinality(Twinned(d, taken)) \in 1..(MaxLots + 1)
           /\ \A i \in Twinned(d, taken) :
                  /\ TwinOf(d, taken, i) \in Lots
                  /\ d.next <= TwinOf(d, taken, i)
                  /\ TwinOf(d, taken, i) < d.next + Cardinality(Twinned(d, taken))
                  /\ Half(d, taken, TwinOf(d, taken, i)) = i
           /\ \A i, j \in Twinned(d, taken) : TwinOf(d, taken, i) = TwinOf(d, taken, j) => i = j
<1> DEFINE split == Twinned(d, taken)
           Before(i) == {j \in split : Older(d, j, i)}
<1>1. split \in SUBSET Lots
  BY DEF Twinned
<1>2. IsFiniteSet(split) /\ Cardinality(split) \in Nat
  BY <1>1, LotsFinite, FS_Subset, FS_CardinalityType
<1>3. ASSUME NEW i \in split
      PROVE  IsFiniteSet(Before(i)) /\ Cardinality(Before(i)) \in Nat /\ Cardinality(Before(i)) < Cardinality(split)
  <2>1. Before(i) \in SUBSET split /\ i \notin Before(i)
    BY <1>1, OlderIsAnOrder
  <2>2. IsFiniteSet(Before(i)) /\ Cardinality(Before(i)) \in Nat
    BY <1>2, <2>1, FS_Subset, FS_CardinalityType
  <2>3. IsFiniteSet(Before(i) \cup {i}) /\ Cardinality(Before(i) \cup {i}) = Cardinality(Before(i)) + 1
    BY <2>1, <2>2, FS_AddElement
  <2>4. Cardinality(Before(i) \cup {i}) <= Cardinality(split)
    <3>1. Before(i) \cup {i} \in SUBSET split
      BY <2>1
    <3> QED BY <1>2, <3>1, FS_Subset
  <2> QED BY <1>2, <2>2, <2>3, <2>4
<1>4. ASSUME NEW i \in split, NEW j \in split, Older(d, i, j)
      PROVE  Cardinality(Before(i)) < Cardinality(Before(j))
  <2>1. Before(i) \cup {i} \in SUBSET Before(j) /\ i \notin Before(i)
    BY <1>1, <1>4, OlderIsAnOrder
  <2>2. Cardinality(Before(i) \cup {i}) = Cardinality(Before(i)) + 1
    BY <1>3, <2>1, FS_AddElement
  <2>3. Cardinality(Before(i) \cup {i}) <= Cardinality(Before(j))
    BY <1>3, <2>1, FS_Subset
  <2>4. Cardinality(Before(i)) \in Nat /\ Cardinality(Before(j)) \in Nat
    BY <1>3
  <2> HIDE DEF Before
  <2> QED BY <2>2, <2>3, <2>4
<1>5. \A i \in split : TwinOf(d, taken, i) = d.next + Cardinality(Before(i))
  BY DEF TwinOf
<1>6. d.next \in Nat /\ d.next > 0 /\ d.next + Cardinality(split) <= MaxLots + 1 /\ MaxLots \in Nat
  BY DbParts, LotsFinite DEF HasRoom
<1>7. ASSUME NEW i \in split, NEW j \in split, TwinOf(d, taken, i) = TwinOf(d, taken, j) PROVE i = j
  <2>1. Cardinality(Before(i)) = Cardinality(Before(j)) /\ Cardinality(Before(i)) \in Nat /\ Cardinality(Before(j)) \in Nat
    <3>1. Cardinality(Before(i)) \in Nat /\ Cardinality(Before(j)) \in Nat
      BY <1>3
    <3>2. d.next + Cardinality(Before(i)) = d.next + Cardinality(Before(j))
      BY <1>5, <1>7
    <3> HIDE DEF Before
    <3> QED BY <1>6, <3>1, <3>2
  <2>2. i \in Lots /\ j \in Lots
    BY <1>1
  <2>3. Older(d, i, j) => Cardinality(Before(i)) < Cardinality(Before(j))
    BY <1>4
  <2>4. Older(d, j, i) => Cardinality(Before(j)) < Cardinality(Before(i))
    BY <1>4
  <2> HIDE DEF Before, split
  <2> QED BY <2>1, <2>2, <2>3, <2>4, OlderIsAnOrder
<1>8. ASSUME NEW i \in split
      PROVE  /\ TwinOf(d, taken, i) \in Lots
             /\ d.next <= TwinOf(d, taken, i)
             /\ TwinOf(d, taken, i) < d.next + Cardinality(split)
             /\ Half(d, taken, TwinOf(d, taken, i)) = i
  <2>1. Cardinality(Before(i)) \in Nat /\ Cardinality(Before(i)) < Cardinality(split)
    BY <1>3
  <2>2. TwinOf(d, taken, i) = d.next + Cardinality(Before(i))
    BY <1>5
  <2>3. Half(d, taken, TwinOf(d, taken, i)) = i
    BY <1>7 DEF Half
  <2> HIDE DEF Before, split
  <2> QED BY <1>2, <1>6, <2>1, <2>2, <2>3 DEF Lots
<1>9. d.next + Cardinality(split) \in 1..(MaxLots + 1)
  <2> HIDE DEF split
  <2> QED BY <1>2, <1>6
<1> QED BY <1>1, <1>2, <1>7, <1>8, <1>9

(* Values that pass from the layers to their twins add up to the same.     *)
LEMMA TwinSum ==
    ASSUME NEW d \in Databases, NEW taken, HasRoom(d, Cardinality(Twinned(d, taken))),
           NEW p, \A i \in Lots : p[i] \in Int,
           \A i \in Lots \ Twinned(d, taken) : p[i] = 0,
           NEW g, \A k \in Lots : g[k] = IF k \in Twins(d, taken) THEN p[Half(d, taken, k)] ELSE 0
    PROVE  /\ \A k \in Lots : g[k] \in Int
           /\ SumFunctionOnSet(g, Lots) = SumFunctionOnSet(p, Lots)
<1> DEFINE split == Twinned(d, taken)
           h == [i \in split |-> TwinOf(d, taken, i)]
           T == {h[i] : i \in split}
<1>1. split \in SUBSET Lots /\ IsFiniteSet(split) /\ IsFiniteSet(Lots)
  BY TwinsAreNew, LotsFinite, FS_Subset
<1>2. T = Twins(d, taken)
  BY DEF Twins
<1>3. \A i \in split : h[i] \in Lots /\ Half(d, taken, h[i]) = i
  BY TwinsAreNew
<1>4. \A i, j \in split : h[i] = h[j] => i = j
  BY TwinsAreNew
<1>5. \A i \in split : p[i] \in Int /\ g[h[i]] = p[i]
  BY <1>1, <1>2, <1>3
<1>6. SumFunctionOnSet(g, T) = SumFunctionOnSet(p, split)
  <2> HIDE DEF h, split
  <2> QED BY <1>1, <1>4, <1>5, SumReindex
<1>7. T \in SUBSET Lots
  BY <1>3
<1>8. \A k \in Lots : g[k] \in Int
  BY <1>2, <1>3, <1>5
<1>9. \A k \in Lots \ T : g[k] = 0
  BY <1>2
<1> HIDE DEF T, split
<1>10. SumFunctionOnSet(g, Lots) = SumFunctionOnSet(g, T)
  BY <1>1, <1>7, <1>8, <1>9, SumWithin
<1>11. SumFunctionOnSet(p, Lots) = SumFunctionOnSet(p, split)
  <2>1. \A i \in Lots \ split : p[i] = 0
    BY DEF split
  <2> QED BY <1>1, <2>1, SumWithin
<1> QED BY <1>6, <1>8, <1>10, <1>11

(* What a twin takes over of its layer's receipt.                          *)
Part(d, taken, doc, i) == Min({taken[i], d.receipts[doc][i]})

(* From d to e, the units "taken" went from one shelf to another: the      *)
(* twins, the layers that were split, those that went whole, and the rest. *)
Moved(d, e, from, to, n, taken) ==
    LET split == Twinned(d, taken)
        twins == Twins(d, taken)
        of(k) == Half(d, taken, k)
    IN  /\ e \in Databases
        /\ \A k \in Lots : e.lots[k] =
               IF k \in twins
               THEN [location |-> to, received |-> taken[of(k)],
                     remaining |-> taken[of(k)], since |-> d.lots[of(k)].since]
               ELSE IF k \in split THEN Shrunk(d.lots[k], taken[k])
               ELSE IF taken[k] > 0 THEN [d.lots[k] EXCEPT !.location = to]
               ELSE d.lots[k]
        /\ \A doc \in Docs, k \in Lots : e.receipts[doc][k] =
               IF k \in twins THEN Part(d, taken, doc, of(k))
               ELSE IF k \in split THEN d.receipts[doc][k] - Part(d, taken, doc, k)
               ELSE d.receipts[doc][k]
        /\ e.checked = d.checked /\ e.scans = d.scans
        /\ e.next = d.next + Cardinality(split)
        /\ \A m \in Locations : e.stock[m] = d.stock[m] + (IF m = to THEN n ELSE 0) - (IF m = from THEN n ELSE 0)

(* The library's least ...                                                 *)
LEMMA MinOfTwo ==
    ASSUME NEW a \in Int, NEW b \in Int
    PROVE  Min({a, b}) = IF a <= b THEN a ELSE b
<1> DEFINE c == IF a <= b THEN a ELSE b
<1>1. c \in {a, b} /\ \A x \in {a, b} : c <= x
  OBVIOUS
<1>2. \A y \in {a, b} : (\A x \in {a, b} : y <= x) => y = c
  OBVIOUS
<1> HIDE DEF c
<1>3. Min({a, b}) = c
  BY <1>1, <1>2 DEF Min
<1> QED BY <1>3 DEF c

(* ... and greatest of two numbers.                                        *)
LEMMA MaxOfTwo ==
    ASSUME NEW a \in Int, NEW b \in Int
    PROVE  Max({a, b}) = IF a <= b THEN b ELSE a
<1> DEFINE c == IF a <= b THEN b ELSE a
<1>1. c \in {a, b} /\ \A x \in {a, b} : c >= x
  OBVIOUS
<1>2. \A y \in {a, b} : (\A x \in {a, b} : y >= x) => y = c
  OBVIOUS
<1> HIDE DEF c
<1>3. Max({a, b}) = c
  BY <1>1, <1>2 DEF Max
<1> QED BY <1>3 DEF c

(* Relocated and the two counts are such a move.                           *)
LEMMA RelocationMoves ==
    ASSUME NEW d, Sound(d), NEW from \in Locations, NEW to \in Locations, from # to, NEW n \in Nat,
           NEW taken \in Slices, \A i \in Lots : taken[i] > 0 => i \in OpenAt(d, from) /\ taken[i] <= d.lots[i].remaining,
           HasRoom(d, Cardinality(Twinned(d, taken))),
           NEW e, e = Bump(Bump(Relocated(d, to, taken), from, -n), to, n)
    PROVE  Moved(d, e, from, to, n, taken)
<1> DEFINE split == Twinned(d, taken)
           twins == Twins(d, taken)
           of(k) == Half(d, taken, k)
           lots == [k \in Lots |->
               IF k \in twins
               THEN [location |-> to, received |-> taken[of(k)],
                     remaining |-> taken[of(k)], since |-> d.lots[of(k)].since]
               ELSE IF k \in split THEN Shrunk(d.lots[k], taken[k])
               ELSE IF taken[k] > 0 THEN [d.lots[k] EXCEPT !.location = to]
               ELSE d.lots[k]]
           receipts == [doc \in Docs |-> [k \in Lots |->
               IF k \in twins THEN Part(d, taken, doc, of(k))
               ELSE IF k \in split THEN d.receipts[doc][k] - Part(d, taken, doc, k)
               ELSE d.receipts[doc][k]]]
           r == Relocated(d, to, taken)
<1>1. d \in Databases /\ Layers(d)
  BY DEF Sound, Layers
<1>2. /\ split \in SUBSET Lots /\ Cardinality(split) \in Nat
      /\ d.next + Cardinality(split) \in 1..(MaxLots + 1)
      /\ \A k \in twins : of(k) \in split
  BY <1>1, TwinsAreNew DEF Twins
<1>3. \A i \in Lots : taken[i] \in Nat /\ d.lots[i] \in LotRows /\ taken[i] <= d.lots[i].remaining
                      /\ d.lots[i].remaining <= d.lots[i].received
  <2>1. \A i \in Lots : taken[i] \in Nat /\ d.lots[i] \in LotRows /\ d.lots[i].remaining \in Nat
                        /\ d.lots[i].remaining <= d.lots[i].received
    BY <1>1, DbParts DEF Slices, Layers, Databases
  <2> QED BY <2>1
<1>4. \A doc \in Docs, i \in Lots :
          /\ d.receipts[doc][i] \in Nat
          /\ Part(d, taken, doc, i) = IF taken[i] <= d.receipts[doc][i] THEN taken[i] ELSE d.receipts[doc][i]
          /\ Part(d, taken, doc, i) \in Nat /\ d.receipts[doc][i] - Part(d, taken, doc, i) \in Nat
  <2> SUFFICES ASSUME NEW doc \in Docs, NEW i \in Lots
               PROVE /\ d.receipts[doc][i] \in Nat
                     /\ Part(d, taken, doc, i) = IF taken[i] <= d.receipts[doc][i] THEN taken[i] ELSE d.receipts[doc][i]
                     /\ Part(d, taken, doc, i) \in Nat /\ d.receipts[doc][i] - Part(d, taken, doc, i) \in Nat
    OBVIOUS
  <2>1. d.receipts[doc][i] \in Nat /\ taken[i] \in Nat
    BY <1>1, <1>3, DbParts
  <2>2. Part(d, taken, doc, i) = IF taken[i] <= d.receipts[doc][i] THEN taken[i] ELSE d.receipts[doc][i]
    BY <2>1, MinOfTwo DEF Part
  <2> QED BY <2>1, <2>2
<1>5. lots \in [Lots -> LotRows]
  <2>1. ASSUME NEW k \in Lots PROVE lots[k] \in LotRows
    <3>1. CASE k \in twins
      BY <3>1, <1>2, <1>3 DEF LotRows
    <3>2. CASE k \notin twins /\ k \in split
      <4>1. d.lots[k].received - taken[k] \in Nat /\ d.lots[k].remaining - taken[k] \in Nat
        BY <1>3 DEF LotRows
      <4>2. Shrunk(d.lots[k], taken[k]) \in LotRows
        BY <1>3, <4>1 DEF LotRows, Shrunk
      <4> QED BY <3>2, <4>2
    <3>3. CASE k \notin twins /\ k \notin split
      BY <3>3, <1>3 DEF LotRows
    <3> QED BY <3>1, <3>2, <3>3
  <2> QED BY <2>1
<1>6. receipts \in [Docs -> [Lots -> Nat]]
  BY <1>2, <1>4
<1>7. r = [[[d EXCEPT !.lots = lots] EXCEPT !.receipts = receipts] EXCEPT !.next = @ + Cardinality(split)]
  BY <1>1 DEF Relocated, Twins, Half, TwinOf, Part, Databases
<1>8. /\ r \in Databases /\ r.lots = lots /\ r.receipts = receipts /\ r.next = d.next + Cardinality(split)
      /\ r.stock = d.stock /\ r.checked = d.checked /\ r.scans = d.scans
  <2> HIDE DEF r, lots, receipts, split
  <2> QED BY <1>1, <1>2, <1>5, <1>6, <1>7 DEF Databases
<1>9. /\ e \in Databases /\ e.lots = lots /\ e.receipts = receipts /\ e.next = d.next + Cardinality(split)
      /\ e.checked = d.checked /\ e.scans = d.scans
      /\ e.stock = [[d.stock EXCEPT ![from] = @ + (-n)] EXCEPT ![to] = @ + n]
  <2>1. e = Bump(Bump(r, from, -n), to, n)
    OBVIOUS
  <2> HIDE DEF r, lots, receipts, split
  <2> DEFINE c == Bump(r, from, -n)
  <2>2. /\ c \in Databases /\ c.lots = lots /\ c.receipts = receipts /\ c.next = d.next + Cardinality(split)
        /\ c.checked = d.checked /\ c.scans = d.scans /\ c.stock = [d.stock EXCEPT ![from] = @ + (-n)]
    BY <1>8 DEF Bump, Databases
  <2>3. e = Bump(c, to, n)
    BY <2>1
  <2> HIDE DEF c
  <2>4. e = [c EXCEPT !.stock[to] = @ + n] /\ [c.stock EXCEPT ![to] = @ + n] \in [Locations -> Int]
    <3>1. c.stock \in [Locations -> Int]
      BY <2>2, DbParts
    <3>2. [c.stock EXCEPT ![to] = @ + n] \in [Locations -> Int]
      BY <3>1
    <3> QED BY <2>3, <3>2 DEF Bump
  <2>5. e \in Databases
    BY <2>2, <2>4 DEF Databases
  <2>6. /\ e.lots = c.lots /\ e.receipts = c.receipts /\ e.next = c.next
        /\ e.checked = c.checked /\ e.scans = c.scans /\ e.stock = [c.stock EXCEPT ![to] = @ + n]
    BY <2>2, <2>4 DEF Databases
  <2> QED BY <2>2, <2>5, <2>6
<1>10. \A m \in Locations : e.stock[m] = d.stock[m] + (IF m = to THEN n ELSE 0) - (IF m = from THEN n ELSE 0)
  <2>1. d.stock \in [Locations -> Int]
    BY <1>1, DbParts
  <2> QED BY <1>9, <2>1
<1> HIDE DEF r
<1> QED BY <1>9, <1>10 DEF Moved

(* A move is safe, although layers are split: units that orders took stay  *)
(* accounted for on the shelf they were sold from, since only unsold ones  *)
(* leave it. The receipts split as their layers do. Each shelf's layers    *)
(* change as its count does.                                               *)
LEMMA MoveKeeps ==
    ASSUME NEW d, Sound(d), NEW from \in Locations, NEW to \in Locations, from # to, NEW n \in Nat,
           NEW taken \in Slices, SumFunction(taken) = n,
           \A i \in Lots : taken[i] > 0 => i \in OpenAt(d, from) /\ taken[i] <= d.lots[i].remaining,
           HasRoom(d, Cardinality(Twinned(d, taken))),
           NEW e, Moved(d, e, from, to, n, taken),
           NEW owed \in Slices, Restorable(d, owed)
    PROVE  /\ Safe(d, e, owed)
           /\ \A m \in Locations : Gap(e)[m] = Gap(d)[m]
<1> DEFINE split == Twinned(d, taken)
           twins == Twins(d, taken)
           of(k) == Half(d, taken, k)
<1>1. d \in Databases /\ e \in Databases /\ Layers(d) /\ Papers(d)
  BY DEF Sound, Layers, Moved
<1>2. /\ split \in SUBSET Lots /\ Cardinality(split) \in Nat
      /\ d.next \in Nat /\ e.next = d.next + Cardinality(split)
      /\ \A k \in twins : of(k) \in split /\ k \in Lots /\ d.next <= k /\ k < e.next
  BY <1>1, TwinsAreNew, DbParts DEF Twins, Moved
<1>3. \A i \in Lots : /\ i \in Nat /\ taken[i] \in Nat /\ owed[i] \in Nat
                      /\ d.lots[i].remaining \in Nat /\ d.lots[i].received \in Nat /\ d.lots[i].since \in Nat
                      /\ taken[i] <= d.lots[i].remaining /\ d.lots[i].remaining <= d.lots[i].received
  BY <1>1, DbParts, LotsFinite DEF Slices, Layers
<1>4. \A i \in split : /\ i \in Lots /\ taken[i] > 0 /\ taken[i] < d.lots[i].received
                       /\ Exists(d, i) /\ i \notin twins /\ d.lots[i].location = from /\ i < d.next
                       /\ d.lots[i].since < d.next
  <2> TAKE i \in split
  <2>1. i \in Lots /\ taken[i] > 0 /\ taken[i] # d.lots[i].received /\ d.lots[i].location = from
    BY DEF Twinned, OpenAt
  <2>2. d.lots[i].received > 0 /\ taken[i] < d.lots[i].received
    BY <1>3, <2>1
  <2> QED BY <1>1, <1>2, <1>3, <2>1, <2>2, SoundParts
<1>5. \A k \in twins : ~Exists(d, k) /\ d.lots[k].remaining = 0 /\ taken[k] = 0 /\ d.scans[k] = NoScan
                       /\ \A doc \in Docs : d.receipts[doc][k] = 0
  <2> TAKE k \in twins
  <2>1. k \in Lots /\ ~(k < d.next)
    BY <1>2, <1>3
  <2>2. ~Exists(d, k) /\ d.scans[k] = NoScan
    BY <1>1, <2>1 DEF Layers, Papers
  <2>3. d.lots[k].remaining = 0
    BY <1>1, <2>1, <2>2, SoundParts
  <2> QED BY <1>1, <1>3, <2>1, <2>2, <2>3 DEF Papers
<1>6. \A k \in Lots :
        /\ k \in twins => e.lots[k] = [location |-> to, received |-> taken[of(k)],
                                       remaining |-> taken[of(k)], since |-> d.lots[of(k)].since]
        /\ k \in split => e.lots[k] = Shrunk(d.lots[k], taken[k])
        /\ k \notin twins /\ k \notin split /\ taken[k] > 0 => e.lots[k] = [d.lots[k] EXCEPT !.location = to]
        /\ k \notin twins /\ k \notin split /\ ~(taken[k] > 0) => e.lots[k] = d.lots[k]
  BY <1>4 DEF Moved
<1>7. \A k \in Lots : d.lots[k] \in LotRows
  BY <1>1, DbParts
<1>8. /\ \A k \in twins : /\ e.lots[k].location = to /\ e.lots[k].received = taken[of(k)]
                          /\ e.lots[k].remaining = taken[of(k)] /\ e.lots[k].since = d.lots[of(k)].since
      /\ \A k \in split : /\ e.lots[k].location = from /\ e.lots[k].received = d.lots[k].received - taken[k]
                          /\ e.lots[k].remaining = d.lots[k].remaining - taken[k] /\ e.lots[k].since = d.lots[k].since
      /\ \A k \in Lots : k \notin twins /\ k \notin split =>
             /\ e.lots[k].location = IF taken[k] > 0 THEN to ELSE d.lots[k].location
             /\ e.lots[k].received = d.lots[k].received
             /\ e.lots[k].remaining = d.lots[k].remaining /\ e.lots[k].since = d.lots[k].since
  <2>1. \A k \in twins : /\ e.lots[k].location = to /\ e.lots[k].received = taken[of(k)]
                          /\ e.lots[k].remaining = taken[of(k)] /\ e.lots[k].since = d.lots[of(k)].since
    <3> TAKE k \in twins
    <3>1. e.lots[k] = [location |-> to, received |-> taken[of(k)],
                       remaining |-> taken[of(k)], since |-> d.lots[of(k)].since]
      BY <1>2, <1>6
    <3> HIDE DEF of
    <3> QED BY <3>1
  <2>2. \A k \in split : /\ e.lots[k].location = from /\ e.lots[k].received = d.lots[k].received - taken[k]
                          /\ e.lots[k].remaining = d.lots[k].remaining - taken[k] /\ e.lots[k].since = d.lots[k].since
    <3> TAKE k \in split
    <3>1. k \in Lots /\ d.lots[k] \in LotRows /\ e.lots[k] = Shrunk(d.lots[k], taken[k]) /\ d.lots[k].location = from
      BY <1>4, <1>6, <1>7
    <3> QED BY <3>1 DEF Shrunk, LotRows
  <2>3. ASSUME NEW k \in Lots, k \notin twins, k \notin split
        PROVE  /\ e.lots[k].location = IF taken[k] > 0 THEN to ELSE d.lots[k].location
               /\ e.lots[k].received = d.lots[k].received
               /\ e.lots[k].remaining = d.lots[k].remaining /\ e.lots[k].since = d.lots[k].since
    <3>1. CASE taken[k] > 0
      <4>1. d.lots[k] \in LotRows /\ e.lots[k] = [d.lots[k] EXCEPT !.location = to]
        BY <1>6, <1>7, <2>3, <3>1
      <4> QED BY <3>1, <4>1 DEF LotRows
    <3>2. CASE ~(taken[k] > 0)
      <4>1. e.lots[k] = d.lots[k]
        BY <1>6, <2>3, <3>2
      <4> QED BY <3>2, <4>1
    <3> QED BY <3>1, <3>2
  <2> QED BY <2>1, <2>2, <2>3
<1>9. \A k \in Lots : /\ k \in twins \/ k \in split => e.lots[k].received > 0
                      /\ k \notin twins /\ k \notin split => (Exists(e, k) <=> Exists(d, k))
  <2> TAKE k \in Lots
  <2>1. k \in twins \/ k \in split => e.lots[k].received > 0
    BY <1>2, <1>3, <1>4, <1>8
  <2>2. ASSUME k \notin twins, k \notin split, taken[k] > 0 PROVE Exists(e, k) /\ Exists(d, k)
    <3>1. d.lots[k].received > 0
      BY <1>3, <2>2
    <3>2. e.lots[k].received > 0
      BY <1>8, <2>2, <3>1
    <3> QED BY <3>1, <3>2 DEF Exists, NoLot
  <2>3. ASSUME k \notin twins, k \notin split, ~(taken[k] > 0) PROVE Exists(e, k) <=> Exists(d, k)
    BY <1>6, <2>3 DEF Exists
  <2> QED BY <2>1, <2>2, <2>3
<1>10. \A k \in Lots : k \in twins \/ k \in split => Exists(e, k)
  BY <1>9 DEF Exists, NoLot
<1>11. Layers(e)
  <2> SUFFICES ASSUME NEW k \in Lots
               PROVE  /\ e.lots[k].remaining <= e.lots[k].received
                      /\ Exists(e, k) => /\ e.lots[k].received > 0 /\ k < e.next
                                         /\ e.lots[k].since < e.next
    BY <1>1 DEF Layers
  <2>1. CASE k \in twins
    <3>1. of(k) \in split /\ k < e.next /\ taken[of(k)] \in Nat /\ d.lots[of(k)].since \in Nat
          /\ d.lots[of(k)].since < d.next
      BY <2>1, <1>2, <1>3, <1>4
    <3>2. e.lots[k].since < e.next
      <4>1. e.lots[k].since = d.lots[of(k)].since
        BY <2>1, <1>8
      <4> QED BY <3>1, <4>1, <1>2
    <3>3. e.lots[k].remaining <= e.lots[k].received
      <4>1. e.lots[k].remaining = e.lots[k].received /\ e.lots[k].received = taken[of(k)]
        BY <2>1, <1>8
      <4> QED BY <3>1, <4>1
    <3> QED BY <2>1, <1>9, <3>1, <3>2, <3>3
  <2>2. CASE k \in split
    <3>1. e.lots[k].received > 0
      BY <2>2, <1>9
    <3>2. /\ e.lots[k].received = d.lots[k].received - taken[k]
          /\ e.lots[k].remaining = d.lots[k].remaining - taken[k] /\ e.lots[k].since = d.lots[k].since
      BY <2>2, <1>8
    <3> QED BY <2>2, <3>1, <3>2, <1>2, <1>3, <1>4
  <2>3. CASE k \notin twins /\ k \notin split
    <3>1. Exists(d, k) => /\ d.lots[k].received > 0 /\ k < d.next /\ d.lots[k].since < d.next
      BY <1>1 DEF Layers
    <3>2. /\ e.lots[k].received = d.lots[k].received
          /\ e.lots[k].remaining = d.lots[k].remaining /\ e.lots[k].since = d.lots[k].since
      BY <2>3, <1>8
    <3> QED BY <2>3, <3>1, <3>2, <1>2, <1>3, <1>9
  <2> QED BY <2>1, <2>2, <2>3
<1>12. \A doc \in Docs, i \in Lots :
          /\ d.receipts[doc][i] \in Nat
          /\ Part(d, taken, doc, i) \in Nat
          /\ i \in split => Part(d, taken, doc, i) = IF d.receipts[doc][i] = 0 THEN 0 ELSE taken[i]
  <2> SUFFICES ASSUME NEW doc \in Docs, NEW i \in Lots
               PROVE  /\ d.receipts[doc][i] \in Nat
                      /\ Part(d, taken, doc, i) \in Nat
                      /\ i \in split => Part(d, taken, doc, i) = IF d.receipts[doc][i] = 0 THEN 0 ELSE taken[i]
    OBVIOUS
  <2>1. d.receipts[doc][i] \in Nat /\ taken[i] \in Nat
    BY <1>1, <1>3, DbParts
  <2>2. Part(d, taken, doc, i) = IF taken[i] <= d.receipts[doc][i] THEN taken[i] ELSE d.receipts[doc][i]
    BY <2>1, MinOfTwo DEF Part
  <2>3. d.receipts[doc][i] # 0 => d.receipts[doc][i] = d.lots[i].received
    BY <1>1 DEF Papers
  <2>4. i \in split => taken[i] < d.lots[i].received
    BY <1>4
  <2> QED BY <1>3, <2>1, <2>2, <2>3, <2>4
<1>13. \A doc \in Docs :
          /\ \A k \in twins : e.receipts[doc][k] = IF d.receipts[doc][of(k)] = 0 THEN 0 ELSE taken[of(k)]
          /\ \A k \in split : e.receipts[doc][k] =
                 IF d.receipts[doc][k] = 0 THEN 0 ELSE d.lots[k].received - taken[k]
          /\ \A k \in Lots : k \notin twins /\ k \notin split => e.receipts[doc][k] = d.receipts[doc][k]
  <2> TAKE doc \in Docs
  <2>1. \A k \in Lots : e.receipts[doc][k] =
               IF k \in twins THEN Part(d, taken, doc, of(k))
               ELSE IF k \in split THEN d.receipts[doc][k] - Part(d, taken, doc, k)
               ELSE d.receipts[doc][k]
    BY DEF Moved
  <2>2. ASSUME NEW k \in twins PROVE e.receipts[doc][k] = IF d.receipts[doc][of(k)] = 0 THEN 0 ELSE taken[of(k)]
    <3>1. k \in Lots /\ of(k) \in split /\ of(k) \in Lots
      BY <1>2
    <3> HIDE DEF of, twins, split
    <3> QED BY <3>1, <2>1, <2>2, <1>12
  <2>3. ASSUME NEW k \in split
        PROVE e.receipts[doc][k] = IF d.receipts[doc][k] = 0 THEN 0 ELSE d.lots[k].received - taken[k]
    <3>1. k \in Lots /\ k \notin twins
      BY <1>4
    <3>2. e.receipts[doc][k] = d.receipts[doc][k] - Part(d, taken, doc, k)
      BY <2>1, <3>1
    <3>3. d.receipts[doc][k] # 0 => d.receipts[doc][k] = d.lots[k].received
      BY <1>1, <3>1 DEF Papers
    <3> QED BY <3>1, <3>2, <3>3, <1>12
  <2> QED BY <2>1, <2>2, <2>3
<1>14. \A doc \in Docs, k \in Lots :
          e.receipts[doc][k] # 0 <=> IF k \in twins THEN d.receipts[doc][of(k)] # 0 ELSE d.receipts[doc][k] # 0
  <2> TAKE doc \in Docs, k \in Lots
  <2>1. CASE k \in twins
    BY <2>1, <1>2, <1>4, <1>13
  <2>2. CASE k \in split
    <3>1. d.lots[k].received - taken[k] # 0
      BY <2>2, <1>3, <1>4
    <3> QED BY <2>2, <3>1, <1>4, <1>13
  <2>3. CASE k \notin twins /\ k \notin split
    BY <2>3, <1>13
  <2> QED BY <2>1, <2>2, <2>3
<1>15. ASSUME NEW doc \in Docs PROVE SumFunction(e.receipts[doc]) = e.checked[doc]
  <2> DEFINE f == d.receipts[doc]
             h == e.receipts[doc]
             p == [i \in Lots |-> IF i \in split THEN Part(d, taken, doc, i) ELSE 0]
             g == [k \in Lots |-> IF k \in twins THEN p[of(k)] ELSE 0]
             both == [k \in Lots |-> h[k] + p[k]]
  <2>1. f \in [Lots -> Nat] /\ h \in [Lots -> Nat] /\ IsFiniteSet(Lots)
    BY <1>1, DbParts, LotsFinite
  <2>2. \A i \in Lots : f[i] \in Int /\ h[i] \in Int /\ p[i] \in Int
    BY <2>1, <1>12
  <2>3. SumFunctionOnSet(g, Lots) = SumFunctionOnSet(p, Lots) /\ \A k \in Lots : g[k] \in Int
    <3>1. \A i \in Lots \ Twinned(d, taken) : p[i] = 0
      OBVIOUS
    <3>2. \A k \in Lots : g[k] = IF k \in Twins(d, taken) THEN p[Half(d, taken, k)] ELSE 0
      OBVIOUS
    <3>3. \A i \in Lots : p[i] \in Int
      BY <2>2
    <3> HIDE DEF p, g
    <3> QED BY <1>1, <3>1, <3>2, <3>3, TwinSum
  <2>4. \A k \in Lots : both[k] = h[k] + p[k] /\ both[k] = f[k] + g[k]
    <3> TAKE k \in Lots
    <3>1. CASE k \in twins
      <4>1. h[k] = Part(d, taken, doc, of(k)) /\ of(k) \in split /\ of(k) \in Lots
        BY <3>1, <1>2 DEF Moved
      <4>2. p[k] = 0 /\ f[k] = 0
        BY <3>1, <1>4, <1>5
      <4>3. g[k] = Part(d, taken, doc, of(k)) /\ Part(d, taken, doc, of(k)) \in Nat
        BY <3>1, <4>1, <1>12
      <4>4. both[k] = h[k] + p[k]
        OBVIOUS
      <4> HIDE DEF p, f, g, h, both, of
      <4> QED BY <4>1, <4>2, <4>3, <4>4
    <3>2. CASE k \in split
      <4>1. h[k] = f[k] - Part(d, taken, doc, k)
        BY <3>2, <1>4 DEF Moved
      <4>2. g[k] = 0 /\ p[k] = Part(d, taken, doc, k) /\ p[k] \in Nat /\ f[k] \in Nat
        BY <3>2, <1>4, <1>12, <2>1
      <4>3. both[k] = h[k] + p[k]
        OBVIOUS
      <4> HIDE DEF p, f, g, h, both
      <4> QED BY <4>1, <4>2, <4>3
    <3>3. CASE k \notin twins /\ k \notin split
      <4>1. h[k] = f[k] /\ g[k] = 0 /\ p[k] = 0 /\ f[k] \in Nat
        BY <3>3, <1>13, <2>1
      <4>2. both[k] = h[k] + p[k]
        OBVIOUS
      <4> HIDE DEF p, f, g, h, both
      <4> QED BY <4>1, <4>2
    <3> QED BY <3>1, <3>2, <3>3
  <2>5. SumFunctionOnSet(f, Lots) = d.checked[doc] /\ e.checked[doc] = d.checked[doc]
    BY <1>1, <2>1 DEF Papers, SumFunction, Moved
  <2>6. SumFunction(h) = SumFunctionOnSet(h, Lots)
    BY <2>1 DEF SumFunction
  <2> HIDE DEF p, f, g, h, both
  <2>7. /\ SumFunctionOnSet(both, Lots) = SumFunctionOnSet(h, Lots) + SumFunctionOnSet(p, Lots)
        /\ SumFunctionOnSet(both, Lots) = SumFunctionOnSet(f, Lots) + SumFunctionOnSet(g, Lots)
    BY <2>1, <2>2, <2>3, <2>4, SumPlus
  <2>8. /\ SumFunctionOnSet(h, Lots) \in Int /\ SumFunctionOnSet(p, Lots) \in Int /\ SumFunctionOnSet(f, Lots) \in Int
    BY <2>1, <2>2, SumIsInt
  <2>9. SumFunction(h) = e.checked[doc]
    BY <2>3, <2>5, <2>6, <2>7, <2>8
  <2> QED BY <2>9 DEF h
<1>16. ASSUME NEW doc \in Docs, NEW k \in Lots, e.receipts[doc][k] # 0
       PROVE  /\ Exists(e, k) /\ e.receipts[doc][k] = e.lots[k].received
              /\ \A other \in Docs \ {doc} : e.receipts[other][k] = 0
  <2>1. \A other \in Docs, i \in Lots : d.receipts[other][i] # 0 =>
           /\ Exists(d, i) /\ d.receipts[other][i] = d.lots[i].received
           /\ \A third \in Docs \ {other} : d.receipts[third][i] = 0
    BY <1>1 DEF Papers
  <2>2. CASE k \in twins
    <3>1. d.receipts[doc][of(k)] # 0 /\ of(k) \in Lots
      BY <2>2, <1>2, <1>14, <1>16
    <3>2. \A other \in Docs \ {doc} : d.receipts[other][of(k)] = 0
      BY <2>1, <3>1
    <3> QED BY <2>2, <3>1, <3>2, <1>8, <1>10, <1>13
  <2>3. CASE k \in split
    <3>1. d.receipts[doc][k] # 0
      BY <2>3, <1>4, <1>14, <1>16
    <3>2. \A other \in Docs \ {doc} : d.receipts[other][k] = 0
      BY <2>1, <3>1
    <3> QED BY <2>3, <3>1, <3>2, <1>8, <1>10, <1>13
  <2>4. CASE k \notin twins /\ k \notin split
    BY <2>1, <2>4, <1>8, <1>9, <1>13, <1>16
  <2> QED BY <2>2, <2>3, <2>4
<1>17. ASSUME NEW k \in Lots, e.scans[k] # NoScan
       PROVE  /\ k < e.next
              /\ e.scans[k].quantity > 0 /\ e.lots[k].received <= e.scans[k].quantity
              /\ \A doc \in Docs : e.receipts[doc][k] # 0 => doc = e.scans[k].doc
              /\ e.scans[k].doc # NoPo /\ Exists(e, k) => e.receipts[e.scans[k].doc][k] # 0
  <2>1. e.scans[k] = d.scans[k] /\ d.scans[k] # NoScan /\ k \notin twins
    BY <1>5, <1>17 DEF Moved
  <2>2. /\ k < d.next
        /\ d.scans[k].quantity > 0 /\ d.lots[k].received <= d.scans[k].quantity
        /\ \A doc \in Docs : d.receipts[doc][k] # 0 => doc = d.scans[k].doc
        /\ d.scans[k].doc # NoPo /\ Exists(d, k) => d.receipts[d.scans[k].doc][k] # 0
    BY <1>1, <2>1 DEF Papers
  <2>3. d.scans[k].quantity \in Nat /\ d.scans[k].doc \in Docs \cup {NoPo}
    BY <1>1, DbParts, DocsApart
  <2>4. e.lots[k].received <= d.lots[k].received
    <3>1. CASE k \in split
      BY <3>1, <1>3, <1>8
    <3>2. CASE k \notin split
      BY <2>1, <3>2, <1>3, <1>8
    <3> QED BY <3>1, <3>2
  <2>5. e.lots[k].received \in Nat /\ d.lots[k].received \in Nat
    BY <1>1, DbParts
  <2>6. e.lots[k].received <= e.scans[k].quantity
    BY <2>1, <2>2, <2>3, <2>4, <2>5
  <2>7. k < e.next
    BY <2>2, <1>2, <1>3
  <2>8. Exists(e, k) => Exists(d, k)
    BY <2>1, <1>4, <1>9
  <2> QED BY <2>1, <2>2, <2>3, <2>6, <2>7, <2>8, <1>14
<1>18. Papers(e)
  BY <1>15, <1>16, <1>17 DEF Papers
<1>19. ASSUME NEW k \in Lots, owed[k] > 0
       PROVE  /\ Exists(e, k) /\ e.lots[k].remaining + owed[k] <= e.lots[k].received
              /\ e.lots[k].location = d.lots[k].location
  <2>1. Exists(d, k) /\ d.lots[k].remaining + owed[k] <= d.lots[k].received
    BY <1>19 DEF Restorable
  <2>2. k \notin twins
    BY <1>5, <2>1
  <2>3. CASE k \in split
    BY <2>1, <2>3, <1>3, <1>4, <1>8, <1>10
  <2>4. CASE k \notin split
    <3>1. taken[k] > 0 => taken[k] = d.lots[k].received
      BY <2>4 DEF Twinned
    <3>2. ~(taken[k] > 0)
      BY <3>1, <2>1, <1>3, <1>19
    <3> QED BY <2>1, <2>2, <2>4, <3>2, <1>8, <1>9
  <2> QED BY <2>3, <2>4
<1>20. Safe(d, e, owed)
  BY <1>11, <1>18, <1>19 DEF Safe, Sound, Restorable
<1>21. ASSUME NEW m \in Locations PROVE Gap(e)[m] = Gap(d)[m]
  <2> DEFINE f == ShareAt(d, m)
             h == ShareAt(e, m)
             minus == [k \in Lots |-> IF m = from THEN taken[k] ELSE 0]
             p == [k \in Lots |-> IF m = to /\ k \in split THEN taken[k] ELSE 0]
             g == [k \in Lots |-> IF k \in twins THEN p[of(k)] ELSE 0]
             whole == [k \in Lots |-> IF m = to /\ k \notin split THEN taken[k] ELSE 0]
             plus == [k \in Lots |-> IF m = to THEN taken[k] ELSE 0]
             left == [k \in Lots |-> h[k] + minus[k]]
             right == [k \in Lots |-> g[k] + whole[k]]
  <2>1. \A k \in Lots : /\ f[k] \in Int /\ h[k] \in Int /\ minus[k] \in Int /\ p[k] \in Int
                        /\ whole[k] \in Int /\ plus[k] \in Int /\ plus[k] = p[k] + whole[k]
                        /\ left[k] = h[k] + minus[k] /\ right[k] = g[k] + whole[k]
    <3> TAKE k \in Lots
    <3>1. f[k] \in Int /\ h[k] \in Int
      BY <1>1, DbParts DEF ShareAt
    <3>2. taken[k] \in Nat /\ whole[k] = (IF m = to /\ k \notin split THEN taken[k] ELSE 0)
          /\ p[k] = (IF m = to /\ k \in split THEN taken[k] ELSE 0)
          /\ plus[k] = (IF m = to THEN taken[k] ELSE 0) /\ minus[k] = IF m = from THEN taken[k] ELSE 0
      BY <1>3
    <3>3. left[k] = h[k] + minus[k] /\ right[k] = g[k] + whole[k]
      OBVIOUS
    <3> HIDE DEF f, h, minus, p, g, whole, plus, left, right
    <3> QED BY <3>1, <3>2, <3>3
  <2>2. SumFunctionOnSet(g, Lots) = SumFunctionOnSet(p, Lots) /\ \A k \in Lots : g[k] \in Int
    <3>1. \A i \in Lots \ Twinned(d, taken) : p[i] = 0
      OBVIOUS
    <3>2. \A k \in Lots : g[k] = IF k \in Twins(d, taken) THEN p[Half(d, taken, k)] ELSE 0
      OBVIOUS
    <3>3. \A i \in Lots : p[i] \in Int
      BY <2>1
    <3> HIDE DEF p, g
    <3> QED BY <1>1, <3>1, <3>2, <3>3, TwinSum
  <2>3. \A k \in Lots : left[k] = f[k] + right[k]
    <3> TAKE k \in Lots
    <3>0. /\ f[k] = (IF d.lots[k].location = m THEN d.lots[k].remaining ELSE 0)
          /\ h[k] = IF e.lots[k].location = m THEN e.lots[k].remaining ELSE 0
      BY DEF ShareAt
    <3>1. CASE k \in twins
      <4>1. h[k] = (IF m = to THEN taken[of(k)] ELSE 0) /\ f[k] = 0
        BY <3>0, <3>1, <1>5, <1>8
      <4>2. minus[k] = 0 /\ whole[k] = 0
        BY <3>1, <1>5
      <4>3. of(k) \in split /\ of(k) \in Lots
        BY <3>1, <1>2
      <4>4. g[k] = (IF m = to THEN taken[of(k)] ELSE 0) /\ taken[of(k)] \in Nat
        BY <3>1, <4>3, <1>3
      <4> HIDE DEF f, h, minus, p, g, whole, plus, left, right, of
      <4> QED BY <4>1, <4>2, <4>4, <2>1
    <3>2. CASE k \in split
      <4>1. k \notin twins /\ d.lots[k].location = from /\ e.lots[k].location = from
            /\ e.lots[k].remaining = d.lots[k].remaining - taken[k]
        BY <3>2, <1>4, <1>8
      <4>2. g[k] = 0 /\ whole[k] = 0 /\ minus[k] = IF m = from THEN taken[k] ELSE 0
        BY <3>2, <4>1
      <4>3. taken[k] \in Nat /\ d.lots[k].remaining \in Nat
        BY <1>3
      <4> HIDE DEF f, h, minus, p, g, whole, plus, left, right
      <4> QED BY <3>0, <4>1, <4>2, <4>3, <2>1
    <3>3. CASE k \notin twins /\ k \notin split /\ taken[k] > 0
      <4>1. d.lots[k].location = from /\ e.lots[k].location = to /\ taken[k] = d.lots[k].received
        BY <3>3, <1>8 DEF OpenAt, Twinned
      <4>2. e.lots[k].remaining = d.lots[k].remaining /\ taken[k] = d.lots[k].remaining
        BY <3>3, <4>1, <1>3, <1>8
      <4>3. g[k] = 0 /\ whole[k] = (IF m = to THEN taken[k] ELSE 0) /\ minus[k] = IF m = from THEN taken[k] ELSE 0
        BY <3>3
      <4>4. taken[k] \in Nat
        BY <1>3
      <4> HIDE DEF f, h, minus, p, g, whole, plus, left, right
      <4> QED BY <3>0, <4>1, <4>2, <4>3, <4>4, <2>1
    <3>4. CASE k \notin twins /\ k \notin split /\ ~(taken[k] > 0)
      <4>1. taken[k] = 0 /\ e.lots[k].location = d.lots[k].location /\ e.lots[k].remaining = d.lots[k].remaining
        BY <3>4, <1>3, <1>8
      <4>2. g[k] = 0 /\ whole[k] = 0 /\ minus[k] = 0
        BY <3>4, <4>1
      <4> HIDE DEF f, h, minus, p, g, whole, plus, left, right
      <4> QED BY <3>0, <4>1, <4>2, <2>1
    <3> QED BY <3>1, <3>2, <3>3, <3>4
  <2>4. SumFunctionOnSet(taken, Lots) = n /\ IsFiniteSet(Lots) /\ \A k \in Lots : taken[k] = taken[k] /\ taken[k] \in Int
    BY <1>3, LotsFinite DEF SumFunction, Slices
  <2>5. SumFunctionOnSet(minus, Lots) = IF m = from THEN n ELSE 0
    <3>1. (m = from => \A k \in Lots : minus[k] = taken[k]) /\ (m # from => \A k \in Lots : minus[k] = 0)
      OBVIOUS
    <3> HIDE DEF minus
    <3> QED BY <3>1, <2>4, SumSame, SumZero
  <2>6. SumFunctionOnSet(plus, Lots) = IF m = to THEN n ELSE 0
    <3>1. (m = to => \A k \in Lots : plus[k] = taken[k]) /\ (m # to => \A k \in Lots : plus[k] = 0)
      OBVIOUS
    <3> HIDE DEF plus
    <3> QED BY <3>1, <2>4, SumSame, SumZero
  <2>7. OnShelf(d, m) = SumFunctionOnSet(f, Lots) /\ OnShelf(e, m) = SumFunctionOnSet(h, Lots)
    BY DEF OnShelf
  <2> HIDE DEF f, h, minus, p, g, whole, plus, left, right
  <2>8. /\ SumFunctionOnSet(left, Lots) = SumFunctionOnSet(h, Lots) + SumFunctionOnSet(minus, Lots)
        /\ SumFunctionOnSet(right, Lots) = SumFunctionOnSet(g, Lots) + SumFunctionOnSet(whole, Lots)
        /\ SumFunctionOnSet(plus, Lots) = SumFunctionOnSet(p, Lots) + SumFunctionOnSet(whole, Lots)
    BY <2>1, <2>2, <2>4, SumPlus
  <2>9. SumFunctionOnSet(left, Lots) = SumFunctionOnSet(f, Lots) + SumFunctionOnSet(right, Lots)
    <3>1. \A k \in Lots : right[k] \in Int /\ f[k] \in Int
      BY <2>1, <2>2
    <3> QED BY <3>1, <2>3, <2>4, SumPlus
  <2>10. OnShelf(d, m) \in Int /\ OnShelf(e, m) \in Int /\ d.stock[m] \in Int
         /\ e.stock[m] = d.stock[m] + (IF m = to THEN n ELSE 0) - (IF m = from THEN n ELSE 0)
    BY <1>1, ShelfIsNat, DbParts DEF Moved
  <2>11. SumFunctionOnSet(whole, Lots) \in Int /\ SumFunctionOnSet(p, Lots) \in Int
    BY <2>1, <2>4, SumIsInt
  <2>12. OnShelf(e, m) + (IF m = from THEN n ELSE 0) = OnShelf(d, m) + (IF m = to THEN n ELSE 0)
    BY <2>2, <2>5, <2>6, <2>7, <2>8, <2>9, <2>11
  <2>13. Gap(e)[m] = e.stock[m] - OnShelf(e, m) /\ Gap(d)[m] = d.stock[m] - OnShelf(d, m)
    BY DEF Gap
  <2> QED BY <2>10, <2>12, <2>13
<1> QED BY <1>20, <1>21

-----------------------------------------------------------------------------
(* Sales orders: releaseInvoiceStock and applyInvoiceStock (invoices.ts)   *)

(* The units all orders took from each layer, ...                          *)
Claims(h) == [i \in Lots |-> SumFunction([s \in Sales |-> Returned(h[s])[i]])]

(* ... the orders' moves, and what a database must be to them: sound, each *)
(* of them on its own shelves, and all of them restorable together.        *)
Orders == [Sales -> Seq(Moves)]

Fit(d, h) ==
    /\ Sound(d)
    /\ h \in Orders
    /\ \A s \in Sales : OnOwnShelf(d, h[s])
    /\ Restorable(d, Claims(h))

(* An order without moves took nothing.                                    *)
LEMMA NothingMoved == <<>> \in Seq(Moves) /\ (\A i \in Lots : Returned(<<>>)[i] = 0) /\ (\A d : OnOwnShelf(d, <<>>))
                      /\ (\A l : GivenBack(<<>>, l) = 0)
<1>1. <<>> \in Seq(Moves) /\ DOMAIN <<>> = {}
  OBVIOUS
<1>2. \A k : SumFunctionOnSet(k, {}) = 0
  BY SumEquation, FS_EmptySet
<1> QED BY <1>1, <1>2, ReturnedParts DEF OnOwnShelf

(* What one order took is part of what all of them did.                    *)
LEMMA ClaimsParts ==
    ASSUME NEW h \in Orders
    PROVE  /\ Claims(h) \in Slices
           /\ \A s \in Sales, i \in Lots : Returned(h[s])[i] <= Claims(h)[i]
<1> DEFINE F(g, i) == [s \in Sales |-> Returned(g[s])[i]]
<1>1. IsFiniteSet(Sales)
  BY LotsFinite
<1>2. \A g, i : i \in Lots => Claims(g)[i] = SumFunctionOnSet(F(g, i), Sales)
  BY DEF Claims, SumFunction
<1>3. \A g \in Orders : \A i \in Lots, s \in Sales : F(g, i)[s] \in Nat /\ F(g, i)[s] = Returned(g[s])[i]
  <2> TAKE g \in Orders
  <2> TAKE i \in Lots, s \in Sales
  <2>1. Returned(g[s]) \in Slices
    BY ReturnedParts DEF Orders
  <2> QED BY <2>1 DEF Slices
<1>4. ASSUME NEW g \in Orders, NEW i \in Lots
      PROVE Claims(g)[i] \in Nat /\ \A s \in Sales : Returned(g[s])[i] <= Claims(g)[i]
  <2> DEFINE f == F(g, i)
  <2>1. Claims(g)[i] = SumFunctionOnSet(f, Sales) /\ \A s \in Sales : f[s] \in Nat /\ f[s] = Returned(g[s])[i]
    BY <1>2, <1>3
  <2> HIDE DEF f, F
  <2>2. SumFunctionOnSet(f, Sales) \in Nat /\ \A s \in Sales : f[s] <= SumFunctionOnSet(f, Sales)
    BY <1>1, <2>1, SumIsNat
  <2> QED BY <2>1, <2>2
<1>6. Claims(h) \in Slices
  BY <1>4 DEF Claims, Slices
<1> HIDE DEF F
<1> QED BY <1>4, <1>6

(* What all orders took when one of them is written again.                 *)
LEMMA ClaimsChange ==
    ASSUME NEW h \in Orders, NEW g \in Orders, NEW s \in Sales, \A t \in Sales \ {s} : g[t] = h[t], NEW i \in Lots
    PROVE  Claims(g)[i] = Claims(h)[i] - Returned(h[s])[i] + Returned(g[s])[i]
<1> DEFINE F(k) == [t \in Sales |-> Returned(k[t])[i]]
           f == F(h)
           e == F(g)
<1>1. IsFiniteSet(Sales)
  BY LotsFinite
<1>2. \A k \in Orders, t \in Sales : F(k)[t] \in Int
  <2> TAKE k \in Orders, t \in Sales
  <2>1. Returned(k[t]) \in Slices
    BY ReturnedParts DEF Orders
  <2> QED BY <2>1 DEF Slices
<1>3. \A t \in Sales : f[t] \in Int /\ e[t] \in Int
  BY <1>2
<1>4. (\A t \in Sales \ {s} : e[t] = f[t]) /\ e[s] = Returned(g[s])[i] /\ f[s] = Returned(h[s])[i]
  OBVIOUS
<1>5. Claims(h)[i] = SumFunctionOnSet(f, Sales) /\ Claims(g)[i] = SumFunctionOnSet(e, Sales)
  BY DEF Claims, SumFunction
<1> HIDE DEF e, f, F
<1>6. SumFunctionOnSet(e, Sales) = SumFunctionOnSet(f, Sales) - f[s] + e[s]
  BY <1>1, <1>3, <1>4, SumChange
<1> QED BY <1>4, <1>5, <1>6

(* A safe step that leaves the orders alone leaves the database fit for    *)
(* them.                                                                   *)
LEMMA SafeIsFit ==
    ASSUME NEW d, NEW e, NEW h, Fit(d, h), Safe(d, e, Claims(h))
    PROVE  Fit(e, h)
<1>1. h \in Orders /\ Claims(h) \in [Lots -> Nat]
  BY ClaimsParts DEF Fit, Slices
<1>2. ASSUME NEW s \in Sales PROVE OnOwnShelf(e, h[s])
  <2>1. h[s] \in Seq(Moves) /\ OnOwnShelf(d, h[s])
    BY <1>1 DEF Fit, Orders
  <2> SUFFICES ASSUME NEW k \in DOMAIN h[s], NEW i \in Lots, h[s][k].slices[i] > 0
               PROVE  Exists(e, i) /\ e.lots[i].location = h[s][k].location
    BY <2>1 DEF OnOwnShelf
  <2>2. h[s][k].slices[i] <= Returned(h[s])[i] /\ Returned(h[s])[i] <= Claims(h)[i]
    BY <1>1, <2>1, ReturnedParts, ClaimsParts
  <2>3. h[s][k].slices[i] \in Nat /\ Returned(h[s])[i] \in Nat /\ Claims(h)[i] \in Nat
    BY <1>1, <2>1, MovesParts, ReturnedParts DEF Slices
  <2>4. Claims(h)[i] > 0
    BY <2>2, <2>3
  <2> QED BY <2>1, <2>4 DEF Safe, Restorable, OnOwnShelf
<1> QED BY <1>1, <1>2 DEF Fit, Safe

(* An order that gives back all it took leaves the database fit for it,    *)
(* with nothing, and for the others.                                       *)
LEMMA ReleaseFits ==
    ASSUME NEW d, NEW h, Fit(d, h), NEW s \in Sales, NEW e, e = Released(d, h[s]),
           NEW g, g = [h EXCEPT ![s] = <<>>]
    PROVE  /\ Fit(e, g)
           /\ \A m \in Locations : Gap(e)[m] = Gap(d)[m]
           /\ e.next = d.next
<1>1. h \in Orders /\ g \in Orders /\ h[s] \in Seq(Moves) /\ OnOwnShelf(d, h[s]) /\ Sound(d) /\ Restorable(d, Claims(h))
  BY NothingMoved DEF Fit, Orders
<1>2. \A i \in Lots : Claims(g)[i] \in Nat /\ Claims(h)[i] \in Nat /\ Returned(h[s])[i] \in Nat
  BY <1>1, ClaimsParts, ReturnedParts DEF Slices
<1>3. \A i \in Lots : Claims(h)[i] = Claims(g)[i] + Returned(h[s])[i]
  <2> TAKE i \in Lots
  <2>1. Claims(g)[i] = Claims(h)[i] - Returned(h[s])[i] + Returned(<<>>)[i] /\ Returned(<<>>)[i] = 0
    <3>1. g[s] = <<>> /\ \A t \in Sales \ {s} : g[t] = h[t]
      BY <1>1 DEF Orders
    <3>2. Claims(g)[i] = Claims(h)[i] - Returned(h[s])[i] + Returned(g[s])[i]
      BY <1>1, <3>1, ClaimsChange
    <3> QED BY <3>1, <3>2, NothingMoved
  <2> QED BY <1>2, <2>1
<1>5. Claims(g) \in Slices
  BY <1>1, ClaimsParts
<1>6. /\ Sound(e)
      /\ \A i \in Lots : Exists(e, i) <=> Exists(d, i)
      /\ Restorable(e, Claims(g))
      /\ \A i \in Lots : e.lots[i].location = d.lots[i].location
      /\ \A m \in Locations : Gap(e)[m] = Gap(d)[m]
      /\ e.next = d.next
  <2> DEFINE moves == h[s]
             owed == Claims(h)
             rest == Claims(g)
  <2>1. /\ Sound(d) /\ moves \in Seq(Moves) /\ OnOwnShelf(d, moves) /\ Restorable(d, owed) /\ rest \in Slices
        /\ \A i \in Lots : owed[i] = rest[i] + Returned(moves)[i]
        /\ e = Released(d, moves)
    BY <1>1, <1>3, <1>5
  <2> HIDE DEF moves, owed, rest
  <2>2. /\ Sound(e)
        /\ \A i \in Lots : Exists(e, i) <=> Exists(d, i)
        /\ Restorable(e, rest)
        /\ \A i \in Lots : e.lots[i].location = d.lots[i].location
        /\ \A m \in Locations : Gap(e)[m] = Gap(d)[m]
        /\ e.next = d.next
    BY <2>1, ReleaseKeeps
  <2> QED BY <2>2 DEF rest
<1>7. \A t \in Sales : OnOwnShelf(e, g[t])
  <2> TAKE t \in Sales
  <2>1. g[t] = IF t = s THEN <<>> ELSE h[t]
    BY <1>1 DEF Orders
  <2>2. OnOwnShelf(d, g[t])
    BY <2>1, NothingMoved DEF Fit
  <2> QED BY <1>6, <2>2 DEF OnOwnShelf
<1> QED BY <1>1, <1>6, <1>7 DEF Fit

(* One more move returns as much more to each layer, ...                   *)
LEMMA AppendMove ==
    ASSUME NEW moves \in Seq(Moves), NEW m \in Moves
    PROVE  /\ Append(moves, m) \in Seq(Moves)
           /\ \A i \in Lots : Returned(Append(moves, m))[i] = Returned(moves)[i] + m.slices[i]
           /\ \A k \in DOMAIN Append(moves, m) : (k \in DOMAIN moves /\ Append(moves, m)[k] = moves[k]) \/ Append(moves, m)[k] = m
<1> DEFINE more == Append(moves, m)
           n == Len(moves) + 1
           D == DOMAIN moves
           E == DOMAIN more
<1>1. /\ more \in Seq(Moves) /\ D = 1..Len(moves) /\ Len(moves) \in Nat /\ E = 1..n
      /\ more[n] = m /\ \A k \in D : more[k] = moves[k]
  OBVIOUS
<1>2. n \in E /\ E \ {n} = D
  BY <1>1
<1>3. IsFiniteSet(D) /\ IsFiniteSet(E)
  BY <1>1, MovesParts
<1> HIDE DEF D, E, n, more
<1>4. ASSUME NEW f, NEW g, \A k \in D : f[k] = g[k], \A k \in E : g[k] \in Nat
      PROVE  SumFunctionOnSet(g, E) = SumFunctionOnSet(f, D) + g[n]
  <2>1. \A k \in E : g[k] \in Int
    BY <1>4
  <2>2. SumFunctionOnSet(g, E) = g[n] + SumFunctionOnSet(g, D)
    <3>1. SumFunctionOnSet(g, E) = g[n] + SumFunctionOnSet(g, E \ {n})
      BY <1>2, <1>3, <2>1, SumRemove
    <3> QED BY <1>2, <3>1
  <2>3. SumFunctionOnSet(f, D) = SumFunctionOnSet(g, D)
    BY <1>3, <1>4, SumSame
  <2>4. SumFunctionOnSet(g, D) \in Int /\ g[n] \in Int
    <3>1. \A k \in D : g[k] \in Int
      BY <1>2, <2>1
    <3> QED BY <1>2, <1>3, <2>1, <3>1, SumIsInt
  <2> QED BY <1>2, <2>2, <2>3, <2>4
<1>5. ASSUME NEW i \in Lots PROVE Returned(more)[i] = Returned(moves)[i] + m.slices[i]
  <2> DEFINE f == [k \in DOMAIN moves |-> moves[k].slices[i]]
             g == [k \in DOMAIN more |-> more[k].slices[i]]
  <2>1. Returned(more)[i] = SumFunctionOnSet(g, E) /\ Returned(moves)[i] = SumFunctionOnSet(f, D)
    BY <1>1, ReturnedParts DEF D, E
  <2>2. \A k \in D : f[k] = g[k]
    BY <1>1, <1>2 DEF D, E
  <2>3. \A k \in E : g[k] \in Nat
    BY <1>1, MovesParts DEF E
  <2>4. g[n] = m.slices[i]
    BY <1>1, <1>2 DEF E
  <2> HIDE DEF f, g
  <2> QED BY <1>4, <2>1, <2>2, <2>3, <2>4
<1>7. \A k \in DOMAIN more : (k \in DOMAIN moves /\ more[k] = moves[k]) \/ more[k] = m
  BY <1>1, <1>2 DEF D, E
<1> QED BY <1>1, <1>5, <1>7 DEF more

(* ... and gives as much more back to its shelf and to no other.           *)
LEMMA AppendGivesBack ==
    ASSUME NEW moves \in Seq(Moves), NEW m \in Moves, NEW l
    PROVE  /\ m.location = l => GivenBack(Append(moves, m), l) = GivenBack(moves, l) + m.quantity
           /\ m.location # l => GivenBack(Append(moves, m), l) = GivenBack(moves, l)
<1> DEFINE more == Append(moves, m)
           n == Len(moves) + 1
           D == DOMAIN moves
           E == DOMAIN more
<1>1. /\ more \in Seq(Moves) /\ D = 1..Len(moves) /\ Len(moves) \in Nat /\ E = 1..n
      /\ more[n] = m /\ \A k \in D : more[k] = moves[k]
  OBVIOUS
<1>2. n \in E /\ E \ {n} = D
  BY <1>1
<1>3. IsFiniteSet(D) /\ IsFiniteSet(E)
  BY <1>1, MovesParts
<1> HIDE DEF D, E, n, more
<1>4. ASSUME NEW f, NEW g, \A k \in D : f[k] = g[k], \A k \in E : g[k] \in Nat
      PROVE  SumFunctionOnSet(g, E) = SumFunctionOnSet(f, D) + g[n]
  <2>1. \A k \in E : g[k] \in Int
    BY <1>4
  <2>2. SumFunctionOnSet(g, E) = g[n] + SumFunctionOnSet(g, D)
    <3>1. SumFunctionOnSet(g, E) = g[n] + SumFunctionOnSet(g, E \ {n})
      BY <1>2, <1>3, <2>1, SumRemove
    <3> QED BY <1>2, <3>1
  <2>3. SumFunctionOnSet(f, D) = SumFunctionOnSet(g, D)
    BY <1>3, <1>4, SumSame
  <2>4. SumFunctionOnSet(g, D) \in Int /\ g[n] \in Int
    <3>1. \A k \in D : g[k] \in Int
      BY <1>2, <2>1
    <3> QED BY <1>2, <1>3, <2>1, <3>1, SumIsInt
  <2> QED BY <1>2, <2>2, <2>3, <2>4
<1>6. GivenBack(more, l) = GivenBack(moves, l) + IF m.location = l THEN m.quantity ELSE 0
  <2> DEFINE f == [k \in DOMAIN moves |-> IF moves[k].location = l THEN moves[k].quantity ELSE 0]
             g == [k \in DOMAIN more |-> IF more[k].location = l THEN more[k].quantity ELSE 0]
  <2>1. GivenBack(more, l) = SumFunctionOnSet(g, E) /\ GivenBack(moves, l) = SumFunctionOnSet(f, D)
    BY DEF GivenBack, SumFunction, D, E
  <2>2. \A k \in D : f[k] = g[k]
    BY <1>1, <1>2 DEF D, E
  <2>3. \A k \in E : g[k] \in Nat
    BY <1>1, MovesParts DEF E
  <2>4. g[n] = IF m.location = l THEN m.quantity ELSE 0
    BY <1>1, <1>2 DEF E
  <2> HIDE DEF f, g
  <2>5. SumFunctionOnSet(g, E) = SumFunctionOnSet(f, D) + g[n]
    BY <1>4, <2>2, <2>3
  <2> QED BY <2>1, <2>4, <2>5
<1>7. GivenBack(moves, l) \in Nat
  BY ReturnedParts
<1> QED BY <1>6, <1>7 DEF more

(* The order s takes n units at the shelf l from the layers "slices"       *)
(* names: a line of applyInvoiceStock, once the shop has bought what is    *)
(* short.                                                                  *)
TakesFor(d, h, s, l, n, slices, m, e, g) ==
    /\ Fit(d, h) /\ s \in Sales /\ l \in Locations /\ n \in Nat /\ slices \in Slices
    /\ SumFunction(slices) = n
    /\ \A i \in Lots : slices[i] > 0 => i \in OpenAt(d, l) /\ slices[i] <= d.lots[i].remaining
    /\ m = [location |-> l, quantity |-> n, slices |-> slices]
    /\ e = Consumed(Bump(d, l, -n), slices)
    /\ g = [h EXCEPT ![s] = Append(h[s], m)]

(* Taking for an order leaves the database fit for it and for the others.  *)
LEMMA TakenFits ==
    ASSUME NEW d, NEW h, NEW s, NEW l, NEW n, NEW slices, NEW m, NEW e, NEW g,
           TakesFor(d, h, s, l, n, slices, m, e, g)
    PROVE  /\ Fit(e, g)
           /\ \A q \in Locations : Gap(e)[q] = Gap(d)[q]
           /\ e.next = d.next
<1>0. /\ Fit(d, h) /\ s \in Sales /\ l \in Locations /\ n \in Nat /\ slices \in Slices
      /\ SumFunction(slices) = n
      /\ \A i \in Lots : slices[i] > 0 => i \in OpenAt(d, l) /\ slices[i] <= d.lots[i].remaining
      /\ m = [location |-> l, quantity |-> n, slices |-> slices]
      /\ e = Consumed(Bump(d, l, -n), slices)
      /\ g = [h EXCEPT ![s] = Append(h[s], m)]
  BY DEF TakesFor
<1> USE <1>0
<1> DEFINE owed == Claims(h)
           moves == h[s]
           more == Append(moves, m)
<1>1. /\ h \in Orders /\ moves \in Seq(Moves) /\ Sound(d) /\ Restorable(d, owed) /\ owed \in Slices /\ m \in Moves
      /\ d \in Databases
  BY ClaimsParts DEF Fit, Orders, Moves, Sound, Layers
<1>2. /\ more \in Seq(Moves)
      /\ \A i \in Lots : Returned(more)[i] = Returned(moves)[i] + slices[i]
      /\ \A k \in DOMAIN more : (k \in DOMAIN moves /\ more[k] = moves[k]) \/ more[k] = m
  <2>1. m.slices = slices
    OBVIOUS
  <2> HIDE DEF moves
  <2> QED BY <1>1, <2>1, AppendMove
<1>3. g \in Orders /\ g = [h EXCEPT ![s] = more]
  BY <1>1, <1>2 DEF Orders
<1>4. /\ Sound(e)
      /\ \A i \in Lots : Exists(e, i) <=> Exists(d, i)
      /\ Restorable(e, [i \in Lots |-> owed[i] + slices[i]])
      /\ \A i \in Lots : e.lots[i].location = d.lots[i].location
      /\ \A q \in Locations : Gap(e)[q] = Gap(d)[q]
      /\ e.next = d.next
  <2> HIDE DEF owed
  <2> QED BY <1>1, ConsumptionKeeps
<1>5. ASSUME NEW i \in Lots PROVE Claims(g)[i] = owed[i] + slices[i]
  <2>1. Claims(g)[i] = Claims(h)[i] - Returned(h[s])[i] + Returned(more)[i]
    <3>1. g \in Orders /\ g[s] = more /\ \A t \in Sales \ {s} : g[t] = h[t]
      BY <1>1, <1>3 DEF Orders
    <3> HIDE DEF more
    <3>2. Claims(g)[i] = Claims(h)[i] - Returned(h[s])[i] + Returned(g[s])[i]
      <4>1. h \in Orders /\ g \in Orders /\ s \in Sales /\ \A t \in Sales \ {s} : g[t] = h[t]
        BY <1>1, <1>3, <3>1
      <4> HIDE <1>0
      <4> QED BY <4>1, ClaimsChange
    <3> QED BY <3>1, <3>2
  <2>2. Claims(h)[i] \in Nat /\ Returned(h[s])[i] \in Nat /\ slices[i] \in Nat
    BY <1>1, ReturnedParts DEF Slices
  <2>3. Returned(more)[i] = Returned(h[s])[i] + slices[i]
    BY <1>2
  <2> HIDE DEF more
  <2> QED BY <2>1, <2>2, <2>3
<1>6. Restorable(e, Claims(g))
  <2> HIDE DEF owed
  <2> QED BY <1>4, <1>5 DEF Restorable
<1>7. ASSUME NEW t \in Sales PROVE OnOwnShelf(e, g[t])
  <2>1. OnOwnShelf(d, h[t])
    BY DEF Fit
  <2>2. OnOwnShelf(e, h[t])
    BY <1>4, <2>1 DEF OnOwnShelf
  <2>3. CASE t # s
    BY <2>2, <2>3, <1>1, <1>3 DEF Orders
  <2>4. CASE t = s
    <3>1. g[t] = more
      BY <2>4, <1>1, <1>3 DEF Orders
    <3>2. /\ SumFunction(m.slices) = m.quantity
          /\ \A i \in Lots : m.slices[i] > 0 => Exists(e, i) /\ e.lots[i].location = m.location
      <4>1. \A i \in Lots : slices[i] > 0 => d.lots[i].remaining > 0 /\ d.lots[i].location = l
        BY DEF OpenAt
      <4>2. \A i \in Lots : d.lots[i].remaining > 0 => Exists(d, i)
        BY DEF Exists, NoLot
      <4> QED BY <1>4, <4>1, <4>2
    <3>3. OnOwnShelf(e, moves)
      BY <2>2, <2>4
    <3> HIDE DEF more, moves
    <3>4. OnOwnShelf(e, more)
      BY <1>2, <3>2, <3>3 DEF OnOwnShelf
    <3> QED BY <3>1, <3>4
  <2> QED BY <2>3, <2>4
<1> QED BY <1>3, <1>4, <1>6, <1>7 DEF Fit

(* The state of the walk over a cart's lines.                              *)
Shaped(acc) == acc = [ok |-> acc.ok, db |-> acc.db, moves |-> acc.moves] /\ acc.ok \in BOOLEAN

(* A line first buys what its shop is short of, if it may, ...               *)
Buys(acc, line, d, short) ==
    /\ short \in Nat /\ short = Short(acc.db, line)
    /\ short = 0 => d = acc.db
    /\ short # 0 => /\ line.location \in Shops
                    /\ Arriving(acc.db, d, line.location, short, line.location, NoScan)
    /\ \A m \in Locations : Gap(d)[m] = Gap(acc.db)[m]

(* ... then takes what it asks for from the layers of its shelf, or, where   *)
(* any layer will do, what the shelf counts.                                 *)
Wanted(d, line) == IF line.source = NoPo THEN Min({line.ask, Have(d, line)}) ELSE line.ask

Takes(h, s, acc, line, d, n, e) ==
    /\ n = Wanted(d, line)
    /\ n # 0 => Remaining(d, Giving(d, line)) >= n
    /\ n = 0 => e.db = d /\ e.moves = acc.moves
    /\ n # 0 => \E m : /\ TakesFor(d, [h EXCEPT ![s] = acc.moves], s, line.location, n,
                                   Fifo(d, Giving(d, line), n), m, e.db, [h EXCEPT ![s] = e.moves])
                       /\ e.moves = Append(acc.moves, m)

(* A line of the cart that does not fail buys, then takes.                 *)
LEMMA FilledSteps ==
    ASSUME NEW h \in Orders, NEW s \in Sales, NEW acc, Shaped(acc), NEW line \in Lines,
           acc.ok => Fit(acc.db, [h EXCEPT ![s] = acc.moves]),
           NEW e, e = Filled(acc, line)
    PROVE  /\ Shaped(e)
           /\ e.ok => /\ acc.ok
                      /\ \E d \in Databases, short \in Nat, n \in Nat :
                             /\ Fit(d, [h EXCEPT ![s] = acc.moves])
                             /\ Buys(acc, line, d, short)
                             /\ Takes(h, s, acc, line, d, n, e)
<1> DEFINE short  == Short(acc.db, line)
           room   == short = 0 \/ CanArrive(acc.db, short)
           d      == IF short > 0 /\ room
                     THEN Received(acc.db, line.location, line.location, short)
                     ELSE acc.db
           n      == IF line.source = NoPo THEN Min({line.ask, Have(d, line)}) ELSE line.ask
           S      == Giving(d, line)
           slices == Fifo(d, S, n)
           g      == [h EXCEPT ![s] = acc.moves]
           m      == [location |-> line.location, quantity |-> n, slices |-> slices]
<1>1. e = IF n = 0 THEN [acc EXCEPT !.db = d, !.ok = @ /\ room]
          ELSE [ok    |-> acc.ok /\ room /\ Remaining(d, S) >= n,
                db    |-> Consumed(Bump(d, line.location, -n), slices),
                moves |-> Append(acc.moves, m)]
  BY DEF Filled
<1>2. /\ n = 0 => e.ok = (acc.ok /\ room) /\ e.db = d /\ e.moves = acc.moves
      /\ n # 0 => /\ e.ok = (acc.ok /\ room /\ Remaining(d, S) >= n)
                  /\ e.db = Consumed(Bump(d, line.location, -n), slices)
                  /\ e.moves = Append(acc.moves, m)
      /\ Shaped(e)
  <2>0. room \in BOOLEAN /\ (Remaining(d, S) >= n) \in BOOLEAN
    OBVIOUS
  <2> HIDE DEF d, n, S, slices, room, m
  <2>1. CASE n = 0
    <3> DEFINE o == acc.ok /\ room
               a == [acc EXCEPT !.db = d]
               b == [a EXCEPT !.ok = o]
    <3>1. a = [ok |-> acc.ok, db |-> d, moves |-> acc.moves]
      BY DEF Shaped
    <3>2. e = b
      BY <1>1, <2>1 DEF Shaped
    <3>3. o \in BOOLEAN /\ o = (acc.ok /\ room)
      BY <2>0 DEF Shaped
    <3> HIDE DEF a, o
    <3>4. b = [ok |-> o, db |-> d, moves |-> acc.moves]
      BY <3>1
    <3> HIDE DEF b
    <3> QED BY <2>1, <3>2, <3>3, <3>4 DEF Shaped
  <2>2. CASE n # 0
    BY <1>1, <2>0, <2>2 DEF Shaped
  <2> QED BY <2>1, <2>2
<1>3. ASSUME e.ok
      PROVE  /\ acc.ok
             /\ d \in Databases /\ short \in Nat /\ n \in Nat
             /\ Fit(d, g)
             /\ Buys(acc, line, d, short)
             /\ Takes(h, s, acc, line, d, n, e)
  <2>1. acc.ok /\ room /\ Fit(acc.db, g) /\ (n # 0 => Remaining(d, S) >= n)
    BY <1>2, <1>3
  <2>2. /\ line.location \in Locations /\ line.ask \in Nat /\ line.ask > 0 /\ line.source \in Docs \cup {NoPo}
        /\ acc.db \in Databases /\ g \in Orders /\ g[s] = acc.moves /\ Claims(g) \in Slices
        /\ Sound(acc.db) /\ Restorable(acc.db, Claims(g))
    <3>1. acc.db \in Databases /\ g \in Orders /\ Sound(acc.db) /\ Restorable(acc.db, Claims(g))
      BY <2>1 DEF Fit, Sound, Layers
    <3>2. Claims(g) \in Slices
      BY <3>1, ClaimsParts
    <3>3. line.location \in Locations /\ line.ask \in Nat /\ line.ask > 0 /\ line.source \in Docs \cup {NoPo}
      BY LotsFinite DEF Lines
    <3>4. g[s] = acc.moves
      BY DEF Orders
    <3> QED BY <3>1, <3>2, <3>3, <3>4
  <2>3. \A x \in Databases : Have(x, line) \in Nat /\ Have(x, line) >= x.stock[line.location]
    <3> TAKE x \in Databases
    <3>1. x.stock[line.location] \in Int
      BY <2>2, DbParts
    <3> QED BY <3>1, MaxOfTwo DEF Have
  <2>4. /\ short \in Nat /\ short = Short(acc.db, line)
        /\ short > 0 => line.source = NoPo /\ line.location \in Shops
    BY <2>2, <2>3 DEF Short
  <2>5. Fit(d, g) /\ Buys(acc, line, d, short)
    <3>1. CASE short > 0
      <4>1. d = Received(acc.db, line.location, line.location, short) /\ HasRoom(acc.db, 1) /\ line.location \in Docs
        BY <2>1, <2>4, <3>1, DocsApart DEF CanArrive
      <4> HIDE DEF short, d, g
      <4>2. Arrives(acc.db, d, line.location, short, line.location, NoScan)
        BY <2>2, <2>4, <4>1, Arrivals
      <4>3. NoScan \in Scans
        BY DocsApart DEF NoScan, Scans
      <4> DEFINE x == acc.db
                 l == line.location
                 owed == Claims(g)
      <4>4. /\ Sound(x) /\ l \in Locations /\ short \in Nat /\ short > 0 /\ HasRoom(x, 1)
            /\ l \in Docs \cup {NoPo} /\ Arrives(x, d, l, short, l, NoScan)
            /\ owed \in Slices /\ Restorable(x, owed)
        BY <2>2, <2>4, <3>1, <4>1, <4>2
      <4> HIDE DEF x, l, owed
      <4>5. Arriving(x, d, l, short, l, NoScan)
        BY <4>3, <4>4 DEF Arriving
      <4>6. Safe(x, d, owed) /\ \A q \in Locations : Gap(d)[q] = Gap(x)[q]
        BY <4>4, <4>5, ArrivalKeeps
      <4>7. Fit(d, g)
        BY <2>1, <4>6, SafeIsFit DEF x, owed
      <4> QED BY <2>4, <3>1, <4>5, <4>6, <4>7 DEF Buys, x, l
    <3>2. CASE ~(short > 0)
      <4>1. short = 0 /\ d = acc.db
        BY <2>4, <3>2
      <4> HIDE DEF short, d, g
      <4> QED BY <2>1, <2>4, <4>1 DEF Buys
    <3> QED BY <3>1, <3>2
  <2>6. d \in Databases
    BY <2>5 DEF Fit, Sound, Layers
  <2>7. n \in Nat
    <3>1. Have(d, line) \in Nat
      BY <2>3, <2>6
    <3> HIDE DEF d
    <3> QED BY <2>2, <3>1, MinOfTwo
  <2>8. ASSUME n # 0
        PROVE  /\ TakesFor(d, g, s, line.location, n, slices, m, e.db, [h EXCEPT ![s] = e.moves])
               /\ e.moves = Append(acc.moves, m)
    <3>1. S \in SUBSET Lots /\ \A i \in S : i \in OpenAt(d, line.location)
      BY DEF Giving, OpenAt
    <3>2. Remaining(d, S) \in Nat /\ Remaining(d, S) >= n
      BY <2>1, <2>6, <2>8, <3>1, RemainingIsNat
    <3> HIDE DEF d, n, S, g
    <3>3. /\ slices \in Slices
          /\ \A i \in Lots : slices[i] <= d.lots[i].remaining
          /\ \A i \in Lots : slices[i] > 0 => i \in S
          /\ SumFunction(slices) = n
      BY <2>6, <2>7, <3>1, <3>2, FifoTakes
    <3>4. \A i \in Lots : slices[i] > 0 => i \in OpenAt(d, line.location) /\ slices[i] <= d.lots[i].remaining
      BY <3>1, <3>3
    <3>5. e.db = Consumed(Bump(d, line.location, -n), slices) /\ e.moves = Append(acc.moves, m)
      BY <1>2, <2>8
    <3> DEFINE f == [h EXCEPT ![s] = e.moves]
    <3>6. f = [g EXCEPT ![s] = Append(g[s], m)]
      BY <2>2, <3>5 DEF g, Orders
    <3> DEFINE l == line.location
               x == e.db
    <3>7. /\ l \in Locations /\ m = [location |-> l, quantity |-> n, slices |-> slices]
          /\ x = Consumed(Bump(d, l, -n), slices)
          /\ \A i \in Lots : slices[i] > 0 => i \in OpenAt(d, l) /\ slices[i] <= d.lots[i].remaining
      BY <2>2, <3>4, <3>5
    <3> HIDE DEF slices, f, m, l, x
    <3>8. TakesFor(d, g, s, l, n, slices, m, x, f)
      BY <2>5, <2>7, <3>3, <3>6, <3>7 DEF TakesFor
    <3> QED BY <3>5, <3>8 DEF l, x, f
  <2>9. Takes(h, s, acc, line, d, n, e)
    <3>1. n = 0 => e.db = d /\ e.moves = acc.moves
      BY <1>2
    <3>2. n # 0 => \E mm : /\ TakesFor(d, g, s, line.location, n, slices, mm, e.db, [h EXCEPT ![s] = e.moves])
                           /\ e.moves = Append(acc.moves, mm)
      BY <2>8
    <3>3. n = Wanted(d, line) /\ (n # 0 => Remaining(d, Giving(d, line)) >= n)
      BY <2>1 DEF Wanted
    <3> HIDE DEF d, n, m
    <3> QED BY <3>1, <3>2, <3>3 DEF Takes
  <2> HIDE DEF d, n, short, g
  <2> QED BY <2>1, <2>4, <2>5, <2>6, <2>7, <2>9
<1> HIDE DEF d, n, short
<1> QED BY <1>2, <1>3

(* One line of the walk, bought and taken.                                   *)
Stepped(h, s, acc, line, e) ==
    /\ acc.ok /\ line \in Lines
    /\ \E d \in Databases, short \in Nat, n \in Nat :
           /\ Fit(d, [h EXCEPT ![s] = acc.moves])
           /\ Buys(acc, line, d, short)
           /\ Takes(h, s, acc, line, d, n, e)

(* So a line leaves the database fit for the orders, and no shelf's gap    *)
(* changes.                                                                *)
LEMMA FilledFits ==
    ASSUME NEW h \in Orders, NEW s \in Sales, NEW acc, NEW e, NEW line, Stepped(h, s, acc, line, e)
    PROVE  /\ Fit(e.db, [h EXCEPT ![s] = e.moves])
           /\ \A m \in Locations : Gap(e.db)[m] = Gap(acc.db)[m]
<1>0. PICK d \in Databases, short \in Nat, n \in Nat :
          /\ Fit(d, [h EXCEPT ![s] = acc.moves])
          /\ Buys(acc, line, d, short)
          /\ Takes(h, s, acc, line, d, n, e)
  BY DEF Stepped
<1>1. CASE n = 0
  BY <1>0, <1>1 DEF Buys, Takes
<1>2. CASE n # 0
  <2> DEFINE g == [h EXCEPT ![s] = acc.moves]
             f == [h EXCEPT ![s] = e.moves]
             x == e.db
             l == line.location
             slices == Fifo(d, Giving(d, line), n)
  <2>1. PICK m : TakesFor(d, g, s, l, n, slices, m, x, f)
    BY <1>0, <1>2 DEF Takes
  <2> HIDE DEF g, f, x, l, slices
  <2>2. Fit(x, f) /\ \A q \in Locations : Gap(x)[q] = Gap(d)[q]
    BY <2>1, TakenFits
  <2> QED BY <1>0, <2>2 DEF Buys, x, f
<1> QED BY <1>1, <1>2

(* Units on the shelves and in the order's moves: what is more was bought.    *)
OnlyShopsBuy(d, moves, e, more) ==
    \A l \in Locations :
        LET bought == (e.stock[l] + GivenBack(more, l)) - (d.stock[l] + GivenBack(moves, l))
        IN  bought >= 0 /\ (l \notin Shops => bought = 0)

(* What two lines buy, one after another.                                  *)
LEMMA BuysInTurn ==
    ASSUME NEW d \in Databases, NEW x \in Databases, NEW e \in Databases,
           NEW a \in Seq(Moves), NEW b \in Seq(Moves), NEW c \in Seq(Moves),
           OnlyShopsBuy(d, a, x, b), OnlyShopsBuy(x, b, e, c)
    PROVE  OnlyShopsBuy(d, a, e, c)
<1> SUFFICES ASSUME NEW l \in Locations
             PROVE  /\ (e.stock[l] + GivenBack(c, l)) - (d.stock[l] + GivenBack(a, l)) >= 0
                    /\ l \notin Shops => (e.stock[l] + GivenBack(c, l)) - (d.stock[l] + GivenBack(a, l)) = 0
  BY DEF OnlyShopsBuy
<1>1. /\ d.stock[l] \in Int /\ x.stock[l] \in Int /\ e.stock[l] \in Int
      /\ GivenBack(a, l) \in Nat /\ GivenBack(b, l) \in Nat /\ GivenBack(c, l) \in Nat
  BY DbParts, ReturnedParts
<1>2. /\ (x.stock[l] + GivenBack(b, l)) - (d.stock[l] + GivenBack(a, l)) >= 0
      /\ l \notin Shops => (x.stock[l] + GivenBack(b, l)) - (d.stock[l] + GivenBack(a, l)) = 0
      /\ (e.stock[l] + GivenBack(c, l)) - (x.stock[l] + GivenBack(b, l)) >= 0
      /\ l \notin Shops => (e.stock[l] + GivenBack(c, l)) - (x.stock[l] + GivenBack(b, l)) = 0
  BY DEF OnlyShopsBuy
<1> DEFINE i == d.stock[l]
           j == x.stock[l]
           k == e.stock[l]
           u == GivenBack(a, l)
           v == GivenBack(b, l)
           w == GivenBack(c, l)
<1> HIDE DEF i, j, k, u, v, w
<1>3. (k + w) - (i + u) >= 0 /\ (l \notin Shops => (k + w) - (i + u) = 0)
  <2>1. i \in Int /\ j \in Int /\ k \in Int /\ u \in Nat /\ v \in Nat /\ w \in Nat
    BY <1>1 DEF i, j, k, u, v, w
  <2>2. /\ (j + v) - (i + u) >= 0
        /\ (k + w) - (j + v) >= 0
        /\ l \notin Shops => (j + v) - (i + u) = 0 /\ (k + w) - (j + v) = 0
    BY <1>2 DEF i, j, k, u, v, w
  <2> QED BY <2>1, <2>2
<1> QED BY <1>3 DEF i, k, u, w

(* The types of a database that is fit for the order that is being         *)
(* written.                                                                *)
LEMMA FitParts ==
    ASSUME NEW d, NEW h \in Orders, NEW s \in Sales, NEW moves, Fit(d, [h EXCEPT ![s] = moves])
    PROVE  d \in Databases /\ moves \in Seq(Moves) /\ [h EXCEPT ![s] = moves] \in Orders
<1>1. d \in Databases /\ [h EXCEPT ![s] = moves] \in Orders
  BY DEF Fit, Sound, Layers
<1>2. [h EXCEPT ![s] = moves][s] = moves
  BY DEF Orders
<1> QED BY <1>1, <1>2 DEF Orders

(* What is taken moves from the shelf into the order.                      *)
LEMMA TakenBalances ==
    ASSUME NEW d, NEW h, NEW s, NEW l, NEW n, NEW slices, NEW m, NEW e, NEW g,
           TakesFor(d, h, s, l, n, slices, m, e, g)
    PROVE  OnlyShopsBuy(d, h[s], e, Append(h[s], m))
<1>0. /\ Fit(d, h) /\ s \in Sales /\ l \in Locations /\ n \in Nat /\ slices \in Slices
      /\ m = [location |-> l, quantity |-> n, slices |-> slices]
      /\ e = Consumed(Bump(d, l, -n), slices)
  BY DEF TakesFor
<1> DEFINE moves == h[s]
<1>1. d \in Databases /\ moves \in Seq(Moves) /\ m \in Moves /\ m.location = l /\ m.quantity = n
  BY <1>0 DEF Fit, Sound, Layers, Orders, Moves
<1> HIDE DEF moves
<1>2. ASSUME NEW q \in Locations
      PROVE  (e.stock[q] + GivenBack(Append(moves, m), q)) - (d.stock[q] + GivenBack(moves, q)) = 0
  <2>1. d.stock \in [Locations -> Int] /\ d.stock[q] \in Int /\ GivenBack(moves, q) \in Nat
    BY <1>1, DbParts, ReturnedParts
  <2>2. e.stock = [d.stock EXCEPT ![l] = @ + (-n)]
    BY <1>0, <1>1 DEF Consumed, Bump, Databases
  <2>3. CASE q = l
    <3>1. e.stock[q] = d.stock[q] + (-n)
      BY <1>0, <2>1, <2>2, <2>3
    <3>2. GivenBack(Append(moves, m), q) = GivenBack(moves, q) + n
      BY <1>1, <2>3, AppendGivesBack
    <3> QED BY <1>0, <2>1, <3>1, <3>2
  <2>4. CASE q # l
    <3>1. e.stock[q] = d.stock[q]
      BY <1>0, <2>1, <2>2, <2>4
    <3>2. GivenBack(Append(moves, m), q) = GivenBack(moves, q)
      BY <1>1, <2>4, AppendGivesBack
    <3> QED BY <2>1, <3>1, <3>2
  <2> QED BY <2>3, <2>4
<1> QED BY <1>2 DEF OnlyShopsBuy, moves

(* Nothing done, nothing bought.                                           *)
LEMMA SameBalance ==
    ASSUME NEW d \in Databases, NEW moves \in Seq(Moves)
    PROVE  OnlyShopsBuy(d, moves, d, moves)
<1> SUFFICES ASSUME NEW l \in Locations
             PROVE  (d.stock[l] + GivenBack(moves, l)) - (d.stock[l] + GivenBack(moves, l)) = 0
  BY DEF OnlyShopsBuy
<1>1. d.stock[l] \in Int /\ GivenBack(moves, l) \in Nat
  BY DbParts, ReturnedParts
<1> QED BY <1>1

(* A line only moves units between its shelf and the order, but for what a *)
(* shop buys (buyShortfallAtShop).                                         *)
LEMMA FilledBuys ==
    ASSUME NEW h \in Orders, NEW s \in Sales, NEW acc, NEW e, NEW line, Stepped(h, s, acc, line, e),
           Fit(acc.db, [h EXCEPT ![s] = acc.moves])
    PROVE  OnlyShopsBuy(acc.db, acc.moves, e.db, e.moves)
<1>0. PICK d \in Databases, short \in Nat, n \in Nat :
          /\ Fit(d, [h EXCEPT ![s] = acc.moves])
          /\ Buys(acc, line, d, short)
          /\ Takes(h, s, acc, line, d, n, e)
  BY DEF Stepped
<1> DEFINE a == acc.moves
           x == acc.db
           l == line.location
<1>1. x \in Databases /\ a \in Seq(Moves)
  BY FitParts
<1>2. OnlyShopsBuy(x, a, d, a)
  <2>1. CASE short = 0
    <3>1. d = x
      BY <1>0, <2>1 DEF Buys
    <3> QED BY <1>1, <3>1, SameBalance
  <2>2. CASE short # 0
    <3>1. l \in Shops /\ d.stock = [x.stock EXCEPT ![l] = @ + short]
      BY <1>0, <2>2 DEF Buys, Arriving, Arrives
    <3> SUFFICES ASSUME NEW q \in Locations
                 PROVE  /\ (d.stock[q] + GivenBack(a, q)) - (x.stock[q] + GivenBack(a, q)) >= 0
                        /\ q \notin Shops => (d.stock[q] + GivenBack(a, q)) - (x.stock[q] + GivenBack(a, q)) = 0
      BY DEF OnlyShopsBuy
    <3> HIDE DEF l, x, a
    <3>2. x.stock \in [Locations -> Int] /\ x.stock[q] \in Int /\ GivenBack(a, q) \in Nat
      BY <1>1, DbParts, ReturnedParts
    <3>3. CASE q = l
      <4>1. d.stock[q] = x.stock[q] + short
        BY <3>1, <3>2, <3>3
      <4> QED BY <3>1, <3>2, <3>3, <4>1
    <3>4. CASE q # l
      <4>1. d.stock[q] = x.stock[q]
        BY <3>1, <3>2, <3>4
      <4> QED BY <3>2, <4>1
    <3> QED BY <3>3, <3>4
  <2> QED BY <2>1, <2>2
<1>3. CASE n = 0
  BY <1>0, <1>2, <1>3 DEF Takes
<1>4. CASE n # 0
  <2> DEFINE g == [h EXCEPT ![s] = acc.moves]
             f == [h EXCEPT ![s] = e.moves]
             y == e.db
             slices == Fifo(d, Giving(d, line), n)
  <2>1. PICK m : TakesFor(d, g, s, l, n, slices, m, y, f) /\ e.moves = Append(a, m)
    BY <1>0, <1>4 DEF Takes
  <2>2. g[s] = a
    BY DEF Orders
  <2> HIDE DEF g, f, y, l, slices, a
  <2>3. OnlyShopsBuy(d, g[s], y, Append(g[s], m)) /\ Fit(y, f)
    BY <2>1, TakenBalances, TakenFits
  <2>4. OnlyShopsBuy(d, a, y, e.moves)
    BY <2>1, <2>2, <2>3
  <2>5. y \in Databases /\ e.moves \in Seq(Moves)
    BY <2>3, FitParts DEF f
  <2> HIDE DEF x
  <2>6. OnlyShopsBuy(x, a, y, e.moves)
    BY <1>1, <1>2, <2>4, <2>5, BuysInTurn
  <2> QED BY <2>6 DEF x, a, y
<1> QED BY <1>3, <1>4

-----------------------------------------------------------------------------
(* A cart, line by line: the fold over a sequence as a walk over sets of   *)
(* lines                                                                   *)

(* The greatest number of a finite set is in it.                           *)
LEMMA MaxInside ==
    ASSUME NEW S \in SUBSET Nat, IsFiniteSet(S), S # {}
    PROVE  Max(S) \in S
<1> DEFINE B == {s \in SUBSET S : s # {} /\ ~ \E x \in s : \A y \in s : x >= y}
<1>1. ASSUME NEW s \in B, \A x \in s : s \ {x} \notin B PROVE FALSE
  <2>1. PICK x \in s : TRUE
    OBVIOUS
  <2>2. CASE s \ {x} = {}
    <3>1. x \in Nat /\ \A y \in s : y = x
      BY <2>2
    <3> QED BY <3>1
  <2>3. CASE s \ {x} # {}
    <3>1. PICK y \in s \ {x} : \A z \in s \ {x} : y >= z
      BY <1>1, <2>3
    <3>2. \A z \in s : z \in Nat
      OBVIOUS
    <3>3. x >= y => \A z \in s : x >= z
      BY <3>1, <3>2
    <3>4. ~(x >= y) => \A z \in s : y >= z
      BY <3>1, <3>2
    <3> QED BY <3>1, <3>3, <3>4
  <2> QED BY <2>2, <2>3
<1>2. B \in SUBSET SUBSET S
  OBVIOUS
<1>3. B = {}
  <2> HIDE DEF B
  <2> QED BY <1>1, <1>2, SmallestSet
<1>4. \E x \in S : \A y \in S : x >= y
  BY <1>3
<1> QED BY <1>4 DEF Max

(* What the library's FoldLeft chooses: a function of the sets of lines    *)
(* done, which does the last line of a set on the result for the others.   *)
Filler(it, base, cart, t) ==
    IF t = {} THEN base ELSE Filled(it[t \ {Max(t)}], cart[Max(t)])

IsFill(it, base, cart, D) == it = [t \in D |-> Filler(it, base, cart, t)]

(* There is such a function.                                               *)
LEMMA FillExists ==
    ASSUME NEW base, NEW cart, NEW S \in SUBSET Nat, IsFiniteSet(S)
    PROVE  \E it : IsFill(it, base, cart, SUBSET S)
<1> DEFINE Upto(n) == {s \in SUBSET S : Cardinality(s) <= n}
           B == {n \in Nat : ~ \E it : IsFill(it, base, cart, Upto(n))}
<1>1. \A s \in SUBSET S : IsFiniteSet(s) /\ Cardinality(s) \in Nat
  BY FS_Subset, FS_CardinalityType
<1>2. ASSUME NEW n \in Nat, NEW s \in Upto(n), s # {}
      PROVE  n # 0 /\ s \ {Max(s)} \in Upto(n - 1)
  <2>1. Max(s) \in s
    BY <1>1, <1>2, MaxInside
  <2>2. Cardinality(s \ {Max(s)}) = Cardinality(s) - 1
    BY <1>1, <2>1, FS_RemoveElement
  <2> DEFINE t == s \ {Max(s)}
  <2>3. t \in SUBSET S /\ Cardinality(t) \in Nat /\ Cardinality(s) \in Nat /\ Cardinality(s) <= n
        /\ Cardinality(t) = Cardinality(s) - 1
    BY <1>1, <2>2
  <2> HIDE DEF t
  <2>4. n # 0 /\ t \in Upto(n - 1)
    BY <2>3
  <2> QED BY <2>4 DEF t
<1>3. B = {}
  <2> SUFFICES ASSUME B # {} PROVE FALSE
    OBVIOUS
  <2>1. PICK n \in B : \A m \in B : n <= m
    BY LeastNumber
  <2>2. CASE n = 0
    <3> DEFINE it == [s \in Upto(n) |-> base]
    <3>1. \A s \in Upto(n) : s = {}
      BY <1>2, <2>2
    <3>2. it = [s \in Upto(n) |-> Filler(it, base, cart, s)]
      BY <3>1 DEF Filler
    <3> QED BY <3>2, <2>1 DEF IsFill
  <2>3. CASE n # 0
    <3>1. n - 1 \in Nat /\ n - 1 \notin B
      <4>1. n \in Nat /\ n - 1 \in Nat
        BY <2>3
      <4>2. ~(n <= n - 1)
        BY <4>1
      <4> QED BY <2>1, <4>1, <4>2
    <3>2. PICK old : IsFill(old, base, cart, Upto(n - 1))
      BY <3>1
    <3> DEFINE it == [s \in Upto(n) |-> Filler(old, base, cart, s)]
    <3>3. \A s \in Upto(n - 1) : s \in Upto(n) /\ it[s] = old[s]
      <4> TAKE s \in Upto(n - 1)
      <4>1. s \in Upto(n)
        BY <1>1, <3>1
      <4>2. old[s] = Filler(old, base, cart, s)
        BY <3>2 DEF IsFill
      <4> QED BY <4>1, <4>2
    <3>4. \A s \in Upto(n) : Filler(it, base, cart, s) = Filler(old, base, cart, s)
      <4> TAKE s \in Upto(n)
      <4>1. s # {} => it[s \ {Max(s)}] = old[s \ {Max(s)}]
        BY <1>2, <3>3
      <4> HIDE DEF it
      <4> QED BY <4>1 DEF Filler
    <3>5. it = [s \in Upto(n) |-> Filler(it, base, cart, s)]
      BY <3>4
    <3> QED BY <3>5, <2>1 DEF IsFill
  <2> QED BY <2>2, <2>3
<1>4. Cardinality(S) \in Nat
  BY FS_CardinalityType
<1>5. Upto(Cardinality(S)) = SUBSET S
  BY FS_Subset
<1> QED BY <1>3, <1>4, <1>5

(* The walk starts when what the order held was given back.                *)
FreshAcc(d, moves) == [ok |-> TRUE, db |-> Released(d, moves), moves |-> <<>>]

(* Saving a cart is a walk: from it[{}], one line at a time, to it[DOMAIN cart]. *)
Walks(it, d, moves, cart) ==
    /\ it[{}] = FreshAcc(d, moves)
    /\ \A t \in SUBSET DOMAIN cart : t # {} =>
           Max(t) \in t /\ it[t] = Filled(it[t \ {Max(t)}], cart[Max(t)])
    /\ Saved(d, moves, cart) = it[DOMAIN cart]

(* Every save of a cart is such a walk.                                    *)
LEMMA SavedWalks ==
    ASSUME NEW d, NEW moves, NEW cart \in Seq(Lines)
    PROVE  \E it : Walks(it, d, moves, cart)
<1> DEFINE base == FreshAcc(d, moves)
           D == DOMAIN cart
           it == CHOOSE i : IsFill(i, base, cart, SUBSET D)
<1>1. D \in SUBSET Nat /\ IsFiniteSet(D)
  <2>1. D = 1..Len(cart) /\ Len(cart) \in Nat
    OBVIOUS
  <2>2. IsFiniteSet(D)
    BY <2>1, FS_Interval
  <2> QED BY <2>1, <2>2
<1>2. IsFill(it, base, cart, SUBSET D)
  <2> HIDE DEF base, D
  <2> QED BY <1>1, FillExists
<1>3. Saved(d, moves, cart) = it[D]
  BY DEF Saved, FoldLeft, MapThenFoldSet, IsFill, Filler, FreshAcc
<1>4. \A t \in SUBSET D : it[t] = Filler(it, base, cart, t)
  <2> HIDE DEF it, base, D
  <2> QED BY <1>2 DEF IsFill
<1>5. it[{}] = base
  <2> HIDE DEF it, base, D
  <2> QED BY <1>4 DEF Filler
<1>6. \A t \in SUBSET D : t # {} => Max(t) \in t /\ it[t] = Filled(it[t \ {Max(t)}], cart[Max(t)])
  <2> HIDE DEF it, base, D
  <2> TAKE t \in SUBSET D
  <2> HAVE t # {}
  <2>1. Max(t) \in t
    <3>1. t \in SUBSET Nat /\ IsFiniteSet(t)
      BY <1>1, FS_Subset
    <3> QED BY <3>1, MaxInside
  <2> QED BY <1>4, <2>1 DEF Filler
<1> HIDE DEF it
<1> QED BY <1>3, <1>5, <1>6 DEF Walks

(* What holds of the walk at each line, while no line has failed.          *)
Going(h, s, d, acc) ==
    /\ Shaped(acc)
    /\ acc.ok => /\ Fit(acc.db, [h EXCEPT ![s] = acc.moves])
                 /\ \A m \in Locations : Gap(acc.db)[m] = Gap(d)[m]
                 /\ OnlyShopsBuy(d, h[s], acc.db, acc.moves)

(* Giving back moves units from the order to the shelves.                  *)
LEMMA ReleaseBuysNothing ==
    ASSUME NEW d \in Databases, NEW moves \in Seq(Moves)
    PROVE  OnlyShopsBuy(d, moves, Released(d, moves), <<>>)
<1> DEFINE e == Released(d, moves)
<1> SUFFICES ASSUME NEW l \in Locations
             PROVE  (e.stock[l] + GivenBack(<<>>, l)) - (d.stock[l] + GivenBack(moves, l)) = 0
  BY DEF OnlyShopsBuy
<1>1. d.stock[l] \in Int /\ GivenBack(moves, l) \in Nat /\ GivenBack(<<>>, l) = 0
  BY DbParts, ReturnedParts, NothingMoved
<1>2. e.stock[l] = d.stock[l] + GivenBack(moves, l)
  BY DEF Released, Restored, Databases
<1> HIDE DEF e
<1> QED BY <1>1, <1>2

(* It holds at the start and each line keeps it, so it holds of every set  *)
(* of lines the walk goes through.                                         *)
LEMMA WalkSteps ==
    ASSUME NEW d, NEW h, Fit(d, h), NEW s \in Sales, NEW cart \in Seq(Lines),
           NEW it, Walks(it, d, h[s], cart)
    PROVE  /\ \A t \in SUBSET DOMAIN cart : Going(h, s, d, it[t])
           /\ \A t \in SUBSET DOMAIN cart : t # {} /\ it[t].ok =>
                  Max(t) \in t /\ Stepped(h, s, it[t \ {Max(t)}], cart[Max(t)], it[t])
           /\ IsFiniteSet(DOMAIN cart)
<1> DEFINE D == DOMAIN cart
           B == {t \in SUBSET D : ~Going(h, s, d, it[t])}
<1>1. D \in SUBSET Nat /\ IsFiniteSet(D) /\ \A k \in D : cart[k] \in Lines
  <2>1. D = 1..Len(cart) /\ Len(cart) \in Nat
    OBVIOUS
  <2>2. IsFiniteSet(D)
    BY <2>1, FS_Interval
  <2>3. \A k \in D : cart[k] \in Lines
    BY <2>1, ElementOfSeq
  <2> QED BY <2>1, <2>2, <2>3
<1>2. h \in Orders
  BY DEF Fit
<1>3. ASSUME NEW t \in SUBSET D, t # {}, \A k \in t : Going(h, s, d, it[t \ {k}])
      PROVE  /\ Going(h, s, d, it[t])
             /\ it[t].ok => Max(t) \in t /\ Stepped(h, s, it[t \ {Max(t)}], cart[Max(t)], it[t])
  <2>1. PICK k \in t : k = Max(t) /\ it[t] = Filled(it[t \ {k}], cart[k])
    BY <1>3 DEF Walks
  <2> DEFINE acc == it[t \ {k}]
             e == it[t]
             line == cart[k]
  <2>2. Going(h, s, d, acc) /\ e = Filled(acc, line) /\ line \in Lines
    BY <1>1, <1>3, <2>1
  <2> HIDE DEF acc, e, line, D
  <2>3. /\ Shaped(e)
        /\ e.ok => /\ acc.ok
                   /\ \E x \in Databases, short \in Nat, n \in Nat :
                          /\ Fit(x, [h EXCEPT ![s] = acc.moves])
                          /\ Buys(acc, line, x, short)
                          /\ Takes(h, s, acc, line, x, n, e)
    <3>1. Shaped(acc) /\ (acc.ok => Fit(acc.db, [h EXCEPT ![s] = acc.moves]))
      BY <2>2 DEF Going
    <3> QED BY <1>2, <2>2, <3>1, FilledSteps
  <2>4. e.ok => Stepped(h, s, acc, line, e)
    BY <2>2, <2>3 DEF Stepped
  <2>5. ASSUME e.ok
        PROVE /\ Fit(e.db, [h EXCEPT ![s] = e.moves])
              /\ \A m \in Locations : Gap(e.db)[m] = Gap(d)[m]
              /\ OnlyShopsBuy(d, h[s], e.db, e.moves)
    <3>2. /\ Fit(e.db, [h EXCEPT ![s] = e.moves])
          /\ \A m \in Locations : Gap(e.db)[m] = Gap(acc.db)[m]
      BY <1>2, <2>4, <2>5, FilledFits
    <3>3. /\ Fit(acc.db, [h EXCEPT ![s] = acc.moves]) /\ OnlyShopsBuy(d, h[s], acc.db, acc.moves)
          /\ \A m \in Locations : Gap(acc.db)[m] = Gap(d)[m]
      BY <2>2, <2>3, <2>5 DEF Going
    <3>4. OnlyShopsBuy(acc.db, acc.moves, e.db, e.moves)
      BY <1>2, <2>4, <2>5, <3>3, FilledBuys
    <3>5. /\ acc.db \in Databases /\ acc.moves \in Seq(Moves) /\ e.db \in Databases /\ e.moves \in Seq(Moves)
          /\ d \in Databases /\ h[s] \in Seq(Moves)
      BY <1>2, <3>2, <3>3, FitParts DEF Fit, Sound, Layers, Orders
    <3>6. OnlyShopsBuy(d, h[s], e.db, e.moves)
      BY <3>3, <3>4, <3>5, BuysInTurn
    <3> QED BY <3>2, <3>3, <3>6
  <2>6. Going(h, s, d, e)
    BY <2>3, <2>5 DEF Going
  <2> QED BY <2>1, <2>4, <2>6 DEF acc, e, line
<1>4. Going(h, s, d, it[{}])
  <2> DEFINE x == Released(d, h[s])
             g == [h EXCEPT ![s] = <<>>]
  <2>1. it[{}] = [ok |-> TRUE, db |-> x, moves |-> <<>>]
    BY DEF Walks, FreshAcc
  <2>2. Fit(x, g) /\ \A m \in Locations : Gap(x)[m] = Gap(d)[m]
    <3> HIDE DEF x
    <3> QED BY ReleaseFits DEF x
  <2>3. OnlyShopsBuy(d, h[s], x, <<>>)
    <3>1. d \in Databases /\ h[s] \in Seq(Moves)
      BY <1>2 DEF Fit, Sound, Layers, Orders
    <3> QED BY <3>1, ReleaseBuysNothing
  <2> HIDE DEF x
  <2> QED BY <2>1, <2>2, <2>3 DEF Going, Shaped
<1>5. B = {}
  <2>1. ASSUME NEW t \in B, \A k \in t : t \ {k} \notin B PROVE FALSE
    <3>1. t \in SUBSET D /\ ~Going(h, s, d, it[t]) /\ \A k \in t : Going(h, s, d, it[t \ {k}])
      BY <2>1
    <3>2. t = {}
      BY <1>3, <3>1
    <3> QED BY <1>4, <3>1, <3>2
  <2>2. B \in SUBSET SUBSET D
    OBVIOUS
  <2> HIDE DEF B
  <2> QED BY <1>1, <2>1, <2>2, SmallestSet
<1>6. \A t \in SUBSET D : Going(h, s, d, it[t])
  BY <1>5
<1> QED BY <1>1, <1>3, <1>6

(* saveInvoice: a save that goes through leaves the database fit for the   *)
(* order with its new moves, and for all the others; only shops have       *)
(* bought.                                                                 *)
LEMMA SavedFits ==
    ASSUME NEW d, NEW h, Fit(d, h), NEW s \in Sales, NEW cart \in Seq(Lines),
           NEW saved, saved = Saved(d, h[s], cart), saved.ok
    PROVE  /\ Fit(saved.db, [h EXCEPT ![s] = saved.moves])
           /\ \A m \in Locations : Gap(saved.db)[m] = Gap(d)[m]
           /\ saved.moves \in Seq(Moves)
           /\ OnlyShopsBuy(d, h[s], saved.db, saved.moves)
<1>1. h[s] \in Seq(Moves)
  BY DEF Fit, Orders
<1>2. PICK it : Walks(it, d, h[s], cart)
  BY SavedWalks
<1>3. saved = it[DOMAIN cart]
  BY <1>2 DEF Walks
<1>4. Going(h, s, d, saved)
  <2>1. \A t \in SUBSET DOMAIN cart : Going(h, s, d, it[t])
    BY <1>2, WalkSteps
  <2> QED BY <1>3, <2>1
<1>5. Fit(saved.db, [h EXCEPT ![s] = saved.moves])
  BY <1>4 DEF Going
<1>6. saved.moves \in Seq(Moves)
  <2>1. h \in Orders
    BY DEF Fit
  <2>2. [h EXCEPT ![s] = saved.moves] \in Orders
    BY <1>5 DEF Fit
  <2>3. [h EXCEPT ![s] = saved.moves][s] = saved.moves
    BY <2>1 DEF Orders
  <2> QED BY <2>2, <2>3 DEF Orders
<1> QED BY <1>4, <1>5, <1>6 DEF Going

-----------------------------------------------------------------------------
(* The gaps between counts and layers, and the shelves as Shelves sees     *)
(* them                                                                    *)

(* Counts and layers agree over all shelves; on each shelf, unless a       *)
(* receipt was reversed at another shelf than its layer's.                 *)
Balanced(d, bad) ==
    /\ SumFunctionOnSet(Gap(d), Locations) = 0
    /\ ~bad => \A l \in Locations : Gap(d)[l] = 0

(* A gap is a number.                                                      *)
LEMMA GapIsInt ==
    ASSUME NEW d \in Databases, NEW l \in Locations
    PROVE  Gap(d)[l] \in Int /\ Gap(d)[l] = d.stock[l] - OnShelf(d, l)
<1>1. d.stock[l] \in Int /\ OnShelf(d, l) \in Int
  BY DbParts, ShelfIsNat
<1> QED BY <1>1 DEF Gap

(* What a step does to the shelves. *)
Grown(d, e) == \A l \in Locations : OnShelf(e, l) >= OnShelf(d, l)
Fewer(d, e) == \A l \in Locations : OnShelf(e, l) <= OnShelf(d, l)

Carried(d, e) ==
    \E from, to \in Locations : \E n \in 1..OnShelf(d, from) :
        /\ from # to
        /\ OnShelf(e, from) = OnShelf(d, from) - n
        /\ OnShelf(e, to) = OnShelf(d, to) + n
        /\ \A l \in Locations \ {from, to} : OnShelf(e, l) = OnShelf(d, l)

(* When a shelf's gap stays the same, its layers change as its count does. *)
LEMMA ShelfByGap ==
    ASSUME NEW d \in Databases, NEW e \in Databases, NEW l \in Locations
    PROVE  /\ OnShelf(d, l) \in Nat /\ OnShelf(e, l) \in Nat /\ d.stock[l] \in Int /\ e.stock[l] \in Int
           /\ Gap(e)[l] = Gap(d)[l] => OnShelf(e, l) = OnShelf(d, l) + (e.stock[l] - d.stock[l])
<1>1. OnShelf(d, l) \in Nat /\ OnShelf(e, l) \in Nat /\ d.stock[l] \in Int /\ e.stock[l] \in Int
  BY ShelfIsNat, DbParts
<1> QED BY <1>1 DEF Gap

(* Gaps that do not change stay balanced.                                  *)
LEMMA SameGaps ==
    ASSUME NEW d, NEW e, NEW bad, Balanced(d, bad), \A l \in Locations : Gap(e)[l] = Gap(d)[l]
    PROVE  Balanced(e, bad)
<1>1. IsFiniteSet(Locations)
  BY LotsFinite
<1>2. SumFunctionOnSet(Gap(e), Locations) = SumFunctionOnSet(Gap(d), Locations)
  <2> DEFINE f == Gap(e)
             g == Gap(d)
  <2>1. \A l \in Locations : f[l] = g[l]
    OBVIOUS
  <2> HIDE DEF f, g
  <2>2. SumFunctionOnSet(f, Locations) = SumFunctionOnSet(g, Locations)
    BY <1>1, <2>1, SumSame
  <2> QED BY <2>2 DEF f, g
<1> QED BY <1>2 DEF Balanced

(* An arrival leaves everything fit and balanced, and no shelf with less.  *)
LEMMA ArrivalFits ==
    ASSUME NEW d, NEW h, NEW e, NEW l, NEW n, NEW doc, NEW scan, Arriving(d, e, l, n, doc, scan),
           Fit(d, h), NEW bad, Balanced(d, bad)
    PROVE  Fit(e, h) /\ Balanced(e, bad) /\ Grown(d, e)
<1> DEFINE owed == Claims(h)
<1>1. owed \in Slices /\ Restorable(d, owed)
  BY ClaimsParts DEF Fit
<1> HIDE DEF owed
<1>2. Safe(d, e, owed) /\ \A m \in Locations : Gap(e)[m] = Gap(d)[m]
  BY <1>1, ArrivalKeeps
<1>3. d \in Databases /\ e \in Databases /\ n \in Nat /\ e.stock = [d.stock EXCEPT ![l] = @ + n]
  BY DEF Arriving, Arrives, Sound, Layers
<1>4. ASSUME NEW m \in Locations PROVE OnShelf(e, m) >= OnShelf(d, m)
  <2>1. d.stock \in [Locations -> Int]
    BY <1>3, DbParts
  <2>2. d.stock[m] \in Int /\ e.stock[m] \in Int /\ e.stock[m] >= d.stock[m]
    BY <1>3, <2>1
  <2>3. OnShelf(d, m) \in Nat /\ OnShelf(e, m) = OnShelf(d, m) + (e.stock[m] - d.stock[m])
    BY <1>2, <1>3, ShelfByGap
  <2> QED BY <2>2, <2>3
<1> QED BY <1>2, <1>4, SafeIsFit, SameGaps DEF owed, Grown

(* Units that are sent back from layers that are all at l leave l. *)
LEMMA SentBackFrom ==
    ASSUME NEW d \in Databases, NEW back \in Slices, NEW l \in Locations,
           \A i \in Lots : back[i] > 0 => d.lots[i].location = l, NEW m \in Locations
    PROVE  SentBack(d, back)[m] = IF m = l THEN SumFunctionOnSet(back, Lots) ELSE 0
<1> DEFINE f == BackAt(d, back, m)
<1>1. SentBack(d, back)[m] = SumFunctionOnSet(f, Lots)
  BY DEF SentBack
<1>2. \A i \in Lots : f[i] = IF m = l THEN back[i] ELSE 0
  <2> TAKE i \in Lots
  <2>1. back[i] \in Nat
    BY DEF Slices
  <2> QED BY <2>1 DEF BackAt
<1>3. IsFiniteSet(Lots)
  BY LotsFinite
<1> HIDE DEF f
<1>4. CASE m = l
  <2>1. \A i \in Lots : f[i] = back[i]
    BY <1>2, <1>4
  <2> QED BY <1>1, <1>3, <1>4, <2>1, SumSame
<1>5. CASE m # l
  <2>1. \A i \in Lots : f[i] = 0
    BY <1>2, <1>5
  <2> QED BY <1>1, <1>3, <1>5, <2>1, SumZero
<1> QED BY <1>4, <1>5

(* A reversal leaves no shelf with more.                                   *)
LEMMA UndoShelves ==
    ASSUME NEW d \in Databases, NEW back \in Slices, NEW gone \in [Locations -> Int], NEW e, Undone(d, e, back, gone),
           \A m \in Locations : Gap(e)[m] = Gap(d)[m] + (SentBack(d, back)[m] - gone[m])
    PROVE  Fewer(d, e)
<1> SUFFICES ASSUME NEW m \in Locations PROVE OnShelf(e, m) <= OnShelf(d, m)
  BY DEF Fewer
<1>1. e \in Databases /\ e.stock[m] = d.stock[m] - gone[m] /\ gone[m] \in Int
  BY DEF Undone
<1>2. SentBack(d, back)[m] \in Nat
  BY SentBackTotal
<1>3. OnShelf(d, m) \in Nat /\ OnShelf(e, m) \in Nat /\ d.stock[m] \in Int /\ e.stock[m] \in Int
  BY <1>1, ShelfByGap
<1>4. Gap(d)[m] = d.stock[m] - OnShelf(d, m) /\ Gap(e)[m] = e.stock[m] - OnShelf(e, m)
      /\ Gap(e)[m] = Gap(d)[m] + (SentBack(d, back)[m] - gone[m])
  BY DEF Gap
<1> QED BY <1>1, <1>2, <1>3, <1>4

(* A receipt reversed at the shelf l, wherever its layers are. *)
LEMMA UndoBalances ==
    ASSUME NEW d, NEW h, Fit(d, h), NEW bad, Balanced(d, bad), NEW back \in Slices, NEW l \in Locations,
           NEW gone, gone = [m \in Locations |-> IF m = l THEN SumFunctionOnSet(back, Lots) ELSE 0],
           NEW e, Undone(d, e, back, gone)
    PROVE  /\ Fit(e, h)
           /\ Balanced(e, TRUE)
           /\ Fewer(d, e)
           /\ (\A i \in Lots : back[i] > 0 => d.lots[i].location = l) => Balanced(e, bad)
<1> DEFINE owed == Claims(h)
           sent == SentBack(d, back)
           all == SumFunctionOnSet(back, Lots)
<1>1. owed \in Slices /\ Restorable(d, owed) /\ Sound(d) /\ d \in Databases /\ e \in Databases
  BY ClaimsParts DEF Fit, Sound, Layers, Undone
<1>2. IsFiniteSet(Locations) /\ IsFiniteSet(Lots)
  BY LotsFinite
<1>3. all \in Nat
  <2>1. \A i \in Lots : back[i] \in Nat
    BY DEF Slices
  <2> QED BY <1>2, <2>1, SumIsNat
<1>4. gone \in [Locations -> Int] /\ \A m \in Locations : gone[m] = IF m = l THEN all ELSE 0
  BY <1>3
<1>5. Safe(d, e, owed) /\ \A m \in Locations : Gap(e)[m] = Gap(d)[m] + (sent[m] - gone[m])
  <2> HIDE DEF owed
  <2> QED BY <1>1, <1>4, UndoKeeps
<1>6. Fit(e, h)
  BY <1>5, SafeIsFit
<1>7. \A m \in Locations : Gap(d)[m] \in Int /\ Gap(e)[m] \in Int /\ sent[m] \in Int /\ gone[m] \in Int
  <2>1. sent \in [Locations -> Nat]
    BY <1>1, SentBackTotal
  <2> QED BY <1>1, <1>4, <2>1, GapIsInt
<1>8. SumFunctionOnSet(sent, Locations) = all
  BY <1>1, SentBackTotal
<1> DEFINE f == Gap(d)
           g == Gap(e)
           w == [m \in Locations |-> sent[m] - gone[m]]
<1>9. SumFunctionOnSet(gone, Locations) = all
  <2>1. SumFunctionOnSet(gone, Locations) = SumFunctionOnSet(gone, {l})
    <3>1. \A m \in Locations : gone[m] \in Int
      BY <1>7
    <3>2. \A m \in Locations \ {l} : gone[m] = 0
      BY <1>4
    <3>3. {l} \in SUBSET Locations
      OBVIOUS
    <3> QED BY <1>2, <3>1, <3>2, <3>3, SumWithin
  <2>2. gone[l] \in Int /\ gone[l] = all
    BY <1>4, <1>7
  <2> HIDE DEF all
  <2>3. SumFunctionOnSet(gone, {l}) = gone[l]
    BY <2>2, SumOne
  <2> QED BY <2>1, <2>2, <2>3
<1>10. SumFunctionOnSet(g, Locations) = 0
  <2>1. \A m \in Locations : gone[m] \in Int /\ w[m] \in Int /\ sent[m] = gone[m] + w[m]
    BY <1>7
  <2>2. \A m \in Locations : f[m] \in Int /\ w[m] \in Int /\ g[m] = f[m] + w[m]
    BY <1>5, <1>7
  <2>3. SumFunctionOnSet(f, Locations) = 0
    BY DEF Balanced
  <2> HIDE DEF f, g, w, sent
  <2>4. SumFunctionOnSet(sent, Locations) = SumFunctionOnSet(gone, Locations) + SumFunctionOnSet(w, Locations)
    BY <1>2, <2>1, SumPlus
  <2>5. SumFunctionOnSet(g, Locations) = SumFunctionOnSet(f, Locations) + SumFunctionOnSet(w, Locations)
    BY <1>2, <2>2, SumPlus
  <2>6. SumFunctionOnSet(w, Locations) \in Int
    BY <1>2, <2>1, SumIsInt
  <2> HIDE DEF all
  <2> QED BY <1>3, <1>8, <1>9, <2>3, <2>4, <2>5, <2>6
<1>11. ASSUME \A i \in Lots : back[i] > 0 => d.lots[i].location = l, NEW m \in Locations
       PROVE  Gap(e)[m] = Gap(d)[m]
  <2>1. sent[m] = gone[m]
    BY <1>1, <1>4, <1>11, SentBackFrom
  <2> QED BY <1>5, <1>7, <2>1
<1>12. (\A i \in Lots : back[i] > 0 => d.lots[i].location = l) => Balanced(e, bad)
  BY <1>11, SameGaps
<1>13. Fewer(d, e)
  <2>1. \A m \in Locations : Gap(e)[m] = Gap(d)[m] + (SentBack(d, back)[m] - gone[m])
    BY <1>5
  <2> HIDE DEF owed, sent
  <2> QED BY <1>1, <1>4, <2>1, UndoShelves
<1> QED BY <1>6, <1>10, <1>12, <1>13 DEF Balanced

(* reverseLotReceipt, when it is asked for a whole layer, deletes the      *)
(* layer.                                                                  *)
LEMMA ReversalUndoes ==
    ASSUME NEW d, Sound(d), NEW back \in Slices, Reversible(d, back),
           \A i \in Lots : back[i] > 0 => d.lots[i].received <= back[i]
    PROVE  /\ \A i \in Lots : back[i] > 0 => /\ Exists(d, i) /\ back[i] = d.lots[i].received
                                             /\ back[i] = d.lots[i].remaining
           /\ Reversed(d, back).lots = [i \in Lots |-> IF back[i] > 0 THEN NoLot ELSE d.lots[i]]
           /\ Reversed(d, back) = [d EXCEPT !.lots = [i \in Lots |-> IF back[i] > 0 THEN NoLot ELSE d.lots[i]]]
           /\ Reversed(d, back) \in Databases
<1>1. /\ d \in Databases /\ d.lots \in [Lots -> LotRows]
      /\ \A i \in Lots : back[i] \in Nat /\ d.lots[i].received \in Nat /\ d.lots[i].remaining \in Nat
                         /\ d.lots[i].remaining <= d.lots[i].received
  <2>1. d \in Databases /\ Layers(d)
    BY DEF Sound, Layers
  <2> QED BY <2>1, DbParts DEF Slices, Layers
<1>2. \A i \in Lots : back[i] > 0 => /\ Exists(d, i) /\ back[i] = d.lots[i].received
                                     /\ back[i] = d.lots[i].remaining
  BY <1>1 DEF Reversible
<1> DEFINE lots == [i \in Lots |-> IF back[i] > 0 THEN NoLot ELSE d.lots[i]]
<1>3. [i \in Lots |->
            IF back[i] = 0 THEN d.lots[i]
            ELSE IF d.lots[i].received = back[i] THEN NoLot
            ELSE Shrunk(d.lots[i], back[i])] = lots
  BY <1>1, <1>2
<1>4. Reversed(d, back) = [d EXCEPT !.lots = lots]
  BY <1>3 DEF Reversed
<1>5. lots \in [Lots -> LotRows]
  <2>1. NoLot \in LotRows
    BY DocsApart DEF NoLot, LotRows
  <2> QED BY <1>1, <2>1
<1> HIDE DEF lots
<1>6. [d EXCEPT !.lots = lots] \in Databases /\ [d EXCEPT !.lots = lots].lots = lots
  BY <1>1, <1>5 DEF Databases
<1> QED BY <1>2, <1>4, <1>6 DEF lots

-----------------------------------------------------------------------------
(* The three reversals                                                     *)

(* Units of one layer only add up to themselves.                           *)
LEMMA OnlySum ==
    ASSUME NEW i \in Lots, NEW n \in Nat
    PROVE  /\ Only(i, n) \in Slices /\ \A j \in Lots : Only(i, n)[j] = IF j = i THEN n ELSE 0
           /\ SumFunctionOnSet(Only(i, n), Lots) = n
<1> DEFINE f == Only(i, n)
<1>1. f \in Slices /\ \A j \in Lots : f[j] = IF j = i THEN n ELSE 0
  BY DEF Only, Nothing, Slices
<1>2. IsFiniteSet(Lots)
  BY LotsFinite
<1> HIDE DEF f
<1>3. SumFunctionOnSet(f, Lots) = SumFunctionOnSet(f, {i})
  <2>1. /\ \A j \in Lots : f[j] \in Int
        /\ \A j \in Lots \ {i} : f[j] = 0
        /\ {i} \in SUBSET Lots
    BY <1>1
  <2> QED BY <1>2, <2>1, SumWithin
<1>4. SumFunctionOnSet(f, {i}) = f[i]
  BY <1>1, SumOne
<1> QED BY <1>1, <1>3, <1>4 DEF f

(* UndoScan as a function of the database *)
ScanUndone(d, i) ==
    LET scan == d.scans[i]
        undone == [Bump(Reversed(d, Only(i, scan.quantity)), scan.location, -scan.quantity)
                       EXCEPT !.scans[i] = NoScan]
    IN  IF scan.doc = NoPo THEN undone
        ELSE [undone EXCEPT !.receipts[scan.doc][i] = 0,
                            !.checked[scan.doc] = Max({0, @ - scan.quantity})]

(* What undoScan leaves in each table.                                     *)
LEMMA UndoneFields ==
    ASSUME NEW d, Sound(d), NEW i \in Lots, d.scans[i] # NoScan, NEW back, back = Only(i, d.scans[i].quantity),
           Reversible(d, back), NEW e, e = ScanUndone(d, i)
    PROVE  /\ e \in Databases /\ back \in Slices
           /\ d.scans[i].quantity \in Nat /\ d.scans[i].quantity > 0
           /\ \A j \in Lots : back[j] > 0 => /\ Exists(d, j) /\ back[j] = d.lots[j].received
                                             /\ back[j] = d.lots[j].remaining
           /\ \A j \in Lots : e.lots[j] = IF back[j] > 0 THEN NoLot ELSE d.lots[j]
           /\ \A m \in Locations :
                  e.stock[m] = IF m = d.scans[i].location THEN d.stock[m] - d.scans[i].quantity ELSE d.stock[m]
           /\ \A j \in Lots : e.scans[j] = IF j = i THEN NoScan ELSE d.scans[j]
           /\ e.next = d.next
           /\ \A doc \in Docs, j \in Lots :
                  e.receipts[doc][j] = IF doc = d.scans[i].doc /\ j = i THEN 0 ELSE d.receipts[doc][j]
           /\ \A doc \in Docs :
                  e.checked[doc] = IF doc = d.scans[i].doc
                                   THEN Max({0, d.checked[doc] - d.scans[i].quantity})
                                   ELSE d.checked[doc]
<1> DEFINE scan == d.scans[i]
           q == scan.quantity
           a == Reversed(d, back)
           b == Bump(a, scan.location, -q)
           u == [b EXCEPT !.scans[i] = NoScan]
<1>1. /\ d \in Databases /\ Layers(d) /\ Papers(d) /\ q \in Nat /\ q > 0
      /\ scan.location \in Locations /\ scan.doc \in Pos \cup {NoPo}
      /\ d.lots[i].received <= q
  <2>1. d \in Databases /\ Layers(d) /\ Papers(d)
    BY DEF Sound, Layers
  <2> QED BY <2>1, DbParts DEF Papers
<1>2. back \in Slices /\ \A j \in Lots : back[j] = IF j = i THEN q ELSE 0
  BY <1>1, OnlySum
<1>3. /\ \A j \in Lots : back[j] > 0 => /\ Exists(d, j) /\ back[j] = d.lots[j].received
                                        /\ back[j] = d.lots[j].remaining
      /\ a = [d EXCEPT !.lots = [j \in Lots |-> IF back[j] > 0 THEN NoLot ELSE d.lots[j]]]
      /\ a \in Databases
  <2>1. \A j \in Lots : back[j] > 0 => d.lots[j].received <= back[j]
    BY <1>1, <1>2
  <2> QED BY <1>2, <2>1, ReversalUndoes
<1>4. /\ \A j \in Lots : a.lots[j] = IF back[j] > 0 THEN NoLot ELSE d.lots[j]
      /\ a.stock = d.stock /\ a.receipts = d.receipts /\ a.checked = d.checked
      /\ a.scans = d.scans /\ a.next = d.next
  BY <1>1, <1>3 DEF Databases
<1> HIDE DEF a
<1>5. /\ b \in Databases
      /\ b.lots = a.lots /\ b.receipts = d.receipts /\ b.checked = d.checked
      /\ b.scans = d.scans /\ b.next = d.next
      /\ \A m \in Locations : b.stock[m] = IF m = scan.location THEN d.stock[m] - q ELSE d.stock[m]
  <2> DEFINE s == [a.stock EXCEPT ![scan.location] = @ + (-q)]
  <2>1. s \in [Locations -> Int] /\ \A m \in Locations : s[m] = IF m = scan.location THEN d.stock[m] - q ELSE d.stock[m]
    <3>1. d.stock \in [Locations -> Int]
      BY <1>1, DbParts
    <3>2. \A m \in Locations : d.stock[m] \in Int
      BY <3>1
    <3> HIDE DEF q
    <3> QED BY <1>1, <1>4, <3>1, <3>2
  <2>2. b = [a EXCEPT !.stock = s]
    BY DEF Bump
  <2> HIDE DEF s, b
  <2> QED BY <1>3, <1>4, <2>1, <2>2 DEF Databases
<1> HIDE DEF b
<1>6. /\ u \in Databases
      /\ u.lots = a.lots /\ u.receipts = d.receipts /\ u.checked = d.checked
      /\ u.stock = b.stock /\ u.next = d.next
      /\ \A j \in Lots : u.scans[j] = IF j = i THEN NoScan ELSE d.scans[j]
  <2> DEFINE s == [b.scans EXCEPT ![i] = NoScan]
  <2>1. s \in [Lots -> Scans] /\ \A j \in Lots : s[j] = IF j = i THEN NoScan ELSE d.scans[j]
    <3>1. NoScan \in Scans
      BY DocsApart DEF NoScan, Scans
    <3>2. d.scans \in [Lots -> Scans]
      BY <1>1, DbParts
    <3> QED BY <1>5, <3>1, <3>2
  <2>2. u = [b EXCEPT !.scans = s]
    OBVIOUS
  <2> HIDE DEF s, u
  <2> QED BY <1>5, <2>1, <2>2 DEF Databases
<1>7. e = IF scan.doc = NoPo THEN u
          ELSE [u EXCEPT !.receipts[scan.doc][i] = 0, !.checked[scan.doc] = Max({0, @ - q})]
  BY DEF ScanUndone, u, b, a
<1> HIDE DEF u
<1> DEFINE doc == scan.doc
           left == Max({0, d.checked[doc] - q})
<1>8. CASE doc = NoPo
  <2>1. e = u /\ doc \notin Docs
    BY <1>7, <1>8, DocsApart
  <2> QED BY <1>1, <1>2, <1>3, <1>4, <1>5, <1>6, <2>1
<1>9. CASE doc # NoPo
  <2>1. doc \in Docs /\ d.checked[doc] \in Nat
    BY <1>1, <1>9, DbParts, DocsApart
  <2>2. left \in Nat
    <3>1. d.checked[doc] - q \in Int
      BY <1>1, <2>1
    <3> HIDE DEF doc, q
    <3> QED BY <3>1, MaxOfTwo
  <2> DEFINE r == [u.receipts EXCEPT ![doc][i] = 0]
             c == [u.checked EXCEPT ![doc] = Max({0, @ - q})]
             v == [u EXCEPT !.receipts = r]
  <2>3. /\ r \in [Docs -> [Lots -> Nat]]
        /\ \A other \in Docs, j \in Lots : r[other][j] = IF other = doc /\ j = i THEN 0 ELSE d.receipts[other][j]
    <3>1. d.receipts \in [Docs -> [Lots -> Nat]]
      BY <1>1, DbParts
    <3> HIDE DEF doc
    <3> QED BY <1>6, <2>1, <3>1
  <2>4. c \in [Docs -> Nat] /\ \A other \in Docs : c[other] = IF other = doc THEN left ELSE d.checked[other]
    <3>1. d.checked \in [Docs -> Nat]
      BY <1>1, DbParts
    <3>2. c = [d.checked EXCEPT ![doc] = left]
      BY <1>6, <3>1, <2>1
    <3> HIDE DEF doc, left, c
    <3> QED BY <2>1, <2>2, <3>1, <3>2
  <2>5. e = [v EXCEPT !.checked = c]
    BY <1>7, <1>9
  <2> HIDE DEF r, c, v
  <2>6. v \in Databases /\ v.receipts = r /\ v.lots = u.lots /\ v.stock = u.stock /\ v.scans = u.scans /\ v.next = u.next
    BY <1>6, <2>3 DEF v, Databases
  <2>7. e \in Databases /\ e.checked = c /\ e.receipts = r /\ e.lots = u.lots /\ e.stock = u.stock /\ e.scans = u.scans /\ e.next = u.next
    BY <2>4, <2>5, <2>6 DEF Databases
  <2>8. \A other \in Docs, j \in Lots :
            e.receipts[other][j] = IF other = scan.doc /\ j = i THEN 0 ELSE d.receipts[other][j]
    BY <2>3, <2>7
  <2>9. \A other \in Docs :
            e.checked[other] = IF other = scan.doc THEN Max({0, d.checked[other] - q}) ELSE d.checked[other]
    BY <2>4, <2>7
  <2>10. /\ \A j \in Lots : e.lots[j] = IF back[j] > 0 THEN NoLot ELSE d.lots[j]
         /\ \A m \in Locations : e.stock[m] = IF m = scan.location THEN d.stock[m] - q ELSE d.stock[m]
         /\ \A j \in Lots : e.scans[j] = IF j = i THEN NoScan ELSE d.scans[j]
         /\ e.next = d.next /\ e \in Databases
    BY <1>4, <1>5, <1>6, <2>7
  <2> HIDE DEF left
  <2> QED BY <1>1, <1>2, <1>3, <2>8, <2>9, <2>10
<1> QED BY <1>8, <1>9

(* undoScan is a reversal, at the shelf of the scan: the scan and the      *)
(* receipt are for the same layer, so the order's count goes down by just  *)
(* that receipt, and never has to stop at zero.                            *)
LEMMA UndoScanUndoes ==
    ASSUME NEW d, Sound(d), NEW i \in Lots, d.scans[i] # NoScan, NEW back, back = Only(i, d.scans[i].quantity),
           Reversible(d, back), NEW e, e = ScanUndone(d, i),
           NEW gone, gone = [m \in Locations |->
               IF m = d.scans[i].location THEN SumFunctionOnSet(back, Lots) ELSE 0]
    PROVE  /\ Undone(d, e, back, gone) /\ back \in Slices /\ d.scans[i].location \in Locations
           /\ \A j \in Lots : back[j] > 0 <=> j = i
<1> DEFINE scan == d.scans[i]
           q == scan.quantity
<1>1. /\ e \in Databases /\ back \in Slices /\ q \in Nat /\ q > 0
      /\ \A j \in Lots : back[j] > 0 => /\ Exists(d, j) /\ back[j] = d.lots[j].received
                                        /\ back[j] = d.lots[j].remaining
      /\ \A j \in Lots : e.lots[j] = IF back[j] > 0 THEN NoLot ELSE d.lots[j]
      /\ \A m \in Locations : e.stock[m] = IF m = scan.location THEN d.stock[m] - q ELSE d.stock[m]
      /\ \A j \in Lots : e.scans[j] = IF j = i THEN NoScan ELSE d.scans[j]
      /\ e.next = d.next
      /\ \A doc \in Docs, j \in Lots :
             e.receipts[doc][j] = IF doc = scan.doc /\ j = i THEN 0 ELSE d.receipts[doc][j]
      /\ \A doc \in Docs :
             e.checked[doc] = IF doc = scan.doc THEN Max({0, d.checked[doc] - q}) ELSE d.checked[doc]
  BY UndoneFields
<1>2. d \in Databases /\ Papers(d) /\ Layers(d) /\ IsFiniteSet(Lots)
  BY LotsFinite DEF Sound, Layers
<1>3. (\A j \in Lots : back[j] = IF j = i THEN q ELSE 0) /\ SumFunctionOnSet(back, Lots) = q
  BY <1>1, OnlySum
<1>4. \A m \in Locations : e.stock[m] = d.stock[m] - gone[m]
  <2>1. \A m \in Locations : d.stock[m] \in Int
    BY <1>2, DbParts
  <2> QED BY <1>1, <1>3, <2>1
<1>5. Exists(d, i) /\ q = d.lots[i].received
  BY <1>1, <1>3
<1>6. scan.location \in Locations /\ scan.doc \in Pos \cup {NoPo}
  BY <1>2, DbParts
<1>7. \A doc \in Docs : d.receipts[doc][i] # 0 => doc = scan.doc
  BY <1>2 DEF Papers
<1>8. scan.doc # NoPo => scan.doc \in Docs /\ d.receipts[scan.doc][i] = q
  <2>1. scan.doc # NoPo => scan.doc \in Docs /\ d.receipts[scan.doc][i] # 0
    BY <1>2, <1>5, <1>6, DocsApart DEF Papers
  <2> QED BY <1>2, <1>5, <2>1 DEF Papers
<1>9. \A doc \in Docs, j \in Lots : e.receipts[doc][j] = IF back[j] > 0 THEN 0 ELSE d.receipts[doc][j]
  BY <1>1, <1>3, <1>7
<1>10. ASSUME NEW doc \in Docs PROVE SumFunction(e.receipts[doc]) = e.checked[doc]
  <2> DEFINE f == d.receipts[doc]
             g == e.receipts[doc]
  <2>1. f \in [Lots -> Nat] /\ g \in [Lots -> Nat] /\ d.checked[doc] \in Nat
    BY <1>1, <1>2, DbParts
  <2>2. SumFunctionOnSet(f, Lots) = d.checked[doc]
    <3>1. SumFunction(f) = d.checked[doc]
      BY <1>2 DEF Papers
    <3> QED BY <2>1, <3>1 DEF SumFunction
  <2>3. CASE doc = scan.doc
    <3>1. f[i] = q /\ g[i] = 0 /\ \A j \in Lots \ {i} : g[j] = f[j]
      BY <1>1, <1>8, <2>3, DocsApart
    <3>2. \A j \in Lots : f[j] \in Int /\ g[j] \in Int
      BY <2>1
    <3>3. e.checked[doc] = Max({0, d.checked[doc] - q})
      BY <1>1, <2>3
    <3> HIDE DEF f, g
    <3>4. SumFunctionOnSet(g, Lots) = SumFunctionOnSet(f, Lots) - f[i] + g[i]
      BY <1>2, <3>1, <3>2, SumChange
    <3>5. f[i] <= SumFunctionOnSet(f, Lots)
      <4>1. \A j \in Lots : f[j] \in Nat
        BY <2>1
      <4> QED BY <1>2, <4>1, SumIsNat
    <3> DEFINE x == d.checked[doc] - q
    <3>6. x \in Nat /\ SumFunctionOnSet(g, Lots) = x
      BY <1>1, <2>1, <2>2, <3>1, <3>4, <3>5
    <3>7. Max({0, x}) = x
      <4> HIDE DEF x
      <4>1. Max({0, x}) = IF 0 <= x THEN x ELSE 0
        BY <3>6, MaxOfTwo
      <4> QED BY <3>6, <4>1
    <3>8. SumFunction(g) = SumFunctionOnSet(g, Lots)
      BY <2>1 DEF SumFunction
    <3> QED BY <3>3, <3>6, <3>7, <3>8 DEF g
  <2>4. CASE doc # scan.doc
    <3>1. (\A j \in Lots : g[j] = f[j]) /\ e.checked[doc] = d.checked[doc]
      BY <1>1, <2>4
    <3> HIDE DEF f, g
    <3>2. SumFunctionOnSet(g, Lots) = SumFunctionOnSet(f, Lots)
      BY <1>2, <3>1, SumSame
    <3>3. SumFunction(g) = SumFunctionOnSet(g, Lots)
      BY <2>1 DEF SumFunction
    <3> QED BY <2>2, <3>1, <3>2, <3>3 DEF g
  <2> QED BY <2>3, <2>4
<1> QED BY <1>1, <1>3, <1>4, <1>6, <1>9, <1>10 DEF Undone

(* CancelPo and RemoveTabLine as functions of the database *)
PoCancelled(d, p) ==
    [Bump(Reversed(d, d.receipts[p]), Dock, -SumFunction(d.receipts[p]))
         EXCEPT !.receipts[p] = Nothing, !.checked[p] = 0]

(* reverseReceivedLines is a reversal of all the order's receipts, at the  *)
(* dock.                                                                   *)
LEMMA CancelPoUndoes ==
    ASSUME NEW d, Sound(d), NEW p \in Pos, NEW back, back = d.receipts[p], Reversible(d, back),
           NEW e, e = PoCancelled(d, p),
           NEW gone, gone = [m \in Locations |-> IF m = Dock THEN SumFunctionOnSet(back, Lots) ELSE 0]
    PROVE  Undone(d, e, back, gone) /\ back \in Slices
<1> DEFINE all == SumFunction(back)
           a == Reversed(d, back)
           b == Bump(a, Dock, -all)
<1>1. /\ d \in Databases /\ Layers(d) /\ Papers(d) /\ p \in Docs /\ back \in Slices /\ Dock \in Locations
      /\ IsFiniteSet(Lots)
  <2>1. d \in Databases /\ Layers(d) /\ Papers(d) /\ p \in Docs
    BY DocsApart DEF Sound, Layers
  <2> QED BY <2>1, DbParts, LotsFinite, DocsApart DEF Slices
<1>2. all = SumFunctionOnSet(back, Lots) /\ all \in Nat
  <2>1. (\A j \in Lots : back[j] \in Nat) /\ DOMAIN back = Lots
    BY <1>1 DEF Slices
  <2> QED BY <1>1, <2>1, SumIsNat DEF SumFunction
<1>3. /\ \A j \in Lots : back[j] > 0 => /\ Exists(d, j) /\ back[j] = d.lots[j].received
                                        /\ back[j] = d.lots[j].remaining
      /\ a = [d EXCEPT !.lots = [j \in Lots |-> IF back[j] > 0 THEN NoLot ELSE d.lots[j]]]
      /\ a \in Databases
  <2>1. ASSUME NEW j \in Lots, back[j] > 0 PROVE d.lots[j].received <= back[j]
    <3>1. back[j] = d.lots[j].received /\ back[j] \in Nat
      BY <1>1, <2>1 DEF Papers, Slices
    <3> QED BY <3>1
  <2> QED BY <1>1, <2>1, ReversalUndoes
<1>4. /\ \A j \in Lots : a.lots[j] = IF back[j] > 0 THEN NoLot ELSE d.lots[j]
      /\ a.stock = d.stock /\ a.receipts = d.receipts /\ a.checked = d.checked
      /\ a.scans = d.scans /\ a.next = d.next
  BY <1>1, <1>3 DEF Databases
<1>e. e = [b EXCEPT !.receipts[p] = Nothing, !.checked[p] = 0]
  BY DEF PoCancelled
<1> HIDE DEF a, all
<1>5. /\ b \in Databases
      /\ b.lots = a.lots /\ b.receipts = d.receipts /\ b.checked = d.checked
      /\ b.scans = d.scans /\ b.next = d.next
      /\ \A m \in Locations : b.stock[m] = IF m = Dock THEN d.stock[m] - all ELSE d.stock[m]
  <2> DEFINE s == [a.stock EXCEPT ![Dock] = @ + (-all)]
  <2>1. s \in [Locations -> Int] /\ \A m \in Locations : s[m] = IF m = Dock THEN d.stock[m] - all ELSE d.stock[m]
    <3>1. d.stock \in [Locations -> Int]
      BY <1>1, DbParts
    <3>2. \A m \in Locations : d.stock[m] \in Int
      BY <3>1
    <3> QED BY <1>1, <1>2, <1>4, <3>1, <3>2
  <2>2. b = [a EXCEPT !.stock = s]
    BY DEF Bump
  <2> HIDE DEF s, b
  <2> QED BY <1>3, <1>4, <2>1, <2>2 DEF Databases
<1> HIDE DEF b
<1> DEFINE r == [b.receipts EXCEPT ![p] = Nothing]
           c == [b.checked EXCEPT ![p] = 0]
           v == [b EXCEPT !.receipts = r]
<1>6. /\ r \in [Docs -> [Lots -> Nat]]
      /\ \A doc \in Docs : r[doc] = IF doc = p THEN Nothing ELSE d.receipts[doc]
  <2>1. d.receipts \in [Docs -> [Lots -> Nat]] /\ Nothing \in [Lots -> Nat]
    BY <1>1, DbParts DEF Nothing
  <2> QED BY <1>1, <1>5, <2>1
<1>7. c \in [Docs -> Nat] /\ \A doc \in Docs : c[doc] = IF doc = p THEN 0 ELSE d.checked[doc]
  <2>1. d.checked \in [Docs -> Nat]
    BY <1>1, DbParts
  <2> QED BY <1>1, <1>5, <2>1
<1>8. e = [v EXCEPT !.checked = c]
  BY <1>e
<1> HIDE DEF r, c, v
<1>9. v \in Databases /\ v.receipts = r /\ v.lots = b.lots /\ v.stock = b.stock /\ v.scans = b.scans /\ v.next = b.next
  BY <1>5, <1>6 DEF v, Databases
<1>10. e \in Databases /\ e.checked = c /\ e.receipts = r /\ e.lots = b.lots /\ e.stock = b.stock /\ e.scans = b.scans /\ e.next = b.next
  BY <1>7, <1>8, <1>9 DEF Databases
<1>11. \A doc \in Docs, i \in Lots : e.receipts[doc][i] = IF back[i] > 0 THEN 0 ELSE d.receipts[doc][i]
  <2> TAKE doc \in Docs, i \in Lots
  <2>1. e.receipts[doc][i] = IF doc = p THEN 0 ELSE d.receipts[doc][i]
    BY <1>6, <1>10 DEF Nothing
  <2>2. back[i] \in Nat /\ back[i] = d.receipts[p][i]
    BY <1>1 DEF Slices
  <2>3. back[i] > 0 /\ doc # p => d.receipts[doc][i] = 0
    <3>1. back[i] > 0 => d.receipts[p][i] # 0
      BY <2>2
    <3> QED BY <1>1, <3>1 DEF Papers
  <2> QED BY <2>1, <2>2, <2>3
<1>12. ASSUME NEW doc \in Docs PROVE SumFunction(e.receipts[doc]) = e.checked[doc]
  <2>1. CASE doc = p
    <3>1. e.receipts[doc] = Nothing /\ e.checked[doc] = 0
      BY <2>1, <1>6, <1>7, <1>10
    <3> DEFINE f == Nothing
    <3>2. DOMAIN f = Lots /\ \A j \in Lots : f[j] = 0
      BY DEF Nothing
    <3> HIDE DEF f
    <3>3. SumFunctionOnSet(f, Lots) = 0
      BY <1>1, <3>2, SumZero
    <3>4. SumFunction(f) = 0
      BY <3>2, <3>3 DEF SumFunction
    <3> QED BY <3>1, <3>4 DEF f
  <2>2. CASE doc # p
    BY <2>2, <1>1, <1>6, <1>7, <1>10 DEF Papers
  <2> QED BY <2>1, <2>2
<1>13. \A m \in Locations : e.stock[m] = d.stock[m] - gone[m]
  <2>1. \A m \in Locations : d.stock[m] \in Int
    BY <1>1, DbParts
  <2> QED BY <1>2, <1>5, <1>10, <2>1
<1>14. (\A i \in Lots : e.lots[i] = IF back[i] > 0 THEN NoLot ELSE d.lots[i]) /\ e.next = d.next /\ e.scans = d.scans
  BY <1>4, <1>5, <1>10
<1> HIDE <1>e
<1> QED BY <1>1, <1>3, <1>10, <1>11, <1>12, <1>13, <1>14 DEF Undone

(* What goes back with a line of a tab, and the line removed.              *)
TabBack(d, shop, since) ==
    [i \in Lots |-> IF i \in LineLots(d, shop, since) THEN d.receipts[shop][i] ELSE 0]

TabLineRemoved(d, shop, since, at) ==
    LET back == TabBack(d, shop, since)
    IN  [Reversed(d, back) EXCEPT
            !.stock = [l \in Locations |-> @[l] - at[l]],
            !.receipts[shop] = [i \in Lots |-> @[i] - back[i]],
            !.checked[shop] = @ - SumFunction(back)]

(* removeTabLine is a reversal, at the shelves where the layers are.       *)
LEMMA RemoveTabLineUndoes ==
    ASSUME NEW d, Sound(d), NEW shop \in Shops, NEW since, NEW back, back = TabBack(d, shop, since), Reversible(d, back),
           NEW at, at = SentBack(d, back), NEW e, e = TabLineRemoved(d, shop, since, at)
    PROVE  Undone(d, e, back, at) /\ back \in Slices
<1> DEFINE all == SumFunction(back)
           a == Reversed(d, back)
<1>1. /\ d \in Databases /\ Layers(d) /\ Papers(d) /\ shop \in Docs /\ back \in Slices
      /\ IsFiniteSet(Lots)
  <2>1. d \in Databases /\ Layers(d) /\ Papers(d) /\ shop \in Docs
    BY DocsApart DEF Sound, Layers
  <2>2. \A i \in Lots : d.receipts[shop][i] \in Nat
    BY <2>1, DbParts
  <2> QED BY <2>1, <2>2, LotsFinite DEF Slices, TabBack
<1>2. \A i \in Lots : back[i] \in Nat /\ (back[i] > 0 => back[i] = d.receipts[shop][i]) /\ d.receipts[shop][i] \in Nat
  <2>1. \A i \in Lots : d.receipts[shop][i] \in Nat
    BY <1>1, DbParts
  <2> QED BY <2>1 DEF TabBack
<1>3. /\ \A j \in Lots : back[j] > 0 => /\ Exists(d, j) /\ back[j] = d.lots[j].received
                                        /\ back[j] = d.lots[j].remaining
      /\ a = [d EXCEPT !.lots = [j \in Lots |-> IF back[j] > 0 THEN NoLot ELSE d.lots[j]]]
      /\ a \in Databases
  <2>1. ASSUME NEW j \in Lots, back[j] > 0 PROVE d.lots[j].received <= back[j]
    <3>1. back[j] = d.lots[j].received /\ back[j] \in Nat
      BY <1>1, <1>2, <2>1 DEF Papers
    <3> QED BY <3>1
  <2> QED BY <1>1, <2>1, ReversalUndoes
<1>4. /\ \A j \in Lots : a.lots[j] = IF back[j] > 0 THEN NoLot ELSE d.lots[j]
      /\ a.stock = d.stock /\ a.receipts = d.receipts /\ a.checked = d.checked
      /\ a.scans = d.scans /\ a.next = d.next
  BY <1>1, <1>3 DEF Databases
<1> DEFINE s == [l \in Locations |-> a.stock[l] - at[l]]
           r == [a.receipts EXCEPT ![shop] = [i \in Lots |-> @[i] - back[i]]]
           c == [a.checked EXCEPT ![shop] = @ - SumFunction(back)]
           v == [a EXCEPT !.stock = s]
           w == [v EXCEPT !.receipts = r]
<1>5. e = [w EXCEPT !.checked = c]
  BY DEF TabLineRemoved
<1>6. s \in [Locations -> Int] /\ \A m \in Locations : s[m] = d.stock[m] - at[m]
  <2>1. \A m \in Locations : d.stock[m] \in Int
    BY <1>1, DbParts
  <2>2. at \in [Locations -> Nat]
    BY <1>1, SentBackTotal
  <2> QED BY <1>4, <2>1, <2>2
<1>7. /\ r \in [Docs -> [Lots -> Nat]]
      /\ \A doc \in Docs \ {shop} : r[doc] = d.receipts[doc]
      /\ \A i \in Lots : r[shop][i] = IF back[i] > 0 THEN 0 ELSE d.receipts[shop][i]
      /\ \A i \in Lots : r[shop][i] = d.receipts[shop][i] - back[i]
  <2>1. d.receipts \in [Docs -> [Lots -> Nat]]
    BY <1>1, DbParts
  <2> DEFINE new == [i \in Lots |-> d.receipts[shop][i] - back[i]]
  <2>2. new \in [Lots -> Nat] /\ \A i \in Lots : new[i] = IF back[i] > 0 THEN 0 ELSE d.receipts[shop][i]
    BY <1>2
  <2>3. r = [d.receipts EXCEPT ![shop] = new]
    BY <1>1, <1>4, <2>1
  <2>4. \A i \in Lots : new[i] = d.receipts[shop][i] - back[i]
    OBVIOUS
  <2> HIDE DEF new, r
  <2> QED BY <1>1, <2>1, <2>2, <2>3, <2>4
<1>8. /\ SumFunction(r[shop]) = d.checked[shop] - all /\ all \in Nat /\ d.checked[shop] - all \in Nat
  <2> DEFINE f == d.receipts[shop]
             g == r[shop]
  <2>1. f \in [Lots -> Nat] /\ g \in [Lots -> Nat] /\ DOMAIN back = Lots
    BY <1>1, <1>7, DbParts DEF Slices
  <2>2. SumFunction(f) = d.checked[shop] /\ d.checked[shop] \in Nat
    BY <1>1, DbParts DEF Papers
  <2>3. \A i \in Lots : g[i] \in Int /\ back[i] \in Int /\ f[i] = g[i] + back[i]
    BY <1>2, <1>7
  <2>4. (\A i \in Lots : g[i] \in Nat) /\ (\A i \in Lots : back[i] \in Nat)
    BY <1>2, <2>1
  <2> HIDE DEF f, g
  <2>5. SumFunctionOnSet(f, Lots) = SumFunctionOnSet(g, Lots) + SumFunctionOnSet(back, Lots)
    BY <1>1, <2>3, SumPlus
  <2>6. SumFunctionOnSet(g, Lots) \in Nat /\ SumFunctionOnSet(back, Lots) \in Nat
    BY <1>1, <2>4, SumIsNat
  <2>7. SumFunction(f) = SumFunctionOnSet(f, Lots) /\ SumFunction(g) = SumFunctionOnSet(g, Lots)
        /\ all = SumFunctionOnSet(back, Lots)
    BY <2>1 DEF SumFunction
  <2> HIDE DEF all
  <2>8. SumFunction(g) = d.checked[shop] - all /\ all \in Nat /\ d.checked[shop] - all \in Nat
    BY <2>2, <2>5, <2>6, <2>7
  <2> QED BY <2>8 DEF g
<1>9. c \in [Docs -> Nat] /\ \A doc \in Docs : c[doc] = IF doc = shop THEN d.checked[doc] - all ELSE d.checked[doc]
  <2>1. d.checked \in [Docs -> Nat]
    BY <1>1, DbParts
  <2>2. c = [d.checked EXCEPT ![shop] = d.checked[shop] - all]
    BY <1>1, <1>4, <2>1
  <2> HIDE DEF all, c
  <2> QED BY <1>1, <1>8, <2>1, <2>2
<1> HIDE DEF a, r, c, s, v, w
<1>10. v \in Databases /\ v.stock = s /\ v.receipts = a.receipts /\ v.lots = a.lots /\ v.checked = a.checked /\ v.scans = a.scans /\ v.next = a.next
  BY <1>3, <1>6 DEF v, Databases
<1>11. w \in Databases /\ w.stock = s /\ w.receipts = r /\ w.lots = a.lots /\ w.checked = a.checked /\ w.scans = a.scans /\ w.next = a.next
  BY <1>7, <1>10 DEF w, Databases
<1>12. e \in Databases /\ e.checked = c /\ e.stock = s /\ e.receipts = r /\ e.lots = a.lots /\ e.scans = a.scans /\ e.next = a.next
  BY <1>5, <1>9, <1>11 DEF Databases
<1>13. \A doc \in Docs, i \in Lots : e.receipts[doc][i] = IF back[i] > 0 THEN 0 ELSE d.receipts[doc][i]
  <2> TAKE doc \in Docs, i \in Lots
  <2>1. CASE doc = shop
    BY <1>7, <1>12, <2>1
  <2>2. CASE doc # shop
    <3>1. e.receipts[doc][i] = d.receipts[doc][i]
      BY <1>7, <1>12, <2>2
    <3>2. back[i] > 0 => d.receipts[shop][i] # 0
      BY <1>2
    <3>3. back[i] > 0 => d.receipts[doc][i] = 0
      BY <1>1, <2>2, <3>2 DEF Papers
    <3> QED BY <3>1, <3>3
  <2> QED BY <2>1, <2>2
<1>14. ASSUME NEW doc \in Docs PROVE SumFunction(e.receipts[doc]) = e.checked[doc]
  <2>1. CASE doc = shop
    BY <2>1, <1>8, <1>9, <1>12
  <2>2. CASE doc # shop
    BY <2>2, <1>1, <1>7, <1>9, <1>12 DEF Papers
  <2> QED BY <2>1, <2>2
<1> HIDE DEF all
<1> QED BY <1>1, <1>3, <1>4, <1>6, <1>12, <1>13, <1>14 DEF Undone

-----------------------------------------------------------------------------
(* The inductive invariant, and every action                               *)

(* The inductive invariant: sound tables that are fit for every order, and *)
(* gaps that are balanced.                                                 *)
StockInv ==
    /\ Fit(db, held)
    /\ misplaced \in BOOLEAN
    /\ Balanced(db, misplaced)

(* What the invariant gives to every step.                                 *)
LEMMA InvParts ==
    ASSUME StockInv
    PROVE  /\ Sound(db) /\ db \in Databases /\ held \in Orders /\ misplaced \in BOOLEAN
           /\ Claims(held) \in Slices /\ Restorable(db, Claims(held))
BY ClaimsParts DEF StockInv, Fit, Sound, Layers

(* It holds of an empty database.                                          *)
LEMMA InvAtInit == Init => StockInv
<1> SUFFICES ASSUME Init PROVE StockInv
  OBVIOUS
<1> USE DEF Init
<1>1. IsFiniteSet(Lots) /\ IsFiniteSet(Locations) /\ IsFiniteSet(Sales)
  BY LotsFinite
<1>2. db \in Databases
  <2>1. NoLot \in LotRows /\ NoScan \in Scans
    BY DocsApart DEF NoLot, LotRows, NoScan, Scans
  <2>2. 1 \in 1..(MaxLots + 1)
    BY LotsFinite
  <2> QED BY <2>1, <2>2 DEF EmptyDb, Databases, Nothing
<1>3. /\ \A i \in Lots : db.lots[i] = NoLot /\ db.scans[i] = NoScan
      /\ \A doc \in Docs : db.checked[doc] = 0 /\ db.receipts[doc] = Nothing
      /\ \A l \in Locations : db.stock[l] = 0
  BY DEF EmptyDb
<1>4. Layers(db)
  BY <1>2, <1>3 DEF Layers, Exists, NoLot
<1>5. \A f : DOMAIN f = Lots /\ (\A i \in Lots : f[i] = 0) => SumFunction(f) = 0
  BY <1>1, SumZero DEF SumFunction
<1>6. Papers(db)
  <2>1. DOMAIN Nothing = Lots /\ \A i \in Lots : Nothing[i] = 0
    BY DEF Nothing
  <2> QED BY <1>3, <1>5, <2>1 DEF Papers
<1>7. held \in Orders /\ \A s \in Sales : held[s] = <<>>
  BY NothingMoved DEF Orders
<1>8. ASSUME NEW i \in Lots PROVE Claims(held)[i] = 0
  <2> DEFINE f == [s \in Sales |-> Returned(held[s])[i]]
  <2>1. \A s \in Sales : f[s] = 0
    BY <1>7, NothingMoved
  <2>2. DOMAIN f = Sales
    OBVIOUS
  <2>3. Claims(held)[i] = SumFunction(f)
    BY DEF Claims
  <2> HIDE DEF f
  <2> QED BY <1>1, <2>1, <2>2, <2>3, SumZero DEF SumFunction
<1>9. Fit(db, held)
  <2>1. \A s \in Sales : OnOwnShelf(db, held[s])
    BY <1>7, NothingMoved
  <2>2. Restorable(db, Claims(held))
    BY <1>8 DEF Restorable
  <2> QED BY <1>4, <1>6, <1>7, <2>1, <2>2 DEF Fit, Sound
<1>10. ASSUME NEW l \in Locations PROVE Gap(db)[l] = 0
  <2>1. \A i \in Lots : ShareAt(db, l)[i] = 0
    BY <1>3 DEF ShareAt, NoLot
  <2>2. OnShelf(db, l) = 0
    BY <1>1, <2>1, SumZero DEF OnShelf
  <2> QED BY <1>3, <2>2 DEF Gap
<1>11. SumFunctionOnSet(Gap(db), Locations) = 0
  BY <1>1, <1>10, SumZero
<1> QED BY <1>9, <1>10, <1>11 DEF StockInv, Balanced

(* It holds again after a step that keeps its parts.                       *)
LEMMA FitsOn ==
    ASSUME StockInv, Fit(db', held'), misplaced' \in BOOLEAN, Balanced(db', misplaced')
    PROVE  StockInv'
<1>1. Fit(db, held)' = Fit(db', held')
  BY DEF Fit, Sound, Layers, Papers, Exists, OnOwnShelf, Restorable, Claims, Returned
<1> QED BY <1>1 DEF StockInv, Balanced, Gap, OnShelf, ShareAt

(* An order written again, in the units of Shelves: what a shelf and the   *)
(* order hold together grows only at a shop, by what was bought.           *)
Rewritten(d, e, h, g) ==
    \E s \in Sales :
        /\ \A r \in Sales \ {s} : g[r] = h[r]
        /\ \A l \in Locations :
               LET bought == (OnShelf(e, l) + GivenBack(g[s], l)) - (OnShelf(d, l) + GivenBack(h[s], l))
               IN  bought >= 0 /\ (l \notin Shops => bought = 0)

(* Every step is an arrival, a departure, a transport or an order written  *)
(* again.                                                                  *)
Shifts(d, e, h, g) ==
    \/ g = h /\ (Grown(d, e) \/ Fewer(d, e) \/ Carried(d, e))
    \/ Rewritten(d, e, h, g)

(* What each action does.                                                  *)
Kept ==
    /\ Fit(db', held') /\ Balanced(db', misplaced') /\ misplaced' \in BOOLEAN
    /\ Shifts(db, db', held, held')

(* A save that buys only at shops is such a rewriting.                     *)
LEMMA BuyingIsRewriting ==
    ASSUME NEW d, NEW h, Fit(d, h), NEW e, NEW s \in Sales, NEW more \in Seq(Moves), e \in Databases,
           OnlyShopsBuy(d, h[s], e, more), \A m \in Locations : Gap(e)[m] = Gap(d)[m]
    PROVE  Rewritten(d, e, h, [h EXCEPT ![s] = more])
<1> DEFINE g == [h EXCEPT ![s] = more]
<1>1. h \in Orders /\ d \in Databases /\ h[s] \in Seq(Moves)
  BY DEF Fit, Sound, Layers, Orders
<1>2. g[s] = more /\ \A r \in Sales \ {s} : g[r] = h[r]
  BY <1>1 DEF Orders
<1>3. ASSUME NEW l \in Locations
      PROVE  LET bought == (OnShelf(e, l) + GivenBack(more, l)) - (OnShelf(d, l) + GivenBack(h[s], l))
             IN  bought >= 0 /\ (l \notin Shops => bought = 0)
  <2> DEFINE i == d.stock[l]
             j == e.stock[l]
             u == GivenBack(h[s], l)
             v == GivenBack(more, l)
             a == OnShelf(d, l)
             b == OnShelf(e, l)
  <2>1. i \in Int /\ j \in Int /\ u \in Nat /\ v \in Nat /\ a \in Nat /\ b \in Nat /\ b = a + (j - i)
    BY <1>1, ShelfByGap, ReturnedParts
  <2>2. (j + v) - (i + u) >= 0 /\ (l \notin Shops => (j + v) - (i + u) = 0)
    BY DEF OnlyShopsBuy
  <2> HIDE DEF i, j, u, v, a, b
  <2>3. (b + v) - (a + u) >= 0 /\ (l \notin Shops => (b + v) - (a + u) = 0)
    BY <2>1, <2>2
  <2> QED BY <2>3 DEF a, b, u, v
<1> HIDE DEF g
<1>4. \E t \in Sales :
        /\ \A r \in Sales \ {t} : g[r] = h[r]
        /\ \A l \in Locations :
               LET bought == (OnShelf(e, l) + GivenBack(g[t], l)) - (OnShelf(d, l) + GivenBack(h[t], l))
               IN  bought >= 0 /\ (l \notin Shops => bought = 0)
  <2> WITNESS s \in Sales
  <2> QED BY <1>2, <1>3
<1> QED BY <1>4 DEF Rewritten, g

(* A restock, a count corrected upwards, a scan without an order.          *)
LEMMA AddStockKeeps ==
    ASSUME StockInv, NEW l \in Locations, NEW n \in Amounts, AddStock(l, n)
    PROVE  Kept
<1>1. /\ Sound(db) /\ HasRoom(db, 1) /\ n \in Nat /\ n > 0 /\ db.next \in Lots
      /\ Fit(db, held) /\ Balanced(db, misplaced) /\ misplaced \in BOOLEAN
      /\ held' = held /\ misplaced' = misplaced
  <2>1. Sound(db) /\ HasRoom(db, 1)
    BY InvParts DEF AddStock, CanArrive
  <2> QED BY <2>1, LotsFinite, NextIsFree DEF StockInv, AddStock, Amounts
<1> DEFINE scan == [doc |-> NoPo, location |-> l, quantity |-> n]
           d == db
           e == db'
<1>2. scan \in Scans /\ NoScan \in Scans /\ scan.doc = NoPo /\ scan.quantity = n
  BY <1>1, DocsApart DEF Scans, NoScan
<1>3. \/ e = [Added(d, l, n) EXCEPT !.scans[d.next] = scan]
      \/ e = Added(d, l, n)
  BY DEF AddStock
<1> HIDE DEF d, e, scan
<1>4. Arrives(d, e, l, n, NoPo, scan) \/ Arrives(d, e, l, n, NoPo, NoScan)
  BY <1>1, <1>2, <1>3, Arrivals DEF d
<1>5. Arriving(d, e, l, n, NoPo, scan) \/ Arriving(d, e, l, n, NoPo, NoScan)
  BY <1>1, <1>2, <1>4 DEF Arriving, d
<1>6. Fit(e, held) /\ Balanced(e, misplaced) /\ Grown(d, e)
  BY <1>1, <1>5, ArrivalFits DEF d
<1> QED BY <1>1, <1>6 DEF d, e, Kept, Shifts

(* A delivery scanned in (commitScan, receivePoLine).                      *)
LEMMA ReceiveKeeps ==
    ASSUME StockInv, NEW p \in Pos, NEW n \in Amounts, Receive(p, n)
    PROVE  Kept
<1>1. /\ Sound(db) /\ HasRoom(db, 1) /\ n \in Nat /\ n > 0 /\ db.next \in Lots
      /\ Fit(db, held) /\ Balanced(db, misplaced) /\ misplaced \in BOOLEAN
      /\ held' = held /\ misplaced' = misplaced
  <2>1. Sound(db) /\ HasRoom(db, 1)
    BY InvParts DEF Receive, CanArrive
  <2> QED BY <2>1, LotsFinite, NextIsFree DEF StockInv, Receive, Amounts
<1> DEFINE scan == [doc |-> p, location |-> Dock, quantity |-> n]
           d == db
           e == db'
<1>2. scan \in Scans /\ scan.doc = p /\ scan.quantity = n /\ p \in Docs /\ Dock \in Locations
  BY <1>1, DocsApart DEF Scans
<1>3. e = [Received(d, p, Dock, n) EXCEPT !.scans[d.next] = scan]
  BY DEF Receive
<1> HIDE DEF d, e, scan
<1>4. Arrives(d, e, Dock, n, p, scan)
  BY <1>1, <1>2, <1>3, Arrivals DEF d
<1>5. Arriving(d, e, Dock, n, p, scan)
  BY <1>1, <1>2, <1>4 DEF Arriving, d
<1>6. Fit(e, held) /\ Balanced(e, misplaced) /\ Grown(d, e)
  BY <1>1, <1>5, ArrivalFits DEF d
<1> QED BY <1>1, <1>6 DEF d, e, Kept, Shifts

(* A line added to a shop's tab (addPurchaseOrderLines).                   *)
LEMMA BuyAtShopKeeps ==
    ASSUME StockInv, NEW shop \in Shops, NEW n \in Amounts, BuyAtShop(shop, n)
    PROVE  Kept
<1>1. /\ Sound(db) /\ HasRoom(db, 1) /\ n \in Nat /\ n > 0 /\ db.next \in Lots
      /\ Fit(db, held) /\ Balanced(db, misplaced) /\ misplaced \in BOOLEAN
      /\ held' = held /\ misplaced' = misplaced
  <2>1. Sound(db) /\ HasRoom(db, 1)
    BY InvParts DEF BuyAtShop, CanArrive
  <2> QED BY <2>1, LotsFinite, NextIsFree DEF StockInv, BuyAtShop, Amounts
<1> DEFINE d == db
           e == db'
<1>2. shop \in Docs /\ shop \in Locations /\ NoScan \in Scans
  BY DocsApart DEF Scans, NoScan
<1>3. e = Received(d, shop, shop, n)
  BY DEF BuyAtShop
<1> HIDE DEF d, e
<1>4. Arrives(d, e, shop, n, shop, NoScan)
  BY <1>1, <1>2, <1>3, Arrivals DEF d
<1>5. Arriving(d, e, shop, n, shop, NoScan)
  BY <1>1, <1>2, <1>4 DEF Arriving, d
<1>6. Fit(e, held) /\ Balanced(e, misplaced) /\ Grown(d, e)
  BY <1>1, <1>5, ArrivalFits DEF d
<1> QED BY <1>1, <1>6 DEF d, e, Kept, Shifts

(* A sale, a correction downwards, a scan out.                             *)
LEMMA SellKeeps ==
    ASSUME StockInv, NEW l \in Locations, NEW n \in Amounts, Sell(l, n)
    PROVE  Kept
<1> DEFINE d == db
           e == db'
           owed == Claims(held)
<1>1. /\ Sound(d) /\ n \in Nat /\ Fit(d, held) /\ Balanced(d, misplaced) /\ misplaced \in BOOLEAN
      /\ held' = held /\ misplaced' = misplaced /\ owed \in Slices /\ Restorable(d, owed)
  BY InvParts, LotsFinite DEF StockInv, Sell, Amounts
<1>2. PICK slices \in [Lots -> 0..n] :
           /\ SumFunction(slices) = n
           /\ \A i \in Lots : slices[i] > 0 => i \in OpenAt(d, l) /\ slices[i] <= d.lots[i].remaining
           /\ e = Consumed(Bump(d, l, -n), slices)
  BY DEF Sell
<1>3. slices \in Slices
  BY <1>1, <1>2 DEF Slices
<1> HIDE DEF d, e, owed
<1>4. /\ Sound(e)
      /\ \A i \in Lots : Exists(e, i) <=> Exists(d, i)
      /\ Restorable(e, [i \in Lots |-> owed[i] + slices[i]])
      /\ \A i \in Lots : e.lots[i].location = d.lots[i].location
      /\ \A m \in Locations : Gap(e)[m] = Gap(d)[m]
  BY <1>1, <1>2, <1>3, ConsumptionKeeps
<1>5. Restorable(e, owed)
  <2> SUFFICES ASSUME NEW i \in Lots, owed[i] > 0
               PROVE  Exists(e, i) /\ e.lots[i].remaining + owed[i] <= e.lots[i].received
    BY DEF Restorable
  <2>1. owed[i] \in Nat /\ slices[i] \in Nat
    BY <1>1, <1>3 DEF Slices
  <2>2. owed[i] + slices[i] > 0
    BY <2>1
  <2>3. Exists(e, i) /\ e.lots[i].remaining + (owed[i] + slices[i]) <= e.lots[i].received
    BY <1>4, <2>2 DEF Restorable
  <2>4. e.lots[i].remaining \in Nat /\ e.lots[i].received \in Nat
    <3>1. e \in Databases
      BY <1>4 DEF Sound, Layers
    <3> QED BY <3>1, DbParts
  <2> QED BY <2>1, <2>3, <2>4
<1>6. Safe(d, e, owed)
  BY <1>4, <1>5 DEF Safe
<1>7. Fit(e, held) /\ Balanced(e, misplaced)
  BY <1>1, <1>4, <1>6, SafeIsFit, SameGaps DEF owed
<1>8. Fewer(d, e)
  <2> SUFFICES ASSUME NEW m \in Locations PROVE OnShelf(e, m) <= OnShelf(d, m)
    BY DEF Fewer
  <2>1. d \in Databases /\ e \in Databases /\ d.stock \in [Locations -> Int]
    BY <1>1, <1>4, DbParts DEF Sound, Layers
  <2>2. e.stock = [d.stock EXCEPT ![l] = @ + (-n)]
    BY <1>2, <2>1 DEF Consumed, Bump, Databases
  <2>3. d.stock[m] \in Int /\ e.stock[m] \in Int /\ e.stock[m] <= d.stock[m]
    BY <1>1, <2>1, <2>2
  <2>4. OnShelf(d, m) \in Nat /\ OnShelf(e, m) = OnShelf(d, m) + (e.stock[m] - d.stock[m])
    BY <1>4, <2>1, ShelfByGap
  <2> QED BY <2>3, <2>4
<1> QED BY <1>1, <1>7, <1>8 DEF d, e, Kept, Shifts

(* Units driven to another shelf (moveStock).                              *)
LEMMA MoveStockKeeps ==
    ASSUME StockInv, NEW from \in Locations, NEW to \in Locations, NEW n \in Amounts, MoveStock(from, to, n)
    PROVE  Kept
<1> DEFINE d == db
           e == db'
           owed == Claims(held)
           taken == Fifo(d, OpenAt(d, from), n)
<1>1. /\ Sound(d) /\ d \in Databases /\ n \in Nat /\ Fit(d, held) /\ Balanced(d, misplaced) /\ misplaced \in BOOLEAN
      /\ held' = held /\ misplaced' = misplaced /\ owed \in Slices /\ Restorable(d, owed)
  BY InvParts, LotsFinite DEF StockInv, MoveStock, Amounts
<1>2. /\ from # to /\ n <= Remaining(d, OpenAt(d, from))
      /\ HasRoom(d, Cardinality(Twinned(d, taken)))
      /\ e = Bump(Bump(Relocated(d, to, taken), from, -n), to, n)
  BY DEF MoveStock
<1>3. /\ taken \in Slices /\ SumFunction(taken) = n
      /\ \A i \in Lots : taken[i] > 0 => i \in OpenAt(d, from) /\ taken[i] <= d.lots[i].remaining
  <2> DEFINE S == OpenAt(d, from)
  <2>1. S \in SUBSET Lots
    BY DEF OpenAt
  <2> HIDE DEF S, d
  <2>2. /\ Fifo(d, S, n) \in Slices
        /\ \A i \in Lots : Fifo(d, S, n)[i] <= d.lots[i].remaining
        /\ \A i \in Lots : Fifo(d, S, n)[i] > 0 => i \in S
        /\ SumFunction(Fifo(d, S, n)) = n
    BY <1>1, <1>2, <2>1, FifoTakes DEF S
  <2> QED BY <2>2 DEF S
<1> HIDE DEF d, e, owed, taken
<1>4. Moved(d, e, from, to, n, taken)
  BY <1>1, <1>2, <1>3, RelocationMoves
<1>5. Safe(d, e, owed) /\ \A m \in Locations : Gap(e)[m] = Gap(d)[m]
  BY <1>1, <1>2, <1>3, <1>4, MoveKeeps
<1>6. Fit(e, held) /\ Balanced(e, misplaced)
  BY <1>1, <1>5, SafeIsFit, SameGaps DEF owed
<1>7. Carried(d, e)
  <2>1. e \in Databases /\ n > 0
    BY <1>4, LotsFinite DEF Moved, Amounts
  <2>2. \A m \in Locations : /\ OnShelf(d, m) \in Nat /\ d.stock[m] \in Int /\ e.stock[m] \in Int
                             /\ OnShelf(e, m) = OnShelf(d, m) + (e.stock[m] - d.stock[m])
    BY <1>1, <1>5, <2>1, ShelfByGap
  <2>3. \A m \in Locations :
            e.stock[m] = d.stock[m] + (IF m = to THEN n ELSE 0) - (IF m = from THEN n ELSE 0)
    BY <1>4 DEF Moved
  <2>4. n \in 1..OnShelf(d, from)
    <3>1. n <= OnShelf(d, from)
      BY <1>1, <1>2, ShelfIsOpenLots
    <3> QED BY <1>1, <2>1, <2>2, <3>1
  <2>5. /\ OnShelf(e, from) = OnShelf(d, from) - n
        /\ OnShelf(e, to) = OnShelf(d, to) + n
        /\ \A l \in Locations \ {from, to} : OnShelf(e, l) = OnShelf(d, l)
    BY <1>1, <1>2, <2>2, <2>3
  <2> QED BY <1>2, <2>4, <2>5 DEF Carried
<1> QED BY <1>1, <1>6, <1>7 DEF d, e, Kept, Shifts

(* A scan undone (undoScan): balanced on each shelf only when the layer is *)
(* still where it was scanned in.                                          *)
LEMMA UndoScanKeeps ==
    ASSUME StockInv, NEW i \in Lots, UndoScan(i)
    PROVE  Kept
<1> DEFINE d == db
           e == db'
           h == held
           bad == misplaced
           back == Only(i, d.scans[i].quantity)
           l == d.scans[i].location
           gone == [m \in Locations |-> IF m = l THEN SumFunctionOnSet(back, Lots) ELSE 0]
<1>1. Sound(d) /\ Fit(d, h) /\ Balanced(d, bad) /\ bad \in BOOLEAN /\ held' = h
  BY InvParts DEF StockInv, UndoScan
<1>2. /\ d.scans[i] # NoScan /\ Reversible(d, back) /\ misplaced' = (bad \/ d.lots[i].location # l)
  BY DEF UndoScan
<1>3. e = ScanUndone(d, i)
  BY DEF UndoScan, ScanUndone
<1>4. misplaced' \in BOOLEAN
  BY <1>1, <1>2
<1> HIDE DEF d, e, bad, h
<1>5. Undone(d, e, back, gone) /\ back \in Slices /\ l \in Locations /\ \A j \in Lots : back[j] > 0 <=> j = i
  BY <1>1, <1>2, <1>3, UndoScanUndoes
<1> HIDE DEF back, l
<1>6. gone = [m \in Locations |-> IF m = l THEN SumFunctionOnSet(back, Lots) ELSE 0]
  OBVIOUS
<1> HIDE DEF gone
<1>7. /\ Fit(e, h) /\ Balanced(e, TRUE) /\ Fewer(d, e)
      /\ (\A j \in Lots : back[j] > 0 => d.lots[j].location = l) => Balanced(e, bad)
  BY <1>1, <1>5, <1>6, UndoBalances
<1>8. Balanced(e, misplaced')
  <2>1. CASE d.lots[i].location = l
    <3>1. Balanced(e, bad) /\ misplaced' = bad
      BY <1>1, <1>2, <1>5, <1>7, <2>1
    <3> QED BY <3>1
  <2>2. CASE d.lots[i].location # l
    <3>1. misplaced' = TRUE
      BY <1>1, <1>2, <2>2
    <3> QED BY <1>7, <3>1
  <2> QED BY <2>1, <2>2
<1> QED BY <1>1, <1>4, <1>7, <1>8 DEF d, e, h, Kept, Shifts

(* A purchase order's receipt reversed (reverseReceivedLines), likewise.   *)
LEMMA CancelPoKeeps ==
    ASSUME StockInv, NEW p \in Pos, CancelPo(p)
    PROVE  Kept
<1> DEFINE d == db
           e == db'
           h == held
           bad == misplaced
           back == d.receipts[p]
           gone == [m \in Locations |-> IF m = Dock THEN SumFunctionOnSet(back, Lots) ELSE 0]
<1>1. Sound(d) /\ Fit(d, h) /\ Balanced(d, bad) /\ bad \in BOOLEAN /\ held' = h
  BY InvParts DEF StockInv, CancelPo
<1>2. Reversible(d, back) /\ misplaced' = (bad \/ \E i \in Lots : back[i] > 0 /\ d.lots[i].location # Dock)
  BY DEF CancelPo
<1>3. e = PoCancelled(d, p)
  BY DEF CancelPo, PoCancelled
<1>4. misplaced' \in BOOLEAN
  BY <1>1, <1>2
<1> HIDE DEF d, e, bad, h
<1>5. Undone(d, e, back, gone) /\ back \in Slices
  BY <1>1, <1>2, <1>3, CancelPoUndoes
<1> HIDE DEF back
<1>6. gone = [m \in Locations |-> IF m = Dock THEN SumFunctionOnSet(back, Lots) ELSE 0] /\ Dock \in Locations
  BY DocsApart
<1> HIDE DEF gone
<1>7. /\ Fit(e, h) /\ Balanced(e, TRUE) /\ Fewer(d, e)
      /\ (\A j \in Lots : back[j] > 0 => d.lots[j].location = Dock) => Balanced(e, bad)
  BY <1>1, <1>5, <1>6, UndoBalances
<1>8. Balanced(e, misplaced')
  <2>1. CASE \A i \in Lots : back[i] > 0 => d.lots[i].location = Dock
    <3>1. Balanced(e, bad) /\ misplaced' = bad
      BY <1>1, <1>2, <1>7, <2>1
    <3> QED BY <3>1
  <2>2. CASE \E i \in Lots : back[i] > 0 /\ d.lots[i].location # Dock
    <3>1. misplaced' = TRUE
      BY <1>1, <1>2, <2>2
    <3> QED BY <1>7, <3>1
  <2> QED BY <2>1, <2>2
<1> QED BY <1>1, <1>4, <1>7, <1>8 DEF d, e, h, Kept, Shifts

(* A line of a tab removed (removeTabLine): balanced on each shelf, since  *)
(* it goes by the shelves the layers are on.                               *)
LEMMA RemoveTabLineKeeps ==
    ASSUME StockInv, NEW shop \in Shops, NEW since \in Lots, RemoveTabLine(shop, since)
    PROVE  Kept
<1> DEFINE d == db
           e == db'
           h == held
           bad == misplaced
           line == LineLots(d, shop, since)
           back == TabBack(d, shop, since)
           at(l) == SumFunctionOnSet(back, {i \in line : d.lots[i].location = l})
           gone == SentBack(d, back)
           owed == Claims(h)
<1>1. /\ Sound(d) /\ Fit(d, h) /\ Balanced(d, bad) /\ bad \in BOOLEAN /\ held' = h /\ d \in Databases
      /\ misplaced' = bad /\ owed \in Slices /\ Restorable(d, owed)
  BY InvParts DEF StockInv, RemoveTabLine
<1>2. /\ Reversible(d, back)
      /\ e = [Reversed(d, back) EXCEPT
                    !.stock = [l \in Locations |-> @[l] - at(l)],
                    !.receipts[shop] = [i \in Lots |-> @[i] - back[i]],
                    !.checked[shop] = @ - SumFunction(back)]
  BY DEF RemoveTabLine, TabBack
<1>3. ASSUME NEW l \in Locations PROVE at(l) = gone[l]
  <2> DEFINE f == BackAt(d, back, l)
             T == {i \in line : d.lots[i].location = l}
  <2>1. gone[l] = SumFunctionOnSet(f, Lots) /\ T \in SUBSET Lots
    BY DEF SentBack, LineLots
  <2>2. \A i \in Lots : f[i] \in Int /\ f[i] = IF i \in T THEN back[i] ELSE 0
    <3> TAKE i \in Lots
    <3>1. d.receipts[shop][i] \in Nat
      BY <1>1, DbParts, DocsApart
    <3> QED BY <3>1 DEF BackAt, TabBack
  <2>3. IsFiniteSet(Lots) /\ IsFiniteSet(T)
    BY <2>1, LotsFinite, FS_Subset
  <2> HIDE DEF f, T, back, gone
  <2>4. SumFunctionOnSet(f, Lots) = SumFunctionOnSet(f, T)
    BY <2>1, <2>2, <2>3, SumWithin
  <2>5. SumFunctionOnSet(f, T) = SumFunctionOnSet(back, T)
    BY <2>1, <2>2, <2>3, SumSame
  <2> QED BY <2>1, <2>4, <2>5 DEF T
<1>4. e = TabLineRemoved(d, shop, since, gone)
  <2>1. Reversed(d, back).stock = d.stock
    BY <1>1 DEF Reversed, Databases
  <2>2. [l \in Locations |-> d.stock[l] - at(l)] = [l \in Locations |-> d.stock[l] - gone[l]]
    BY <1>3
  <2> HIDE DEF back, gone, at
  <2>3. e = [Reversed(d, back) EXCEPT
                    !.stock = [l \in Locations |-> @[l] - gone[l]],
                    !.receipts[shop] = [i \in Lots |-> @[i] - back[i]],
                    !.checked[shop] = @ - SumFunction(back)]
    BY <1>2, <2>1, <2>2
  <2> QED BY <2>3 DEF TabLineRemoved, back
<1> HIDE DEF d, e, bad, h
<1>5. Undone(d, e, back, gone) /\ back \in Slices
  BY <1>1, <1>2, <1>4, RemoveTabLineUndoes
<1> HIDE DEF back
<1>6. \A l \in Locations : gone[l] \in Int
  <2>1. gone \in [Locations -> Nat]
    BY <1>1, <1>5, SentBackTotal
  <2> QED BY <2>1
<1>7. gone \in [Locations -> Int] /\ gone = SentBack(d, back)
  BY <1>6 DEF SentBack
<1> HIDE DEF gone, owed
<1>8. Safe(d, e, owed) /\ \A m \in Locations : Gap(e)[m] = Gap(d)[m] + (SentBack(d, back)[m] - gone[m])
  BY <1>1, <1>5, <1>7, UndoKeeps
<1>9. \A m \in Locations : Gap(e)[m] = Gap(d)[m]
  <2>1. \A m \in Locations : Gap(d)[m] \in Int
    BY <1>1, GapIsInt
  <2> QED BY <1>6, <1>7, <1>8, <2>1
<1>10. Fit(e, h) /\ Balanced(e, bad)
  BY <1>1, <1>8, <1>9, SafeIsFit, SameGaps DEF owed
<1>11. Fewer(d, e)
  BY <1>1, <1>5, <1>7, <1>8, UndoShelves
<1> QED BY <1>1, <1>10, <1>11 DEF d, e, h, Kept, Shifts

(* A sales order saved (saveInvoice).                                      *)
LEMMA SaveOrderKeeps ==
    ASSUME StockInv, NEW s \in Sales, NEW cart \in Carts, SaveOrder(s, cart)
    PROVE  Kept
<1> DEFINE d == db
           h == held
           saved == Saved(d, h[s], cart)
           bad == misplaced
<1>1. Fit(d, h) /\ Balanced(d, bad) /\ bad \in BOOLEAN /\ cart \in Seq(Lines)
  BY StockAssumption DEF StockInv
<1>2. /\ saved.ok /\ db' = saved.db /\ held' = [h EXCEPT ![s] = saved.moves] /\ misplaced' = bad
  BY DEF SaveOrder
<1> HIDE DEF d, h, bad
<1>3. /\ Fit(saved.db, [h EXCEPT ![s] = saved.moves])
      /\ \A m \in Locations : Gap(saved.db)[m] = Gap(d)[m]
      /\ saved.moves \in Seq(Moves) /\ OnlyShopsBuy(d, h[s], saved.db, saved.moves)
  <2>1. saved = Saved(d, h[s], cart) /\ saved.ok /\ Fit(d, h) /\ s \in Sales /\ cart \in Seq(Lines)
    BY <1>1, <1>2
  <2> HIDE DEF saved
  <2> QED BY <2>1, SavedFits
<1> DEFINE e == saved.db
<1> HIDE DEF saved
<1>4. Balanced(e, bad)
  <2>1. \A m \in Locations : Gap(e)[m] = Gap(d)[m]
    BY <1>3
  <2> HIDE DEF e
  <2> QED BY <1>1, <2>1, SameGaps
<1>5. Rewritten(d, e, h, [h EXCEPT ![s] = saved.moves])
  <2>1. e \in Databases
    BY <1>3 DEF Fit, Sound, Layers
  <2> DEFINE more == saved.moves
  <2>2. more \in Seq(Moves) /\ OnlyShopsBuy(d, h[s], e, more) /\ \A m \in Locations : Gap(e)[m] = Gap(d)[m]
    BY <1>3
  <2> HIDE DEF e, more
  <2>3. Rewritten(d, e, h, [h EXCEPT ![s] = more])
    BY <1>1, <2>1, <2>2, BuyingIsRewriting
  <2> QED BY <2>3 DEF more
<1> QED BY <1>1, <1>2, <1>3, <1>4, <1>5 DEF d, h, Kept, Shifts

(* A sales order voided or deleted (setInvoiceStatus, deleteInvoice).      *)
LEMMA VoidOrderKeeps ==
    ASSUME StockInv, NEW s \in Sales, VoidOrder(s)
    PROVE  Kept
<1> DEFINE d == db
           h == held
           e == db'
           g == held'
           bad == misplaced
<1>1. Fit(d, h) /\ Balanced(d, bad) /\ bad \in BOOLEAN
  BY DEF StockInv
<1>2. e = Released(d, h[s]) /\ g = [h EXCEPT ![s] = <<>>] /\ misplaced' = bad
  BY DEF VoidOrder
<1> HIDE DEF d, e, h, g, bad
<1>3. Fit(e, g) /\ \A m \in Locations : Gap(e)[m] = Gap(d)[m]
  <2> DEFINE x == Released(d, h[s])
             f == [h EXCEPT ![s] = <<>>]
  <2>1. Fit(x, f) /\ \A m \in Locations : Gap(x)[m] = Gap(d)[m]
    <3>1. x = Released(d, h[s]) /\ f = [h EXCEPT ![s] = <<>>] /\ Fit(d, h) /\ s \in Sales
      BY <1>1
    <3> HIDE DEF x
    <3> QED BY <3>1, ReleaseFits DEF x
  <2>2. e = x /\ g = f
    BY <1>2
  <2> HIDE DEF x, f
  <2> QED BY <2>1, <2>2
<1>4. Balanced(e, bad)
  BY <1>1, <1>3, SameGaps
<1>5. Rewritten(d, e, h, g)
  <2>1. d \in Databases /\ e \in Databases /\ h[s] \in Seq(Moves)
    BY <1>1, <1>3 DEF Fit, Sound, Layers, Orders
  <2>2. OnlyShopsBuy(d, h[s], e, <<>>)
    BY <1>2, <2>1, ReleaseBuysNothing
  <2>3. <<>> \in Seq(Moves)
    OBVIOUS
  <2>4. Rewritten(d, e, h, [h EXCEPT ![s] = <<>>])
    BY <1>1, <1>3, <2>1, <2>2, <2>3, BuyingIsRewriting
  <2> QED BY <1>2, <2>4
<1> QED BY <1>1, <1>2, <1>3, <1>4, <1>5 DEF d, e, h, g, Kept, Shifts

(* Every action keeps the invariant's parts and is a step of Shelves.      *)
LEMMA NextKeeps ==
    ASSUME StockInv, Next
    PROVE  Kept
<1>1. ASSUME NEW l \in Locations, NEW n \in Amounts, AddStock(l, n) \/ Sell(l, n)
      PROVE  Kept
  BY <1>1, AddStockKeeps, SellKeeps
<1>2. ASSUME NEW p \in Pos, NEW n \in Amounts, Receive(p, n)
      PROVE  Kept
  BY <1>2, ReceiveKeeps
<1>3. ASSUME NEW shop \in Shops, NEW n \in Amounts, BuyAtShop(shop, n)
      PROVE  Kept
  BY <1>3, BuyAtShopKeeps
<1>4. ASSUME NEW from \in Locations, NEW to \in Locations, NEW n \in Amounts, MoveStock(from, to, n)
      PROVE  Kept
  BY <1>4, MoveStockKeeps
<1>5. ASSUME NEW i \in Lots, UndoScan(i)
      PROVE  Kept
  BY <1>5, UndoScanKeeps
<1>6. ASSUME NEW p \in Pos, CancelPo(p)
      PROVE  Kept
  BY <1>6, CancelPoKeeps
<1>7. ASSUME NEW shop \in Shops, NEW since \in Lots, RemoveTabLine(shop, since)
      PROVE  Kept
  BY <1>7, RemoveTabLineKeeps
<1>8. ASSUME NEW s \in Sales, NEW cart \in Carts, SaveOrder(s, cart)
      PROVE  Kept
  BY <1>8, SaveOrderKeeps
<1>9. ASSUME NEW s \in Sales, VoidOrder(s)
      PROVE  Kept
  BY <1>9, VoidOrderKeeps
<1> QED BY <1>1, <1>2, <1>3, <1>4, <1>5, <1>6, <1>7, <1>8, <1>9 DEF Next

(* The invariant is inductive, ...                                         *)
LEMMA InvStep == StockInv /\ [Next]_vars => StockInv'
<1>1. ASSUME StockInv, Next PROVE StockInv'
  <2>1. Kept
    BY <1>1, NextKeeps
  <2>2. Fit(db', held') /\ Balanced(db', misplaced') /\ misplaced' \in BOOLEAN
    BY <2>1 DEF Kept
  <2> QED BY <1>1, <2>2, FitsOn
<1>2. ASSUME StockInv, UNCHANGED vars PROVE StockInv'
  <2>1. Fit(db', held') /\ Balanced(db', misplaced') /\ misplaced' \in BOOLEAN
    BY <1>2 DEF vars, StockInv
  <2> QED BY <1>2, <2>1, FitsOn
<1> QED BY <1>1, <1>2

-----------------------------------------------------------------------------
(* Theorems                                                                *)

(* ... so it always holds.                                                 *)
LEMMA InvHolds == Spec => []StockInv
<1>1. Init => StockInv
  BY InvAtInit
<1>2. StockInv /\ [Next]_vars => StockInv'
  BY InvStep
<1> QED BY <1>1, <1>2, PTL DEF Spec

(* Type correctness: the tables keep their types, the counts of layers and *)
(* receipts never go below zero, and no layer holds more than it received. *)
THEOREM StockTypeCorrect == Spec => []StockTypeOK
<1>1. StockInv => StockTypeOK
  BY DEF StockInv, Fit, Sound, Layers, Orders, StockTypeOK
<1> QED BY <1>1, InvHolds, PTL

(* releaseInvoiceStock never finds a layer gone or full: whatever was      *)
(* moved, split, undone, cancelled or sold since, all orders together can  *)
(* give back what they took, so restoreFifo (lots.ts) never throws.        *)
THEOREM ReleasesNeverRefused == Spec => []ReleaseNeverRefused
<1>1. StockInv => ReleaseNeverRefused
  BY DEF StockInv, Fit, Claims, ReleaseNeverRefused, AllHeld
<1> QED BY <1>1, InvHolds, PTL

(* The layers an order took from exist and are on the shelf its moves give *)
(* the count back to, whatever moveStock did since.                        *)
THEOREM SlicesOnTheirShelf == Spec => []SlicesStayOnShelf
<1>1. StockInv => SlicesStayOnShelf
  <2> SUFFICES ASSUME StockInv, NEW s \in Sales, NEW m \in ToSet(held[s])
               PROVE  /\ SumFunction(m.slices) = m.quantity
                      /\ \A i \in Lots : m.slices[i] > 0 =>
                             Exists(db, i) /\ db.lots[i].location = m.location
    BY DEF SlicesStayOnShelf
  <2>1. PICK k \in DOMAIN held[s] : m = held[s][k]
    BY DEF ToSet
  <2>2. OnOwnShelf(db, held[s])
    BY DEF StockInv, Fit
  <2> QED BY <2>1, <2>2 DEF OnOwnShelf
<1> QED BY <1>1, InvHolds, PTL

(* The stock of the properties is that of the invariant.                   *)
LEMMA OnHandIsOnShelf ==
    ASSUME db \in Databases, NEW l \in Locations
    PROVE  OnHand[l] \in Nat /\ OnHand[l] = OnShelf(db, l) /\ db.stock[l] \in Int /\ Gap(db)[l] = db.stock[l] - OnHand[l]
<1>1. OnHand[l] = OnShelf(db, l)
  BY ShelfIsOpenLots DEF OnHand
<1>2. OnShelf(db, l) \in Nat /\ db.stock[l] \in Int
  BY ShelfIsNat, DbParts
<1> QED BY <1>1, <1>2, GapIsInt

(* What assertStockLotsConsistent (lots.ts) asserts: layers and counts     *)
(* agree over all the shelves together always, and on each of them until   *)
(* undoScan or reverseReceivedLines goes by another shelf than the         *)
(* layer's.                                                                *)
THEOREM LayersMatchTheStock == Spec => []LayersMatchStock
<1>1. ASSUME StockInv PROVE LayersMatchStock
  <2>1. db \in Databases /\ db.stock \in [Locations -> Int] /\ Balanced(db, misplaced) /\ IsFiniteSet(Locations)
    BY <1>1, InvParts, DbParts, LotsFinite DEF StockInv
  <2> DEFINE f == OnHand
             g == Gap(db)
             h == db.stock
  <2>2. \A l \in Locations : f[l] \in Int /\ g[l] \in Int /\ h[l] \in Int /\ h[l] = f[l] + g[l]
    BY <2>1, OnHandIsOnShelf
  <2>3. DOMAIN f = Locations /\ DOMAIN h = Locations
    BY <2>1 DEF OnHand
  <2>4. SumFunction(OnHand) = SumFunction(db.stock)
    <3>1. SumFunctionOnSet(g, Locations) = 0
      BY <2>1 DEF Balanced
    <3> HIDE DEF f, g, h
    <3>2. SumFunctionOnSet(h, Locations) = SumFunctionOnSet(f, Locations) + SumFunctionOnSet(g, Locations)
      BY <2>1, <2>2, SumPlus
    <3>3. SumFunctionOnSet(f, Locations) \in Int
      BY <2>1, <2>2, SumIsInt
    <3>4. SumFunctionOnSet(h, Locations) = SumFunctionOnSet(f, Locations)
      BY <3>1, <3>2, <3>3
    <3>5. SumFunction(f) = SumFunction(h)
      BY <2>3, <3>4 DEF SumFunction
    <3> QED BY <3>5 DEF f, h
  <2>5. ~misplaced => OnHand = db.stock
    <3>1. ASSUME ~misplaced, NEW l \in Locations PROVE f[l] = h[l]
      <4>1. g[l] = 0
        BY <2>1, <3>1 DEF Balanced
      <4> HIDE DEF f, g, h
      <4> QED BY <2>2, <4>1
    <3>2. f = [l \in Locations |-> f[l]] /\ h = [l \in Locations |-> h[l]]
      BY <2>1 DEF OnHand
    <3> HIDE DEF f, h
    <3>3. ~misplaced => f = h
      BY <3>1, <3>2
    <3> QED BY <3>3 DEF f, h
  <2> QED BY <2>4, <2>5 DEF LayersMatchStock
<1> QED BY <1>1, InvHolds, PTL

(* The receipts of an order account for what it has checked in, and each   *)
(* for the whole of its layer, through every split and reversal            *)
(* (splitLotReceipts, reverseLotReceipt).                                  *)
THEOREM ReceiptsAlwaysAddUp == Spec => []ReceiptsAddUp
<1>1. ASSUME StockInv PROVE ReceiptsAddUp
  <2>1. db \in Databases /\ Papers(db)
    BY <1>1, InvParts DEF Sound
  <2>2. \A doc \in Docs, i \in Lots : db.receipts[doc][i] \in Nat
    BY <2>1, DbParts
  <2> QED BY <2>1, <2>2 DEF Papers, ReceiptsAddUp
<1> QED BY <1>1, InvHolds, PTL

(* What each order holds of each shelf.                                    *)
Totals == [s \in Sales |-> [l \in Locations |-> GivenBack(held[s], l)]]

(* A step of the tables is a step of Shelves.                              *)
LEMMA ShiftsAreSteps ==
    ASSUME StockInv, StockInv', Shifts(db, db', held, held')
    PROVE  Abstract!Next
<1> DEFINE d == db
           e == db'
           h == held
           g == held'
<1>1. d \in Databases /\ e \in Databases /\ h \in Orders /\ g \in Orders
  BY DEF StockInv, Fit, Sound, Layers
<1>2. \A l \in Locations : OnHand[l] = OnShelf(d, l) /\ OnShelf(d, l) \in Nat
  BY <1>1, OnHandIsOnShelf
<1>3. \A l \in Locations : OnHand'[l] = OnShelf(e, l) /\ OnShelf(e, l) \in Nat
  <2>1. OnHand' = [l \in Locations |-> Remaining(e, OpenAt(e, l))]
    BY DEF OnHand, Remaining, OpenAt
  <2> HIDE DEF e
  <2> QED BY <1>1, <2>1, ShelfIsOpenLots, ShelfIsNat
<1>4. /\ OnHand = [l \in Locations |-> OnHand[l]] /\ OnHand' = [l \in Locations |-> OnHand'[l]]
  BY DEF OnHand
<1>5. Totals' = [s \in Sales |-> [l \in Locations |-> GivenBack(g[s], l)]]
  BY DEF Totals, GivenBack
<1>6. \A s \in Sales, l \in Locations : /\ Totals[s][l] = GivenBack(h[s], l) /\ Totals[s][l] \in Nat
                                       /\ Totals'[s][l] = GivenBack(g[s], l) /\ Totals'[s][l] \in Nat
  <2> TAKE s \in Sales, l \in Locations
  <2>1. h[s] \in Seq(Moves) /\ g[s] \in Seq(Moves)
    BY <1>1 DEF Orders
  <2> HIDE DEF g
  <2> QED BY <1>5, <2>1, ReturnedParts DEF Totals
<1>8. ASSUME Rewritten(d, e, h, g) PROVE Abstract!Next
  <2>1. PICK s \in Sales :
        /\ \A r \in Sales \ {s} : g[r] = h[r]
        /\ \A l \in Locations :
               LET bought == (OnShelf(e, l) + GivenBack(g[s], l)) - (OnShelf(d, l) + GivenBack(h[s], l))
               IN  bought >= 0 /\ (l \notin Shops => bought = 0)
    BY <1>8 DEF Rewritten
  <2>2. \A r \in Sales \ {s} : Totals'[r] = Totals[r]
    BY <1>5, <2>1 DEF Totals
  <2>3. ASSUME NEW l \in Locations
        PROVE  LET bought == OnHand'[l] + Totals'[s][l] - OnHand[l] - Totals[s][l]
               IN  /\ OnHand'[l] >= 0 /\ Totals'[s][l] >= 0
                   /\ bought >= 0 /\ (l \notin Shops => bought = 0)
    <3> DEFINE a == OnHand[l]
               b == OnHand'[l]
               u == Totals[s][l]
               v == Totals'[s][l]
    <3>1. a \in Nat /\ b \in Nat /\ u \in Nat /\ v \in Nat
      BY <1>2, <1>3, <1>6
    <3>2. (b + v) - (a + u) >= 0 /\ (l \notin Shops => (b + v) - (a + u) = 0)
      BY <1>2, <1>3, <1>6, <2>1
    <3> HIDE DEF a, b, u, v
    <3>3. b >= 0 /\ v >= 0 /\ b + v - a - u >= 0 /\ (l \notin Shops => b + v - a - u = 0)
      BY <3>1, <3>2
    <3> QED BY <3>3 DEF a, b, u, v
  <2>4. Abstract!Rewrite(s)
    BY <2>2, <2>3 DEF Abstract!Rewrite, Totals
  <2> QED BY <2>4 DEF Abstract!Next
<1>7. CASE g = h
  <2>1. Totals' = Totals
    BY <1>5, <1>7 DEF Totals
  <2>2. CASE Grown(d, e)
    <3>1. \A l \in Locations : OnHand'[l] >= OnHand[l]
      BY <1>2, <1>3, <2>2 DEF Grown
    <3> QED BY <2>1, <3>1 DEF Abstract!Next, Abstract!Arrive, Totals
  <2>3. CASE Fewer(d, e)
    <3>1. \A l \in Locations : OnHand'[l] \in 0..OnHand[l]
      BY <1>2, <1>3, <2>3 DEF Fewer
    <3> QED BY <2>1, <3>1 DEF Abstract!Next, Abstract!Leave, Totals
  <2>4. CASE Carried(d, e)
    <3>1. PICK from \in Locations, to \in Locations : \E n \in 1..OnShelf(d, from) :
              /\ from # to
              /\ OnShelf(e, from) = OnShelf(d, from) - n
              /\ OnShelf(e, to) = OnShelf(d, to) + n
              /\ \A l \in Locations \ {from, to} : OnShelf(e, l) = OnShelf(d, l)
      BY <2>4 DEF Carried
    <3>2. PICK n \in 1..OnShelf(d, from) :
              /\ from # to
              /\ OnShelf(e, from) = OnShelf(d, from) - n
              /\ OnShelf(e, to) = OnShelf(d, to) + n
              /\ \A l \in Locations \ {from, to} : OnShelf(e, l) = OnShelf(d, l)
      BY <3>1
    <3>3. /\ OnHand'[from] = OnHand[from] - n /\ OnHand'[to] = OnHand[to] + n
          /\ \A l \in Locations \ {from, to} : OnHand'[l] = OnHand[l]
          /\ n \in 1..OnHand[from]
      BY <1>2, <1>3, <3>2
    <3>4. OnHand' = [OnHand EXCEPT ![from] = @ - n, ![to] = @ + n]
      <4> DEFINE f == OnHand
                 k == OnHand'
                 r == [f EXCEPT ![from] = @ - n, ![to] = @ + n]
      <4>1. f = [l \in Locations |-> f[l]] /\ k = [l \in Locations |-> k[l]]
        BY <1>4
      <4> HIDE DEF f, k
      <4>2. \A l \in Locations : r[l] = k[l]
        BY <3>2, <3>3, <4>1 DEF f, k
      <4>3. r = [l \in Locations |-> r[l]]
        BY <4>1
      <4> HIDE DEF r
      <4>4. k = r
        BY <4>1, <4>2, <4>3
      <4> QED BY <4>4 DEF f, k, r
    <3> QED BY <2>1, <3>2, <3>3, <3>4 DEF Abstract!Next, Abstract!Carry, Totals
  <2> QED BY <1>7, <1>8, <2>2, <2>3, <2>4 DEF Shifts
<1> QED BY <1>7, <1>8 DEF Shifts

(* The refinement: layers, splits, receipts and tabs together implement    *)
(* Shelves. No operation makes or loses a unit between the shelves and the *)
(* orders.                                                                 *)
THEOREM StockKeepsItsShelves == Spec => ShelvesSpec
<1>1. Init => Abstract!Init
  <2> SUFFICES ASSUME Init PROVE Abstract!Init
    OBVIOUS
  <2>1. \A s \in Sales, l \in Locations : GivenBack(held[s], l) = 0
    BY NothingMoved DEF Init
  <2>2. \A l \in Locations : OnHand[l] = 0
    <3>1. StockInv
      BY InvAtInit
    <3> TAKE l \in Locations
    <3>2. \A i \in Lots : ShareAt(db, l)[i] = 0
      BY DEF Init, EmptyDb, ShareAt, NoLot
    <3>3. OnShelf(db, l) = 0
      BY <3>2, LotsFinite, SumZero DEF OnShelf
    <3> QED BY <3>1, <3>3, InvParts, OnHandIsOnShelf
  <2>3. OnHand = [l \in Locations |-> 0]
    BY <2>2 DEF OnHand
  <2> QED BY <2>1, <2>3 DEF Abstract!Init
<1>2. StockInv /\ StockInv' /\ [Next]_vars => [Abstract!Next]_<<OnHand, Totals>>
  <2> SUFFICES ASSUME StockInv, StockInv', [Next]_vars
               PROVE  Abstract!Next \/ UNCHANGED <<OnHand, Totals>>
    OBVIOUS
  <2>1. CASE Next
    BY <2>1, NextKeeps, ShiftsAreSteps DEF Kept
  <2>2. CASE UNCHANGED vars
    BY <2>2 DEF vars, OnHand, Remaining, OpenAt, Totals, GivenBack
  <2> QED BY <2>1, <2>2
<1> QED BY <1>1, <1>2, InvHolds, PTL DEF Spec, ShelvesSpec, Abstract!Spec, Totals

-----------------------------------------------------------------------------
(* An order given back: setInvoiceStatus                                   *)

(* A database is its tables.                                               *)
LEMMA SameDatabase ==
    ASSUME NEW d \in Databases, NEW e \in Databases,
           d.lots = e.lots, d.stock = e.stock, d.receipts = e.receipts,
           d.checked = e.checked, d.scans = e.scans, d.next = e.next
    PROVE  d = e
BY DEF Databases

(* What releaseInvoiceStock leaves in each table.                          *)
LEMMA ReleasedParts ==
    ASSUME NEW d \in Databases, NEW moves \in Seq(Moves), NEW e, e = Released(d, moves)
    PROVE  /\ e \in Databases
           /\ e.lots = [i \in Lots |-> [d.lots[i] EXCEPT !.remaining = @ + Returned(moves)[i]]]
           /\ e.stock = [l \in Locations |-> d.stock[l] + GivenBack(moves, l)]
           /\ e.receipts = d.receipts /\ e.checked = d.checked /\ e.scans = d.scans /\ e.next = d.next
<1> DEFINE lots == [i \in Lots |-> [d.lots[i] EXCEPT !.remaining = @ + Returned(moves)[i]]]
           stock == [l \in Locations |-> d.stock[l] + GivenBack(moves, l)]
           a == [d EXCEPT !.lots = lots]
<1>1. lots \in [Lots -> LotRows]
  <2>1. d.lots \in [Lots -> LotRows] /\ Returned(moves) \in Slices
    BY DbParts, ReturnedParts
  <2>2. ASSUME NEW i \in Lots PROVE [d.lots[i] EXCEPT !.remaining = @ + Returned(moves)[i]] \in LotRows
    <3> DEFINE row == d.lots[i]
               r == Returned(moves)[i]
    <3>1. row \in LotRows /\ r \in Nat
      BY <2>1 DEF Slices
    <3> HIDE DEF row, r
    <3>2. [row EXCEPT !.remaining = @ + r] \in LotRows
      BY <3>1 DEF LotRows
    <3> QED BY <3>2 DEF row, r
  <2> QED BY <2>2
<1>2. stock \in [Locations -> Int]
  <2>1. \A l \in Locations : d.stock[l] \in Int /\ GivenBack(moves, l) \in Nat
    BY DbParts, ReturnedParts
  <2> QED BY <2>1
<1>3. e = [a EXCEPT !.stock = stock]
  BY DEF Released, Restored, Databases
<1> HIDE DEF lots, stock, a
<1>4. /\ a \in Databases /\ a.lots = lots /\ a.stock = d.stock
      /\ a.receipts = d.receipts /\ a.checked = d.checked /\ a.scans = d.scans /\ a.next = d.next
  BY <1>1 DEF a, Databases
<1>5. /\ e \in Databases /\ e.lots = lots /\ e.stock = stock
      /\ e.receipts = d.receipts /\ e.checked = d.checked /\ e.scans = d.scans /\ e.next = d.next
  BY <1>2, <1>3, <1>4 DEF Databases
<1> QED BY <1>5 DEF lots, stock

(* It leaves a database, and opens no layer.                               *)
LEMMA ReleaseStays ==
    ASSUME NEW d \in Databases, NEW moves \in Seq(Moves)
    PROVE  Released(d, moves) \in Databases /\ Released(d, moves).next = d.next
<1> DEFINE x == Released(d, moves)
<1> HIDE DEF x
<1>1. x \in Databases /\ x.next = d.next
  BY ReleasedParts DEF x
<1> QED BY <1>1 DEF x

(* Giving back nothing changes nothing.                                    *)
LEMMA NothingReleased ==
    ASSUME NEW d \in Databases
    PROVE  Released(d, <<>>) = d
<1> DEFINE e == Released(d, <<>>)
           none == <<>>
<1>1. none \in Seq(Moves) /\ (\A i \in Lots : Returned(none)[i] = 0) /\ (\A l : GivenBack(none, l) = 0)
  BY NothingMoved
<1>2. /\ d.lots \in [Lots -> LotRows] /\ d.stock \in [Locations -> Int]
  BY DbParts
<1> HIDE DEF none
<1> DEFINE f == Released(d, none)
<1>3. /\ f \in Databases
      /\ f.lots = [i \in Lots |-> [d.lots[i] EXCEPT !.remaining = @ + Returned(none)[i]]]
      /\ f.stock = [l \in Locations |-> d.stock[l] + GivenBack(none, l)]
      /\ f.receipts = d.receipts /\ f.checked = d.checked /\ f.scans = d.scans /\ f.next = d.next
  <2> HIDE DEF f
  <2> QED BY <1>1, ReleasedParts DEF f
<1> HIDE DEF f
<1>4. f.lots = d.lots
  <2>1. ASSUME NEW i \in Lots PROVE [d.lots[i] EXCEPT !.remaining = @ + Returned(none)[i]] = d.lots[i]
    <3> DEFINE row == d.lots[i]
    <3>1. row \in LotRows /\ Returned(none)[i] = 0
      BY <1>1, <1>2
    <3> HIDE DEF row
    <3>2. [row EXCEPT !.remaining = @ + 0] = row
      BY <3>1 DEF LotRows
    <3> QED BY <3>1, <3>2 DEF row
  <2> QED BY <1>2, <1>3, <2>1
<1>5. f.stock = d.stock
  <2>1. \A l \in Locations : d.stock[l] + GivenBack(none, l) = d.stock[l]
    BY <1>1, <1>2
  <2> QED BY <1>2, <1>3, <2>1
<1>6. f = d
  BY <1>3, <1>4, <1>5, SameDatabase
<1> QED BY <1>6 DEF f, none

(* Giving back the last take undoes it. *)
LEMMA TakenIsReleased ==
    ASSUME NEW d, NEW h, NEW s, NEW l, NEW n, NEW slices, NEW m, NEW e, NEW g,
           TakesFor(d, h, s, l, n, slices, m, e, g)
    PROVE  Released(e, Append(h[s], m)) = Released(d, h[s])
<1>0. /\ Fit(d, h) /\ s \in Sales /\ l \in Locations /\ n \in Nat /\ slices \in Slices
      /\ m = [location |-> l, quantity |-> n, slices |-> slices]
      /\ e = Consumed(Bump(d, l, -n), slices)
      /\ \A i \in Lots : slices[i] > 0 => slices[i] <= d.lots[i].remaining
  BY DEF TakesFor
<1> DEFINE moves == h[s]
           more == Append(moves, m)
           x == Released(d, moves)
           y == Released(e, more)
<1>1. d \in Databases /\ moves \in Seq(Moves) /\ m \in Moves /\ m.location = l /\ m.quantity = n /\ m.slices = slices
  BY <1>0 DEF Fit, Sound, Layers, Orders, Moves
<1> HIDE DEF moves
<1>2. more \in Seq(Moves) /\ \A i \in Lots : Returned(more)[i] = Returned(moves)[i] + slices[i]
  BY <1>1, AppendMove
<1>3. /\ e \in Databases
      /\ e.receipts = d.receipts /\ e.checked = d.checked /\ e.scans = d.scans /\ e.next = d.next
      /\ e.lots = [i \in Lots |-> [d.lots[i] EXCEPT !.remaining = @ - slices[i]]]
      /\ e.stock = [d.stock EXCEPT ![l] = @ + (-n)]
  <2>1. e \in Databases
    <3>1. Fit(e, g)
      BY TakenFits
    <3> QED BY <3>1 DEF Fit, Sound, Layers
  <2>2. Bump(d, l, -n) \in Databases /\ Bump(d, l, -n).lots = d.lots /\ Bump(d, l, -n).stock = [d.stock EXCEPT ![l] = @ + (-n)]
        /\ Bump(d, l, -n).receipts = d.receipts /\ Bump(d, l, -n).checked = d.checked
        /\ Bump(d, l, -n).scans = d.scans /\ Bump(d, l, -n).next = d.next
    <3> DEFINE stock == [d.stock EXCEPT ![l] = @ + (-n)]
    <3>1. d.stock \in [Locations -> Int] /\ d.stock[l] \in Int
      BY <1>0, <1>1, DbParts
    <3>2. stock \in [Locations -> Int] /\ Bump(d, l, -n) = [d EXCEPT !.stock = stock]
      BY <1>0, <3>1 DEF Bump
    <3> HIDE DEF stock
    <3>3. LET b == [d EXCEPT !.stock = stock]
          IN  /\ b \in Databases /\ b.lots = d.lots /\ b.stock = stock
              /\ b.receipts = d.receipts /\ b.checked = d.checked /\ b.scans = d.scans /\ b.next = d.next
      BY <1>1, <3>2 DEF Databases
    <3> QED BY <3>2, <3>3 DEF stock
  <2> QED BY <1>0, <2>1, <2>2 DEF Consumed, Databases
<1>4. /\ x \in Databases
      /\ x.lots = [i \in Lots |-> [d.lots[i] EXCEPT !.remaining = @ + Returned(moves)[i]]]
      /\ x.stock = [q \in Locations |-> d.stock[q] + GivenBack(moves, q)]
      /\ x.receipts = d.receipts /\ x.checked = d.checked /\ x.scans = d.scans /\ x.next = d.next
  <2> HIDE DEF x
  <2> QED BY <1>1, ReleasedParts DEF x
<1> HIDE DEF more
<1>5. /\ y \in Databases
      /\ y.lots = [i \in Lots |-> [e.lots[i] EXCEPT !.remaining = @ + Returned(more)[i]]]
      /\ y.stock = [q \in Locations |-> e.stock[q] + GivenBack(more, q)]
      /\ y.receipts = e.receipts /\ y.checked = e.checked /\ y.scans = e.scans /\ y.next = e.next
  <2>1. more \in Seq(Moves) /\ e \in Databases /\ y = Released(e, more)
    BY <1>2, <1>3
  <2> HIDE DEF y
  <2> HIDE <1>0, <1>1, <1>2, <1>3, <1>4
  <2> QED BY <2>1, ReleasedParts
<1> HIDE DEF x, y
<1>6. \A i \in Lots : d.lots[i] \in LotRows /\ slices[i] \in Nat /\ Returned(moves)[i] \in Nat
  <2>1. d.lots \in [Lots -> LotRows] /\ Returned(moves) \in Slices
    BY <1>1, DbParts, ReturnedParts
  <2> QED BY <1>0, <2>1 DEF Slices
<1>7. ASSUME NEW i \in Lots
      PROVE  [e.lots[i] EXCEPT !.remaining = @ + Returned(more)[i]] = [d.lots[i] EXCEPT !.remaining = @ + Returned(moves)[i]]
  <2> DEFINE row == d.lots[i]
             r == Returned(moves)[i]
             t == slices[i]
  <2>1. row \in LotRows /\ r \in Nat /\ t \in Nat /\ row.remaining \in Nat
    BY <1>6 DEF LotRows
  <2>2. e.lots[i] = [row EXCEPT !.remaining = @ - t] /\ Returned(more)[i] = r + t
    BY <1>2, <1>3
  <2> HIDE DEF row, r, t
  <2>3. [[row EXCEPT !.remaining = @ - t] EXCEPT !.remaining = @ + (r + t)] = [row EXCEPT !.remaining = @ + r]
    <3>1. (row.remaining - t) + (r + t) = row.remaining + r
      BY <2>1
    <3> QED BY <2>1, <3>1 DEF LotRows
  <2> QED BY <2>2, <2>3 DEF row, r
<1>8. x.lots = y.lots
  BY <1>4, <1>5, <1>7
<1>9. ASSUME NEW q \in Locations PROVE e.stock[q] + GivenBack(more, q) = d.stock[q] + GivenBack(moves, q)
  <2>1. d.stock \in [Locations -> Int] /\ d.stock[q] \in Int /\ GivenBack(moves, q) \in Nat
    BY <1>1, DbParts, ReturnedParts
  <2>2. CASE q = l
    <3>1. e.stock[q] = d.stock[q] + (-n)
      BY <1>0, <1>3, <2>1, <2>2
    <3>2. GivenBack(more, q) = GivenBack(moves, q) + n
      BY <1>1, <2>2, AppendGivesBack DEF more
    <3> QED BY <1>0, <2>1, <3>1, <3>2
  <2>3. CASE q # l
    <3>1. e.stock[q] = d.stock[q]
      BY <1>0, <1>3, <2>1, <2>3
    <3>2. GivenBack(more, q) = GivenBack(moves, q)
      BY <1>1, <2>3, AppendGivesBack DEF more
    <3> QED BY <2>1, <3>1, <3>2
  <2> QED BY <2>2, <2>3
<1>10. x.stock = y.stock
  BY <1>4, <1>5, <1>9
<1>11. x = y
  <2>1. /\ x \in Databases /\ y \in Databases
        /\ x.receipts = y.receipts /\ x.checked = y.checked /\ x.scans = y.scans /\ x.next = y.next
    BY <1>3, <1>4, <1>5
  <2> QED BY <1>8, <1>10, <2>1, SameDatabase
<1> QED BY <1>11 DEF x, y, moves, more

-----------------------------------------------------------------------------
(* The oldest units first: takeFifo over a cart                            *)

(* More layers have more left.                                             *)
LEMMA MoreRemains ==
    ASSUME NEW d \in Databases, NEW S \in SUBSET Lots, NEW T \in SUBSET S
    PROVE  Remaining(d, T) <= Remaining(d, S)
<1> DEFINE f == [i \in Lots |-> d.lots[i].remaining]
           g == [i \in Lots |-> IF i \in T THEN f[i] ELSE 0]
<1>1. IsFiniteSet(S) /\ IsFiniteSet(T)
  BY RemainingIsNat
<1>2. \A i \in Lots : f[i] \in Nat
  BY DbParts
<1>3. \A i \in Lots : g[i] \in Int /\ f[i] \in Int /\ g[i] <= f[i] /\ g[i] = IF i \in T THEN f[i] ELSE 0
  BY <1>2
<1>4. Remaining(d, T) = SumFunctionOnSet(f, T) /\ Remaining(d, S) = SumFunctionOnSet(f, S)
  BY DEF Remaining
<1> HIDE DEF f, g
<1>5. SumFunctionOnSet(g, S) <= SumFunctionOnSet(f, S)
  BY <1>1, <1>3, SumOrder
<1>6. SumFunctionOnSet(g, S) = SumFunctionOnSet(g, T)
  BY <1>1, <1>3, SumWithin
<1>7. SumFunctionOnSet(f, T) = SumFunctionOnSet(g, T)
  BY <1>1, <1>3, SumSame
<1> QED BY <1>4, <1>5, <1>6, <1>7

(* Nothing is left of a layer older than one that units were taken from. *)
LEMMA FifoOldest ==
    ASSUME NEW d \in Databases, NEW S \in SUBSET Lots, NEW n \in Nat, NEW i \in S, NEW j \in S,
           Fifo(d, S, n)[i] > 0, Fifo(d, S, n)[j] < d.lots[j].remaining
    PROVE  d.lots[i].since <= d.lots[j].since
<1> DEFINE Ahead(k) == {m \in S : Older(d, m, k)}
           b(k) == Remaining(d, Ahead(k))
<1>1. ASSUME NEW k \in S
      PROVE  /\ Ahead(k) \in SUBSET Lots /\ b(k) \in Nat /\ d.lots[k].remaining \in Nat
             /\ d.lots[k].since \in Nat /\ k \in Nat
             /\ Fifo(d, S, n)[k] = IF b(k) >= n THEN 0
                                   ELSE IF n - b(k) < d.lots[k].remaining THEN n - b(k)
                                   ELSE d.lots[k].remaining
  <2>1. Ahead(k) \in SUBSET Lots /\ k \in Lots
    OBVIOUS
  <2>2. b(k) \in Nat
    BY <2>1, RemainingIsNat
  <2>3. d.lots[k].remaining \in Nat /\ d.lots[k].since \in Nat /\ k \in Nat
    BY <2>1, DbParts, LotsFinite
  <2> QED BY <2>1, <2>2, <2>3 DEF Fifo
<1> SUFFICES ASSUME Older(d, j, i) PROVE FALSE
  <2>1. ~Older(d, j, i) => d.lots[i].since <= d.lots[j].since
    <3>1. d.lots[i].since \in Nat /\ d.lots[j].since \in Nat
      BY <1>1
    <3> QED BY <3>1 DEF Older
  <2> QED BY <2>1
<1> DEFINE U == Ahead(i)
           V == Ahead(j)
<1>2. V \in SUBSET (U \ {j}) /\ j \in U /\ U \in SUBSET Lots /\ U \ {j} \in SUBSET Lots
  <2>1. \A m \in V : m \in U /\ m # j
    <3> TAKE m \in V
    <3>1. m \in Lots /\ i \in Lots /\ j \in Lots /\ Older(d, m, j)
      OBVIOUS
    <3> QED BY <3>1, OlderIsAnOrder
  <2> QED BY <2>1
<1>3. b(i) = Remaining(d, U) /\ b(j) = Remaining(d, V)
  OBVIOUS
<1> HIDE DEF U, V
<1>4. Remaining(d, U) = d.lots[j].remaining + Remaining(d, U \ {j}) /\ Remaining(d, U \ {j}) \in Nat
  BY <1>2, RemainingIsNat
<1>5. Remaining(d, V) <= Remaining(d, U \ {j})
  BY <1>2, MoreRemains
<1>6. b(j) + d.lots[j].remaining <= b(i) /\ b(i) \in Nat /\ b(j) \in Nat /\ d.lots[j].remaining \in Nat
  BY <1>1, <1>3, <1>4, <1>5
<1>7. ~(b(i) >= n)
  <2> HIDE DEF b
  <2> QED BY <1>1
<1>8. b(j) + d.lots[j].remaining > n
  <2>1. /\ Fifo(d, S, n)[j] = IF b(j) >= n THEN 0
                              ELSE IF n - b(j) < d.lots[j].remaining THEN n - b(j)
                              ELSE d.lots[j].remaining
        /\ b(j) \in Nat /\ d.lots[j].remaining \in Nat
    BY <1>1
  <2>2. Fifo(d, S, n)[j] < d.lots[j].remaining
    OBVIOUS
  <2> HIDE DEF b
  <2> QED BY <2>1, <2>2
<1> HIDE DEF b
<1> QED BY <1>6, <1>7, <1>8

(* No unit on a move's shelf arrived before one the move took. *)
TakenInTurn(d, moves) ==
    \A k \in DOMAIN moves : \A i, j \in Lots :
        moves[k].slices[i] > 0 /\ j \in OpenAt(d, moves[k].location)
            => d.lots[i].since <= d.lots[j].since

(* Units that come later are not older, so an arrival leaves the order of  *)
(* what was taken as it is.                                                *)
LEMMA ArrivalLeavesTurn ==
    ASSUME NEW d, NEW e, NEW l, NEW n, NEW doc, NEW scan, Arriving(d, e, l, n, doc, scan),
           NEW moves \in Seq(Moves), OnOwnShelf(d, moves), TakenInTurn(d, moves)
    PROVE  TakenInTurn(e, moves)
<1> DEFINE q == d.next
<1>1. /\ Sound(d) /\ d \in Databases /\ q \in Lots /\ q \in Nat
      /\ e.lots = [d.lots EXCEPT ![q] = [location |-> l, received |-> n, remaining |-> n, since |-> q]]
      /\ ~Exists(d, q)
  <2>1. Sound(d) /\ HasRoom(d, 1)
    BY DEF Arriving
  <2> QED BY <2>1, NextIsFree, LotsFinite DEF Arriving, Arrives
<1>2. \A i \in Lots : e.lots[i] = IF i = q THEN [location |-> l, received |-> n, remaining |-> n, since |-> q]
                                  ELSE d.lots[i]
  BY <1>1, DbParts
<1> SUFFICES ASSUME NEW k \in DOMAIN moves, NEW i \in Lots, NEW j \in Lots,
                    moves[k].slices[i] > 0, j \in OpenAt(e, moves[k].location)
             PROVE  e.lots[i].since <= e.lots[j].since
  BY DEF TakenInTurn
<1>3. Exists(d, i) /\ i # q
  BY <1>1 DEF OnOwnShelf
<1>4. e.lots[i].since = d.lots[i].since /\ d.lots[i].since \in Nat /\ d.lots[i].since < q
  BY <1>1, <1>2, <1>3, DbParts DEF Sound, Layers
<1>5. CASE j = q
  BY <1>1, <1>2, <1>4, <1>5
<1>6. CASE j # q
  <2>1. e.lots[j] = d.lots[j]
    BY <1>2, <1>6
  <2>2. j \in OpenAt(d, moves[k].location)
    BY <2>1 DEF OpenAt
  <2> QED BY <1>4, <2>1, <2>2 DEF TakenInTurn
<1> QED BY <1>5, <1>6

(* A line that may take of any layer leaves no older unit behind, neither  *)
(* itself nor for the lines before it.                                     *)
LEMMA TakeIsInTurn ==
    ASSUME NEW d, NEW h, NEW s, NEW l, NEW n, NEW slices, NEW m, NEW e, NEW g,
           TakesFor(d, h, s, l, n, slices, m, e, g), slices = Fifo(d, OpenAt(d, l), n),
           TakenInTurn(d, h[s])
    PROVE  TakenInTurn(e, Append(h[s], m))
<1>0. /\ Fit(d, h) /\ s \in Sales /\ l \in Locations /\ n \in Nat /\ slices \in Slices
      /\ m = [location |-> l, quantity |-> n, slices |-> slices]
      /\ e = Consumed(Bump(d, l, -n), slices)
      /\ \A i \in Lots : slices[i] > 0 => i \in OpenAt(d, l) /\ slices[i] <= d.lots[i].remaining
  BY DEF TakesFor
<1> DEFINE moves == h[s]
           more == Append(moves, m)
           S == OpenAt(d, l)
<1>1. d \in Databases /\ moves \in Seq(Moves) /\ m \in Moves /\ m.location = l /\ m.slices = slices
  BY <1>0 DEF Fit, Sound, Layers, Orders, Moves
<1>2. \A i \in Lots : /\ e.lots[i].since = d.lots[i].since /\ e.lots[i].location = d.lots[i].location
                      /\ e.lots[i].remaining = d.lots[i].remaining - slices[i]
                      /\ d.lots[i].remaining \in Nat /\ slices[i] \in Nat
                      /\ d.lots[i].since \in Nat
  <2>1. Bump(d, l, -n).lots = d.lots
    BY <1>1 DEF Bump, Databases
  <2>2. e.lots = [i \in Lots |-> [d.lots[i] EXCEPT !.remaining = @ - slices[i]]]
    <3> DEFINE b == Bump(d, l, -n)
    <3>1. b.lots = d.lots /\ e = Consumed(b, slices) /\ b = [d EXCEPT !.stock[l] = @ + (-n)]
      BY <1>0, <2>1 DEF Bump
    <3>2. DOMAIN b = DOMAIN d /\ "lots" \in DOMAIN b
      BY <1>1, <3>1 DEF Databases
    <3> HIDE DEF b
    <3> QED BY <3>1, <3>2 DEF Consumed
  <2>3. \A i \in Lots : d.lots[i] \in LotRows /\ slices[i] \in Nat
    BY <1>0, <1>1, DbParts DEF Slices
  <2> QED BY <2>2, <2>3 DEF LotRows
<1>3. \A q : \A j \in OpenAt(e, q) : j \in OpenAt(d, q) /\ slices[j] < d.lots[j].remaining
  BY <1>2 DEF OpenAt
<1>4. \A k \in DOMAIN more : (k \in DOMAIN moves /\ more[k] = moves[k]) \/ more[k] = m
  <2> HIDE DEF moves
  <2> QED BY <1>1, AppendMove
<1> SUFFICES ASSUME NEW k \in DOMAIN more, NEW i \in Lots, NEW j \in Lots,
                    more[k].slices[i] > 0, j \in OpenAt(e, more[k].location)
             PROVE  e.lots[i].since <= e.lots[j].since
  BY DEF TakenInTurn
<1> HIDE DEF more, moves
<1>5. CASE k \in DOMAIN moves /\ more[k] = moves[k]
  BY <1>2, <1>3, <1>5 DEF TakenInTurn, moves
<1>6. CASE more[k] = m
  <2>1. S \in SUBSET Lots /\ i \in S /\ j \in S /\ slices[i] > 0 /\ slices[j] < d.lots[j].remaining /\ slices = Fifo(d, S, n)
    BY <1>0, <1>1, <1>3, <1>6 DEF OpenAt
  <2> HIDE DEF S
  <2>2. d.lots[i].since <= d.lots[j].since
    BY <1>0, <1>1, <2>1, FifoOldest
  <2> QED BY <1>2, <2>2
<1> QED BY <1>4, <1>5, <1>6

(* What a walk bought nothing for can be given back whole; and it takes in turn. *)
Tidy(d, moves, acc) ==
    /\ d.next <= acc.db.next
    /\ acc.db.next = d.next => Released(acc.db, acc.moves) = Released(d, moves)

(* What one line of the walk does to both.                                 *)
LEMMA StepParts ==
    ASSUME NEW h \in Orders, NEW s \in Sales, NEW acc, NEW line, NEW e, Stepped(h, s, acc, line, e),
           Fit(acc.db, [h EXCEPT ![s] = acc.moves])
    PROVE  /\ acc.db.next \in Nat /\ e.db.next \in Nat
           /\ acc.db.next <= e.db.next
           /\ e.db.next = acc.db.next => Released(e.db, e.moves) = Released(acc.db, acc.moves)
           /\ line.source = NoPo /\ TakenInTurn(acc.db, acc.moves) => TakenInTurn(e.db, e.moves)
<1>0. PICK d \in Databases, short \in Nat, n \in Nat :
          /\ Fit(d, [h EXCEPT ![s] = acc.moves])
          /\ Buys(acc, line, d, short)
          /\ Takes(h, s, acc, line, d, n, e)
  BY DEF Stepped
<1> DEFINE a == acc.moves
           x == acc.db
           l == line.location
           g == [h EXCEPT ![s] = a]
<1>1. x \in Databases /\ a \in Seq(Moves) /\ g \in Orders /\ g[s] = a
  <2>1. g[s] = a
    BY DEF Orders
  <2> QED BY <2>1, FitParts
<1>2. x.next \in Nat /\ d.next \in Nat /\ x.next <= d.next /\ (d.next = x.next => d = x)
  <2>0. x.next \in Nat /\ d.next \in Nat
    BY <1>1, DbParts
  <2>1. CASE short = 0
    <3>1. d = x
      BY <1>0, <2>1 DEF Buys
    <3> QED BY <2>0, <3>1
  <2>2. CASE short # 0
    <3>1. d.next = x.next + 1
      BY <1>0, <2>2 DEF Buys, Arriving, Arrives
    <3> HIDE DEF x
    <3> QED BY <2>0, <3>1
  <2> QED BY <2>1, <2>2
<1>3. TakenInTurn(x, a) => TakenInTurn(d, a)
  <2>1. CASE short = 0
    BY <1>0, <2>1 DEF Buys
  <2>2. CASE short # 0
    <3>1. Arriving(x, d, l, short, l, NoScan)
      BY <1>0, <2>2 DEF Buys
    <3>2. OnOwnShelf(x, a)
      <4>1. OnOwnShelf(x, g[s])
        BY DEF Fit
      <4> QED BY <1>1, <4>1
    <3> HIDE DEF x, a, l, g
    <3> QED BY <1>1, <3>1, <3>2, ArrivalLeavesTurn
  <2> QED BY <2>1, <2>2
<1>4. CASE n = 0
  <2>1. e.db = d /\ e.moves = a
    BY <1>0, <1>4 DEF Takes
  <2> HIDE DEF x, a, l, g
  <2> QED BY <1>2, <1>3, <2>1 DEF x, a
<1>5. CASE n # 0
  <2> DEFINE f == [h EXCEPT ![s] = e.moves]
             y == e.db
             slices == Fifo(d, Giving(d, line), n)
  <2>1. PICK m : TakesFor(d, g, s, l, n, slices, m, y, f) /\ e.moves = Append(a, m)
    BY <1>0, <1>5 DEF Takes
  <2>s. line.source = NoPo => Giving(d, line) = OpenAt(d, l)
    BY DEF Giving
  <2>t. line.source = NoPo => slices = Fifo(d, OpenAt(d, l), n)
    BY <2>s
  <2> HIDE DEF f, y, l, slices, a, g, x
  <2>2. Released(y, Append(g[s], m)) = Released(d, g[s])
    BY <2>1, TakenIsReleased
  <2>3. y.next = d.next
    BY <2>1, TakenFits
  <2>4. line.source = NoPo /\ TakenInTurn(d, g[s]) => TakenInTurn(y, Append(g[s], m))
    BY <2>1, <2>t, TakeIsInTurn
  <2>5. Released(y, e.moves) = Released(d, a) /\ (line.source = NoPo /\ TakenInTurn(d, a) => TakenInTurn(y, e.moves))
    BY <1>1, <2>1, <2>2, <2>4
  <2>6. /\ x.next \in Nat /\ y.next \in Nat /\ x.next <= y.next
        /\ y.next = x.next => Released(y, e.moves) = Released(x, a)
        /\ line.source = NoPo /\ TakenInTurn(x, a) => TakenInTurn(y, e.moves)
    BY <1>2, <1>3, <2>3, <2>5
  <2> QED BY <2>6 DEF x, y, a
<1> QED BY <1>4, <1>5

(* What the whole walk does to both.                                       *)
LEMMA SavedIsTidy ==
    ASSUME NEW d, NEW h, Fit(d, h), NEW s \in Sales, NEW cart \in Seq(Lines),
           NEW saved, saved = Saved(d, h[s], cart), saved.ok
    PROVE  /\ Tidy(d, h[s], saved)
           /\ (\A k \in DOMAIN cart : cart[k].source = NoPo) => TakenInTurn(saved.db, saved.moves)
<1> DEFINE D == DOMAIN cart
           plain == \A k \in DOMAIN cart : cart[k].source = NoPo
           moves == h[s]
           Good(acc) == Tidy(d, moves, acc) /\ (plain => TakenInTurn(acc.db, acc.moves))
<1>1. h \in Orders /\ moves \in Seq(Moves) /\ d \in Databases
  BY DEF Fit, Orders, Sound, Layers
<1>2. PICK it : Walks(it, d, h[s], cart)
  BY SavedWalks
<1>3. saved = it[D]
  BY <1>2 DEF Walks
<1>4. /\ \A t \in SUBSET D : Going(h, s, d, it[t])
      /\ \A t \in SUBSET D : t # {} /\ it[t].ok =>
             Max(t) \in t /\ Stepped(h, s, it[t \ {Max(t)}], cart[Max(t)], it[t])
      /\ IsFiniteSet(D)
  BY <1>2, WalkSteps
<1> DEFINE B == {t \in SUBSET D : it[t].ok /\ ~Good(it[t])}
<1>5. Good(it[{}])
  <2> DEFINE x == Released(d, moves)
             none == <<>>
             acc == it[{}]
  <2>1. acc.db = x /\ acc.moves = none
    BY <1>2 DEF Walks, FreshAcc
  <2>2. x \in Databases /\ x.next = d.next /\ d.next \in Nat
    <3>1. d.next \in Nat
      BY <1>1, DbParts
    <3> HIDE DEF moves
    <3>2. x \in Databases /\ x.next = d.next
      BY <1>1, ReleaseStays
    <3> HIDE DEF x
    <3> QED BY <3>1, <3>2
  <2>3. Released(x, none) = x
    BY <2>2, NothingReleased
  <2>4. TakenInTurn(x, none)
    BY DEF TakenInTurn
  <2> HIDE DEF x, none, acc, moves
  <2>5. Tidy(d, moves, acc)
    <3>1. d.next <= acc.db.next
      BY <2>1, <2>2
    <3>2. Released(acc.db, acc.moves) = Released(d, moves)
      BY <2>1, <2>3 DEF x
    <3> QED BY <3>1, <3>2 DEF Tidy
  <2>6. TakenInTurn(acc.db, acc.moves)
    BY <2>1, <2>4
  <2> QED BY <2>5, <2>6 DEF acc
<1>6. ASSUME NEW t \in B, \A k \in t : t \ {k} \notin B PROVE FALSE
  <2>1. t \in SUBSET D /\ it[t].ok /\ ~Good(it[t]) /\ t # {}
    BY <1>5, <1>6
  <2>2. PICK k \in t : Stepped(h, s, it[t \ {k}], cart[k], it[t])
    BY <1>4, <2>1
  <2> DEFINE acc == it[t \ {k}]
             e == it[t]
             line == cart[k]
  <2>3. t \ {k} \in SUBSET D /\ k \in D
    BY <2>1
  <2>4. Stepped(h, s, acc, line, e) /\ acc.ok /\ Going(h, s, d, acc)
    <3>1. acc.ok
      BY <2>2 DEF Stepped
    <3> QED BY <1>4, <2>2, <2>3, <3>1
  <2>5. Good(acc)
    <3>1. t \ {k} \notin B
      BY <1>6
    <3> QED BY <2>3, <2>4, <3>1
  <2>6. plain => line.source = NoPo
    BY <2>3
  <2> HIDE DEF acc, e, line, B, plain
  <2>7. Fit(acc.db, [h EXCEPT ![s] = acc.moves])
    BY <2>4 DEF Going
  <2>8. /\ acc.db.next \in Nat /\ e.db.next \in Nat
        /\ acc.db.next <= e.db.next
        /\ e.db.next = acc.db.next => Released(e.db, e.moves) = Released(acc.db, acc.moves)
        /\ line.source = NoPo /\ TakenInTurn(acc.db, acc.moves) => TakenInTurn(e.db, e.moves)
    BY <1>1, <2>4, <2>7, StepParts
  <2>9. d.next \in Nat
    BY <1>1, DbParts
  <2>10. Tidy(d, moves, e)
    <3> DEFINE i == d.next
               j == acc.db.next
               o == e.db.next
    <3>1. i \in Nat /\ j \in Nat /\ o \in Nat /\ i <= j /\ j <= o
      BY <2>5, <2>8, <2>9 DEF Tidy
    <3>2. o = i => o = j /\ j = i
      <4> HIDE DEF i, j, o
      <4> QED BY <3>1
    <3>3. i <= o
      <4> HIDE DEF i, j, o
      <4> QED BY <3>1
    <3>4. o = i => Released(e.db, e.moves) = Released(d, moves)
      BY <2>5, <2>8, <3>2 DEF Tidy
    <3> QED BY <3>3, <3>4 DEF Tidy
  <2>11. Good(e)
    BY <2>5, <2>6, <2>8, <2>10
  <2> QED BY <2>1, <2>11 DEF e
<1>7. B \in SUBSET SUBSET D
  OBVIOUS
<1>8. B = {}
  <2> HIDE DEF B, D
  <2> QED BY <1>4, <1>6, <1>7, SmallestSet
<1>9. Good(saved)
  <2>1. D \in SUBSET D /\ it[D].ok
    BY <1>3
  <2>2. D \notin B
    BY <1>8
  <2>3. Good(it[D])
    BY <2>1, <2>2
  <2> HIDE DEF D, Good
  <2> QED BY <1>3, <2>3
<1> QED BY <1>9

(* setInvoiceStatus: voiding an order that was just written, and bought    *)
(* nothing, restores the tables "as if the order had never been written".  *)
THEOREM VoidingRestores == Spec => AsIfNeverWritten
<1>1. ASSUME StockInv, [Next]_vars, NEW s \in Sales,
             held[s] = <<>>, held'[s] # <<>>, db'.next = db.next
      PROVE  Released(db', held'[s]) = db
  <2> DEFINE d == db
             h == held
             e == db'
             g == held'
  <2>1. h \in Orders /\ d \in Databases /\ Fit(d, h)
    BY <1>1, InvParts DEF StockInv
  <2>2. g # h
    BY <1>1
  <2>3. PICK r \in Sales : \/ g = [h EXCEPT ![r] = <<>>]
                          \/ \E cart \in Carts : SaveOrder(r, cart)
    BY <1>1, <2>2 DEF Next, vars, AddStock, Sell, Receive, BuyAtShop, MoveStock, UndoScan, CancelPo,
                      RemoveTabLine, VoidOrder
  <2>4. ~(g = [h EXCEPT ![r] = <<>>])
    BY <1>1, <2>1 DEF Orders
  <2>5. PICK cart \in Carts : SaveOrder(r, cart)
    BY <2>3, <2>4
  <2> DEFINE saved == Saved(d, h[r], cart)
  <2>6. saved.ok /\ e = saved.db /\ g = [h EXCEPT ![r] = saved.moves]
    BY <2>5 DEF SaveOrder
  <2>7. r = s /\ g[s] = saved.moves
    BY <1>1, <2>1, <2>6 DEF Orders
  <2>8. cart \in Seq(Lines)
    BY StockAssumption
  <2>9. Tidy(d, h[r], saved)
    <3> HIDE DEF saved, d, h
    <3>1. saved = Saved(d, h[r], cart)
      BY DEF saved
    <3> QED BY <2>1, <2>6, <2>8, <3>1, SavedIsTidy
  <2>10. Released(e, g[s]) = Released(d, <<>>)
    BY <1>1, <2>6, <2>7, <2>9 DEF Tidy
  <2> HIDE DEF d, e, g
  <2>11. Released(e, g[s]) = d
    BY <2>1, <2>10, NothingReleased
  <2> QED BY <2>11 DEF d, e, g
<1>2. StockInv /\ [Next]_vars =>
          [\A s \in Sales :
             held[s] = <<>> /\ held'[s] # <<>> /\ db'.next = db.next
                 => Released(db', held'[s]) = db]_vars
  BY <1>1
<1> QED BY <1>2, InvHolds, PTL DEF Spec, AsIfNeverWritten

(* saveInvoice: an order that names no purchase order leaves no unit on    *)
(* its shelves that arrived before one it took, wherever they were in      *)
(* between (relocateLots keeps a layer's place).                           *)
THEOREM OldestTakenFirst == Spec => OldestFirst
<1>1. ASSUME StockInv, NEW s \in Sales, NEW cart \in Carts, SaveOrder(s, cart),
             \A k \in DOMAIN cart : cart[k].source = NoPo,
             NEW m \in ToSet(held'[s]), NEW i \in Lots, NEW j \in Lots,
             m.slices[i] > 0, j \in OpenAt(db', m.location)
      PROVE  db'.lots[i].since <= db'.lots[j].since
  <2> DEFINE d == db
             h == held
             e == db'
             g == held'
             saved == Saved(d, h[s], cart)
  <2>1. h \in Orders /\ d \in Databases /\ Fit(d, h) /\ cart \in Seq(Lines)
    BY <1>1, InvParts, StockAssumption DEF StockInv
  <2>2. saved.ok /\ e = saved.db /\ g = [h EXCEPT ![s] = saved.moves]
    BY <1>1 DEF SaveOrder
  <2>3. g[s] = saved.moves
    BY <2>1, <2>2 DEF Orders
  <2>4. TakenInTurn(saved.db, saved.moves)
    <3>1. saved = Saved(d, h[s], cart)
      OBVIOUS
    <3> HIDE DEF saved, d, h
    <3> QED BY <1>1, <2>1, <2>2, <3>1, SavedIsTidy
  <2>5. TakenInTurn(e, g[s])
    BY <2>2, <2>3, <2>4
  <2>6. PICK k \in DOMAIN g[s] : m = g[s][k]
    BY DEF ToSet
  <2>7. j \in OpenAt(e, m.location)
    BY <1>1
  <2> HIDE DEF e, g
  <2>8. e.lots[i].since <= e.lots[j].since
    BY <1>1, <2>5, <2>6, <2>7 DEF TakenInTurn
  <2> QED BY <2>8 DEF e
<1>2. StockInv =>
          [\A s \in Sales : held'[s] # held[s] => \A cart \in Carts :
             SaveOrder(s, cart) /\ (\A k \in DOMAIN cart : cart[k].source = NoPo) =>
                 \A m \in ToSet(held'[s]), i, j \in Lots :
                     m.slices[i] > 0 /\ j \in OpenAt(db', m.location)
                         => db'.lots[i].since <= db'.lots[j].since]_vars
  BY <1>1
<1> QED BY <1>2, InvHolds, PTL DEF Spec, OldestFirst

-----------------------------------------------------------------------------
(* An order saved again: saveInvoice                                       *)

(* One database is another with more bought (buyShortfallAtShop): what was *)
(* there is untouched, later layers hold later units, only shops count more. *)
Wider(d, e) ==
    /\ d.next <= e.next
    /\ \A i \in Lots : i < d.next =>
           e.lots[i] = d.lots[i] /\ \A doc \in Docs : e.receipts[doc][i] = d.receipts[doc][i]
    /\ \A i \in Lots : i >= d.next => e.lots[i].received = 0 \/ e.lots[i].since >= d.next
    /\ \A l \in Locations : e.stock[l] >= d.stock[l] /\ (l \notin Shops => e.stock[l] = d.stock[l])

(* Buying nothing is buying.                                               *)
LEMMA WiderSelf ==
    ASSUME NEW d, Layers(d)
    PROVE  Wider(d, d)
<1>1. d \in Databases
  BY DEF Layers
<1>2. d.next \in Nat /\ (\A i \in Lots : i \in Nat /\ d.lots[i].received \in Nat)
      /\ (\A q \in Locations : d.stock[q] \in Int)
  BY <1>1, DbParts, LotsFinite
<1>3. ASSUME NEW i \in Lots, i >= d.next PROVE d.lots[i].received = 0
  <2>1. d.lots[i].received > 0 => i < d.next
    BY SoundParts
  <2> QED BY <1>2, <1>3, <2>1
<1> QED BY <1>2, <1>3 DEF Wider

(* Buying twice is buying.                                                 *)
LEMMA WiderInTurn ==
    ASSUME NEW d \in Databases, NEW x \in Databases, NEW e \in Databases, Wider(d, x), Wider(x, e)
    PROVE  Wider(d, e)
<1>1. d.next \in Nat /\ x.next \in Nat /\ e.next \in Nat /\ d.next <= x.next /\ x.next <= e.next
  BY DbParts DEF Wider
<1>2. ASSUME NEW i \in Lots, i < d.next
      PROVE  e.lots[i] = d.lots[i] /\ \A doc \in Docs : e.receipts[doc][i] = d.receipts[doc][i]
  <2>1. i < x.next
    BY <1>1, <1>2, LotsFinite
  <2> QED BY <1>2, <2>1 DEF Wider
<1>3. ASSUME NEW i \in Lots, i >= d.next
      PROVE  e.lots[i].received = 0 \/ e.lots[i].since >= d.next
  <2>1. i \in Nat /\ e.lots[i].since \in Nat
    BY DbParts, LotsFinite
  <2>2. CASE i < x.next
    <3>1. e.lots[i] = x.lots[i] /\ (x.lots[i].received = 0 \/ x.lots[i].since >= d.next)
      BY <1>3, <2>2 DEF Wider
    <3> QED BY <3>1
  <2>3. CASE ~(i < x.next)
    <3>1. i >= x.next
      BY <1>1, <2>1, <2>3
    <3>2. e.lots[i].received = 0 \/ e.lots[i].since >= x.next
      BY <3>1 DEF Wider
    <3> QED BY <1>1, <2>1, <3>2
  <2> QED BY <2>2, <2>3
<1>4. ASSUME NEW l \in Locations
      PROVE  e.stock[l] >= d.stock[l] /\ (l \notin Shops => e.stock[l] = d.stock[l])
  <2>1. d.stock[l] \in Int /\ x.stock[l] \in Int /\ e.stock[l] \in Int
    BY DbParts
  <2>2. /\ x.stock[l] >= d.stock[l] /\ (l \notin Shops => x.stock[l] = d.stock[l])
        /\ e.stock[l] >= x.stock[l] /\ (l \notin Shops => e.stock[l] = x.stock[l])
    BY DEF Wider
  <2> QED BY <2>1, <2>2
<1>5. d.next <= e.next
  BY <1>1
<1> QED BY <1>2, <1>3, <1>4, <1>5 DEF Wider

(* What a shop buys is a layer of its own, with the next number.           *)
LEMMA ArrivalWidens ==
    ASSUME NEW d, NEW e, NEW l \in Shops, NEW n, NEW doc, NEW scan, Arriving(d, e, l, n, doc, scan)
    PROVE  Wider(d, e)
<1>1. /\ Layers(d) /\ d \in Databases /\ l \in Locations /\ n \in Nat /\ n > 0
      /\ Arrives(d, e, l, n, doc, scan)
  BY DEF Arriving, Sound, Layers
<1>2. d.next \in Nat /\ d.lots \in [Lots -> LotRows] /\ d.stock \in [Locations -> Int] /\ e.next = d.next + 1
  BY <1>1, DbParts DEF Arrives
<1>3. ASSUME NEW i \in Lots, i < d.next
      PROVE  e.lots[i] = d.lots[i] /\ \A other \in Docs : e.receipts[other][i] = d.receipts[other][i]
  <2>1. i # d.next
    BY <1>2, <1>3, LotsFinite
  <2> QED BY <1>1, <1>2, <2>1 DEF Arrives
<1>4. ASSUME NEW i \in Lots, i >= d.next
      PROVE  e.lots[i].received = 0 \/ e.lots[i].since >= d.next
  <2>1. CASE i = d.next
    <3>1. e.lots[i].since = d.next
      BY <1>1, <1>2, <2>1 DEF Arrives
    <3> QED BY <1>2, <3>1
  <2>2. CASE i # d.next
    <3>1. e.lots[i] = d.lots[i]
      BY <1>1, <1>2, <2>2 DEF Arrives
    <3>2. ~(i < d.next) /\ d.lots[i].received \in Nat
      BY <1>1, <1>2, <1>4, LotsFinite, DbParts
    <3>3. d.lots[i].received > 0 => i < d.next
      BY <1>1, SoundParts
    <3> QED BY <3>1, <3>2, <3>3
  <2> QED BY <2>1, <2>2
<1>5. ASSUME NEW q \in Locations
      PROVE  e.stock[q] >= d.stock[q] /\ (q \notin Shops => e.stock[q] = d.stock[q])
  <2>1. d.stock[q] \in Int /\ e.stock[q] = IF q = l THEN d.stock[q] + n ELSE d.stock[q]
    BY <1>1, <1>2 DEF Arrives
  <2> QED BY <1>1, <2>1
<1> QED BY <1>2, <1>3, <1>4, <1>5 DEF Wider

(* Giving back the same units to both, or none, makes no difference.       *)
LEMMA ReleaseIsWider ==
    ASSUME NEW d \in Databases, NEW e \in Databases, NEW moves \in Seq(Moves)
    PROVE  Wider(d, e) <=> Wider(Released(d, moves), Released(e, moves))
<1> DEFINE x == Released(d, moves)
           y == Released(e, moves)
<1>1. /\ x.lots = [i \in Lots |-> [d.lots[i] EXCEPT !.remaining = @ + Returned(moves)[i]]]
      /\ x.stock = [l \in Locations |-> d.stock[l] + GivenBack(moves, l)]
      /\ x.receipts = d.receipts /\ x.next = d.next
  <2> HIDE DEF x
  <2> QED BY ReleasedParts DEF x
<1>2. /\ y.lots = [i \in Lots |-> [e.lots[i] EXCEPT !.remaining = @ + Returned(moves)[i]]]
      /\ y.stock = [l \in Locations |-> e.stock[l] + GivenBack(moves, l)]
      /\ y.receipts = e.receipts /\ y.next = e.next
  <2> HIDE DEF y
  <2> QED BY ReleasedParts DEF y
<1> HIDE DEF x, y
<1>3. ASSUME NEW i \in Lots
      PROVE  /\ y.lots[i].received = e.lots[i].received /\ y.lots[i].since = e.lots[i].since
             /\ (y.lots[i] = x.lots[i]) <=> (e.lots[i] = d.lots[i])
  <2> DEFINE a == d.lots[i]
             b == e.lots[i]
             r == Returned(moves)[i]
  <2>1. a \in LotRows /\ b \in LotRows /\ r \in Nat
    <3>1. Returned(moves) \in Slices
      BY ReturnedParts
    <3> QED BY <3>1, DbParts DEF Slices
  <2>2. x.lots[i] = [a EXCEPT !.remaining = @ + r] /\ y.lots[i] = [b EXCEPT !.remaining = @ + r]
    BY <1>1, <1>2
  <2> HIDE DEF a, b, r
  <2>3. /\ [b EXCEPT !.remaining = @ + r].received = b.received
        /\ [b EXCEPT !.remaining = @ + r].since = b.since
        /\ ([b EXCEPT !.remaining = @ + r] = [a EXCEPT !.remaining = @ + r]) <=> (b = a)
    <3>1. ASSUME [b EXCEPT !.remaining = @ + r] = [a EXCEPT !.remaining = @ + r] PROVE b = a
      <4>1. b.remaining + r = a.remaining + r /\ b.location = a.location /\ b.received = a.received /\ b.since = a.since
        BY <2>1, <3>1 DEF LotRows
      <4>2. b.remaining = a.remaining
        BY <2>1, <4>1 DEF LotRows
      <4> QED BY <2>1, <4>1, <4>2 DEF LotRows
    <3> QED BY <2>1, <3>1 DEF LotRows
  <2> QED BY <2>2, <2>3 DEF a, b
<1>4. ASSUME NEW l \in Locations
      PROVE  /\ (y.stock[l] >= x.stock[l]) <=> (e.stock[l] >= d.stock[l])
             /\ (y.stock[l] = x.stock[l]) <=> (e.stock[l] = d.stock[l])
  <2>1. /\ d.stock[l] \in Int /\ e.stock[l] \in Int /\ GivenBack(moves, l) \in Nat
        /\ x.stock[l] = d.stock[l] + GivenBack(moves, l) /\ y.stock[l] = e.stock[l] + GivenBack(moves, l)
    BY <1>1, <1>2, DbParts, ReturnedParts
  <2> QED BY <2>1
<1>5. Wider(d, e) <=> Wider(x, y)
  <2>1. \A i \in Lots : (y.lots[i] = x.lots[i] /\ \A doc \in Docs : y.receipts[doc][i] = x.receipts[doc][i])
                     <=> (e.lots[i] = d.lots[i] /\ \A doc \in Docs : e.receipts[doc][i] = d.receipts[doc][i])
    BY <1>1, <1>2, <1>3
  <2>2. \A i \in Lots : (y.lots[i].received = 0 \/ y.lots[i].since >= x.next)
                     <=> (e.lots[i].received = 0 \/ e.lots[i].since >= d.next)
    BY <1>1, <1>3
  <2>3. \A l \in Locations : (y.stock[l] >= x.stock[l] /\ (l \notin Shops => y.stock[l] = x.stock[l]))
                          <=> (e.stock[l] >= d.stock[l] /\ (l \notin Shops => e.stock[l] = d.stock[l]))
    BY <1>4
  <2>4. x.next = d.next /\ y.next = e.next
    BY <1>1, <1>2
  <2>5. Wider(d, e) => Wider(x, y)
    BY <2>1, <2>2, <2>3, <2>4 DEF Wider
  <2>6. Wider(x, y) => Wider(d, e)
    BY <2>1, <2>2, <2>3, <2>4 DEF Wider
  <2> QED BY <2>5, <2>6
<1> QED BY <1>5 DEF x, y

(* Two databases to which the same is given back were the same if they are *)
(* then.                                                                   *)
LEMMA ReleasedApart ==
    ASSUME NEW d \in Databases, NEW e \in Databases, NEW moves \in Seq(Moves),
           Released(d, moves) = Released(e, moves)
    PROVE  d = e
<1> DEFINE x == Released(d, moves)
<1>1. /\ x.lots = [i \in Lots |-> [d.lots[i] EXCEPT !.remaining = @ + Returned(moves)[i]]]
      /\ x.stock = [l \in Locations |-> d.stock[l] + GivenBack(moves, l)]
      /\ x.receipts = d.receipts /\ x.checked = d.checked /\ x.scans = d.scans /\ x.next = d.next
  <2> HIDE DEF x
  <2> QED BY ReleasedParts DEF x
<1>2. /\ x.lots = [i \in Lots |-> [e.lots[i] EXCEPT !.remaining = @ + Returned(moves)[i]]]
      /\ x.stock = [l \in Locations |-> e.stock[l] + GivenBack(moves, l)]
      /\ x.receipts = e.receipts /\ x.checked = e.checked /\ x.scans = e.scans /\ x.next = e.next
  <2> DEFINE y == Released(e, moves)
  <2> HIDE DEF y
  <2>1. x = y
    BY DEF x, y
  <2> HIDE DEF x
  <2> QED BY <2>1, ReleasedParts DEF y
<1> HIDE DEF x
<1>3. ASSUME NEW i \in Lots PROVE d.lots[i] = e.lots[i]
  <2> DEFINE a == d.lots[i]
             b == e.lots[i]
             r == Returned(moves)[i]
  <2>1. a \in LotRows /\ b \in LotRows /\ r \in Nat
    <3>1. Returned(moves) \in Slices
      BY ReturnedParts
    <3> QED BY <3>1, DbParts DEF Slices
  <2>2. x.lots[i] = [a EXCEPT !.remaining = @ + r]
    BY <1>1
  <2>3. x.lots[i] = [b EXCEPT !.remaining = @ + r]
    BY <1>2
  <2> HIDE DEF a, b, r
  <2>4. a.remaining + r = b.remaining + r /\ b.location = a.location /\ b.received = a.received /\ b.since = a.since
    BY <2>1, <2>2, <2>3 DEF LotRows
  <2>5. b.remaining = a.remaining
    BY <2>1, <2>4 DEF LotRows
  <2>6. a = b
    BY <2>1, <2>4, <2>5 DEF LotRows
  <2> QED BY <2>6 DEF a, b
<1>4. ASSUME NEW l \in Locations PROVE d.stock[l] = e.stock[l]
  <2>1. d.stock[l] \in Int /\ e.stock[l] \in Int /\ GivenBack(moves, l) \in Nat
    BY DbParts, ReturnedParts
  <2>2. x.stock[l] = d.stock[l] + GivenBack(moves, l)
    BY <1>1
  <2>3. x.stock[l] = e.stock[l] + GivenBack(moves, l)
    BY <1>2
  <2> QED BY <2>1, <2>2, <2>3
<1>5. d.lots = e.lots /\ d.stock = e.stock
  <2> DEFINE a == d.lots
             b == e.lots
             p == d.stock
             q == e.stock
  <2>1. a \in [Lots -> LotRows] /\ b \in [Lots -> LotRows] /\ p \in [Locations -> Int] /\ q \in [Locations -> Int]
    BY DbParts
  <2>2. (\A i \in Lots : a[i] = b[i]) /\ (\A l \in Locations : p[l] = q[l])
    BY <1>3, <1>4
  <2> HIDE DEF a, b, p, q
  <2>3. a = b /\ p = q
    BY <2>1, <2>2
  <2> QED BY <2>3 DEF a, b, p, q
<1>6. d.receipts = e.receipts /\ d.checked = e.checked /\ d.scans = e.scans /\ d.next = e.next
  BY <1>1, <1>2
<1> HIDE <1>1, <1>2
<1> QED BY <1>5, <1>6, SameDatabase

(* Where more was bought, the same layers give the same units: what was    *)
(* bought since is younger than any of them (takeFifo).                    *)
LEMMA WiderGives ==
    ASSUME NEW d, NEW e, Layers(d), Layers(e), Wider(d, e), NEW line \in Lines,
           NEW n \in Nat, Remaining(d, Giving(d, line)) >= n
    PROVE  /\ Remaining(e, Giving(e, line)) >= n
           /\ Fifo(e, Giving(e, line), n) = Fifo(d, Giving(d, line), n)
<1> DEFINE G == Giving(d, line)
           H == Giving(e, line)
           Ahead(i) == {j \in G : Older(d, j, i)}
           Before(i) == {j \in H : Older(e, j, i)}
<1>1. d \in Databases /\ e \in Databases /\ G \in SUBSET Lots /\ H \in SUBSET Lots
  BY DEF Layers, Giving, OpenAt
<1>2. d.next \in Nat /\ \A i \in Lots : i \in Nat /\ d.lots[i].since \in Nat /\ e.lots[i].since \in Nat
                                       /\ d.lots[i].remaining \in Nat /\ e.lots[i].remaining \in Nat
                                       /\ d.lots[i].received \in Nat /\ e.lots[i].received \in Nat
  BY <1>1, DbParts, LotsFinite
<1>3. \A i \in G : i < d.next /\ d.lots[i].since < d.next /\ e.lots[i] = d.lots[i] /\ i \in H
  <2> TAKE i \in G
  <2>1. i \in Lots /\ d.lots[i].remaining > 0
    BY DEF Giving, OpenAt
  <2>2. d.lots[i].remaining <= d.lots[i].received
    BY <2>1, SoundParts
  <2>3. d.lots[i].received > 0
    BY <1>2, <2>1, <2>2
  <2>4. i < d.next /\ d.lots[i].since < d.next
    BY <2>1, <2>3, SoundParts
  <2>5. e.lots[i] = d.lots[i] /\ \A doc \in Docs : e.receipts[doc][i] = d.receipts[doc][i]
    BY <2>1, <2>4 DEF Wider
  <2>6. line.source = NoPo \/ line.source \in Docs
    BY DEF Lines
  <2>7. i \in H
    BY <2>1, <2>5, <2>6 DEF Giving, OpenAt
  <2> QED BY <2>4, <2>5, <2>7
<1>4. \A i \in H \ G : e.lots[i].since >= d.next
  <2> TAKE i \in H \ G
  <2>1. i \in Lots /\ e.lots[i].remaining > 0
    BY DEF Giving, OpenAt
  <2>2. e.lots[i].remaining <= e.lots[i].received
    BY <2>1, SoundParts
  <2>3. e.lots[i].received # 0
    BY <1>2, <2>1, <2>2
  <2>4. ~(i < d.next)
    <3> SUFFICES ASSUME i < d.next PROVE FALSE
      OBVIOUS
    <3>1. e.lots[i] = d.lots[i] /\ \A doc \in Docs : e.receipts[doc][i] = d.receipts[doc][i]
      BY <2>1 DEF Wider
    <3>2. line.source = NoPo \/ line.source \in Docs
      BY DEF Lines
    <3>3. i \in G
      BY <2>1, <3>1, <3>2 DEF Giving, OpenAt
    <3> QED BY <3>3
  <2>5. i >= d.next
    BY <1>2, <2>1, <2>4
  <2> QED BY <2>1, <2>3, <2>5 DEF Wider
<1> HIDE DEF G, H
<1>5. ASSUME NEW T \in SUBSET G PROVE Remaining(e, T) = Remaining(d, T)
  <2> DEFINE f == [i \in Lots |-> d.lots[i].remaining]
             g == [i \in Lots |-> e.lots[i].remaining]
  <2>1. T \in SUBSET Lots
    BY <1>1
  <2>2. IsFiniteSet(T)
    BY <1>1, <2>1, RemainingIsNat
  <2>3. \A i \in T : g[i] = f[i]
    BY <1>3, <2>1
  <2>4. Remaining(e, T) = SumFunctionOnSet(g, T) /\ Remaining(d, T) = SumFunctionOnSet(f, T)
    BY DEF Remaining
  <2> HIDE DEF f, g
  <2> QED BY <2>2, <2>3, <2>4, SumSame
<1>6. G \in SUBSET H
  BY <1>3
<1>7. Remaining(e, G) <= Remaining(e, H) /\ Remaining(e, G) = Remaining(d, G)
      /\ Remaining(e, H) \in Nat /\ Remaining(d, G) \in Nat
  BY <1>1, <1>5, <1>6, MoreRemains, RemainingIsNat
<1>8. Remaining(d, G) >= n
  BY DEF G
<1>9. Remaining(e, H) >= n
  BY <1>7, <1>8
<1>10. ASSUME NEW i \in G PROVE Before(i) = Ahead(i)
  <2>1. ASSUME NEW j \in G PROVE Older(e, j, i) <=> Older(d, j, i)
    <3>1. e.lots[i] = d.lots[i] /\ e.lots[j] = d.lots[j]
      BY <1>3
    <3> QED BY <3>1 DEF Older
  <2>2. ASSUME NEW j \in H \ G PROVE ~Older(e, j, i)
    <3>1. e.lots[j].since >= d.next /\ e.lots[i].since < d.next
      BY <1>3, <1>4
    <3>2. e.lots[j].since \in Nat /\ e.lots[i].since \in Nat
      BY <1>1, <1>2
    <3> QED BY <1>2, <3>1, <3>2 DEF Older
  <2> QED BY <1>6, <2>1, <2>2
<1>11. ASSUME NEW i \in H \ G PROVE G \in SUBSET Before(i) /\ Before(i) \in SUBSET Lots
  <2>1. ASSUME NEW j \in G PROVE Older(e, j, i)
    <3>1. e.lots[i].since >= d.next /\ e.lots[j].since < d.next
      BY <1>3, <1>4
    <3>2. e.lots[j].since \in Nat /\ e.lots[i].since \in Nat
      BY <1>1, <1>2
    <3> QED BY <1>2, <3>1, <3>2 DEF Older
  <2> QED BY <1>1, <1>6, <2>1
<1>12. ASSUME NEW i \in Lots PROVE Fifo(e, H, n)[i] = Fifo(d, G, n)[i]
  <2>1. /\ Fifo(e, H, n)[i] = IF i \notin H \/ Remaining(e, Before(i)) >= n THEN 0
                              ELSE IF n - Remaining(e, Before(i)) < e.lots[i].remaining THEN n - Remaining(e, Before(i))
                              ELSE e.lots[i].remaining
        /\ Fifo(d, G, n)[i] = IF i \notin G \/ Remaining(d, Ahead(i)) >= n THEN 0
                              ELSE IF n - Remaining(d, Ahead(i)) < d.lots[i].remaining THEN n - Remaining(d, Ahead(i))
                              ELSE d.lots[i].remaining
    BY DEF Fifo
  <2>2. CASE i \in G
    <3>1. Before(i) = Ahead(i) /\ Ahead(i) \in SUBSET G
      BY <1>10, <2>2
    <3>2. Remaining(e, Before(i)) = Remaining(d, Ahead(i))
      BY <1>5, <3>1
    <3>3. i \in H /\ e.lots[i] = d.lots[i]
      BY <1>3, <2>2
    <3> HIDE DEF Before, Ahead
    <3> QED BY <2>1, <2>2, <3>2, <3>3
  <2>3. CASE i \in H \ G
    <3> DEFINE B == Before(i)
    <3>1. G \in SUBSET B /\ B \in SUBSET Lots
      BY <1>11, <2>3
    <3> HIDE DEF Before, Ahead, B
    <3>2. Remaining(e, G) <= Remaining(e, B) /\ Remaining(e, B) \in Nat
      BY <1>1, <3>1, MoreRemains, RemainingIsNat
    <3>3. Remaining(e, B) >= n
      BY <1>7, <1>8, <3>2
    <3> QED BY <2>1, <2>3, <3>3 DEF B
  <2>4. CASE i \notin H
    BY <1>6, <2>1, <2>4
  <2> QED BY <2>2, <2>3, <2>4
<1>13. Fifo(e, H, n) = Fifo(d, G, n)
  BY <1>12 DEF Fifo
<1> QED BY <1>9, <1>13 DEF G, H

(* What a line buys widens what giving back would leave.                   *)
LEMMA StepWidens ==
    ASSUME NEW h \in Orders, NEW s \in Sales, NEW acc, NEW line, NEW e, Stepped(h, s, acc, line, e),
           Fit(acc.db, [h EXCEPT ![s] = acc.moves])
    PROVE  \E d \in Databases, short \in Nat, n \in Nat :
               /\ Fit(d, [h EXCEPT ![s] = acc.moves])
               /\ Buys(acc, line, d, short)
               /\ Takes(h, s, acc, line, d, n, e)
               /\ Released(e.db, e.moves) = Released(d, acc.moves)
               /\ Wider(Released(acc.db, acc.moves), Released(e.db, e.moves))
<1>0. PICK d \in Databases, short \in Nat, n \in Nat :
          /\ Fit(d, [h EXCEPT ![s] = acc.moves])
          /\ Buys(acc, line, d, short)
          /\ Takes(h, s, acc, line, d, n, e)
  BY DEF Stepped
<1> DEFINE a == acc.moves
           x == acc.db
           l == line.location
           g == [h EXCEPT ![s] = a]
<1>1. x \in Databases /\ a \in Seq(Moves) /\ g \in Orders /\ g[s] = a
  <2>1. g[s] = a
    BY DEF Orders
  <2> QED BY <2>1, FitParts
<1>2. Wider(x, d)
  <2>1. CASE short = 0
    <3>1. d = x
      BY <1>0, <2>1 DEF Buys
    <3> HIDE DEF x
    <3>2. Layers(x)
      BY <1>0, <3>1 DEF Fit, Sound
    <3> QED BY <3>1, <3>2, WiderSelf
  <2>2. CASE short # 0
    <3>1. l \in Shops /\ Arriving(x, d, l, short, l, NoScan)
      BY <1>0, <2>2 DEF Buys
    <3> HIDE DEF x, l
    <3> QED BY <3>1, ArrivalWidens
  <2> QED BY <2>1, <2>2
<1>3. Released(e.db, e.moves) = Released(d, a)
  <2>1. CASE n = 0
    BY <1>0, <2>1 DEF Takes
  <2>2. CASE n # 0
    <3> DEFINE f == [h EXCEPT ![s] = e.moves]
               y == e.db
               slices == Fifo(d, Giving(d, line), n)
    <3>1. PICK m : TakesFor(d, g, s, l, n, slices, m, y, f) /\ e.moves = Append(a, m)
      BY <1>0, <2>2 DEF Takes
    <3> HIDE DEF f, y, l, slices, a, g, x
    <3>2. Released(y, Append(g[s], m)) = Released(d, g[s])
      BY <3>1, TakenIsReleased
    <3> QED BY <1>1, <3>1, <3>2 DEF y
  <2> QED BY <2>1, <2>2
<1>4. Wider(Released(x, a), Released(d, a))
  <2> HIDE DEF x, a, g, l
  <2> QED BY <1>1, <1>2, ReleaseIsWider
<1>5. Wider(Released(acc.db, acc.moves), Released(e.db, e.moves))
  BY <1>3, <1>4
<1> QED BY <1>0, <1>3, <1>5

(* With what was bought on the shelf, a line finds enough of everything,   *)
(* buys nothing, and asks for as many units as the first time.             *)
LEMMA WantsAgain ==
    ASSUME NEW acc, NEW line \in Lines, NEW d \in Databases, NEW short \in Nat, NEW y \in Databases,
           acc.db \in Databases, Buys(acc, line, d, short), \A l \in Locations : Gap(acc.db)[l] = 0,
           Wider(d, y)
    PROVE  Short(y, line) = 0 /\ Wanted(y, line) = Wanted(d, line)
<1> DEFINE x == acc.db
           l == line.location
           ask == line.ask
<1>1. /\ l \in Locations /\ ask \in Nat /\ ask > 0
      /\ x.stock[l] \in Int /\ d.stock[l] \in Int /\ y.stock[l] \in Int
  <2>1. l \in Locations /\ ask \in Nat /\ ask > 0
    BY LotsFinite DEF Lines
  <2> HIDE DEF x
  <2>2. x \in Databases
    BY DEF x
  <2> QED BY <2>1, <2>2, DbParts
<1>2. \A z \in {x, d, y} : Have(z, line) = IF 0 <= z.stock[l] THEN z.stock[l] ELSE 0
  BY <1>1, MaxOfTwo DEF Have
<1>3. y.stock[l] >= d.stock[l] /\ (l \notin Shops => y.stock[l] = d.stock[l])
  BY <1>1 DEF Wider
<1>4. short = IF line.source = NoPo /\ l \in Shops /\ ask > Have(x, line) THEN ask - Have(x, line) ELSE 0
  BY DEF Buys, Short
<1>5. Wanted(y, line) = IF line.source = NoPo THEN Min({ask, Have(y, line)}) ELSE ask
  BY DEF Wanted
<1>6. Wanted(d, line) = IF line.source = NoPo THEN Min({ask, Have(d, line)}) ELSE ask
  BY DEF Wanted
<1>7. Short(y, line) = IF line.source = NoPo /\ l \in Shops /\ ask > Have(y, line) THEN ask - Have(y, line) ELSE 0
  BY DEF Short
<1>8. CASE line.source # NoPo
  BY <1>5, <1>6, <1>7, <1>8
<1>9. CASE l \notin Shops
  <2>1. Have(y, line) = Have(d, line)
    BY <1>2, <1>3, <1>9
  <2> QED BY <1>5, <1>6, <1>7, <1>9, <2>1
<1>10. CASE line.source = NoPo /\ l \in Shops
  <2>1. d.stock[l] >= ask
    <3>1. CASE short = 0
      <4>1. d = x
        BY <3>1 DEF Buys
      <4>2. ~(ask > Have(x, line))
        <5>1. Have(x, line) \in Nat
          BY <1>1, <1>2
        <5> QED BY <1>1, <1>4, <1>10, <3>1, <5>1
      <4> QED BY <1>1, <1>2, <4>1, <4>2
    <3>2. CASE short # 0
      <4>1. ask > Have(x, line) /\ short = ask - Have(x, line)
        BY <1>4, <3>2
      <4>2. d.stock = [x.stock EXCEPT ![l] = @ + short]
        BY <3>2 DEF Buys, Arriving, Arrives
      <4>3. d.stock[l] = x.stock[l] + short
        <5>1. x.stock \in [Locations -> Int]
          BY DbParts
        <5> QED BY <1>1, <4>2, <5>1
      <4>4. x.stock[l] >= 0
        <5> HIDE DEF x, l
        <5>1. x \in Databases /\ Gap(x)[l] = 0
          BY <1>1 DEF x
        <5>2. OnShelf(x, l) \in Nat /\ Gap(x)[l] = x.stock[l] - OnShelf(x, l)
          BY <1>1, <5>1, ShelfIsNat, GapIsInt
        <5> QED BY <1>1, <5>1, <5>2
      <4>5. Have(x, line) = x.stock[l]
        BY <1>1, <1>2, <4>4
      <4> QED BY <1>1, <4>1, <4>3, <4>5
    <3> QED BY <3>1, <3>2
  <2>2. y.stock[l] >= ask
    BY <1>1, <1>3, <2>1
  <2> HIDE DEF x, l, ask
  <2>3. Have(d, line) >= ask /\ Have(y, line) >= ask /\ Have(d, line) \in Int /\ Have(y, line) \in Int
    BY <1>1, <1>2, <2>1, <2>2
  <2>4. Min({ask, Have(d, line)}) = ask /\ Min({ask, Have(y, line)}) = ask
    BY <1>1, <2>3, MinOfTwo
  <2>5. ~(ask > Have(y, line))
    BY <1>1, <2>3
  <2> QED BY <1>5, <1>6, <1>7, <2>4, <2>5
<1> QED BY <1>8, <1>9, <1>10

(* So it takes the same units of the same layers, and what giving back     *)
(* would leave stays what it is.                                           *)
LEMMA LineAgain ==
    ASSUME NEW h \in Orders, NEW s \in Sales, NEW acc, NEW line, NEW e, Stepped(h, s, acc, line, e),
           Fit(acc.db, [h EXCEPT ![s] = acc.moves]), \A l \in Locations : Gap(acc.db)[l] = 0,
           NEW v, Shaped(v), v.ok, v.moves = acc.moves, Fit(v.db, [h EXCEPT ![s] = v.moves]),
           NEW T, Released(v.db, v.moves) = T, Wider(Released(e.db, e.moves), T),
           NEW w, w = Filled(v, line)
    PROVE  w.ok /\ w.moves = e.moves /\ Released(w.db, w.moves) = T
<1>0. PICK d \in Databases, short \in Nat, n \in Nat :
          /\ Fit(d, [h EXCEPT ![s] = acc.moves])
          /\ Buys(acc, line, d, short)
          /\ Takes(h, s, acc, line, d, n, e)
          /\ Released(e.db, e.moves) = Released(d, acc.moves)
  BY StepWidens
<1> DEFINE a == acc.moves
           y == v.db
           l == line.location
           g == [h EXCEPT ![s] = a]
           S == Giving(y, line)
           slices == Fifo(y, S, n)
<1>1. /\ y \in Databases /\ a \in Seq(Moves) /\ g \in Orders /\ g[s] = a /\ acc.db \in Databases
      /\ line \in Lines /\ l \in Locations
  <2>1. g[s] = a
    BY DEF Orders
  <2>2. line \in Lines /\ l \in Locations
    BY DEF Stepped, Lines
  <2>3. acc.db \in Databases /\ a \in Seq(Moves) /\ g \in Orders
    BY FitParts
  <2>4. y \in Databases
    BY DEF Fit, Sound, Layers
  <2> QED BY <2>1, <2>2, <2>3, <2>4
<1>2. Wider(d, y)
  <2>1. Wider(Released(d, a), Released(y, a))
    BY <1>0
  <2> HIDE DEF a, y, g, l, S, slices
  <2> QED BY <1>1, <2>1, ReleaseIsWider
<1>3. Short(y, line) = 0 /\ Wanted(y, line) = n
  <2>1. n = Wanted(d, line)
    BY <1>0 DEF Takes
  <2> HIDE DEF a, y, g, l, S, slices
  <2>2. Short(y, line) = 0 /\ Wanted(y, line) = Wanted(d, line)
    BY <1>0, <1>1, <1>2, WantsAgain
  <2> QED BY <2>1, <2>2
<1>4. n # 0 => Remaining(y, S) >= n /\ slices = Fifo(d, Giving(d, line), n)
  <2>1. n # 0 => Remaining(d, Giving(d, line)) >= n
    BY <1>0 DEF Takes
  <2>2. Layers(d) /\ Layers(y)
    BY <1>0 DEF Fit, Sound
  <2> HIDE DEF y
  <2> QED BY <1>1, <1>2, <2>1, <2>2, WiderGives
<1>5. w = IF n = 0 THEN [v EXCEPT !.db = y, !.ok = @ /\ TRUE]
          ELSE [ok    |-> v.ok /\ TRUE /\ Remaining(y, S) >= n,
                db    |-> Consumed(Bump(y, l, -n), slices),
                moves |-> Append(v.moves, [location |-> l, quantity |-> n, slices |-> slices])]
  <2>1. n = IF line.source = NoPo THEN Min({line.ask, Have(y, line)}) ELSE line.ask
    BY <1>3 DEF Wanted
  <2> QED BY <1>3, <2>1 DEF Filled
<1>6. CASE n = 0
  <2>1. e.moves = a
    BY <1>0, <1>6 DEF Takes
  <2>2. w.ok /\ w.db = y /\ w.moves = v.moves
    <3> HIDE DEF y
    <3> QED BY <1>5, <1>6 DEF Shaped
  <2> QED BY <2>1, <2>2
<1>7. CASE n # 0
  <2>1. PICK m : /\ TakesFor(d, g, s, l, n, slices, m, e.db, [h EXCEPT ![s] = e.moves])
                 /\ e.moves = Append(a, m)
    BY <1>0, <1>4, <1>7 DEF Takes
  <2>2. /\ m = [location |-> l, quantity |-> n, slices |-> slices]
        /\ slices \in Slices /\ SumFunction(slices) = n
    BY <2>1 DEF TakesFor
  <2>3. w.ok /\ w.db = Consumed(Bump(y, l, -n), slices) /\ w.moves = Append(a, m)
    <3> DEFINE X == Consumed(Bump(y, l, -n), slices)
               M == Append(v.moves, [location |-> l, quantity |-> n, slices |-> slices])
               o == v.ok /\ TRUE /\ Remaining(y, S) >= n
    <3>1. o /\ M = Append(a, m)
      BY <1>4, <1>7, <2>2
    <3>2. w = [ok |-> o, db |-> X, moves |-> M]
      BY <1>5, <1>7
    <3>3. w.ok = o /\ w.db = X /\ w.moves = M
      <4> HIDE DEF X, M, o
      <4> QED BY <3>2
    <3> QED BY <3>1, <3>3
  <2>4. \A i \in Lots : slices[i] > 0 => i \in OpenAt(y, l) /\ slices[i] <= y.lots[i].remaining
    <3>1. S \in SUBSET Lots /\ \A i \in S : i \in OpenAt(y, l)
      BY DEF Giving, OpenAt
    <3> HIDE DEF y, S, l
    <3> QED BY <1>1, <3>1, FifoTakes
  <2>5. TakesFor(y, g, s, l, n, slices, m, w.db, [g EXCEPT ![s] = Append(g[s], m)])
    <3>1. Fit(y, g)
      OBVIOUS
    <3> HIDE DEF y, S, l, slices, g, a
    <3> QED BY <1>1, <2>2, <2>3, <2>4, <3>1 DEF TakesFor
  <2>6. Released(w.db, Append(g[s], m)) = Released(y, g[s])
    <3> DEFINE z == w.db
               f == [g EXCEPT ![s] = Append(g[s], m)]
    <3> HIDE DEF y, S, l, slices, g, a, z, f
    <3>1. TakesFor(y, g, s, l, n, slices, m, z, f)
      BY <2>5 DEF z, f
    <3>2. Released(z, Append(g[s], m)) = Released(y, g[s])
      BY <3>1, TakenIsReleased
    <3> QED BY <3>2 DEF z
  <2> QED BY <1>1, <2>1, <2>3, <2>6
<1> QED BY <1>6, <1>7

(* The last of the first n lines.                                          *)
LEMMA LastLine ==
    ASSUME NEW n \in Nat, n # 0
    PROVE  1..n # {} /\ Max(1..n) = n /\ (1..n) \ {n} = 1..(n - 1)
<1>1. n \in 1..n /\ \A x \in 1..n : n >= x
  OBVIOUS
<1>2. \A y \in 1..n : (\A x \in 1..n : y >= x) => y = n
  OBVIOUS
<1>3. Max(1..n) = n
  BY <1>1, <1>2 DEF Max
<1>4. (1..n) \ {n} = 1..(n - 1)
  OBVIOUS
<1> QED BY <1>1, <1>3, <1>4

(* A walk goes through the first lines of its cart.                        *)
LEMMA WalkInTurn ==
    ASSUME NEW d, NEW h, Fit(d, h), NEW s \in Sales, NEW cart \in Seq(Lines),
           NEW it, Walks(it, d, h[s], cart)
    PROVE  /\ it[1..0] = FreshAcc(d, h[s]) /\ Saved(d, h[s], cart) = it[1..Len(cart)]
           /\ \A n \in 0..Len(cart) : Going(h, s, d, it[1..n])
           /\ \A n \in 1..Len(cart) :
                  /\ it[1..n] = Filled(it[1..(n - 1)], cart[n])
                  /\ it[1..n].ok => Stepped(h, s, it[1..(n - 1)], cart[n], it[1..n])
<1> DEFINE D == DOMAIN cart
<1>1. D = 1..Len(cart) /\ Len(cart) \in Nat /\ 1..0 = {}
  OBVIOUS
<1>2. \A n \in 0..Len(cart) : 1..n \in SUBSET D
  BY <1>1
<1>3. /\ \A t \in SUBSET D : Going(h, s, d, it[t])
      /\ \A t \in SUBSET D : t # {} /\ it[t].ok =>
             Max(t) \in t /\ Stepped(h, s, it[t \ {Max(t)}], cart[Max(t)], it[t])
  BY WalkSteps
<1>4. /\ it[{}] = FreshAcc(d, h[s]) /\ Saved(d, h[s], cart) = it[D]
      /\ \A t \in SUBSET D : t # {} => it[t] = Filled(it[t \ {Max(t)}], cart[Max(t)])
  BY DEF Walks
<1> HIDE DEF D
<1>5. ASSUME NEW n \in 1..Len(cart)
      PROVE  /\ it[1..n] = Filled(it[1..(n - 1)], cart[n])
             /\ it[1..n].ok => Stepped(h, s, it[1..(n - 1)], cart[n], it[1..n])
  <2> DEFINE t == 1..n
  <2>1. n \in Nat /\ n # 0 /\ t \in SUBSET D
    BY <1>1, <1>2
  <2>2. t # {} /\ Max(t) = n /\ t \ {Max(t)} = 1..(n - 1)
    BY <2>1, LastLine
  <2> HIDE DEF t
  <2>3. it[t] = Filled(it[t \ {Max(t)}], cart[Max(t)]) /\ (it[t].ok => Stepped(h, s, it[t \ {Max(t)}], cart[Max(t)], it[t]))
    BY <1>3, <1>4, <2>1, <2>2
  <2>4. it[t] = Filled(it[1..(n - 1)], cart[n]) /\ (it[t].ok => Stepped(h, s, it[1..(n - 1)], cart[n], it[t]))
    BY <2>2, <2>3
  <2> QED BY <2>4 DEF t
<1>6. it[1..0] = FreshAcc(d, h[s]) /\ Saved(d, h[s], cart) = it[1..Len(cart)]
  BY <1>1, <1>4
<1> QED BY <1>2, <1>3, <1>5, <1>6

(* What giving back at any line of a walk would leave is, but for what the *)
(* later lines buy, what giving back at its end would leave.               *)
LEMMA EndIsWidest ==
    ASSUME NEW d, NEW h, Fit(d, h), NEW s \in Sales, NEW cart \in Seq(Lines),
           NEW it, Walks(it, d, h[s], cart), NEW saved, saved = it[1..Len(cart)], saved.ok,
           NEW n \in 0..Len(cart)
    PROVE  it[1..n].ok /\ Wider(Released(it[1..n].db, it[1..n].moves), Released(saved.db, saved.moves))
<1> DEFINE N == Len(cart)
           U(k) == it[1..k]
           Back(k) == Released(U(k).db, U(k).moves)
           P(k) == U(k).ok /\ Wider(Back(k), Back(N))
           C == {k \in 0..N : ~P(N - k)}
<1>1. N \in Nat /\ h \in Orders
  BY DEF Fit
<1>2. /\ \A k \in 0..N : Going(h, s, d, U(k))
      /\ \A k \in 1..N : U(k).ok => Stepped(h, s, U(k - 1), cart[k], U(k))
  BY WalkInTurn
<1>3. ASSUME NEW k \in 0..N, U(k).ok
      PROVE  /\ Fit(U(k).db, [h EXCEPT ![s] = U(k).moves])
             /\ U(k).db \in Databases /\ U(k).moves \in Seq(Moves) /\ Back(k) \in Databases
             /\ Layers(U(k).db)
  <2> DEFINE x == U(k).db
             a == U(k).moves
  <2>1. Fit(x, [h EXCEPT ![s] = a])
    BY <1>2, <1>3 DEF Going
  <2> HIDE DEF x, a
  <2>2. x \in Databases /\ a \in Seq(Moves)
    BY <1>1, <2>1, FitParts
  <2>3. Released(x, a) \in Databases /\ Layers(x)
    BY <2>1, <2>2, ReleaseStays DEF Fit, Sound
  <2> QED BY <2>1, <2>2, <2>3 DEF x, a
<1>4. P(N)
  <2> DEFINE x == U(N).db
             a == U(N).moves
  <2>1. U(N).ok /\ N \in 0..N
    BY <1>1
  <2>2. x \in Databases /\ a \in Seq(Moves) /\ Layers(x)
    BY <1>3, <2>1
  <2> HIDE DEF x, a, U
  <2>3. Wider(x, x)
    BY <2>2, WiderSelf
  <2>4. Wider(Released(x, a), Released(x, a))
    BY <2>2, <2>3, ReleaseIsWider
  <2> QED BY <2>1, <2>4 DEF x, a
<1>5. ASSUME NEW k \in 1..N, P(k) PROVE P(k - 1)
  <2>1. k - 1 \in 0..N /\ k \in 0..N /\ U(k).ok /\ N \in 0..N /\ U(N).ok
    BY <1>1, <1>4, <1>5
  <2>2. Stepped(h, s, U(k - 1), cart[k], U(k))
    BY <1>2, <1>5
  <2>3. U(k - 1).ok
    BY <2>2 DEF Stepped
  <2>4. Back(k - 1) \in Databases /\ Back(k) \in Databases /\ Back(N) \in Databases
        /\ Fit(U(k - 1).db, [h EXCEPT ![s] = U(k - 1).moves])
    BY <1>3, <2>1, <2>3
  <2> DEFINE acc == U(k - 1)
             e == U(k)
             line == cart[k]
  <2>5. Stepped(h, s, acc, line, e) /\ Fit(acc.db, [h EXCEPT ![s] = acc.moves])
    BY <2>2, <2>4
  <2> HIDE DEF acc, e, line
  <2>6. Wider(Released(acc.db, acc.moves), Released(e.db, e.moves))
    BY <1>1, <2>5, StepWidens
  <2>7. Wider(Back(k - 1), Back(k)) /\ Wider(Back(k), Back(N))
    BY <1>5, <2>6 DEF acc, e
  <2> HIDE DEF Back, U
  <2>8. Wider(Back(k - 1), Back(N))
    BY <2>4, <2>7, WiderInTurn
  <2> QED BY <2>3, <2>8
<1> HIDE DEF P
<1>6. C = {}
  <2> SUFFICES ASSUME C # {} PROVE FALSE
    OBVIOUS
  <2>1. C \in SUBSET Nat
    BY <1>1
  <2>2. PICK k \in C : \A j \in C : k <= j
    BY <2>1, LeastNumber
  <2>3. k \in 0..N /\ ~P(N - k)
    OBVIOUS
  <2>4. k # 0
    <3>1. N - 0 = N
      BY <1>1
    <3> QED BY <1>4, <2>3, <3>1
  <2>5. k - 1 \in 0..N /\ k - 1 \notin C /\ N - (k - 1) \in 1..N /\ (N - (k - 1)) - 1 = N - k
    <3>1. k - 1 \in 0..N /\ ~(k <= k - 1) /\ N - (k - 1) \in 1..N /\ (N - (k - 1)) - 1 = N - k
      BY <1>1, <2>3, <2>4
    <3> QED BY <2>2, <3>1
  <2>6. P(N - (k - 1))
    BY <2>5
  <2>7. P((N - (k - 1)) - 1)
    BY <1>5, <2>5, <2>6
  <2> QED BY <2>3, <2>5, <2>7
<1>7. N - n \in 0..N /\ N - (N - n) = n
  BY <1>1
<1>8. P(n)
  BY <1>6, <1>7
<1> QED BY <1>8 DEF P

(* Saving once more what was just saved, line by line the same.            *)
LEMMA SavedAgain ==
    ASSUME NEW d, NEW h, Fit(d, h), \A l \in Locations : Gap(d)[l] = 0,
           NEW s \in Sales, NEW cart \in Seq(Lines),
           NEW saved, saved = Saved(d, h[s], cart), saved.ok
    PROVE  Saved(saved.db, saved.moves, cart) = [ok |-> TRUE, db |-> saved.db, moves |-> saved.moves]
<1> DEFINE e == saved.db
           m == saved.moves
           g == [h EXCEPT ![s] = m]
           T == Released(e, m)
           N == Len(cart)
<1>1. N \in Nat /\ h \in Orders /\ N \in 0..N /\ 0 \in 0..N
  BY DEF Fit
<1>2. Fit(e, g) /\ m \in Seq(Moves) /\ g[s] = m /\ g \in Orders
  <2>1. Fit(e, g) /\ m \in Seq(Moves)
    BY SavedFits
  <2>2. g[s] = m /\ g \in Orders
    BY <1>1, <2>1 DEF Orders
  <2> QED BY <2>1, <2>2
<1>3. PICK it : Walks(it, d, h[s], cart)
  BY SavedWalks
<1>4. PICK v : Walks(v, e, g[s], cart)
  BY SavedWalks
<1> DEFINE U(n) == it[1..n]
           V(n) == v[1..n]
           Q(n) == V(n).ok /\ V(n).moves = U(n).moves /\ Released(V(n).db, V(n).moves) = T
           C == {n \in 0..N : ~Q(n)}
<1>5. /\ U(0) = FreshAcc(d, h[s]) /\ saved = U(N)
      /\ \A n \in 0..N : Going(h, s, d, U(n))
      /\ \A n \in 1..N : U(n) = Filled(U(n - 1), cart[n]) /\ (U(n).ok => Stepped(h, s, U(n - 1), cart[n], U(n)))
  BY <1>3, WalkInTurn
<1>6. /\ V(0) = FreshAcc(e, m) /\ Saved(e, m, cart) = V(N)
      /\ \A n \in 0..N : Going(g, s, e, V(n))
      /\ \A n \in 1..N : V(n) = Filled(V(n - 1), cart[n])
  <2> HIDE DEF e, m, g
  <2>1. /\ v[1..0] = FreshAcc(e, g[s]) /\ Saved(e, g[s], cart) = v[1..Len(cart)]
        /\ \A n \in 0..Len(cart) : Going(g, s, e, v[1..n])
        /\ \A n \in 1..Len(cart) :
               /\ v[1..n] = Filled(v[1..(n - 1)], cart[n])
               /\ v[1..n].ok => Stepped(g, s, v[1..(n - 1)], cart[n], v[1..n])
    BY <1>2, <1>4, WalkInTurn
  <2> QED BY <1>2, <2>1
<1>7. \A n \in 0..N : U(n).ok /\ Wider(Released(U(n).db, U(n).moves), T)
  BY <1>3, <1>5, EndIsWidest
<1>8. Q(0)
  <2>1. V(0).ok /\ V(0).db = T /\ V(0).moves = <<>> /\ U(0).moves = <<>>
    BY <1>5, <1>6 DEF FreshAcc
  <2>2. T \in Databases
    <3> HIDE DEF e, m, g
    <3>1. e \in Databases
      BY <1>2 DEF Fit, Sound, Layers
    <3> QED BY <1>2, <3>1, ReleaseStays DEF T
  <2> HIDE DEF T, V, U
  <2>3. Released(T, <<>>) = T
    BY <2>2, NothingReleased
  <2> QED BY <2>1, <2>3
<1>9. ASSUME NEW n \in 1..N, Q(n - 1) PROVE Q(n)
  <2>1. n - 1 \in 0..N /\ n \in 0..N
    BY <1>1
  <2> DEFINE acc == U(n - 1)
             line == cart[n]
             a == U(n)
             y == V(n - 1)
             w == V(n)
  <2>2. Stepped(h, s, acc, line, a)
    BY <1>5, <1>7, <2>1
  <2>3. acc.ok /\ Going(h, s, d, acc)
    BY <1>5, <1>7, <2>1
  <2>4. y.ok /\ y.moves = acc.moves /\ Released(y.db, y.moves) = T /\ Going(g, s, e, y)
    BY <1>6, <1>9, <2>1
  <2>5. Wider(Released(a.db, a.moves), T) /\ w = Filled(y, line)
    BY <1>6, <1>7, <2>1
  <2> HIDE DEF acc, line, a, y, w, T, e, m
  <2>6. Fit(acc.db, [h EXCEPT ![s] = acc.moves]) /\ \A l \in Locations : Gap(acc.db)[l] = 0
    BY <2>3 DEF Going
  <2>7. Shaped(y) /\ Fit(y.db, [g EXCEPT ![s] = y.moves])
    BY <2>4 DEF Going
  <2>8. [g EXCEPT ![s] = y.moves] = [h EXCEPT ![s] = y.moves]
    BY <1>1 DEF Orders
  <2>9. Fit(y.db, [h EXCEPT ![s] = y.moves])
    BY <2>7, <2>8
  <2> HIDE DEF g
  <2>10. w.ok /\ w.moves = a.moves /\ Released(w.db, w.moves) = T
    BY <1>1, <2>2, <2>4, <2>5, <2>6, <2>7, <2>9, LineAgain
  <2> QED BY <2>10 DEF a, w
<1> HIDE DEF Q
<1>10. C = {}
  <2> SUFFICES ASSUME C # {} PROVE FALSE
    OBVIOUS
  <2>1. C \in SUBSET Nat
    BY <1>1
  <2>2. PICK n \in C : \A j \in C : n <= j
    BY <2>1, LeastNumber
  <2>3. n \in 0..N /\ ~Q(n) /\ n # 0
    BY <1>8
  <2>4. n \in 1..N /\ n - 1 \in 0..N /\ ~(n <= n - 1)
    BY <1>1, <2>3
  <2>5. Q(n - 1)
    BY <2>2, <2>4
  <2> QED BY <1>9, <2>3, <2>4, <2>5
<1>11. Q(N)
  BY <1>1, <1>10
<1>12. V(N).ok /\ V(N).moves = m /\ Released(V(N).db, m) = T
  <2>1. V(N).ok /\ V(N).moves = U(N).moves /\ Released(V(N).db, V(N).moves) = T
    BY <1>11 DEF Q
  <2>2. U(N).moves = m
    BY <1>5
  <2> HIDE DEF U, V, T, m
  <2> QED BY <2>1, <2>2
<1>13. V(N).db = e
  <2> DEFINE z == V(N).db
  <2>1. V(N).ok /\ Going(g, s, e, V(N))
    BY <1>1, <1>6, <1>12
  <2>2. z \in Databases
    <3> HIDE DEF V, g, e, m
    <3> QED BY <2>1 DEF Going, Fit, Sound, Layers
  <2>3. Released(z, m) = Released(e, m)
    BY <1>12
  <2> HIDE DEF z, e, m, V
  <2>4. e \in Databases
    <3> HIDE DEF g
    <3> QED BY <1>2 DEF Fit, Sound, Layers
  <2>5. z = e
    BY <1>2, <2>2, <2>3, <2>4, ReleasedApart
  <2> QED BY <2>5 DEF z
<1>14. Shaped(V(N))
  BY <1>1, <1>6 DEF Going
<1> HIDE DEF V, U, e, m, g, T
<1>15. V(N) = [ok |-> TRUE, db |-> e, moves |-> m]
  <2>1. V(N) = [ok |-> V(N).ok, db |-> V(N).db, moves |-> V(N).moves] /\ V(N).ok = TRUE
    BY <1>12, <1>14 DEF Shaped
  <2> QED BY <1>12, <1>13, <2>1
<1> QED BY <1>6, <1>15 DEF e, m

(* saveInvoice: saving again what was just saved takes the same units from *)
(* the same layers, and buys nothing a second time.                        *)
THEOREM SavingAgainChangesNothing == Spec => SavedAgainIsTheSame
<1>1. ASSUME StockInv, NEW s \in Sales, NEW cart \in Carts, SaveOrder(s, cart), ~misplaced
      PROVE  Saved(db', held'[s], cart) = [ok |-> TRUE, db |-> db', moves |-> held'[s]]
  <2> DEFINE d == db
             h == held
             saved == Saved(d, h[s], cart)
  <2>1. h \in Orders /\ Fit(d, h) /\ cart \in Seq(Lines) /\ \A l \in Locations : Gap(d)[l] = 0
    BY <1>1, InvParts, StockAssumption DEF StockInv, Balanced
  <2>2. saved.ok /\ db' = saved.db /\ held' = [h EXCEPT ![s] = saved.moves]
    BY <1>1 DEF SaveOrder
  <2>3. held'[s] = saved.moves
    BY <2>1, <2>2 DEF Orders
  <2>4. Saved(saved.db, saved.moves, cart) = [ok |-> TRUE, db |-> saved.db, moves |-> saved.moves]
    <3>1. saved = Saved(d, h[s], cart)
      OBVIOUS
    <3> HIDE DEF saved, d, h
    <3> QED BY <2>1, <2>2, <3>1, SavedAgain
  <2> HIDE DEF saved
  <2> QED BY <2>2, <2>3, <2>4
<1>2. StockInv =>
          [\A s \in Sales : held'[s] # held[s] => \A cart \in Carts :
             SaveOrder(s, cart) /\ ~misplaced =>
                 Saved(db', held'[s], cart) = [ok |-> TRUE, db |-> db', moves |-> held'[s]]]_vars
  BY <1>1
<1> QED BY <1>2, InvHolds, PTL DEF Spec, SavedAgainIsTheSame
=============================================================================
