----------------------------- MODULE SumLemmas -----------------------------
(***************************************************************************)
(* SumFunction(f), the sum of the values of a function on a finite domain, *)
(* is defined by recursion over the subsets of the domain.  The lemmas     *)
(* here free its users of the recursion: the sum may be taken in any       *)
(* order.  Each induction is on the size of a subset, in the form: a       *)
(* subset of the smallest size at which the claim fails cannot exist.      *)
(***************************************************************************)
EXTENDS Functions, FiniteSetTheorems, TLAPS

Pick(S) == CHOOSE x \in S : TRUE

(* The recursive equation that defines the sums of f over subsets of D.    *)
Unrolled(f, D, g) ==
  [S \in SUBSET D |->
     IF S = {} THEN 0 ELSE f[Pick(S)] + g[S \ {Pick(S)}]]

PartialSums(f, D) == CHOOSE g : g = Unrolled(f, D, g)

Agree(f, h, S) == \A x \in S : f[x] = h[x]

-----------------------------------------------------------------------------
(* A nonempty set of naturals has a smallest element.                      *)
LEMMA SmallestOf ==
  ASSUME NEW T \in SUBSET Nat, T # {}
  PROVE  \E m \in T : \A k \in T : m <= k
<1> DEFINE R == {ss \in Nat \X Nat : ss[1] < ss[2]}
<1>1. IsWellFoundedOn(R, Nat)
  BY NatLessThanWellFounded DEF OpToRel
<1>2. PICK m \in T : \A k \in T : ~ (<<k, m>> \in R)
  <2> HIDE DEF R
  <2> QED BY <1>1, WFMin
<1>3. \A k \in T : ~(k < m)
  BY <1>2
<1>4. QED
  BY <1>3

(* Among the subsets of a finite set, a nonempty family has a member of    *)
(* least cardinality.                                                      *)
LEMMA SmallestSubset ==
  ASSUME NEW D, IsFiniteSet(D), NEW F \in SUBSET SUBSET D, F # {}
  PROVE  \E S \in F : /\ Cardinality(S) \in Nat
                      /\ \A U \in F : Cardinality(S) <= Cardinality(U)
<1> DEFINE T == {Cardinality(S) : S \in F}
<1>1. \A S \in F : IsFiniteSet(S) /\ Cardinality(S) \in Nat
  BY FS_Subset, FS_CardinalityType
<1>2. PICK m \in T : \A k \in T : m <= k
  <2>1. T \in SUBSET Nat /\ T # {}
    BY <1>1
  <2> HIDE DEF T
  <2> QED BY <2>1, SmallestOf
<1> QED
  BY <1>1, <1>2

(* Taking an element out of a subset of a finite set makes it smaller.     *)
LEMMA SmallerWithout ==
  ASSUME NEW D, IsFiniteSet(D), NEW S \in SUBSET D, NEW x \in S
  PROVE  /\ Cardinality(S) \in Nat
         /\ Cardinality(S \ {x}) \in Nat
         /\ Cardinality(S \ {x}) < Cardinality(S)
         /\ Cardinality(S \ {x}) = Cardinality(S) - 1
<1>1. IsFiniteSet(S) /\ Cardinality(S) \in Nat
  BY FS_Subset, FS_CardinalityType
<1>2. IsFiniteSet(S \ {x}) /\ Cardinality(S \ {x}) = Cardinality(S) - 1
  BY <1>1, FS_RemoveElement
<1>3. Cardinality(S \ {x}) \in Nat
  BY <1>2, FS_CardinalityType
<1> QED
  BY <1>1, <1>2, <1>3

LEMMA PickIn ==
  ASSUME NEW S, S # {}
  PROVE  Pick(S) \in S
BY DEF Pick

-----------------------------------------------------------------------------
(* The recursive equation has a solution.                                  *)
LEMMA PartialSumsExist ==
  ASSUME NEW D, IsFiniteSet(D), NEW f \in [D -> Int]
  PROVE  \E g : g = Unrolled(f, D, g)
<1> DEFINE Small(n) == {S \in SUBSET D : Cardinality(S) <= n}
           Rhs(g, S) == IF S = {} THEN 0 ELSE f[Pick(S)] + g[S \ {Pick(S)}]
           Approx(n) == {g \in [Small(n) -> Int] :
                           \A S \in Small(n) : g[S] = Rhs(g, S)}
           Bad == {n \in Nat : Approx(n) = {}}
<1>1. \A S \in SUBSET D : IsFiniteSet(S) /\ Cardinality(S) \in Nat
  BY FS_Subset, FS_CardinalityType
<1>2. ASSUME Bad # {} PROVE FALSE
  <2>1. PICK m \in Bad : \A k \in Bad : m <= k
    <3>1. Bad \in SUBSET Nat
      OBVIOUS
    <3> HIDE DEF Bad
    <3> QED BY <1>2, <3>1, SmallestOf
  <2>2. CASE m = 0
    <3>1. \A S \in Small(0) : S = {}
      BY <1>1, FS_EmptySet
    <3>2. [S \in Small(0) |-> 0] \in Approx(0)
      BY <3>1
    <3> QED BY <2>1, <2>2, <3>2
  <2>3. CASE m # 0
    <3>1. m - 1 \in Nat /\ m - 1 \notin Bad
      <4>1. m \in Nat
        OBVIOUS
      <4> HIDE DEF Bad
      <4> QED BY <2>1, <2>3, <4>1
    <3>2. PICK g : g \in Approx(m - 1)
      BY <3>1
    <3> DEFINE h == [S \in Small(m) |-> Rhs(g, S)]
    <3>3. \A S \in Small(m) : S # {} => /\ S \ {Pick(S)} \in Small(m - 1)
                                        /\ f[Pick(S)] \in Int
      BY <1>1, <3>1, PickIn, SmallerWithout
    <3>4. h \in [Small(m) -> Int]
      BY <3>2, <3>3
    <3>5. \A S \in Small(m - 1) : S \in Small(m) /\ h[S] = g[S]
      BY <1>1, <3>1, <3>2
    <3>6. \A S \in Small(m) : h[S] = Rhs(h, S)
      BY <3>3, <3>5
    <3>7. h \in Approx(m)
      BY <3>4, <3>6
    <3> QED BY <2>1, <3>7
  <2> QED BY <2>2, <2>3
<1>3. Cardinality(D) \in Nat /\ Small(Cardinality(D)) = SUBSET D
  <2>1. \A S \in SUBSET D : Cardinality(S) <= Cardinality(D)
    BY FS_Subset
  <2> QED BY <1>1, <2>1
<1>4. PICK g : g \in Approx(Cardinality(D))
  BY <1>2, <1>3
<1>5. /\ g \in [SUBSET D -> Int]
      /\ \A S \in SUBSET D : g[S] = Rhs(g, S)
  BY <1>3, <1>4
<1>6. g = Unrolled(f, D, g)
  BY <1>5 DEF Unrolled
<1> QED
  BY <1>6

(* The equation, as a rule for computing with it.                          *)
LEMMA PartialSumsEquation ==
  ASSUME NEW D, IsFiniteSet(D), NEW f \in [D -> Int], NEW S \in SUBSET D
  PROVE  /\ S = {} => PartialSums(f, D)[S] = 0
         /\ S # {} => PartialSums(f, D)[S]
                        = f[Pick(S)] + PartialSums(f, D)[S \ {Pick(S)}]
<1>1. PartialSums(f, D) = Unrolled(f, D, PartialSums(f, D))
  BY PartialSumsExist DEF PartialSums
<1> DEFINE g == PartialSums(f, D)
<1>2. g = Unrolled(f, D, g)
  BY <1>1
<1> HIDE DEF g
<1>3. /\ S = {} => g[S] = 0
      /\ S # {} => g[S] = f[Pick(S)] + g[S \ {Pick(S)}]
  BY <1>2 DEF Unrolled
<1> QED
  BY <1>3 DEF g

LEMMA PartialSumsType ==
  ASSUME NEW D, IsFiniteSet(D), NEW f \in [D -> Int]
  PROVE  \A S \in SUBSET D : PartialSums(f, D)[S] \in Int
<1> DEFINE g == PartialSums(f, D)
           F == {S \in SUBSET D : g[S] \notin Int}
<1>1. ASSUME F # {} PROVE FALSE
  <2>1. PICK S \in F : \A U \in F : Cardinality(S) <= Cardinality(U)
    <3>1. F \in SUBSET SUBSET D
      OBVIOUS
    <3> HIDE DEF F
    <3> QED BY <1>1, <3>1, SmallestSubset
  <2>2. S \in SUBSET D /\ g[S] \notin Int
    OBVIOUS
  <2>3. S # {} /\ g[S] = f[Pick(S)] + g[S \ {Pick(S)}]
    <3> HIDE DEF F
    <3>1. S = {} => g[S] = 0
      BY <2>2, PartialSumsEquation
    <3>2. S # {} => g[S] = f[Pick(S)] + g[S \ {Pick(S)}]
      BY <2>2, PartialSumsEquation
    <3> HIDE DEF g
    <3> QED BY <2>2, <3>1, <3>2
  <2>4. Pick(S) \in S
    BY <2>3, PickIn
  <2>5. S \ {Pick(S)} \notin F
    <3> HIDE DEF F
    <3> QED BY <2>1, <2>2, <2>4, SmallerWithout
  <2> QED BY <2>2, <2>3, <2>4, <2>5
<1> QED
  BY <1>1

(* Any element may be the one that is added last.                          *)
LEMMA PartialSumsRemove ==
  ASSUME NEW D, IsFiniteSet(D), NEW f \in [D -> Int]
  PROVE  \A S \in SUBSET D : \A a \in S :
           PartialSums(f, D)[S] = f[a] + PartialSums(f, D)[S \ {a}]
<1> DEFINE g == PartialSums(f, D)
           F == {S \in SUBSET D : \E a \in S : g[S] # f[a] + g[S \ {a}]}
<1>1. ASSUME F # {} PROVE FALSE
  <2>1. PICK S \in F : \A U \in F : Cardinality(S) <= Cardinality(U)
    <3>1. F \in SUBSET SUBSET D
      OBVIOUS
    <3> HIDE DEF F
    <3> QED BY <1>1, <3>1, SmallestSubset
  <2>2. S \in SUBSET D
    OBVIOUS
  <2>3. PICK a \in S : g[S] # f[a] + g[S \ {a}]
    OBVIOUS
  <2> DEFINE x == Pick(S)
  <2>4. x \in S /\ g[S] = f[x] + g[S \ {x}]
    BY <2>2, <2>3, PickIn, PartialSumsEquation
  <2>5. x # a
    BY <2>3, <2>4
  <2>6. S \ {x} \notin F /\ S \ {a} \notin F
    <3> HIDE DEF F, x
    <3> QED BY <2>1, <2>2, <2>4, SmallerWithout
  <2> HIDE DEF x
  <2>7. /\ g[S \ {x}] = f[a] + g[(S \ {x}) \ {a}]
        /\ g[S \ {a}] = f[x] + g[(S \ {a}) \ {x}]
    BY <2>2, <2>4, <2>5, <2>6
  <2>8. (S \ {x}) \ {a} = (S \ {a}) \ {x}
    OBVIOUS
  <2>9. f[a] \in Int /\ f[x] \in Int /\ g[(S \ {a}) \ {x}] \in Int
    BY <2>2, <2>4, PartialSumsType
  <2> DEFINE r == g[(S \ {a}) \ {x}]
  <2>10. /\ g[S] = f[x] + (f[a] + r)
         /\ g[S \ {a}] = f[x] + r
         /\ r \in Int
    BY <2>4, <2>7, <2>8, <2>9
  <2> HIDE DEF g, F, r
  <2> QED BY <2>3, <2>9, <2>10
<1> QED
  BY <1>1

(* The sum over a set depends only on the function's values there.         *)
LEMMA PartialSumsLocal ==
  ASSUME NEW D, IsFiniteSet(D), NEW f \in [D -> Int],
         NEW E, IsFiniteSet(E), NEW h \in [E -> Int]
  PROVE  \A S \in SUBSET (D \cap E) :
           Agree(f, h, S) => PartialSums(f, D)[S] = PartialSums(h, E)[S]
<1> DEFINE g == PartialSums(f, D)
           k == PartialSums(h, E)
           F == {S \in SUBSET (D \cap E) : Agree(f, h, S) /\ g[S] # k[S]}
<1>1. ASSUME F # {} PROVE FALSE
  <2>1. PICK S \in F : \A U \in F : Cardinality(S) <= Cardinality(U)
    <3>1. F \in SUBSET SUBSET D
      OBVIOUS
    <3> HIDE DEF F
    <3> QED BY <1>1, <3>1, SmallestSubset
  <2>2. S \in SUBSET D /\ S \in SUBSET E /\ Agree(f, h, S) /\ g[S] # k[S]
    OBVIOUS
  <2>3. S # {}
    BY <2>2, PartialSumsEquation
  <2>4. /\ g[S] = f[Pick(S)] + g[S \ {Pick(S)}]
        /\ k[S] = h[Pick(S)] + k[S \ {Pick(S)}]
        /\ Pick(S) \in S
    BY <2>2, <2>3, PickIn, PartialSumsEquation
  <2>5. S \ {Pick(S)} \notin F
    <3> HIDE DEF F
    <3> QED BY <2>1, <2>2, <2>4, SmallerWithout
  <2>6. Agree(f, h, S \ {Pick(S)}) /\ f[Pick(S)] = h[Pick(S)]
    BY <2>2, <2>4 DEF Agree
  <2> QED BY <2>2, <2>4, <2>5, <2>6
<1> QED
  BY <1>1

-----------------------------------------------------------------------------
LEMMA SumIsPartialSum ==
  ASSUME NEW f
  PROVE  SumFunction(f) = PartialSums(f, DOMAIN f)[DOMAIN f]
BY DEF SumFunction, SumFunctionOnSet, FoldFunctionOnSet, MapThenFoldSet,
       PartialSums, Unrolled, Pick

(* The empty sum.                                                          *)
THEOREM SumEmpty ==
  ASSUME NEW f, DOMAIN f = {}, f \in [{} -> Int]
  PROVE  SumFunction(f) = 0
<1>1. IsFiniteSet({})
  BY FS_EmptySet
<1> QED
  BY <1>1, SumIsPartialSum, PartialSumsEquation

THEOREM SumType ==
  ASSUME NEW D, IsFiniteSet(D), NEW f \in [D -> Int]
  PROVE  SumFunction(f) \in Int
BY SumIsPartialSum, PartialSumsType

(* Two functions that agree outside a differ in their sums by what they    *)
(* contribute at a, whether or not a is in their domains.                  *)
THEOREM SumChangesAtOnePoint ==
  ASSUME NEW D, IsFiniteSet(D), NEW f \in [D -> Int],
         NEW E, IsFiniteSet(E), NEW h \in [E -> Int],
         NEW a, D \ {a} = E \ {a}, Agree(f, h, D \ {a})
  PROVE  SumFunction(h) - (IF a \in E THEN h[a] ELSE 0)
           = SumFunction(f) - (IF a \in D THEN f[a] ELSE 0)
<1> DEFINE C == D \ {a}
           rest == PartialSums(f, D)[C]
<1>1. rest \in Int /\ rest = PartialSums(h, E)[C]
  BY PartialSumsType, PartialSumsLocal
<1>2. /\ SumFunction(f) = PartialSums(f, D)[D]
      /\ SumFunction(h) = PartialSums(h, E)[E]
  BY SumIsPartialSum
<1>3. SumFunction(f) = rest + (IF a \in D THEN f[a] ELSE 0)
  <2>1. CASE a \in D
    <3>1. SumFunction(f) = f[a] + rest
      BY <2>1, <1>2, PartialSumsRemove
    <3> QED BY <2>1, <3>1, <1>1
  <2>2. CASE a \notin D
    <3>1. C = D
      BY <2>2
    <3>2. SumFunction(f) = rest
      BY <3>1, <1>2
    <3> HIDE DEF rest
    <3> QED BY <2>2, <3>2, <1>1
  <2> QED BY <2>1, <2>2
<1>4. SumFunction(h) = rest + (IF a \in E THEN h[a] ELSE 0)
  <2>1. C = E \ {a}
    OBVIOUS
  <2>2. CASE a \in E
    <3>1. SumFunction(h) = h[a] + PartialSums(h, E)[E \ {a}]
      BY <2>2, <1>2, PartialSumsRemove
    <3>2. SumFunction(h) = h[a] + rest
      BY <2>1, <3>1, <1>1
    <3> HIDE DEF rest, C
    <3> QED BY <2>2, <3>2, <1>1
  <2>3. CASE a \notin E
    <3>1. C = E
      BY <2>1, <2>3
    <3>2. SumFunction(h) = PartialSums(h, E)[C]
      BY <3>1, <1>2
    <3>3. SumFunction(h) = rest
      BY <3>2, <1>1
    <3> HIDE DEF rest, C
    <3> QED BY <2>3, <3>3, <1>1
  <2> QED BY <2>2, <2>3
<1> QED
  BY <1>1, <1>3, <1>4

(* A sum of naturals is a natural, and no less than any of its terms.      *)
THEOREM SumOfNaturals ==
  ASSUME NEW D, IsFiniteSet(D), NEW f \in [D -> Int],
         \A a \in D : f[a] \in Nat
  PROVE  /\ SumFunction(f) \in Nat
         /\ \A a \in D : f[a] <= SumFunction(f)
<1> DEFINE g == PartialSums(f, D)
           F == {S \in SUBSET D : g[S] \notin Nat}
<1>1. ASSUME F # {} PROVE FALSE
  <2>1. PICK S \in F : \A U \in F : Cardinality(S) <= Cardinality(U)
    <3>1. F \in SUBSET SUBSET D
      OBVIOUS
    <3> HIDE DEF F
    <3> QED BY <1>1, <3>1, SmallestSubset
  <2>2. S \in SUBSET D /\ g[S] \notin Nat
    OBVIOUS
  <2>3. S # {} /\ g[S] = f[Pick(S)] + g[S \ {Pick(S)}]
    <3> HIDE DEF F
    <3>1. S = {} => g[S] = 0
      BY <2>2, PartialSumsEquation
    <3>2. S # {} => g[S] = f[Pick(S)] + g[S \ {Pick(S)}]
      BY <2>2, PartialSumsEquation
    <3> HIDE DEF g
    <3> QED BY <2>2, <3>1, <3>2
  <2>4. Pick(S) \in S
    BY <2>3, PickIn
  <2>5. S \ {Pick(S)} \notin F
    <3> HIDE DEF F
    <3> QED BY <2>1, <2>2, <2>4, SmallerWithout
  <2> QED BY <2>2, <2>3, <2>4, <2>5
<1>2. \A S \in SUBSET D : g[S] \in Nat
  BY <1>1
<1>3. SumFunction(f) = g[D]
  BY SumIsPartialSum
<1>4. ASSUME NEW a \in D PROVE f[a] <= g[D]
  <2>1. g[D] = f[a] + g[D \ {a}]
    <3>1. D \in SUBSET D
      OBVIOUS
    <3> QED BY <3>1, PartialSumsRemove
  <2>2. g[D \ {a}] \in Nat
    BY <1>2
  <2> HIDE DEF g
  <2> QED BY <2>1, <2>2
<1> QED
  BY <1>2, <1>3, <1>4
=============================================================================
