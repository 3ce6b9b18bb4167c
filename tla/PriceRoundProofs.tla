-------------------------- MODULE PriceRoundProofs -------------------------
(***************************************************************************)
(* Proofs about the price rounds of variant B, for every value of the      *)
(* feed, every price and every vault.                                      *)
(*                                                                         *)
(* The three sums that matter, of the values of the coins, of their number *)
(* and of what their values have above one unit each, are sums over a bag  *)
(* with a weight for each coin: 1, the value, the value less one.  What a  *)
(* sweep does to such a sum is shown once, for any weight.                 *)
(***************************************************************************)
EXTENDS PriceRounds, SumLemmas

-----------------------------------------------------------------------------
(* Bags with weights.                                                      *)

FiniteBag(B, S) == IsABag(B) /\ DOMAIN B \subseteq S /\ IsFiniteSet(DOMAIN B)

(* What the copies of each element of B weigh together; w is a function.   *)
Weighted(B, w) == [x \in DOMAIN B |-> w[x] * B[x]]
Weight(B, w) == SumFunction(Weighted(B, w))

LEMMA WeightedType ==
  ASSUME NEW S, NEW w \in [S -> Int], NEW B, FiniteBag(B, S)
  PROVE  /\ Weighted(B, w) \in [DOMAIN B -> Int]
         /\ DOMAIN Weighted(B, w) = DOMAIN B
         /\ Weight(B, w) \in Int
<1>1. Weighted(B, w) \in [DOMAIN B -> Int]
  BY DEF Weighted, FiniteBag, IsABag
<1>2. DOMAIN Weighted(B, w) = DOMAIN B
  BY DEF Weighted
<1>. QED BY <1>1, <1>2, SumType DEF FiniteBag, Weight

(* Weights that are naturals have a sum that is one.                       *)
LEMMA WeightOfNaturals ==
  ASSUME NEW S, NEW w \in [S -> Nat], NEW B, FiniteBag(B, S)
  PROVE  Weight(B, w) \in Nat
<1>1. Weighted(B, w) \in [DOMAIN B -> Int]
  BY DEF Weighted, FiniteBag, IsABag
<1>2. \A x \in DOMAIN B : Weighted(B, w)[x] \in Nat
  <2>1. ASSUME NEW x \in DOMAIN B PROVE w[x] * B[x] \in Nat
    <3>1. w[x] \in Nat /\ B[x] \in Nat
      BY DEF FiniteBag, IsABag
    <3>. QED BY <3>1
  <2>. QED BY <2>1 DEF Weighted
<1>. QED BY <1>1, <1>2, SumOfNaturals DEF FiniteBag, Weight

(* Two bags that have the same copies of all but one element.              *)
LEMMA WeightChanges ==
  ASSUME NEW S, NEW w \in [S -> Int], NEW B, FiniteBag(B, S),
         NEW C, FiniteBag(C, S), NEW a \in S,
         DOMAIN B \ {a} = DOMAIN C \ {a}, Agree(B, C, DOMAIN B \ {a}),
         NEW n \in Int,
         (IF a \in DOMAIN C THEN C[a] ELSE 0)
           = (IF a \in DOMAIN B THEN B[a] ELSE 0) + n
  PROVE  Weight(C, w) = Weight(B, w) + w[a] * n
<1>. DEFINE f == Weighted(B, w)
            h == Weighted(C, w)
            before == IF a \in DOMAIN B THEN B[a] ELSE 0
            after == IF a \in DOMAIN C THEN C[a] ELSE 0
<1>1. /\ f \in [DOMAIN B -> Int] /\ h \in [DOMAIN C -> Int]
      /\ Weight(B, w) \in Int /\ Weight(C, w) \in Int
  BY WeightedType
<1>2. Agree(f, h, DOMAIN B \ {a})
  BY DEF Weighted, Agree
<1>3. SumFunction(h) - (IF a \in DOMAIN C THEN h[a] ELSE 0)
        = SumFunction(f) - (IF a \in DOMAIN B THEN f[a] ELSE 0)
  <2>. HIDE DEF f, h
  <2>. QED BY <1>1, <1>2, SumChangesAtOnePoint DEF FiniteBag
<1>4. w[a] \in Int /\ before \in Int /\ after \in Int /\ after = before + n
  BY DEF FiniteBag, IsABag
<1>5. /\ (IF a \in DOMAIN B THEN f[a] ELSE 0) = w[a] * before
      /\ (IF a \in DOMAIN C THEN h[a] ELSE 0) = w[a] * after
  BY <1>4 DEF Weighted
<1>6. w[a] * after = w[a] * before + w[a] * n
  <2>. HIDE DEF before, after
  <2>. QED BY <1>4
<1>7. w[a] * before \in Int /\ w[a] * n \in Int
  BY <1>4
<1>. HIDE DEF before, after, f, h
<1>8. SumFunction(h) - (w[a] * before + w[a] * n)
        = SumFunction(f) - w[a] * before
  BY <1>3, <1>5, <1>6
<1>. QED BY <1>1, <1>7, <1>8 DEF Weight, f, h

With(B, a) == B (+) SetToBag({a})
Without(B, a) == B (-) SetToBag({a})

LEMMA AddOne ==
  ASSUME NEW S, NEW w \in [S -> Int], NEW B, FiniteBag(B, S), NEW a \in S
  PROVE  /\ FiniteBag(With(B, a), S)
         /\ Weight(With(B, a), w) = Weight(B, w) + w[a]
         /\ DOMAIN With(B, a) \subseteq DOMAIN B \cup {a}
<1>. DEFINE C == With(B, a)
<1>1. C = [x \in DOMAIN B \cup {a} |->
             (IF x \in DOMAIN B THEN B[x] ELSE 0) + (IF x = a THEN 1 ELSE 0)]
  BY DEF With, SetToBag, (+)
<1>2. DOMAIN C = DOMAIN B \cup {a}
  BY <1>1
<1>3. IsABag(C)
  BY <1>1 DEF FiniteBag, IsABag
<1>4. FiniteBag(C, S)
  BY <1>2, <1>3, FS_AddElement DEF FiniteBag
<1>5. Agree(B, C, DOMAIN B \ {a})
  BY <1>1 DEF Agree, FiniteBag, IsABag
<1>6. (IF a \in DOMAIN C THEN C[a] ELSE 0)
        = (IF a \in DOMAIN B THEN B[a] ELSE 0) + 1
  BY <1>1
<1>7. DOMAIN B \ {a} = DOMAIN C \ {a} /\ w[a] * 1 = w[a]
  BY <1>2
<1>. HIDE DEF C
<1>8. Weight(C, w) = Weight(B, w) + w[a] * 1
  BY <1>4, <1>5, <1>6, <1>7, WeightChanges
<1>. QED BY <1>2, <1>4, <1>7, <1>8 DEF C

LEMMA RemoveOne ==
  ASSUME NEW S, NEW w \in [S -> Int], NEW B, FiniteBag(B, S),
         NEW a \in DOMAIN B
  PROVE  /\ FiniteBag(Without(B, a), S)
         /\ Weight(Without(B, a), w) = Weight(B, w) - w[a]
         /\ DOMAIN Without(B, a) \subseteq DOMAIN B
<1>. DEFINE C == Without(B, a)
            E == {x \in DOMAIN B : x = a => B[x] > 1}
<1>1. C = [x \in E |-> IF x = a THEN B[x] - 1 ELSE B[x]]
  <2>. DEFINE less == [e \in DOMAIN B |-> IF e \in DOMAIN SetToBag({a})
                                          THEN B[e] - SetToBag({a})[e] ELSE B[e]]
  <2>1. less = [e \in DOMAIN B |-> IF e = a THEN B[e] - 1 ELSE B[e]]
    BY DEF SetToBag
  <2>2. {x \in DOMAIN less : less[x] > 0} = E
    BY <2>1 DEF FiniteBag, IsABag
  <2>3. C = [e \in {x \in DOMAIN less : less[x] > 0} |-> less[e]]
    BY DEF Without, (-)
  <2>. QED BY <2>1, <2>2, <2>3
<1>2. DOMAIN C = E
  BY <1>1
<1>3. IsABag(C)
  <2>1. \A x \in E : (IF x = a THEN B[x] - 1 ELSE B[x]) \in {n \in Nat : n > 0}
    BY DEF FiniteBag, IsABag
  <2>2. C \in [E -> {n \in Nat : n > 0}]
    <3>. HIDE DEF C, E
    <3>. QED BY <1>1, <2>1
  <2>. QED BY <1>2, <2>2 DEF IsABag
<1>4. FiniteBag(C, S)
  <2>1. E \subseteq DOMAIN B
    OBVIOUS
  <2>2. IsFiniteSet(E)
    BY <2>1, FS_Subset DEF FiniteBag
  <2>. QED BY <1>2, <1>3, <2>1, <2>2 DEF FiniteBag
<1>5. Agree(B, C, DOMAIN B \ {a})
  BY <1>1 DEF Agree
<1>6. (IF a \in DOMAIN C THEN C[a] ELSE 0)
        = (IF a \in DOMAIN B THEN B[a] ELSE 0) + (0 - 1)
  BY <1>1 DEF FiniteBag, IsABag
<1>7. DOMAIN B \ {a} = DOMAIN C \ {a} /\ a \in S /\ 0 - 1 \in Int
  BY <1>2 DEF FiniteBag
<1>8. w[a] \in Int /\ w[a] * (0 - 1) = 0 - w[a]
  BY <1>7
<1>9. DOMAIN C \subseteq DOMAIN B
  BY <1>2
<1>. HIDE DEF C
<1>10. Weight(C, w) = Weight(B, w) + w[a] * (0 - 1)
  BY <1>4, <1>5, <1>6, <1>7, WeightChanges
<1>11. Weight(B, w) \in Int
  BY WeightedType
<1>12. Weight(C, w) = Weight(B, w) - w[a]
  BY <1>8, <1>10, <1>11
<1>. QED BY <1>4, <1>9, <1>12 DEF C

-----------------------------------------------------------------------------
(* The three sums.                                                         *)

(* What any coin may be, whatever was announced.                           *)
AnyCoin == [value : Nat \ {0}, round : Nat, price : Int]

Single == [c \in AnyCoin |-> 1]
Worth == [c \in AnyCoin |-> c.value]
Spare == [c \in AnyCoin |-> c.value - 1]

LEMMA WeightTypes ==
  /\ Single \in [AnyCoin -> Nat] /\ Single \in [AnyCoin -> Int]
  /\ Worth \in [AnyCoin -> Nat] /\ Worth \in [AnyCoin -> Int]
  /\ Spare \in [AnyCoin -> Nat] /\ Spare \in [AnyCoin -> Int]
BY DEF AnyCoin, Single, Worth, Spare

(* A sweep takes one coin out and puts two in.                             *)
LEMMA SweptWeight ==
  ASSUME NEW S, NEW w \in [S -> Int], NEW A, FiniteBag(A, S),
         NEW c \in DOMAIN A, NEW l \in S, NEW r \in S
  PROVE  LET B == With(With(Without(A, c), l), r) IN
         /\ FiniteBag(B, S)
         /\ Weight(B, w) = Weight(A, w) - w[c] + w[l] + w[r]
         /\ DOMAIN B \subseteq DOMAIN A \cup {l, r}
<1>. DEFINE B1 == Without(A, c)
            B2 == With(B1, l)
            B == With(B2, r)
<1>4. /\ FiniteBag(B1, S) /\ Weight(B1, w) = Weight(A, w) - w[c]
      /\ DOMAIN B1 \subseteq DOMAIN A
  BY RemoveOne
<1>. HIDE DEF B1
<1>5. /\ FiniteBag(B2, S) /\ Weight(B2, w) = Weight(B1, w) + w[l]
      /\ DOMAIN B2 \subseteq DOMAIN B1 \cup {l}
  BY <1>4, AddOne
<1>. HIDE DEF B2
<1>6. /\ FiniteBag(B, S) /\ Weight(B, w) = Weight(B2, w) + w[r]
      /\ DOMAIN B \subseteq DOMAIN B2 \cup {r}
  BY <1>5, AddOne
<1>. QED BY <1>4, <1>5, <1>6 DEF B1, B2

LEMMA SweptBag ==
  ASSUME NEW S, NEW A, FiniteBag(A, S), NEW c \in DOMAIN A, NEW l, NEW r
  PROVE  (A (-) SetToBag({c})) (+) (SetToBag({l}) (+) SetToBag({r}))
           = With(With(Without(A, c), l), r)
<1>. DEFINE B == A (-) SetToBag({c})
<1>1. \A x \in DOMAIN B : B[x] \in Nat
  BY DEF FiniteBag, IsABag, SetToBag, (-)
<1>2. Without(A, c) = B
  BY DEF Without
<1>. HIDE DEF B
<1>3. B (+) (SetToBag({l}) (+) SetToBag({r})) = With(With(B, l), r)
  BY <1>1 DEF SetToBag, (+), With
<1>. QED BY <1>2, <1>3 DEF B

-----------------------------------------------------------------------------
(* The invariant.                                                          *)

(* The types, the finiteness of the bag and the three sums.  The last of   *)
(* them is what makes updates run out: each sweep takes one unit from what *)
(* the coins have to spare, and that is never less than nothing.           *)
RoundsInv ==
  /\ TypeOK
  /\ sweeps \in Nat /\ announced \subseteq Int
  /\ FiniteBag(coins, AnyCoin)
  /\ Weight(coins, Single) = 1 + sweeps
  /\ Weight(coins, Worth) = FeedValue
  /\ Weight(coins, Spare) = FeedValue - 1 - sweeps

(* The bag with one coin weighs what the coin does.                        *)
LEMMA OneCoin ==
  ASSUME NEW S, NEW w \in [S -> Int], NEW c \in S
  PROVE  /\ FiniteBag(SetToBag({c}), S)
         /\ Weight(SetToBag({c}), w) = w[c]
<1>. DEFINE B == SetToBag({c})
            none == [x \in {} |-> 0]
            f == Weighted(B, w)
<1>1. B = [x \in {c} |-> 1]
  BY DEF SetToBag
<1>2. IsFiniteSet({c}) /\ IsFiniteSet({})
  BY FS_Singleton, FS_EmptySet
<1>3. FiniteBag(B, S)
  BY <1>1, <1>2 DEF FiniteBag, IsABag
<1>4. f \in [{c} -> Int] /\ f[c] = w[c]
  <2>1. w[c] \in Int /\ w[c] * 1 = w[c]
    OBVIOUS
  <2>2. f = [x \in {c} |-> w[c]]
    BY <1>1, <2>1 DEF Weighted
  <2>. QED BY <2>1, <2>2
<1>5. none \in [{} -> Int] /\ SumFunction(none) = 0
  BY SumEmpty
<1>. HIDE DEF f, none, B
<1>6. SumFunction(f) - f[c] = 0
  <2>. DEFINE D == {}
              E == {c}
  <2>1. D \ {c} = E \ {c} /\ Agree(none, f, D \ {c}) /\ c \notin D /\ c \in E
    BY DEF Agree
  <2>2. IsFiniteSet(D) /\ IsFiniteSet(E) /\ none \in [D -> Int] /\ f \in [E -> Int]
    BY <1>2, <1>4, <1>5
  <2>. HIDE DEF D, E
  <2>3. SumFunction(f) - (IF c \in E THEN f[c] ELSE 0)
          = SumFunction(none) - (IF c \in D THEN none[c] ELSE 0)
    BY <2>1, <2>2, SumChangesAtOnePoint
  <2>. QED BY <1>5, <2>1, <2>3
<1>7. SumFunction(f) \in Int /\ f[c] \in Int
  BY <1>2, <1>4, SumType
<1>8. SumFunction(f) = w[c]
  BY <1>4, <1>6, <1>7
<1>. QED BY <1>3, <1>8 DEF Weight, B, f

LEMMA RoundsInit == Init => RoundsInv
<1>. SUFFICES ASSUME Init PROVE RoundsInv
  OBVIOUS
<1>. DEFINE c == [value |-> FeedValue, round |-> 0, price |-> GenesisPrice]
<1>1. coins = SetToBag({c}) /\ sweeps = 0 /\ announced = {GenesisPrice}
  BY DEF Init
<1>2. c \in AnyCoin /\ c \in Coin
  BY <1>1, GenesisAssumption DEF AnyCoin, Coin
<1>3. Single[c] = 1 /\ Worth[c] = FeedValue /\ Spare[c] = FeedValue - 1
  BY <1>2 DEF Single, Worth, Spare
<1>. HIDE DEF c
<1>4. FiniteBag(coins, AnyCoin)
  BY <1>1, <1>2, WeightTypes, OneCoin
<1>5. /\ Weight(coins, Single) = 1
      /\ Weight(coins, Worth) = FeedValue
      /\ Weight(coins, Spare) = FeedValue - 1
  BY <1>1, <1>2, <1>3, WeightTypes, OneCoin
<1>6. BagToSet(coins) \subseteq Coin
  BY <1>1, <1>2 DEF BagToSet, SetToBag
<1>7. \A v \in DOMAIN vaults : vaults[v] \in Vault
  BY GenesisAssumption DEF Init
<1>8. DOMAIN vaults \subseteq VaultIds
  BY DEF Init
<1>9. announced \subseteq Int /\ FeedValue \in Int
  BY <1>1, GenesisAssumption
<1>10. TypeOK
  BY <1>4, <1>6, <1>7, <1>8 DEF TypeOK, FiniteBag
<1>11. sweeps \in Nat /\ 1 = 1 + sweeps /\ FeedValue - 1 = FeedValue - 1 - sweeps
  BY <1>1, <1>9
<1>. QED BY <1>4, <1>5, <1>9, <1>10, <1>11 DEF RoundsInv

(* What a sweep does to the coins.                                         *)
LEMMA SweepKeepsBooks ==
  ASSUME RoundsInv, NEW c \in BagToSet(coins), NEW p \in Prices,
         NEW left \in 0 .. FeedValue, Sweep(c, p, left)
  PROVE  RoundsInv'
<1>. DEFINE l == [value |-> left, round |-> c.round + 1, price |-> p]
            r == [value |-> c.value - left, round |-> c.round + 1, price |-> p]
<1>1. c \in DOMAIN coins /\ c \in AnyCoin /\ c \in Coin
  BY DEF BagToSet, RoundsInv, FiniteBag, TypeOK
<1>2. /\ sweeps' = sweeps + 1 /\ announced' = announced \cup {p}
      /\ vaults' = vaults /\ left > 0 /\ left < c.value
  BY DEF Sweep, Sweepable
<1>3. /\ sweeps \in Nat /\ left \in Int /\ p \in Int /\ announced \subseteq Int
      /\ FeedValue \in Nat
  BY InputAssumption, GenesisAssumption DEF RoundsInv
<1>4. c.value \in Nat \ {0} /\ c.round \in 0 .. sweeps
  BY <1>1 DEF Coin
<1>5. l \in AnyCoin /\ r \in AnyCoin
  BY <1>2, <1>3, <1>4 DEF AnyCoin
<1>6. l \in Coin' /\ r \in Coin'
  BY <1>2, <1>3, <1>4 DEF Coin
<1>7. Coin \subseteq Coin'
  BY <1>2, <1>3 DEF Coin
<1>8. /\ Single[c] = 1 /\ Single[l] = 1 /\ Single[r] = 1
      /\ Worth[c] = c.value /\ Worth[l] = left /\ Worth[r] = c.value - left
      /\ Spare[c] = c.value - 1 /\ Spare[l] = left - 1
      /\ Spare[r] = c.value - left - 1
  BY <1>1, <1>3, <1>4, <1>5 DEF Single, Worth, Spare
<1>9. coins' = With(With(Without(coins, c), l), r)
  <2>1. coins' = (coins (-) SetToBag({c})) (+) (SetToBag({l}) (+) SetToBag({r}))
    BY DEF Sweep, Children
  <2>. HIDE DEF l, r
  <2>. QED BY <1>1, <2>1, SweptBag DEF RoundsInv
<1>. HIDE DEF l, r
<1>10. FiniteBag(coins, AnyCoin)
  BY DEF RoundsInv
<1>11. /\ FiniteBag(coins', AnyCoin)
       /\ DOMAIN coins' \subseteq DOMAIN coins \cup {l, r}
       /\ Weight(coins', Single)
            = Weight(coins, Single) - Single[c] + Single[l] + Single[r]
  BY <1>1, <1>5, <1>9, <1>10, WeightTypes, SweptWeight
<1>12. Weight(coins', Worth)
            = Weight(coins, Worth) - Worth[c] + Worth[l] + Worth[r]
  BY <1>1, <1>5, <1>9, <1>10, WeightTypes, SweptWeight
<1>13. Weight(coins', Spare)
            = Weight(coins, Spare) - Spare[c] + Spare[l] + Spare[r]
  BY <1>1, <1>5, <1>9, <1>10, WeightTypes, SweptWeight
<1>14. /\ Weight(coins', Single) = 1 + sweeps'
       /\ Weight(coins', Worth) = FeedValue
       /\ Weight(coins', Spare) = FeedValue - 1 - sweeps'
  BY <1>2, <1>3, <1>4, <1>8, <1>11, <1>12, <1>13 DEF RoundsInv
<1>15. TypeOK'
  <2>1. BagToSet(coins)' \subseteq Coin'
    BY <1>6, <1>7, <1>11 DEF BagToSet, RoundsInv, TypeOK
  <2>2. IsABag(coins)'
    BY <1>11 DEF FiniteBag
  <2>. QED BY <1>2, <2>1, <2>2 DEF TypeOK, RoundsInv
<1>16. sweeps' \in Nat /\ announced' \subseteq Int
  BY <1>2, <1>3
<1>. QED BY <1>11, <1>14, <1>15, <1>16 DEF RoundsInv

LEMMA RoundsNext == RoundsInv /\ [Next]_vars => RoundsInv'
<1>. SUFFICES ASSUME RoundsInv, [Next]_vars PROVE RoundsInv'
  OBVIOUS
<1>1. ASSUME NEW c \in BagToSet(coins), NEW p \in Prices,
             NEW left \in 0 .. FeedValue, Sweep(c, p, left)
      PROVE  RoundsInv'
  BY <1>1, SweepKeepsBooks
<1>2. ASSUME NEW c \in BagToSet(coins), NEW v \in DOMAIN vaults, Liquidate(v, c)
      PROVE  RoundsInv'
  <2>1. UNCHANGED <<coins, announced, sweeps>>
    BY <1>2 DEF Liquidate
  <2>2. TypeOK'
    BY <1>2, <2>1 DEF Liquidate, RoundsInv, TypeOK, Coin
  <2>. QED BY <2>1, <2>2 DEF RoundsInv
<1>3. ASSUME NEW c \in BagToSet(coins), NEW v \in DOMAIN vaults,
             NEW n \in Withdrawals, Withdraw(v, c, n)
      PROVE  RoundsInv'
  <2>1. UNCHANGED <<coins, announced, sweeps>>
    BY <1>3 DEF Withdraw
  <2>2. n \in Int /\ n > 0 /\ n <= vaults[v].value /\ vaults[v] \in Vault
    BY <1>3, InputAssumption DEF Withdraw, Withdrawable, RoundsInv, TypeOK
  <2>. DEFINE w == [vaults[v] EXCEPT !.value = @ - n]
  <2>3. w \in Vault
    BY <2>2 DEF Vault
  <2>4. vaults' = [vaults EXCEPT ![v] = w]
    BY <1>3 DEF Withdraw
  <2>. HIDE DEF w
  <2>5. TypeOK'
    BY <2>1, <2>3, <2>4 DEF RoundsInv, TypeOK, Coin
  <2>. QED BY <2>1, <2>5 DEF RoundsInv
<1>4. CASE UNCHANGED vars
  BY <1>4 DEF vars, RoundsInv, TypeOK, Coin
<1>. QED BY <1>1, <1>2, <1>3, <1>4 DEF Next

LEMMA RoundsInvariant == Spec => []RoundsInv
BY RoundsInit, RoundsNext, PTL DEF Spec

-----------------------------------------------------------------------------
(* Theorems.                                                               *)

(* Coins never lose all of their value and only carry published prices,    *)
(* whatever the publisher sweeps; no withdrawal overdraws a vault.         *)
THEOREM RoundsTyped == Spec => []TypeOK
<1>1. RoundsInv => TypeOK
  BY DEF RoundsInv
<1>. QED BY <1>1, RoundsInvariant, PTL

(* The coins together keep the value the oracle began with.                *)
THEOREM FeedNotDrained == Spec => []FeedKeepsItsValue
<1>1. ASSUME RoundsInv PROVE FeedKeepsItsValue
  <2>1. DOMAIN coins \subseteq AnyCoin
    BY <1>1 DEF RoundsInv, FiniteBag
  <2>2. Weighted(coins, Worth) = [c \in BagToSet(coins) |-> c.value * coins[c]]
    BY <2>1 DEF Weighted, Worth, BagToSet
  <2>. QED BY <1>1, <2>2 DEF RoundsInv, Weight, FeedKeepsItsValue
<1>. QED BY <1>1, RoundsInvariant, PTL

(* There is one coin more than there were sweeps, and fewer sweeps than    *)
(* the feed has units of value: the publisher's updates are numbered.      *)
THEOREM SweepsRunOut == Spec => []UpdatesRunOut
<1>1. ASSUME RoundsInv PROVE UpdatesRunOut
  <2>1. DOMAIN coins \subseteq AnyCoin /\ FiniteBag(coins, AnyCoin)
    BY <1>1 DEF RoundsInv, FiniteBag
  <2>2. coins = [c \in DOMAIN coins |-> coins[c]]
    BY <2>1 DEF FiniteBag, IsABag
  <2>3. \A c \in DOMAIN coins : coins[c] \in Nat /\ Single[c] * coins[c] = coins[c]
    BY <2>1 DEF FiniteBag, IsABag, Single
  <2>4. Weighted(coins, Single) = coins
    BY <2>2, <2>3 DEF Weighted
  <2>5. FeedValue - 1 - sweeps \in Nat
    <3>1. Weight(coins, Spare) \in Nat
      BY <2>1, WeightTypes, WeightOfNaturals
    <3>. QED BY <1>1, <3>1 DEF RoundsInv
  <2>6. sweeps < FeedValue
    BY <1>1, <2>5, GenesisAssumption DEF RoundsInv
  <2>. QED BY <1>1, <2>4, <2>6 DEF RoundsInv, Weight, UpdatesRunOut
<1>. QED BY <1>1, RoundsInvariant, PTL

(* Whatever coin a caller picks, and however old it is, a vault is taken   *)
(* away only below the trigger at some price the publisher announced, and  *)
(* its owner's withdrawal leaves the opening ratio at such a price.        *)
THEOREM JudgedAuthentically == Spec => JudgedAtPublishedPrices
<1>. DEFINE Judged ==
       \A v \in DOMAIN vaults :
         /\ v \notin DOMAIN vaults' =>
              \E p \in announced :
                IcrPercent(vaults[v].value, p, vaults[v].debt) < McrTrigger
         /\ v \in DOMAIN vaults' /\ vaults'[v] # vaults[v] =>
              \E p \in announced :
                IcrPercent(vaults'[v].value, p, vaults[v].debt) >= IcrMinimum
<1>1. RoundsInv /\ [Next]_vars => Judged
  <2>. SUFFICES ASSUME RoundsInv, [Next]_vars PROVE Judged
    OBVIOUS
  <2>1. \A c \in BagToSet(coins) : c.price \in announced
    BY DEF RoundsInv, TypeOK, Coin
  <2>2. ASSUME NEW c \in BagToSet(coins), NEW u \in DOMAIN vaults, Liquidate(u, c)
        PROVE  Judged
    BY <2>1, <2>2 DEF Liquidate, Liquidatable
  <2>3. ASSUME NEW c \in BagToSet(coins), NEW u \in DOMAIN vaults,
               NEW n \in Withdrawals, Withdraw(u, c, n)
        PROVE  Judged
    <3>1. vaults[u] \in Vault
      BY DEF RoundsInv, TypeOK
    <3>2. /\ vaults' = [vaults EXCEPT ![u].value = @ - n]
          /\ IcrPercent(vaults[u].value - n, c.price, vaults[u].debt) >= IcrMinimum
      BY <2>3 DEF Withdraw, Withdrawable
    <3>3. vaults'[u].value = vaults[u].value - n
      BY <3>1, <3>2 DEF Vault
    <3>4. /\ DOMAIN vaults' = DOMAIN vaults
          /\ \A v \in DOMAIN vaults : v # u => vaults'[v] = vaults[v]
      BY <3>2
    <3>. QED BY <2>1, <3>2, <3>3, <3>4
  <2>4. ASSUME vaults' = vaults PROVE Judged
    BY <2>4
  <2>. QED BY <2>2, <2>3, <2>4 DEF Next, Sweep, vars
<1>. QED
  BY <1>1, RoundsInvariant, PTL DEF Spec, JudgedAtPublishedPrices, Judged
=============================================================================
