------------------------- MODULE KaspaTokensProofs -------------------------
(***************************************************************************)
(* Proofs about the token layer, for every set of addresses, every amount, *)
(* every cap the constructor accepts and every bound of the model.         *)
(*                                                                         *)
(* The inductive invariant is WellKept of both ledgers: the supply is the  *)
(* sum of a finite map of positive balances.  Each ledger operation is     *)
(* shown to preserve it once, as a lemma on ledgers; what a step does to   *)
(* the sum is SumChangesAtOnePoint of SumLemmas.                           *)
(*                                                                         *)
(* The second half is about the junior cap: the guard and the headroom of  *)
(* TokenLayer agree, only a senior burn breaches the cap, and the token    *)
(* layer implements TrancheSupply.                                         *)
(***************************************************************************)
EXTENDS KaspaTokens, SumLemmas

WellKept(ledger) ==
  /\ IsLedger(ledger)
  /\ IsFiniteSet(DOMAIN ledger.balances)
  /\ ledger.supply = SumOfBalances(ledger)

Books == WellKept(enrk) /\ WellKept(kfiat)

(* A finite map from well-formed addresses to positive balances.           *)
IsBook(b) ==
  /\ DOMAIN b \subseteq ValidAddresses
  /\ IsFiniteSet(DOMAIN b)
  /\ b \in [DOMAIN b -> Nat \ {0}]

-----------------------------------------------------------------------------
(* Setting one entry of a book gives a book whose sum changed by as much   *)
(* as the entry did.                                                       *)
LEMMA SetBalanceKeepsBook ==
  ASSUME NEW b, IsBook(b), NEW a \in ValidAddresses, NEW n \in Nat
  PROVE  /\ IsBook(SetBalance(b, a, n))
         /\ BalanceOf(b, a) \in Nat
         /\ SumFunction(b) \in Nat
         /\ BalanceOf(b, a) <= SumFunction(b)
         /\ SumFunction(SetBalance(b, a, n))
              = SumFunction(b) - BalanceOf(b, a) + n
         /\ \A x : x # a => BalanceOf(SetBalance(b, a, n), x) = BalanceOf(b, x)
<1> DEFINE D == DOMAIN b
           h == SetBalance(b, a, n)
           E == IF n = 0 THEN D \ {a} ELSE D \cup {a}
<1>1. h = [x \in E |-> IF x = a THEN n ELSE b[x]]
  BY DEF SetBalance
<1>2. IsFiniteSet(D) /\ IsFiniteSet(E)
  BY FS_AddElement, FS_RemoveElement DEF IsBook
<1>3. b \in [D -> Int] /\ \A x \in D : b[x] \in Nat \ {0}
  BY DEF IsBook
<1>4. DOMAIN h = E /\ h \in [E -> Int] /\ \A x \in E : h[x] \in Nat \ {0}
  BY <1>1, <1>3
<1>5. D \ {a} = E \ {a} /\ Agree(b, h, D \ {a})
  BY <1>1 DEF Agree
<1>6. IsBook(h)
  <2>1. E \subseteq ValidAddresses
    BY DEF IsBook
  <2>2. h \in [E -> Nat \ {0}]
    BY <1>1, <1>4
  <2> HIDE DEF h, E
  <2> QED BY <1>2, <1>4, <2>1, <2>2 DEF IsBook
<1>7. SumFunction(h) - (IF a \in E THEN h[a] ELSE 0)
        = SumFunction(b) - (IF a \in D THEN b[a] ELSE 0)
  <2> HIDE DEF h, E, D
  <2> QED BY <1>2, <1>3, <1>4, <1>5, SumChangesAtOnePoint
<1>8. (IF a \in E THEN h[a] ELSE 0) = n
  BY <1>1
<1>9. /\ SumFunction(b) \in Nat
      /\ \A x \in D : b[x] <= SumFunction(b)
  <2>1. \A x \in D : b[x] \in Nat
    BY <1>3
  <2> HIDE DEF D
  <2> QED BY <1>2, <1>3, <2>1, SumOfNaturals
<1>10. SumFunction(h) \in Int
  <2> HIDE DEF h, E
  <2> QED BY <1>2, <1>4, SumType
<1>11. BalanceOf(b, a) = (IF a \in D THEN b[a] ELSE 0)
  BY DEF BalanceOf
<1>12. BalanceOf(b, a) \in Nat /\ BalanceOf(b, a) <= SumFunction(b)
  BY <1>3, <1>9, <1>11
<1>13. SumFunction(h) = SumFunction(b) - BalanceOf(b, a) + n
  <2> HIDE DEF h, E
  <2> QED BY <1>7, <1>8, <1>9, <1>10, <1>11, <1>12
<1>14. \A x : x # a => BalanceOf(h, x) = BalanceOf(b, x)
  BY <1>1, <1>4 DEF BalanceOf
<1> QED
  BY <1>6, <1>9, <1>12, <1>13, <1>14

(* A well kept ledger is a book with its sum; this is how to make one.     *)
LEMMA WellKeptIsBook ==
  ASSUME NEW s, NEW b, IsBook(b), s \in Nat, s = SumFunction(b)
  PROVE  WellKept([supply |-> s, balances |-> b])
BY DEF WellKept, IsLedger, IsBook, SumOfBalances

LEMMA BookOfWellKept ==
  ASSUME NEW ledger, WellKept(ledger)
  PROVE  /\ IsBook(ledger.balances)
         /\ ledger.supply \in Nat
         /\ ledger.supply = SumFunction(ledger.balances)
         /\ ledger = [supply |-> ledger.supply, balances |-> ledger.balances]
BY DEF WellKept, IsLedger, IsBook, SumOfBalances

LEMMA MintedWellKept ==
  ASSUME NEW ledger, WellKept(ledger), NEW to, NEW n \in Int, Mintable(to, n)
  PROVE  WellKept(Minted(ledger, to, n))
<1> DEFINE b == ledger.balances
           m == BalanceOf(b, to) + n
<1>1. IsBook(b) /\ ledger.supply \in Nat /\ ledger.supply = SumFunction(b)
  BY BookOfWellKept
<1>2. to \in ValidAddresses /\ n \in Nat
  BY DEF Mintable
<1>3. BalanceOf(b, to) \in Nat
  BY <1>1, <1>2, SetBalanceKeepsBook
<1>4. m \in Nat
  BY <1>2, <1>3
<1>5. /\ IsBook(SetBalance(b, to, m))
      /\ SumFunction(SetBalance(b, to, m))
           = SumFunction(b) - BalanceOf(b, to) + m
  <2> HIDE DEF b, m
  <2> QED BY <1>1, <1>2, <1>4, SetBalanceKeepsBook
<1>6. SumFunction(SetBalance(b, to, m)) = ledger.supply + n
  <2> HIDE DEF b
  <2> QED BY <1>1, <1>2, <1>3, <1>5
<1>7. ledger.supply + n \in Nat
  BY <1>1, <1>2
<1> QED
  <2>1. Minted(ledger, to, n)
          = [supply |-> ledger.supply + n, balances |-> SetBalance(b, to, m)]
    BY DEF Minted, Credit
  <2> HIDE DEF b, m
  <2> QED BY <1>5, <1>6, <1>7, <2>1, WellKeptIsBook

LEMMA BurnedWellKept ==
  ASSUME NEW ledger, WellKept(ledger), NEW from, NEW n \in Int,
         Burnable(ledger, from, n)
  PROVE  WellKept(Burned(ledger, from, n))
<1> DEFINE b == ledger.balances
           m == BalanceOf(b, from) - n
<1>1. IsBook(b) /\ ledger.supply \in Nat /\ ledger.supply = SumFunction(b)
  BY BookOfWellKept
<1>2. /\ from \in ValidAddresses /\ n \in Nat
      /\ BalanceOf(b, from) >= n /\ ledger.supply >= n
  BY DEF Burnable
<1>3. BalanceOf(b, from) \in Nat
  BY <1>1, <1>2, SetBalanceKeepsBook
<1>4. m \in Nat
  BY <1>2, <1>3
<1>5. /\ IsBook(SetBalance(b, from, m))
      /\ SumFunction(SetBalance(b, from, m))
           = SumFunction(b) - BalanceOf(b, from) + m
  <2> HIDE DEF b, m
  <2> QED BY <1>1, <1>2, <1>4, SetBalanceKeepsBook
<1>6. SumFunction(SetBalance(b, from, m)) = ledger.supply - n
  <2> HIDE DEF b
  <2> QED BY <1>1, <1>2, <1>3, <1>5
<1>7. ledger.supply - n \in Nat
  BY <1>1, <1>2
<1> QED
  <2>1. Burned(ledger, from, n)
          = [supply |-> ledger.supply - n, balances |-> SetBalance(b, from, m)]
    BY DEF Burned, Debit
  <2> HIDE DEF b, m
  <2> QED BY <1>5, <1>6, <1>7, <2>1, WellKeptIsBook

LEMMA TransferredWellKept ==
  ASSUME NEW ledger, WellKept(ledger), NEW from, NEW to, NEW n \in Int,
         Transferable(ledger, from, to, n)
  PROVE  WellKept(Transferred(ledger, from, to, n))
<1> DEFINE b == ledger.balances
           m == BalanceOf(b, from) - n
           d == SetBalance(b, from, m)
           p == BalanceOf(d, to) + n
<1>1. IsBook(b) /\ ledger.supply \in Nat /\ ledger.supply = SumFunction(b)
  BY BookOfWellKept
<1>2. /\ from \in ValidAddresses /\ to \in ValidAddresses /\ n \in Nat
      /\ BalanceOf(b, from) >= n
  BY DEF Transferable
<1>3. BalanceOf(b, from) \in Nat
  BY <1>1, <1>2, SetBalanceKeepsBook
<1>4. m \in Nat
  BY <1>2, <1>3
<1>5. IsBook(d) /\ SumFunction(d) = SumFunction(b) - BalanceOf(b, from) + m
  <2> HIDE DEF b, m
  <2> QED BY <1>1, <1>2, <1>4, SetBalanceKeepsBook
<1>6. SumFunction(d) = ledger.supply - n
  <2> HIDE DEF b, d
  <2> QED BY <1>1, <1>2, <1>3, <1>5
<1>7. BalanceOf(d, to) \in Nat
  <2> HIDE DEF d
  <2> QED BY <1>2, <1>5, SetBalanceKeepsBook
<1>8. p \in Nat
  <2> HIDE DEF d
  <2> QED BY <1>2, <1>7
<1>9. /\ IsBook(SetBalance(d, to, p))
      /\ SumFunction(SetBalance(d, to, p))
           = SumFunction(d) - BalanceOf(d, to) + p
  <2> HIDE DEF d, p
  <2> QED BY <1>2, <1>5, <1>8, SetBalanceKeepsBook
<1>10. SumFunction(SetBalance(d, to, p)) = ledger.supply
  <2> HIDE DEF d
  <2> QED BY <1>1, <1>2, <1>6, <1>7, <1>9
<1> QED
  <2>1. Transferred(ledger, from, to, n)
          = [supply |-> ledger.supply, balances |-> SetBalance(d, to, p)]
    BY BookOfWellKept DEF Transferred, Credit, Debit
  <2> HIDE DEF b, d, p
  <2> QED BY <1>1, <1>9, <1>10, <2>1, WellKeptIsBook

-----------------------------------------------------------------------------
(* Both ledgers stay well kept.                                            *)
LEMMA BooksInit == Init => Books
<1> SUFFICES ASSUME Init PROVE Books
  OBVIOUS
<1> DEFINE none == [a \in {} |-> 0]
<1>1. IsBook(none) /\ SumFunction(none) = 0
  <2>1. DOMAIN none = {} /\ none \in [{} -> Int]
    OBVIOUS
  <2>2. SumFunction(none) = 0
    <3> HIDE DEF none
    <3> QED BY <2>1, SumEmpty
  <2>3. none \in [DOMAIN none -> Nat \ {0}]
    OBVIOUS
  <2> HIDE DEF none
  <2> QED BY <2>1, <2>2, <2>3, FS_EmptySet DEF IsBook
<1>2. WellKept([supply |-> 0, balances |-> none])
  <2> HIDE DEF none
  <2> QED BY <1>1, WellKeptIsBook
<1> QED
  BY <1>2 DEF Init, Books, EmptyLedger

LEMMA BooksNext == Books /\ [Next]_vars => Books'
<1> SUFFICES ASSUME Books, [Next]_vars PROVE Books'
  OBVIOUS
<1> USE AmountAssumption DEF Books
<1>1. ASSUME NEW a \in Addresses, NEW n \in Amounts, MintEnrk(a, n)
      PROVE  Books'
  BY <1>1, MintedWellKept DEF MintEnrk
<1>2. ASSUME NEW a \in Addresses, NEW n \in Amounts, MintKfiat(a, n)
      PROVE  Books'
  BY <1>2, MintedWellKept DEF MintKfiat
<1>3. ASSUME NEW a \in Addresses, NEW n \in Amounts, BurnEnrk(a, n)
      PROVE  Books'
  BY <1>3, BurnedWellKept DEF BurnEnrk
<1>4. ASSUME NEW a \in Addresses, NEW n \in Amounts, BurnKfiat(a, n)
      PROVE  Books'
  BY <1>4, BurnedWellKept DEF BurnKfiat
<1>5. ASSUME NEW a \in Addresses, NEW b \in Addresses, NEW n \in Amounts,
             TransferEnrk(a, b, n)
      PROVE  Books'
  BY <1>5, TransferredWellKept DEF TransferEnrk
<1>6. ASSUME NEW a \in Addresses, NEW b \in Addresses, NEW n \in Amounts,
             TransferKfiat(a, b, n)
      PROVE  Books'
  BY <1>6, TransferredWellKept DEF TransferKfiat
<1>7. CASE UNCHANGED vars
  BY <1>7 DEF vars
<1> QED
  BY <1>1, <1>2, <1>3, <1>4, <1>5, <1>6, <1>7 DEF Next

LEMMA BooksInvariant == Spec => []Books
BY BooksInit, BooksNext, PTL DEF Spec

(* Both ledgers keep their shape: natural supplies, positive entries, of   *)
(* well-formed addresses only.                                             *)
THEOREM TypeCorrect == Spec => []TypeOK
<1>1. Books => TypeOK
  BY DEF Books, WellKept, TypeOK
<1> QED
  BY <1>1, BooksInvariant, PTL

(* TokenLedger::verify_invariant never fails: the supply is the sum of the *)
(* balances after any sequence of mints, burns and transfers.              *)
THEOREM SupplyConserved == Spec => []SupplyIsSumOfBalances
<1>1. Books => SupplyIsSumOfBalances
  BY DEF Books, WellKept, SupplyIsSumOfBalances
<1> QED
  BY <1>1, BooksInvariant, PTL

(* The StateInconsistency branch of burn is never taken: whoever holds a   *)
(* balance may burn all of it.                                             *)
THEOREM BurnNeverStuck == Spec => []HoldersCanAlwaysBurn
<1>1. ASSUME NEW ledger, WellKept(ledger), NEW a \in DOMAIN ledger.balances
      PROVE  Burnable(ledger, a, ledger.balances[a])
  <2> DEFINE b == ledger.balances
  <2>1. IsBook(b) /\ ledger.supply = SumFunction(b)
    BY <1>1, BookOfWellKept
  <2>2. a \in ValidAddresses /\ BalanceOf(b, a) = b[a]
    BY <2>1 DEF IsBook, BalanceOf
  <2>3. b[a] \in Nat \ {0}
    BY <2>1 DEF IsBook
  <2>4. BalanceOf(b, a) <= SumFunction(b) /\ SumFunction(b) \in Nat
    <3> HIDE DEF b
    <3>1. 0 \in Nat
      OBVIOUS
    <3> QED BY <2>1, <2>2, <3>1, SetBalanceKeepsBook
  <2> QED BY <2>1, <2>2, <2>3, <2>4 DEF Burnable
<1>2. Books => HoldersCanAlwaysBurn
  BY <1>1 DEF Books, HoldersCanAlwaysBurn
<1> QED
  BY <1>2, BooksInvariant, PTL
-----------------------------------------------------------------------------
(* Arithmetic of the cap.                                                  *)

LEMMA CapDistributes ==
  ASSUME NEW x \in Int, NEW n \in Int
  PROVE  /\ CapPercent * (x + n) = CapPercent * x + CapPercent * n
         /\ CapPercent * n \in Int
         /\ n >= 0 => 0 <= CapPercent * n /\ CapPercent * n <= 99 * n
BY CapAssumption

(* The quotient of a natural number by 100 - CapPercent.                   *)
LEMMA QuotientBound ==
  ASSUME NEW a \in Nat, NEW n \in Int
  PROVE  /\ a \div (100 - CapPercent) \in Nat
         /\ n <= a \div (100 - CapPercent) <=> (100 - CapPercent) * n <= a
<1> DEFINE d == 100 - CapPercent
           q == a \div d
<1>1. d \in 1..99
  BY CapAssumption
<1>2. /\ q \in Int /\ d * q <= a /\ a < d * q + d
  <2> HIDE DEF d
  <2> QED BY <1>1
<1>3. q \in Nat
  <2> HIDE DEF d, q
  <2> QED BY <1>1, <1>2
<1>4. n <= q => d * n <= a
  <2> HIDE DEF d, q
  <2> QED BY <1>1, <1>2
<1>5. n > q => d * n > a
  <2> HIDE DEF d, q
  <2>1. ASSUME n >= q + 1 PROVE d * n >= d * (q + 1)
    BY <1>1, <1>2, <2>1
  <2>2. d * (q + 1) = d * q + d
    BY <1>1, <1>2
  <2> QED BY <1>1, <1>2, <2>1, <2>2
<1>6. n <= q <=> d * n <= a
  <2> HIDE DEF d, q
  <2> QED BY <1>1, <1>3, <1>4, <1>5
<1> QED
  BY <1>3, <1>6

(* A junior mint fits exactly up to the headroom.                          *)
LEMMA FitsUpToHeadroom ==
  ASSUME NEW e \in Nat, NEW k \in Nat, NEW n \in Nat \ {0}
  PROVE  JuniorMintFits(e, k, n) <=> n <= MaxMintable(e, k)
<1> DEFINE a == CapPercent * (e + k) - 100 * k
<1>1. CapPercent * (e + k + n) = CapPercent * (e + k) + CapPercent * n
  BY CapDistributes
<1>2. (100 - CapPercent) * n = 100 * n - CapPercent * n
  BY CapAssumption
<1>3. /\ CapPercent * (e + k) \in Int /\ CapPercent * n \in Int
      /\ CapPercent * n <= 99 * n
  BY CapDistributes
<1>4. JuniorMintFits(e, k, n) <=> (100 - CapPercent) * n <= a
  BY <1>1, <1>2, <1>3 DEF JuniorMintFits
<1>5. CASE a <= 0
  <2>1. ~ ((100 - CapPercent) * n <= a)
    <3> HIDE DEF a
    <3>1. a \in Int
      BY <1>3 DEF a
    <3> QED BY <1>2, <1>3, <1>5, <3>1
  <2>2. MaxMintable(e, k) = 0
    BY <1>5 DEF MaxMintable
  <2> QED BY <1>4, <2>1, <2>2
<1>6. CASE ~(a <= 0)
  <2>1. a \in Nat
    BY <1>3, <1>6
  <2>2. MaxMintable(e, k) = a \div (100 - CapPercent)
    BY <1>6 DEF MaxMintable
  <2> HIDE DEF a
  <2> QED BY <1>4, <2>1, <2>2, QuotientBound
<1> QED
  BY <1>5, <1>6

(* A junior mint that fits takes its amount off the headroom.              *)
LEMMA MintSpendsHeadroom ==
  ASSUME NEW e \in Nat, NEW k \in Nat, NEW n \in Nat \ {0},
         JuniorMintFits(e, k, n)
  PROVE  MaxMintable(e, k + n) = MaxMintable(e, k) - n
<1> DEFINE M == MaxMintable(e, k)
           N == MaxMintable(e, k + n)
<1>1. M \in Nat /\ N \in Nat
  <2>1. ASSUME NEW j \in Nat PROVE MaxMintable(e, j) \in Nat
    <3> DEFINE a == CapPercent * (e + j) - 100 * j
    <3>1. a \in Int
      BY CapAssumption
    <3>2. MaxMintable(e, j) = IF a <= 0 THEN 0 ELSE a \div (100 - CapPercent)
      BY DEF MaxMintable
    <3> HIDE DEF a
    <3>3. CASE a <= 0
      BY <3>2, <3>3
    <3>4. CASE ~(a <= 0)
      <4>1. a \in Nat
        BY <3>1, <3>4
      <4> QED BY <3>2, <3>4, <4>1, QuotientBound
    <3> QED BY <3>3, <3>4
  <2> QED BY <2>1
<1>2. n <= M
  BY FitsUpToHeadroom
<1>3. ASSUME NEW m \in Nat \ {0}
      PROVE  m <= N <=> n + m <= M
  <2>1. JuniorMintFits(e, k + n, m) <=> JuniorMintFits(e, k, n + m)
    <3>1. e + (k + n) + m = e + k + (n + m) /\ (k + n) + m = k + (n + m)
      OBVIOUS
    <3> QED BY <3>1 DEF JuniorMintFits
  <2>2. JuniorMintFits(e, k + n, m) <=> m <= N
    BY FitsUpToHeadroom
  <2>3. JuniorMintFits(e, k, n + m) <=> n + m <= M
    BY FitsUpToHeadroom
  <2> QED BY <2>1, <2>2, <2>3
<1> HIDE DEF M, N
<1>4. N <= M - n
  BY <1>1, <1>2, <1>3
<1>5. M - n <= N
  BY <1>1, <1>2, <1>3
<1>6. N = M - n
  BY <1>1, <1>4, <1>5
<1> QED
  BY <1>6 DEF M, N

-----------------------------------------------------------------------------
(* What each step does to the two supplies.                                *)
LEMMA StepOnSupplies ==
  ASSUME Books, [Next]_vars
  PROVE  \/ UNCHANGED <<enrk.supply, kfiat.supply>>
         \/ /\ UNCHANGED kfiat.supply
            /\ \E n \in Nat \ {0} : \/ enrk'.supply = enrk.supply + n
                                    \/ enrk'.supply = enrk.supply - n
         \/ /\ UNCHANGED enrk.supply
            /\ \E n \in Nat \ {0} :
                 \/ /\ kfiat'.supply = kfiat.supply + n
                    /\ JuniorMintFits(enrk.supply, kfiat.supply, n)
                 \/ kfiat'.supply = kfiat.supply - n
<1> USE AmountAssumption
<1>1. ASSUME NEW a \in Addresses, NEW n \in Amounts,
             MintEnrk(a, n) \/ BurnEnrk(a, n)
      PROVE  /\ UNCHANGED kfiat.supply
             /\ n \in Nat \ {0}
             /\ \/ enrk'.supply = enrk.supply + n
                \/ enrk'.supply = enrk.supply - n
  BY <1>1 DEF MintEnrk, BurnEnrk, Mintable, Burnable, Minted, Burned
<1>2. ASSUME NEW a \in Addresses, NEW n \in Amounts,
             MintKfiat(a, n) \/ BurnKfiat(a, n)
      PROVE  /\ UNCHANGED enrk.supply
             /\ n \in Nat \ {0}
             /\ \/ /\ kfiat'.supply = kfiat.supply + n
                   /\ JuniorMintFits(enrk.supply, kfiat.supply, n)
                \/ kfiat'.supply = kfiat.supply - n
  BY <1>2 DEF MintKfiat, BurnKfiat, Mintable, Burnable, Minted, Burned
<1>3. ASSUME NEW a \in Addresses, NEW b \in Addresses, NEW n \in Amounts,
             TransferEnrk(a, b, n) \/ TransferKfiat(a, b, n)
      PROVE  UNCHANGED <<enrk.supply, kfiat.supply>>
  <2>1. ASSUME NEW ledger, WellKept(ledger)
        PROVE  Transferred(ledger, a, b, n).supply = ledger.supply
    BY <2>1, BookOfWellKept DEF Transferred
  <2> QED BY <1>3, <2>1 DEF TransferEnrk, TransferKfiat, Books
<1>4. CASE UNCHANGED vars
  BY <1>4 DEF vars
<1>5. CASE Next
  <2>1. PICK a \in Addresses, n \in Amounts :
          \/ MintEnrk(a, n)
          \/ MintKfiat(a, n)
          \/ BurnEnrk(a, n)
          \/ BurnKfiat(a, n)
          \/ \E b \in Addresses : TransferEnrk(a, b, n)
          \/ \E b \in Addresses : TransferKfiat(a, b, n)
    BY <1>5 DEF Next
  <2>2. CASE MintEnrk(a, n) \/ BurnEnrk(a, n)
    BY <1>1, <2>2
  <2>3. CASE MintKfiat(a, n) \/ BurnKfiat(a, n)
    BY <1>2, <2>3
  <2>4. CASE \E b \in Addresses : TransferEnrk(a, b, n) \/ TransferKfiat(a, b, n)
    BY <1>3, <2>4
  <2> QED BY <2>1, <2>2, <2>3, <2>4
<1> QED
  BY <1>4, <1>5

LEMMA SuppliesNatural ==
  ASSUME Books PROVE enrk.supply \in Nat /\ kfiat.supply \in Nat
BY DEF Books, WellKept, IsLedger

LEMMA SuppliesNaturalNext ==
  ASSUME Books' PROVE enrk'.supply \in Nat /\ kfiat'.supply \in Nat
BY DEF Books, WellKept, IsLedger

-----------------------------------------------------------------------------
(* The cap check of mint_kfiat and max_mintable_kfiat agree to the unit.   *)
THEOREM HeadroomExact == Spec => []HeadroomIsExact
<1>1. Books => HeadroomIsExact
  <2> SUFFICES ASSUME Books, NEW n \in Amounts, n > 0
               PROVE  JuniorMintFits(enrk.supply, kfiat.supply, n)
                        <=> n <= MaxMintable(enrk.supply, kfiat.supply)
    BY DEF HeadroomIsExact
  <2>1. n \in Nat \ {0}
    BY AmountAssumption
  <2> QED BY <2>1, SuppliesNatural, FitsUpToHeadroom
<1> QED
  BY <1>1, BooksInvariant, PTL

(* A share cut to whole percents, against the cap.                         *)
LEMMA FloorBracketsCap ==
  ASSUME NEW k \in Nat, NEW w \in Nat \ {0}
  PROVE  /\ RatioPercent(k, w) > CapPercent => 100 * k > CapPercent * w
         /\ 100 * k > CapPercent * w => RatioPercent(k, w) >= CapPercent
<1> DEFINE a == 100 * k
           q == a \div w
           c == CapPercent
<1>1. a \in Nat /\ c \in Nat /\ RatioPercent(k, w) = q
  BY CapAssumption DEF RatioPercent
<1>2. q \in Int /\ w * q <= a /\ a < w * q + w /\ c * w = w * c
  <2> HIDE DEF a
  <2> QED BY <1>1
<1> HIDE DEF a, q, c
<1>3. ASSUME q > c PROVE a > w * c
  <2>1. q - (c + 1) \in Nat
    BY <1>1, <1>2, <1>3
  <2>2. w * (q - (c + 1)) >= 0 /\ w * (q - (c + 1)) = w * q - (w * c + w)
    BY <1>1, <1>2, <2>1
  <2> QED BY <1>1, <1>2, <2>2
<1>4. ASSUME a > w * c, ~(q >= c) PROVE FALSE
  <2>1. c - (q + 1) \in Nat
    BY <1>1, <1>2, <1>4
  <2>2. w * (c - (q + 1)) >= 0 /\ w * (c - (q + 1)) = w * c - (w * q + w)
    BY <1>1, <1>2, <2>1
  <2> QED BY <1>1, <1>2, <1>4, <2>2
<1>5. (q > c => a > c * w) /\ (a > c * w => q >= c)
  BY <1>2, <1>3, <1>4
<1> QED
  BY <1>1, <1>5 DEF a, c

(* The reported share hides a breach of less than one percent only.        *)
THEOREM ReportBracketsCap == Spec => []ReportedRatioBracketsCap
<1>1. ASSUME Books PROVE ReportedRatioBracketsCap
  <2> DEFINE e == enrk.supply
             k == kfiat.supply
  <2>1. e \in Nat /\ k \in Nat
    BY <1>1, SuppliesNatural
  <2>2. ~JuniorMintFits(e, k, 0) <=> 100 * k > CapPercent * (e + k)
    BY <2>1, CapAssumption DEF JuniorMintFits
  <2>3. CASE e + k = 0
    <3>1. k = 0 /\ KfiatRatioPercent = 0 /\ CapPercent * (e + k) = 0
      BY <2>1, <2>3, CapAssumption DEF KfiatRatioPercent, RatioPercent
    <3> QED BY <2>2, <3>1, CapAssumption DEF ReportedRatioBracketsCap
  <2>4. CASE e + k # 0
    <3>1. e + k \in Nat \ {0}
      BY <2>1, <2>4
    <3> QED BY <2>1, <2>2, <3>1, FloorBracketsCap
            DEF ReportedRatioBracketsCap, KfiatRatioPercent
  <2> QED BY <2>3, <2>4
<1> QED
  BY <1>1, BooksInvariant, PTL

(* A junior mint uses up exactly its amount of the headroom.               *)
THEOREM HeadroomSpent == Spec => JuniorMintSpendsHeadroom
<1>1. ASSUME Books, [Next]_vars, kfiat'.supply > kfiat.supply
      PROVE  MaxMintable(enrk'.supply, kfiat'.supply)
               = MaxMintable(enrk.supply, kfiat.supply)
                   - (kfiat'.supply - kfiat.supply)
  <2>1. enrk.supply \in Nat /\ kfiat.supply \in Nat
    BY <1>1, SuppliesNatural
  <2>2. PICK n \in Nat \ {0} :
          /\ UNCHANGED enrk.supply
          /\ kfiat'.supply = kfiat.supply + n
          /\ JuniorMintFits(enrk.supply, kfiat.supply, n)
    BY <1>1, <2>1, StepOnSupplies
  <2>3. kfiat'.supply - kfiat.supply = n
    BY <2>1, <2>2
  <2> QED BY <2>1, <2>2, <2>3, MintSpendsHeadroom
<1>2. Books /\ [Next]_vars
        => [kfiat'.supply > kfiat.supply =>
              MaxMintable(enrk'.supply, kfiat'.supply)
                = MaxMintable(enrk.supply, kfiat.supply)
                    - (kfiat'.supply - kfiat.supply)]_vars
  BY <1>1
<1> QED
  BY <1>2, BooksInvariant, PTL DEF Spec, JuniorMintSpendsHeadroom

(* No step but a burn of ENRK takes the supplies over the cap, and no kFIAT *)
(* is minted while they are above it.                                       *)
THEOREM CapBreachedOnlyBySeniorBurn == Spec => OnlySeniorBurnBreachesCap
<1>1. ASSUME Books, [Next]_vars
      PROVE  /\ WithinCap(enrk.supply, kfiat.supply)
                  => \/ WithinCap(enrk'.supply, kfiat'.supply)
                     \/ enrk'.supply < enrk.supply
             /\ ~WithinCap(enrk.supply, kfiat.supply)
                  => kfiat'.supply <= kfiat.supply
  <2> DEFINE e == enrk.supply
             k == kfiat.supply
  <2>1. e \in Nat /\ k \in Nat
    BY <1>1, SuppliesNatural
  <2> HIDE DEF e, k
  <2>3. ASSUME NEW n \in Nat \ {0}, WithinCap(e, k) PROVE WithinCap(e + n, k)
    <3>1. (e + n) + k = (e + k) + n
      BY <2>1
    <3>2. CapPercent * ((e + k) + n) = CapPercent * (e + k) + CapPercent * n
      BY <2>1, CapDistributes
    <3>3. CapPercent * (e + k) \in Int /\ CapPercent * n \in Int
          /\ CapPercent * n >= 0
      BY <2>1, CapDistributes
    <3> QED BY <2>1, <2>3, <3>1, <3>2, <3>3 DEF WithinCap
  <2>4. ASSUME NEW n \in Nat \ {0}, WithinCap(e, k) PROVE WithinCap(e, k - n)
    <3>1. e + (k - n) = (e + k) + (-n)
      BY <2>1
    <3>2. CapPercent * ((e + k) + (-n)) = CapPercent * (e + k) - CapPercent * n
      BY <2>1, CapAssumption
    <3>3. CapPercent * (e + k) \in Int /\ CapPercent * n \in Int
          /\ CapPercent * n <= 99 * n
      BY <2>1, CapDistributes
    <3> QED BY <2>1, <2>4, <3>1, <3>2, <3>3 DEF WithinCap
  <2>5. ASSUME NEW n \in Nat \ {0}, JuniorMintFits(e, k, n)
        PROVE  WithinCap(e, k) /\ WithinCap(e, k + n)
    <3>1. e + (k + n) = (e + k) + n /\ e + k + n = (e + k) + n
      BY <2>1
    <3>2. CapPercent * ((e + k) + n) = CapPercent * (e + k) + CapPercent * n
      BY <2>1, CapDistributes
    <3>3. CapPercent * (e + k) \in Int /\ CapPercent * n \in Int
          /\ CapPercent * n <= 99 * n
      BY <2>1, CapDistributes
    <3> QED BY <2>1, <2>5, <3>1, <3>2, <3>3 DEF JuniorMintFits, WithinCap
  <2>6. ASSUME NEW n \in Nat \ {0} PROVE e - n < e /\ k - n <= k
    BY <2>1
  <2> USE DEF e, k
  <2> QED BY <1>1, <2>1, <2>3, <2>4, <2>5, <2>6, StepOnSupplies
<1>2. Books /\ [Next]_vars
        => [/\ WithinCap(enrk.supply, kfiat.supply)
                  => WithinCap(enrk'.supply, kfiat'.supply)
                       \/ enrk'.supply < enrk.supply
            /\ ~WithinCap(enrk.supply, kfiat.supply)
                  => kfiat'.supply <= kfiat.supply]_vars
  BY <1>1
<1> QED
  BY <1>2, BooksInvariant, PTL DEF Spec, OnlySeniorBurnBreachesCap

(* The token layer implements the abstract two-tranche supply.             *)
THEOREM TokensImplementTranches == Spec => ImplementsTranches
<1>1. Init => Tranches!Init
  BY DEF Init, EmptyLedger, Tranches!Init
<1>2. Books /\ Books' /\ [Next]_vars => [Tranches!Next]_(Tranches!supplies)
  <2> SUFFICES ASSUME Books, Books', [Next]_vars
               PROVE  Tranches!Next \/ UNCHANGED Tranches!supplies
    OBVIOUS
  <2>1. /\ enrk.supply \in Nat /\ kfiat.supply \in Nat
        /\ enrk'.supply \in Nat /\ kfiat'.supply \in Nat
    BY SuppliesNatural, SuppliesNaturalNext
  <2>2. CASE UNCHANGED <<enrk.supply, kfiat.supply>>
    BY <2>2 DEF Tranches!supplies
  <2>3. ASSUME NEW n \in Nat \ {0}, UNCHANGED kfiat.supply,
               enrk'.supply = enrk.supply + n
        PROVE  Tranches!SeniorMint
    BY <2>1, <2>3 DEF Tranches!SeniorMint
  <2>4. ASSUME NEW n \in Nat \ {0}, UNCHANGED kfiat.supply,
               enrk'.supply = enrk.supply - n
        PROVE  Tranches!SeniorBurn
    BY <2>1, <2>4 DEF Tranches!SeniorBurn
  <2>5. ASSUME NEW n \in Nat \ {0}, UNCHANGED enrk.supply,
               kfiat'.supply = kfiat.supply + n,
               JuniorMintFits(enrk.supply, kfiat.supply, n)
        PROVE  Tranches!JuniorMint
    <3>1. enrk.supply + (kfiat.supply + n) = enrk.supply + kfiat.supply + n
      BY <2>1
    <3> QED BY <2>1, <2>5, <3>1
            DEF Tranches!JuniorMint, Tranches!WithinCap, JuniorMintFits
  <2>6. ASSUME NEW n \in Nat \ {0}, UNCHANGED enrk.supply,
               kfiat'.supply = kfiat.supply - n
        PROVE  Tranches!JuniorBurn
    BY <2>1, <2>6 DEF Tranches!JuniorBurn
  <2> QED BY <2>2, <2>3, <2>4, <2>5, <2>6, StepOnSupplies DEF Tranches!Next
<1> QED
  BY <1>1, <1>2, BooksInvariant, PTL DEF Spec, ImplementsTranches, Tranches!Spec
=============================================================================
