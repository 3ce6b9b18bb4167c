---------------------------- MODULE StabilityPool --------------------------
(***************************************************************************)
(* The stability pool (stability_pool.rs): the protocol's fees and the     *)
(* proceeds of liquidations come in, ENRK bought back below the peg goes   *)
(* out and is burned.                                                      *)
(*                                                                         *)
(* Prices are in hundredths, 100 is the peg.  The price of ENRK is an      *)
(* argument of the operations; here it is a variable that moves between    *)
(* them.  The time of the last buyback is written and never read, and the  *)
(* cost of a buyback changes no state: both are left out.                  *)
(*                                                                         *)
(* The last three variables are no state of the program: what was burned,  *)
(* what liquidations brought, and how many times fees were deposited.      *)
(***************************************************************************)
EXTENDS Integers

CONSTANTS
  Allocation,                   \* of the fees to the pool, in percent
  FeeAmounts, ProceedsAmounts, BuybackAmounts,
  CutShort,                     \* fees whose share comes out a unit short
  PoolPrices,                   \* of ENRK
  MaxFees, MaxProceeds          \* bounds of the model

(* Callers pass the stability_pool_allocation of a FeeStructure whose two  *)
(* allocations add up to 100.                                              *)
ASSUME AllocationAssumption == Allocation \in 0 .. 100
ASSUME PoolInputAssumption ==
  /\ FeeAmounts \subseteq Int /\ ProceedsAmounts \subseteq Int
  /\ BuybackAmounts \subseteq Int
  /\ PoolPrices \subseteq Int /\ 100 \in PoolPrices
  /\ MaxFees \in Nat /\ MaxProceeds \in Nat

(* deposit_fees multiplies f64s and cuts the product.  As the quotient of  *)
(* the allocation by 100.0 may be a little too small, a share that is a    *)
(* whole number may come out as the number before it; a share that is not  *)
(* is at least 1/100 away from the next and comes out right (all of this   *)
(* for fees below 2^44).  Which fees are concerned depends on the          *)
(* allocation: 50, 100, ... for 58 percent, none for 80.                   *)
ASSUME CutAssumption ==
  \A n \in CutShort : n * Allocation > 0 /\ (n * Allocation) % 100 = 0

VARIABLES
  enrkBalance, cumulativeFees,      \* the pool
  price,                            \* of ENRK
  burned, proceeds, deposits        \* history

poolVars == <<enrkBalance, cumulativeFees, price, burned, proceeds, deposits>>

-----------------------------------------------------------------------------
(* Queries.                                                                *)

(* What a share that is rounded up would be.                               *)
RoundedUpShare(total) == (total * Allocation + 99) \div 100

ExactShare(total) == (total * Allocation) \div 100

PoolShare(total) ==
  IF total \in CutShort THEN ExactShare(total) - 1 ELSE ExactShare(total)

HasSufficientBalance(amount) == enrkBalance >= amount

Affordable(amount) == price < 100 /\ amount > 0 /\ enrkBalance >= amount

(* What max_buyable quotes for a positive price.                           *)
MaxBuyable(p) == (100 * enrkBalance) \div p

-----------------------------------------------------------------------------
(* The operations.                                                         *)

PoolInit ==
  /\ enrkBalance = 0 /\ cumulativeFees = 0
  /\ price = 100
  /\ burned = 0 /\ proceeds = 0 /\ deposits = 0

DepositFees(total) ==
  /\ total > 0
  /\ cumulativeFees + total <= MaxFees
  /\ enrkBalance' = enrkBalance + PoolShare(total)
  /\ cumulativeFees' = cumulativeFees + total
  /\ deposits' = deposits + 1
  /\ UNCHANGED <<price, burned, proceeds>>

(* What a buyback that does not look at the balance would do.              *)
BuybackUncovered(amount) ==
  /\ price < 100 /\ amount > 0
  /\ burned + amount <= MaxFees + MaxProceeds
  /\ enrkBalance' = enrkBalance - amount
  /\ burned' = burned + amount
  /\ UNCHANGED <<cumulativeFees, price, proceeds, deposits>>

AttemptBuyback(amount) ==
  /\ Affordable(amount)
  /\ enrkBalance' = enrkBalance - amount
  /\ burned' = burned + amount
  /\ UNCHANGED <<cumulativeFees, price, proceeds, deposits>>

DepositLiquidationProceeds(amount) ==
  /\ amount >= 0
  /\ proceeds + amount <= MaxProceeds
  /\ enrkBalance' = enrkBalance + amount
  /\ proceeds' = proceeds + amount
  /\ UNCHANGED <<cumulativeFees, price, burned, deposits>>

PriceMove(p) ==
  /\ price' = p
  /\ UNCHANGED <<enrkBalance, cumulativeFees, burned, proceeds, deposits>>

PoolNext ==
  \/ \E n \in FeeAmounts : DepositFees(n)
  \/ \E n \in BuybackAmounts : AttemptBuyback(n)
  \/ \E n \in ProceedsAmounts : DepositLiquidationProceeds(n)
  \/ \E p \in PoolPrices : PriceMove(p)

PoolSpec == PoolInit /\ [][PoolNext]_poolVars

-----------------------------------------------------------------------------
(* Properties.                                                             *)

(* In particular, the pool never owes anything.                            *)
PoolTypeOK ==
  /\ enrkBalance \in Nat /\ cumulativeFees \in Nat
  /\ price \in PoolPrices
  /\ burned \in Nat /\ proceeds \in Nat /\ deposits \in Nat

(* What the pool has and has burned is what liquidations brought and its   *)
(* share of all fees ("Only 80% goes to Stability Pool", stability_pool.rs)*)
(* down to at most one unit for each deposit, and never more than it.      *)
PoolKeepsItsShare ==
  LET kept == enrkBalance + burned - proceeds IN
  /\ 100 * kept <= Allocation * cumulativeFees
  /\ Allocation * cumulativeFees <= 100 * (kept + deposits)
=============================================================================
