----------------------------- MODULE PriceRounds ---------------------------
(***************************************************************************)
(* Variant B of the covenants on layer 1 (examples/enrk/b): coins that     *)
(* carry a price, and vaults that read the price of a coin spent in the    *)
(* same transaction.                                                       *)
(*                                                                         *)
(* A transaction that acts on a vault also spends a coin of the oracle.    *)
(* Anyone may spend a coin by use, which recreates it as it was, so here   *)
(* it stays; only the publisher may sweep it.  One transaction that sweeps *)
(* several coins is several Sweeps in a row.  Coins that are alike cannot  *)
(* be told apart: coins is a bag.                                          *)
(*                                                                         *)
(* announced, latest and sweeps are no state of the covenants: the prices  *)
(* published so far, the last one, and how often the publisher swept.      *)
(***************************************************************************)
EXTENDS Integers, Bags, Functions

CONSTANTS
  IcrMinimum, McrTrigger,     \* in percent
  PriceScale,
  FeedValue,                  \* of the coin the oracle begins with
  GenesisPrice,
  VaultIds,
  VaultStates,                \* the vaults there may be at first
  Withdrawals, Prices

Vault == [value : Nat, debt : Nat \ {0}]

ASSUME RatioAssumption ==
  /\ IcrMinimum \in Nat /\ McrTrigger \in Nat /\ McrTrigger <= IcrMinimum
  /\ PriceScale \in Nat \ {0}
ASSUME GenesisAssumption ==
  /\ FeedValue \in Nat \ {0} /\ GenesisPrice \in Nat \ {0}
  /\ VaultStates \subseteq Vault
ASSUME InputAssumption == Withdrawals \subseteq Int /\ Prices \subseteq Int

VARIABLES
  coins,      \* bag of [value, round, price]
  vaults,     \* vault id -> Vault, of the vaults not liquidated
  announced, latest, sweeps

vars == <<coins, vaults, announced, latest, sweeps>>

-----------------------------------------------------------------------------
(* The vault's judgement at a price.                                       *)

IcrPercent(collateral, price, debt) ==
  ((collateral * price * 100) \div PriceScale) \div debt

(* What a liquidation at the opening ratio would need.                     *)
BelowMinimum(w, price) == IcrPercent(w.value, price, w.debt) < IcrMinimum

Liquidatable(w, price) == IcrPercent(w.value, price, w.debt) < McrTrigger

(* What a withdrawal that looks at the collateral before it would need.    *)
WithdrawableBefore(w, withdrawn, price) ==
  /\ withdrawn > 0 /\ withdrawn <= w.value
  /\ IcrPercent(w.value, price, w.debt) >= IcrMinimum

Withdrawable(w, withdrawn, price) ==
  /\ withdrawn > 0 /\ withdrawn <= w.value
  /\ IcrPercent(w.value - withdrawn, price, w.debt) >= IcrMinimum

-----------------------------------------------------------------------------
(* The entries.                                                            *)

Init ==
  /\ coins = SetToBag({[value |-> FeedValue, round |-> 0, price |-> GenesisPrice]})
  /\ vaults \in [VaultIds -> VaultStates]
  /\ announced = {GenesisPrice} /\ latest = GenesisPrice /\ sweeps = 0

(* What a sweep whose right child gets the whole value would publish.      *)
ChildrenOfTwiceTheValue(c, price, left) ==
  SetToBag({[value |-> left, round |-> c.round + 1, price |-> price]})
    (+) SetToBag({[value |-> c.value, round |-> c.round + 1, price |-> price]})

Children(c, price, left) ==
  SetToBag({[value |-> left, round |-> c.round + 1, price |-> price]})
    (+) SetToBag({[value |-> c.value - left, round |-> c.round + 1, price |-> price]})

(* What a sweep that may leave an empty coin would be allowed.             *)
SweepableToNothing(c, price, left) == price > 0 /\ left >= 0 /\ left < c.value

Sweepable(c, price, left) == price > 0 /\ left > 0 /\ left < c.value

(* The publisher consumes one coin and publishes two at another price.     *)
Sweep(c, price, left) ==
  /\ Sweepable(c, price, left)
  /\ coins' = (coins (-) SetToBag({c})) (+) Children(c, price, left)
  /\ announced' = announced \cup {price} /\ latest' = price
  /\ sweeps' = sweeps + 1
  /\ UNCHANGED vaults

(* Anyone liquidates a vault at the price of a coin.                       *)
Liquidate(v, c) ==
  /\ Liquidatable(vaults[v], c.price)
  /\ vaults' = [w \in DOMAIN vaults \ {v} |-> vaults[w]]
  /\ UNCHANGED <<coins, announced, latest, sweeps>>

(* The owner takes out collateral at the price of a coin of their choice.  *)
Withdraw(v, c, withdrawn) ==
  /\ Withdrawable(vaults[v], withdrawn, c.price)
  /\ vaults' = [vaults EXCEPT ![v].value = @ - withdrawn]
  /\ UNCHANGED <<coins, announced, latest, sweeps>>

Next ==
  \/ \E c \in BagToSet(coins), p \in Prices, left \in 0 .. FeedValue : Sweep(c, p, left)
  \/ \E c \in BagToSet(coins), v \in DOMAIN vaults : Liquidate(v, c)
  \/ \E c \in BagToSet(coins), v \in DOMAIN vaults, n \in Withdrawals :
       Withdraw(v, c, n)

Spec == Init /\ [][Next]_vars

-----------------------------------------------------------------------------
(* Properties.                                                             *)

Coin == [value : Nat \ {0}, round : 0 .. sweeps, price : announced]

(* Coins have positive values and published prices, and rounds count       *)
(* sweeps; vaults keep their debts.                                        *)
TypeOK ==
  /\ IsABag(coins)
  /\ BagToSet(coins) \subseteq Coin
  /\ DOMAIN vaults \subseteq VaultIds
  /\ \A v \in DOMAIN vaults : vaults[v] \in Vault

(* "the feed cannot be drained" (ENRK_ECOSYSTEM_PROPOSAL.md): whoever      *)
(* spends the coins, together they keep the value the oracle began with.   *)
FeedKeepsItsValue ==
  SumFunction([c \in BagToSet(coins) |-> c.value * coins[c]]) = FeedValue

(* Every update of the price leaves one coin more than before and no way   *)
(* to join coins, so the publisher has no more updates than the feed has   *)
(* units of value.                                                         *)
UpdatesRunOut ==
  SumFunction(coins) = 1 + sweeps /\ sweeps < FeedValue

(* Vaults are judged at authentic prices ("Proves the vault is under the   *)
(* maintenance ratio at the authenticated price", vault.ag): one that is   *)
(* liquidated was below the trigger at some price the publisher published, *)
(* and a withdrawal leaves the opening ratio at some such price.           *)
JudgedAtPublishedPrices ==
  [][\A v \in DOMAIN vaults :
       /\ v \notin DOMAIN vaults' =>
            \E p \in announced :
              IcrPercent(vaults[v].value, p, vaults[v].debt) < McrTrigger
       /\ v \in DOMAIN vaults' /\ vaults'[v] # vaults[v] =>
            \E p \in announced :
              IcrPercent(vaults'[v].value, p, vaults[v].debt) >= IcrMinimum]_vars

-----------------------------------------------------------------------------
(* What the documentation promises and the covenants do not enforce.       *)

(* "There is no instant at which both exist, so there is no stale-price    *)
(* window" (ENRK_ECOSYSTEM_PROPOSAL.md): a vault is liquidated only if it  *)
(* is below the trigger at the latest price.                               *)
JudgedAtLatestPrice ==
  [][\A v \in DOMAIN vaults : v \notin DOMAIN vaults' =>
       IcrPercent(vaults[v].value, latest, vaults[v].debt) < McrTrigger]_vars
=============================================================================
