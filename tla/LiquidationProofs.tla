-------------------------- MODULE LiquidationProofs ------------------------
(***************************************************************************)
(* Proofs about the two managers side by side: neither is disturbed by the *)
(* other or by the keeper, so that what is proved of each alone holds here.*)
(*                                                                         *)
(* VaultTheorems and AuctionTheorems are the modules with the proofs about *)
(* the two managers, instantiated as Liquidations instantiates the         *)
(* managers.  Their definitions are those of Vaults and of Auctions under  *)
(* other names, which is what the first lemmas say.                        *)
(***************************************************************************)
EXTENDS Liquidations, TLAPS

VaultTheorems == INSTANCE VaultProofs WITH vaults <- vaults
AuctionTheorems == INSTANCE AuctionProofs WITH
                     VaultIds <- 1 .. MaxVaults, VaultStates <- Vaults!Vault

-----------------------------------------------------------------------------
(* The managers under their two names.                                     *)

LEMMA SameVaultManager ==
  /\ Vaults!Init <=> VaultTheorems!Init
  /\ Vaults!Next <=> VaultTheorems!Next
  /\ Vaults!vars = VaultTheorems!vars
  /\ Vaults!vars' = VaultTheorems!vars'
BY DEF Vaults!vars, VaultTheorems!vars, Vaults!Init, VaultTheorems!Init,
       Vaults!Next, VaultTheorems!Next, Vaults!CreateVault,
       VaultTheorems!CreateVault, Vaults!MintEnrk, VaultTheorems!MintEnrk,
       Vaults!MintKfiat, VaultTheorems!MintKfiat, Vaults!BurnEnrk,
       VaultTheorems!BurnEnrk, Vaults!BurnKfiat, VaultTheorems!BurnKfiat,
       Vaults!DepositCollateral, VaultTheorems!DepositCollateral,
       Vaults!WithdrawCollateral, VaultTheorems!WithdrawCollateral,
       Vaults!CloseVault, VaultTheorems!CloseVault, Vaults!MarketMove,
       VaultTheorems!MarketMove, Vaults!Replace, VaultTheorems!Replace,
       Vaults!Withdrawable, VaultTheorems!Withdrawable,
       Vaults!EnrkRepayable, VaultTheorems!EnrkRepayable,
       Vaults!KfiatRepayable, VaultTheorems!KfiatRepayable, Vaults!FitsCap,
       VaultTheorems!FitsCap, Vaults!TotalEnrk, VaultTheorems!TotalEnrk,
       Vaults!TotalKfiat, VaultTheorems!TotalKfiat, Vaults!Fee,
       VaultTheorems!Fee, Vaults!WithEnrk, VaultTheorems!WithEnrk,
       Vaults!WithKfiat, VaultTheorems!WithKfiat, Vaults!WithCollateral,
       VaultTheorems!WithCollateral, Vaults!KfiatAtPar,
       VaultTheorems!KfiatAtPar, Vaults!NoVaults, VaultTheorems!NoVaults,
       Vaults!BelowRatio, VaultTheorems!BelowRatio, Vaults!DebtValue,
       VaultTheorems!DebtValue, Vaults!CollateralValue,
       VaultTheorems!CollateralValue, Vaults!SumFunction,
       VaultTheorems!SumFunction, Vaults!SumFunctionOnSet,
       VaultTheorems!SumFunctionOnSet, Vaults!FoldFunctionOnSet,
       VaultTheorems!FoldFunctionOnSet, Vaults!MapThenFoldSet,
       VaultTheorems!MapThenFoldSet

LEMMA SameVaultTypes ==
  /\ Vaults!TypeOK <=> VaultTheorems!TypeOK
  /\ Vaults!TypeOK' <=> VaultTheorems!TypeOK'
BY DEF Vaults!TypeOK, VaultTheorems!TypeOK, Vaults!Vault, VaultTheorems!Vault

LEMMA SameAuctionManager ==
  /\ Auctions!Init <=> AuctionTheorems!Init
  /\ Auctions!Next <=> AuctionTheorems!Next
  /\ Auctions!vars = AuctionTheorems!vars
  /\ Auctions!vars' = AuctionTheorems!vars'
BY DEF Auctions!vars, AuctionTheorems!vars, Auctions!Init,
       AuctionTheorems!Init, Auctions!Next, AuctionTheorems!Next,
       Auctions!StartLiquidation, AuctionTheorems!StartLiquidation,
       Auctions!SubmitBid, AuctionTheorems!SubmitBid,
       Auctions!FinalizeExpiredAuction,
       AuctionTheorems!FinalizeExpiredAuction, Auctions!Tick,
       AuctionTheorems!Tick, Auctions!Remove, AuctionTheorems!Remove,
       Auctions!Startable, AuctionTheorems!Startable, Auctions!Acceptable,
       AuctionTheorems!Acceptable, Auctions!IsExpired,
       AuctionTheorems!IsExpired, Auctions!Elapsed,
       AuctionTheorems!Elapsed, Auctions!CurrentPricePercent,
       AuctionTheorems!CurrentPricePercent, Auctions!CollateralForBid,
       AuctionTheorems!CollateralForBid, Auctions!NoAuctions,
       AuctionTheorems!NoAuctions, Auctions!BelowRatio,
       AuctionTheorems!BelowRatio, Auctions!DebtValue,
       AuctionTheorems!DebtValue, Auctions!CollateralValue,
       AuctionTheorems!CollateralValue

LEMMA SameAuctionTypes ==
  /\ Auctions!TypeOK <=> AuctionTheorems!TypeOK
  /\ Auctions!TypeOK' <=> AuctionTheorems!TypeOK'
BY DEF Auctions!TypeOK, AuctionTheorems!TypeOK,
       Auctions!Auction, AuctionTheorems!Auction

(* Each manager keeps its types, as proved of it alone; what it assumes of *)
(* its constants follows from what Liquidations assumes.                   *)
LEMMA VaultTypesNext ==
  Vaults!TypeOK /\ [Vaults!Next]_(Vaults!vars) => Vaults!TypeOK'
<1>1. VaultTheorems!TypeOK /\ [VaultTheorems!Next]_(VaultTheorems!vars)
        => VaultTheorems!TypeOK'
  BY VaultTheorems!TypeNext, RatioAssumption, FeeAssumption,
     VaultCapAssumption, MarketAssumption, CallAssumption, BoundAssumption
     DEF Market, VaultTheorems!Market
<1>. QED BY <1>1, SameVaultManager, SameVaultTypes

LEMMA AuctionTypesNext ==
  Auctions!TypeOK /\ [Auctions!Next]_(Auctions!vars) => Auctions!TypeOK'
<1>1. AuctionTheorems!TypeOK /\ [AuctionTheorems!Next]_(AuctionTheorems!vars)
        => AuctionTheorems!TypeOK'
  BY AuctionTheorems!TypeNext, RatioAssumption, AuctionAssumption,
     MarketAssumption, CallAssumption, BoundAssumption, ClockAssumption
     DEF Market, AuctionTheorems!Market, Vaults!Vault
<1>. QED BY <1>1, SameAuctionManager, SameAuctionTypes

LEMMA TypesInit ==
  /\ Vaults!Init => Vaults!TypeOK
  /\ Auctions!Init => Auctions!TypeOK
BY ClockAssumption, BoundAssumption
   DEF Vaults!Init, Vaults!TypeOK, Vaults!NoVaults,
       Auctions!Init, Auctions!TypeOK, Auctions!NoAuctions

-----------------------------------------------------------------------------
(* The invariant: besides the types, vault ids stay in the range auctions  *)
(* draw theirs from.                                                       *)

KeeperInv == TypeOK /\ nextVaultId <= MaxVaults + 1

LEMMA IdsInRange == KeeperInv => DOMAIN vaults \subseteq 1 .. MaxVaults
BY BoundAssumption DEF KeeperInv, TypeOK, Vaults!TypeOK

(* No vault ever disappears.                                               *)
LEMMA VaultsOnlyGrow ==
  ASSUME KeeperInv, Vaults!Next
  PROVE  DOMAIN vaults \subseteq DOMAIN vaults' /\ nextVaultId' <= MaxVaults + 1
<1>1. nextVaultId \in Nat /\ nextVaultId <= MaxVaults + 1 /\ MaxVaults \in Nat
  BY BoundAssumption DEF KeeperInv, TypeOK, Vaults!TypeOK
<1>2. ASSUME NEW n \in KasAmounts, Vaults!CreateVault(n)
      PROVE  DOMAIN vaults \subseteq DOMAIN vaults' /\ nextVaultId' <= MaxVaults + 1
  BY <1>1, <1>2 DEF Vaults!CreateVault
<1>3. ASSUME NEW v, NEW w, Vaults!Replace(v, w)
      PROVE  DOMAIN vaults \subseteq DOMAIN vaults' /\ nextVaultId' <= MaxVaults + 1
  BY <1>1, <1>3 DEF Vaults!Replace
<1>4. ASSUME NEW m \in Markets, Vaults!MarketMove(m)
      PROVE  DOMAIN vaults \subseteq DOMAIN vaults' /\ nextVaultId' <= MaxVaults + 1
  BY <1>1, <1>4 DEF Vaults!MarketMove
<1>. QED
  BY <1>2, <1>3, <1>4
     DEF Vaults!Next, Vaults!MintEnrk, Vaults!MintKfiat, Vaults!BurnEnrk,
         Vaults!BurnKfiat, Vaults!DepositCollateral,
         Vaults!WithdrawCollateral, Vaults!CloseVault

(* A bidder is paid a natural amount of KAS.                               *)
LEMMA PayoutType ==
  ASSUME KeeperInv, NEW id \in DOMAIN auctions, NEW bid \in Bids, bid > 0
  PROVE  Auctions!CollateralForBid(
           bid, Auctions!CurrentPricePercent(auctions[id]), market.kas) \in Nat
<1>. DEFINE percent == Auctions!CurrentPricePercent(auctions[id])
<1>1. AuctionTheorems!TypeOK
  BY SameAuctionTypes DEF KeeperInv, TypeOK
<1>2. AuctionTheorems!CurrentPricePercent(auctions[id]) \in 1 .. 100
  BY <1>1, AuctionTheorems!PriceType, RatioAssumption, AuctionAssumption,
     MarketAssumption, CallAssumption, ClockAssumption, BoundAssumption
     DEF Market, AuctionTheorems!Market, Vaults!Vault
<1>3. percent = AuctionTheorems!CurrentPricePercent(auctions[id])
  BY DEF Auctions!CurrentPricePercent, AuctionTheorems!CurrentPricePercent,
         Auctions!IsExpired, AuctionTheorems!IsExpired,
         Auctions!Elapsed, AuctionTheorems!Elapsed
<1>4. percent \in Nat
  BY <1>2, <1>3
<1>5. bid \in Nat /\ PriceUnit \in Nat /\ market.kas \in Nat \ {0}
  BY CallAssumption, MarketAssumption
     DEF KeeperInv, TypeOK, Vaults!TypeOK, Market
<1>. HIDE DEF percent
<1>6. bid * percent \in Nat
  BY <1>4, <1>5
<1>7. bid * percent * PriceUnit \in Nat /\ 100 * market.kas \in Nat \ {0}
  BY <1>5, <1>6
<1>8. (bid * percent * PriceUnit) \div (100 * market.kas) \in Nat
  <2>. DEFINE x == bid * percent * PriceUnit
              y == 100 * market.kas
  <2>. HIDE DEF x, y
  <2>1. x \in Nat /\ y \in Nat \ {0}
    BY <1>7 DEF x, y
  <2>. QED BY <2>1 DEF x, y
<1>. QED BY <1>8 DEF Auctions!CollateralForBid, percent

(* A step here is a step of each manager or leaves it alone: the keeper    *)
(* hands in nothing the liquidation manager could not be handed.           *)
LEMMA ComponentSteps ==
  ASSUME KeeperInv, [Next]_vars
  PROVE  [Vaults!Next]_(Vaults!vars) /\ [Auctions!Next]_(Auctions!vars)
<1>. USE DEF Vaults!vars, Auctions!vars, managed, auctioned, accounts
<1>1. CASE VaultStep
  BY <1>1 DEF VaultStep
<1>2. CASE FetchCandidates
  BY <1>2 DEF FetchCandidates
<1>3. ASSUME NEW v \in DOMAIN handed, StartLiquidation(v)
      PROVE  [Vaults!Next]_(Vaults!vars) /\ [Auctions!Next]_(Auctions!vars)
  <2>1. v \in 1 .. MaxVaults /\ handed[v] \in Vaults!Vault /\ market \in Markets
    BY IdsInRange DEF KeeperInv, TypeOK, Vaults!TypeOK
  <2>2. Auctions!StartLiquidation(v, handed[v], market)
    BY <1>3 DEF StartLiquidation
  <2>3. Auctions!Next
    BY <2>1, <2>2 DEF Auctions!Next
  <2>. QED BY <1>3, <2>3 DEF StartLiquidation
<1>4. ASSUME NEW id \in DOMAIN auctions, NEW bid \in Bids, SubmitBid(id, bid)
      PROVE  [Vaults!Next]_(Vaults!vars) /\ [Auctions!Next]_(Auctions!vars)
  <2>1. market \in Markets
    BY DEF KeeperInv, TypeOK, Vaults!TypeOK
  <2>2. Auctions!SubmitBid(id, bid, market.kas)
    BY <1>4 DEF SubmitBid
  <2>3. Auctions!Next
    BY <2>1, <2>2 DEF Auctions!Next
  <2>. QED BY <1>4, <2>3 DEF SubmitBid
<1>5. ASSUME NEW id \in DOMAIN auctions, FinalizeExpiredAuction(id)
      PROVE  [Vaults!Next]_(Vaults!vars) /\ [Auctions!Next]_(Auctions!vars)
  BY <1>5 DEF FinalizeExpiredAuction, Auctions!Next
<1>6. ASSUME NEW d \in ClockSteps, Tick(d)
      PROVE  [Vaults!Next]_(Vaults!vars) /\ [Auctions!Next]_(Auctions!vars)
  BY <1>6 DEF Tick, Auctions!Next
<1>7. CASE UNCHANGED vars
  BY <1>7 DEF vars
<1>. QED BY <1>1, <1>2, <1>3, <1>4, <1>5, <1>6, <1>7 DEF Next

LEMMA KeeperInit == Init => KeeperInv
<1>. SUFFICES ASSUME Init PROVE KeeperInv
  OBVIOUS
<1>1. Vaults!TypeOK /\ Auctions!TypeOK
  BY TypesInit DEF Init
<1>2. DOMAIN handed = {} /\ DOMAIN vaults = {} /\ DOMAIN auctions = {}
  BY DEF Init, Vaults!Init, Vaults!NoVaults, Auctions!Init, Auctions!NoAuctions
<1>3. /\ sold \in [1 .. MaxVaults -> Nat] /\ nextVaultId = 1
      /\ steady \in BOOLEAN /\ paidIn \in [1 .. MaxVaults -> Int]
  BY DEF Init, Vaults!Init
<1>. QED BY <1>1, <1>2, <1>3, BoundAssumption DEF KeeperInv, TypeOK

(* What the composition adds to the types of the managers.                 *)
KeeperTypes ==
  /\ DOMAIN handed \subseteq DOMAIN vaults
  /\ \A v \in DOMAIN handed : handed[v] \in Vaults!Vault
  /\ \A id \in DOMAIN auctions : auctions[id].vaultId \in DOMAIN vaults
  /\ steady \in BOOLEAN
  /\ sold \in [1 .. MaxVaults -> Nat]
  /\ paidIn \in [1 .. MaxVaults -> Int]
  /\ nextVaultId <= MaxVaults + 1

(* The account of what owners paid in stays a whole number.                *)
LEMMA PaidInType ==
  ASSUME KeeperInv, VaultStep
  PROVE  paidIn' \in [1 .. MaxVaults -> Int]
<1>1. Vaults!TypeOK /\ Vaults!TypeOK'
  BY ComponentSteps, VaultTypesNext DEF KeeperInv, TypeOK, Next
<1>2. ASSUME NEW v \in 1 .. MaxVaults
      PROVE  paidIn[v] + KasIn(v)' - KasIn(v) \in Int
  <2>1. KasIn(v) \in Int
    BY <1>1 DEF KasIn, Vaults!TypeOK, Vaults!Vault
  <2>2. KasIn(v)' \in Int
    <3>1. KasIn(v)' = IF v \in DOMAIN vaults' THEN vaults'[v].collateral ELSE 0
      BY DEF KasIn
    <3>2. \A x \in DOMAIN vaults' : vaults'[x].collateral \in Int
      BY <1>1 DEF Vaults!TypeOK, Vaults!Vault
    <3>. QED BY <3>1, <3>2
  <2>. QED BY <2>1, <2>2 DEF KeeperInv, TypeOK
<1>. QED BY <1>2 DEF VaultStep

LEMMA KeeperTypesNext ==
  ASSUME KeeperInv, [Next]_vars
  PROVE  KeeperTypes'
<1>. USE DEF KeeperTypes, managed, auctioned, accounts
<1>1. KeeperTypes /\ Vaults!TypeOK /\ Auctions!TypeOK
  BY DEF KeeperInv, TypeOK
<1>2. CASE VaultStep
  BY <1>1, <1>2, VaultsOnlyGrow, PaidInType DEF VaultStep
<1>3. CASE FetchCandidates
  BY <1>1, <1>3 DEF FetchCandidates, Vaults!Candidates, Vaults!TypeOK
<1>4. ASSUME NEW v \in DOMAIN handed, StartLiquidation(v)
      PROVE  KeeperTypes'
  <2>1. /\ DOMAIN auctions' = DOMAIN auctions \cup {nextAuctionId}
        /\ auctions'[nextAuctionId].vaultId = v
        /\ \A id \in DOMAIN auctions \ {nextAuctionId} : auctions'[id] = auctions[id]
    BY <1>4 DEF StartLiquidation, Auctions!StartLiquidation
  <2>2. UNCHANGED <<vaults, nextVaultId, handed, accounts>>
    BY <1>4 DEF StartLiquidation
  <2>. QED BY <1>1, <2>1, <2>2
<1>5. ASSUME NEW id \in DOMAIN auctions, NEW bid \in Bids, SubmitBid(id, bid)
      PROVE  KeeperTypes'
  <2>. DEFINE a == auctions[id]
              payout == Auctions!CollateralForBid(
                          bid, Auctions!CurrentPricePercent(a), market.kas)
  <2>1. payout \in Nat
    BY <1>5, PayoutType DEF SubmitBid, Auctions!SubmitBid, Auctions!Acceptable
  <2>. HIDE DEF payout
  <2>2. a.vaultId \in 1 .. MaxVaults
    BY <1>1, IdsInRange
  <2>3. sold' = [sold EXCEPT ![a.vaultId] = sold[a.vaultId] + payout]
    BY <1>5 DEF SubmitBid, payout
  <2>4. sold' \in [1 .. MaxVaults -> Nat]
    BY <1>1, <2>1, <2>2, <2>3
  <2>5. /\ DOMAIN auctions' \subseteq DOMAIN auctions
        /\ \A i \in DOMAIN auctions' : auctions'[i] = auctions[i]
        /\ UNCHANGED <<vaults, nextVaultId, handed, steady, paidIn>>
    BY <1>5 DEF SubmitBid, Auctions!SubmitBid, Auctions!Remove
  <2>. QED BY <1>1, <2>4, <2>5
<1>6. ASSUME NEW id \in DOMAIN auctions, FinalizeExpiredAuction(id)
      PROVE  KeeperTypes'
  BY <1>1, <1>6 DEF FinalizeExpiredAuction, Auctions!FinalizeExpiredAuction,
     Auctions!Remove
<1>7. ASSUME NEW d \in ClockSteps, Tick(d)
      PROVE  KeeperTypes'
  BY <1>1, <1>7 DEF Tick, Auctions!Tick
<1>8. CASE UNCHANGED vars
  BY <1>1, <1>8 DEF vars
<1>. QED BY <1>2, <1>3, <1>4, <1>5, <1>6, <1>7, <1>8 DEF Next

LEMMA KeeperNext == KeeperInv /\ [Next]_vars => KeeperInv'
<1>. SUFFICES ASSUME KeeperInv, [Next]_vars PROVE KeeperInv'
  OBVIOUS
<1>1. Vaults!TypeOK' /\ Auctions!TypeOK'
  BY ComponentSteps, VaultTypesNext, AuctionTypesNext DEF KeeperInv, TypeOK
<1>. QED
  BY <1>1, KeeperTypesNext DEF KeeperTypes, KeeperInv, TypeOK

LEMMA KeeperInvariant == Spec => []KeeperInv
BY KeeperInit, KeeperNext, PTL DEF Spec

(* Whatever the keeper does with clones that have become old, both         *)
(* managers keep their types and no auction is about a vault that does not *)
(* exist.                                                                  *)
THEOREM LiquidationsTyped == Spec => []TypeOK
<1>1. KeeperInv => TypeOK
  BY DEF KeeperInv
<1>. QED BY <1>1, KeeperInvariant, PTL

(* Side by side each manager behaves as it does alone, with a keeper who   *)
(* may hand it any vault: the composition implements both specifications.  *)
THEOREM ManagersUndisturbed == Spec => Vaults!Spec /\ Auctions!Spec
<1>1. Init => Vaults!Init /\ Auctions!Init
  BY DEF Init
<1>2. KeeperInv /\ [Next]_vars
        => [Vaults!Next]_(Vaults!vars) /\ [Auctions!Next]_(Auctions!vars)
  BY ComponentSteps
<1>. QED
  BY <1>1, <1>2, KeeperInvariant, PTL DEF Spec, Vaults!Spec, Auctions!Spec

(* So what is proved of a manager alone holds next to the other one, too.  *)
LEMMA SamePromises ==
  /\ Auctions!OneAuctionPerVault <=> AuctionTheorems!OneAuctionPerVault
  /\ Vaults!DebtCanAlwaysBeCleared <=> VaultTheorems!DebtCanAlwaysBeCleared
BY DEF Auctions!OneAuctionPerVault, AuctionTheorems!OneAuctionPerVault,
       Vaults!DebtCanAlwaysBeCleared, VaultTheorems!DebtCanAlwaysBeCleared,
       Vaults!EnrkRepayable, VaultTheorems!EnrkRepayable,
       Vaults!KfiatRepayable, VaultTheorems!KfiatRepayable,
       Vaults!WithEnrk, VaultTheorems!WithEnrk,
       Vaults!WithKfiat, VaultTheorems!WithKfiat,
       Vaults!KfiatAtPar, VaultTheorems!KfiatAtPar,
       Vaults!BelowRatio, VaultTheorems!BelowRatio,
       Vaults!DebtValue, VaultTheorems!DebtValue,
       Vaults!CollateralValue, VaultTheorems!CollateralValue

(* A behaviour of a manager is one of the manager the theorems are about.  *)
LEMMA SameSpecs ==
  /\ Vaults!Spec => VaultTheorems!Spec
  /\ Auctions!Spec => AuctionTheorems!Spec
<1>1. [Vaults!Next]_(Vaults!vars) => [VaultTheorems!Next]_(VaultTheorems!vars)
  BY SameVaultManager
<1>2. [Auctions!Next]_(Auctions!vars)
        => [AuctionTheorems!Next]_(AuctionTheorems!vars)
  BY SameAuctionManager
<1>. QED
  BY <1>1, <1>2, SameVaultManager, SameAuctionManager, PTL
     DEF Vaults!Spec, VaultTheorems!Spec, Auctions!Spec, AuctionTheorems!Spec

(* The keeper's old clones never put a vault under the hammer twice, nor   *)
(* revive an auction that has ended.                                       *)
THEOREM AuctionsKeepPromises ==
  Spec => []Auctions!OneAuctionPerVault /\ Auctions!EndedAuctionsStayEnded
<1>1. AuctionTheorems!Spec
        => []AuctionTheorems!OneAuctionPerVault
           /\ AuctionTheorems!EndedAuctionsStayEnded
  BY AuctionTheorems!VaultAuctionedOnce, AuctionTheorems!EndsForGood,
     RatioAssumption, AuctionAssumption, MarketAssumption, CallAssumption,
     ClockAssumption, BoundAssumption
     DEF Market, AuctionTheorems!Market, Vaults!Vault
<1>2. AuctionTheorems!EndedAuctionsStayEnded => Auctions!EndedAuctionsStayEnded
  BY DEF Auctions!EndedAuctionsStayEnded, AuctionTheorems!EndedAuctionsStayEnded,
         Auctions!vars, AuctionTheorems!vars
<1>3. AuctionTheorems!OneAuctionPerVault => Auctions!OneAuctionPerVault
  BY SamePromises
<1>. QED
  BY <1>1, <1>2, <1>3, SameSpecs, ManagersUndisturbed, PTL

(* Whatever is auctioned, borrowers are let out and closed vaults stay as  *)
(* they are.                                                               *)
THEOREM VaultsKeepPromises ==
  Spec => []Vaults!DebtCanAlwaysBeCleared /\ Vaults!ClosedVaultsAreFrozen
<1>1. VaultTheorems!Spec
        => []VaultTheorems!DebtCanAlwaysBeCleared
           /\ VaultTheorems!ClosedVaultsAreFrozen
  BY VaultTheorems!BorrowersAreLetOut, VaultTheorems!ClosedStayAsTheyAre,
     RatioAssumption, FeeAssumption, VaultCapAssumption, MarketAssumption,
     CallAssumption, BoundAssumption
     DEF Market, VaultTheorems!Market
<1>2. VaultTheorems!ClosedVaultsAreFrozen => Vaults!ClosedVaultsAreFrozen
  BY DEF Vaults!ClosedVaultsAreFrozen, VaultTheorems!ClosedVaultsAreFrozen,
         Vaults!vars, VaultTheorems!vars
<1>3. VaultTheorems!DebtCanAlwaysBeCleared => Vaults!DebtCanAlwaysBeCleared
  BY SamePromises
<1>. QED
  BY <1>1, <1>2, <1>3, SameSpecs, ManagersUndisturbed, PTL

(* The keeper's work neither makes a vault a candidate nor takes anything  *)
(* out of one, if kFIAT is never above the 1.0 mint_enrk takes it for.     *)
THEOREM OwnersKeepPromises ==
  ASSUME \A m \in Markets : m.kfiat <= PriceUnit
  PROVE  Spec => /\ Vaults!OnlyPricesEndanger
                 /\ Vaults!CandidatesOnlyImprove
                 /\ Vaults!EnrkMintLeavesMinimum
<1>1. VaultTheorems!KfiatAtMostPar
  BY DEF VaultTheorems!KfiatAtMostPar
<1>2. VaultTheorems!Spec
        => /\ VaultTheorems!OnlyPricesEndanger
           /\ VaultTheorems!CandidatesOnlyImprove
           /\ VaultTheorems!EnrkMintLeavesMinimum
  BY <1>1, VaultTheorems!OwnersDoNotEndanger,
     VaultTheorems!CandidatesAreNotEmptied, VaultTheorems!EnrkMintSound,
     RatioAssumption, FeeAssumption, VaultCapAssumption, MarketAssumption,
     CallAssumption, BoundAssumption
     DEF Market, VaultTheorems!Market
<1>3. /\ VaultTheorems!OnlyPricesEndanger => Vaults!OnlyPricesEndanger
      /\ VaultTheorems!CandidatesOnlyImprove => Vaults!CandidatesOnlyImprove
      /\ VaultTheorems!EnrkMintLeavesMinimum => Vaults!EnrkMintLeavesMinimum
  BY DEF Vaults!OnlyPricesEndanger, VaultTheorems!OnlyPricesEndanger,
         Vaults!CandidatesOnlyImprove, VaultTheorems!CandidatesOnlyImprove,
         Vaults!EnrkMintLeavesMinimum, VaultTheorems!EnrkMintLeavesMinimum,
         Vaults!Candidates, VaultTheorems!Candidates,
         Vaults!IsCandidate, VaultTheorems!IsCandidate,
         Vaults!BelowRatio, VaultTheorems!BelowRatio,
         Vaults!DebtValue, VaultTheorems!DebtValue,
         Vaults!CollateralValue, VaultTheorems!CollateralValue,
         Vaults!vars, VaultTheorems!vars
<1>. QED BY <1>2, <1>3, SameSpecs, ManagersUndisturbed, PTL

(* At the prices at which the keeper asked, a vault that is still a        *)
(* candidate backs the clone the keeper holds, whatever happened in        *)
(* between, if kFIAT is never above 1.0.  A vault that became a candidate  *)
(* again would be one its owner endangered; one that stayed a candidate    *)
(* has only improved.                                                      *)
THEOREM ClonesAreBacked ==
  ASSUME \A m \in Markets : m.kfiat <= PriceUnit
  PROVE  Spec => []CandidatesBackTheirClones
<1>. DEFINE NotEndangered ==
              \A v \in DOMAIN vaults :
                /\ ~Vaults!IsCandidate(vaults[v], market)
                /\ Vaults!IsCandidate(vaults'[v], market')
                => market' # market
            NotEmptied ==
              \A v \in Vaults!Candidates :
                /\ vaults'[v].collateral >= vaults[v].collateral
                /\ vaults'[v].enrk <= vaults[v].enrk
                /\ vaults'[v].kfiat <= vaults[v].kfiat
<1>1. Init => CandidatesBackTheirClones
  BY DEF Init, Vaults!NoVaults, CandidatesBackTheirClones
<1>2. ASSUME KeeperInv, KeeperInv', CandidatesBackTheirClones, [Next]_vars,
             [NotEndangered]_(Vaults!vars), [NotEmptied]_(Vaults!vars)
      PROVE  CandidatesBackTheirClones'
  <2>1. CASE FetchCandidates
    <3>1. /\ handed' = [v \in Vaults!Candidates |-> vaults[v]]
          /\ UNCHANGED <<vaults, market>>
      BY <2>1 DEF FetchCandidates, managed
    <3>2. \A v \in DOMAIN handed' : handed'[v] = vaults'[v]
                                   /\ vaults'[v] \in Vaults!Vault
      BY <1>2, <3>1 DEF Vaults!Candidates, KeeperInv, TypeOK, Vaults!TypeOK
    <3>. QED BY <3>2 DEF CandidatesBackTheirClones, Vaults!Vault
  <2>2. CASE VaultStep /\ ~UNCHANGED Vaults!vars
    <3>. SUFFICES ASSUME steady', NEW v \in DOMAIN handed \cap Vaults!Candidates'
                  PROVE  /\ vaults'[v].collateral >= handed[v].collateral
                         /\ vaults'[v].enrk <= handed[v].enrk
                         /\ vaults'[v].kfiat <= handed[v].kfiat
      BY <2>2 DEF VaultStep, CandidatesBackTheirClones
    <3>1. steady /\ market' = market
      BY <2>2 DEF VaultStep
    <3>2. v \in DOMAIN vaults /\ Vaults!IsCandidate(vaults'[v], market')
      BY <1>2 DEF Vaults!Candidates, KeeperInv, TypeOK
    <3>3. v \in Vaults!Candidates
      BY <1>2, <2>2, <3>1, <3>2 DEF Vaults!Candidates
    <3>4. /\ vaults'[v].collateral >= vaults[v].collateral
          /\ vaults'[v].enrk <= vaults[v].enrk
          /\ vaults'[v].kfiat <= vaults[v].kfiat
      BY <1>2, <2>2, <3>3
    <3>5. /\ vaults[v].collateral >= handed[v].collateral
          /\ vaults[v].enrk <= handed[v].enrk
          /\ vaults[v].kfiat <= handed[v].kfiat
      BY <1>2, <3>1, <3>3 DEF CandidatesBackTheirClones
    <3>6. vaults[v] \in Vaults!Vault /\ handed[v] \in Vaults!Vault
      BY <1>2, <3>2 DEF KeeperInv, TypeOK, Vaults!TypeOK
    <3>7. v \in DOMAIN vaults' /\ vaults'[v] \in Vaults!Vault
      BY <1>2 DEF KeeperInv, TypeOK, Vaults!TypeOK, Vaults!Candidates
    <3>. QED BY <3>4, <3>5, <3>6, <3>7 DEF Vaults!Vault
  <2>3. CASE UNCHANGED <<vaults, market, handed>> /\ (steady' => steady)
    BY <1>2, <2>3 DEF CandidatesBackTheirClones, Vaults!Candidates
  <2>4. CASE VaultStep /\ UNCHANGED Vaults!vars
    BY <2>3, <2>4 DEF VaultStep, Vaults!vars
  <2>. QED
    BY <1>2, <2>1, <2>2, <2>3, <2>4
       DEF Next, vars, StartLiquidation, SubmitBid, FinalizeExpiredAuction,
           Tick, managed, accounts
<1>3. Vaults!OnlyPricesEndanger /\ Vaults!CandidatesOnlyImprove
        => [][NotEndangered]_(Vaults!vars) /\ [][NotEmptied]_(Vaults!vars)
  BY DEF Vaults!OnlyPricesEndanger, Vaults!CandidatesOnlyImprove
<1>4. Spec => Vaults!OnlyPricesEndanger /\ Vaults!CandidatesOnlyImprove
  BY OwnersKeepPromises
<1>. HIDE DEF NotEndangered, NotEmptied
<1>5. KeeperInv /\ KeeperInv' /\ CandidatesBackTheirClones /\ [Next]_vars
        /\ [NotEndangered]_(Vaults!vars) /\ [NotEmptied]_(Vaults!vars)
      => CandidatesBackTheirClones'
  BY <1>2
<1>. QED
  BY <1>1, <1>3, <1>4, <1>5, KeeperInvariant, PTL DEF Spec

(* With a clock that is never set back the auctions of the keeper's clones *)
(* descend in price and end by an acceptable bid or after their duration.  *)
THEOREM AuctionsRunTheirCourse ==
  ASSUME ClockSteps \subseteq Nat
  PROVE  Spec => Auctions!PriceNeverRises /\ Auctions!EndsByBidOrTimeout
<1>1. AuctionTheorems!Spec => /\ AuctionTheorems!PriceNeverRises
                             /\ AuctionTheorems!EndsByBidOrTimeout
  BY AuctionTheorems!PriceDescends, AuctionTheorems!EndsAsPromised,
     RatioAssumption, AuctionAssumption, MarketAssumption, CallAssumption,
     ClockAssumption, BoundAssumption
     DEF Market, AuctionTheorems!Market, Vaults!Vault
<1>2. /\ AuctionTheorems!PriceNeverRises => Auctions!PriceNeverRises
      /\ AuctionTheorems!EndsByBidOrTimeout => Auctions!EndsByBidOrTimeout
  BY DEF Auctions!PriceNeverRises, AuctionTheorems!PriceNeverRises,
         Auctions!EndsByBidOrTimeout, AuctionTheorems!EndsByBidOrTimeout,
         Auctions!CurrentPricePercent, AuctionTheorems!CurrentPricePercent,
         Auctions!Elapsed, AuctionTheorems!Elapsed,
         Auctions!IsExpired, AuctionTheorems!IsExpired,
         Auctions!Acceptable, AuctionTheorems!Acceptable,
         Auctions!CollateralForBid, AuctionTheorems!CollateralForBid,
         Auctions!vars, AuctionTheorems!vars
<1>. QED BY <1>1, <1>2, SameSpecs, ManagersUndisturbed, PTL

-----------------------------------------------------------------------------
(* When KAS is cheap the auctions are without effect.                      *)

NothingSold == \A v \in 1 .. MaxVaults : sold[v] = 0

(* Unless it is a bid that is accepted, a step sells nothing.              *)
LEMMA OnlyBidsSell ==
  ASSUME [Next]_vars, sold' # sold
  PROVE  \E id \in DOMAIN auctions \ DOMAIN auctions' :
           ~AuctionTheorems!IsExpired(auctions[id])
<1>1. PICK id \in DOMAIN auctions, bid \in Bids : SubmitBid(id, bid)
  BY DEF Next, VaultStep, FetchCandidates, StartLiquidation,
     FinalizeExpiredAuction, Tick, vars, accounts
<1>2. ~Auctions!IsExpired(auctions[id]) /\ id \notin DOMAIN auctions'
  BY <1>1 DEF SubmitBid, Auctions!SubmitBid, Auctions!Acceptable, Auctions!Remove
<1>. QED
  BY <1>2 DEF Auctions!IsExpired, AuctionTheorems!IsExpired,
     Auctions!Elapsed, AuctionTheorems!Elapsed

LEMMA EndsExpiredWhenCheap ==
  ASSUME AuctionTheorems!CheapKas, AuctionTheorems!TypeOK,
         AuctionTheorems!StartedBelowTrigger,
         [AuctionTheorems!Next]_(AuctionTheorems!vars),
         NEW id \in DOMAIN auctions \ DOMAIN auctions'
  PROVE  AuctionTheorems!IsExpired(auctions[id])
BY AuctionTheorems!CheapAuctionsExpire, RatioAssumption, AuctionAssumption,
   MarketAssumption, CallAssumption, ClockAssumption, BoundAssumption
   DEF Market, AuctionTheorems!Market, Vaults!Vault

LEMMA StaysBelowTrigger ==
  ASSUME AuctionTheorems!CheapKas
  PROVE  /\ AuctionTheorems!Init => AuctionTheorems!StartedBelowTrigger
         /\ AuctionTheorems!TypeOK /\ AuctionTheorems!StartedBelowTrigger
              /\ [AuctionTheorems!Next]_(AuctionTheorems!vars)
            => AuctionTheorems!StartedBelowTrigger'
<1>1. AuctionTheorems!Init => AuctionTheorems!StartedBelowTrigger
  BY DEF AuctionTheorems!Init, AuctionTheorems!NoAuctions,
         AuctionTheorems!StartedBelowTrigger
<1>. QED
  BY <1>1, AuctionTheorems!StartedBelowTriggerNext, RatioAssumption,
     AuctionAssumption, MarketAssumption, CallAssumption, ClockAssumption,
     BoundAssumption
     DEF Market, AuctionTheorems!Market, Vaults!Vault

(* With stablecoins at par or below and KAS as cheap as CheapKas says (0.5 *)
(* at one price and the frozen trigger of 150%), no bidder ever receives   *)
(* KAS: a vault once below the trigger is not helped by its auctions.      *)
THEOREM CheapKasIsNeverPaidOut ==
  ASSUME AuctionTheorems!CheapKas
  PROVE  Spec => []NothingSold
<1>. DEFINE Inv == KeeperInv /\ AuctionTheorems!StartedBelowTrigger /\ NothingSold
<1>1. Init => Inv
  <2>. SUFFICES ASSUME Init PROVE Inv
    OBVIOUS
  <2>1. AuctionTheorems!StartedBelowTrigger
    BY SameAuctionManager, StaysBelowTrigger DEF Init
  <2>. QED BY <2>1, KeeperInit DEF Init, NothingSold
<1>2. Inv /\ [Next]_vars => Inv'
  <2>. SUFFICES ASSUME Inv, [Next]_vars PROVE Inv'
    OBVIOUS
  <2>1. AuctionTheorems!TypeOK /\ [AuctionTheorems!Next]_(AuctionTheorems!vars)
    BY ComponentSteps, SameAuctionManager, SameAuctionTypes DEF KeeperInv, TypeOK
  <2>2. AuctionTheorems!StartedBelowTrigger'
    BY <2>1, StaysBelowTrigger
  <2>3. sold' = sold
    BY <2>1, OnlyBidsSell, EndsExpiredWhenCheap
  <2>. QED BY <2>2, <2>3, KeeperNext DEF NothingSold
<1>3. Inv => NothingSold
  OBVIOUS
<1>. QED BY <1>1, <1>2, <1>3, PTL DEF Spec
=============================================================================
