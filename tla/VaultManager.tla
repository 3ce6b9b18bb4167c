--------------------------- MODULE VaultManager ----------------------------
(***************************************************************************)
(* The vault manager (vault.rs, with Vault of types.rs): collateralised    *)
(* debt positions that hold KAS and owe ENRK and kFIAT.                    *)
(*                                                                         *)
(* Every operation receives the prices from its caller; here all callers   *)
(* pass the prices of the moment, the variable market, which the world     *)
(* moves.  Prices are multiples of 1/PriceUnit, so the f64 comparisons of  *)
(* collateral ratios become comparisons of integers.  A call the code      *)
(* rejects changes nothing and is no step.  Owners and timestamps are      *)
(* written by the code and never read, and are left out.                   *)
(***************************************************************************)
EXTENDS VaultRatios, Functions

CONSTANTS
  IcrMinimum, McrTrigger,   \* CollateralRatios, in percent
  MintFeeBps,               \* FeeStructure.mint_fee_bps
  CapPercent,               \* kfiat_cap_percent
  PriceUnit,                \* the number that stands for the price 1.0
  Markets,                  \* the prices the world may offer
  MintAmounts, BurnAmounts, \* amounts of stablecoin callers pass
  KasAmounts,               \* amounts of KAS callers pass
  MaxVaults, MaxDebt, MaxCollateral     \* bounds of the model

ASSUME RatioAssumption ==      \* CollateralRatios::validate
  /\ IcrMinimum \in Nat /\ McrTrigger \in Nat
  /\ IcrMinimum > McrTrigger /\ McrTrigger >= 100
ASSUME FeeAssumption == MintFeeBps \in 0..10000    \* FeeStructure::validate
ASSUME VaultCapAssumption == CapPercent \in 1..50  \* VaultManager::new
ASSUME MarketAssumption == PriceUnit \in Nat \ {0} /\ Markets \subseteq Market
ASSUME CallAssumption ==
  MintAmounts \subseteq Int /\ BurnAmounts \subseteq Int /\ KasAmounts \subseteq Int
ASSUME VaultBoundAssumption ==
  MaxVaults \in Nat /\ MaxDebt \in Nat /\ MaxCollateral \in Nat

VARIABLES
  vaults,         \* vault id -> [collateral, enrk, kfiat, status]
  nextVaultId,
  market          \* [kas, enrk, kfiat]: the prices of the moment

vars == <<vaults, nextVaultId, market>>

-----------------------------------------------------------------------------
(* The prices mint_enrk and burn_enrk use: they take kFIAT to be worth 1.0 *)
KfiatAtPar(m) == [m EXCEPT !.kfiat = PriceUnit]

(* Vault::is_under_collateralized for an active vault; the filter of       *)
(* get_liquidation_candidates.                                             *)
IsCandidate(w, m) == w.status = "Active" /\ BelowRatio(w, m, McrTrigger)

Candidates == {v \in DOMAIN vaults : IsCandidate(vaults[v], market)}

-----------------------------------------------------------------------------
(* Debts.                                                                  *)

Fee(n) == (n * MintFeeBps) \div 10000

WithEnrk(w, n)       == [w EXCEPT !.enrk = @ + n]
WithKfiat(w, n)      == [w EXCEPT !.kfiat = @ + n]
WithCollateral(w, n) == [w EXCEPT !.collateral = @ + n]

TotalEnrk  == SumFunction([v \in DOMAIN vaults |-> vaults[v].enrk])
TotalKfiat == SumFunction([v \in DOMAIN vaults |-> vaults[v].kfiat])

(* What a cap check that leaves out the kFIAT of other mints would do.     *)
NewKfiatFits(n) == 100 * n <= CapPercent * (TotalEnrk + TotalKfiat + n)

(* n more kFIAT of debt, fee included, keep all vaults' debts in the cap.  *)
FitsCap(n) ==
  100 * (TotalKfiat + n) <= CapPercent * (TotalEnrk + TotalKfiat + n)

(* What repaying without looking at the debt left would check.             *)
EnrkRepaidAlwaysChecked(w, n) ==
  /\ n > 0
  /\ w.enrk >= n
  /\ ~BelowRatio(WithEnrk(w, -n), KfiatAtPar(market), IcrMinimum)

(* burn_enrk accepts n: a repayment that leaves ENRK debt must leave the   *)
(* vault at the minimum ratio, one that leaves none is not looked at.      *)
EnrkRepayable(w, n) ==
  /\ n > 0
  /\ w.enrk >= n
  /\ w.enrk > n =>
       ~BelowRatio(WithEnrk(w, -n), KfiatAtPar(market), IcrMinimum)

(* burn_kfiat accepts n: whatever debt is left must be at the minimum.     *)
KfiatRepayable(w, n) ==
  /\ n > 0
  /\ w.kfiat >= n
  /\ ~BelowRatio(WithKfiat(w, -n), market, IcrMinimum)

(* What a withdrawal that does not look at the ratio would accept.         *)
WithdrawableUnchecked(w, n) == w.status = "Active" /\ n > 0 /\ w.collateral >= n

(* What a withdrawal that checks the ratio before it would accept.         *)
WithdrawableBefore(w, n) ==
  /\ w.status = "Active"
  /\ n > 0
  /\ w.collateral >= n
  /\ ~BelowRatio(w, market, McrTrigger)

(* What a withdrawal that may overdraw would accept.                       *)
Overdrawable(w, n) ==
  /\ w.status = "Active"
  /\ n > 0
  /\ ~BelowRatio(WithCollateral(w, -n), market, McrTrigger)

Withdrawable(w, n) ==
  /\ w.status = "Active"
  /\ n > 0
  /\ w.collateral >= n
  /\ ~BelowRatio(WithCollateral(w, -n), market, McrTrigger)

-----------------------------------------------------------------------------
(* The operations of VaultManager.                                         *)

NoVaults == [v \in {} |-> 0]

Init ==
  /\ vaults = NoVaults
  /\ nextVaultId = 1
  /\ market \in Markets

CreateVault(n) ==
  /\ n > 0
  /\ nextVaultId <= MaxVaults /\ n <= MaxCollateral
  /\ LET w == [collateral |-> n, enrk |-> 0, kfiat |-> 0, status |-> "Active"]
     IN  vaults' = [v \in DOMAIN vaults \cup {nextVaultId} |->
                      IF v = nextVaultId THEN w ELSE vaults[v]]
  /\ nextVaultId' = nextVaultId + 1
  /\ UNCHANGED market

Replace(v, w) ==
  /\ vaults' = [vaults EXCEPT ![v] = w]
  /\ UNCHANGED <<nextVaultId, market>>

(* What a mint that looks at the ratio before it would do.                 *)
MintEnrkCheckedBefore(v, n) ==
  /\ n > 0
  /\ vaults[v].status = "Active"
  /\ ~BelowRatio(vaults[v], KfiatAtPar(market), IcrMinimum)
  /\ vaults[v].enrk + n + Fee(n) <= MaxDebt
  /\ Replace(v, WithEnrk(vaults[v], n + Fee(n)))

MintEnrk(v, n) ==
  LET w == WithEnrk(vaults[v], n + Fee(n)) IN
  /\ n > 0
  /\ vaults[v].status = "Active"
  /\ ~BelowRatio(w, KfiatAtPar(market), IcrMinimum)
  /\ w.enrk <= MaxDebt
  /\ Replace(v, w)

MintKfiat(v, n) ==
  LET w == WithKfiat(vaults[v], n + Fee(n)) IN
  /\ n > 0
  /\ vaults[v].status = "Active"
  /\ FitsCap(n + Fee(n))
  /\ ~BelowRatio(w, market, IcrMinimum)
  /\ w.kfiat <= MaxDebt
  /\ Replace(v, w)

BurnEnrk(v, n) ==
  /\ EnrkRepayable(vaults[v], n)
  /\ Replace(v, WithEnrk(vaults[v], -n))

BurnKfiat(v, n) ==
  /\ KfiatRepayable(vaults[v], n)
  /\ Replace(v, WithKfiat(vaults[v], -n))

DepositCollateral(v, n) ==
  /\ n > 0
  /\ vaults[v].status = "Active"
  /\ vaults[v].collateral + n <= MaxCollateral
  /\ Replace(v, WithCollateral(vaults[v], n))

WithdrawCollateral(v, n) ==
  /\ Withdrawable(vaults[v], n)
  /\ Replace(v, WithCollateral(vaults[v], -n))

(* What closing on the senior debt alone would do.                         *)
CloseSeniorSettled(v) ==
  /\ vaults[v].enrk = 0
  /\ Replace(v, [vaults[v] EXCEPT !.status = "Closed"])

CloseVault(v) ==
  /\ vaults[v].enrk + vaults[v].kfiat = 0
  /\ Replace(v, [vaults[v] EXCEPT !.status = "Closed"])

(* The world moves the prices; no code of the vault manager runs.          *)
MarketMove(m) ==
  /\ market' = m
  /\ UNCHANGED <<vaults, nextVaultId>>

Next ==
  \/ \E n \in KasAmounts : CreateVault(n)
  \/ \E v \in DOMAIN vaults, n \in MintAmounts :
        \/ MintEnrk(v, n)
        \/ MintKfiat(v, n)
  \/ \E v \in DOMAIN vaults, n \in BurnAmounts :
        \/ BurnEnrk(v, n)
        \/ BurnKfiat(v, n)
  \/ \E v \in DOMAIN vaults, n \in KasAmounts :
        \/ DepositCollateral(v, n)
        \/ WithdrawCollateral(v, n)
  \/ \E v \in DOMAIN vaults : CloseVault(v)
  \/ \E m \in Markets : MarketMove(m)

Spec == Init /\ [][Next]_vars

-----------------------------------------------------------------------------
(* Properties.                                                             *)

Vault == [collateral : Nat, enrk : Nat, kfiat : Nat,
          status : {"Active", "Closed"}]

(* Ids are handed out in order and every vault keeps natural amounts; no   *)
(* operation ever puts a vault into VaultStatus::Liquidating.              *)
TypeOK ==
  /\ nextVaultId \in Nat \ {0}
  /\ DOMAIN vaults = 1 .. nextVaultId - 1
  /\ \A v \in DOMAIN vaults : vaults[v] \in Vault
  /\ market \in Markets

(* The debts of all vaults together behave as TrancheSupply allows: the    *)
(* vault manager enforces on its debts, fees included and however they are *)
(* spread, the cap the token layer enforces on its supplies.               *)
Tranches == INSTANCE TrancheSupply WITH enrk <- TotalEnrk,
                                        kfiat <- TotalKfiat
ImplementsTranches == Tranches!Spec

(* Only a price move makes a vault a liquidation candidate: no call of its *)
(* owner, or of another, takes it below the trigger at the prices of the   *)
(* call, as long as kFIAT is not above par.                                *)
OnlyPricesEndanger ==
  [][\A v \in DOMAIN vaults :
       /\ ~IsCandidate(vaults[v], market)
       /\ IsCandidate(vaults'[v], market')
       => market' # market]_vars

(* As long as a vault is a candidate nobody takes KAS out of it or adds to *)
(* its debt: what a liquidator was shown is not emptied by its owner       *)
(* before the prices recover.                                              *)
CandidatesOnlyImprove ==
  [][\A v \in Candidates :
       /\ vaults'[v].collateral >= vaults[v].collateral
       /\ vaults'[v].enrk <= vaults[v].enrk
       /\ vaults'[v].kfiat <= vaults[v].kfiat]_vars

(* An ENRK mint leaves its vault at the minimum ratio, fee included        *)
(* (vault.rs, mint_enrk: "Resulting ICR >= ICR_minimum after mint").  As   *)
(* the code takes kFIAT to be worth 1.0 this needs kFIAT at par or below.  *)
EnrkMintLeavesMinimum ==
  [][\A v \in DOMAIN vaults :
       vaults'[v].enrk > vaults[v].enrk =>
         ~BelowRatio(vaults'[v], market, IcrMinimum)]_vars

(* Nothing happens to a closed vault any more, although burn_enrk and      *)
(* burn_kfiat do not look at the status: it has no debt left to burn.      *)
ClosedVaultsAreFrozen ==
  [][\A v \in DOMAIN vaults :
       vaults[v].status = "Closed" => vaults'[v] = vaults[v]]_vars

(* At any prices a borrower who returns everything is let out: all the     *)
(* ENRK first, then all the kFIAT, is never refused.                       *)
DebtCanAlwaysBeCleared ==
  \A v \in DOMAIN vaults :
    LET w == vaults[v] IN
    /\ w.enrk > 0 => EnrkRepayable(w, w.enrk)
    /\ w.kfiat > 0 => KfiatRepayable(WithEnrk(w, -w.enrk), w.kfiat)
=============================================================================
