---------------------------- MODULE VaultProofs ----------------------------
(***************************************************************************)
(* Theorems about VaultManager for every value of its constants.           *)
(*                                                                         *)
(* TypeOK is inductive.  What owners can do to a ratio rests on one fact   *)
(* about every step (StepsImproveOrCheck): a vault either gets no less     *)
(* collateral and no more debt, or no more collateral and no less debt and *)
(* then the step has checked it at the prices of the moment.  The ENRK     *)
(* check takes kFIAT to be worth 1.0, so what it says of the true ratio    *)
(* needs KfiatAtMostPar.  The debts of all vaults are sums, for which      *)
(* SumLemmas is used.                                                      *)
(***************************************************************************)
EXTENDS VaultManager, SumLemmas

(* kFIAT is never worth more than the 1.0 that mint_enrk takes it for.     *)
KfiatAtMostPar == \A m \in Markets : m.kfiat <= PriceUnit

-----------------------------------------------------------------------------
(* Types.                                                                  *)

LEMMA FeeType ==
  ASSUME NEW n \in Nat
  PROVE  Fee(n) \in Nat
<1>1. n * MintFeeBps \in Nat
  BY FeeAssumption
<1>. QED BY <1>1 DEF Fee

LEMMA WithFields ==
  ASSUME NEW w \in Vault, NEW n \in Int
  PROVE  /\ w.enrk + n \in Nat => WithEnrk(w, n) \in Vault
         /\ w.kfiat + n \in Nat => WithKfiat(w, n) \in Vault
         /\ w.collateral + n \in Nat => WithCollateral(w, n) \in Vault
         /\ WithEnrk(w, n).enrk = w.enrk + n
         /\ WithEnrk(w, n).kfiat = w.kfiat
         /\ WithEnrk(w, n).collateral = w.collateral
         /\ WithEnrk(w, n).status = w.status
         /\ WithKfiat(w, n).kfiat = w.kfiat + n
         /\ WithKfiat(w, n).enrk = w.enrk
         /\ WithKfiat(w, n).collateral = w.collateral
         /\ WithKfiat(w, n).status = w.status
         /\ WithCollateral(w, n).collateral = w.collateral + n
         /\ WithCollateral(w, n).enrk = w.enrk
         /\ WithCollateral(w, n).kfiat = w.kfiat
         /\ WithCollateral(w, n).status = w.status
BY DEF WithEnrk, WithKfiat, WithCollateral, Vault

(* What a call does to the one vault v it is about.                        *)
Call(v) ==
  \/ \E n \in MintAmounts : MintEnrk(v, n) \/ MintKfiat(v, n)
  \/ \E n \in BurnAmounts : BurnEnrk(v, n) \/ BurnKfiat(v, n)
  \/ \E n \in KasAmounts : DepositCollateral(v, n) \/ WithdrawCollateral(v, n)
  \/ CloseVault(v)

(* Every call replaces its vault by another; one line per call says which  *)
(* and what the call has checked.                                          *)
CalledEnrkMint(w, u) ==
  \E n \in Nat \ {0} :
    /\ w.status = "Active"
    /\ u = WithEnrk(w, n)
    /\ ~BelowRatio(u, KfiatAtPar(market), IcrMinimum)
CalledKfiatMint(w, u) ==
  \E n \in Nat \ {0} :
    /\ w.status = "Active"
    /\ u = WithKfiat(w, n)
    /\ FitsCap(n)
    /\ ~BelowRatio(u, market, IcrMinimum)
CalledEnrkBurn(w, u) ==
  \E n \in Nat \ {0} : w.enrk - n \in Nat /\ u = WithEnrk(w, -n)
CalledKfiatBurn(w, u) ==
  \E n \in Nat \ {0} : w.kfiat - n \in Nat /\ u = WithKfiat(w, -n)
CalledDeposit(w, u) ==
  \E n \in Nat \ {0} : w.status = "Active" /\ u = WithCollateral(w, n)
CalledWithdrawal(w, u) ==
  \E n \in Nat \ {0} :
    /\ w.status = "Active"
    /\ w.collateral - n \in Nat
    /\ u = WithCollateral(w, -n)
    /\ ~BelowRatio(u, market, McrTrigger)
CalledClose(w, u) ==
  /\ w.enrk + w.kfiat = 0
  /\ u = [w EXCEPT !.status = "Closed"]

Called(w, u) ==
  \/ CalledEnrkMint(w, u)
  \/ CalledKfiatMint(w, u)
  \/ CalledEnrkBurn(w, u)
  \/ CalledKfiatBurn(w, u)
  \/ CalledDeposit(w, u)
  \/ CalledWithdrawal(w, u)
  \/ CalledClose(w, u)

LEMMA CallsReplace ==
  ASSUME TypeOK, NEW v \in DOMAIN vaults, Call(v)
  PROVE  \E u \in Vault : Called(vaults[v], u) /\ Replace(v, u)
<1>. DEFINE w == vaults[v]
<1>0. w \in Vault /\ w.enrk \in Nat /\ w.kfiat \in Nat /\ w.collateral \in Nat
  BY DEF TypeOK, Vault
<1>1. ASSUME NEW n \in MintAmounts, MintEnrk(v, n)
      PROVE  \E u \in Vault : Called(w, u) /\ Replace(v, u)
  <2>. DEFINE k == n + Fee(n)
  <2>1. n \in Nat \ {0} /\ k \in Nat \ {0}
    BY <1>1, CallAssumption, FeeType DEF MintEnrk
  <2>2. WithEnrk(w, k) \in Vault
    BY <1>0, <2>1, WithFields
  <2>3. /\ w.status = "Active"
        /\ ~BelowRatio(WithEnrk(w, k), KfiatAtPar(market), IcrMinimum)
        /\ Replace(v, WithEnrk(w, k))
    BY <1>1 DEF MintEnrk
  <2>. HIDE DEF w, k
  <2>4. CalledEnrkMint(w, WithEnrk(w, k))
    BY <2>1, <2>3 DEF CalledEnrkMint
  <2>. QED BY <2>2, <2>3, <2>4 DEF Called
<1>2. ASSUME NEW n \in MintAmounts, MintKfiat(v, n)
      PROVE  \E u \in Vault : Called(w, u) /\ Replace(v, u)
  <2>. DEFINE k == n + Fee(n)
  <2>1. n \in Nat \ {0} /\ k \in Nat \ {0}
    BY <1>2, CallAssumption, FeeType DEF MintKfiat
  <2>2. WithKfiat(w, k) \in Vault
    <3>1. w \in Vault /\ k \in Int /\ w.kfiat + k \in Nat
      BY <1>0, <2>1
    <3>. HIDE DEF w, k
    <3>. QED BY <3>1, WithFields
  <2>3. /\ w.status = "Active"
        /\ FitsCap(k)
        /\ ~BelowRatio(WithKfiat(w, k), market, IcrMinimum)
        /\ Replace(v, WithKfiat(w, k))
    BY <1>2 DEF MintKfiat
  <2>. HIDE DEF w, k
  <2>4. CalledKfiatMint(w, WithKfiat(w, k))
    BY <2>1, <2>3 DEF CalledKfiatMint
  <2>. QED BY <2>2, <2>3, <2>4 DEF Called
<1>3. ASSUME NEW n \in BurnAmounts, BurnEnrk(v, n)
      PROVE  \E u \in Vault : Called(w, u) /\ Replace(v, u)
  <2>1. n \in Nat \ {0} /\ w.enrk - n \in Nat /\ -n \in Int
    BY <1>0, <1>3, CallAssumption DEF BurnEnrk, EnrkRepayable
  <2>2. WithEnrk(w, -n) \in Vault
    BY <1>0, <2>1, WithFields
  <2>3. CalledEnrkBurn(w, WithEnrk(w, -n))
    BY <2>1 DEF CalledEnrkBurn
  <2>. QED BY <1>3, <2>2, <2>3 DEF Called, BurnEnrk
<1>4. ASSUME NEW n \in BurnAmounts, BurnKfiat(v, n)
      PROVE  \E u \in Vault : Called(w, u) /\ Replace(v, u)
  <2>1. n \in Nat \ {0} /\ w.kfiat - n \in Nat /\ -n \in Int
    BY <1>0, <1>4, CallAssumption DEF BurnKfiat, KfiatRepayable
  <2>2. WithKfiat(w, -n) \in Vault
    BY <1>0, <2>1, WithFields
  <2>3. CalledKfiatBurn(w, WithKfiat(w, -n))
    BY <2>1 DEF CalledKfiatBurn
  <2>. QED BY <1>4, <2>2, <2>3 DEF Called, BurnKfiat
<1>5. ASSUME NEW n \in KasAmounts, DepositCollateral(v, n)
      PROVE  \E u \in Vault : Called(w, u) /\ Replace(v, u)
  <2>1. n \in Nat \ {0}
    BY <1>5, CallAssumption DEF DepositCollateral
  <2>2. WithCollateral(w, n) \in Vault
    <3>1. w \in Vault /\ n \in Int /\ w.collateral + n \in Nat
      BY <1>0, <2>1
    <3>. HIDE DEF w
    <3>. QED BY <3>1, WithFields
  <2>3. CalledDeposit(w, WithCollateral(w, n))
    BY <1>5, <2>1 DEF CalledDeposit, DepositCollateral
  <2>. QED BY <1>5, <2>2, <2>3 DEF Called, DepositCollateral
<1>6. ASSUME NEW n \in KasAmounts, WithdrawCollateral(v, n)
      PROVE  \E u \in Vault : Called(w, u) /\ Replace(v, u)
  <2>1. n \in Nat \ {0} /\ w.collateral - n \in Nat /\ -n \in Int
    BY <1>0, <1>6, CallAssumption DEF WithdrawCollateral, Withdrawable
  <2>2. WithCollateral(w, -n) \in Vault
    BY <1>0, <2>1, WithFields
  <2>3. CalledWithdrawal(w, WithCollateral(w, -n))
    BY <1>6, <2>1 DEF CalledWithdrawal, WithdrawCollateral, Withdrawable
  <2>. QED BY <1>6, <2>2, <2>3 DEF Called, WithdrawCollateral
<1>7. ASSUME CloseVault(v)
      PROVE  \E u \in Vault : Called(w, u) /\ Replace(v, u)
  <2>1. [w EXCEPT !.status = "Closed"] \in Vault
    BY <1>0 DEF Vault
  <2>2. CalledClose(w, [w EXCEPT !.status = "Closed"])
    BY <1>7 DEF CalledClose, CloseVault
  <2>. QED BY <1>7, <2>1, <2>2 DEF Called, CloseVault
<1>. QED BY <1>1, <1>2, <1>3, <1>4, <1>5, <1>6, <1>7 DEF Call

LEMMA Replaced ==
  ASSUME TypeOK, NEW v \in DOMAIN vaults, NEW u \in Vault, Replace(v, u)
  PROVE  /\ DOMAIN vaults' = DOMAIN vaults
         /\ vaults'[v] = u
         /\ \A x \in DOMAIN vaults \ {v} : vaults'[x] = vaults[x]
         /\ nextVaultId' = nextVaultId
         /\ market' = market
BY DEF Replace

LEMMA Created ==
  ASSUME TypeOK, NEW n \in KasAmounts, CreateVault(n)
  PROVE  /\ DOMAIN vaults' = DOMAIN vaults \cup {nextVaultId}
         /\ nextVaultId \notin DOMAIN vaults
         /\ vaults'[nextVaultId] \in Vault
         /\ vaults'[nextVaultId].enrk = 0
         /\ vaults'[nextVaultId].kfiat = 0
         /\ vaults'[nextVaultId].status = "Active"
         /\ \A x \in DOMAIN vaults : vaults'[x] = vaults[x]
         /\ nextVaultId' = nextVaultId + 1
         /\ market' = market
<1>. DEFINE w == [collateral |-> n, enrk |-> 0, kfiat |-> 0, status |-> "Active"]
<1>1. w \in Vault
  BY CallAssumption DEF CreateVault, Vault
<1>2. nextVaultId \notin DOMAIN vaults
  BY DEF TypeOK
<1>3. vaults' = [v \in DOMAIN vaults \cup {nextVaultId} |->
                   IF v = nextVaultId THEN w ELSE vaults[v]]
  BY DEF CreateVault
<1>4. vaults'[nextVaultId] = w
  BY <1>3
<1>. QED BY <1>1, <1>2, <1>3, <1>4 DEF CreateVault

(* The steps of the specification, by what they do to the vaults.          *)
LEMMA StepKinds ==
  ASSUME TypeOK, [Next]_vars
  PROVE  \/ \E n \in KasAmounts : CreateVault(n)
         \/ \E v \in DOMAIN vaults : \E u \in Vault :
               Called(vaults[v], u) /\ Replace(v, u)
         \/ UNCHANGED <<vaults, nextVaultId>> /\ market' \in Markets
<1>1. ASSUME NEW v \in DOMAIN vaults, Call(v)
      PROVE  \E u \in Vault : Called(vaults[v], u) /\ Replace(v, u)
  BY <1>1, CallsReplace
<1>2. CASE \E m \in Markets : MarketMove(m)
  BY <1>2 DEF MarketMove
<1>3. CASE UNCHANGED vars
  BY <1>3 DEF vars, TypeOK
<1>4. Next => \/ \E n \in KasAmounts : CreateVault(n)
              \/ \E v \in DOMAIN vaults : Call(v)
              \/ \E m \in Markets : MarketMove(m)
  BY DEF Next, Call
<1>. QED BY <1>1, <1>2, <1>3, <1>4

LEMMA TypeInit == Init => TypeOK
BY DEF Init, TypeOK, NoVaults

LEMMA TypeNext == TypeOK /\ [Next]_vars => TypeOK'
<1>. SUFFICES ASSUME TypeOK, [Next]_vars PROVE TypeOK'
  OBVIOUS
<1>1. ASSUME NEW n \in KasAmounts, CreateVault(n) PROVE TypeOK'
  <2>1. nextVaultId \in Nat \ {0} /\ DOMAIN vaults = 1 .. nextVaultId - 1
    BY DEF TypeOK
  <2>2. DOMAIN vaults' = DOMAIN vaults \cup {nextVaultId}
        /\ nextVaultId' = nextVaultId + 1 /\ market' = market
    BY <1>1, Created
  <2>3. (1 .. nextVaultId - 1) \cup {nextVaultId} = 1 .. nextVaultId
    BY <2>1
  <2>4. nextVaultId' - 1 = nextVaultId /\ nextVaultId' \in Nat \ {0}
    BY <2>1, <2>2
  <2>5. DOMAIN vaults' = 1 .. nextVaultId' - 1
    BY <2>1, <2>2, <2>3, <2>4
  <2>6. \A v \in DOMAIN vaults' : vaults'[v] \in Vault
    BY <1>1, Created DEF TypeOK
  <2>. QED BY <2>2, <2>4, <2>5, <2>6 DEF TypeOK
<1>2. ASSUME NEW v \in DOMAIN vaults, NEW u \in Vault, Replace(v, u)
      PROVE  TypeOK'
  BY <1>2, Replaced DEF TypeOK
<1>3. CASE UNCHANGED <<vaults, nextVaultId>> /\ market' \in Markets
  BY <1>3 DEF TypeOK
<1>. QED BY <1>1, <1>2, <1>3, StepKinds

(* Amounts stay natural and ids dense, whatever is called.                 *)
THEOREM VaultsTyped == Spec => []TypeOK
BY TypeInit, TypeNext, PTL DEF Spec

-----------------------------------------------------------------------------
(* Ratios.                                                                 *)

LEMMA TimesGrows ==
  ASSUME NEW a \in Nat, NEW b \in Nat, NEW c \in Nat, a <= b
  PROVE  a * c \in Nat /\ b * c \in Nat /\ a * c <= b * c
<1>1. PICK d \in Nat : b = a + d
  <2>1. b - a \in Nat /\ b = a + (b - a)
    OBVIOUS
  <2>. QED BY <2>1
<1>2. a * c \in Nat /\ d * c \in Nat
  OBVIOUS
<1>3. b * c = a * c + d * c
  BY <1>1
<1>. QED BY <1>2, <1>3

LEMMA ValueTypes ==
  ASSUME NEW w \in Vault, NEW m \in Market
  PROVE  CollateralValue(w, m) \in Nat /\ DebtValue(w, m) \in Nat
<1>1. /\ w.collateral \in Nat /\ w.enrk \in Nat /\ w.kfiat \in Nat
      /\ m.kas \in Nat /\ m.enrk \in Nat /\ m.kfiat \in Nat
  BY DEF Vault, Market
<1>2. w.collateral * m.kas \in Nat /\ w.enrk * m.enrk \in Nat /\ w.kfiat * m.kfiat \in Nat
  BY <1>1
<1>. QED BY <1>2 DEF CollateralValue, DebtValue

(* More worth, less debt, a lower threshold: the ratio passes again.       *)
LEMMA RatioPasses ==
  ASSUME NEW w \in Vault, NEW m \in Market, NEW p \in Nat,
         NEW u \in Vault, NEW o \in Market, NEW q \in Nat,
         CollateralValue(w, m) <= CollateralValue(u, o),
         DebtValue(u, o) <= DebtValue(w, m),
         q <= p,
         ~BelowRatio(w, m, p)
  PROVE  ~BelowRatio(u, o, q)
<1>. DEFINE cw == CollateralValue(w, m)
            dw == DebtValue(w, m)
            cu == CollateralValue(u, o)
            du == DebtValue(u, o)
<1>1. cw \in Nat /\ dw \in Nat /\ cu \in Nat /\ du \in Nat /\ cw <= cu /\ du <= dw
  BY ValueTypes
<1>2. dw # 0 => p * dw <= 100 * cw
  <2>1. p * dw \in Nat
    BY <1>1
  <2>. QED BY <1>1, <2>1 DEF BelowRatio
<1>. SUFFICES ASSUME du # 0 PROVE ~(100 * cu < q * du)
  BY DEF BelowRatio
<1>. HIDE DEF cw, dw, cu, du
<1>3. q * du <= p * du /\ q * du \in Nat /\ p * du \in Nat
  BY <1>1, TimesGrows
<1>4. du * p <= dw * p /\ dw * p \in Nat
  BY <1>1, TimesGrows
<1>5. du * p = p * du /\ dw * p = p * dw
  BY <1>1
<1>6. p * dw <= 100 * cw
  BY <1>1, <1>2
<1>. QED BY <1>1, <1>3, <1>4, <1>5, <1>6

(* A vault with no less collateral and no more debt passes what another    *)
(* passes.                                                                 *)
LEMMA BetterPasses ==
  ASSUME NEW w \in Vault, NEW u \in Vault, NEW m \in Market,
         NEW p \in Nat, NEW q \in Nat, q <= p,
         u.collateral >= w.collateral, u.enrk <= w.enrk, u.kfiat <= w.kfiat,
         ~BelowRatio(w, m, p)
  PROVE  ~BelowRatio(u, m, q)
<1>1. /\ w.collateral \in Nat /\ w.enrk \in Nat /\ w.kfiat \in Nat
      /\ u.collateral \in Nat /\ u.enrk \in Nat /\ u.kfiat \in Nat
      /\ m.kas \in Nat /\ m.enrk \in Nat /\ m.kfiat \in Nat
  BY DEF Vault, Market
<1>2. CollateralValue(w, m) <= CollateralValue(u, m)
  BY <1>1, TimesGrows DEF CollateralValue
<1>3. /\ u.enrk * m.enrk <= w.enrk * m.enrk
      /\ u.kfiat * m.kfiat <= w.kfiat * m.kfiat
  BY <1>1, TimesGrows
<1>4. DebtValue(u, m) <= DebtValue(w, m)
  <2>1. /\ u.enrk * m.enrk \in Nat /\ w.enrk * m.enrk \in Nat
        /\ u.kfiat * m.kfiat \in Nat /\ w.kfiat * m.kfiat \in Nat
    BY <1>1
  <2>. QED BY <1>3, <2>1 DEF DebtValue
<1>. QED BY <1>2, <1>4, RatioPasses

(* A vault that passes with kFIAT taken for 1.0 passes at its price.       *)
LEMMA ParPasses ==
  ASSUME KfiatAtMostPar, NEW m \in Markets, NEW w \in Vault,
         NEW p \in Nat, NEW q \in Nat, q <= p,
         ~BelowRatio(w, KfiatAtPar(m), p)
  PROVE  ~BelowRatio(w, m, q)
<1>. DEFINE o == KfiatAtPar(m)
<1>1. /\ m \in Market /\ o \in Market /\ m.kfiat <= o.kfiat
      /\ o.kas = m.kas /\ o.enrk = m.enrk
  BY MarketAssumption DEF KfiatAtMostPar, KfiatAtPar, Market
<1>2. /\ w.enrk \in Nat /\ w.kfiat \in Nat /\ w.collateral \in Nat
      /\ m.kfiat \in Nat /\ o.kfiat \in Nat /\ m.enrk \in Nat
  BY <1>1 DEF Vault, Market
<1>3. CollateralValue(w, o) = CollateralValue(w, m) /\ CollateralValue(w, m) \in Nat
  BY <1>1, ValueTypes DEF CollateralValue
<1>4. DebtValue(w, m) <= DebtValue(w, o)
  <2>1. m.kfiat * w.kfiat <= o.kfiat * w.kfiat
    BY <1>1, <1>2, TimesGrows
  <2>2. /\ m.kfiat * w.kfiat = w.kfiat * m.kfiat
        /\ o.kfiat * w.kfiat = w.kfiat * o.kfiat
        /\ w.kfiat * m.kfiat \in Nat /\ w.kfiat * o.kfiat \in Nat
        /\ w.enrk * m.enrk \in Nat
    BY <1>2
  <2>. QED BY <1>1, <2>1, <2>2 DEF DebtValue
<1>. HIDE DEF o
<1>5. CollateralValue(w, o) <= CollateralValue(w, m)
  BY <1>3
<1>. QED BY <1>1, <1>4, <1>5, RatioPasses DEF o


-----------------------------------------------------------------------------
(* What a call may do to the ratio of its vault.                           *)

LEMMA Thresholds ==
  /\ IcrMinimum \in Nat /\ McrTrigger \in Nat
  /\ McrTrigger <= IcrMinimum /\ IcrMinimum <= IcrMinimum
  /\ McrTrigger <= McrTrigger
BY RatioAssumption

LEMMA MarketTypes ==
  ASSUME TypeOK
  PROVE  market \in Markets /\ market \in Market /\ KfiatAtPar(market) \in Market
BY MarketAssumption DEF TypeOK, KfiatAtPar, Market

Improves(w, u) ==
  /\ u.collateral >= w.collateral
  /\ u.enrk <= w.enrk
  /\ u.kfiat <= w.kfiat

(* Every call either improves its vault and leaves its status or closes    *)
(* it, or it is a mint or a withdrawal, which it makes worse and which has *)
(* left it above the trigger; an ENRK mint has left it at the minimum.     *)
LEMMA StepsImproveOrCheck ==
  ASSUME TypeOK, KfiatAtMostPar,
         NEW w \in Vault, NEW u \in Vault, Called(w, u)
  PROVE  /\ \/ Improves(w, u) /\ u.status \in {w.status, "Closed"}
            \/ /\ Improves(u, w)
               /\ ~BelowRatio(u, market, McrTrigger)
         /\ u.enrk > w.enrk => ~BelowRatio(u, market, IcrMinimum)
<1>0. /\ w.collateral \in Nat /\ w.enrk \in Nat /\ w.kfiat \in Nat
      /\ u.collateral \in Nat /\ u.enrk \in Nat /\ u.kfiat \in Nat
  BY DEF Vault
<1>1. CASE CalledEnrkMint(w, u)
  <2>1. PICK n \in Nat \ {0} : /\ u = WithEnrk(w, n)
                               /\ ~BelowRatio(u, KfiatAtPar(market), IcrMinimum)
    BY <1>1 DEF CalledEnrkMint
  <2>2. u.enrk = w.enrk + n /\ u.kfiat = w.kfiat /\ u.collateral = w.collateral
    BY <2>1, WithFields
  <2>3. /\ ~BelowRatio(u, market, McrTrigger)
        /\ ~BelowRatio(u, market, IcrMinimum)
    BY <2>1, Thresholds, MarketTypes, ParPasses
  <2>. QED BY <1>0, <2>2, <2>3 DEF Improves
<1>2. CASE CalledKfiatMint(w, u)
  <2>1. PICK n \in Nat \ {0} : /\ u = WithKfiat(w, n)
                               /\ ~BelowRatio(u, market, IcrMinimum)
    BY <1>2 DEF CalledKfiatMint
  <2>2. u.kfiat = w.kfiat + n /\ u.enrk = w.enrk /\ u.collateral = w.collateral
    BY <2>1, WithFields
  <2>3. ~BelowRatio(u, market, McrTrigger)
    BY <1>0, <2>1, Thresholds, MarketTypes, BetterPasses
  <2>. QED BY <1>0, <2>2, <2>3 DEF Improves
<1>3. CASE CalledEnrkBurn(w, u)
  <2>1. PICK k \in Int : k < 0 /\ u = WithEnrk(w, k)
    <3>1. PICK n \in Nat \ {0} : u = WithEnrk(w, -n)
      BY <1>3 DEF CalledEnrkBurn
    <3>2. -n \in Int /\ -n < 0
      OBVIOUS
    <3>. QED BY <3>1, <3>2
  <2>2. /\ u.enrk = w.enrk + k /\ u.kfiat = w.kfiat
        /\ u.collateral = w.collateral /\ u.status = w.status
    BY <1>0, <2>1, WithFields
  <2>. QED BY <1>0, <2>1, <2>2 DEF Improves
<1>4. CASE CalledKfiatBurn(w, u)
  <2>1. PICK k \in Int : k < 0 /\ u = WithKfiat(w, k)
    <3>1. PICK n \in Nat \ {0} : u = WithKfiat(w, -n)
      BY <1>4 DEF CalledKfiatBurn
    <3>2. -n \in Int /\ -n < 0
      OBVIOUS
    <3>. QED BY <3>1, <3>2
  <2>2. /\ u.kfiat = w.kfiat + k /\ u.enrk = w.enrk
        /\ u.collateral = w.collateral /\ u.status = w.status
    BY <1>0, <2>1, WithFields
  <2>. QED BY <1>0, <2>1, <2>2 DEF Improves
<1>5. CASE CalledDeposit(w, u)
  <2>1. PICK n \in Nat \ {0} : u = WithCollateral(w, n)
    BY <1>5 DEF CalledDeposit
  <2>2. /\ u.collateral = w.collateral + n /\ u.enrk = w.enrk
        /\ u.kfiat = w.kfiat /\ u.status = w.status
    BY <2>1, WithFields
  <2>. QED BY <1>0, <2>2 DEF Improves
<1>6. CASE CalledWithdrawal(w, u)
  <2>1. PICK k \in Int : /\ k < 0
                         /\ u = WithCollateral(w, k)
                         /\ ~BelowRatio(u, market, McrTrigger)
    <3>1. PICK n \in Nat \ {0} : /\ u = WithCollateral(w, -n)
                                 /\ ~BelowRatio(u, market, McrTrigger)
      BY <1>6 DEF CalledWithdrawal
    <3>2. -n \in Int /\ -n < 0
      OBVIOUS
    <3>. QED BY <3>1, <3>2
  <2>2. u.collateral = w.collateral + k /\ u.enrk = w.enrk /\ u.kfiat = w.kfiat
    BY <1>0, <2>1, WithFields
  <2>. QED BY <1>0, <2>1, <2>2 DEF Improves
<1>7. CASE CalledClose(w, u)
  <2>1. /\ u.collateral = w.collateral /\ u.enrk = w.enrk
        /\ u.kfiat = w.kfiat /\ u.status = "Closed"
    BY <1>7 DEF CalledClose, Vault
  <2>. QED BY <1>0, <2>1 DEF Improves
<1>. QED BY <1>1, <1>2, <1>3, <1>4, <1>5, <1>6, <1>7 DEF Called

(* Steps as what happens to one vault that was there before: it is left    *)
(* alone, or a call replaces it; and calls leave the prices alone.         *)
LEMMA VaultSteps ==
  ASSUME TypeOK, [Next]_vars, NEW x \in DOMAIN vaults
  PROVE  /\ vaults[x] \in Vault
         /\ \/ vaults'[x] = vaults[x]
            \/ /\ vaults'[x] \in Vault
               /\ Called(vaults[x], vaults'[x])
               /\ market' = market
         /\ market' # market => vaults' = vaults
<1>1. ASSUME NEW n \in KasAmounts, CreateVault(n)
      PROVE  vaults'[x] = vaults[x] /\ market' = market
  BY <1>1, Created
<1>2. ASSUME NEW v \in DOMAIN vaults, NEW u \in Vault,
             Called(vaults[v], u), Replace(v, u)
      PROVE  /\ market' = market
             /\ \/ vaults'[x] = vaults[x]
                \/ /\ vaults'[x] \in Vault
                   /\ Called(vaults[x], vaults'[x])
  <2>1. CASE x = v
    BY <1>2, <2>1, Replaced
  <2>2. CASE x # v
    BY <1>2, <2>2, Replaced
  <2>. QED BY <1>2, <2>1, <2>2, Replaced
<1>3. vaults[x] \in Vault
  BY DEF TypeOK
<1>. QED BY <1>1, <1>2, <1>3, StepKinds

-----------------------------------------------------------------------------
(* Only a price move makes a vault a candidate, if kFIAT is never above    *)
(* par: without that ENRK mints, which take it for 1.0, would.             *)
THEOREM OwnersDoNotEndanger ==
  ASSUME KfiatAtMostPar
  PROVE  Spec => OnlyPricesEndanger
<1>1. ASSUME TypeOK, [Next]_vars, NEW x \in DOMAIN vaults,
             ~IsCandidate(vaults[x], market), IsCandidate(vaults'[x], market')
      PROVE  market' # market
  <2>. DEFINE w == vaults[x]
              u == vaults'[x]
  <2>. SUFFICES ASSUME market' = market PROVE FALSE
    OBVIOUS
  <2>1. w \in Vault /\ u \in Vault /\ Called(w, u)
    BY <1>1, VaultSteps
  <2>2. u.status = "Active" /\ BelowRatio(u, market, McrTrigger)
    BY <1>1 DEF IsCandidate
  <2>. HIDE DEF w, u
  <2>3. Improves(w, u) /\ w.status = "Active"
    BY <1>1, <2>1, <2>2, StepsImproveOrCheck
  <2>4. ~BelowRatio(w, market, McrTrigger)
    BY <1>1, <2>3 DEF IsCandidate, w
  <2>5. ~BelowRatio(u, market, McrTrigger)
    BY <1>1, <2>1, <2>3, <2>4, Thresholds, MarketTypes, BetterPasses DEF Improves
  <2>. QED BY <2>2, <2>5
<1>2. TypeOK /\ [Next]_vars =>
        [\A v \in DOMAIN vaults :
           /\ ~IsCandidate(vaults[v], market)
           /\ IsCandidate(vaults'[v], market')
           => market' # market]_vars
  BY <1>1
<1>. QED BY <1>2, TypeInit, TypeNext, PTL DEF Spec, OnlyPricesEndanger, IsCandidate

(* Nobody takes KAS out of a candidate or adds to its debt.                *)
THEOREM CandidatesAreNotEmptied ==
  ASSUME KfiatAtMostPar
  PROVE  Spec => CandidatesOnlyImprove
<1>1. ASSUME TypeOK, [Next]_vars, NEW x \in Candidates
      PROVE  Improves(vaults[x], vaults'[x])
  <2>. DEFINE w == vaults[x]
              u == vaults'[x]
  <2>1. x \in DOMAIN vaults /\ BelowRatio(w, market, McrTrigger)
    BY DEF Candidates, IsCandidate
  <2>2. w \in Vault /\ (u = w \/ (u \in Vault /\ Called(w, u)))
    BY <1>1, <2>1, VaultSteps
  <2>. HIDE DEF w, u
  <2>3. CASE u = w
    <3>1. Improves(w, u)
      BY <2>2, <2>3 DEF Improves, Vault
    <3>. QED BY <3>1 DEF w, u
  <2>4. CASE u \in Vault /\ Called(w, u)
    <3>1. CASE ~Improves(w, u)
      <4>1. Improves(u, w) /\ ~BelowRatio(u, market, McrTrigger)
        BY <1>1, <2>2, <2>4, <3>1, StepsImproveOrCheck
      <4>2. ~BelowRatio(w, market, McrTrigger)
        BY <1>1, <2>2, <2>4, <4>1, Thresholds, MarketTypes, BetterPasses
           DEF Improves
      <4>. QED BY <2>1, <4>2
    <3>. QED BY <3>1 DEF w, u
  <2>. QED BY <2>2, <2>3, <2>4
<1>2. TypeOK /\ [Next]_vars =>
        [\A v \in Candidates :
           /\ vaults'[v].collateral >= vaults[v].collateral
           /\ vaults'[v].enrk <= vaults[v].enrk
           /\ vaults'[v].kfiat <= vaults[v].kfiat]_vars
  BY <1>1 DEF Improves
<1>. QED BY <1>2, TypeInit, TypeNext, PTL DEF Spec, CandidatesOnlyImprove

(* An ENRK mint leaves its vault at the minimum ratio.                     *)
THEOREM EnrkMintSound ==
  ASSUME KfiatAtMostPar
  PROVE  Spec => EnrkMintLeavesMinimum
<1>1. ASSUME TypeOK, [Next]_vars, NEW x \in DOMAIN vaults,
             vaults'[x].enrk > vaults[x].enrk
      PROVE  ~BelowRatio(vaults'[x], market, IcrMinimum)
  <2>. DEFINE w == vaults[x]
              u == vaults'[x]
  <2>1. w \in Vault /\ (u = w \/ (u \in Vault /\ Called(w, u))) /\ u.enrk > w.enrk
    BY <1>1, VaultSteps
  <2>. HIDE DEF w, u
  <2>2. u # w
    BY <2>1 DEF Vault
  <2>3. ~BelowRatio(u, market, IcrMinimum)
    BY <1>1, <2>1, <2>2, StepsImproveOrCheck
  <2>. QED BY <2>3 DEF u
<1>2. TypeOK /\ [Next]_vars =>
        [\A v \in DOMAIN vaults :
           vaults'[v].enrk > vaults[v].enrk =>
             ~BelowRatio(vaults'[v], market, IcrMinimum)]_vars
  BY <1>1
<1>. QED BY <1>2, TypeInit, TypeNext, PTL DEF Spec, EnrkMintLeavesMinimum

(* In every state that is well typed all ENRK and then all kFIAT of a      *)
(* vault can be returned.                                                  *)
THEOREM BorrowersAreLetOut == Spec => []DebtCanAlwaysBeCleared
<1>1. ASSUME TypeOK, NEW v \in DOMAIN vaults
      PROVE  LET w == vaults[v] IN
             /\ w.enrk > 0 => EnrkRepayable(w, w.enrk)
             /\ w.kfiat > 0 => KfiatRepayable(WithEnrk(w, -w.enrk), w.kfiat)
  <2>. DEFINE w == vaults[v]
              x == WithEnrk(w, -w.enrk)
              y == WithKfiat(x, -w.kfiat)
  <2>1. /\ w \in Vault /\ w.enrk \in Nat /\ w.kfiat \in Nat
        /\ -w.enrk \in Int /\ -w.kfiat \in Int
        /\ w.enrk + (-w.enrk) = 0 /\ w.kfiat + (-w.kfiat) = 0
    BY <1>1 DEF TypeOK, Vault
  <2>2. w.enrk > 0 => EnrkRepayable(w, w.enrk)
    BY <2>1 DEF EnrkRepayable
  <2>. HIDE DEF w
  <2>3. x \in Vault /\ x.enrk = 0 /\ x.kfiat = w.kfiat
    BY <2>1 DEF WithEnrk, Vault
  <2>. HIDE DEF x
  <2>4. y.enrk = 0 /\ y.kfiat = 0
    BY <2>1, <2>3 DEF WithKfiat, Vault
  <2>5. ~BelowRatio(y, market, IcrMinimum)
    <3>1. market.enrk \in Nat /\ market.kfiat \in Nat
      BY <1>1, MarketTypes DEF Market
    <3>. HIDE DEF y
    <3>. QED BY <2>4, <3>1 DEF BelowRatio, DebtValue
  <2>6. w.kfiat > 0 => KfiatRepayable(x, w.kfiat)
    BY <2>1, <2>3, <2>5 DEF KfiatRepayable
  <2>. QED BY <2>2, <2>6 DEF w, x
<1>2. TypeOK => DebtCanAlwaysBeCleared
  BY <1>1 DEF DebtCanAlwaysBeCleared
<1>. QED BY <1>2, TypeInit, TypeNext, PTL DEF Spec

(* The status check missing from the burns is not missed, because a closed *)
(* vault owes nothing and only an active one can be made to owe.           *)
ClosedOweNothing ==
  \A v \in DOMAIN vaults :
    vaults[v].status = "Closed" => vaults[v].enrk = 0 /\ vaults[v].kfiat = 0

LEMMA ClosedReplaced ==
  ASSUME NEW w \in Vault, NEW u \in Vault, Called(w, u),
         w.status = "Closed" => w.enrk = 0 /\ w.kfiat = 0
  PROVE  /\ w.status = "Closed" => u = w
         /\ u.status = "Closed" => u.enrk = 0 /\ u.kfiat = 0
<1>0. /\ w.enrk \in Nat /\ w.kfiat \in Nat
      /\ w.status \in {"Active", "Closed"} /\ "Active" # "Closed"
  BY DEF Vault
<1>1. CASE \/ CalledEnrkMint(w, u) \/ CalledKfiatMint(w, u)
           \/ CalledDeposit(w, u) \/ CalledWithdrawal(w, u)
  <2>1. w.status = "Active" /\ u.status = "Active"
    BY <1>1 DEF CalledEnrkMint, CalledKfiatMint, CalledDeposit, CalledWithdrawal,
                WithEnrk, WithKfiat, WithCollateral, Vault
  <2>. QED BY <2>1
<1>2. CASE CalledEnrkBurn(w, u) \/ CalledKfiatBurn(w, u)
  <2>1. w.enrk # 0 \/ w.kfiat # 0
    BY <1>0, <1>2 DEF CalledEnrkBurn, CalledKfiatBurn
  <2>2. u.status = w.status
    BY <1>2 DEF CalledEnrkBurn, CalledKfiatBurn, WithEnrk, WithKfiat, Vault
  <2>. QED BY <1>0, <2>1, <2>2
<1>3. CASE CalledClose(w, u)
  <2>1. w.enrk = 0 /\ w.kfiat = 0 /\ u = [w EXCEPT !.status = "Closed"]
    BY <1>0, <1>3 DEF CalledClose
  <2>. QED BY <2>1 DEF Vault
<1>. QED BY <1>1, <1>2, <1>3 DEF Called

(* Nothing happens to a closed vault any more.                             *)
THEOREM ClosedStayAsTheyAre == Spec => ClosedVaultsAreFrozen
<1>1. Init => ClosedOweNothing
  BY DEF Init, NoVaults, ClosedOweNothing
<1>2. ASSUME TypeOK, ClosedOweNothing, [Next]_vars, NEW v \in DOMAIN vaults
      PROVE  /\ vaults[v].status = "Closed" => vaults'[v] = vaults[v]
             /\ vaults'[v].status = "Closed" =>
                  vaults'[v].enrk = 0 /\ vaults'[v].kfiat = 0
  <2>1. vaults[v].status = "Closed" => vaults[v].enrk = 0 /\ vaults[v].kfiat = 0
    BY <1>2 DEF ClosedOweNothing
  <2>2. CASE vaults'[v] = vaults[v]
    BY <2>1, <2>2
  <2>3. CASE vaults'[v] \in Vault /\ Called(vaults[v], vaults'[v])
    <3>1. vaults[v] \in Vault
      BY <1>2 DEF TypeOK
    <3>. QED BY <2>1, <2>3, <3>1, ClosedReplaced
  <2>. QED BY <1>2, <2>2, <2>3, VaultSteps
<1>3. ASSUME TypeOK, ClosedOweNothing, [Next]_vars, NEW v \in DOMAIN vaults',
             v \notin DOMAIN vaults
      PROVE  vaults'[v].status # "Closed"
  <2>1. ASSUME NEW n \in KasAmounts, CreateVault(n)
        PROVE  vaults'[v].status # "Closed"
    BY <1>3, <2>1, Created
  <2>2. ASSUME NEW x \in DOMAIN vaults, NEW u \in Vault, Replace(x, u)
        PROVE  FALSE
    BY <1>3, <2>2, Replaced
  <2>. QED BY <1>3, <2>1, <2>2, StepKinds
<1>4. TypeOK /\ ClosedOweNothing /\ [Next]_vars => ClosedOweNothing'
  BY <1>2, <1>3 DEF ClosedOweNothing
<1>5. TypeOK /\ ClosedOweNothing /\ [Next]_vars =>
        [\A v \in DOMAIN vaults :
           vaults[v].status = "Closed" => vaults'[v] = vaults[v]]_vars
  BY <1>2
<1>. QED BY <1>1, <1>4, <1>5, TypeInit, TypeNext, PTL
         DEF Spec, ClosedVaultsAreFrozen

-----------------------------------------------------------------------------
(* The debts of all vaults together.                                       *)

Enrks(vs)  == [v \in DOMAIN vs |-> vs[v].enrk]
Kfiats(vs) == [v \in DOMAIN vs |-> vs[v].kfiat]

LEMMA DebtsOf ==
  ASSUME NEW D, IsFiniteSet(D), NEW vs, DOMAIN vs = D,
         \A v \in D : vs[v] \in Vault
  PROVE  /\ Enrks(vs) \in [D -> Int] /\ Kfiats(vs) \in [D -> Int]
         /\ SumFunction(Enrks(vs)) \in Nat
         /\ SumFunction(Kfiats(vs)) \in Nat
<1>1. \A v \in D : vs[v].enrk \in Nat /\ vs[v].kfiat \in Nat
  BY DEF Vault
<1>2. /\ Enrks(vs) \in [D -> Int] /\ \A v \in D : Enrks(vs)[v] \in Nat
      /\ Kfiats(vs) \in [D -> Int] /\ \A v \in D : Kfiats(vs)[v] \in Nat
  BY <1>1 DEF Enrks, Kfiats
<1>. QED BY <1>2, SumOfNaturals

(* Changing or adding one vault changes the sums by the change of its own  *)
(* debts; a vault that was not there before had none.                      *)
LEMMA DebtsChangeAtOneVault ==
  ASSUME NEW D, IsFiniteSet(D), NEW vs, DOMAIN vs = D,
         \A v \in D : vs[v] \in Vault,
         NEW E, IsFiniteSet(E), NEW xs, DOMAIN xs = E,
         \A v \in E : xs[v] \in Vault,
         NEW a \in E, D \ {a} = E \ {a}, \A v \in D \ {a} : xs[v] = vs[v]
  PROVE  /\ SumFunction(Enrks(xs)) - xs[a].enrk
              = SumFunction(Enrks(vs)) - (IF a \in D THEN vs[a].enrk ELSE 0)
         /\ SumFunction(Kfiats(xs)) - xs[a].kfiat
              = SumFunction(Kfiats(vs)) - (IF a \in D THEN vs[a].kfiat ELSE 0)
<1>1. /\ Enrks(vs) \in [D -> Int] /\ Kfiats(vs) \in [D -> Int]
      /\ Enrks(xs) \in [E -> Int] /\ Kfiats(xs) \in [E -> Int]
  BY DebtsOf
<1>2. Agree(Enrks(vs), Enrks(xs), D \ {a}) /\ Agree(Kfiats(vs), Kfiats(xs), D \ {a})
  BY DEF Agree, Enrks, Kfiats
<1>3. /\ Enrks(xs)[a] = xs[a].enrk /\ Kfiats(xs)[a] = xs[a].kfiat
      /\ a \in D => Enrks(vs)[a] = vs[a].enrk /\ Kfiats(vs)[a] = vs[a].kfiat
  BY DEF Enrks, Kfiats
<1>4. SumFunction(Enrks(xs)) - (IF a \in E THEN Enrks(xs)[a] ELSE 0)
        = SumFunction(Enrks(vs)) - (IF a \in D THEN Enrks(vs)[a] ELSE 0)
  BY <1>1, <1>2, SumChangesAtOnePoint
<1>5. SumFunction(Kfiats(xs)) - (IF a \in E THEN Kfiats(xs)[a] ELSE 0)
        = SumFunction(Kfiats(vs)) - (IF a \in D THEN Kfiats(vs)[a] ELSE 0)
  BY <1>1, <1>2, SumChangesAtOnePoint
<1>. QED BY <1>3, <1>4, <1>5

LEMMA Totals ==
  /\ TotalEnrk = SumFunction(Enrks(vaults))
  /\ TotalKfiat = SumFunction(Kfiats(vaults))
BY DEF TotalEnrk, TotalKfiat, Enrks, Kfiats

LEMMA NextTotals ==
  /\ TotalEnrk' = SumFunction(Enrks(vaults'))
  /\ TotalKfiat' = SumFunction(Kfiats(vaults'))
BY DEF TotalEnrk, TotalKfiat, Enrks, Kfiats

LEMMA FiniteVaults == TypeOK => IsFiniteSet(DOMAIN vaults)
<1>. SUFFICES ASSUME TypeOK PROVE IsFiniteSet(DOMAIN vaults)
  OBVIOUS
<1>1. nextVaultId - 1 \in Int /\ DOMAIN vaults = 1 .. nextVaultId - 1
  BY DEF TypeOK
<1>. QED BY <1>1, FS_Interval

LEMMA TotalsNatural ==
  TypeOK => TotalEnrk \in Nat /\ TotalKfiat \in Nat
<1>. SUFFICES ASSUME TypeOK PROVE TotalEnrk \in Nat /\ TotalKfiat \in Nat
  OBVIOUS
<1>1. \A v \in DOMAIN vaults : vaults[v] \in Vault
  BY DEF TypeOK
<1>. QED BY <1>1, Totals, FiniteVaults, DebtsOf

LEMMA TotalsNaturalNext ==
  TypeOK' => TotalEnrk' \in Nat /\ TotalKfiat' \in Nat
<1>. SUFFICES ASSUME TypeOK' PROVE TotalEnrk' \in Nat /\ TotalKfiat' \in Nat
  OBVIOUS
<1>1. \A v \in DOMAIN vaults' : vaults'[v] \in Vault
  BY DEF TypeOK
<1>2. IsFiniteSet(DOMAIN vaults')
  <2>1. nextVaultId' - 1 \in Int /\ DOMAIN vaults' = 1 .. nextVaultId' - 1
    BY DEF TypeOK
  <2>. QED BY <2>1, FS_Interval
<1>. QED BY <1>1, <1>2, NextTotals, DebtsOf

(* A new vault owes nothing and leaves the totals alone.                   *)
LEMMA CreationLeavesTotals ==
  ASSUME TypeOK, TypeOK', NEW n \in KasAmounts, CreateVault(n)
  PROVE  TotalEnrk' = TotalEnrk /\ TotalKfiat' = TotalKfiat
<1>. DEFINE D == DOMAIN vaults
            E == DOMAIN vaults'
            a == nextVaultId
<1>1. /\ IsFiniteSet(D) /\ IsFiniteSet(E)
      /\ \A v \in D : vaults[v] \in Vault
      /\ \A v \in E : vaults'[v] \in Vault
  <2>1. IsFiniteSet(E)
    BY FS_AddElement, FiniteVaults, Created
  <2>. QED BY <2>1, FiniteVaults DEF TypeOK
<1>2. /\ a \in E /\ a \notin D /\ D \ {a} = E \ {a}
      /\ \A v \in D \ {a} : vaults'[v] = vaults[v]
      /\ vaults'[a].enrk = 0 /\ vaults'[a].kfiat = 0
  BY Created
<1>3. /\ TotalEnrk \in Nat /\ TotalKfiat \in Nat
      /\ TotalEnrk' \in Nat /\ TotalKfiat' \in Nat
  BY TotalsNatural, TotalsNaturalNext
<1>. HIDE DEF D, E, a
<1>4. /\ SumFunction(Enrks(vaults')) - vaults'[a].enrk = SumFunction(Enrks(vaults)) - 0
      /\ SumFunction(Kfiats(vaults')) - vaults'[a].kfiat = SumFunction(Kfiats(vaults)) - 0
  BY <1>1, <1>2, DebtsChangeAtOneVault DEF D, E
<1>5. TotalEnrk' - 0 = TotalEnrk - 0 /\ TotalKfiat' - 0 = TotalKfiat - 0
  BY <1>2, <1>4, Totals, NextTotals
<1>6. \A i, j \in Nat : i - 0 = j - 0 => i = j
  OBVIOUS
<1>. QED BY <1>3, <1>5, <1>6

(* A call changes the totals by what it changes in its vault.              *)
LEMMA CallsChangeTotals ==
  ASSUME TypeOK, TypeOK', NEW v \in DOMAIN vaults, NEW u \in Vault, Replace(v, u)
  PROVE  /\ TotalEnrk' = TotalEnrk + (u.enrk - vaults[v].enrk)
         /\ TotalKfiat' = TotalKfiat + (u.kfiat - vaults[v].kfiat)
<1>. DEFINE D == DOMAIN vaults
<1>1. /\ IsFiniteSet(D) /\ DOMAIN vaults' = D
      /\ \A x \in D : vaults[x] \in Vault
      /\ \A x \in D : vaults'[x] \in Vault
      /\ v \in D /\ vaults'[v] = u
      /\ \A x \in D \ {v} : vaults'[x] = vaults[x]
  BY FiniteVaults, Replaced DEF TypeOK
<1>2. /\ TotalEnrk \in Nat /\ TotalKfiat \in Nat
      /\ TotalEnrk' \in Nat /\ TotalKfiat' \in Nat
      /\ u.enrk \in Nat /\ u.kfiat \in Nat
      /\ vaults[v].enrk \in Nat /\ vaults[v].kfiat \in Nat
  BY <1>1, TotalsNatural, TotalsNaturalNext DEF Vault
<1>. HIDE DEF D
<1>3. /\ SumFunction(Enrks(vaults')) - u.enrk
           = SumFunction(Enrks(vaults)) - vaults[v].enrk
      /\ SumFunction(Kfiats(vaults')) - u.kfiat
           = SumFunction(Kfiats(vaults)) - vaults[v].kfiat
  BY <1>1, DebtsChangeAtOneVault DEF D
<1>4. /\ TotalEnrk' - u.enrk = TotalEnrk - vaults[v].enrk
      /\ TotalKfiat' - u.kfiat = TotalKfiat - vaults[v].kfiat
  BY <1>3, Totals, NextTotals
<1>. QED BY <1>2, <1>4

(* A call changes at most one of the totals, and raises the junior one     *)
(* only into the cap.                                                      *)
LEMMA CallsMoveTranches ==
  ASSUME TypeOK, TypeOK', NEW v \in DOMAIN vaults, NEW u \in Vault,
         Called(vaults[v], u), Replace(v, u)
  PROVE  Tranches!Next \/ UNCHANGED Tranches!supplies
<1>. DEFINE w == vaults[v]
<1>1. /\ TotalEnrk' = TotalEnrk + (u.enrk - w.enrk)
      /\ TotalKfiat' = TotalKfiat + (u.kfiat - w.kfiat)
  BY CallsChangeTotals
<1>2. /\ TotalEnrk \in Nat /\ TotalKfiat \in Nat
      /\ TotalEnrk' \in Nat /\ TotalKfiat' \in Nat
  BY TotalsNatural, TotalsNaturalNext
<1>3. w \in Vault /\ w.enrk \in Nat /\ w.kfiat \in Nat /\ Called(w, u)
  BY DEF TypeOK, Vault
<1>. HIDE DEF w
<1>4. CASE CalledEnrkMint(w, u)
  <2>1. PICK n \in Nat \ {0} : u = WithEnrk(w, n)
    BY <1>4 DEF CalledEnrkMint
  <2>2. u.enrk = w.enrk + n /\ u.kfiat = w.kfiat
    BY <1>3, <2>1, WithFields
  <2>3. TotalEnrk' > TotalEnrk /\ TotalKfiat' = TotalKfiat
    BY <1>1, <1>2, <1>3, <2>2
  <2>. QED BY <1>2, <2>3 DEF Tranches!Next, Tranches!SeniorMint
<1>5. CASE CalledKfiatMint(w, u)
  <2>1. PICK n \in Nat \ {0} : u = WithKfiat(w, n) /\ FitsCap(n)
    BY <1>5 DEF CalledKfiatMint
  <2>2. u.enrk = w.enrk /\ u.kfiat = w.kfiat + n
    BY <1>3, <2>1, WithFields
  <2>3. TotalEnrk' = TotalEnrk /\ TotalKfiat' = TotalKfiat + n
    BY <1>1, <1>2, <1>3, <2>2
  <2>4. 100 * TotalKfiat' <= CapPercent * (TotalEnrk' + TotalKfiat')
    <3>1. TotalEnrk' + TotalKfiat' = TotalEnrk + TotalKfiat + n
      BY <1>2, <2>3
    <3>. QED BY <2>1, <2>3, <3>1 DEF FitsCap
  <2>5. TotalKfiat' > TotalKfiat
    BY <1>2, <2>3
  <2>. QED BY <1>2, <2>3, <2>4, <2>5
       DEF Tranches!Next, Tranches!JuniorMint, Tranches!WithinCap
<1>6. CASE CalledEnrkBurn(w, u)
  <2>1. PICK n \in Nat \ {0} : u = WithEnrk(w, -n)
    BY <1>6 DEF CalledEnrkBurn
  <2>2. -n \in Int
    OBVIOUS
  <2>3. u.enrk = w.enrk + (-n) /\ u.kfiat = w.kfiat
    BY <1>3, <2>1, <2>2, WithFields
  <2>4. TotalEnrk' < TotalEnrk /\ TotalKfiat' = TotalKfiat
    BY <1>1, <1>2, <1>3, <2>3
  <2>. QED BY <1>2, <2>4 DEF Tranches!Next, Tranches!SeniorBurn
<1>7. CASE CalledKfiatBurn(w, u)
  <2>1. PICK n \in Nat \ {0} : u = WithKfiat(w, -n)
    BY <1>7 DEF CalledKfiatBurn
  <2>2. -n \in Int
    OBVIOUS
  <2>3. u.kfiat = w.kfiat + (-n) /\ u.enrk = w.enrk
    BY <1>3, <2>1, <2>2, WithFields
  <2>4. TotalKfiat' < TotalKfiat /\ TotalEnrk' = TotalEnrk
    BY <1>1, <1>2, <1>3, <2>3
  <2>. QED BY <1>2, <2>4 DEF Tranches!Next, Tranches!JuniorBurn
<1>8. CASE CalledDeposit(w, u) \/ CalledWithdrawal(w, u) \/ CalledClose(w, u)
  <2>1. u.enrk = w.enrk /\ u.kfiat = w.kfiat
    BY <1>3, <1>8 DEF CalledDeposit, CalledWithdrawal, CalledClose,
                      WithCollateral, Vault
  <2>2. TotalEnrk' = TotalEnrk /\ TotalKfiat' = TotalKfiat
    BY <1>1, <1>2, <1>3, <2>1
  <2>. QED BY <2>2 DEF Tranches!supplies
<1>. QED BY <1>3, <1>4, <1>5, <1>6, <1>7, <1>8 DEF Called

(* The debts of the vaults implement the abstract two-tranche supply: the  *)
(* cap holds over all vaults and at every kFIAT mint, fee included.        *)
THEOREM VaultsImplementTranches == Spec => ImplementsTranches
<1>1. Init => Tranches!Init
  <2>. SUFFICES ASSUME Init PROVE TotalEnrk = 0 /\ TotalKfiat = 0
    BY DEF Tranches!Init
  <2>1. /\ DOMAIN Enrks(vaults) = {} /\ Enrks(vaults) \in [{} -> Int]
        /\ DOMAIN Kfiats(vaults) = {} /\ Kfiats(vaults) \in [{} -> Int]
    BY DEF Init, NoVaults, Enrks, Kfiats
  <2>. QED BY <2>1, Totals, SumEmpty
<1>2. TypeOK /\ TypeOK' /\ [Next]_vars => [Tranches!Next]_(Tranches!supplies)
  <2>. SUFFICES ASSUME TypeOK, TypeOK', [Next]_vars
                PROVE  Tranches!Next \/ UNCHANGED Tranches!supplies
    OBVIOUS
  <2>1. ASSUME NEW n \in KasAmounts, CreateVault(n)
        PROVE  UNCHANGED Tranches!supplies
    BY <2>1, CreationLeavesTotals DEF Tranches!supplies
  <2>2. ASSUME NEW v \in DOMAIN vaults, NEW u \in Vault,
               Called(vaults[v], u), Replace(v, u)
        PROVE  Tranches!Next \/ UNCHANGED Tranches!supplies
    BY <2>2, CallsMoveTranches
  <2>3. CASE UNCHANGED <<vaults, nextVaultId>>
    BY <2>3, Totals, NextTotals DEF Tranches!supplies
  <2>. QED BY <2>1, <2>2, <2>3, StepKinds
<1>. QED
  BY <1>1, <1>2, TypeInit, TypeNext, PTL DEF Spec, ImplementsTranches, Tranches!Spec
=============================================================================
