---------------------------- MODULE KaspaTokens ----------------------------
(***************************************************************************)
(* The token layer (kaspa_tokens.rs): one ledger for the senior token ENRK *)
(* and one for the junior token kFIAT, each a total supply next to a map   *)
(* of balances, and the cap that TokenLayer enforces on junior mints.      *)
(*                                                                         *)
(* A call that the code rejects changes nothing and is no step here: every *)
(* condition below that the code answers with an error is a conjunct of    *)
(* the guard.  Amounts are BigInt in the code, so they do not overflow.    *)
(***************************************************************************)
EXTENDS Integers, Functions

CONSTANTS
  Addresses,        \* the strings callers pass as addresses
  ValidAddresses,   \* those KaspaAddressValidator accepts
  Amounts,          \* the amounts callers pass, zero and negative ones too
  CapPercent,       \* kfiat_cap_percent, frozen by TokenLayer::new
  MaxSupply         \* bound of the model: no mint takes a supply above it

ASSUME AddressAssumption == ValidAddresses \subseteq Addresses
ASSUME AmountAssumption == Amounts \subseteq Int
ASSUME CapAssumption == CapPercent \in 1..99
ASSUME BoundAssumption == MaxSupply \in Nat

VARIABLES enrk,     \* the ENRK ledger:  [supply, balances]
          kfiat     \* the kFIAT ledger: [supply, balances]

vars == <<enrk, kfiat>>

-----------------------------------------------------------------------------
(* One ledger (TokenLedger).  balances is the HashMap: its domain is the   *)
(* set of addresses that have an entry.                                    *)

EmptyLedger == [supply |-> 0, balances |-> [a \in {} |-> 0]]

BalanceOf(balances, a) == IF a \in DOMAIN balances THEN balances[a] ELSE 0

(* What never removing an entry would do.                                  *)
EmptyEntryKept(balances, a, n) ==
  [x \in DOMAIN balances \cup {a} |-> IF x = a THEN n ELSE balances[x]]

(* The balances once a's entry is set to n; an emptied entry is removed.   *)
SetBalance(balances, a, n) ==
  LET holders == IF n = 0 THEN DOMAIN balances \ {a}
                          ELSE DOMAIN balances \cup {a}
  IN  [x \in holders |-> IF x = a THEN n ELSE balances[x]]

Credit(balances, a, n) == SetBalance(balances, a, BalanceOf(balances, a) + n)
Debit(balances, a, n)  == SetBalance(balances, a, BalanceOf(balances, a) - n)

Mintable(to, n) == to \in ValidAddresses /\ n > 0

Minted(ledger, to, n) ==
  [supply   |-> ledger.supply + n,
   balances |-> Credit(ledger.balances, to, n)]

Burnable(ledger, from, n) ==
  /\ from \in ValidAddresses
  /\ n > 0
  /\ BalanceOf(ledger.balances, from) >= n
  /\ ledger.supply >= n       \* else StateInconsistency: a corrupt ledger

(* What a burn that forgets the supply would do.                           *)
SupplyForgotten(ledger, from, n) ==
  [ledger EXCEPT !.balances = Debit(ledger.balances, from, n)]

(* What a burn that charges the supply twice would do.                     *)
SupplyChargedTwice(ledger, from, n) ==
  [supply   |-> ledger.supply - 2 * n,
   balances |-> Debit(ledger.balances, from, n)]

Burned(ledger, from, n) ==
  [supply   |-> ledger.supply - n,
   balances |-> Debit(ledger.balances, from, n)]

Transferable(ledger, from, to, n) ==
  /\ {from, to} \subseteq ValidAddresses
  /\ n > 0
  /\ from # to
  /\ BalanceOf(ledger.balances, from) >= n

Transferred(ledger, from, to, n) ==
  [ledger EXCEPT !.balances = Credit(Debit(ledger.balances, from, n), to, n)]

SumOfBalances(ledger) == SumFunction(ledger.balances)

-----------------------------------------------------------------------------
(* The junior cap (TokenLayer).  e and k are the two supplies.             *)

(* What a cap check on the present supplies, not on the prospective ones,  *)
(* would do.                                                               *)
PresentSharesFit(e, k, n) == 100 * k <= CapPercent * (e + k)

(* What a cap check by the size of the headroom, its sign lost, would do.  *)
FitsUnsignedHeadroom(e, k, n) ==
  LET room == CapPercent * (e + k) - 100 * k
  IN  (100 - CapPercent) * n <= IF room < 0 THEN 0 - room ELSE room

(* Minting n kFIAT leaves the junior share within the cap.                 *)
JuniorMintFits(e, k, n) == 100 * (k + n) <= CapPercent * (e + k + n)

(* What a headroom that forgets that a mint also grows the total would be. *)
HeadroomOfFixedTotal(e, k) ==
  LET numerator == CapPercent * (e + k) - 100 * k
  IN  IF numerator <= 0 THEN 0 ELSE numerator \div 100

(* max_mintable_kfiat: the largest junior mint the cap still admits.       *)
MaxMintable(e, k) ==
  LET numerator == CapPercent * (e + k) - 100 * k
  IN  IF numerator <= 0 THEN 0 ELSE numerator \div (100 - CapPercent)

RatioPercent(part, whole) ==
  IF whole = 0 THEN 0 ELSE (100 * part) \div whole

(* What reporting the junior debt per senior debt would do.                *)
KfiatPerEnrkPercent == RatioPercent(kfiat.supply, enrk.supply)

KfiatRatioPercent == RatioPercent(kfiat.supply, enrk.supply + kfiat.supply)

-----------------------------------------------------------------------------
(* The operations of TokenLayer.                                           *)

Init ==
  /\ enrk = EmptyLedger
  /\ kfiat = EmptyLedger

MintEnrk(to, n) ==
  /\ Mintable(to, n)
  /\ enrk.supply + n <= MaxSupply
  /\ enrk' = Minted(enrk, to, n)
  /\ UNCHANGED kfiat

MintKfiat(to, n) ==
  /\ Mintable(to, n)
  /\ JuniorMintFits(enrk.supply, kfiat.supply, n)
  /\ kfiat.supply + n <= MaxSupply
  /\ kfiat' = Minted(kfiat, to, n)
  /\ UNCHANGED enrk

BurnEnrk(from, n) ==
  /\ Burnable(enrk, from, n)
  /\ enrk' = Burned(enrk, from, n)
  /\ UNCHANGED kfiat

BurnKfiat(from, n) ==
  /\ Burnable(kfiat, from, n)
  /\ kfiat' = Burned(kfiat, from, n)
  /\ UNCHANGED enrk

TransferEnrk(from, to, n) ==
  /\ Transferable(enrk, from, to, n)
  /\ enrk' = Transferred(enrk, from, to, n)
  /\ UNCHANGED kfiat

TransferKfiat(from, to, n) ==
  /\ Transferable(kfiat, from, to, n)
  /\ kfiat' = Transferred(kfiat, from, to, n)
  /\ UNCHANGED enrk

Next ==
  \E a \in Addresses, n \in Amounts :
     \/ MintEnrk(a, n)
     \/ MintKfiat(a, n)
     \/ BurnEnrk(a, n)
     \/ BurnKfiat(a, n)
     \/ \E b \in Addresses : TransferEnrk(a, b, n)
     \/ \E b \in Addresses : TransferKfiat(a, b, n)

Spec == Init /\ [][Next]_vars

-----------------------------------------------------------------------------
(* Properties.                                                             *)

IsLedger(ledger) ==
  /\ ledger = [supply |-> ledger.supply, balances |-> ledger.balances]
  /\ ledger.supply \in Nat
  /\ DOMAIN ledger.balances \subseteq ValidAddresses
  /\ ledger.balances \in [DOMAIN ledger.balances -> Nat \ {0}]

(* Both ledgers hold a natural supply and entries of well-formed addresses *)
(* only, none of them empty: holder_count counts holders of a balance.     *)
TypeOK == IsLedger(enrk) /\ IsLedger(kfiat)

(* Every ledger's supply is the sum of its balances, whatever mints, burns *)
(* and transfers led there: TokenLedger::verify_invariant never fails.     *)
SupplyIsSumOfBalances ==
  /\ enrk.supply = SumOfBalances(enrk)
  /\ kfiat.supply = SumOfBalances(kfiat)

(* A holder may always burn all it holds: the ledger never meets the state *)
(* in which burn answers StateInconsistency.                               *)
HoldersCanAlwaysBurn ==
  \A ledger \in {enrk, kfiat} : \A a \in DOMAIN ledger.balances :
     Burnable(ledger, a, ledger.balances[a])

(* The guard of mint_kfiat and the bound of max_mintable_kfiat are coded   *)
(* apart and agree to the unit: a mint fits exactly up to the headroom.    *)
HeadroomIsExact ==
  \A n \in Amounts : n > 0 =>
     (JuniorMintFits(enrk.supply, kfiat.supply, n)
        <=> n <= MaxMintable(enrk.supply, kfiat.supply))

(* The junior share that is reported, a floor, may hide a breach of less   *)
(* than one percent but never announces one that is not there.             *)
ReportedRatioBracketsCap ==
  LET breached == ~JuniorMintFits(enrk.supply, kfiat.supply, 0)
  IN  /\ KfiatRatioPercent > CapPercent => breached
      /\ breached => KfiatRatioPercent >= CapPercent

(* A junior mint uses up exactly its amount of headroom, so a mint cut     *)
(* into small ones gets no more than one mint would.                       *)
JuniorMintSpendsHeadroom ==
  [][kfiat'.supply > kfiat.supply =>
       MaxMintable(enrk'.supply, kfiat'.supply)
         = MaxMintable(enrk.supply, kfiat.supply)
             - (kfiat'.supply - kfiat.supply)]_vars

(* The junior share of the supplies is within the cap.                     *)
WithinCap(e, k) == 100 * k <= CapPercent * (e + k)

(* Only a burn of ENRK takes the supplies over the cap, and once they are  *)
(* above it no kFIAT is minted, in whatever amount, until they are back:   *)
(* repaying kFIAT and trading either token are the calls that are left.    *)
OnlySeniorBurnBreachesCap ==
  [][/\ WithinCap(enrk.supply, kfiat.supply)
          => WithinCap(enrk'.supply, kfiat'.supply) \/ enrk'.supply < enrk.supply
     /\ ~WithinCap(enrk.supply, kfiat.supply)
          => kfiat'.supply <= kfiat.supply]_vars

(* The supplies of the two ledgers behave as TrancheSupply allows.         *)
Tranches == INSTANCE TrancheSupply WITH enrk <- enrk.supply,
                                        kfiat <- kfiat.supply
ImplementsTranches == Tranches!Spec
=============================================================================
