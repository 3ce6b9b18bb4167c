--------------------------- MODULE TrancheSupply ---------------------------
(***************************************************************************)
(* What both bookkeepers of the protocol promise about the two tranches,   *)
(* whoever keeps the accounts and however they are divided among holders   *)
(* or vaults: the senior supply (ENRK) moves freely, the junior supply     *)
(* (kFIAT) may grow only into a state that respects the cap, and one call  *)
(* never moves both.                                                       *)
(*                                                                         *)
(* The cap is a mint-time ceiling (kaspa_tokens.rs, the header): burning   *)
(* ENRK may leave the junior share above it, and nothing is ever clawed    *)
(* back.  KaspaTokens (token balances) and VaultManager (vault debts) are  *)
(* each shown to implement this specification.                             *)
(***************************************************************************)
EXTENDS Integers

CONSTANT CapPercent     \* the frozen junior cap, in percent of total debt

VARIABLES enrk,         \* senior supply
          kfiat         \* junior supply

supplies == <<enrk, kfiat>>

(* The junior share of total debt does not exceed the cap.                 *)
WithinCap == 100 * kfiat <= CapPercent * (enrk + kfiat)

Init ==
  /\ enrk = 0
  /\ kfiat = 0

SeniorMint ==
  /\ enrk' \in Nat /\ enrk' > enrk
  /\ UNCHANGED kfiat

SeniorBurn ==
  /\ enrk' \in Nat /\ enrk' < enrk
  /\ UNCHANGED kfiat

JuniorMint ==
  /\ kfiat' \in Nat /\ kfiat' > kfiat
  /\ UNCHANGED enrk
  /\ WithinCap'

JuniorBurn ==
  /\ kfiat' \in Nat /\ kfiat' < kfiat
  /\ UNCHANGED enrk

Next == SeniorMint \/ SeniorBurn \/ JuniorMint \/ JuniorBurn

Spec == Init /\ [][Next]_supplies
=============================================================================
