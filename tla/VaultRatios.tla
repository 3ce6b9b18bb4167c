---------------------------- MODULE VaultRatios ----------------------------
(***************************************************************************)
(* The collateral ratio of a vault (types.rs, impl Vault), which the vault *)
(* manager and the liquidation manager both judge vaults by.  A vault w is *)
(* a record with natural numbers collateral, enrk and kfiat; m is a record *)
(* of prices, all three multiples of the same unit.  The code computes the *)
(* ratio in f64 and truncates it; comparing it with a whole percentage is  *)
(* comparing products of integers.                                         *)
(***************************************************************************)
EXTENDS Integers

Market == [kas : Nat \ {0}, enrk : Nat \ {0}, kfiat : Nat \ {0}]

CollateralValue(w, m) == w.collateral * m.kas
DebtValue(w, m) == w.enrk * m.enrk + w.kfiat * m.kfiat

(* calculate_icr of vault w is below percent; that of a vault without debt *)
(* is infinite.                                                            *)
BelowRatio(w, m, percent) ==
  /\ DebtValue(w, m) # 0
  /\ 100 * CollateralValue(w, m) < percent * DebtValue(w, m)
=============================================================================
