--------------------------- MODULE MCKaspaTokens ---------------------------
(* Instance of KaspaTokens for TLC: three well-formed addresses, a string  *)
(* the validator refuses, and amounts around the default cap of 30%.       *)
EXTENDS KaspaTokens

CONSTANTS alice, bob, carol, malformed

MCValidAddresses == {alice, bob, carol}
MCAddresses == MCValidAddresses \cup {malformed}
MCAmounts == {-1, 0, 1, 3, 7}
=============================================================================
