---------------------------- MODULE MC_SaleRequest ----------------------------
(***************************************************************************)
(* SaleRequest for TLC: two syndicate accounts, a base code nobody owns    *)
(* yet and a quote asset that exists.                                      *)
(***************************************************************************)
EXTENDS SaleRequest

CONSTANTS s1, s2, base1, quote1

MC_Accounts == {s1, s2}
MC_Codes == {base1, quote1}
MC_InitAssets == [c \in MC_Codes |-> IF c = quote1 THEN s2 ELSE None]

=============================================================================
