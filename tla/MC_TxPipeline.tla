--------------------------- MODULE MC_TxPipeline ---------------------------
(***************************************************************************)
(* TxPipeline instantiated for TLC.  Two record keys (one of them the fee  *)
(* asset key-value), the two fee balances, two operation types of which    *)
(* one costs a fee, a 2-bit fee width so that two paid operations overflow *)
(* the fee sum, and balances small enough that a source can be underfunded *)
(* and a commission balance full.                                          *)
(***************************************************************************)
EXTENDS TxPipeline

CONSTANTS kRec, kFeeAsset, kSrc, kComm

MC_OpKeys == {kRec, kFeeAsset}
MC_OpTypes == {"free", "paid"}
MC_OpFee == [t \in MC_OpTypes |-> IF t = "paid" THEN 2 ELSE 0]

=============================================================================
