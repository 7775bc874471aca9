---------------------------- MODULE AtomicLedger ----------------------------
(***************************************************************************)
(* What the transaction pipeline promises the rest of the node (spec.md    *)
(* sections 4.4, 7 and 8): the durable store changes only when a whole     *)
(* transaction is applied, in one step; a transaction that is rejected,    *)
(* fails or throws leaves it exactly as it was; and an applied transaction *)
(* moves its fee from the source's fee balance to the commission balance   *)
(* without creating or destroying any of it.                               *)
(***************************************************************************)
EXTENDS Integers

CONSTANTS
    Keys,
    SourceBalance,
    CommissionBalance,
    Absent

VARIABLES
    store,    \* the committed rows
    applied,  \* transactions the pipeline has finished with
    result    \* result code of the last one

\* A balance row's amount; a missing commission balance holds nothing.
Amount(s, b) == IF s[b] = Absent THEN 0 ELSE s[b]

FeeBalances(s) == Amount(s, SourceBalance) + Amount(s, CommissionBalance)

Init == applied = 0 /\ result = "none"

\* A transaction is applied: its changes become durable together, and the
\* fee balances only move value from the source to the commission account.
Apply ==
    /\ applied' = applied + 1
    /\ result' = "txSUCCESS"
    /\ FeeBalances(store') = FeeBalances(store)
    /\ Amount(store', SourceBalance) <= Amount(store, SourceBalance)

\* A transaction is rejected, fails or throws: nothing becomes durable.
Discard ==
    /\ applied' = applied + 1
    /\ result' # "txSUCCESS"
    /\ store' = store

Next == Apply \/ Discard

Spec == Init /\ [][Next]_<<store, applied, result>>

=============================================================================
