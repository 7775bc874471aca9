------------------------------- MODULE Payout -------------------------------
(***************************************************************************)
(* PayoutOpFrame (src/src/transactions/PayoutOpFrame.cpp): the owner of an *)
(* asset pays an amount of another asset, from its source balance, to the  *)
(* holders of the first one in proportion to their holdings, plus a fee to *)
(* the commission account.                                                 *)
(*                                                                         *)
(* doApply is one action.  An operation that returns false fails its       *)
(* transaction, and the pipeline then discards everything it wrote         *)
(* (TxPipeline), so a failed payout changes nothing but the result code.   *)
(*                                                                         *)
(* The share asset's holdings are constants: a payout does not move them.  *)
(* Balances of the paid asset are [amount, locked], or NoBalance for an    *)
(* account that has none.  Amounts keep the code's widths: uint64 and      *)
(* int64 at IntWidth bits.                                                 *)
(*                                                                         *)
(* As written, doApply cannot pay anybody: it loads the holders into the   *)
(* local assetHolderBalances (line 141) but tests the member mHolders      *)
(* (143), which nothing fills, and addShareAmount divides by               *)
(* mAsset->getIssued() (75) while nothing assigns mAsset (doApply keeps    *)
(* the asset in the local assetFrame, 109).  HoldersFilled and AssetSet    *)
(* are FALSE for the code as written; with both TRUE the model runs the    *)
(* rest of doApply as it would run once both members are set, to show the  *)
(* defects that are latent behind these two.                               *)
(***************************************************************************)
EXTENDS Integers, SequencesExt, AccountManager

CONSTANTS
    Accounts,           \* accounts that may hold a balance of the paid asset
    Source,             \* the payout's source account (the asset owner)
    Commission,         \* the commission account
    NoBalance,          \* an account without a balance of the paid asset
    InitBalances,       \* the balances a run may start from: each one a
                        \* [Accounts -> balance or NoBalance]
    HolderBalances,     \* the share asset's holder balances, in load order
    HolderOf,           \* the account of each holder balance
    Held,               \* amount + locked of each holder balance
    Issued,             \* the share asset's issued amount
    MaxPayoutChoices,   \* maxPayoutAmount values a payout may ask for
    FeeChoices,         \* fees a payout may carry: [fixed, percent]
    PayoutFee,          \* the PAYOUT_FEE entry of the fee table, or NoLimits
    Price,              \* price of the paid asset in the statistics asset
    HoldersFilled,      \* FALSE: mHolders as the code leaves it (empty)
    AssetSet,           \* FALSE: mAsset as the code leaves it (null)
    MaxPayouts          \* bound on the number of payouts

VARIABLES
    balances,   \* the paid asset's balances
    stats,      \* the source account's statistics
    env,        \* what processTransfer loads besides balance and statistics
    payouts,    \* payouts applied so far
    lastResult, \* the result code of the last payout
    initial     \* the balances at the start (never changes)

vars == <<balances, stats, env, payouts, lastResult, initial>>

ToUInt64(x) == x % 2^IntWidth

\* A uint64 value passed where an int64 is expected.
ToInt64(x) == IF ToUInt64(x) > Int64Max THEN ToUInt64(x) - 2^IntWidth
                                          ELSE ToUInt64(x)

\* bigDivide(uint64 result, A, B, C, ROUND_DOWN): the quotient is written
\* truncated to 64 bits even when it does not fit (then it returns false).
BigDivideDown(a, b, c) ==
    [ok |-> (a * b) \div c <= UInt64Max, r |-> ToUInt64((a * b) \div c)]

\* addShareAmount: the holder's share of maxPayoutAmount, rounded down, in
\* proportion to mAsset->getIssued() (Issued, when AssetSet);
\* an overflow is only logged.  A share above ONE is emplaced into
\* mShareAmounts under the holder's account, which keeps the first share
\* of an account, and is added to mActualPayoutAmount in any case.
AddShareAmount(acc, hb, max) ==
    LET share == BigDivideDown(Held[hb], max, Issued).r
    IN  IF share > One
        THEN [shares |-> IF HolderOf[hb] \in DOMAIN acc.shares THEN acc.shares
                         ELSE acc.shares @@ (HolderOf[hb] :> share),
              actual |-> ToUInt64(acc.actual + share)]
        ELSE acc

\* processBalanceChange that lets an underfunded source through (mutant).
ProcessBalanceChangeNoUnderfunded(res) ==
    CASE res = "STATS_OVERFLOW" -> "STATS_OVERFLOW"
      [] res = "LIMITS_EXCEEDED" -> "LIMITS_EXCEEDED"
      [] OTHER -> "SUCCESS"

\* processBalanceChange: the AccountManager results that fail the payout.
ProcessBalanceChange(res) ==
    CASE res = "UNDERFUNDED" -> "UNDERFUNDED"
      [] res = "STATS_OVERFLOW" -> "STATS_OVERFLOW"
      [] res = "LIMITS_EXCEEDED" -> "LIMITS_EXCEEDED"
      [] OTHER -> "SUCCESS"

\* loadBalance, or createNewBalance when the account has none, from the
\* balances b the load sees.
LoadOrCreate(b, a) ==
    IF b[a] = NoBalance THEN [amount |-> 0, locked |-> 0] ELSE b[a]

\* The commission balance loaded before the receivers were stored, as a
\* frame held from the start of doApply would be (mutant).
LoadCommissionUpFront(credited, totalFee) ==
    AddBalance(LoadOrCreate(balances, Commission), ToInt64(totalFee))

\* The commission balance is loaded (or created) after the receivers'
\* balances were stored, so it sees a share the commission account got as
\* a holder, and the fee is added to it.
LoadCommission(credited, totalFee) ==
    AddBalance(LoadOrCreate(credited, Commission), ToInt64(totalFee))

Init ==
    /\ balances \in InitBalances
    /\ initial = balances
    /\ stats = [out |-> [w \in Windows |-> 0], updatedAt |-> 0]
    /\ \E sa \in BOOLEAN :
          env = [statsAsset |-> sa, pair |-> TRUE, price |-> Price, now |-> 0,
                 accountLimits |-> NoLimits, typeLimits |-> NoLimits]
    /\ payouts = 0
    /\ lastResult = "none"

\* doCheckValid: a payout of nothing is malformed (the asset code's
\* syntax check is not modelled: codes are model values).
DoCheckValid(max) == max # 0

\* A payout that fails with code: nothing is kept.
Fail(code) ==
    /\ lastResult' = code
    /\ UNCHANGED <<balances, stats, env, initial>>

\* doApply, after doCheckValid.  assetState and sourceState are what the
\* asset and source-balance lookups find.
DoApply(max, fee, assetState, sourceState) ==
    LET src == balances[Source]
        mHolders == IF HoldersFilled THEN HolderBalances ELSE <<>>
        acc == FoldLeft(LAMBDA a, hb : AddShareAmount(a, hb, max),
                        [shares |-> <<>>, actual |-> 0], mHolders)
        totalFee == ToUInt64(fee.percent + fee.fixed)
        totalAmount == ToUInt64(acc.actual + totalFee)
        transfer == ProcessTransfer(src, stats, ToInt64(totalAmount), 0,
                                    FALSE, FALSE, env)
        receivers == DOMAIN acc.shares
        credit == [r \in receivers |->
                     AddBalance(LoadOrCreate(balances, r), ToInt64(acc.shares[r]))]
        credited == [a \in Accounts |->
                       IF a \in receivers THEN credit[a].bal ELSE balances[a]]
        comm == LoadCommission(credited, totalFee)
    IN
    CASE ~DoCheckValid(max) -> Fail("MALFORMED")
      [] assetState = "missing" -> Fail("ASSET_NOT_FOUND")
      [] assetState = "untransferable" -> Fail("NOT_ALLOWED_BY_ASSET_POLICY")
      [] sourceState = "missing" -> Fail("BALANCE_NOT_FOUND")
      [] sourceState = "foreign" -> Fail("BALANCE_ACCOUNT_MISMATCHED")
      [] ~IsFeeMatches(FALSE, PayoutFee, fee, max) -> Fail("FEE_MISMATCHED")
      [] Len(mHolders) = 0 -> Fail("HOLDERS_NOT_FOUND")
      [] ~AssetSet -> Fail("crash")
      [] ProcessBalanceChange(transfer.res) # "SUCCESS"
            -> Fail(ProcessBalanceChange(transfer.res))
      [] \E r \in receivers : ~credit[r].ok -> Fail("LINE_FULL")
      [] totalFee > 0 /\ ~comm.ok -> Fail("LINE_FULL")
      [] OTHER ->
            /\ balances' =
                  [credited EXCEPT
                     ![Commission] = IF totalFee > 0 THEN comm.bal ELSE @,
                     ![Source] = transfer.bal]
            /\ stats' = transfer.stats
            /\ lastResult' = "SUCCESS"
            /\ UNCHANGED <<env, initial>>

Payout ==
    /\ payouts < MaxPayouts
    /\ payouts' = payouts + 1
    /\ \E max \in MaxPayoutChoices, fee \in FeeChoices,
          assetState \in {"missing", "untransferable", "ok"},
          sourceState \in {"missing", "foreign", "own"} :
          DoApply(max, fee, assetState, sourceState)

\* The bound on payouts is reached.
Done ==
    /\ payouts = MaxPayouts
    /\ UNCHANGED vars

Next == Payout \/ Done

Spec == Init /\ [][Next]_vars

-----------------------------------------------------------------------------
(* Properties                                                              *)

\* The paid asset held by an account (0 without a balance).
HeldBy(b, a) == IF b[a] = NoBalance THEN 0 ELSE b[a].amount + b[a].locked

TotalHeld(b) == MapThenSumSet(LAMBDA a : HeldBy(b, a), Accounts)

\* A payout moves value and never creates or destroys it: what the source
\* is debited (mActualPayoutAmount plus the fee, through processTransfer)
\* is what the receivers and the commission are credited.
Conservation == TotalHeld(balances) = TotalHeld(initial)

\* PayoutTestHelper expects SUCCESS by default: a payout to an asset that
\* has holders does not answer HOLDERS_NOT_FOUND.
HoldersFound == lastResult # "HOLDERS_NOT_FOUND"

\* A payout only takes from its source balance: the source never ends a
\* payout with more of the paid asset than it started with.
SourceNotCredited ==
    [][HeldBy(balances', Source) <= HeldBy(balances, Source)]_vars

=============================================================================
