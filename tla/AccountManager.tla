--------------------------- MODULE AccountManager ---------------------------
(***************************************************************************)
(* AccountManager (src/src/transactions/AccountManager.cpp) and the frame  *)
(* arithmetic it relies on, as operators from values to outcome records.   *)
(*                                                                         *)
(* A balance is [amount, locked].  Statistics are [out, updatedAt]: the    *)
(* outcome accumulated in every rolling window (daily, weekly, ...) and    *)
(* the close time of the last update.  Amounts are int64 at width IntWidth *)
(* and ONE is the fixed-point unit of prices.                              *)
(***************************************************************************)
EXTENDS Integers

CONSTANTS
    Windows,    \* rolling statistics windows
    WindowLen,  \* length of each window in close-time units
    IntWidth,   \* width in bits of the int64 / uint64 amounts
    One,        \* ONE
    NoLimits    \* no limits record is configured

Int64Max == 2^(IntWidth - 1) - 1
UInt64Max == 2^IntWidth - 1

\* The period of window w that close time t falls in.
Period(w, t) == t \div WindowLen[w]

-----------------------------------------------------------------------------
(* BalanceFrame, StatisticsFrame and bigDivide are not part of the         *)
(* sources; they follow spec.md 4.4/4.5: every overflow is refused.        *)

\* addBalance(delta): refused when the amount would leave 0..INT64_MAX.
AddBalance(b, delta) ==
    IF b.amount + delta \in 0..Int64Max
    THEN [ok |-> TRUE, bal |-> [b EXCEPT !.amount = @ + delta]]
    ELSE [ok |-> FALSE, bal |-> b]

\* lockBalance(delta): moves delta from amount to locked (back when
\* delta is negative).
LockBalance(b, delta) ==
    CASE b.amount - delta < 0 \/ b.locked + delta < 0
            -> [res |-> "UNDERFUNDED", bal |-> b]
      [] b.amount - delta > Int64Max \/ b.locked + delta > Int64Max
            -> [res |-> "LINE_FULL", bal |-> b]
      [] OTHER
            -> [res |-> "SUCCESS",
                bal |-> [b EXCEPT !.amount = @ - delta, !.locked = @ + delta]]

\* bigDivide(result, A, B, C, ROUND_UP) on int64: A is taken as uint64, so
\* a negative A is a huge number and the quotient does not fit.
BigDivideUp(a, b, c) ==
    LET x == (a * b + c - 1) \div c
    IN  IF a >= 0 /\ x <= Int64Max THEN [ok |-> TRUE, r |-> x]
                                   ELSE [ok |-> FALSE, r |-> 0]

\* StatisticsFrame::add(amount, now, performed): windows whose period ended
\* since updatedAt are cleared, then the amount goes into every window in
\* which the performed time falls in the current period; refused on
\* overflow.
StatsAdd(s, amount, now, performed) ==
    LET cleared == [w \in Windows |->
                      IF Period(w, s.updatedAt) = Period(w, now)
                      THEN s.out[w] ELSE 0]
        added == [w \in Windows |->
                    IF Period(w, performed) = Period(w, now)
                    THEN cleared[w] + amount ELSE cleared[w]]
    IN  IF \A w \in Windows : added[w] \in -Int64Max - 1..Int64Max
        THEN [ok |-> TRUE, stats |-> [out |-> added, updatedAt |-> now]]
        ELSE [ok |-> FALSE, stats |-> s]

-----------------------------------------------------------------------------
(* AccountManager                                                          *)

\* getDefaultLimits: the account type's limits, INT64_MAX in every window
\* when the type has none.
GetDefaultLimits(typeLimits) ==
    IF typeLimits = NoLimits THEN [w \in Windows |-> Int64Max] ELSE typeLimits

\* validateStats that compares only the daily window (mutant).
ValidateStatsDailyOnly(stats, env) ==
    LET limits == IF env.accountLimits = NoLimits
                  THEN GetDefaultLimits(env.typeLimits) ELSE env.accountLimits
    IN  stats.out["daily"] <= limits["daily"]

\* validateStats: the account's own limits, else the default ones; every
\* window must be within its limit.
ValidateStats(stats, env) ==
    LET limits == IF env.accountLimits = NoLimits
                  THEN GetDefaultLimits(env.typeLimits) ELSE env.accountLimits
    IN  \A w \in Windows : stats.out[w] <= limits[w]

\* processTransfer that carries on after a refused debit (mutant).
ProcessTransferNoDebitCheck(bal, stats, amount, universal0, requireReview, ignoreLimits, env) ==
    LET debit == IF requireReview
                 THEN [res |-> "SUCCESS",
                       bal |-> [bal EXCEPT !.amount = @ - amount,
                                           !.locked = @ + amount]]
                 ELSE [res |-> "SUCCESS",
                       bal |-> [bal EXCEPT !.amount = @ - amount]]
        conv == BigDivideUp(amount, env.price, One)
        added == StatsAdd(stats, conv.r, env.now, env.now)
        Out(res, s, u) ==
            [res |-> res, bal |-> debit.bal, stats |-> s, universal |-> u]
    IN  CASE ~env.statsAsset \/ ~env.pair -> Out("SUCCESS", stats, universal0)
          [] ~conv.ok -> Out("STATS_OVERFLOW", stats, universal0)
          [] ~added.ok -> Out("STATS_OVERFLOW", stats, conv.r)
          [] ~ignoreLimits /\ ~ValidateStats(added.stats, env)
                -> Out("LIMITS_EXCEEDED", stats, conv.r)
          [] OTHER -> Out("SUCCESS", added.stats, conv.r)

\* processTransfer.  env carries what it loads: whether a statistics asset
\* and an asset pair to it exist, the pair's price, the limits and the
\* close time.  universal0 is the caller's universalAmount, left untouched
\* when no conversion happens.  The balance frame is debited in memory
\* whatever the result; the statistics are stored only on SUCCESS.
ProcessTransfer(bal, stats, amount, universal0, requireReview, ignoreLimits, env) ==
    LET debit == IF requireReview
                 THEN LockBalance(bal, amount)
                 ELSE LET a == AddBalance(bal, -amount)
                      IN  [res |-> IF a.ok THEN "SUCCESS" ELSE "UNDERFUNDED",
                           bal |-> a.bal]
        conv == BigDivideUp(amount, env.price, One)
        added == StatsAdd(stats, conv.r, env.now, env.now)
        Out(res, s, u) ==
            [res |-> res, bal |-> debit.bal, stats |-> s, universal |-> u]
    IN  CASE debit.res # "SUCCESS" -> Out(debit.res, stats, universal0)
          [] ~env.statsAsset \/ ~env.pair -> Out("SUCCESS", stats, universal0)
          [] ~conv.ok -> Out("STATS_OVERFLOW", stats, universal0)
          [] ~added.ok -> Out("STATS_OVERFLOW", stats, conv.r)
          [] ~ignoreLimits /\ ~ValidateStats(added.stats, env)
                -> Out("LIMITS_EXCEEDED", stats, conv.r)
          [] OTHER -> Out("SUCCESS", added.stats, conv.r)

\* revertRequest that locks the amount again instead of unlocking it
\* (mutant).
RevertRequestLockAgain(bal, stats, amount, universal, performed, now) ==
    LET unlock == LockBalance(bal, amount)
        sub == StatsAdd(stats, -universal, now, performed)
    IN  CASE unlock.res # "SUCCESS" -> [res |-> "false", bal |-> bal, stats |-> stats]
          [] ~sub.ok -> [res |-> "throw", bal |-> bal, stats |-> stats]
          [] OTHER -> [res |-> "true", bal |-> unlock.bal, stats |-> sub.stats]

\* revertRequest that subtracts at the current close time instead of the
\* time the request was performed (mutant).
RevertRequestAtNow(bal, stats, amount, universal, performed, now) ==
    LET unlock == LockBalance(bal, -amount)
        sub == StatsAdd(stats, -universal, now, now)
    IN  CASE unlock.res # "SUCCESS" -> [res |-> "false", bal |-> bal, stats |-> stats]
          [] ~sub.ok -> [res |-> "throw", bal |-> bal, stats |-> stats]
          [] OTHER -> [res |-> "true", bal |-> unlock.bal, stats |-> sub.stats]

\* revertRequest: unlock the amount, subtract the universal amount at the
\* time the request was performed, and store the statistics; a failed
\* subtraction throws.
RevertRequest(bal, stats, amount, universal, performed, now) ==
    LET unlock == LockBalance(bal, -amount)
        sub == StatsAdd(stats, -universal, now, performed)
    IN  CASE unlock.res # "SUCCESS" -> [res |-> "false", bal |-> bal, stats |-> stats]
          [] ~sub.ok -> [res |-> "throw", bal |-> bal, stats |-> stats]
          [] OTHER -> [res |-> "true", bal |-> unlock.bal, stats |-> sub.stats]

\* FeeFrame::calculatePercentFee(amount, out, ROUND_UP): percent of amount,
\* refused when it does not fit in uint64.
CalculatePercentFee(percent, amount) ==
    LET x == (amount * percent + 100 * One - 1) \div (100 * One)
    IN  [ok |-> x <= UInt64Max, r |-> x]

\* isFeeMatches: system accounts and accounts without a fee entry must
\* present a zero fee; otherwise the fixed part must equal the entry's and
\* the percent part the entry's percent of amount.
IsFeeMatches(isSystem, feeEntry, fee, amount) ==
    IF isSystem \/ feeEntry = NoLimits
    THEN fee.fixed = 0 /\ fee.percent = 0
    ELSE LET p == CalculatePercentFee(feeEntry.percent, amount)
         IN  /\ feeEntry.fixed = fee.fixed
             /\ p.ok
             /\ fee.percent = p.r

=============================================================================
