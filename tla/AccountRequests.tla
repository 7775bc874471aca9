--------------------------- MODULE AccountRequests ---------------------------
(***************************************************************************)
(* One account's balance and rolling statistics under the AccountManager   *)
(* calls that reviewable requests make: a transfer that locks its amount   *)
(* pending review (processTransfer with requireReview), an immediate       *)
(* transfer, the reject that reverts a pending request (revertRequest), an *)
(* approval, incoming funds and the close time moving on.                  *)
(*                                                                         *)
(* The request operations that call AccountManager are not in the sources *)
(* (only ReviewWithdrawalRequestOpFrame's declaration is); they are taken  *)
(* from spec.md 4.5.  A call that does not succeed fails its operation,    *)
(* and the pipeline then discards everything it wrote (TxPipeline shows    *)
(* that), so a failed call leaves balance and statistics as they were.     *)
(***************************************************************************)
EXTENDS Integers, Sequences, FiniteSetsExt, AccountManager

CONSTANTS
    Amounts,        \* transfer amounts
    Prices,         \* prices of the asset in the statistics asset
    InitAmount,     \* the balance's amount at the start
    LimitChoices,   \* account limits, account-type limits (or NoLimits)
    MaxTime,        \* bound on the close time
    MaxRequests     \* bound on the number of transfers

VARIABLES
    bal,        \* BalanceFrame: [amount, locked]
    stats,      \* StatisticsFrame: [out, updatedAt]
    now,        \* the ledger close time
    env,        \* what processTransfer loads besides balance and statistics
    requests,   \* transfers made: [amount, universal, performed, status]
    lastRevert  \* what the last revertRequest call returned

vars == <<bal, stats, now, env, requests, lastRevert>>

Statuses == {"pending", "approved", "rejected", "direct"}

Env(p) == [env EXCEPT !.price = p, !.now = now]

Init ==
    /\ bal = [amount |-> InitAmount, locked |-> 0]
    /\ stats = [out |-> [w \in Windows |-> 0], updatedAt |-> 0]
    /\ now = 0
    /\ \E sa, pair \in BOOLEAN, al, tl \in LimitChoices :
          env = [statsAsset |-> sa, pair |-> pair, price |-> 0, now |-> 0,
                 accountLimits |-> al, typeLimits |-> tl]
    /\ requests = <<>>
    /\ lastRevert = "none"

\* A transfer: processTransfer with universalAmount starting at 0; on
\* SUCCESS the balance and statistics are stored and the transfer is
\* recorded, pending review when the amount was locked.
MakeTransfer(requireReview) ==
    /\ Len(requests) < MaxRequests
    /\ \E amount \in Amounts, p \in Prices, ignoreLimits \in BOOLEAN :
          LET r == ProcessTransfer(bal, stats, amount, 0, requireReview,
                                   ignoreLimits, Env(p))
          IN  /\ r.res = "SUCCESS"
              /\ bal' = r.bal
              /\ stats' = r.stats
              /\ requests' = Append(requests,
                    [amount |-> amount, universal |-> r.universal,
                     performed |-> now,
                     status |-> IF requireReview THEN "pending" ELSE "direct"])
    /\ UNCHANGED <<now, env, lastRevert>>

CreateRequest == MakeTransfer(TRUE)

Transfer == MakeTransfer(FALSE)

\* Reject of a pending request: revertRequest with the request's amount,
\* universal amount and performed time.  Only "true" keeps the changes.
Reject(i) ==
    /\ requests[i].status = "pending"
    /\ LET q == requests[i]
           r == RevertRequest(bal, stats, q.amount, q.universal, q.performed,
                              now)
       IN  /\ lastRevert' = r.res
           /\ IF r.res = "true"
              THEN /\ bal' = r.bal
                   /\ stats' = r.stats
                   /\ requests' = [requests EXCEPT ![i].status = "rejected"]
              ELSE UNCHANGED <<bal, stats, requests>>
    /\ UNCHANGED <<now, env>>

\* Approval of a pending request: the locked amount leaves the balance;
\* the statistics keep it.
Approve(i) ==
    /\ requests[i].status = "pending"
    /\ bal' = [bal EXCEPT !.locked = @ - requests[i].amount]
    /\ requests' = [requests EXCEPT ![i].status = "approved"]
    /\ UNCHANGED <<stats, now, env, lastRevert>>

\* Incoming funds (a payment or a deposit into the balance).
Deposit ==
    \E x \in Amounts :
        /\ AddBalance(bal, x).ok
        /\ bal' = AddBalance(bal, x).bal
        /\ UNCHANGED <<stats, now, env, requests, lastRevert>>

\* The next ledger closes.
Tick ==
    /\ now < MaxTime
    /\ now' = now + 1
    /\ UNCHANGED <<bal, stats, env, requests, lastRevert>>

\* The last close time of the model is reached: the account may stay as
\* it is (every further call may be refused).
Done ==
    /\ now = MaxTime
    /\ UNCHANGED vars

Next ==
    \/ CreateRequest
    \/ Transfer
    \/ \E i \in DOMAIN requests : Reject(i) \/ Approve(i)
    \/ Deposit
    \/ Tick
    \/ Done

Spec == Init /\ [][Next]_vars

-----------------------------------------------------------------------------
(* Properties                                                              *)

Limit == 0..Int64Max

TypeOK ==
    /\ bal \in [amount : Limit, locked : Limit]
    /\ stats.out \in [Windows -> -Int64Max - 1..Int64Max] /\ stats.updatedAt \in 0..MaxTime
    /\ now \in 0..MaxTime
    /\ \A i \in DOMAIN requests :
          requests[i].status \in Statuses /\ requests[i].performed <= now
    /\ lastRevert \in {"none", "true", "false", "throw"}

\* The sum of f(i) over the requests whose index satisfies P.
SumOver(f(_), P(_)) == MapThenSumSet(f, {i \in DOMAIN requests : P(i)})

\* lockBalance in processTransfer and in revertRequest keep the locked
\* amount equal to what the pending requests hold, through any order of
\* locks, rejects, approvals and deposits.
LockedMatchesPending ==
    bal.locked = SumOver(LAMBDA i : requests[i].amount,
                         LAMBDA i : requests[i].status = "pending")

\* The outcome a window shows at the current close time: StatisticsFrame
\* clears a window lazily, on the first add of a new period.
EffectiveOut(w) ==
    IF Period(w, stats.updatedAt) = Period(w, now) THEN stats.out[w] ELSE 0

\* processTransfer adds a transfer's universal amount at the close time,
\* and revertRequest subtracts it at the time the request was performed:
\* every window shows exactly the universal amounts of the transfers made
\* in its current period and not rejected since, across period boundaries
\* between a request and its reject.
StatsMatchHistory ==
    \A w \in Windows :
        EffectiveOut(w) =
            SumOver(LAMBDA i : requests[i].universal,
                    LAMBDA i : /\ requests[i].status # "rejected"
                               /\ Period(w, requests[i].performed) = Period(w, now))

\* spec.md 4.5: revertRequest is the inverse of a locked transfer; a
\* reject of a pending request always succeeds.
RevertSucceeds == lastRevert \in {"none", "true"}

=============================================================================
