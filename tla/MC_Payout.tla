------------------------------ MODULE MC_Payout ------------------------------
EXTENDS Payout

CONSTANTS src, comm, h1, hb1, hb2

MC_Windows == {"daily"}
MC_WindowLen == [w \in MC_Windows |-> 1]

MC_Accounts == {src, comm, h1}

\* The source holds 12 of the paid asset, three payouts of 4 and their
\* fees; the commission account has none.  h1 has
\* none, or holds 14, close to the line (INT64_MAX is 15 at this width).
MC_Start(h1bal) == [a \in MC_Accounts |->
                      CASE a = src -> [amount |-> 12, locked |-> 0]
                        [] a = h1 -> h1bal
                        [] OTHER -> NoBalance]
MC_InitBalances == {MC_Start(NoBalance), MC_Start([amount |-> 14, locked |-> 0])}
\* Large payouts, which only fit when h1 has no balance yet.
MC_InitBalancesEmpty == {MC_Start(NoBalance)}

\* Two holder balances of 2 and 3 out of 5 issued, one per account, the
\* second one the commission account's (fees in the share asset collect
\* there): shares do not divide evenly, and a small share is at most ONE.
MC_HolderBalances == <<hb1, hb2>>
MC_HolderOf == [b \in {hb1, hb2} |-> IF b = hb1 THEN h1 ELSE comm]
\* The same two balances both owned by h1.
MC_HolderOfShared == [b \in {hb1, hb2} |-> h1]
MC_Held == [b \in {hb1, hb2} |-> IF b = hb1 THEN 2 ELSE 3]

\* PAYOUT_FEE: fixed 1 and 25 percent of maxPayoutAmount, rounded up.
MC_PayoutFee == [fixed |-> 1, percent |-> 25]
MC_FeeChoices == {[fixed |-> 1, percent |-> 1], [fixed |-> 1, percent |-> 2],
                  [fixed |-> 0, percent |-> 0]}
\* The only fee that matches when no PAYOUT_FEE entry exists.
MC_FeeChoicesNone == {[fixed |-> 0, percent |-> 0]}

=============================================================================
