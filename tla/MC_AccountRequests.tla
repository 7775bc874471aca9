------------------------- MODULE MC_AccountRequests -------------------------
EXTENDS AccountRequests

\* Rolling windows of one and two close-time units: a request can be
\* rejected in a later daily period of the same weekly one.
MC_Windows == {"daily", "weekly"}
MC_WindowLen == [w \in MC_Windows |-> IF w = "daily" THEN 1 ELSE 2]

\* No limits, or limits the second transfer can exceed.
MC_LimitChoices == {NoLimits, [daily |-> 4, weekly |-> 5]}

=============================================================================
