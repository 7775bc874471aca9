------------------------- MODULE MC_ExternalSystemIds -------------------------
EXTENDS ExternalSystemIds, TLC

CONSTANTS a1, a2, a3, e1, e2

MC_AccountIds == {a1, a2, a3}
\* Two pool entries of one pool type for three accounts: an account finds
\* the pool empty until a binding expires.
MC_PoolEntries == {e1, e2}
MC_PoolTypeOf == [e \in MC_PoolEntries |-> "erc20"]

\* Accounts are interchangeable.
MC_Symmetry == Permutations(MC_AccountIds)

=============================================================================
