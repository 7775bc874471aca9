----------------------------- MODULE TxPipeline -----------------------------
(***************************************************************************)
(* TransactionFrameImpl::applyTx and processTxFee over the entry store.    *)
(*                                                                         *)
(* Transactions are applied one after the other (single writer).  For one  *)
(* that passes commonValid, applyTx opens a SQL transaction and a          *)
(* transaction-scoped delta, charges the fee into that delta, then applies *)
(* every operation inside its own child delta, folding the child into the  *)
(* transaction delta whatever the operation's outcome.  Only when no       *)
(* operation failed, and every signature was used, are the SQL            *)
(* transaction and the transaction delta committed; otherwise both are     *)
(* rolled back, which flushes every journalled key from the entry cache.   *)
(* An exception (a store call affecting no row, an overflow of the fee     *)
(* sum) unwinds the same scopes and the transaction ends with an internal  *)
(* error.                                                                  *)
(*                                                                         *)
(* Operations are the business logic outside the core: an operation is a  *)
(* bounded sequence of adapter calls on OpKeys followed by a success or    *)
(* failure outcome.  Each op key is a record of one kind, fixed for the   *)
(* behaviour, and is stored through that kind's adapter (EntryAdapters).  *)
(***************************************************************************)
EXTENDS Integers, Sequences, FiniteSets, SequencesExt, EntryAdapters

CONSTANTS
    OpKeys,             \* record keys operations read and write
    FeeAssetKey,        \* the key-value record naming the tx fee asset
    SourceBalance,      \* the source account's balance in the fee asset
    CommissionBalance,  \* the commission account's balance in the fee asset
    Vals,               \* record bodies operations write
    InitVals,           \* record bodies a row may start with
    FeeAssetCodes,      \* bodies of the fee-asset key-value that are a
                        \* STRING holding a valid asset code
    InitBalances,       \* balances a fee balance may start with
    BalanceMax,         \* INT64_MAX of balance amounts, scaled down
    FeeWidth,           \* width in bits of the uint64_t fee arithmetic
    OpTypes,            \* operation types
    OpFee,              \* fixed operation fee per type (the fee table)
    FeeFeatureOn,       \* shouldUse(LedgerVersion::ADD_TRANSACTION_FEE)
    MaxFeeChoices,      \* maxTotalFee values a transaction may declare
    CloseTime,          \* close time of the current ledger
    TxExpirationPeriod, \* LedgerManager::getTxExpirationPeriod()
    TimeChoices,        \* time-bound values a transaction may carry
    AuthOutcomes,       \* loadAccount / doCheckSignature outcomes
    MaxTxs,             \* transactions applied in a behaviour
    MaxOps,             \* operations per transaction
    MaxOpSteps,         \* adapter calls per operation
    KindChoices,        \* kinds an op key other than the fee asset may be
    PresetKeys          \* op keys whose rows may exist when the node starts

Keys == OpKeys \cup {SourceBalance, CommissionBalance}

\* UINT64_MAX at width FeeWidth.
UIntMax == 2^FeeWidth - 1

ASSUME /\ FeeAssetKey \in OpKeys
       /\ {SourceBalance, CommissionBalance} \cap OpKeys = {}
       /\ InitVals \subseteq Nat /\ Vals \subseteq Nat
       /\ FeeAssetCodes \subseteq Vals \cup InitVals
       /\ InitBalances \subseteq 0..BalanceMax
       /\ OpFee \in [OpTypes -> 0..UIntMax]
       /\ MaxFeeChoices \subseteq 0..UIntMax
       /\ "ok" \in AuthOutcomes
       /\ KindChoices \subseteq Kinds
       /\ PresetKeys \subseteq OpKeys

VARIABLES
    db,               \* rows as the SQL session sees them
    cache,            \* the entry cache
    deltas,           \* open delta scopes: <<tx delta, op delta>>
    sqlSaved,         \* rows as of the open SQL transaction's begin
    ledgerDelta,      \* the ledger-scoped delta the tx delta commits into
    pc,               \* where applyTx is
    tx,               \* the transaction being applied
    opIdx,            \* index of the current operation
    opSteps,          \* adapter calls made by the current operation
    errorEncountered, \* applyTx's errorEncountered
    txFee,            \* the fee computed by processTxFee (result ext)
    result,           \* result code of the last transaction
    txCount,          \* transactions applied so far
    lastException,    \* the exception the last apply ended with, or "none"
    deltaBase,        \* history: rows when each open delta was opened
    ledgerBase,       \* history: rows when the ledger delta was opened
    kindOf            \* the record kind of each op key

vars == <<db, cache, deltas, sqlSaved, ledgerDelta, pc, tx, opIdx, opSteps,
          errorEncountered, txFee, result, txCount, lastException, deltaBase,
          ledgerBase, kindOf>>

TxInputs ==
    [ops : BoundedSeq(OpTypes, MaxOps), master : BOOLEAN,
     maxFee : MaxFeeChoices \cup {UIntMax},
     minTime : TimeChoices, maxTime : TimeChoices,
     auth : AuthOutcomes, sigsUsed : BOOLEAN]

\* What applyTx reads of the transaction once commonValid has passed.
Applied(t) ==
    [ops |-> t.ops, master |-> t.master, maxFee |-> t.maxFee,
     sigsUsed |-> t.sigsUsed]

\* No transaction is being applied.
NoTx == [ops |-> <<>>, master |-> FALSE, maxFee |-> 0, sigsUsed |-> TRUE]

\* The TransactionFrame is destroyed when applyTx returns: its per-apply
\* state is gone.
EndFrame ==
    /\ tx' = NoTx
    /\ opIdx' = 0
    /\ opSteps' = 0
    /\ errorEncountered' = FALSE
    /\ txFee' = 0

-----------------------------------------------------------------------------
(* Store state of the innermost open scope.                                *)

Cur == [db |-> db, cache |-> cache, delta |-> deltas[Len(deltas)],
        exc |-> "none", code |-> "none"]

SetStore(st) ==
    /\ db' = st.db
    /\ cache' = st.cache
    /\ deltas' = [deltas EXCEPT ![Len(deltas)] = st.delta]

\* The open LedgerDeltaImpls are destroyed innermost first, each rolling
\* back: every key it journalled is flushed from the entry cache.
RollbackCache(c, open) ==
    FoldRight(LAMBDA d, acc : FlushTouched(acc, d, NotCached), open, c)

\* Leaving applyTx with the soci::transaction left uncommitted but its
\* rows kept (mutant).
UnwindNoRollback(st, code) ==
    LET open == [deltas EXCEPT ![Len(deltas)] = st.delta]
    IN  /\ cache' = RollbackCache(st.cache, open)
        /\ db' = st.db
        /\ deltas' = <<>>
        /\ deltaBase' = <<>>
        /\ result' = code
        /\ pc' = "idle"
        /\ txCount' = txCount + 1
        /\ lastException' = st.exc
        /\ EndFrame
        /\ UNCHANGED <<kindOf, sqlSaved, ledgerDelta, ledgerBase>>

\* Leaving applyTx without committing: every open LedgerDeltaImpl is
\* destroyed and rolls back (flushing its keys from the cache), then the
\* soci::transaction rolls back.
Unwind(st, code) ==
    LET open == [deltas EXCEPT ![Len(deltas)] = st.delta]
    IN  /\ cache' = RollbackCache(st.cache, open)
        /\ db' = sqlSaved
        /\ deltas' = <<>>
        /\ deltaBase' = <<>>
        /\ result' = code
        /\ pc' = "idle"
        /\ txCount' = txCount + 1
        /\ lastException' = st.exc
        /\ EndFrame
        /\ UNCHANGED <<kindOf, sqlSaved, ledgerDelta, ledgerBase>>

\* An exception leaves apply; the ledger close records txINTERNAL_ERROR.
Throw(st) == Unwind(st, "txINTERNAL_ERROR")

-----------------------------------------------------------------------------
(* BalanceFrame (not part of the sources): a charge needs the amount to be *)
(* there, a funding must keep the amount within INT64_MAX.                 *)

TryCharge(bal, amount) == amount <= bal

TryFundAccount(bal, amount) == bal + amount <= BalanceMax

\* tryFundAccount on the commission balance, then store it (mutant: the
\* line-full check dropped).
FundCommissionUnchecked(st, comm, total) ==
    StoreChange(st, CommissionBalance, comm + total)

\* tryFundAccount on the commission balance: a full line ends processTxFee
\* with txCOMMISSION_LINE_FULL, otherwise the balance is stored.
FundCommission(st, comm, total) ==
    IF ~TryFundAccount(comm, total)
    THEN Ret(st, "txCOMMISSION_LINE_FULL")
    ELSE StoreChange(st, CommissionBalance, comm + total)

-----------------------------------------------------------------------------
(* commonValid                                                             *)

CommonValidCode(t) ==
    CASE Len(t.ops) = 0 -> "txMISSING_OPERATION"
      [] t.minTime > CloseTime -> "txTOO_EARLY"
      [] t.maxTime < CloseTime
           \/ t.maxTime - CloseTime > TxExpirationPeriod -> "txTOO_LATE"
      [] OTHER -> t.auth

\* storeFeeForOpType: the fixed fee of the source's OPERATION_FEE entry
\* for the type in the fee asset, 0 when there is none.
FeeForOpType(t) == OpFee[t]

\* Sum of the operations' fees; safeSum fails iff the sum exceeds UIntMax.
FeeSum(ops) == FoldLeft(LAMBDA acc, t : acc + FeeForOpType(t), 0, ops)

\* tryGetTxFeeAsset: loadKeyValue of the fee-asset key (which caches the
\* row or its absence); no row means no fee; a body that is not a STRING
\* throws runtime_error, an invalid asset code invalid_argument.
TryGetTxFeeAsset(st) ==
    LET s == Load(st, FeeAssetKey)
        v == LoadValue(s, FeeAssetKey)
    IN  IF v = Absent \/ v \in FeeAssetCodes THEN s ELSE Raise(s, "feeasset")

\* Rows the store may hold when the node starts applying transactions.
InitRows ==
    {r \in [Keys -> {Absent} \cup InitVals \cup InitBalances] :
        /\ \A k \in OpKeys : r[k] \in {Absent} \cup InitVals
        /\ \A k \in OpKeys \ PresetKeys : r[k] = Absent
        /\ \A b \in {SourceBalance, CommissionBalance} :
               r[b] \in {Absent} \cup InitBalances}

-----------------------------------------------------------------------------

Init ==
    /\ db \in InitRows
    /\ cache = [k \in Keys |-> NotCached]
    /\ deltas = <<>>
    /\ sqlSaved = db
    /\ ledgerDelta = EmptyDelta
    /\ pc = "idle"
    /\ tx = NoTx
    /\ opIdx = 0
    /\ opSteps = 0
    /\ errorEncountered = FALSE
    /\ txFee = 0
    /\ result = "none"
    /\ txCount = 0
    /\ lastException = "none"
    /\ deltaBase = <<>>
    /\ ledgerBase = db
    /\ kindOf \in {f \in [OpKeys -> Kinds] :
                    /\ f[FeeAssetKey] = "keyvalue"
                    /\ \A k \in OpKeys \ {FeeAssetKey} : f[k] \in KindChoices}

-----------------------------------------------------------------------------
(* applyTx: commonValid fails; nothing is opened.                          *)
ApplyTxRejected(t) ==
    /\ pc = "idle"
    /\ txCount < MaxTxs
    /\ CommonValidCode(t) # "ok"
    /\ result' = CommonValidCode(t)
    /\ txCount' = txCount + 1
    /\ lastException' = "none"
    /\ UNCHANGED <<kindOf,
                   db, cache, deltas, sqlSaved, ledgerDelta, pc, tx, opIdx,
                   opSteps, errorEncountered, txFee, deltaBase, ledgerBase>>

(* applyTx: commonValid passes; the SQL transaction and the tx delta open. *)
ApplyTxBegin(t) ==
    /\ pc = "idle"
    /\ txCount < MaxTxs
    /\ CommonValidCode(t) = "ok"
    /\ tx' = Applied(t)
    /\ sqlSaved' = db
    /\ deltas' = <<EmptyDelta>>
    /\ deltaBase' = <<db>>
    /\ errorEncountered' = FALSE
    /\ txFee' = 0
    /\ opIdx' = 0
    /\ pc' = "fee"
    /\ UNCHANGED <<kindOf, db, cache, ledgerDelta, opSteps, result, txCount,
                   lastException, ledgerBase>>

(* processTxFee, run against the tx delta.  The fee is charged only when   *)
(* the feature is on, the source is not MASTER and the fee-asset key-value *)
(* exists; commission balance is created when missing.                     *)
ProcessTxFee ==
    LET charged == FeeFeatureOn /\ ~tx.master
        s1 == IF charged THEN TryGetTxFeeAsset(Cur) ELSE Cur
        asset   == charged /\ Running(s1) /\ LoadValue(s1, FeeAssetKey) # Absent
        total   == FeeSum(tx.ops)
        s2 == CASE ~asset -> s1
                [] total > UIntMax -> Raise(s1, "overflow")
                [] total > tx.maxFee -> Ret(s1, "txINSUFFICIENT_FEE")
                [] OTHER -> Load(s1, SourceBalance)
        src == LoadValue(s2, SourceBalance)
        s3 == IF src = Absent THEN Ret(s2, "txSOURCE_UNDERFUNDED")
              ELSE IF LoadValue(s2, CommissionBalance) = Absent
              THEN StoreAdd(Load(s2, CommissionBalance), CommissionBalance, 0)
              ELSE Load(s2, CommissionBalance)
        comm == LoadValue(s3, CommissionBalance)
        s4 == IF ~TryCharge(src, total) THEN Ret(s3, "txSOURCE_UNDERFUNDED")
              ELSE StoreChange(s3, SourceBalance, src - total)
        s5 == FundCommission(s4, comm, total)
        st == IF asset THEN s5 ELSE s1
    IN  /\ pc = "fee"
        /\ \/ /\ st.exc # "none"
              /\ Throw(st)
           \/ /\ st.exc = "none" /\ st.code # "none"
              /\ Unwind(st, st.code)
           \/ /\ Running(st)
              /\ SetStore(st)
              /\ opIdx' = 1
              /\ pc' = "opStart"
              /\ txFee' = IF asset THEN total ELSE 0
              /\ UNCHANGED <<kindOf, sqlSaved, ledgerDelta, tx, opSteps,
                             errorEncountered, result, txCount, lastException,
                             deltaBase, ledgerBase>>

(* The loop body opens an operation-scoped child delta.                    *)
OpBegin ==
    /\ pc = "opStart"
    /\ deltas' = Append(deltas, EmptyDelta)
    /\ deltaBase' = Append(deltaBase, db)
    /\ opSteps' = 0
    /\ pc' = "op"
    /\ UNCHANGED <<kindOf, db, cache, sqlSaved, ledgerDelta, tx, opIdx,
                   errorEncountered, txFee, result, txCount, lastException,
                   ledgerBase>>

(* One adapter call of the operation: the call returns, or it throws.      *)
OpCall(st) ==
    /\ pc = "op"
    /\ opSteps < MaxOpSteps
    /\ \/ /\ st.exc = "none"
          /\ SetStore(st)
          /\ opSteps' = opSteps + 1
          /\ UNCHANGED <<kindOf, sqlSaved, ledgerDelta, pc, tx, opIdx,
                         errorEncountered, txFee, result, txCount,
                         lastException, deltaBase, ledgerBase>>
       \/ /\ st.exc # "none"
          /\ Throw(st)
          /\ UNCHANGED txFee

OpLoad(k) == pc = "op" /\ OpCall(AdapterLoad(kindOf[k], Cur, k))

\* The operation adds what it found missing and changes or deletes what it
\* found, as business logic does after loading the record.
OpStoreAdd(k, v) ==
    /\ pc = "op"
    /\ LoadValue(Cur, k) = Absent
    /\ OpCall(AdapterStoreAdd(kindOf[k], Cur, k, v))

OpStoreChange(k, v) ==
    /\ pc = "op"
    /\ LoadValue(Cur, k) # Absent
    /\ OpCall(AdapterStoreChange(kindOf[k], Cur, k, v))

OpStoreDelete(k) ==
    /\ pc = "op"
    /\ LoadValue(Cur, k) # Absent
    /\ OpCall(AdapterStoreDelete(kindOf[k], Cur, k))

OpStoreAddOrChange(k, v) ==
    pc = "op" /\ OpCall(ProviderStoreAddOrChange(kindOf[k], Cur, k, v))

\* The child delta folded into the transaction delta only when the
\* operation succeeded (mutant).
OpAppliedFoldOnSuccess(success) ==
    LET n == Len(deltas)
    IN  /\ pc = "op"
        /\ errorEncountered' = (errorEncountered \/ ~success)
        /\ deltas' = [SubSeq(deltas, 1, n - 1) EXCEPT
                        ![n - 1] = IF success
                                   THEN MergeEntries(deltas[n - 1], deltas[n])
                                   ELSE deltas[n - 1]]
        /\ deltaBase' = SubSeq(deltaBase, 1, n - 1)
        /\ opIdx' = opIdx + 1
        /\ pc' = IF opIdx = Len(tx.ops) THEN "finish" ELSE "opStart"
        /\ UNCHANGED <<kindOf,
                       db, cache, sqlSaved, ledgerDelta, tx, opSteps, txFee,
                       result, txCount, lastException, ledgerBase>>

(* op->apply returns; the child delta is committed into the tx delta       *)
(* (storageHelper.commit()) whatever the outcome, and the loop moves on.   *)
OpApplied(success) ==
    LET n == Len(deltas)
    IN  /\ pc = "op"
        /\ errorEncountered' = (errorEncountered \/ ~success)
        /\ deltas' = [SubSeq(deltas, 1, n - 1) EXCEPT
                        ![n - 1] = MergeEntries(deltas[n - 1], deltas[n])]
        /\ deltaBase' = SubSeq(deltaBase, 1, n - 1)
        /\ opIdx' = opIdx + 1
        /\ pc' = IF opIdx = Len(tx.ops) THEN "finish" ELSE "opStart"
        /\ UNCHANGED <<kindOf,
                       db, cache, sqlSaved, ledgerDelta, tx, opSteps, txFee,
                       result, txCount, lastException, ledgerBase>>

(* After the loop: commit both the SQL transaction and the tx delta.       *)
TxCommit ==
    /\ pc = "finish"
    /\ ~errorEncountered
    /\ tx.sigsUsed
    /\ ledgerDelta' = MergeEntries(ledgerDelta, deltas[1])
    /\ deltas' = <<>>
    /\ deltaBase' = <<>>
    /\ pc' = "idle"
    /\ result' = "txSUCCESS"
    /\ txCount' = txCount + 1
    /\ lastException' = "none"
    /\ EndFrame
    /\ UNCHANGED <<kindOf, db, cache, sqlSaved, ledgerBase>>

(* checkAllSignaturesUsed fails: return false inside the scope.            *)
TxUnusedSignatures ==
    /\ pc = "finish"
    /\ ~errorEncountered
    /\ ~tx.sigsUsed
    /\ Unwind(Cur, "txBAD_AUTH_EXTRA")

(* An operation failed: the scope ends uncommitted; markResultFailed.      *)
TxFailed ==
    /\ pc = "finish"
    /\ errorEncountered
    /\ Unwind(Cur, "txFAILED")

\* Every transaction of the behaviour has been applied.
Done ==
    /\ pc = "idle"
    /\ txCount = MaxTxs
    /\ UNCHANGED vars

Next ==
    \/ \E t \in TxInputs : ApplyTxRejected(t) \/ ApplyTxBegin(t)
    \/ ProcessTxFee
    \/ OpBegin
    \/ \E k \in OpKeys : OpLoad(k) \/ OpStoreDelete(k)
    \/ \E k \in OpKeys, v \in Vals :
           OpStoreAdd(k, v) \/ OpStoreChange(k, v) \/ OpStoreAddOrChange(k, v)
    \/ \E success \in BOOLEAN : OpApplied(success)
    \/ TxCommit
    \/ TxUnusedSignatures
    \/ TxFailed
    \/ Done

Spec == Init /\ [][Next]_vars

-----------------------------------------------------------------------------
(* Properties                                                              *)

\* Every variable has its type; in particular no balance ever exceeds
\* INT64_MAX (BalanceMax), which is what tryFundAccount's refusal of a full
\* commission line in processTxFee guarantees.
TypeOK ==
    /\ db \in [Keys -> {Absent} \cup Vals \cup InitVals \cup 0..BalanceMax]
    /\ cache \in [Keys -> {NotCached, Absent} \cup Vals \cup InitVals
                          \cup 0..BalanceMax]
    /\ deltas \in Seq(Delta(Keys)) /\ Len(deltas) <= 2
    /\ ledgerDelta \in Delta(Keys)
    /\ pc \in {"idle", "fee", "opStart", "op", "finish"}
    /\ opIdx \in 0..MaxOps + 1 /\ opSteps \in 0..MaxOpSteps
    /\ txFee \in 0..UIntMax
    /\ txCount \in 0..MaxTxs
    /\ lastException \in {"none", "storage", "overflow", "unsupported", "sql",
                          "nohelper", "feeasset"}

\* The entry cache never disagrees with the rows the SQL session sees: a
\* cached row equals the row and a negative entry means the row is missing.
\* Adapters flush before every write and a rolled-back delta flushes every
\* key it journalled, so loads made inside a transaction that is later
\* rolled back cannot leave its uncommitted rows behind in the cache.
CacheCoherent ==
    \A k \in Keys : cache[k] \in {NotCached, db[k]}

\* A journal agrees with the rows it was opened on (base) and the rows now:
\* "new" keys were missing and exist, "mod" keys existed and exist, "del"
\* keys existed and are gone, and every other key is unchanged.
JournalAgrees(d, base, now) ==
    \A k \in Keys :
        /\ k \in d.new => base[k] = Absent /\ now[k] # Absent
        /\ k \in d.mod => base[k] # Absent /\ now[k] # Absent
        /\ k \in d.del => base[k] # Absent /\ now[k] = Absent
        /\ k \notin Touched(d) => now[k] = base[k]

\* Every open delta, and the ledger delta the transactions commit into,
\* journals exactly the rows that changed since it was opened, through the
\* collapsing of repeated calls and the folding of each operation's delta
\* into the transaction's and of the transaction's into the ledger's: the
\* change history the node publishes misses no change and invents none.
JournalMatchesStore ==
    LET n == Len(deltas)
        now(i) == IF i = n THEN db ELSE deltaBase[i + 1]
    IN  /\ \A i \in 1..n : JournalAgrees(deltas[i], deltaBase[i], now(i))
        /\ JournalAgrees(ledgerDelta, ledgerBase,
                         IF n > 0 THEN deltaBase[1] ELSE db)

\* The committed rows: what another SQL session would read.
Durable == IF pc = "idle" THEN db ELSE sqlSaved

Atomic == INSTANCE AtomicLedger
            WITH store <- Durable, applied <- txCount, result <- result

\* The pipeline implements AtomicLedger: durable rows change only when a
\* whole transaction commits, rejected, failed and throwing transactions
\* leave them as they were, and the fee only moves from source to
\* commission.
AtomicRefinement == Atomic!Spec

-----------------------------------------------------------------------------
(* Claims of spec.md that the code does not keep                           *)

\* spec.md 4.4/8: when an operation fails, the fee charged before the
\* operations ran stays durable.  In applyTx the fee is journalled in the
\* transaction delta and written in the same SQL transaction as the
\* operations, and both are rolled back.
FeeKeptOnFailedTx ==
    [][ (pc = "finish" /\ errorEncountered /\ txFee > 0 /\ pc' = "idle")
          => Durable'[SourceBalance] = Durable[SourceBalance] - txFee ]_vars

\* spec.md 4.2: addOrChange resolves existence first, so it never issues
\* an UPDATE for a missing row or an INSERT for an existing one and never
\* ends in StorageInconsistency.  exists() answers from a negative cache
\* entry as if the row were there.
AddOrChangeConsistent == lastException # "storage"

\* spec.md 4.4/7: an overflow of the fee sum is a typed validation failure,
\* never an exception.  processTxFee throws runtime_error.
FeeOverflowIsTypedFailure == lastException # "overflow"

=============================================================================
