# TLA+ models of the ledger-state engine

These modules model the transactional core of the node: the transaction
pipeline (`src/src/transactions/TransactionFrameImpl.cpp`), the layered
ledger delta it writes into, and the per-kind entry adapters with the
process-wide entry cache (`src/src/ledger/EntryHelperLegacy.cpp`,
`src/src/ledger/KeyValueHelper.cpp`, `SaleHelper.cpp`, `ReferenceHelper.cpp`,
`EntityTypeHelper.cpp`), and the operations built on it whose
logic is in the sources: the account manager's transfers and reverts
(`AccountManager.cpp`), payouts (`PayoutOpFrame.cpp`), binding of
external-system account ids (`BindExternalSystemAccountIdOpFrame.cpp`,
`ExternalSystemIDGenerators.cpp`), sale creation requests
(`CreateSaleCreationRequestOpFrame.cpp`) and the asset requests of
`ManageAssetOpFrame.cpp`. `PROJECT.json` lists every component,
run, mutant, finding and hazard. Its `map` names the source lines behind
each definition.

## The system and how its parts interact

- **Transaction pipeline.** `TransactionFrameImpl::applyTx` works in this order:
  1. It runs `commonValid`: missing operation, time bounds, source account, signatures.
  2. It opens a `soci::transaction` and a transaction-scoped `LedgerDeltaImpl`.
  3. It charges the fee into that delta (`processTxFee`).
  4. It applies each operation inside its own child delta. The child is folded into the transaction delta whatever the outcome.
  5. If no operation failed and every signature was used, it commits the SQL transaction and the transaction delta.
  6. Any other exit, including an exception, destroys both scopes uncommitted, so both roll back.
- **Ledger delta** (`LedgerDeltaImpl`, not part of the sources).
  - It journals entries as new, modified or deleted, collapsing repeated calls on a key.
  - On commit it folds into its parent.
  - On rollback it flushes every journalled key from the entry cache.
- **Entry adapters and cache.**
  - Each adapter flushes the cache entry before a write.
  - It runs the SQL and throws unless exactly one row was affected. It then journals the change in the delta.
  - A load fills the cache, with a negative entry for a missing row.
  - The registry (`EntryHelperProvider`) dispatches by kind. `storeAddOrChangeEntry` asks `exists` and then changes or adds.
  - The registry names the key-value adapter `KeyValueHelperLegacy`. That file is absent, and `KeyValueHelper.cpp` is taken as its code.
  - `SaleHelper` has the key-value adapter's shape. `ReferenceHelper` never touches the cache, refuses updates, and writes without flushing. `EntityTypeHelper` caches like the others but is missing from the registry's helper map, so `storeAddOrChangeEntry` throws for it in `LedgerEntryKey`. Its `storeDelete` deletes from `entity_type` while the table is `entity_types`.

- **Operations.** An operation's `doApply` reads and writes records through the adapters and returns a result code. A `false` fails the transaction, and the pipeline then discards everything it wrote. The operation modules therefore model a failed call as a change of the result code only.
  - `AccountManager::processTransfer` debits or locks a balance and adds the amount, converted to the statistics asset, to the rolling statistics windows, checked against limits. `revertRequest` undoes a locked transfer.
  - `PayoutOpFrame` divides an amount among the holders of an asset and takes it from the owner's balance through `processTransfer`.
  - `BindExternalSystemAccountIdOpFrame` binds an id from a pool to an account for a day. `ExternalSystemIDGenerators` derives ids for auto-generated types when an account is created.
  - `CreateSaleCreationRequestOpFrame` stores a reviewable request to open a sale.

## Modules

| module | models |
|---|---|
| `LedgerDelta` | The delta journal as three key sets. `AddEntry`/`ModEntry`/`DeleteEntry` carry the collapsing rules, `MergeEntries` is `commit()` (deletes, then adds, then mods) and `FlushTouched` is the rollback's cache flush. Modelled from spec.md 4.3, because the class is not in `src/`. |
| `EntryStore` | Adapter calls as operators on a store state `[db, cache, delta, exc, code]`. A set `exc` or `code` stops the caller, which is how the code's early returns and throws chain into one expression. `Load`, `Exists`, `StoreUpdateHelper`, `StoreAdd`, `StoreChange`, `StoreDelete`, `StoreAddOrChange`. |
| `EntryAdapters` | The per-kind adapters over `EntryStore`'s store state: `SaleLoad`/`SaleExists`/`SaleStoreUpdate`/`SaleStoreDelete`, `ReferenceLoad`/`ReferenceExists`/`ReferenceStoreAdd`/`ReferenceStoreChange`/`ReferenceStoreDelete`, `EntityTypeLoad`/`EntityTypeStoreUpdate`/`EntityTypeStoreDelete`. Also the registry's dispatch by kind (`AdapterLoad`, `AdapterStoreAdd`, `AdapterStoreChange`, `AdapterStoreDelete`, `ProviderStoreAddOrChange` with `NoLegacyHelper`). |
| `TxPipeline` | The pipeline as a state machine. Variables: `db` (the rows the session sees), `cache`, `deltas` (open scopes), `sqlSaved` (rows at `BEGIN`), `ledgerDelta` (what committed transactions fold into), and `pc`/`tx`/`opIdx`/`errorEncountered` (applyTx's locals). There is one action per step: `ApplyTxRejected`, `ApplyTxBegin`, `ProcessTxFee`, `OpBegin`, one action per adapter call an operation makes, `OpApplied`, `TxCommit`, `TxUnusedSignatures`, `TxFailed`. `kindOf` fixes, for the behaviour, the record kind of each op key, and each adapter call goes through that kind's adapter. `Unwind` is what the scopes' destructors do on every uncommitted exit. |
| `AtomicLedger` | The abstract promise: the durable store changes only when a transaction is applied with `txSUCCESS`, and then its fee balances only move value from source to commission. Every other outcome leaves the store as it was. |
| `MC_TxPipeline` | Model values for the keys and the operation fee table. |
| `AccountManager` | `processTransfer`, `revertRequest`, `validateStats`, `getDefaultLimits`, `isFeeMatches` as operators from values to outcome records, with the balance and statistics frame arithmetic (`AddBalance`, `LockBalance`, `StatsAdd` with lazy clearing of a window whose period ended, `BigDivideUp`). Amounts are int64 at `IntWidth` bits. |
| `AccountRequests` | One account driven through the calls requests make: `CreateRequest` (a locked transfer), `Transfer`, `Reject` (`revertRequest`), `Approve`, `Deposit` and `Tick` of the close time. `requests` is the history the properties compare against. The request op frames are not in the sources, so these actions come from spec.md 4.5. |
| `Payout` | `doCheckValid`+`doApply` as one action `Payout`. It folds `addShareAmount` over the holder balances, then `processTransfer` debits the source, then the receivers are credited and stored, and only then is the commission balance loaded (`LoadCommission`, from the balances the receivers left) and credited. uint64/int64 widths are kept (`ToUInt64`, `ToInt64`). As written, `doApply` tests the member `mHolders`, which nothing fills (line 143), and `addShareAmount` divides by `mAsset->getIssued()`, where nothing assigns `mAsset` (line 75). The constants `HoldersFilled` and `AssetSet` choose between the code as written (both FALSE; a null `mAsset` is a crash that applies nothing) and both members set, with `Issued` the loaded asset's issued amount. Everything past line 143 is therefore latent behaviour, reached only once both defects are fixed. |
| `ExternalSystemIds` | `Bind` is `doCheckValid`+`doApply`: prolonging the caller's own entry, or binding an available one (`BindAvailable`), which deletes the previous holder's id. `CreateAccount` runs the header's generators through `GenerateNewIDs`. `Tick` moves the close time, so bindings expire. |
| `SaleRequest` | `CreateSaleCreationRequest` is `doCheckValid`+`doApply` with `createNewUpdateRequest`. It works over the reviewable-request table, which it shares with two other writers. `ManageAsset` is `ManageAssetOpFrame::makeHelper`'s three actions: create and update asset requests through `GetOrCreateReviewableRequest`, and cancel. Its lookup is typed (`LoadRequestOfType`), unlike the sale path's. The other writer is the reviewer's approvals (`Approve`). |
| `MC_AccountRequests`, `MC_Payout`, `MC_ExternalSystemIds`, `MC_SaleRequest` | Model values and small functions for the runs. |

Operations are the business logic outside this core. An operation is any
sequence of at most `MaxOpSteps` adapter calls (load, add, change, delete,
addOrChange) on the record keys, followed by success or failure. It adds
only what it found missing and changes or deletes only what it found, as
the op frames do after loading a record. Record bodies are abstracted to
small integers. Balances keep their amounts, scaled down: `BalanceMax`
stands for INT64_MAX and `FeeWidth` is the width of the uint64 fee sum.

## Runs

### Transaction pipeline

All pipeline runs use `MC_TxPipeline` with these constants:
- two transactions, each with up to two operations of one adapter call;
- two record keys. One is the fee-asset key-value. The other is a record of a kind fixed per behaviour (`KindChoices`): a reference or an entity type in `pipeline_safety`, and a sale in the violation runs;
- in `pipeline_safety`, the second record starts absent (`PresetKeys`), and its first transaction may create it. This keeps the run near 1.1M states. With both kinds and a present start the run reaches 2.7M states, which is too many for the run's time budget. The sale adapter is the key-value adapter's operators, which the fee-asset key exercises. In the violation runs both rows may start present;
- operation fees of 0 (`free`) and 2 (`paid`) with a 2-bit fee width, so two paid operations overflow the sum;
- balances of 3 with `BalanceMax` 4, so a second charge underfunds the source and a charge into a balance of 3 fills the commission line;
- time bounds and signature outcomes that reach every `commonValid` result;
- in `pipeline_safety`, the fee-asset key-value may start with a body that is not a valid asset code (`InitVals` {1, 2}, `FeeAssetCodes` {1}). Every non-master transaction then throws in `tryGetTxFeeAsset` after the row was cached, until an operation of a master source rewrites it.

With one adapter call per operation, the collapse rules are exercised when
operation deltas fold into the transaction delta. Two transactions let
cache entries and journals carry over from one to the next.

| run | expect | what it shows |
|---|---|---|
| `pipeline_safety` | pass | `CacheCoherent`: the cache never holds a row other than the session's, across nested rollbacks and exceptions. `JournalMatchesStore`: every open delta, and the ledger delta, journals exactly the rows changed since it opened. `AtomicRefinement`: the pipeline, with the durable rows mapped to `db` when idle and to `sqlSaved` inside a transaction, implements `AtomicLedger`. These hold with the reference adapter writing without a flush and refusing updates, and with the entity-type delete flushing and then failing in SQL. These hold also when `tryGetTxFeeAsset` throws on a malformed fee-asset row it has just cached. 1.1M states, about 85 s. |
| `fee_kept_on_failure` | violation | spec.md 4.4/8 say the fee stays charged when an operation fails. The code rolls it back. |
| `add_or_change_negative_cache` | violation | `exists()` answers true for a negative cache entry. An addOrChange of a key whose miss was cached (here, the fee-asset lookup in `processTxFee`) UPDATEs a missing row and throws. |
| `fee_overflow_throws` | violation | spec.md 7 says an overflow is a typed failure. `processTxFee` throws. |

Each passing property has a mutant in `PROJECT.json`:
- a commission credit without the line-full check breaks `TypeOK`;
- a `storeDelete` that does not flush breaks `CacheCoherent`, and so does a `loadReference` that caches what it reads (reference writes never flush);
- folding an operation delta only on success breaks `JournalMatchesStore`;
- an unwind that keeps the session's rows breaks `AtomicRefinement`.

### Account manager (`MC_AccountRequests`)

The constants are chosen so that each of these cases happens:
- 4-bit amounts, an initial amount of 4, and transfers of 2 and 3, so deposits can fill the line;
- prices 1 and 2;
- a daily window of length 1 and a weekly window of length 2, so a reject can cross a daily boundary inside one week;
- limits either absent or set to 4 (daily) and 5 (weekly);
- a statistics asset and an asset pair, each present or absent;
- close times 0..3 and up to 2 transfers (3 transfers take minutes without reaching new cases).

| run | expect | what it shows |
|---|---|---|
| `account_requests` | pass | `LockedMatchesPending`: the locked amount equals the sum of pending requests. `StatsMatchHistory`: every window shows exactly the universal amounts of the non-rejected transfers performed in its current period, also when the reject comes periods later. `TypeOK`. 348k states. |
| `revert_on_full_line` | violation | `revertRequest` returns false when deposits have filled the available amount, so a pending request cannot be rejected. spec.md 4.5 names no such failure. The trace needs an available amount plus a locked amount above INT64_MAX. It assumes, as the model's `LockBalance`/`AddBalance` do, that `BalanceFrame` bounds each of the two by INT64_MAX, not their sum. `BalanceFrame` is not in the sources; if it capped the sum, this state would be unreachable. |

### Payout (`MC_Payout`)

The constants:
- two holder balances holding 2 and 3 of 5 issued: one in a holder account, one in the commission account, since fees in the share asset collect there;
- a source with 12;
- the first holder either without a balance of the paid asset (`createNewBalance`) or with 14, close to the 5-bit line;
- payout amounts 0, 4 and 6, and fee choices that do and do not match the fee table.

Every outcome happens: success, malformed, asset and balance lookups failing, fee mismatch, underfunded, line full and statistics overflow.

| run | expect | what it shows |
|---|---|---|
| `payout_safety` | pass | Latent behaviour, with `mHolders` filled and `mAsset` set (`HoldersFilled`, `AssetSet`): `Conservation`, the paid asset is moved, never created or destroyed, on every path, including when the commission account is also a holder. 303 states. |
| `payout_holders_not_found` | violation | As written, `doApply` iterates `mHolders`, which nothing fills, so every payout that passes the earlier checks answers `HOLDERS_NOT_FOUND`. |
| `payout_shared_holder` | violation | Latent, once `mHolders` and `mAsset` are set: two holder balances of one account: `emplace` keeps one share, yet both are debited. |
| `payout_amount_wrap` | violation | Latent, once `mHolders` and `mAsset` are set: a `maxPayoutAmount` of 2^63 or more makes `totalAmount` negative as an int64, and the source is credited. The run uses 6-bit amounts, a maximum of 50 and no fee, so the commission line does not fill first. |

### External-system ids (`MC_ExternalSystemIds`)

The constants:
- three accounts and two pool entries of one pool type, so a third account finds no id and an expired entry passes to another account;
- two auto-generated types whose generators may each produce an id or nothing;
- bindings that last one close-time unit, with close times 0..3.

The accounts are symmetric.

| run | expect | what it shows |
|---|---|---|
| `ext_ids_safety` | pass | `BindingsMatchPool`: every pool-type id an account holds is the data of the one entry bound to it. Rebinding an expired entry therefore always finds the previous holder's id to delete. 40k states. |

### Sale creation requests (`MC_SaleRequest`)

| run | expect | what it shows |
|---|---|---|
| `sale_request_overwrites_asset_request` | violation | Passing the id of one's own pending asset creation request replaces that request with a sale request for the same base asset. The base-asset check was satisfied by the request being replaced. |

## Mutants

Each passing property has a mutant in `PROJECT.json`, a plausible bug that TLC catches:
- `pipeline_safety`:
  - a commission credit without the line-full check breaks `TypeOK`;
  - a `storeDelete` that does not flush breaks `CacheCoherent`, and so does a `loadReference` that caches what it reads (reference writes never flush);
  - folding an operation delta only on success breaks `JournalMatchesStore`;
  - an unwind that keeps the session's rows breaks `AtomicRefinement`.
  - `account_requests`:
  - a `processTransfer` that carries on after a refused debit breaks `TypeOK`;
  - a revert that locks instead of unlocking breaks `LockedMatchesPending`;
  - a revert that subtracts at the current time instead of the performed time breaks `StatsMatchHistory`.
- `payout_safety`:
  - `processBalanceChange` ignoring `UNDERFUNDED` breaks `Conservation`;
  - loading the commission balance before the receivers are stored breaks `Conservation`: its write then overwrites the commission account's share;
- `ext_ids_safety`:
  - binding without deleting the previous holder's id breaks `BindingsMatchPool`;

## Fairness

The pass runs check safety and refinement only, so no fairness is assumed.
The one progress claim the code could justify, that every transaction
`applyTx` starts returns, follows from its loop being a range-for over the
operations with no retry. Under weak fairness of the pipeline steps it is
`pc # "idle" ~> pc = "idle"`. Checking that leads-to on the pipeline graph
took about 19 minutes, which is beyond the time a run is given. Deadlock
checking shows that a started transaction always has a next step.
`Done` stutters once the bound on a model's steps is reached (`MaxTxs`, `MaxTime`, `MaxPayouts`). In `SaleRequest`, a request that fails validation is always possible. Deadlock checking is on, and no other state lacks a successor.

## Not modelled

- `checkValid` and the history tables (`storeTransaction*`). Their callers are not in the sources, so the `txDUPLICATION` check that only `checkValid` makes has no property.
- `setSourceAccountPtr` (`TransactionFrameImpl.cpp:423`) dereferences a null `signingAccount` and never checks a non-null one. Its callers are not in the sources, and account loading is an input outcome of the model.
- The bodies of the frames `ManageAssetOpFrame::makeHelper` builds (`CreateAssetOpFrame`, `UpdateAssetOpFrame`, `CancelAssetRequestOpFrame`), and the review frames. `ManageAsset` takes their checks from the request types. So nothing is checked about a cancelled asset creation request that a pending sale request relied on.
- `ManageContractRequestOpFrame.h` and `ReviewWithdrawalRequestOpFrame.h`, which are declarations only.
- Signature verification, which is an input outcome.
- XDR/base64 serialisation.
- `loadKeyValues`' column binding.
- The `TX_INTERNAL_ERROR` test hook.
- The adapters' multi-row readers (`SaleHelper::loadRequireStateChange`, `loadSales(base, quote)`), `EntityTypeHelper::exists` (nothing the model reaches calls it), and `dropAll`/`countObjects` (provisioning). The live-entry list `recordEntry` feeds is not modelled either.
- Stopping at the first failed operation. spec.md 4.4 says processing stops there, but the loop in `applyTx` (`TransactionFrameImpl.cpp:568`) applies the remaining operations. The transaction is rolled back either way, so only the per-operation results differ. The pipeline model does apply the later operations, but no property singles this out.
- Signer rules (`getSourceAccountDetails`, `getCounterpartyDetails`) and BTC/ETH key derivation.
