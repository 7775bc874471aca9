---------------------------- MODULE EntryAdapters ----------------------------
(***************************************************************************)
(* The entry adapters of the record kinds operations touch, over the store *)
(* state of EntryStore, and the dispatch of EntryHelperProvider.           *)
(*                                                                         *)
(*   keyvalue   : KeyValueHelper, as EntryStore models it;                 *)
(*   sale       : SaleHelper, the same shape: loads cache the row or its   *)
(*                absence, exists asks the cache first, writes flush and   *)
(*                check the affected rows, deletes flush;                  *)
(*   reference  : ReferenceHelper, which never touches the entry cache and *)
(*                refuses updates;                                         *)
(*   entitytype : EntityTypeHelper, reached through its own methods only:  *)
(*                EntryHelperProvider's helper map has no ENTITY_TYPE.     *)
(***************************************************************************)
EXTENDS EntryStore

Kinds == {"keyvalue", "sale", "reference", "entitytype"}

\* SaleHelper::loadSale: a cached entry (or cached absence) is returned, a
\* miss reads the row and caches it or its absence.
SaleLoad(st, k) == Load(st, k)

\* SaleHelper::exists: cachedEntryExists first, then the table.
SaleExists(st, k) == Exists(st, k)

\* SaleHelper::storeUpdateHelper: ensureValid, flush, INSERT or UPDATE,
\* throw unless one row was affected, journal as added or modified.
SaleStoreUpdate(st, k, v, insert) == StoreUpdateHelper(st, k, v, insert)

\* SaleHelper::storeDelete: flush, DELETE without a row count, journal.
SaleStoreDelete(st, k) == StoreDelete(st, k)

\* A loadReference that caches what it reads, as the other loaders do
\* (mutant).
ReferenceLoadCached(st, k) == Load(st, k)

\* ReferenceHelper::loadReference and exists query the table; nothing is
\* read from or put into the entry cache.
ReferenceLoad(st, k) == st

ReferenceExists(st, k) == st.db[k] # Absent

\* ReferenceHelper::storeAdd: the INSERT of a reference the sender already
\* has violates the primary key and throws; otherwise the row is written
\* and journalled.  There is no cache flush.
ReferenceStoreAdd(st, k, v) ==
    IF ~Running(st) THEN st
    ELSE IF st.db[k] # Absent THEN [st EXCEPT !.exc = "storage"]
    ELSE [st EXCEPT !.db[k] = v, !.delta = AddEntry(@, k)]

\* ReferenceHelper::storeChange: "Update for reference is not supported".
ReferenceStoreChange(st, k, v) == Raise(st, "unsupported")

\* ReferenceHelper::storeDelete: DELETE and journal, no flush, no row count.
ReferenceStoreDelete(st, k) ==
    IF ~Running(st) THEN st
    ELSE [st EXCEPT !.db[k] = Absent, !.delta = DeleteEntry(@, k)]

\* EntityTypeHelper::loadEntityType: cached entry or absence, else the row
\* is read and it or its absence cached.
EntityTypeLoad(st, k) == Load(st, k)

\* EntityTypeHelper::storeUpdate: ensureValid, touch, flush, INSERT or
\* UPDATE, throw unless one row was affected, journal.
EntityTypeStoreUpdate(st, k, v, insert) == StoreUpdateHelper(st, k, v, insert)

\* EntityTypeHelper::storeDelete: the cache entry is flushed, then the
\* DELETE names the table entity_type, while dropAll creates entity_types:
\* the statement fails and soci throws before deleteEntry.
EntityTypeStoreDelete(st, k) ==
    IF ~Running(st) THEN st
    ELSE [FlushCachedEntry(st, k) EXCEPT !.exc = "sql"]

-----------------------------------------------------------------------------
(* One adapter call on a key of the given kind.                            *)

AdapterLoad(kind, st, k) ==
    CASE kind = "sale"       -> SaleLoad(st, k)
      [] kind = "reference"  -> ReferenceLoad(st, k)
      [] kind = "entitytype" -> EntityTypeLoad(st, k)
      [] OTHER               -> Load(st, k)

AdapterStoreAdd(kind, st, k, v) ==
    CASE kind = "sale"       -> SaleStoreUpdate(st, k, v, TRUE)
      [] kind = "reference"  -> ReferenceStoreAdd(st, k, v)
      [] kind = "entitytype" -> EntityTypeStoreUpdate(st, k, v, TRUE)
      [] OTHER               -> StoreAdd(st, k, v)

AdapterStoreChange(kind, st, k, v) ==
    CASE kind = "sale"       -> SaleStoreUpdate(st, k, v, FALSE)
      [] kind = "reference"  -> ReferenceStoreChange(st, k, v)
      [] kind = "entitytype" -> EntityTypeStoreUpdate(st, k, v, FALSE)
      [] OTHER               -> StoreChange(st, k, v)

AdapterStoreDelete(kind, st, k) ==
    CASE kind = "sale"       -> SaleStoreDelete(st, k)
      [] kind = "reference"  -> ReferenceStoreDelete(st, k)
      [] kind = "entitytype" -> EntityTypeStoreDelete(st, k)
      [] OTHER               -> StoreDelete(st, k)

\* LedgerEntryKey: the kinds the helper map of EntryHelperProvider has no
\* legacy helper for, where it throws "There's no legacy helper".
NoLegacyHelper(kind) == kind = "entitytype"

\* EntryHelperProvider::storeAddOrChangeEntry: LedgerEntryKey first, then
\* the helper's exists decides between storeChange and storeAdd.
ProviderStoreAddOrChange(kind, st, k, v) ==
    CASE NoLegacyHelper(kind) -> Raise(st, "nohelper")
      [] kind = "sale" ->
            IF SaleExists(st, k) THEN AdapterStoreChange(kind, st, k, v)
                                 ELSE AdapterStoreAdd(kind, st, k, v)
      [] kind = "reference" ->
            IF ReferenceExists(st, k) THEN AdapterStoreChange(kind, st, k, v)
                                      ELSE AdapterStoreAdd(kind, st, k, v)
      [] OTHER -> StoreAddOrChange(st, k, v)

=============================================================================
