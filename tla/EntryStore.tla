----------------------------- MODULE EntryStore -----------------------------
(***************************************************************************)
(* The per-kind entry adapters (EntryHelperLegacy subclasses such as       *)
(* KeyValueHelper and SaleHelper), the process-wide entry cache they share *)
(* and the registry that dispatches to them (EntryHelperProvider).         *)
(*                                                                         *)
(* Every adapter call is an operator from a store state to a store state:  *)
(*   db    : the rows the SQL session sees (uncommitted writes included),  *)
(*   cache : the entry cache, NotCached, a negative entry (Absent) or the  *)
(*           cached row,                                                   *)
(*   delta : the journal of the LedgerDelta the call records into,         *)
(*   exc   : the exception in flight, "none" while the caller runs,        *)
(*   code  : the result code of an early "return false", "none" if none.   *)
(* Once exc or code is set the caller has stopped, and further calls leave *)
(* the state alone: that is how a sequence of calls with early returns is  *)
(* written as one expression.                                              *)
(*                                                                         *)
(* Record bodies are abstracted to small integers; Absent and NotCached    *)
(* are negative so that they are never a row value.                        *)
(***************************************************************************)
EXTENDS Integers, LedgerDelta

Absent == -1
NotCached == -2

Running(st) == st.exc = "none" /\ st.code = "none"

\* flushCachedEntry
FlushCachedEntry(st, k) == [st EXCEPT !.cache[k] = NotCached]

\* The value a load returns: the cached entry if there is one (positive or
\* negative), the row otherwise.
LoadValue(st, k) == IF st.cache[k] # NotCached THEN st.cache[k] ELSE st.db[k]

\* loadKeyValue / loadSale: on a cache miss the row is read and cached,
\* as a negative entry when it is missing.
Load(st, k) ==
    IF Running(st) /\ st.cache[k] = NotCached
    THEN [st EXCEPT !.cache[k] = st.db[k]]
    ELSE st

\* exists: cachedEntryExists is asked first, and it is true for a negative
\* entry as well as for a cached row.
Exists(st, k) == st.cache[k] # NotCached \/ st.db[k] # Absent

\* storeUpdateHelper(insert): flush the cache entry, run the INSERT or
\* UPDATE, throw unless exactly one row was affected, then journal the
\* entry as added or modified.
StoreUpdateHelper(st, k, v, insert) ==
    LET flushed  == FlushCachedEntry(st, k)
        affected == IF insert THEN st.db[k] = Absent ELSE st.db[k] # Absent
    IN  IF ~Running(st) THEN st
        ELSE IF ~affected THEN [flushed EXCEPT !.exc = "storage"]
        ELSE [flushed EXCEPT !.db[k] = v,
                             !.delta = IF insert THEN AddEntry(@, k)
                                                 ELSE ModEntry(@, k)]

StoreAdd(st, k, v) == StoreUpdateHelper(st, k, v, TRUE)

StoreChange(st, k, v) == StoreUpdateHelper(st, k, v, FALSE)

\* storeDelete without the flush (mutant).
StoreDeleteNoFlush(st, k) ==
    IF ~Running(st) THEN st
    ELSE [st EXCEPT !.db[k] = Absent, !.delta = DeleteEntry(@, k)]

\* storeDelete: flush, DELETE (the affected row count is not checked), and
\* journal the delete.
StoreDelete(st, k) ==
    IF ~Running(st) THEN st
    ELSE [FlushCachedEntry(st, k) EXCEPT !.db[k] = Absent,
                                         !.delta = DeleteEntry(@, k)]

\* EntryHelperProvider::storeAddOrChangeEntry: ask exists, then change or add.
StoreAddOrChange(st, k, v) ==
    IF Exists(st, k) THEN StoreChange(st, k, v) ELSE StoreAdd(st, k, v)

\* A "return false" with a result code.
Ret(st, code) == IF Running(st) THEN [st EXCEPT !.code = code] ELSE st

\* A throw that is not a store failure.
Raise(st, exc) == IF Running(st) THEN [st EXCEPT !.exc = exc] ELSE st

=============================================================================
