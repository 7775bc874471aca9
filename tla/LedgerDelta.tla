----------------------------- MODULE LedgerDelta -----------------------------
(***************************************************************************)
(* The journal kept by one LedgerDelta scope (LedgerDeltaImpl).  The class *)
(* itself is not part of the sources; its behaviour is the one spec.md     *)
(* section 4.3 describes and the one the adapters rely on: a key is in at  *)
(* most one of the sets new / mod / del, a later call for the same key     *)
(* collapses with the earlier one, and a child's journal is folded into    *)
(* its parent by replaying its deletes, then its adds, then its mods.      *)
(*                                                                         *)
(* Post-images are not kept here: the live database holds them.  A delta   *)
(* is therefore a record of three sets of keys.                            *)
(***************************************************************************)
EXTENDS FiniteSetsExt

Delta(Keys) == [new : SUBSET Keys, mod : SUBSET Keys, del : SUBSET Keys]

EmptyDelta == [new |-> {}, mod |-> {}, del |-> {}]

\* Every key some entry of d names.
Touched(d) == d.new \cup d.mod \cup d.del

\* addEntry: delete followed by add is a modification; otherwise a new entry.
AddEntry(d, k) ==
    IF k \in d.del
    THEN [d EXCEPT !.del = @ \ {k}, !.mod = @ \cup {k}]
    ELSE [d EXCEPT !.new = @ \cup {k}]

\* modEntry: a key created in this scope stays "new" with its latest value.
ModEntry(d, k) ==
    IF k \in d.new THEN d ELSE [d EXCEPT !.mod = @ \cup {k}]

\* deleteEntry: deleting what this scope created leaves no trace; otherwise
\* only the delete is kept.
DeleteEntry(d, k) ==
    IF k \in d.new
    THEN [d EXCEPT !.new = @ \ {k}]
    ELSE [d EXCEPT !.del = @ \cup {k}, !.mod = @ \ {k}]

\* commit(): the parent replays the child's deletes, adds and mods, in that
\* order (mergeEntries).
MergeEntries(parent, child) ==
    LET afterDel == FoldSet(LAMBDA k, d : DeleteEntry(d, k), parent, child.del)
        afterNew == FoldSet(LAMBDA k, d : AddEntry(d, k), afterDel, child.new)
    IN  FoldSet(LAMBDA k, d : ModEntry(d, k), afterNew, child.mod)

\* rollback(): every key the scope touched is flushed from the entry cache;
\* the journal itself is dropped by the caller.
FlushTouched(cache, d, NotCached) ==
    [k \in DOMAIN cache |-> IF k \in Touched(d) THEN NotCached ELSE cache[k]]

=============================================================================
