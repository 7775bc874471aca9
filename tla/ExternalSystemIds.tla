-------------------------- MODULE ExternalSystemIds --------------------------
(***************************************************************************)
(* External-system account ids: the pool of ids an administrator loads for *)
(* a pool type, bound to accounts for a day at a time and prolonged by     *)
(* binding again (BindExternalSystemAccountIdOpFrame), and the ids that    *)
(* generators derive for auto-generated types when an account is created   *)
(* (ExternalSystemIDGenerators).                                           *)
(*                                                                         *)
(* A failed or throwing operation fails its transaction and the pipeline   *)
(* discards what it wrote (TxPipeline), so only lastResult records it.     *)
(***************************************************************************)
EXTENDS Integers, FiniteSets

CONSTANTS
    AccountIds,     \* accounts
    PoolEntries,    \* pool entries, created unbound
    PoolTypeOf,     \* the external system type of each pool entry
    PoolTypes,      \* types served from the pool
    AutoTypes,      \* auto-generated types
    Generators,     \* the header's generator types (a subset of AutoTypes)
    DayInSeconds,   \* BindExternalSystemAccountIdOpFrame::dayInSeconds
    MaxTime,        \* bound on the close time
    None            \* no account / no id

Types == PoolTypes \cup AutoTypes

VARIABLES
    pool,       \* pool entry -> [account, expiresAt]
    esaid,      \* <<account, type>> -> the bound id's data, or None
    idPool,     \* the ledger header's id counter
    created,    \* accounts created so far
    now,        \* the ledger close time
    lastResult  \* the result of the last operation

vars == <<pool, esaid, idPool, created, now, lastResult>>

\* A pool entry's data: fixed when the entry is created.
Data(e) == e

Init ==
    /\ pool = [e \in PoolEntries |-> [account |-> None, expiresAt |-> 0]]
    /\ esaid = [k \in AccountIds \X Types |-> None]
    /\ idPool = 0
    /\ created = {}
    /\ now = 0
    /\ lastResult = "none"

\* ExternalSystemAccountIDPoolEntryHelper::load(type, accountID): the entry
\* bound to the account, expired or not.
BoundEntries(acc, type) ==
    {e \in PoolEntries : PoolTypeOf[e] = type /\ pool[e].account = acc}

\* loadAvailablePoolEntry (not in the sources): an entry of the type that is
\* unbound or whose binding has expired.
AvailableEntries(type) ==
    {e \in PoolEntries : /\ PoolTypeOf[e] = type
                         /\ pool[e].account = None \/ pool[e].expiresAt < now}

\* doCheckValid: auto-generated types cannot be bound from the pool.
DoCheckValid(type) == type \notin AutoTypes

Fail(code) == /\ lastResult' = code
              /\ UNCHANGED <<pool, esaid, idPool, created, now>>

\* doApply binding e to acc without deleting the previous holder's id
\* (mutant).
BindNoDelete(acc, type, e) ==
    LET prev == pool[e].account
    IN  CASE esaid[<<acc, type>>] # None -> Fail("throw")
          [] OTHER ->
               /\ pool' = [pool EXCEPT ![e] = [account |-> acc,
                                               expiresAt |-> now + DayInSeconds]]
               /\ esaid' = [esaid EXCEPT ![<<acc, type>>] = Data(e)]
               /\ lastResult' = "SUCCESS"
               /\ UNCHANGED <<idPool, created, now>>

\* doApply binding the available entry e to acc: the previous holder's id
\* is loaded and deleted (a null frame is dereferenced), the entry is
\* bound for a day, and the id is added for acc (an insert of a key that
\* exists throws).
BindAvailable(acc, type, e) ==
    LET prev == pool[e].account
    IN  CASE prev # None /\ esaid[<<prev, type>>] = None -> Fail("crash")
          [] (IF prev # None THEN [esaid EXCEPT ![<<prev, type>>] = None]
                             ELSE esaid)[<<acc, type>>] # None -> Fail("throw")
          [] OTHER ->
               /\ pool' = [pool EXCEPT ![e] = [account |-> acc,
                                               expiresAt |-> now + DayInSeconds]]
               /\ esaid' = [(IF prev # None
                             THEN [esaid EXCEPT ![<<prev, type>>] = None]
                             ELSE esaid) EXCEPT ![<<acc, type>>] = Data(e)]
               /\ lastResult' = "SUCCESS"
               /\ UNCHANGED <<idPool, created, now>>

\* BindExternalSystemAccountIdOp by acc for type.
Bind(acc, type) ==
    /\ acc \in created
    /\ CASE ~DoCheckValid(type) -> Fail("AUTO_GENERATED_TYPE_NOT_ALLOWED")
         [] BoundEntries(acc, type) # {} ->
              \E e \in BoundEntries(acc, type) :
                 /\ pool' = [pool EXCEPT ![e].expiresAt = now + DayInSeconds]
                 /\ lastResult' = "SUCCESS"
                 /\ UNCHANGED <<esaid, idPool, created, now>>
         [] AvailableEntries(type) = {} -> Fail("NO_AVAILABLE_ID")
         [] OTHER -> \E e \in AvailableEntries(type) : BindAvailable(acc, type, e)

\* generateNewIDs: one header id for the call, shared by every generator;
\* a generator that produces nothing is skipped.
GenerateNewIDs(acc, produced) ==
    [id |-> idPool + 1, ids |-> [t \in produced |-> <<t, idPool + 1>>]]

\* Account creation: the generators of the header run for the new account
\* and their ids are added.
CreateAccount(acc) ==
    /\ acc \notin created
    /\ \E produced \in SUBSET Generators :
          LET g == GenerateNewIDs(acc, produced)
          IN  /\ idPool' = g.id
              /\ esaid' = [k \in DOMAIN esaid |->
                             IF k[1] = acc /\ k[2] \in produced
                             THEN g.ids[k[2]] ELSE esaid[k]]
    /\ created' = created \cup {acc}
    /\ lastResult' = "SUCCESS"
    /\ UNCHANGED <<pool, now>>

\* The next ledger closes.
Tick ==
    /\ now < MaxTime
    /\ now' = now + 1
    /\ UNCHANGED <<pool, esaid, idPool, created, lastResult>>

\* The last close time of the model: nothing more happens.
Done ==
    /\ now = MaxTime
    /\ UNCHANGED vars

Next ==
    \/ \E acc \in AccountIds : CreateAccount(acc)
    \/ \E acc \in AccountIds, type \in Types : Bind(acc, type)
    \/ Tick
    \/ Done

Spec == Init /\ [][Next]_vars

-----------------------------------------------------------------------------
(* Properties                                                              *)

\* Every pool-type id an account holds is the data of the one pool entry
\* bound to it, and every bound entry's account holds it: rebinding an
\* expired entry moves the id from its previous holder, prolonging keeps
\* it, and the load-then-delete at doApply line 74 always finds the row.
BindingsMatchPool ==
    \A acc \in AccountIds, type \in PoolTypes :
        \/ /\ esaid[<<acc, type>>] = None
           /\ BoundEntries(acc, type) = {}
        \/ \E e \in PoolEntries :
              /\ BoundEntries(acc, type) = {e}
              /\ esaid[<<acc, type>>] = Data(e)

=============================================================================
