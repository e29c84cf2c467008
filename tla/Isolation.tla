----------------------------- MODULE Isolation -----------------------------
(***************************************************************************)
(* What the database engines do for transactions that overlap, at the      *)
(* isolation level the code leaves each of them at:                        *)
(*                                                                         *)
(*   postgres  a plain read sees what is committed when it runs; FOR       *)
(*             UPDATE and writes lock the row until the transaction ends   *)
(*   mysql     the same locks, but plain reads see the snapshot of the     *)
(*             first read; a locking read sees the newest row              *)
(*   sqlite    reads see the snapshot of the first read, there is one      *)
(*             writer, and a transaction whose snapshot is out of date     *)
(*             when it first writes fails as busy                          *)
(*                                                                         *)
(* The tables are a function from rows to their contents.                  *)
(***************************************************************************)
CONSTANTS
    Request,    \* the requests in flight, each a transaction
    Nobody      \* no request

VARIABLES
    engine,     \* the database engine
    db,         \* the committed tables
    snapshot,   \* per request, the committed tables at its first read
    behind,     \* requests whose snapshot is older than the last commit
    own,        \* per request, the rows it has written and not committed
    locks       \* which request has a row, or the database, locked

database == <<db, snapshot, behind, own, locks>>

NoRows == [k \in {} |-> k]

-----------------------------------------------------------------------------
\* The rows of f, those of g in place of its own.
Over(f, g) == [k \in DOMAIN f \cup DOMAIN g |-> IF k \in DOMAIN g THEN g[k] ELSE f[k]]

\* What a locking read sees.
Newest(r) == Over(db, own[r])

\* What a plain read sees.
Sees(r) == IF engine = "postgres" THEN Newest(r) ELSE Over(snapshot[r], own[r])

\* The lock for a row: its own, or that of the whole database.
LockFor(row) == IF engine = "sqlite" THEN <<"database">> ELSE row

CanLock(r, row) ==
    /\ locks[LockFor(row)] \in {Nobody, r}
    /\ (engine = "sqlite" /\ locks[<<"database">>] # r) => r \notin behind

Lock(r, row) == locks' = [locks EXCEPT ![LockFor(row)] = r]

Unlocked(r) == [k \in DOMAIN locks |-> IF locks[k] = r THEN Nobody ELSE locks[k]]

-----------------------------------------------------------------------------
BeginTransaction(r) ==
    /\ snapshot' = [snapshot EXCEPT ![r] = IF engine = "postgres" THEN NoRows ELSE db]
    /\ behind' = behind \ {r}
    /\ UNCHANGED <<db, own, locks>>

\* A write under the lock of a row.
Write(r, row, contents) ==
    /\ CanLock(r, row) /\ Lock(r, row)
    /\ own' = [own EXCEPT ![r] = Over(@, contents)]
    /\ UNCHANGED <<db, snapshot, behind>>

\* SELECT ... FOR UPDATE, which sqlite does not have.
LockOnly(r, row) ==
    IF engine = "sqlite" THEN UNCHANGED database
    ELSE CanLock(r, row) /\ Lock(r, row) /\ UNCHANGED <<db, snapshot, behind, own>>

Commit(r) ==
    /\ db' = Newest(r)
    /\ own' = [own EXCEPT ![r] = NoRows]
    /\ snapshot' = [snapshot EXCEPT ![r] = NoRows]
    /\ locks' = Unlocked(r)
    /\ behind' = IF own[r] = NoRows THEN behind ELSE Request \ {r}

Rollback(r) ==
    /\ own' = [own EXCEPT ![r] = NoRows]
    /\ snapshot' = [snapshot EXCEPT ![r] = NoRows]
    /\ locks' = Unlocked(r)
    /\ UNCHANGED <<db, behind>>

\* sqlite: a first write onto an old snapshot fails.
IsBusy(r) == engine = "sqlite" /\ r \in behind /\ locks[<<"database">>] # r

\* postgres and mysql break a circle of two requests that wait for each other: waiting
\* holds the pairs of a request and one whose lock it waits for.
InCircle(r, waiting) ==
    engine # "sqlite" /\ \E q \in Request \ {r} : {<<r, q>>, <<q, r>>} \subseteq waiting
=============================================================================
