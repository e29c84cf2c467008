------------------------------ MODULE PoolBook ------------------------------
(***************************************************************************)
(* What marshal's resource pool promises (comments of pool.go): a worker   *)
(* gets a database and a port nobody else has, in a checkout that is no    *)
(* other worker's, and has them until they are released.                   *)
(***************************************************************************)
CONSTANTS Worker, Task, Checkout, Database, Port

VARIABLE held     \* the allocations

Allocation == [worker : Worker, task : Task, checkout : Checkout, database : Database, port : Port]

Of(w) == {a \in held : a.worker = w}
For(t) == {a \in held : a.task = t}

\* No two allocations can be told from each other's resources.
Apart(a, b) ==
    /\ a.database # b.database /\ a.port # b.port
    /\ a.checkout = b.checkout => a.worker = b.worker
    /\ ~(a.worker = b.worker /\ a.task = b.task)

Init == held = {}

Give(a) ==
    /\ \A b \in held : Apart(a, b)
    /\ held' = held \cup {a}

Free(as) == held' = held \ as

Next ==
    \/ \E a \in Allocation : Give(a)
    \/ \E w \in Worker : Free(Of(w))
    \/ \E t \in Task : Free(For(t))

Spec == Init /\ [][Next]_held
=============================================================================
