------------------------------- MODULE MCPool -------------------------------
(***************************************************************************)
(* Two processes, the tasks of one story sharing a checkout, and fewer     *)
(* resources than there are workers and tasks.                             *)
(***************************************************************************)
EXTENDS Pool, TLC

CONSTANTS
    serve, shell,    \* a goroutine of the service and a command
    ann, bot,        \* workers
    t1, t2,          \* tasks
    tree1, tree2,    \* checkouts
    db1, db2         \* databases

Owner == [c \in Caller |-> c]

\* The command was started before a port was added to the configuration.
Listed == [c \in Caller |-> [databases |-> <<db1, db2>>,
                             ports |-> IF c = shell THEN <<1>> ELSE <<1, 2>>]]

OneTree == [t \in Task |-> tree1]
TwoTrees == t1 :> tree1 @@ t2 :> tree2
=============================================================================
