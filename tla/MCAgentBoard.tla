---------------------------- MODULE MCAgentBoard ----------------------------
(***************************************************************************)
(* Boards small enough to explore: the tasks, views and configuration the  *)
(* runs give to AgentBoard.                                                *)
(***************************************************************************)
EXTENDS AgentBoard, TLC

CONSTANTS
    t1, t2, t3,              \* tasks
    alice, bob, ci,          \* users; ci is the receipt bot
    board, other,            \* projects
    kanban, second,          \* views
    todo, doing, finished,   \* buckets of the view kanban
    todo2, finished2,        \* buckets of the view second
    srcs, file               \* patterns: a directory and a file in it

TaskRelations == {"subtask", "parenttask", "blocked", "blocking"}
NoRelations   == {}

\* file is under srcs.
Overlapping ==
    {<<p, p>> : p \in Pattern} \cup ({<<srcs, file>>, <<file, srcs>>} \cap (Pattern \X Pattern))

\* One view, kanban, of one project, board.
OneView      == {kanban}
OneProject   == {board}
OneViewBuckets == {todo, doing, finished}
OneViewProjectOf == kanban :> board
OneViewOf    == todo :> kanban @@ doing :> kanban @@ finished :> kanban
OneDefault   == kanban :> todo
OneDone      == kanban :> finished
OneClaim     == kanban :> doing
NoLimit      == [b \in Bucket |-> 0]
LimitDoing   == [b \in Bucket |-> IF b = doing THEN 1 ELSE 0]
NoReceipts   == [p \in Project |-> NoUser]
BoardGatedByCI == [p \in Project |-> IF p = board THEN ci ELSE NoUser]

\* Two projects with a view each; only kanban has a claim bucket.
TwoProjects  == {board, other}
TwoViews     == {kanban, second}
TwoViewBuckets == {todo, doing, finished, todo2, finished2}
TransferProjectOf == kanban :> board @@ second :> other
TwoViewOf    == OneViewOf @@ todo2 :> second @@ finished2 :> second
TwoDefault   == OneDefault @@ second :> todo2
TwoDone      == OneDone @@ second :> finished2
TwoClaim     == OneClaim @@ second :> NoBucket

\* t1 is the parent of t2.
Rel(t, k, o)  == {<<t, k, o>>, <<o, InverseRelation[k], t>>}
SmallFamily   == Rel(t1, "subtask", t2)
RelateThird   == {<<t2, "blocked", t3>>, <<t2, "subtask", t3>>, <<t2, "subtask", t1>>}
RelateBlocker == {<<t1, "blocked", t2>>}

ScopesApart   == {{file}, {srcs}}
NoScopes      == {}
=============================================================================
