---------------------------- MODULE TaskPositions ----------------------------
(***************************************************************************)
(* The positions of the tasks in one view (task_positions), by which every *)
(* list and every column of a board is sorted: drags, tasks that come, end *)
(* and go, a saved filter whose matches change, and the helpers behind     *)
(* them that make room: spreading a conflict, recalculating a whole view,  *)
(* placing a batch on top, healing, the cron, the listener and the repair. *)
(*                                                                         *)
(* A handler holds the lock of the view while it reads and writes, so it   *)
(* is one step.  The background jobs decide before they have the lock what *)
(* they will write: each is two steps, and one of them runs at a time.     *)
(*                                                                         *)
(* Positions are floats from 0.01 to 2^32; here they are the integers from *)
(* MinSpacing to MaxPosition.  Where the code refuses a gap below          *)
(* 0.01 * (n + 1) to n cards, the integers have room for n cards, so       *)
(* rounding down never puts two on one place.                              *)
(***************************************************************************)
EXTENDS Integers, FiniteSets, FiniteSetsExt

CONSTANTS
    Tasks,          \* bound: tasks are 1..Tasks, their ids
    MaxPosition,    \* 2^32
    IndexStep,      \* 2^16: a task that is the first in its view starts at index * 2^16
    FilterIndex,    \* the index of a task in its own project, where a filter meets it
    DragTo,         \* positions clients ask for
    Explicit,       \* positions an importer or a client gives tasks it creates
    Legacy          \* positions rows may have when the model begins, ties included

Task == 1..Tasks

ASSUME PositionAssumption ==
    /\ Tasks \in Nat \ {0} /\ IndexStep \in Nat \ {0}
    \* A recalculated view has room for another batch on top.
    /\ MaxPosition \in Nat /\ MaxPosition >= Tasks * (Tasks + 1)
    /\ FilterIndex \in [Task -> Nat \ {0}]
    /\ DragTo \subseteq Nat
    /\ Explicit \subseteq Nat \ {0}
    /\ Legacy \subseteq Nat \ {0}

MinSpacing == 1

\* No row: such a task sorts after all that have one (NULLS LAST).
NoRow == -1

Kinds == {"kanban", "list", "filter"}

Idle == [name |-> "idle", tasks |-> {}, at |-> 0]

VARIABLES
    kind,       \* a project's manual board or its list, or the board of a filter with a date
    member,     \* tasks of the project, or those the filter matches
    pos,        \* rows of task_positions for this view
    done,       \* tasks in the view's done bucket
    job         \* the background job under way and what it found before it locked the view

vars == <<kind, member, pos, done, job>>

Rows(p) == {t \in Task : p[t] # NoRow}
TiedAt(p, at) == {t \in Task : p[t] = at}

-----------------------------------------------------------------------------
(* Order, and the two ways to make room.                                   *)

\* "position asc, id asc".
SortsBefore(p, x, y) ==
    \/ p[x] = p[y] /\ x < y
    \/ p[x] # NoRow /\ (p[y] = NoRow \/ p[x] < p[y])

ById(S, t) == Cardinality({x \in S : x < t}) + 1

\* Mutant of Rank: the rows come back in the order of their ids.
RankById(p, S, t) == ById(S, t)

Rank(p, S, t) == Cardinality({x \in S : SortsBefore(p, x, t)}) + 1

\* The tasks of S, evenly, in the order they have; no others keep a row.
Spread(p, S) ==
    [t \in Task |-> IF t \in S THEN (MaxPosition * Rank(p, S, t)) \div Cardinality(S) ELSE NoRow]

\* Mutant of Recalculated: only what has a row already.
RecalculatedKnown(p, found) == Spread(p, Rows(p))

\* RecalculateTaskPositions: what a search of the view finds gets new rows.
Recalculated(p, found) == IF found = {} THEN p ELSE Spread(p, found)

\* recalculateTaskPositionsForRepair: only what has a row.
Repaired(p) == Spread(p, Rows(p))

LowerBound(p, at) == Max({0} \cup {q \in {p[t] : t \in Rows(p)} : q < at})
UpperBound(p, at) == LET right == {q \in {p[t] : t \in Rows(p)} : q > at}
                     IN  IF right = {} THEN MaxPosition ELSE Min(right)

\* resolveTaskPositionConflicts, with what its callers do when there is no room.  Both
\* bounds are exclusive; a task of the group that has lost its row gets none.
Resolved(p, group, at) ==
    LET n == Cardinality(group) + 1
        lower == LowerBound(p, at)
        gap == UpperBound(p, at) - lower
    IN  IF gap < MinSpacing * n
        THEN Repaired(p)
        ELSE [t \in Task |-> IF t \in group \cap Rows(p)
                             THEN lower + (gap * ById(group, t)) \div n
                             ELSE p[t]]

\* findPositionConflicts, and what follows.
WithoutConflict(p, at) ==
    IF Cardinality(TiedAt(p, at)) > 1 THEN Resolved(p, TiedAt(p, at), at) ELSE p

\* Mutant of Placed: the row is written and nobody looks who is there.
PlacedBlindly(p, found, t, at) ==
    LET q == [p EXCEPT ![t] = at] IN IF at < MinSpacing THEN Recalculated(q, found) ELSE q

\* updateTaskPosition.
Placed(p, found, t, at) ==
    LET q == [p EXCEPT ![t] = at]
    IN  IF at < MinSpacing THEN Recalculated(q, found) ELSE WithoutConflict(q, at)

-----------------------------------------------------------------------------
(* Placing new tasks on top of the view.                                   *)

\* A new row is worth what the request asks for, 0 if it asks for nothing.
Wanting(asked) == {t \in DOMAIN asked : asked[t] = 0}

Index(t) == IF kind = "filter" THEN FilterIndex[t] ELSE t

\* defaultPositionsForEmptyView: indexes of tasks of several projects may collide.
InEmptyView(batch) ==
    IF \E x, y \in batch : x # y /\ Index(x) = Index(y)
    THEN [t \in batch |-> ById(batch, t) * IndexStep]
    ELSE [t \in batch |-> Index(t) * IndexStep]

Lowest(p) == Min({p[t] : t \in Rows(p)})

\* calculateNewPositionsForTasks, the rows it leaves: when there is no room on top the
\* view is recalculated, and the rows that gave the batch are dropped again.
RoomOnTop(p, found, asked) ==
    IF Wanting(asked) # {} /\ Rows(p) # {} /\ Lowest(p) < MinSpacing * (Cardinality(Wanting(asked)) + 1)
    THEN [t \in Task |-> IF t \in DOMAIN asked \ Rows(p) THEN NoRow ELSE Recalculated(p, found)[t]]
    ELSE p

\* ... and the positions it answers with, from those rows.
OnTop(p, asked) ==
    LET needDefault == Wanting(asked)
    IN  [t \in DOMAIN asked |->
            IF asked[t] # 0 THEN asked[t]
            ELSE IF Rows(p) = {} THEN InEmptyView(needDefault)[t]
            ELSE (Lowest(p) * ById(needDefault, t)) \div (Cardinality(needDefault) + 1)]

\* bulkInsertTaskPositions without overwrite: a row that is there stays.
Inserted(p, new) == [t \in Task |-> IF t \in DOMAIN new \ Rows(p) THEN new[t] ELSE p[t]]

\* resolvePositionConflictsAfterInsert.
AllResolved(p, new) ==
    LET upTo[t \in 0..Tasks] ==
           IF t = 0 THEN p
           ELSE IF t \in DOMAIN new THEN WithoutConflict(upTo[t - 1], new[t])
           ELSE upTo[t - 1]
    IN  upTo[Tasks]

\* filterNewTaskPositions, the insert and the conflicts it leaves.
Added(p, new) ==
    LET fresh == [t \in DOMAIN new \ Rows(p) |-> new[t]] IN AllResolved(Inserted(p, fresh), fresh)

\* calculateDefaultPosition of the stored position.
Kept(p, t) == IF p[t] = NoRow THEN Index(t) * IndexStep ELSE p[t]

\* Mutant of TopOfDone: the card keeps the place it had in the queue.
KeptInDone(p, t) == Kept(p, t)

\* Where a card goes that enters the done bucket: half of lowestPositionInBucket.
TopOfDone(p, t) ==
    LET others == {p[x] : x \in (done \ {t}) \cap Rows(p)}
    IN  IF others = {} THEN Kept(p, t) ELSE Min(others) \div 2

-----------------------------------------------------------------------------
(* The handlers, each one transaction that holds the lock of the view.     *)

\* A project's view shows the project's tasks; a filter's may lag behind its filter.
Init ==
    /\ kind \in Kinds
    /\ member \in SUBSET Task
    /\ pos \in [Task -> Legacy \cup {NoRow}]
    /\ done \in SUBSET member
    /\ kind = "kanban" => Rows(pos) = member
    /\ kind = "list" => Rows(pos) \subseteq member /\ done = {}
    /\ kind = "filter" => done = {} /\ member # {}
    /\ job = Idle

\* TaskPosition.Update.
Drag(t, at) ==
    /\ t \in member
    /\ UNCHANGED <<kind, member, done, job>>
    /\ pos' = Placed(pos, member, t, at)

\* moveTaskToDoneBuckets of a task that enters the done bucket.
Finish(t) ==
    /\ kind = "kanban" /\ t \in member \ done
    /\ done' = done \cup {t}
    /\ pos' = Placed(pos, member, t, TopOfDone(pos, t))
    /\ UNCHANGED <<kind, member, job>>

\* The same of one that leaves it or is in it already, and moveTaskToDefaultBuckets.
Reopen(t) ==
    /\ kind = "kanban" /\ t \in member
    /\ done' \in {done, done \ {t}}
    /\ pos' = Placed(pos, member, t, Kept(pos, t))
    /\ UNCHANGED <<kind, member, job>>

\* A drag to another column, here or in another view of the project, moves no position.
ChangeColumn(t) ==
    /\ kind = "kanban" /\ t \in member
    /\ done' = IF t \in done THEN done \ {t} ELSE done \cup {t}
    /\ UNCHANGED <<kind, member, pos, job>>

\* createTasks: one of them may be created in the done bucket.
Create(asked, finished) ==
    LET batch == DOMAIN asked
        found == member \cup batch
        before == IF finished = {} THEN pos
                  ELSE LET t == CHOOSE x \in finished : TRUE IN Placed(pos, found, t, TopOfDone(pos, t))
        rows == RoomOnTop(before, found, asked)
    IN  /\ kind # "filter" /\ batch # {} /\ batch \cap member = {}
        /\ finished # {} => kind = "kanban"
        /\ member' = found
        /\ done' = done \cup finished
        /\ pos' = Added(rows, OnTop(rows, asked))
        /\ UNCHANGED <<kind, job>>

\* updateSingleTask with another project and the position the request has, as its boards
\* see it and as its lists do.  A search of the project does not find the task yet.
TransferIn(t, at) ==
    LET asked == [x \in {t} |-> at]
        rows == RoomOnTop(pos, member, asked)
    IN  /\ kind # "filter" /\ t \notin member
        /\ member' = member \cup {t}
        /\ pos' = IF kind = "kanban" THEN Placed(rows, member, t, OnTop(rows, asked)[t]) ELSE pos
        /\ done' \in IF kind = "kanban" THEN {done, done \cup {t}} ELSE {done}
        /\ UNCHANGED <<kind, job>>

\* Task.Delete, and a task that leaves the project: its rows go in every view.
Leave(t) ==
    /\ t \in member /\ (kind = "filter" => member # {t})
    /\ member' = member \ {t}
    /\ done' = done \ {t}
    /\ pos' = [pos EXCEPT ![t] = NoRow]
    /\ UNCHANGED <<kind, job>>

\* syncManualKanbanBuckets.  Of the buckets only this is known here: a task without a
\* row came while the view was a list, and has none.
BecomeKanban ==
    /\ kind = "list" /\ kind' = "kanban"
    /\ pos' \in {Recalculated(pos, member)} \cup (IF member \subseteq Rows(pos) THEN {pos} ELSE {})
    /\ UNCHANGED <<member, done, job>>

BecomeList ==
    /\ kind = "kanban" /\ kind' = "list"
    /\ UNCHANGED <<member, pos, done, job>>

\* SavedFilter.Update recalculates when a match has no bucket, which is not known here.
EditFilter(matching) ==
    /\ kind = "filter" /\ matching # {}
    /\ member' = matching
    /\ pos' \in {pos, Recalculated(pos, matching)}
    /\ UNCHANGED <<kind, done, job>>

\* Tasks change, or time passes, and one more or one less matches the filter.
Match(t) ==
    /\ kind = "filter"
    /\ member' = IF t \in member THEN member \ {t} ELSE member \cup {t}
    /\ member' # {}
    /\ UNCHANGED <<kind, pos, done, job>>

-----------------------------------------------------------------------------
(* The background jobs: what they read before the lock, what they write    *)
(* under it.                                                               *)

\* ensureTaskPositionsForSavedFilterView, before every page of a filter's view.
HealRead ==
    /\ job = Idle /\ kind = "filter" /\ ~ (member \subseteq Rows(pos))
    /\ job' = [name |-> "heal", tasks |-> member \ Rows(pos), at |-> 0]
    /\ UNCHANGED <<kind, member, pos, done>>

\* updateTasksInSavedFilterViews of a task that was just created or changed.  It has the
\* task as the event carries it, with the position the request asked for.
ListenerRead(t, at) ==
    /\ job = Idle /\ kind = "filter" /\ t \in member \ Rows(pos)
    /\ job' = [name |-> "listener", tasks |-> {t}, at |-> at]
    /\ UNCHANGED <<kind, member, pos, done>>

\* RegisterAddTaskToFilterViewCron: tasks that left the filter and are in a bucket still
\* (which ones is not known here), and whether any match has no row.
CronRead ==
    /\ job = Idle /\ kind = "filter"
    /\ \E stale \in SUBSET (Task \ member) :
          job' = [name |-> IF member \subseteq Rows(pos) THEN "cron" ELSE "recalculation",
                  tasks |-> stale, at |-> 0]
    /\ UNCHANGED <<kind, member, pos, done>>

\* RepairTaskPositions: one of the groups findDuplicatesInPositions finds.
RepairRead(at) ==
    /\ job = Idle /\ Cardinality(TiedAt(pos, at)) > 1
    /\ job' = [name |-> "repair", tasks |-> TiedAt(pos, at), at |-> at]
    /\ UNCHANGED <<kind, member, pos, done>>

AddWrite ==
    LET asked == [t \in job.tasks |-> job.at]
        rows == RoomOnTop(pos, member, asked)
    IN  /\ job.name \in {"heal", "listener"} /\ job' = Idle
        /\ pos' = Inserted(rows, OnTop(rows, asked))
        /\ UNCHANGED <<kind, member, done>>

CronWrite ==
    LET kept == [t \in Task |-> IF t \in job.tasks THEN NoRow ELSE pos[t]]
    IN  /\ job.name \in {"cron", "recalculation"} /\ job' = Idle
        /\ pos' = IF job.name = "cron" THEN kept ELSE Recalculated(kept, member)
        /\ UNCHANGED <<kind, member, done>>

RepairWrite ==
    /\ job.name = "repair" /\ job' = Idle
    /\ pos' = Resolved(pos, job.tasks, job.at)
    /\ UNCHANGED <<kind, member, done>>

\* A batch, at most one of whose tasks asks for a position.
Asked == UNION {{[t \in batch |-> IF t = x THEN at ELSE 0] : x \in batch, at \in Explicit \cup {0}} :
                batch \in SUBSET Task \ {{}}}

Next ==
    \/ \E t \in Task :
          \/ \E at \in DragTo : Drag(t, at)
          \/ Finish(t) \/ Reopen(t) \/ ChangeColumn(t)
          \/ Leave(t) \/ Match(t)
          \/ \E at \in Explicit \cup {0} : TransferIn(t, at) \/ ListenerRead(t, at)
    \/ \E asked \in Asked : Create(asked, {}) \/ \E t \in DOMAIN asked : Create(asked, {t})
    \/ \E matching \in SUBSET Task : EditFilter(matching)
    \/ \E t \in Rows(pos) : RepairRead(pos[t])
    \/ BecomeKanban \/ BecomeList
    \/ HealRead \/ CronRead
    \/ AddWrite \/ CronWrite \/ RepairWrite

Spec == Init /\ [][Next]_vars

\* A job that has begun ends, and the cron comes every minute: what can keep it from its
\* turn for ever is only the model's one job at a time, so it gets strong fairness.
FairSpec ==
    /\ Spec
    /\ WF_vars(AddWrite \/ CronWrite \/ RepairWrite)
    /\ SF_vars(CronRead)

-----------------------------------------------------------------------------
(* Properties.                                                             *)

\* Two jobs act on what is no longer so.  Between the repair's reading and its lock one
\* of the cards it found was moved or another came: it moves them, wherever they are by
\* now.  Tasks the cron found outside the filter match again: their rows go, and a
\* recalculation puts them last.
StaleRepair == job.name = "repair" /\ job' = Idle /\ TiedAt(pos, job.at) # job.tasks
StaleCron == job.name = "recalculation" /\ job' = Idle /\ job.tasks \cap member # {}

\* Rows of tasks that do not match (any more) are seen by nobody.
Shown == member \cap Rows(pos)

\* The order somebody gave the cards of a view stays: whatever a step does to make room,
\* at most one card changes its place among the others, and of the others no two swap or
\* fall together.  Only the two stale jobs do otherwise.  (updateTaskPosition, RecalculateTaskPositions,
\* resolveTaskPositionConflicts and everything that calls them.)
OrderIsKept ==
    [][StaleRepair \/ StaleCron \/ \E moved \in Task :
          \A x, y \in (Shown \cap Shown') \ {moved} : pos[x] < pos[y] => pos'[x] < pos'[y]]_pos

\* No step puts two cards on one place, as the repair command is there to undo, but for
\* the listener with a position the request asked for, which it does not compare with the
\* rows of the filter's view.  (findPositionConflicts, filterNewTaskPositions.)
NoNewTies ==
    [][\/ StaleRepair
       \/ job.name = "listener" /\ job.at # 0 /\ job' = Idle
       \/ \A x, y \in Rows(pos)' : x # y /\ pos'[x] = pos'[y] => pos[x] = pos[y] /\ pos[x] # NoRow]_pos

Above(t, x) == x \in Rows(pos)' => t \in Rows(pos)' /\ pos'[t] < pos'[x]
Below(t, x) == x \in Rows(pos)' => t \in Rows(pos)' /\ pos'[x] < pos'[t]

\* A card lands where it was put, however much the view is rearranged for it: a dragged
\* one between its neighbours, a finished one above all the done bucket had, a new one and
\* one a filter finds above the whole view, unless another is finished along with it.
\* (moveTaskToDoneBuckets, calculateNewPositionsForTasks, refresh.)
CardsLand ==
    [][/\ \A t \in Task, at \in DragTo : Drag(t, at) =>
              \A x \in Rows(pos) \ {t} : (pos[x] < at => Below(t, x)) /\ (pos[x] > at => Above(t, x))
       /\ \A t \in Task : Finish(t) => \A x \in (done \cap Rows(pos)) \ {t} : Above(t, x)
       /\ \A asked \in Asked : Create(asked, {}) =>
              \A t \in Wanting(asked), x \in Rows(pos) : Above(t, x)
       /\ AddWrite /\ job.at = 0 =>
              \A t \in job.tasks \ Rows(pos), x \in Shown : Above(t, x)]_vars

\* Nothing stays without a place.  On a board every card has one at any time, however it
\* came there; in a filter's view what goes on matching gets one and keeps it, even though
\* a job that read before may take it away or leave it out once.  (createTasks,
\* updateSingleTask, syncManualKanbanBuckets; RegisterAddTaskToFilterViewCron.)
CardsArePlaced ==
    /\ [](kind = "kanban" => member \subseteq Rows(pos))
    /\ \A t \in Task : <>[](kind = "filter" /\ t \in member) => <>[](pos[t] # NoRow)
=============================================================================
