----------------------------- MODULE AgentBoard -----------------------------
(***************************************************************************)
(* The agent board of pkg/models: tasks in the buckets of kanban views,    *)
(* claimed by assigning a user and leasing the files the task's scope      *)
(* owns, finished through a done bucket or the done flag, behind the       *)
(* receipt gate.                                                           *)
(*                                                                         *)
(* One action per request handler, each a whole database transaction: a    *)
(* refusal rolls everything back, so a refused request is no step at all.  *)
(* What happens when transactions overlap is the subject of RequestRace.   *)
(* The board implements LeaseBook (ImplementsLeaseBook of TaskPathLease).  *)
(*                                                                         *)
(* The variables are the tables.  A handler that runs another one composes *)
(* operators that take the tables it has changed so far ("tabs").          *)
(***************************************************************************)
EXTENDS TaskPathLease, TaskRelation

CONSTANTS
    View,             \* manual kanban views
    Bucket,           \* their buckets
    NoUser, NoBucket, \* the id 0 of a user and of a bucket
    ProjectOf,        \* the project of a view
    ViewOf,           \* the view of a bucket
    DefaultBucket,    \* default_bucket_id of a view, or NoBucket
    LeftmostBucket,   \* the first bucket of a view by position
    DoneBucket,       \* done_bucket_id of a view, or NoBucket
    ClaimBucket,      \* claim_bucket_id of a view, or NoBucket
    Limit,            \* the task limit of a bucket; 0 is none
    ReceiptBot,       \* receipt_bot_id of a project, or NoUser
    Repeating,        \* tasks with a repeat setting
    Ops,              \* tasks labelled veans:ops
    AutoComplete      \* service.autocompleteparenttasks

VARIABLES
    status,      \* tasks: not created yet, on the board, in the bin, or gone
    project,     \* tasks.project_id
    done,        \* tasks.done
    rows,        \* task_buckets: where a task is in a view and who moved it there
    assignees,   \* task_assignees
    scope,       \* task_scopes.paths_owned; {} also when there is no scope
    receipt      \* task_receipts: a merged and passing one exists


\* Bounds on what the requests contain.
CONSTANTS
    Seed,             \* tasks on the board at the start, the others may be created
    SeedProject,      \* the project the seeded tasks start in
    SeedRelations,    \* relations at the start
    RelationInputs,   \* relations that requests create and delete
    ScopeInputs,      \* sets of paths_owned that requests write
    ClaimTargets,     \* buckets that clients pass to POST /claim
    MoveTargets       \* projects that tasks are moved to

BucketsIn(v) == {b \in Bucket : ViewOf[b] = v}

ManualViews(p) == {v \in View : ProjectOf[v] = p}

\* getDefaultBucketID: the configured default, else the leftmost bucket.
Default(v) == IF DefaultBucket[v] # NoBucket THEN DefaultBucket[v] ELSE LeftmostBucket[v]

\* The done bucket is none of the others and takes any number of tasks; the
\* buckets a view names are its own.
ASSUME BoardAssumption ==
    /\ NoUser \notin User /\ NoBucket \notin Bucket
    /\ ProjectOf \in [View -> Project] /\ ViewOf \in [Bucket -> View]
    /\ LeftmostBucket \in [View -> Bucket]
    /\ Limit \in [Bucket -> Nat]
    /\ ReceiptBot \in [Project -> User \cup {NoUser}]
    /\ \A v \in View :
          /\ DefaultBucket[v] \in BucketsIn(v) \cup {NoBucket}
          /\ DoneBucket[v] \in BucketsIn(v) \cup {NoBucket}
          /\ ClaimBucket[v] \in BucketsIn(v) \cup {NoBucket}
          /\ LeftmostBucket[v] \in BucketsIn(v)
          /\ DoneBucket[v] # NoBucket =>
                /\ DoneBucket[v] \notin {Default(v), ClaimBucket[v]}
                /\ Limit[DoneBucket[v]] = 0
    /\ Repeating \subseteq Task /\ Ops \subseteq Task /\ AutoComplete \in BOOLEAN
    /\ Seed \subseteq Task /\ SeedProject \in Project /\ MoveTargets \subseteq Project
    /\ \A k \in RelationKind : InverseRelation[k] \in RelationKind
    /\ SeedRelations \subseteq Row /\ RelationInputs \subseteq Row
    /\ \A r \in SeedRelations : <<r[3], InverseRelation[r[2]], r[1]>> \in SeedRelations
    /\ \A k \in RelationKind \cap AcyclicKinds :
          LET edges == EdgesIn(SeedRelations, k) IN \A e \in edges : ~Reaches(edges, e[2], e[1])
    /\ ScopeInputs \subseteq SUBSET Pattern /\ ClaimTargets \subseteq Bucket

boardVars == <<status, project, done, rows, assignees, scope, receipt>>
vars == <<boardVars, relations, leases>>

NoRow == [bucket |-> NoBucket, movedBy |-> NoUser]
NoRows == [v \in View |-> NoRow]
BucketRow == [bucket : Bucket \cup {NoBucket}, movedBy : User \cup {NoUser}]

Live == {t \in Task : status[t] = "live"}

-----------------------------------------------------------------------------
(* What the handlers ask of the tables.                                    *)

\* Mutant of UnfinishedBlockers: only subtasks count.
OpenSubtasks(t, finished) == (Related(t, {"subtask"}) \cap Live) \ finished

\* unfinishedBlockers, when the tasks in "finished" are the done ones.
UnfinishedBlockers(t, finished) == (Related(t, BlockingKinds) \cap Live) \ finished

DoneTasks == {t \in Task : done[t]}

Subtasks(t) == Related(t, {"subtask"})

\* A task with subtasks, all of them done.
IsCompleteContainer(t) ==
    Subtasks(t) # {} /\ (Subtasks(t) \cap Live) \subseteq DoneTasks

\* Mutant of DoneAllowed: no submitter rule.
ReceiptIsEnough(u, t, moved) ==
    \/ ReceiptBot[project[t]] = NoUser
    \/ IsCompleteContainer(t)
    \/ t \in Ops
    \/ receipt[t]

\* checkDoneAllowed: the receipt gate.  moved is the set of bucket rows the
\* submitter rule looks at.
DoneAllowed(u, t, moved) ==
    LET bot == ReceiptBot[project[t]]
    IN  \/ bot = NoUser
        \/ IsCompleteContainer(t)
        \/ t \in Ops
        \/ receipt[t] /\ (u = bot \/ \A r \in moved : r.movedBy # u)

RowsOf(t) == {rows[t][v] : v \in View}

TasksIn(b) == {t \in Task : rows[t][ViewOf[b]].bucket = b}

\* Mutant of HasRoom: one too many.
HasRoomForOneMore(b) == Limit[b] = 0 \/ Cardinality(TasksIn(b)) <= Limit[b]

HasRoom(b) == Limit[b] = 0 \/ Cardinality(TasksIn(b)) < Limit[b]

-----------------------------------------------------------------------------
(* Finishing: what follows when a task is marked done.                     *)

\* Mutant of ClosingParents: it does not walk up the tree.
DirectParents(t) ==
    {q \in (Live \ DoneTasks) \ Repeating :
       /\ AutoComplete /\ <<t, "parenttask", q>> \in relations
       /\ (Subtasks(q) \cap Live) \subseteq DoneTasks \cup {t}}

\* completeParentsIfSubtasksDone: the least set of open parents, up the tree,
\* left without an open subtask once t is done.
ClosingParents(t) ==
    LET closes(S) ==
          {q \in (Live \ DoneTasks) \ Repeating :
             /\ \E x \in S \cup {t} : <<x, "parenttask", q>> \in relations
             /\ (Subtasks(q) \cap Live) \subseteq DoneTasks \cup S \cup {t}}
    IN  IF AutoComplete
        THEN {q \in Task : \A S \in SUBSET Task : closes(S) \subseteq S => q \in S}
        ELSE {}

DoneViews(p) == {v \in ManualViews(p) : DoneBucket[v] # NoBucket}

InDoneBucket(u, v) == [bucket |-> DoneBucket[v], movedBy |-> u]

\* The rows of a parent the server closed: moved where not already there.
ParentRows(u, q) ==
    [v \in View |-> IF v \in DoneViews(project[q]) /\ rows[q][v].bucket # DoneBucket[v]
                    THEN InDoneBucket(u, v) ELSE rows[q][v]]

\* The rows of the task itself: every view with a done bucket records the mover.
FinishedRows(u, t, own) ==
    [v \in View |-> IF v \in DoneViews(project[t]) THEN InDoneBucket(u, v) ELSE own[v]]

\* Mutant of Finished: the parents that close keep their leases.
FinishedAlone(u, t) ==
    LET closed == ClosingParents(t)
    IN  [done   |-> [x \in Task |-> done[x] \/ x = t \/ x \in closed],
         rows   |-> [x \in Task |-> IF x = t THEN FinishedRows(u, t, rows[t])
                                    ELSE IF x \in closed THEN ParentRows(u, x)
                                    ELSE rows[x]],
         leases |-> ReleasedBy(leases, {t})]

\* The tables after u finished t through a done bucket (applyDoneBucketTransition
\* and propagateTaskDone).
Finished(u, t) ==
    LET closed == ClosingParents(t)
    IN  [done   |-> [x \in Task |-> done[x] \/ x = t \/ x \in closed],
         rows   |-> [x \in Task |-> IF x = t THEN FinishedRows(u, t, rows[t])
                                    ELSE IF x \in closed THEN ParentRows(u, x)
                                    ELSE rows[x]],
         leases |-> ReleasedBy(leases, closed \cup {t})]

-----------------------------------------------------------------------------
(* Entering buckets: updateTaskBucket, in the views that "target" maps to  *)
(* the bucket to enter.                                                    *)

Entering(current, target) == {v \in DOMAIN target : current[v].bucket # target[v]}

RoomFor(current, target) == \A v \in Entering(current, target) : HasRoom(target[v])

MovedRows(u, current, target) ==
    [v \in View |-> IF v \in DOMAIN target /\ v \in Entering(current, target)
                    THEN [bucket |-> target[v], movedBy |-> u] ELSE current[v]]

EntersClaimBucket(current, target) ==
    \E v \in Entering(current, target) : target[v] = ClaimBucket[v]

\* claimOnBucketEntry: who comes to hold the task, and when the move is allowed.
Holder(u, who) == IF Cardinality(who) = 1 THEN CHOOSE a \in who : TRUE ELSE u

AssignedOnEntry(u, who) == IF who = {} THEN {u} ELSE who

\* Mutant of EntryAllowed: nobody else's leases are looked at.
EntryUnlessBlocked(u, t, who, tabs) ==
    /\ UnfinishedBlockers(t, {x \in Task : tabs.done[x]}) = {}
    /\ Cardinality(who) > 1 => u \in who

EntryAllowed(u, t, who, tabs) ==
    /\ UnfinishedBlockers(t, {x \in Task : tabs.done[x]}) = {}
    /\ Cardinality(who) > 1 => u \in who
    /\ scope[t] # {} => Conflicting(tabs.leases, project[t], t, scope[t]) = {}

\* Leases after the holder of t took its scope, if it has one.
TakenBy(tabs, t, holder) ==
    Touched(IF scope[t] = {} THEN tabs.leases
            ELSE Acquired(tabs.leases, t, project[t], holder, scope[t]), t, holder)

-----------------------------------------------------------------------------
(* One task, one view: the tables after updateTaskBucket moved t to b.     *)

To(v, b) == [x \in {v} |-> b]

Finishes(t, v, b) == b = DoneBucket[v] /\ rows[t][v].bucket # b /\ ~done[t]

\* Mutant of LeavesDone: leaving the done bucket does not reopen.
StaysDone(t, v, b) == FALSE

LeavesDone(t, v, b) ==
    /\ rows[t][v].bucket # b
    /\ DoneBucket[v] # NoBucket /\ rows[t][v].bucket = DoneBucket[v]

\* A repeating task is routed on to the default bucket, and stays open.
RestingPlace(t, v, b) ==
    IF Finishes(t, v, b) /\ t \in Repeating
    THEN IF DefaultBucket[v] # NoBucket THEN DefaultBucket[v] ELSE rows[t][v].bucket
    ELSE b

MovedTables(u, t, v, b) ==
    IF Finishes(t, v, b) /\ t \notin Repeating
    THEN Finished(u, t)
    ELSE [done   |-> [done EXCEPT ![t] = @ /\ ~LeavesDone(t, v, b)],
          rows   |-> [rows EXCEPT ![t] = MovedRows(u, @, To(v, RestingPlace(t, v, b)))],
          leases |-> leases]

MoveAllowed(u, t, v, b) ==
    /\ v \in ManualViews(project[t]) /\ b \in BucketsIn(v)
    /\ RoomFor(rows[t], To(v, b))
    /\ Finishes(t, v, b) => DoneAllowed(u, t, {rows[t][v]})

-----------------------------------------------------------------------------
(* The handlers.                                                           *)

\* Dragging a card, or a v1/v2 bucket move.
MoveToBucket(u, t, v, b) ==
    /\ t \in Live
    /\ MoveAllowed(u, t, v, b)
    /\ LET moved  == MovedTables(u, t, v, b)
           enters == EntersClaimBucket(rows[t], To(v, b))
       IN  /\ enters => EntryAllowed(u, t, assignees[t], moved)
           /\ done' = moved.done /\ rows' = moved.rows
           /\ assignees' = [assignees EXCEPT ![t] = IF enters THEN AssignedOnEntry(u, @) ELSE @]
           /\ leases' = IF enters THEN TakenBy(moved, t, Holder(u, assignees[t]))
                        ELSE moved.leases
    /\ UNCHANGED <<status, project, scope, receipt, relations>>

\* POST /claim.  expected is the optional compare-and-swap guard.
ClaimTask(u, t, v, b, expected) ==
    /\ t \in Live
    /\ assignees[t] \subseteq {u}
    /\ (u \notin assignees[t] \/ rows[t][v].bucket # b)
          => expected \in {NoBucket, rows[t][v].bucket}
    /\ MoveAllowed(u, t, v, b)
    /\ LET moved == MovedTables(u, t, v, b)
       IN  /\ EntryAllowed(u, t, assignees[t], moved)
           /\ done' = moved.done /\ rows' = moved.rows
           /\ leases' = TakenBy(moved, t, u)
    /\ assignees' = [assignees EXCEPT ![t] = {u}]
    /\ UNCHANGED <<status, project, scope, receipt, relations>>

\* An update that changes neither the done flag nor the project; "who" is the
\* list of assignees in the payload.
EditTask(u, t, who) ==
    /\ t \in Live
    /\ assignees' = [assignees EXCEPT ![t] = who]
    /\ leases' = Touched(leases, t, u)
    /\ UNCHANGED <<status, project, done, rows, scope, receipt, relations>>

\* An update that sets the done flag of a task that does not repeat.  The gate
\* looks at the rows of every view.  Where a done bucket can be entered the task
\* is finished by entering it; otherwise only its flag and its leases change.
MarkDone(u, t, who) ==
    /\ t \in Live /\ ~done[t] /\ t \notin Repeating
    /\ DoneAllowed(u, t, RowsOf(t))
    /\ assignees' = [assignees EXCEPT ![t] = who]
    /\ LET enters == \E v \in DoneViews(project[t]) : rows[t][v].bucket # DoneBucket[v]
           tabs   == IF enters THEN Finished(u, t)
                     ELSE [done |-> [done EXCEPT ![t] = TRUE], rows |-> rows,
                           leases |-> ReleasedBy(leases, {t})]
       IN  done' = tabs.done /\ rows' = tabs.rows /\ leases' = tabs.leases
    /\ UNCHANGED <<status, project, scope, receipt, relations>>

\* The same update of a repeating task: it goes to the default bucket of every
\* view that names one and stays open.
CompleteOccurrence(u, t, who) ==
    LET target == [v \in {x \in ManualViews(project[t]) : DefaultBucket[x] # NoBucket}
                     |-> DefaultBucket[v]]
        tabs   == [done |-> done, rows |-> [rows EXCEPT ![t] = MovedRows(u, @, target)],
                   leases |-> ReleasedBy(leases, {t})]
        enters == EntersClaimBucket(rows[t], target)
    IN  /\ t \in Live /\ ~done[t] /\ t \in Repeating
        /\ DoneAllowed(u, t, RowsOf(t))
        /\ RoomFor(rows[t], target)
        /\ enters => EntryAllowed(u, t, who, tabs)
        /\ rows' = tabs.rows
        /\ assignees' = [assignees EXCEPT ![t] = IF enters THEN AssignedOnEntry(u, who) ELSE who]
        /\ leases' = IF enters THEN TakenBy(tabs, t, Holder(u, who)) ELSE tabs.leases
        /\ UNCHANGED <<status, project, done, scope, receipt, relations>>

\* An update that clears the done flag: out of the done buckets, into the default
\* ones.  A task that repeats keeps its rows.
MarkUndone(u, t, who) ==
    LET target == [v \in {x \in ManualViews(project[t]) :
                            t \notin Repeating /\ rows[t][x].bucket = DoneBucket[x]}
                     |-> Default(v)]
        tabs   == [done |-> [done EXCEPT ![t] = FALSE],
                   rows |-> [rows EXCEPT ![t] = MovedRows(u, @, target)],
                   leases |-> Touched(leases, t, u)]
        enters == EntersClaimBucket(rows[t], target)
    IN  /\ t \in Live /\ done[t]
        /\ RoomFor(rows[t], target)
        /\ enters => EntryAllowed(u, t, who, tabs)
        /\ done' = tabs.done /\ rows' = tabs.rows
        /\ assignees' = [assignees EXCEPT ![t] = IF enters THEN AssignedOnEntry(u, who) ELSE who]
        /\ leases' = IF enters THEN TakenBy(tabs, t, Holder(u, who)) ELSE tabs.leases
        /\ UNCHANGED <<status, project, scope, receipt, relations>>

\* Mutant of Transferred: the leases come along.
TransferredLeased(u, t, target) ==
    [done |-> done, rows |-> [rows EXCEPT ![t] = MovedRows(u, NoRows, target)],
     leases |-> leases]

\* The tables once the task has left its project and entered the buckets of another.
Transferred(u, t, target) ==
    [done |-> done, rows |-> [rows EXCEPT ![t] = MovedRows(u, NoRows, target)],
     leases |-> ReleasedBy(leases, {t})]

\* An update that moves the task to another project.  Leases and rows are dropped
\* and the task enters the done or default bucket of every view there.  The
\* project_id column is written last, so a lease taken on entry still carries
\* the old project.
MoveToProject(u, t, p, who) ==
    LET target  == [v \in ManualViews(p) |->
                      IF done[t] /\ DoneBucket[v] # NoBucket THEN DoneBucket[v] ELSE Default(v)]
        tabs    == Transferred(u, t, target)
        enters  == EntersClaimBucket(NoRows, target)
    IN  /\ t \in Live /\ p # project[t]
        /\ RoomFor(NoRows, target)
        /\ enters => EntryAllowed(u, t, who, tabs)
        /\ project' = [project EXCEPT ![t] = p]
        /\ rows' = tabs.rows
        /\ assignees' = [assignees EXCEPT ![t] = IF enters THEN AssignedOnEntry(u, who) ELSE who]
        /\ leases' = Touched(IF enters THEN TakenBy(tabs, t, Holder(u, who)) ELSE tabs.leases,
                             t, u)
        /\ UNCHANGED <<status, done, scope, receipt, relations>>

\* A new task, optionally done and optionally in a given bucket.  Creating it in
\* a done bucket marks it done.
CreateTask(u, t, p, b, isDone) ==
    /\ status[t] = "absent"
    /\ b # NoBucket => b \in UNION {BucketsIn(v) : v \in ManualViews(p)} /\ HasRoom(b)
    /\ LET intoDone == ~isDone /\ \E v \in DoneViews(p) : DoneBucket[v] = b
           place(v) == IF isDone /\ DoneBucket[v] # NoBucket THEN DoneBucket[v]
                       ELSE IF b \in BucketsIn(v) THEN b ELSE Default(v)
       IN  /\ done' = [done EXCEPT ![t] = isDone \/ intoDone]
           /\ rows' = [rows EXCEPT ![t] =
                 [v \in View |->
                    IF v \notin ManualViews(p) \/ (intoDone /\ v \notin DoneViews(p)) THEN NoRow
                    ELSE IF intoDone THEN InDoneBucket(u, v)
                    ELSE [bucket |-> place(v), movedBy |-> NoUser]]]
    /\ status' = [status EXCEPT ![t] = "live"]
    /\ project' = [project EXCEPT ![t] = p]
    /\ UNCHANGED <<assignees, scope, receipt, relations, leases>>

AddAssignee(t, u) ==
    /\ t \in Live /\ u \notin assignees[t]
    /\ assignees' = [assignees EXCEPT ![t] = @ \cup {u}]
    /\ UNCHANGED <<status, project, done, rows, scope, receipt, relations, leases>>

RemoveAssignee(t, u) ==
    /\ t \in Live /\ u \in assignees[t]
    /\ assignees' = [assignees EXCEPT ![t] = @ \ {u}]
    /\ UNCHANGED <<status, project, done, rows, scope, receipt, relations, leases>>

\* Mutant of WriteScope: the leases stay as they were.
WriteScopeOnly(t, patterns) ==
    /\ t \in Live
    /\ scope' = [scope EXCEPT ![t] = patterns]
    /\ UNCHANGED <<status, project, done, rows, assignees, receipt, relations, leases>>

\* Writing the scope of a task that holds leases takes the new paths for the
\* holder of its first lease, or is refused.
WriteScope(t, patterns) ==
    /\ t \in Live
    /\ scope' = [scope EXCEPT ![t] = patterns]
    /\ IF LeasesOf(t) = {}
       THEN UNCHANGED leases
       ELSE \E first \in LeasesOf(t) :
              /\ Conflicting(leases, project[t], t, patterns) = {}
              /\ leases' = Acquired(leases, t, project[t], first.user, patterns)
    /\ UNCHANGED <<status, project, done, rows, assignees, receipt, relations>>

DeleteScope(t) ==
    /\ t \in Live
    /\ scope' = [scope EXCEPT ![t] = {}]
    /\ leases' = ReleasedBy(leases, {t})
    /\ UNCHANGED <<status, project, done, rows, assignees, receipt, relations>>

\* POST of a receipt by the project's receipt bot.  Only a merged and passing one
\* changes what the gate sees, and no receipt is ever taken back.
PostReceipt(t) ==
    /\ t \in Live /\ ReceiptBot[project[t]] # NoUser
    /\ receipt' = [receipt EXCEPT ![t] = TRUE]
    /\ UNCHANGED <<status, project, done, rows, assignees, scope, relations, leases>>

ReleaseLeases(t) ==
    /\ t \in Live
    /\ leases' = ReleasedBy(leases, {t})
    /\ UNCHANGED <<boardVars, relations>>

HeartbeatLeases(t) ==
    /\ t \in Live
    /\ leases' = Refreshed(leases, t)
    /\ UNCHANGED <<boardVars, relations>>

\* A comment by the holder is activity.
Comment(u, t) ==
    /\ t \in Live
    /\ leases' = Touched(leases, t, u)
    /\ UNCHANGED <<boardVars, relations>>

\* Into the bin: rows and leases go now, the rest with the purge.
DeleteTask(t) ==
    /\ t \in Live
    /\ status' = [status EXCEPT ![t] = "deleted"]
    /\ rows' = [rows EXCEPT ![t] = NoRows]
    /\ leases' = ReleasedBy(leases, {t})
    /\ UNCHANGED <<project, done, assignees, scope, receipt, relations>>

\* The cleanup cron, or the deletion of the whole project.
PurgeTask(t) ==
    /\ status[t] \in {"live", "deleted"}
    /\ status' = [status EXCEPT ![t] = "gone"]
    /\ rows' = [rows EXCEPT ![t] = NoRows]
    /\ assignees' = [assignees EXCEPT ![t] = {}]
    /\ scope' = [scope EXCEPT ![t] = {}]
    /\ leases' = ReleasedBy(leases, {t})
    /\ PurgeRelations(t)
    /\ UNCHANGED <<project, done, receipt>>

Relate(t, k, o) ==
    /\ {t, o} \subseteq Live
    /\ CreateRelation(t, k, o)
    /\ UNCHANGED <<boardVars, leases>>

Unrelate(t, k, o) ==
    /\ t \in Live
    /\ DeleteRelation(t, k, o)
    /\ UNCHANGED <<boardVars, leases>>

\* Time passes, and the five-minute cron.
LeaseClock == Tick /\ UNCHANGED <<boardVars, relations>>

LeaseCron == PoliceStaleLeases /\ UNCHANGED <<boardVars, relations>>

-----------------------------------------------------------------------------
Init ==
    /\ status = [t \in Task |-> IF t \in Seed THEN "live" ELSE "absent"]
    /\ project = [t \in Task |-> SeedProject]
    /\ done = [t \in Task |-> FALSE]
    /\ rows = [t \in Task |-> [v \in View |->
                 IF t \in Seed /\ v \in ManualViews(SeedProject)
                 THEN [bucket |-> Default(v), movedBy |-> NoUser] ELSE NoRow]]
    /\ assignees = [t \in Task |-> {}]
    /\ scope = [t \in Task |-> {}]
    /\ receipt = [t \in Task |-> FALSE]
    /\ relations = SeedRelations
    /\ LeaseInit

Moving ==
    \/ \E u \in User, t \in Task, b \in Bucket : MoveToBucket(u, t, ViewOf[b], b)
    \/ \E u \in User, t \in Task, b \in ClaimTargets, e \in Bucket \cup {NoBucket} :
          ClaimTask(u, t, ViewOf[b], b, e)

Updating ==
    \E u \in User, t \in Task, who \in SUBSET User :
       \/ EditTask(u, t, who)
       \/ MarkDone(u, t, who)
       \/ CompleteOccurrence(u, t, who)
       \/ MarkUndone(u, t, who)
       \/ \E p \in MoveTargets : MoveToProject(u, t, p, who)

Assigning == \E t \in Task, u \in User : AddAssignee(t, u) \/ RemoveAssignee(t, u)

Scoping == \E t \in Task : DeleteScope(t) \/ \E s \in ScopeInputs : WriteScope(t, s)

Leasing ==
    \/ \E t \in Task : ReleaseLeases(t) \/ HeartbeatLeases(t)
    \/ \E t \in Task, u \in User : Comment(u, t)
    \/ LeaseClock
    \/ LeaseCron

Living ==
    \/ \E u \in User, t \in Task, p \in Project, b \in Bucket \cup {NoBucket},
          isDone \in BOOLEAN : CreateTask(u, t, p, b, isDone)
    \/ \E t \in Task : PostReceipt(t) \/ DeleteTask(t) \/ PurgeTask(t)

Relating == \E r \in RelationInputs : Relate(r[1], r[2], r[3]) \/ Unrelate(r[1], r[2], r[3])

Next == Moving \/ Updating \/ Assigning \/ Scoping \/ Leasing \/ Living \/ Relating

Spec == Init /\ [][Next]_vars

\* The scheduler keeps firing the cron; users promise nothing.
FairSpec == Spec /\ WF_vars(LeaseCron)

-----------------------------------------------------------------------------
TypeOK ==
    /\ status \in [Task -> {"absent", "live", "deleted", "gone"}]
    /\ project \in [Task -> Project]
    /\ done \in [Task -> BOOLEAN]
    /\ rows \in [Task -> [View -> BucketRow]]
    /\ assignees \in [Task -> SUBSET User]
    /\ scope \in [Task -> SUBSET Pattern]
    /\ receipt \in [Task -> BOOLEAN]
    /\ RelationTypeOK
    /\ LeaseTypeOK

(***************************************************************************)
(* The paths a task holds are exactly the paths its scope owns, through    *)
(* claims, scope edits that are checked against everybody else's leases,   *)
(* releases and auto-releases: "a task that is already claimed keeps its   *)
(* leases in step with its declared paths" (TaskScope.Update).             *)
(***************************************************************************)
LeasesMirrorScope ==
    \A t \in Task : LeasesOf(t) # {} => {l.pattern : l \in LeasesOf(t)} = scope[t]

(***************************************************************************)
(* A lease is a task's lock within the project the task is in: no lease    *)
(* survives its task or stays behind in a project the task has left.       *)
(***************************************************************************)
LeasesFollowTask ==
    \A l \in leases : l.task \in Live /\ l.project = project[l.task]

(***************************************************************************)
(* Leases are released when the task is done, whichever way it was         *)
(* finished: by hand, through a bucket, or as the parent of the last       *)
(* open subtask.                                                           *)
(***************************************************************************)
DoneHoldsNoLease == \A l \in leases : ~done[l.task]

(***************************************************************************)
(* A task comes to hold leases only while nothing it waits for is open:    *)
(* not by a claim, not by a drag into the claim bucket, not by a transfer, *)
(* and not by widening its scope.                                          *)
(***************************************************************************)
LeasedOnlyUnblocked ==
    [][\A t \in Task :
          (LeasesOf(t) = {} /\ \E l \in leases' : l.task = t)
             => \A o \in Related(t, BlockingKinds) \cap Live : done'[o]]_vars

\* Tasks the receipt gate applies to, judged after the step.
Gated(t) ==
    /\ status[t] = "live" /\ t \notin Ops
    /\ ReceiptBot[project[t]] # NoUser
    /\ \/ Subtasks(t) = {}
       \/ \E x \in Subtasks(t) \cap Live : ~done'[x]

(***************************************************************************)
(* In a project with a receipt bot, "only a merged, passing receipt from   *)
(* CI ends a task" that was on the board, on every path to done: drag,     *)
(* update, claim, and the closing of parents.                              *)
(***************************************************************************)
OnlyReceiptEnds ==
    [][\A t \in Task : (Gated(t) /\ ~done[t] /\ done'[t]) => receipt[t]]_vars

(***************************************************************************)
(* "Never the person who put it up for review": whoever takes a gated task *)
(* into a done bucket is not who moved it where it was, in any view; CI    *)
(* excepted.                                                               *)
(***************************************************************************)
SubmitterDoesNotClose ==
    [][\A t \in Task, v \in View :
          LET closer == rows'[t][v].movedBy
          IN  (/\ Gated(t) /\ ~done[t] /\ done'[t]
               /\ rows'[t][v].bucket = DoneBucket[v] /\ rows'[t][v] # rows[t][v])
                 => \/ closer = ReceiptBot[project[t]]
                    \/ \A w \in View : rows[t][w].movedBy # closer]_vars

\* The gate on done as a whole: nobody gets around the receipt or around the rule.
GateHolds == OnlyReceiptEnds /\ SubmitterDoesNotClose

(***************************************************************************)
(* "A parent closes itself when the last subtask lands": no step finishes  *)
(* a task and leaves one of its parents open with all its subtasks done.   *)
(***************************************************************************)
ParentsClose ==
    [][\A t, q \in Live :
          (AutoComplete /\ ~done[t] /\ done'[t] /\ <<t, "parenttask", q>> \in relations
             /\ q \notin Repeating)
             => done'[q] \/ \E x \in Subtasks(q) \cap Live : ~done'[x]]_vars

(***************************************************************************)
(* On a project with one kanban view the done flag and the done bucket     *)
(* agree: "tasks moved here are marked done, and tasks marked done are     *)
(* moved here" (ProjectView.DoneBucketID).                                 *)
(***************************************************************************)
DoneMatchesBucket ==
    \A t \in Live \ Repeating : \A v \in DoneViews(project[t]) :
       done[t] <=> rows[t][v].bucket = DoneBucket[v]

(***************************************************************************)
(* A bucket never holds more tasks than its limit.  The default bucket is  *)
(* exempt: new tasks and the next run of a repeating one land there        *)
(* unchecked.                                                              *)
(***************************************************************************)
WithinLimit ==
    \A b \in Bucket :
       (Limit[b] > 0 /\ b # Default(ViewOf[b])) => Cardinality(TasksIn(b)) <= Limit[b]
=============================================================================
