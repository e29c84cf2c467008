---------------------------- MODULE RequestRace ----------------------------
(***************************************************************************)
(* Requests that overlap in time.                                          *)
(*                                                                         *)
(* AgentBoard runs every handler in one step.  Here the handlers that      *)
(* agents and people race with are taken apart into the statements of      *)
(* their transactions, which interleave under Isolation:                   *)
(*                                                                         *)
(*   claim      POST /claim into the claim bucket                          *)
(*   drag       a card dragged into the claim bucket                       *)
(*   finish     a card dragged into the done bucket                        *)
(*   update     the done flag set by an update of the task                 *)
(*   heartbeat  a sign of life of whoever holds the leases                 *)
(*   cron       the auto-release of leases that have been silent too long  *)
(*                                                                         *)
(* The board is one view with the buckets "todo", "doing" (the claim       *)
(* bucket) and "done".  Blockers, the receipt gate and permissions are     *)
(* left out: the tasks have no prerequisite, the project no receipt bot    *)
(* and the callers may write.                                              *)
(***************************************************************************)
EXTENDS Isolation, Naturals, FiniteSets

CONSTANTS
    Task, User,
    Pattern, Overlap,
    ScopeOf,    \* the paths a task owns
    SubtasksOf, \* the subtasks of a task
    Scenarios   \* an engine, what the requests may be, the limit of the claim bucket
                \* (0 is none), and how the tables may be at the start

Kinds == {"claim", "drag", "finish", "update", "heartbeat", "cron"}

Input == [kind : Kinds, task : Task, user : User, expectsTodo : BOOLEAN]

\* The rows: a task's place in the view, its done flag, its assignees and leases.
Bucket(t) == <<"bucket", t>>
Done(t) == <<"done", t>>
Assigned(t, u) == <<"assigned", t, u>>
Lease(t, u, p) == <<"lease", t, u, p>>

LeaseRows(t) == {Lease(t, u, p) : u \in User, p \in Pattern}

Rows ==
    {Bucket(t) : t \in Task} \cup {Done(t) : t \in Task}
      \cup {Assigned(t, u) : t \in Task, u \in User} \cup UNION {LeaseRows(t) : t \in Task}

IsTables(d) ==
    /\ d = [k \in Rows |-> d[k]]
    /\ \A t \in Task : d[Bucket(t)] \in {"todo", "doing", "done"} /\ d[Done(t)] \in BOOLEAN
    /\ \A t \in Task, u \in User : d[Assigned(t, u)] \in BOOLEAN
    /\ \A t \in Task : \A k \in LeaseRows(t) : d[k] \in {"none", "active", "overdue"}

ASSUME RaceAssumption ==
    /\ \A s \in Scenarios :
          /\ s.engine \in {"sqlite", "postgres", "mysql"} /\ s.inputs \subseteq Input
          /\ s.limit \in Nat /\ \A d \in s.tables : IsTables(d)
    /\ ScopeOf \in [Task -> SUBSET Pattern]
    \* A parent owns no paths and has no parent.
    /\ SubtasksOf \in [Task -> SUBSET Task]
    /\ \A q \in Task : SubtasksOf[q] # {} =>
          ScopeOf[q] = {} /\ \A t \in SubtasksOf[q] : SubtasksOf[t] = {}
    /\ Overlap \subseteq Pattern \X Pattern
    /\ Nobody \notin Request

VARIABLES
    input,      \* what each request asks for
    limit,      \* how many tasks the claim bucket may hold
    pc,         \* the statement a request is about to run
    found,      \* the bucket it read the task to be in
    joins,      \* whether it will assign the caller
    holder,     \* who is to hold the leases
    noted       \* tasks it has selected: parents to close, leases to drop or refreshed

request == <<engine, input, limit>>
reading == <<found, joins, holder, noted>>
vars == <<database, request, pc, reading>>

\* What can be locked: rows of the tasks, the project, the view, and for sqlite
\* the database as a whole.
Lockable == ({"bucket", "task", "leases"} \X Task) \cup {<<"project">>, <<"view">>, <<"database">>}

Ended == {"committed", "refused"}

\* The order of the statements.  An update counts the open subtasks twice, before and
\* after it has written the flag.
Order ==
    [claim     |-> [begin |-> "row", row |-> "check", check |-> "room", room |-> "flag",
                    flag |-> "move", move |-> "assign", assign |-> "conflicts",
                    conflicts |-> "lease", lease |-> "commit"],
     drag      |-> [begin |-> "row", row |-> "room", room |-> "check", check |-> "assign",
                    assign |-> "conflicts", conflicts |-> "lease", lease |-> "flag",
                    flag |-> "move", move |-> "commit"],
     finish    |-> [begin |-> "row", row |-> "flag", flag |-> "free", free |-> "count",
                    count |-> "close", close |-> "view", view |-> "move", move |-> "commit"],
     update    |-> [begin |-> "view", view |-> "free", free |-> "early", early |-> "earlyClose",
                    earlyClose |-> "row", row |-> "flag", flag |-> "freeAgain",
                    freeAgain |-> "count", count |-> "close", close |-> "move",
                    move |-> "final", final |-> "commit"],
     heartbeat |-> [begin |-> "beat", beat |-> "commit"],
     cron      |-> [begin |-> "select", select |-> "drop", drop |-> "commit"]]

Goto(r, l) == pc' = [pc EXCEPT ![r] = l]
Proceed(r) == Goto(r, Order[input[r].kind][pc[r]])

Finishes(r) == input[r].kind \in {"finish", "update"}

-----------------------------------------------------------------------------
(* What the statements ask of the tables.                                  *)

Who(tables, t) == {u \in User : tables[Assigned(t, u)]}

InBucket(tables, b) == {t \in Task : tables[Bucket(t)] = b}

Leased(tables, t) == {k \in LeaseRows(t) : tables[k] # "none"}

Parents(t) == {q \in Task : t \in SubtasksOf[q]}

\* The parents of t that are open and have no open subtask.
Closable(tables, t) ==
    {q \in Parents(t) : ~tables[Done(q)] /\ \A x \in SubtasksOf[q] : tables[Done(x)]}

\* Mutant of Acceptable: only the assignee.
OnlyOwnTask(r, who) == input[r].user \in who

\* What a request makes of the assignees it reads.
Acceptable(r, who) ==
    LET in == input[r]
    IN  IF in.kind = "claim"
        THEN /\ who \subseteq {in.user}
             /\ (in.expectsTodo /\ (in.user \notin who \/ found[r] # "doing"))
                   => found[r] = "todo"
        ELSE Cardinality(who) > 1 => in.user \in who

-----------------------------------------------------------------------------
(* The statements.                                                         *)

\* Mutant of Refuse: no rollback.
RefuseLocked(r) ==
    /\ Goto(r, "refused")
    /\ UNCHANGED <<database, request, reading>>

\* The handler fails: the transaction is rolled back.
Refuse(r) ==
    /\ Goto(r, "refused")
    /\ Rollback(r)
    /\ UNCHANGED <<request, reading>>

\* The first read of the transaction, of the task and the caller's permissions.  An
\* update of a task that is done already has nothing to finish.
Begin(r) ==
    /\ pc[r] = "begin"
    /\ IF input[r].kind = "update" /\ db[Done(input[r].task)]
       THEN Goto(r, "committed") /\ UNCHANGED database
       ELSE Proceed(r) /\ BeginTransaction(r)
    /\ UNCHANGED <<request, reading>>

\* Mutant of PinRow: no FOR UPDATE.
PeekRow(r) ==
    /\ pc[r] = "row" /\ input[r].kind = "claim"
    /\ found' = [found EXCEPT ![r] = Sees(r)[Bucket(input[r].task)]]
    /\ Proceed(r)
    /\ UNCHANGED <<database, request, joins, holder, noted>>

\* A claim pins the bucket row of the task, where the engine can.
PinRow(r) ==
    LET row == Bucket(input[r].task)
    IN  /\ pc[r] = "row" /\ input[r].kind = "claim"
        /\ LockOnly(r, row)
        /\ found' = [found EXCEPT ![r] = IF engine = "sqlite" THEN Sees(r)[row] ELSE Newest(r)[row]]
        /\ Proceed(r)
        /\ UNCHANGED <<request, joins, holder, noted>>

\* Moves read it without a lock, and the task.  Where the card is there already nothing
\* is moved; a task that is done already is moved and not finished again.
ReadRow(r) ==
    LET in     == input[r]
        bucket == Sees(r)[Bucket(in.task)]
        there  == bucket = (IF in.kind = "drag" THEN "doing" ELSE "done")
    IN  /\ pc[r] = "row" /\ in.kind # "claim"
        /\ found' = [found EXCEPT ![r] = bucket]
        /\ IF there THEN Goto(r, IF in.kind = "update" THEN "final" ELSE "commit")
           ELSE IF in.kind # "drag" /\ Sees(r)[Done(in.task)] THEN Goto(r, "move")
           ELSE Proceed(r)
        /\ UNCHANGED <<database, request, joins, holder, noted>>

CheckAssignees(r) ==
    LET who == Who(Sees(r), input[r].task)
        u   == input[r].user
    IN  /\ pc[r] = "check"
        /\ IF ~Acceptable(r, who) THEN Refuse(r)
           ELSE /\ joins' = [joins EXCEPT ![r] = who = {}]
                /\ holder' = [holder EXCEPT ![r] =
                                IF Cardinality(who) = 1 THEN CHOOSE a \in who : TRUE ELSE u]
                /\ Proceed(r)
                /\ UNCHANGED <<database, request, found, noted>>

\* Mutant of CheckRoom: one too many.
CheckRoomForOneMore(r) ==
    /\ pc[r] = "room"
    /\ IF found[r] = "doing" THEN Goto(r, "assign") /\ UNCHANGED <<database, request, reading>>
       ELSE IF limit > 0 /\ Cardinality(InBucket(Sees(r), "doing")) > limit THEN Refuse(r)
       ELSE Proceed(r) /\ UNCHANGED <<database, request, reading>>

\* checkBucketLimit.  A claim of a task that is in the bucket moves nothing.
CheckRoom(r) ==
    /\ pc[r] = "room"
    /\ IF found[r] = "doing" THEN Goto(r, "assign") /\ UNCHANGED <<database, request, reading>>
       ELSE IF limit > 0 /\ Cardinality(InBucket(Sees(r), "doing")) >= limit THEN Refuse(r)
       ELSE Proceed(r) /\ UNCHANGED <<database, request, reading>>

\* The done flag is set by entering the done bucket and cleared by leaving it.
WriteFlag(r) ==
    LET t == input[r].task
    IN  /\ pc[r] \in {"flag", "final"}
        /\ Proceed(r)
        /\ IF Finishes(r) \/ found[r] = "done"
           THEN Write(r, <<"task", t>>, [k \in {Done(t)} |-> Finishes(r)])
           ELSE UNCHANGED database
        /\ UNCHANGED <<request, reading>>

\* The upsert of the bucket row.
MoveRow(r) ==
    LET row == Bucket(input[r].task)
    IN  /\ pc[r] = "move"
        /\ Proceed(r)
        /\ Write(r, row, [k \in {row} |-> IF Finishes(r) THEN "done" ELSE "doing"])
        /\ UNCHANGED <<request, reading>>

\* Mutant of Assign: the project row is left alone.
AssignOnly(r) ==
    /\ pc[r] = "assign"
    /\ Proceed(r)
    /\ own' = [own EXCEPT ![r] =
                 IF joins[r] THEN Over(@, [k \in {Assigned(input[r].task, input[r].user)} |-> TRUE])
                 ELSE @]
    /\ UNCHANGED <<db, snapshot, behind, locks, request, reading>>

\* Assigning somebody also updates the project row.
Assign(r) ==
    /\ pc[r] = "assign"
    /\ Proceed(r)
    /\ IF joins[r]
       THEN Write(r, <<"project">>, [k \in {Assigned(input[r].task, input[r].user)} |-> TRUE])
       ELSE UNCHANGED database
    /\ UNCHANGED <<request, reading>>

\* findConflictingLeases.
CheckLeases(r) ==
    LET t == input[r].task
        tables == Sees(r)
        conflict == \E o \in Task \ {t}, u \in User, p \in Pattern :
                       /\ tables[Lease(o, u, p)] # "none"
                       /\ \E q \in ScopeOf[t] : <<q, p>> \in Overlap
    IN  /\ pc[r] = "conflicts"
        /\ IF conflict THEN Refuse(r)
           ELSE Proceed(r) /\ UNCHANGED <<database, request, reading>>

\* Deleting leases locks those there are; inserting locks nothing anybody waits for.
ReplaceLeases(r, ts, contents) ==
    LET there == UNION {Leased(Newest(r), t) : t \in ts}
        rows  == Over([k \in there |-> "none"], contents)
    IN  IF engine = "sqlite" \/ there # {}
        THEN \E t \in ts : Write(r, <<"leases", t>>, rows)
        ELSE own' = [own EXCEPT ![r] = Over(@, rows)] /\ UNCHANGED <<db, snapshot, behind, locks>>

\* acquirePathLeasesForTask: the leases of the task are deleted and new ones inserted.
TakeLeases(r) ==
    LET t == input[r].task
    IN  /\ pc[r] = "lease"
        /\ Proceed(r)
        /\ IF ScopeOf[t] = {} THEN UNCHANGED database
           ELSE ReplaceLeases(r, {t}, [k \in {Lease(t, holder[r], p) : p \in ScopeOf[t]} |-> "active"])
        /\ UNCHANGED <<request, reading>>

\* releasePathLeasesForTask of a finished task.
FreeLeases(r) ==
    /\ pc[r] \in {"free", "freeAgain"}
    /\ Proceed(r)
    /\ ReplaceLeases(r, {input[r].task}, NoRows)
    /\ UNCHANGED <<request, reading>>

\* openSubtaskCount, for every parent of the task.
CountOpen(r) ==
    /\ pc[r] \in {"early", "count"}
    /\ Proceed(r)
    /\ noted' = [noted EXCEPT ![r] = Closable(Sees(r), input[r].task)]
    /\ UNCHANGED <<database, request, found, joins, holder>>

\* completeTask: the flag of a parent, and its place, which no other request moves.
CloseParent(r) ==
    /\ pc[r] \in {"earlyClose", "close"}
    /\ IF noted[r] = {}
       THEN UNCHANGED <<database, noted>>
            /\ Goto(r, IF input[r].kind = "finish" THEN "move" ELSE Order["update"][pc[r]])
       ELSE \E q \in noted[r] :
              /\ Write(r, <<"task", q>>, [k \in {Done(q), Bucket(q)} |->
                    IF k = Done(q) THEN TRUE ELSE "done"])
              /\ noted' = [noted EXCEPT ![r] = @ \ {q}]
              /\ IF noted[r] = {q} THEN Proceed(r) ELSE UNCHANGED pc
    /\ UNCHANGED <<request, found, joins, holder>>

\* Mutant of LockView: the view is not locked.
SkipView(r) ==
    /\ pc[r] = "view"
    /\ Proceed(r)
    /\ UNCHANGED <<database, request, reading>>

\* The row of the view, locked by whoever writes positions: up front by an update,
\* once a parent has moved by a drag.
LockView(r) ==
    /\ pc[r] = "view"
    /\ Proceed(r)
    /\ LockOnly(r, <<"view">>)
    /\ UNCHANGED <<request, reading>>

Heartbeat(r) ==
    LET t == input[r].task
        there == Leased(Newest(r), t)
    IN  /\ pc[r] = "beat"
        /\ Proceed(r)
        /\ IF engine # "sqlite" /\ there = {} THEN UNCHANGED database
           ELSE Write(r, <<"leases", t>>, [k \in there |-> "active"])
        /\ noted' = [noted EXCEPT ![r] = IF there = {} THEN {} ELSE {t}]
        /\ UNCHANGED <<request, found, joins, holder>>

\* The cron selects the overdue leases, then deletes those of their tasks.
SelectOverdue(r) ==
    /\ pc[r] = "select"
    /\ LET overdue == {t \in Task : \E k \in LeaseRows(t) : Sees(r)[k] = "overdue"}
       IN  noted' = [noted EXCEPT ![r] = overdue]
    /\ Proceed(r)
    /\ UNCHANGED <<database, request, found, joins, holder>>

DropOverdue(r) ==
    /\ pc[r] = "drop"
    /\ IF noted[r] = {} THEN UNCHANGED <<database, noted>> /\ Proceed(r)
       ELSE \E t \in noted[r] :
              /\ ReplaceLeases(r, {t}, NoRows)
              /\ noted' = [noted EXCEPT ![r] = @ \ {t}]
              /\ UNCHANGED pc
    /\ UNCHANGED <<request, found, joins, holder>>

End(r) ==
    /\ pc[r] = "commit"
    /\ Goto(r, "committed")
    /\ Commit(r)
    /\ UNCHANGED <<request, reading>>

-----------------------------------------------------------------------------
(* What the engine does to a transaction that cannot go on.                *)

\* The row a request wants to lock next.
Wanted(r) ==
    LET t == input[r].task
        leases(ts) == {<<"leases", x>> : x \in {y \in ts :
                          engine = "sqlite" \/ Leased(Newest(r), y) # {}}}
    IN  CASE pc[r] = "row" /\ input[r].kind = "claim" /\ engine # "sqlite" -> {Bucket(t)}
          [] pc[r] = "move"                           -> {Bucket(t)}
          [] pc[r] \in {"flag", "final"} /\ (Finishes(r) \/ found[r] = "done") -> {<<"task", t>>}
          [] pc[r] = "assign" /\ joins[r]             -> {<<"project">>}
          [] pc[r] = "lease" /\ ScopeOf[t] # {}       -> leases({t})
          [] pc[r] \in {"free", "freeAgain", "beat"}  -> leases({t})
          [] pc[r] = "drop"                           -> leases(noted[r])
          [] pc[r] \in {"earlyClose", "close"}        -> {<<"task", q>> : q \in noted[r]}
          [] pc[r] = "view" /\ engine # "sqlite"      -> {<<"view">>}
          [] OTHER                                    -> {}

Waiting == {w \in Request \X Request : \E k \in Wanted(w[1]) : locks[LockFor(k)] = w[2]}

\* A first write onto an old snapshot fails, and one of a circle of waiting requests.
Abort(r) ==
    /\ \/ IsBusy(r) /\ Wanted(r) # {}
       \/ InCircle(r, Waiting)
    /\ Refuse(r)

-----------------------------------------------------------------------------
Init ==
    /\ \E s \in Scenarios :
          /\ engine = s.engine /\ limit = s.limit
          /\ input \in [Request -> s.inputs]
          /\ db \in s.tables
    /\ pc = [r \in Request |-> "begin"]
    /\ snapshot = [r \in Request |-> NoRows]
    /\ behind = {}
    /\ found = [r \in Request |-> "todo"]
    /\ joins = [r \in Request |-> FALSE]
    /\ holder = [r \in Request |-> input[r].user]
    /\ noted = [r \in Request |-> {}]
    /\ own = [r \in Request |-> NoRows]
    /\ locks = [k \in Lockable |-> Nobody]

Step(r) ==
    \/ Begin(r) \/ PinRow(r) \/ ReadRow(r) \/ CheckAssignees(r) \/ CheckRoom(r) \/ WriteFlag(r)
    \/ MoveRow(r) \/ Assign(r) \/ CheckLeases(r) \/ TakeLeases(r) \/ FreeLeases(r)
    \/ CountOpen(r) \/ CloseParent(r) \/ LockView(r)
    \/ Heartbeat(r) \/ SelectOverdue(r) \/ DropOverdue(r)
    \/ End(r) \/ Abort(r)

Next == \E r \in Request : Step(r)

\* Every connection keeps running its statements.
Spec == Init /\ [][Next]_vars /\ \A r \in Request : WF_vars(Step(r))

-----------------------------------------------------------------------------
(***************************************************************************)
(* "Two agents racing for the same task therefore get exactly one winner"  *)
(* (TaskClaim): of overlapping claims of one task by different people one  *)
(* at most is granted, whoever is dragging the task meanwhile.             *)
(***************************************************************************)
OneWinner ==
    \A r, q \in Request :
       (/\ pc[r] = "committed" /\ pc[q] = "committed"
        /\ input[r].kind = "claim" /\ input[q].kind = "claim"
        /\ input[r].task = input[q].task)
          => input[r].user = input[q].user

\* Leases of two tasks on overlapping files.
Collide(t, o) ==
    \E u, v \in User, p, q \in Pattern :
       /\ db[Lease(t, u, p)] # "none" /\ db[Lease(o, v, q)] # "none"
       /\ <<p, q>> \in Overlap

(***************************************************************************)
(* Overlapping requests that each won a task nobody had hold disjoint      *)
(* files; where the engine has a single writer, so do all others.          *)
(***************************************************************************)
WinnersExclusive ==
    \A t, o \in Task :
       (/\ t # o
        /\ \/ engine = "sqlite"
           \/ \E r, q \in Request : /\ joins[r] /\ input[r].task = t
                                    /\ joins[q] /\ input[q].task = o)
          => ~Collide(t, o)

\* What a race of claims must not do: leave a task or a file to two people.
WinnersApart == OneWinner /\ WinnersExclusive

(***************************************************************************)
(* "Two claims cannot both pass the overlap check"                         *)
(* (acquirePathLeasesForTask): the leases committed by overlapping         *)
(* requests are of disjoint files.                                         *)
(***************************************************************************)
LeasesExclusive == \A t, o \in Task : t # o => ~Collide(t, o)

(***************************************************************************)
(* A race has a winner: claims and drags are never all turned away,        *)
(* whatever makes them wait for, conflict with or abort each other, unless *)
(* somebody had a task before.                                             *)
(***************************************************************************)
SomebodyWins ==
    (/\ Request # {}
     /\ \A r \in Request : pc[r] = "refused" /\ input[r].kind \in {"claim", "drag"})
       => \E t \in Task : Who(db, t) # {}

(***************************************************************************)
(* Nobody waits for ever: claims lock the task's row and then the project, *)
(* drags the project and then the row, updates the view and then the task, *)
(* drags into the done bucket the other way round.  Every request is       *)
(* answered.                                                               *)
(***************************************************************************)
Answered == \A r \in Request : <>(pc[r] \in Ended)

(***************************************************************************)
(* What the code checks without a lock is still so when it commits, where  *)
(* the engine has a single writer ("SQLite ... serialises writers at the   *)
(* database level, which gives the same guarantee", ClaimTask): a card     *)
(* dragged twice gets one assignee, the last place in a bucket one task, a *)
(* finished task no leases, and a heartbeat that was answered keeps its    *)
(* leases from the cron, until the task is finished.                       *)
(***************************************************************************)
OneAssignee == \A t \in Task : Cardinality(Who(db, t)) <= 1
LastPlace == limit > 0 => Cardinality(InBucket(db, "doing")) <= limit
DoneHasNoLease == \A t \in Task : db[Done(t)] => Leased(db, t) = {}
BeatKeeps ==
    \A r \in Request :
       (/\ pc[r] = "committed" /\ input[r].kind = "heartbeat" /\ noted[r] # {}
        /\ ~\E q \in Request : pc[q] = "committed" /\ Finishes(q) /\ input[q].task = input[r].task)
          => Leased(db, input[r].task) # {}

ChecksStillHold ==
    engine = "sqlite" => OneAssignee /\ LastPlace /\ DoneHasNoLease /\ BeatKeeps

(***************************************************************************)
(* Two subtasks finished at once close their parent: always on SQLite, and *)
(* on PostgreSQL where both are finished by updates, which lock the view   *)
(* before they count.                                                      *)
(***************************************************************************)
SiblingsCloseParent ==
    (/\ \/ engine = "sqlite"
        \/ engine = "postgres" /\ \A r \in Request : input[r].kind = "update"
     /\ \A r \in Request : pc[r] \in Ended)
       => \A q \in Task :
             (SubtasksOf[q] # {} /\ \A x \in SubtasksOf[q] : db[Done(x)]) => db[Done(q)]
=============================================================================
