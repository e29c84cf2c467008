--------------------------- MODULE TaskPathLease ---------------------------
(***************************************************************************)
(* The task_path_leases table of pkg/models: the path patterns that        *)
(* in-progress tasks hold exclusively within their project, the statements *)
(* that replace, drop and refresh them, and the cron that polices them.    *)
(*                                                                         *)
(* Every statement is an operator from the rows it finds to the rows it    *)
(* leaves, so that the handlers of AgentBoard can compose them the way the *)
(* code does, inside one transaction.  LeaseSpec below runs them on their  *)
(* own, one statement per transaction, for the proofs.                     *)
(*                                                                         *)
(* last_active is kept as an age: the number of clock ticks since it was   *)
(* written, saturating at MaxIdle.                                         *)
(***************************************************************************)
EXTENDS Integers, FiniteSets, Tasks

CONSTANTS
    User,              \* users, human and bot
    Project,           \* projects
    Pattern,           \* normalised, repository-relative globs
    Overlap,           \* pairs of patterns for which PathPatternsOverlap holds
    Notifiable,        \* holders a notification can reach (a human, or a bot with an owner)
    StaleAfter,        \* service.leasestaleafter in ticks; 0 switches it off
    AutoReleaseAfter,  \* service.leaseautoreleaseafter in ticks; 0 switches it off
    MaxIdle            \* bound: ages above it are not told apart

\* A pattern overlaps itself and overlapping is mutual (PathPattern checks both
\* of the algorithm); the age is counted far enough to pass either threshold.
ASSUME LeaseAssumption ==
    /\ Overlap \subseteq Pattern \X Pattern
    /\ \A p \in Pattern : <<p, p>> \in Overlap
    /\ \A pair \in Overlap : <<pair[2], pair[1]>> \in Overlap
    /\ Notifiable \subseteq User
    /\ StaleAfter \in Nat /\ AutoReleaseAfter \in Nat /\ MaxIdle \in Nat
    /\ StaleAfter < MaxIdle \/ StaleAfter = 0
    /\ AutoReleaseAfter < MaxIdle \/ AutoReleaseAfter = 0

VARIABLE leases        \* the rows of task_path_leases

Lease == [task : Task, project : Project, user : User, pattern : Pattern,
          idle : 0..MaxIdle, notified : BOOLEAN]

LeasesOf(t) == {l \in leases : l.task = t}

-----------------------------------------------------------------------------
(* The statements, from the rows found to the rows left.                   *)

\* Delete the leases of every task in ts.
ReleasedBy(rows, ts) == {l \in rows : l.task \notin ts}

\* Mutant of Conflicting: only the very same pattern is in the way.
SamePattern(rows, p, t, patterns) ==
    {l \in rows : l.project = p /\ l.task # t /\ l.pattern \in patterns}

\* The active leases of other tasks that one of the patterns overlaps.
Conflicting(rows, p, t, patterns) ==
    {l \in rows : /\ l.project = p
                  /\ l.task # t
                  /\ \E q \in patterns : <<q, l.pattern>> \in Overlap}

FreshLeases(t, p, u, patterns) ==
    [task : {t}, project : {p}, user : {u}, pattern : patterns,
     idle : {0}, notified : {FALSE}]

\* Mutant of Acquired: the old leases stay.
AddedTo(rows, t, p, u, patterns) == rows \cup FreshLeases(t, p, u, patterns)

\* The rows after the task's leases are replaced by one per pattern.
Acquired(rows, t, p, u, patterns) ==
    ReleasedBy(rows, {t}) \cup FreshLeases(t, p, u, patterns)

\* The user's own leases on the task count as active now.
Touched(rows, t, u) ==
    {IF l.task = t /\ l.user = u THEN [l EXCEPT !.idle = 0] ELSE l : l \in rows}

\* Every lease on the task counts as active now.
Refreshed(rows, t) ==
    {IF l.task = t THEN [l EXCEPT !.idle = 0] ELSE l : l \in rows}

Aged(rows) ==
    {[l EXCEPT !.idle = IF @ < MaxIdle THEN @ + 1 ELSE @] : l \in rows}

IsStale(l) == StaleAfter > 0 /\ l.idle > StaleAfter

\* One notification per lease: those not told yet and reachable are marked.
StaleNotified(rows) ==
    {IF IsStale(l) /\ ~l.notified /\ l.user \in Notifiable
       THEN [l EXCEPT !.notified = TRUE] ELSE l : l \in rows}

\* Mutant of Overdue: one tick early.
OverdueEarly(rows) ==
    {l.task : l \in {k \in rows : AutoReleaseAfter > 0 /\ k.idle >= AutoReleaseAfter}}

\* Tasks with a lease nobody has touched for too long.
Overdue(rows) ==
    {l.task : l \in {k \in rows : AutoReleaseAfter > 0 /\ k.idle > AutoReleaseAfter}}

-----------------------------------------------------------------------------
(* The statements as transactions of their own.                            *)

Acquire(t, p, u, patterns) ==
    /\ Conflicting(leases, p, t, patterns) = {}
    /\ leases' = Acquired(leases, t, p, u, patterns)

Release(t) == leases' = ReleasedBy(leases, {t})

TouchHeldBy(t, u) == leases' = Touched(leases, t, u)

Heartbeat(t) == leases' = Refreshed(leases, t)

\* The clock.
Tick == leases' = Aged(leases)

\* Mutant of PoliceStaleLeases: it only notifies.
OnlyNotify == leases' = StaleNotified(leases)

\* The five-minute cron: notify, then auto-release, in one transaction.
PoliceStaleLeases ==
    LET noted == StaleNotified(leases)
    IN  leases' = ReleasedBy(noted, Overdue(noted))

LeaseInit == leases = {}

LeaseNext ==
    \/ \E t \in Task, p \in Project, u \in User, patterns \in SUBSET Pattern :
          Acquire(t, p, u, patterns)
    \/ \E t \in Task : Release(t)
    \/ \E t \in Task, u \in User : TouchHeldBy(t, u)
    \/ \E t \in Task : Heartbeat(t)
    \/ Tick
    \/ PoliceStaleLeases

LeaseSpec == LeaseInit /\ [][LeaseNext]_leases

-----------------------------------------------------------------------------
LeaseTypeOK == leases \subseteq Lease

(***************************************************************************)
(* Two tasks never hold overlapping patterns in one project: the files one *)
(* agent is editing are nobody else's.                                     *)
(***************************************************************************)
LeaseExclusion ==
    \A l, m \in leases :
       (l.task # m.task /\ l.project = m.project) => <<l.pattern, m.pattern>> \notin Overlap

(***************************************************************************)
(* All leases of a task have one holder, one project and one age.  Scope   *)
(* edits and the cron rely on it: both read the holder of a task's first   *)
(* lease, held[0], and act on all of them.                                 *)
(***************************************************************************)
OneHolder ==
    \A l, m \in leases : l.task = m.task =>
       l.user = m.user /\ l.project = m.project /\ l.idle = m.idle

(***************************************************************************)
(* The cron takes a lease away only when that very lease has been silent   *)
(* for longer than the threshold, although it selects single rows and then *)
(* deletes every lease of their task.                                      *)
(***************************************************************************)
CronSparesActive ==
    [][PoliceStaleLeases =>
          \A l \in leases : l.idle <= AutoReleaseAfter =>
             \E m \in leases' : m.task = l.task /\ m.pattern = l.pattern]_leases

(***************************************************************************)
(* With auto-release on, files locked by a silent holder come free, or the *)
(* holder shows up again: no lease stays overdue for ever.                 *)
(***************************************************************************)
OverdueFreed ==
    \A t \in Task : (t \in Overdue(leases)) ~> (t \notin Overdue(leases))

\* The leases are a lease book: holders, ages and marks left out.
Files(rows) == {[task |-> l.task, project |-> l.project, pattern |-> l.pattern] : l \in rows}

Book == INSTANCE LeaseBook WITH held <- Files(leases)

(***************************************************************************)
(* Whatever is done to the leases is giving up all that some tasks hold or *)
(* taking a whole set of free patterns at once: the statements, and the    *)
(* handlers of AgentBoard that compose them, implement LeaseBook.          *)
(***************************************************************************)
ImplementsLeaseBook == Book!Spec
=============================================================================
