------------------------- MODULE AgentBoard_proofs -------------------------
(***************************************************************************)
(* What the agent board keeps, for every set of tasks, users, projects and *)
(* views and every configuration that BoardAssumption admits.              *)
(*                                                                         *)
(*   First the two tables the board is built on, each on its own.          *)
(*   Types, then the lease book: a handler that takes leases compares them *)
(*   with the rows it has in hand, which are the committed ones less those *)
(*   of the tasks it has finished on the way (InHand, LeaseStep).          *)
(*   Whose leases they are, and of what: Orderly.                          *)
(*   Where leases come from, and that they follow their task.              *)
(*   Limits of buckets: Fits.                                              *)
(*   Done flags, done buckets and leases: CardsAtHome, DoneInBucket.       *)
(*   Relations, parents that close, and the receipt gate: ClosingFixed.    *)
(*                                                                         *)
(* A theorem that needs more than BoardAssumption names it: see            *)
(* ArrivalsUnclaimed, OneViewEach, StandardBoards and ClaimsStart.         *)
(***************************************************************************)
EXTENDS AgentBoard, FiniteSetTheorems, TLAPS

(***************************************************************************)
(* THE LEASE TABLE ON ITS OWN.  What each statement on task_path_leases    *)
(* does, from rows to rows, to the type and to the files that are held;    *)
(* then, for any sequence of statements (LeaseSpec), that the table        *)
(* implements LeaseBook, and that all leases of a task are one user's.     *)
(***************************************************************************)

-----------------------------------------------------------------------------
(* Well-formed rows.                                                       *)

(***************************************************************************)
(* Deleting leases leaves only leases that were there.                     *)
(***************************************************************************)
LEMMA ReleasedType ==
    ASSUME NEW table \in SUBSET Lease, NEW ts
    PROVE  ReleasedBy(table, ts) \in SUBSET Lease
BY DEF ReleasedBy

(***************************************************************************)
(* Leases taken by a task for a user are well-formed rows.                 *)
(***************************************************************************)
LEMMA FreshType ==
    ASSUME NEW t \in Task, NEW p \in Project, NEW u \in User, NEW patterns \in SUBSET Pattern
    PROVE  FreshLeases(t, p, u, patterns) \in SUBSET Lease
<1> SUFFICES ASSUME NEW l \in FreshLeases(t, p, u, patterns)
             PROVE  l \in Lease
  OBVIOUS
<1>1. /\ l = [task |-> l.task, project |-> l.project, user |-> l.user, pattern |-> l.pattern,
              idle |-> l.idle, notified |-> l.notified]
      /\ l.task = t /\ l.project = p /\ l.user = u /\ l.pattern \in patterns
      /\ l.idle = 0 /\ l.notified = FALSE
  BY DEF FreshLeases
<1>2. 0 \in 0..MaxIdle
  BY LeaseAssumption
<1> QED
  BY <1>1, <1>2 DEF Lease

(***************************************************************************)
(* The replacement of a task's leases leaves well-formed rows.             *)
(***************************************************************************)
LEMMA AcquiredType ==
    ASSUME NEW table \in SUBSET Lease, NEW t \in Task, NEW p \in Project, NEW u \in User,
           NEW patterns \in SUBSET Pattern
    PROVE  Acquired(table, t, p, u, patterns) \in SUBSET Lease
BY ReleasedType, FreshType DEF Acquired

(***************************************************************************)
(* Marking leases active writes an age that a lease can have.              *)
(***************************************************************************)
LEMMA TouchedType ==
    ASSUME NEW table \in SUBSET Lease, NEW t, NEW u
    PROVE  Touched(table, t, u) \in SUBSET Lease
BY LeaseAssumption DEF Touched, Lease

(***************************************************************************)
(* A heartbeat writes an age that a lease can have.                        *)
(***************************************************************************)
LEMMA RefreshedType ==
    ASSUME NEW table \in SUBSET Lease, NEW t
    PROVE  Refreshed(table, t) \in SUBSET Lease
BY LeaseAssumption DEF Refreshed, Lease

(***************************************************************************)
(* Ages stay below their bound when time passes.                           *)
(***************************************************************************)
LEMMA AgedType ==
    ASSUME NEW table \in SUBSET Lease
    PROVE  Aged(table) \in SUBSET Lease
<1> SUFFICES ASSUME NEW l \in table
             PROVE  [l EXCEPT !.idle = IF @ < MaxIdle THEN @ + 1 ELSE @] \in Lease
  BY DEF Aged
<1>1. MaxIdle \in Nat /\ l.idle \in 0..MaxIdle
  BY LeaseAssumption DEF Lease
<1>2. (IF l.idle < MaxIdle THEN l.idle + 1 ELSE l.idle) \in 0..MaxIdle
  BY <1>1
<1> QED
  BY <1>2 DEF Lease

(***************************************************************************)
(* The notification cron only marks rows.                                  *)
(***************************************************************************)
LEMMA StaleNotifiedType ==
    ASSUME NEW table \in SUBSET Lease
    PROVE  StaleNotified(table) \in SUBSET Lease
BY DEF StaleNotified, Lease

-----------------------------------------------------------------------------
(* The files that are held.                                                *)

(***************************************************************************)
(* Rows rewritten one by one, task, project and pattern untouched, hold    *)
(* the same files.                                                         *)
(***************************************************************************)
LEMMA SameFiles ==
    /\ \A table \in SUBSET Lease : \A t, u : Files(Touched(table, t, u)) = Files(table)
    /\ \A table \in SUBSET Lease : \A t : Files(Refreshed(table, t)) = Files(table)
    /\ \A table \in SUBSET Lease : Files(Aged(table)) = Files(table)
    /\ \A table \in SUBSET Lease : Files(StaleNotified(table)) = Files(table)
<1>1. ASSUME NEW table \in SUBSET Lease, NEW t, NEW u
      PROVE  Files(Touched(table, t, u)) = Files(table)
  <2> DEFINE new(l) == IF l.task = t /\ l.user = u THEN [l EXCEPT !.idle = 0] ELSE l
  <2>1. \A l \in table : new(l).task = l.task /\ new(l).project = l.project
                          /\ new(l).pattern = l.pattern
    BY DEF Lease
  <2>2. Touched(table, t, u) = {new(l) : l \in table}
    BY DEF Touched
  <2> HIDE DEF new
  <2> QED
    BY <2>1, <2>2 DEF Files
<1>2. ASSUME NEW table \in SUBSET Lease, NEW t
      PROVE  Files(Refreshed(table, t)) = Files(table)
  <2> DEFINE new(l) == IF l.task = t THEN [l EXCEPT !.idle = 0] ELSE l
  <2>1. \A l \in table : new(l).task = l.task /\ new(l).project = l.project
                          /\ new(l).pattern = l.pattern
    BY DEF Lease
  <2>2. Refreshed(table, t) = {new(l) : l \in table}
    BY DEF Refreshed
  <2> HIDE DEF new
  <2> QED
    BY <2>1, <2>2 DEF Files
<1>3. ASSUME NEW table \in SUBSET Lease
      PROVE  Files(Aged(table)) = Files(table)
  <2> DEFINE new(l) == [l EXCEPT !.idle = IF @ < MaxIdle THEN @ + 1 ELSE @]
  <2>1. \A l \in table : new(l).task = l.task /\ new(l).project = l.project
                          /\ new(l).pattern = l.pattern
    BY DEF Lease
  <2>2. Aged(table) = {new(l) : l \in table}
    BY DEF Aged
  <2> HIDE DEF new
  <2> QED
    BY <2>1, <2>2 DEF Files
<1>4. ASSUME NEW table \in SUBSET Lease
      PROVE  Files(StaleNotified(table)) = Files(table)
  <2> DEFINE new(l) == IF IsStale(l) /\ ~l.notified /\ l.user \in Notifiable
                         THEN [l EXCEPT !.notified = TRUE] ELSE l
  <2>1. \A l \in table : new(l).task = l.task /\ new(l).project = l.project
                          /\ new(l).pattern = l.pattern
    BY DEF Lease
  <2>2. StaleNotified(table) = {new(l) : l \in table}
    BY DEF StaleNotified
  <2> HIDE DEF new
  <2> QED
    BY <2>1, <2>2 DEF Files
<1> QED
  BY <1>1, <1>2, <1>3, <1>4

(***************************************************************************)
(* Deleting the leases of some tasks is giving up what those tasks hold.   *)
(***************************************************************************)
LEMMA FilesReleased ==
    ASSUME NEW table, NEW ts
    PROVE  Files(ReleasedBy(table, ts)) = {f \in Files(table) : f.task \notin ts}
BY DEF Files, ReleasedBy

(***************************************************************************)
(* Replacing the leases of a task is giving up what it holds and taking    *)
(* the new patterns in one project.                                        *)
(***************************************************************************)
LEMMA FilesAcquired ==
    ASSUME NEW table, NEW t, NEW p, NEW u, NEW patterns
    PROVE  \A f : f \in Files(Acquired(table, t, p, u, patterns)) <=>
                    \/ f \in Files(table) /\ f.task # t
                    \/ f \in [task : {t}, project : {p}, pattern : patterns]
<1>1. Files(FreshLeases(t, p, u, patterns)) = [task : {t}, project : {p}, pattern : patterns]
  <2>1. ASSUME NEW q \in patterns
        PROVE  [task |-> t, project |-> p, pattern |-> q] \in Files(FreshLeases(t, p, u, patterns))
    <3> DEFINE l == [task |-> t, project |-> p, user |-> u, pattern |-> q,
                     idle |-> 0, notified |-> FALSE]
    <3>1. l \in FreshLeases(t, p, u, patterns)
      BY DEF FreshLeases
    <3> QED
      BY <3>1 DEF Files
  <2>2. \A f \in [task : {t}, project : {p}, pattern : patterns] :
           f = [task |-> t, project |-> p, pattern |-> f.pattern] /\ f.pattern \in patterns
    OBVIOUS
  <2>3. \A l \in FreshLeases(t, p, u, patterns) :
           l.task = t /\ l.project = p /\ l.pattern \in patterns
    BY DEF FreshLeases
  <2>4. Files(FreshLeases(t, p, u, patterns))
          \subseteq [task : {t}, project : {p}, pattern : patterns]
    BY <2>3 DEF Files
  <2> QED
    BY <2>1, <2>2, <2>4
<1>2. Files(ReleasedBy(table, {t})) = {f \in Files(table) : f.task # t}
  BY FilesReleased
<1>3. Files(Acquired(table, t, p, u, patterns))
        = Files(ReleasedBy(table, {t})) \cup Files(FreshLeases(t, p, u, patterns))
  BY DEF Files, Acquired
<1> QED
  BY <1>1, <1>2, <1>3

-----------------------------------------------------------------------------
(* Steps of the lease book.                                                *)

(***************************************************************************)
(* A transaction that leaves the files of all but some tasks held is a     *)
(* step of the lease book.                                                 *)
(***************************************************************************)
LEMMA BookGives ==
    ASSUME NEW ts \in SUBSET Task,
           Files(leases') = {f \in Files(leases) : f.task \notin ts}
    PROVE  Book!Next
<1>1. Book!Give(ts)
  BY DEF Book!Give, Book!HeldBy
<1> QED
  BY <1>1 DEF Book!Next

(***************************************************************************)
(* A transaction that leaves the files as they are is a step of the lease  *)
(* book: the one in which nobody gives up anything.                        *)
(***************************************************************************)
LEMMA BookKeeps ==
    ASSUME Files(leases') = Files(leases)
    PROVE  Book!Next
<1>1. Book!Give({})
  BY DEF Book!Give, Book!HeldBy
<1> QED
  BY <1>1 DEF Book!Next

(***************************************************************************)
(* A transaction that drops the leases of some tasks, finds no conflict in *)
(* what is left and replaces the leases of one task is a step of the lease *)
(* book.  Overlap has to be mutual here: findConflictingLeases looks at    *)
(* the pairs one way round.                                                *)
(***************************************************************************)
LEMMA BookTakes ==
    ASSUME NEW ts \in SUBSET Task, NEW table \in SUBSET Lease,
           NEW t \in Task, NEW p \in Project, NEW u, NEW patterns \in SUBSET Pattern,
           Files(table) = {f \in Files(leases) : f.task \notin ts},
           Conflicting(table, p, t, patterns) = {},
           Files(leases') = Files(Acquired(table, t, p, u, patterns))
    PROVE  Book!Next
<1>1. Files(leases) \ Book!HeldBy(ts) = Files(table)
  BY DEF Book!HeldBy
<1>2. ASSUME NEW h \in Files(table), h.task # t, h.project = p, NEW q \in patterns
      PROVE  {<<q, h.pattern>>, <<h.pattern, q>>} \cap Overlap = {}
  <2>1. PICK l \in table : l.task = h.task /\ l.project = h.project /\ l.pattern = h.pattern
    BY DEF Files
  <2>2. <<q, h.pattern>> \notin Overlap
    BY <1>2, <2>1 DEF Conflicting
  <2>3. <<h.pattern, q>> \in Overlap => <<q, h.pattern>> \in Overlap
    BY LeaseAssumption
  <2> QED
    BY <2>2, <2>3
<1>3. Files(leases') = (Files(leases) \ Book!HeldBy(ts \cup {t}))
                         \cup [task : {t}, project : {p}, pattern : patterns]
  <2>1. {f \in Files(table) : f.task # t} = Files(leases) \ Book!HeldBy(ts \cup {t})
    BY DEF Book!HeldBy
  <2>2. \A f : f \in Files(Acquired(table, t, p, u, patterns)) <=>
                 \/ f \in Files(table) /\ f.task # t
                 \/ f \in [task : {t}, project : {p}, pattern : patterns]
    BY FilesAcquired
  <2> QED
    BY <2>1, <2>2
<1>4. Book!Take(t, p, patterns, ts)
  BY <1>1, <1>2, <1>3 DEF Book!Take
<1> QED
  BY <1>4 DEF Book!Next

-----------------------------------------------------------------------------
(* One holder.                                                             *)

\* OneHolder, of any rows.
HeldByOne(table) ==
    \A l, m \in table : l.task = m.task =>
       l.user = m.user /\ l.project = m.project /\ l.idle = m.idle

(***************************************************************************)
(* Deleting leases cannot give a task a second holder.                     *)
(***************************************************************************)
LEMMA ReleasedByOne ==
    ASSUME NEW table, HeldByOne(table), NEW ts
    PROVE  HeldByOne(ReleasedBy(table, ts))
BY DEF HeldByOne, ReleasedBy

(***************************************************************************)
(* A task whose leases are replaced holds the new ones alone: the old ones *)
(* go first.                                                               *)
(***************************************************************************)
LEMMA AcquiredByOne ==
    ASSUME NEW table, HeldByOne(table), NEW t, NEW p, NEW u, NEW patterns
    PROVE  HeldByOne(Acquired(table, t, p, u, patterns))
<1>1. \A l \in FreshLeases(t, p, u, patterns) :
         l.task = t /\ l.project = p /\ l.user = u /\ l.idle = 0
  BY DEF FreshLeases
<1>2. \A l \in ReleasedBy(table, {t}) : l \in table /\ l.task # t
  BY DEF ReleasedBy
<1>3. \A l \in Acquired(table, t, p, u, patterns) :
         l \in ReleasedBy(table, {t}) \/ l \in FreshLeases(t, p, u, patterns)
  BY DEF Acquired
<1> QED
  BY <1>1, <1>2, <1>3 DEF HeldByOne

(***************************************************************************)
(* Activity of a user touches all leases of a task or none: they have one  *)
(* holder, and so one age again.                                           *)
(***************************************************************************)
LEMMA TouchedByOne ==
    ASSUME NEW table \in SUBSET Lease, HeldByOne(table), NEW t, NEW u
    PROVE  HeldByOne(Touched(table, t, u))
<1> DEFINE new(l) == IF l.task = t /\ l.user = u THEN [l EXCEPT !.idle = 0] ELSE l
<1>1. \A l \in table : /\ new(l).task = l.task /\ new(l).user = l.user
                        /\ new(l).project = l.project
                        /\ new(l).idle = IF l.task = t /\ l.user = u THEN 0 ELSE l.idle
  BY DEF Lease
<1>2. Touched(table, t, u) = {new(l) : l \in table}
  BY DEF Touched
<1> HIDE DEF new
<1> QED
  BY <1>1, <1>2 DEF HeldByOne

(***************************************************************************)
(* A heartbeat touches all leases of a task.                               *)
(***************************************************************************)
LEMMA RefreshedByOne ==
    ASSUME NEW table \in SUBSET Lease, HeldByOne(table), NEW t
    PROVE  HeldByOne(Refreshed(table, t))
<1> DEFINE new(l) == IF l.task = t THEN [l EXCEPT !.idle = 0] ELSE l
<1>1. \A l \in table : /\ new(l).task = l.task /\ new(l).user = l.user
                        /\ new(l).project = l.project
                        /\ new(l).idle = IF l.task = t THEN 0 ELSE l.idle
  BY DEF Lease
<1>2. Refreshed(table, t) = {new(l) : l \in table}
  BY DEF Refreshed
<1> HIDE DEF new
<1> QED
  BY <1>1, <1>2 DEF HeldByOne

(***************************************************************************)
(* Leases of one age grow old together.                                    *)
(***************************************************************************)
LEMMA AgedByOne ==
    ASSUME NEW table \in SUBSET Lease, HeldByOne(table)
    PROVE  HeldByOne(Aged(table))
<1> DEFINE new(l) == [l EXCEPT !.idle = IF @ < MaxIdle THEN @ + 1 ELSE @]
<1>1. \A l \in table : /\ new(l).task = l.task /\ new(l).user = l.user
                        /\ new(l).project = l.project
                        /\ new(l).idle = IF l.idle < MaxIdle THEN l.idle + 1 ELSE l.idle
  BY DEF Lease
<1>2. Aged(table) = {new(l) : l \in table}
  BY DEF Aged
<1> HIDE DEF new
<1> QED
  BY <1>1, <1>2 DEF HeldByOne

(***************************************************************************)
(* What the notification cron leaves of a lease: task, holder, project,    *)
(* pattern and age, whether the mark is set or not.                        *)
(***************************************************************************)
LEMMA NotifiedRows ==
    ASSUME NEW table \in SUBSET Lease
    PROVE  /\ \A l \in table : \E m \in StaleNotified(table) :
                 /\ m.task = l.task /\ m.user = l.user /\ m.project = l.project
                 /\ m.pattern = l.pattern /\ m.idle = l.idle
           /\ \A m \in StaleNotified(table) : \E l \in table :
                 /\ m.task = l.task /\ m.user = l.user /\ m.project = l.project
                 /\ m.pattern = l.pattern /\ m.idle = l.idle
<1> DEFINE new(l) == IF IsStale(l) /\ ~l.notified /\ l.user \in Notifiable
                       THEN [l EXCEPT !.notified = TRUE] ELSE l
<1>1. \A l \in table : /\ new(l).task = l.task /\ new(l).user = l.user
                        /\ new(l).project = l.project /\ new(l).pattern = l.pattern
                        /\ new(l).idle = l.idle
  BY DEF Lease
<1>2. StaleNotified(table) = {new(l) : l \in table}
  BY DEF StaleNotified
<1> HIDE DEF new
<1> QED
  BY <1>1, <1>2

(***************************************************************************)
(* The notification cron changes no holder and no age.                     *)
(***************************************************************************)
LEMMA NotifiedByOne ==
    ASSUME NEW table \in SUBSET Lease, HeldByOne(table)
    PROVE  HeldByOne(StaleNotified(table))
BY NotifiedRows DEF HeldByOne

(***************************************************************************)
(* A lease the cron takes away is overdue itself: it goes with a row of    *)
(* its task that is, and the two have one age.                             *)
(***************************************************************************)
LEMMA OnlyOverdueGo ==
    ASSUME LeaseTypeOK, OneHolder, PoliceStaleLeases,
           NEW l \in leases, l.idle <= AutoReleaseAfter
    PROVE  \E m \in leases' : m.task = l.task /\ m.pattern = l.pattern
<1> DEFINE noted == StaleNotified(leases)
<1>1. leases \in SUBSET Lease
  BY DEF LeaseTypeOK
<1>2. leases' = ReleasedBy(noted, Overdue(noted))
  BY DEF PoliceStaleLeases
<1>3. PICK m \in noted : m.task = l.task /\ m.pattern = l.pattern
  BY <1>1, NotifiedRows
<1>4. l.task \notin Overdue(noted)
  <2> SUFFICES ASSUME l.task \in Overdue(noted) PROVE FALSE
    OBVIOUS
  <2>1. PICK k \in noted : k.task = l.task /\ k.idle > AutoReleaseAfter
    BY DEF Overdue
  <2>2. PICK n \in leases : n.task = k.task /\ n.idle = k.idle
    BY <1>1, NotifiedRows
  <2>3. n.idle = l.idle
    BY <2>1, <2>2 DEF OneHolder
  <2>4. l.idle \in Nat /\ AutoReleaseAfter \in Nat
    BY <1>1, LeaseAssumption DEF Lease
  <2> QED
    BY <2>1, <2>2, <2>3, <2>4
<1> HIDE DEF noted
<1> QED
  BY <1>2, <1>3, <1>4 DEF ReleasedBy

-----------------------------------------------------------------------------
(* The statements as transactions of their own.                            *)

(***************************************************************************)
(* Every statement leaves a well-formed lease table.                       *)
(***************************************************************************)
LEMMA LeaseNextType ==
    ASSUME LeaseTypeOK, LeaseNext
    PROVE  LeaseTypeOK'
<1> USE DEF LeaseTypeOK
<1>1. ASSUME NEW t \in Task, NEW p \in Project, NEW u \in User,
             NEW patterns \in SUBSET Pattern, Acquire(t, p, u, patterns)
      PROVE  LeaseTypeOK'
  BY <1>1, AcquiredType DEF Acquire
<1>2. ASSUME NEW t \in Task, Release(t)
      PROVE  LeaseTypeOK'
  BY <1>2, ReleasedType DEF Release
<1>3. ASSUME NEW t \in Task, NEW u \in User, TouchHeldBy(t, u)
      PROVE  LeaseTypeOK'
  BY <1>3, TouchedType DEF TouchHeldBy
<1>4. ASSUME NEW t \in Task, Heartbeat(t)
      PROVE  LeaseTypeOK'
  BY <1>4, RefreshedType DEF Heartbeat
<1>5. CASE Tick
  BY <1>5, AgedType DEF Tick
<1>6. CASE PoliceStaleLeases
  BY <1>6, StaleNotifiedType, ReleasedType DEF PoliceStaleLeases
<1> QED
  BY <1>1, <1>2, <1>3, <1>4, <1>5, <1>6 DEF LeaseNext

(***************************************************************************)
(* What the cron does to the files: the tasks it finds overdue give up     *)
(* everything they hold.                                                   *)
(***************************************************************************)
LEMMA PoliceGives ==
    ASSUME LeaseTypeOK, PoliceStaleLeases
    PROVE  Book!Next
<1> DEFINE noted == StaleNotified(leases)
<1>1. leases \in SUBSET Lease /\ noted \in SUBSET Lease
  BY StaleNotifiedType DEF LeaseTypeOK
<1>2. leases' = ReleasedBy(noted, Overdue(noted))
  BY DEF PoliceStaleLeases
<1>3. Overdue(noted) \in SUBSET Task
  BY <1>1 DEF Overdue, Lease
<1>4. Files(noted) = Files(leases)
  BY <1>1, SameFiles
<1>5. Files(leases') = {f \in Files(noted) : f.task \notin Overdue(noted)}
  BY <1>2, FilesReleased
<1> HIDE DEF noted
<1> QED
  BY <1>3, <1>4, <1>5, BookGives

(***************************************************************************)
(* Every statement is a step of the lease book.                            *)
(***************************************************************************)
LEMMA LeaseNextBook ==
    ASSUME LeaseTypeOK, LeaseNext
    PROVE  Book!Next
<1>1. leases \in SUBSET Lease
  BY DEF LeaseTypeOK
<1>2. ASSUME NEW t \in Task, NEW p \in Project, NEW u \in User,
             NEW patterns \in SUBSET Pattern, Acquire(t, p, u, patterns)
      PROVE  Book!Next
  <2>1. Files(leases) = {f \in Files(leases) : f.task \notin {}}
    OBVIOUS
  <2> QED
    BY <1>1, <1>2, <2>1, BookTakes DEF Acquire
<1>3. ASSUME NEW t \in Task, Release(t)
      PROVE  Book!Next
  BY <1>3, FilesReleased, BookGives DEF Release
<1>4. ASSUME NEW t \in Task, NEW u \in User, TouchHeldBy(t, u)
      PROVE  Book!Next
  BY <1>1, <1>4, SameFiles, BookKeeps DEF TouchHeldBy
<1>5. ASSUME NEW t \in Task, Heartbeat(t)
      PROVE  Book!Next
  BY <1>1, <1>5, SameFiles, BookKeeps DEF Heartbeat
<1>6. CASE Tick
  BY <1>1, <1>6, SameFiles, BookKeeps DEF Tick
<1>7. CASE PoliceStaleLeases
  BY <1>7, PoliceGives
<1> QED
  BY <1>2, <1>3, <1>4, <1>5, <1>6, <1>7 DEF LeaseNext

(***************************************************************************)
(* The lease table is well formed after any sequence of statements.        *)
(***************************************************************************)
THEOREM LeaseTypeCorrect == LeaseSpec => []LeaseTypeOK
<1>1. LeaseInit => LeaseTypeOK
  BY DEF LeaseInit, LeaseTypeOK
<1>2. LeaseTypeOK /\ [LeaseNext]_leases => LeaseTypeOK'
  BY LeaseNextType DEF LeaseTypeOK
<1> QED
  BY <1>1, <1>2, PTL DEF LeaseSpec

(***************************************************************************)
(* The statements on the lease table implement the lease book.             *)
(***************************************************************************)
THEOREM LeasesImplementBook == LeaseSpec => ImplementsLeaseBook
<1>1. LeaseInit => Book!Init
  BY DEF LeaseInit, Book!Init, Files
<1>2. LeaseTypeOK /\ [LeaseNext]_leases => [Book!Next]_(Files(leases))
  BY LeaseNextBook DEF Files
<1> QED
  BY <1>1, <1>2, LeaseTypeCorrect, PTL DEF LeaseSpec, ImplementsLeaseBook, Book!Spec

(***************************************************************************)
(* Exclusion is what the lease book promises, read back through the        *)
(* refinement: the three facts below are about Book's steps, not about the *)
(* statements.  Giving up holdings cannot make two of the rest overlap.    *)
(***************************************************************************)
LEMMA GiveKeepsExclusive ==
    ASSUME NEW ts, Book!Exclusive, Book!Give(ts)
    PROVE  Book!Exclusive'
BY DEF Book!Exclusive, Book!Give, Book!HeldBy

(***************************************************************************)
(* Taking patterns nobody else overlaps keeps the holdings exclusive: of   *)
(* two holdings of different tasks at most one is new, and the guard of    *)
(* Take compared it with the other in both directions.                     *)
(***************************************************************************)
LEMMA TakeKeepsExclusive ==
    ASSUME NEW t, NEW p, NEW patterns, NEW ts, Book!Exclusive, Book!Take(t, p, patterns, ts)
    PROVE  Book!Exclusive'
<1> DEFINE Kept  == Files(leases) \ Book!HeldBy(ts \cup {t})
           Taken == [task : {t}, project : {p}, pattern : patterns]
<1> SUFFICES ASSUME NEW h \in Kept \cup Taken, NEW g \in Kept \cup Taken,
                    h.task # g.task, h.project = g.project
             PROVE  <<h.pattern, g.pattern>> \notin Overlap
  BY DEF Book!Exclusive, Book!Take
<1>1. CASE h \in Kept /\ g \in Kept
  BY <1>1 DEF Book!Exclusive
<1>2. CASE h \in Taken /\ g \in Kept
  BY <1>2 DEF Book!Take, Book!HeldBy
<1>3. CASE h \in Kept /\ g \in Taken
  BY <1>3 DEF Book!Take, Book!HeldBy
<1>4. CASE h \in Taken /\ g \in Taken
  BY <1>4
<1> QED
  BY <1>1, <1>2, <1>3, <1>4

(***************************************************************************)
(* Whatever implements the lease book keeps its holdings exclusive.        *)
(***************************************************************************)
THEOREM LeaseBookExclusive == Book!Spec => []Book!Exclusive
<1>1. Book!Init => Book!Exclusive
  BY DEF Book!Init, Book!Exclusive
<1>2. Book!Exclusive /\ [Book!Next]_(Files(leases)) => Book!Exclusive'
  <2> SUFFICES ASSUME Book!Exclusive, [Book!Next]_(Files(leases))
               PROVE  Book!Exclusive'
    OBVIOUS
  <2>1. CASE Book!Next
    BY <2>1, GiveKeepsExclusive, TakeKeepsExclusive DEF Book!Next
  <2>2. CASE UNCHANGED Files(leases)
    BY <2>2 DEF Book!Exclusive
  <2> QED
    BY <2>1, <2>2
<1> QED
  BY <1>1, <1>2, PTL DEF Book!Spec

(***************************************************************************)
(* Whatever implements the lease book keeps the leases exclusive.          *)
(***************************************************************************)
LEMMA BookExclusive == ImplementsLeaseBook => []LeaseExclusion
<1>1. Book!Exclusive => LeaseExclusion
  <2> SUFFICES ASSUME Book!Exclusive, NEW l \in leases, NEW m \in leases,
                      l.task # m.task, l.project = m.project
               PROVE  <<l.pattern, m.pattern>> \notin Overlap
    BY DEF LeaseExclusion
  <2> DEFINE file(k) == [task |-> k.task, project |-> k.project, pattern |-> k.pattern]
  <2>1. file(l) \in Files(leases) /\ file(m) \in Files(leases)
    BY DEF Files
  <2> QED
    BY <2>1 DEF Book!Exclusive
<1> QED
  BY <1>1, LeaseBookExclusive, PTL DEF ImplementsLeaseBook

(***************************************************************************)
(* Two tasks never hold overlapping patterns in one project, whatever      *)
(* statements run on the lease table.                                      *)
(***************************************************************************)
THEOREM LeasesExclude == LeaseSpec => []LeaseExclusion
BY LeasesImplementBook, BookExclusive, PTL

(***************************************************************************)
(* Every statement leaves each task with one holder, in one project and of *)
(* one age.                                                                *)
(***************************************************************************)
LEMMA LeaseNextByOne ==
    ASSUME LeaseTypeOK, OneHolder, LeaseNext
    PROVE  OneHolder'
<1>1. leases \in SUBSET Lease /\ HeldByOne(leases)
  BY DEF LeaseTypeOK, OneHolder, HeldByOne
<1> SUFFICES HeldByOne(leases')
  BY DEF OneHolder, HeldByOne
<1>2. ASSUME NEW t \in Task, NEW p \in Project, NEW u \in User,
             NEW patterns \in SUBSET Pattern, Acquire(t, p, u, patterns)
      PROVE  HeldByOne(leases')
  BY <1>1, <1>2, AcquiredByOne DEF Acquire
<1>3. ASSUME NEW t \in Task, Release(t)
      PROVE  HeldByOne(leases')
  BY <1>1, <1>3, ReleasedByOne DEF Release
<1>4. ASSUME NEW t \in Task, NEW u \in User, TouchHeldBy(t, u)
      PROVE  HeldByOne(leases')
  BY <1>1, <1>4, TouchedByOne DEF TouchHeldBy
<1>5. ASSUME NEW t \in Task, Heartbeat(t)
      PROVE  HeldByOne(leases')
  BY <1>1, <1>5, RefreshedByOne DEF Heartbeat
<1>6. CASE Tick
  BY <1>1, <1>6, AgedByOne DEF Tick
<1>7. CASE PoliceStaleLeases
  BY <1>1, <1>7, NotifiedByOne, ReleasedByOne DEF PoliceStaleLeases
<1> QED
  BY <1>2, <1>3, <1>4, <1>5, <1>6, <1>7 DEF LeaseNext

(***************************************************************************)
(* All leases of a task have one holder, one project and one age, whatever *)
(* statements run on the lease table.                                      *)
(***************************************************************************)
THEOREM LeasesHaveOneHolder == LeaseSpec => []OneHolder
<1>1. LeaseInit => OneHolder
  BY DEF LeaseInit, OneHolder
<1>2. LeaseTypeOK /\ OneHolder /\ [LeaseNext]_leases => OneHolder'
  BY LeaseNextByOne DEF OneHolder
<1> QED
  BY <1>1, <1>2, LeaseTypeCorrect, PTL DEF LeaseSpec

(***************************************************************************)
(* Where tasks have one holder the cron spares what is active.             *)
(***************************************************************************)
LEMMA OneHolderSpares == [](LeaseTypeOK /\ OneHolder) => CronSparesActive
<1>1. LeaseTypeOK /\ OneHolder =>
         [PoliceStaleLeases =>
            \A l \in leases : l.idle <= AutoReleaseAfter =>
               \E m \in leases' : m.task = l.task /\ m.pattern = l.pattern]_leases
  BY OnlyOverdueGo
<1> QED
  BY <1>1, PTL DEF CronSparesActive

(***************************************************************************)
(* The cron takes a lease away only when that very lease has been silent   *)
(* for longer than the threshold.                                          *)
(***************************************************************************)
THEOREM LeaseCronSpares == LeaseSpec => CronSparesActive
BY LeaseTypeCorrect, LeasesHaveOneHolder, OneHolderSpares, PTL

(***************************************************************************)
(* THE RELATIONS TABLE ON ITS OWN.  The check on creation looks at the     *)
(* rows of the new relation's own kind; that the inverse kind needs no     *)
(* check of its own is a consequence of the mirror: the edges of one kind  *)
(* are those of the other turned round.                                    *)
(***************************************************************************)

-----------------------------------------------------------------------------
(* Kinds.                                                                  *)

(***************************************************************************)
(* Taking the inverse twice gives the kind back, and only "related" is its *)
(* own inverse.                                                            *)
(***************************************************************************)
LEMMA InverseKinds ==
    \A k \in AllKinds : /\ InverseRelation[k] \in AllKinds
                        /\ InverseRelation[InverseRelation[k]] = k
                        /\ k \in AcyclicKinds => /\ InverseRelation[k] # k
                                                 /\ InverseRelation[k] \in AcyclicKinds
BY DEF AllKinds, AcyclicKinds, InverseRelation

(***************************************************************************)
(* The kinds in use are closed under inverse.                              *)
(***************************************************************************)
LEMMA InverseInUse == \A k \in RelationKind : k \in AllKinds /\ InverseRelation[k] \in RelationKind
<1>1. /\ "subtask" \in RelationKind <=> "parenttask" \in RelationKind
      /\ "blocked" \in RelationKind <=> "blocking" \in RelationKind
      /\ "follows" \in RelationKind <=> "precedes" \in RelationKind
  <2>1. \A pair \in {<<"subtask", "parenttask">>, <<"blocked", "blocking">>,
                     <<"follows", "precedes">>} :
           pair[1] \in RelationKind <=> pair[2] \in RelationKind
    BY RelationAssumption
  <2>2. \A x, y : <<x, y>>[1] = x /\ <<x, y>>[2] = y
    OBVIOUS
  <2>3. /\ <<"subtask", "parenttask">>[1] \in RelationKind
             <=> <<"subtask", "parenttask">>[2] \in RelationKind
        /\ <<"blocked", "blocking">>[1] \in RelationKind
             <=> <<"blocked", "blocking">>[2] \in RelationKind
        /\ <<"follows", "precedes">>[1] \in RelationKind
             <=> <<"follows", "precedes">>[2] \in RelationKind
    BY <2>1, Zenon
  <2> QED
    BY <2>2, <2>3
<1> QED
  BY <1>1, RelationAssumption DEF AllKinds, InverseRelation

-----------------------------------------------------------------------------
(* Paths.                                                                  *)

Acyclic(edges) == \A e \in edges : ~Reaches(edges, e[2], e[1])

(***************************************************************************)
(* What fewer edges reach, more edges reach: a set closed under the larger *)
(* set of edges is closed under the smaller one.                           *)
(***************************************************************************)
LEMMA FewerEdges ==
    ASSUME NEW edges, NEW fewer \in SUBSET edges, Acyclic(edges)
    PROVE  Acyclic(fewer)
BY DEF Acyclic, Reaches

(***************************************************************************)
(* Following the edges backwards leads from y to x exactly when following  *)
(* them forwards leads from x to y: the complement of a closed set is      *)
(* closed under the edges turned round.                                    *)
(***************************************************************************)
LEMMA ReachesBackwards ==
    ASSUME NEW edges \in SUBSET (Task \X Task), NEW turned \in SUBSET (Task \X Task),
           \A a, b \in Task : <<a, b>> \in turned => <<b, a>> \in edges,
           NEW x \in Task, NEW y \in Task, ~Reaches(edges, x, y)
    PROVE  ~Reaches(turned, y, x)
<1>1. PICK S \in SUBSET Task : x \in S /\ y \notin S /\ \A e \in edges : e[1] \in S => e[2] \in S
  BY DEF Reaches
<1>2. ASSUME NEW e \in turned, e[1] \in Task \ S
      PROVE  e[2] \in Task \ S
  <2>1. e[1] \in Task /\ e[2] \in Task /\ e = <<e[1], e[2]>>
    OBVIOUS
  <2>2. <<e[2], e[1]>> \in edges
    BY <2>1
  <2> QED
    BY <1>1, <1>2, <2>1, <2>2
<1>3. Task \ S \in SUBSET Task /\ y \in Task \ S /\ x \notin Task \ S
  BY <1>1
<1> QED
  BY <1>2, <1>3 DEF Reaches

(***************************************************************************)
(* The heart of the cycle check: an edge from a to b, added when b does    *)
(* not reach a, closes no cycle.  For the new edge the closed set that     *)
(* separates b from a still serves.  For an old edge, from x to y, a set   *)
(* that separated y from x serves unless it holds a and not b; it is then  *)
(* joined with the first set when that leaves x out, and cut with it       *)
(* otherwise.                                                              *)
(***************************************************************************)
LEMMA EdgeClosesNoCycle ==
    ASSUME NEW edges \in SUBSET (Task \X Task), Acyclic(edges),
           NEW a \in Task, NEW b \in Task, ~Reaches(edges, b, a)
    PROVE  Acyclic(edges \cup {<<a, b>>})
<1> DEFINE more == edges \cup {<<a, b>>}
           Closed(S, es) == \A e \in es : e[1] \in S => e[2] \in S
<1>1. PICK B \in SUBSET Task : b \in B /\ a \notin B /\ Closed(B, edges)
  BY DEF Reaches
<1>2. Closed(B, more)
  BY <1>1
<1> SUFFICES ASSUME NEW e \in more
             PROVE  \E S \in SUBSET Task : e[2] \in S /\ e[1] \notin S /\ Closed(S, more)
  BY DEF Acyclic, Reaches
<1>3. CASE e = <<a, b>>
  BY <1>1, <1>2, <1>3
<1>4. CASE e \in edges
  <2>1. PICK S \in SUBSET Task : e[2] \in S /\ e[1] \notin S /\ Closed(S, edges)
    BY <1>4 DEF Acyclic, Reaches
  <2>2. CASE a \notin S
    <3>1. Closed(S, more)
      BY <2>1, <2>2
    <3> QED
      BY <2>1, <3>1
  <2>3. CASE a \in S /\ e[1] \notin B
    <3>1. Closed(S \cup B, more)
      BY <1>1, <2>1
    <3>2. S \cup B \in SUBSET Task /\ e[2] \in S \cup B /\ e[1] \notin S \cup B
      BY <2>1, <2>3
    <3> QED
      BY <3>1, <3>2
  <2>4. CASE e[1] \in B
    <3>1. e[2] \in S \cap B
      BY <1>1, <1>4, <2>1, <2>4
    <3>2. Closed(S \cap B, more)
      BY <1>1, <2>1
    <3>3. S \cap B \in SUBSET Task /\ e[1] \notin S \cap B
      BY <2>1
    <3> QED
      BY <3>1, <3>2, <3>3
  <2> QED
    BY <2>2, <2>3, <2>4
<1> QED
  BY <1>3, <1>4

-----------------------------------------------------------------------------
(* The table.                                                              *)

RelationInv == RelationTypeOK /\ Mirrored /\ AcyclicPerKind

(***************************************************************************)
(* Rows of the table and edges of a kind say the same.                     *)
(***************************************************************************)
LEMMA EdgeRows ==
    ASSUME RelationTypeOK, NEW k
    PROVE  /\ Edges(k) \in SUBSET (Task \X Task)
           /\ \A a, b \in Task : <<a, b>> \in Edges(k) <=> <<a, k, b>> \in relations
<1>1. \A r \in relations : r = <<r[1], r[2], r[3]>> /\ r[1] \in Task /\ r[3] \in Task
  BY DEF RelationTypeOK, Row
<1> QED
  BY <1>1 DEF Edges, EdgesIn

(***************************************************************************)
(* The edges of a kind are those of its inverse, turned round.             *)
(***************************************************************************)
LEMMA TurnedEdges ==
    ASSUME RelationTypeOK, Mirrored, NEW k \in RelationKind
    PROVE  \A a, b \in Task : <<a, b>> \in Edges(InverseRelation[k]) => <<b, a>> \in Edges(k)
<1> SUFFICES ASSUME NEW a \in Task, NEW b \in Task, <<a, InverseRelation[k], b>> \in relations
             PROVE  <<b, k, a>> \in relations
  BY EdgeRows
<1>1. <<b, InverseRelation[InverseRelation[k]], a>> \in relations
  BY DEF Mirrored
<1> QED
  BY <1>1, InverseKinds, InverseInUse

(***************************************************************************)
(* A row adds an edge to its own kind only.                                *)
(***************************************************************************)
LEMMA EdgesGrow ==
    ASSUME NEW j, NEW a, NEW b, NEW k, NEW c, NEW d, j # k,
           relations' = relations \cup {<<a, j, b>>, <<c, k, d>>}
    PROVE  Edges(j)' = Edges(j) \cup {<<a, b>>}
<1> DEFINE r == <<a, j, b>>
           q == <<c, k, d>>
<1>1. r[1] = a /\ r[2] = j /\ r[3] = b /\ q[2] = k
  OBVIOUS
<1> HIDE DEF r, q
<1>2. {x \in relations' : x[2] = j} = {x \in relations : x[2] = j} \cup {r}
  BY <1>1 DEF r, q
<1>3. Edges(j)' = {<<x[1], x[3]>> : x \in {x \in relations' : x[2] = j}}
  BY DEF Edges, EdgesIn
<1>4. {<<x[1], x[3]>> : x \in {x \in relations : x[2] = j} \cup {r}}
        = Edges(j) \cup {<<r[1], r[3]>>}
  BY DEF Edges, EdgesIn
<1> QED
  BY <1>1, <1>2, <1>3, <1>4

(***************************************************************************)
(* A new relation leaves the table typed, mirrored and acyclic.            *)
(***************************************************************************)
LEMMA CreateKeeps ==
    ASSUME RelationInv, NEW t \in Task, NEW k \in RelationKind, NEW o \in Task,
           CreateRelation(t, k, o)
    PROVE  RelationInv'
<1> USE DEF RelationInv
<1>1. relations' = relations \cup {<<t, k, o>>, <<o, InverseRelation[k], t>>}
  BY DEF CreateRelation
<1>2. RelationTypeOK'
  BY <1>1, InverseInUse DEF RelationTypeOK, Row
<1>3. Mirrored'
  <2> SUFFICES ASSUME NEW r \in relations'
               PROVE  <<r[3], InverseRelation[r[2]], r[1]>> \in relations'
    BY DEF Mirrored
  <2>1. CASE r \in relations
    BY <1>1, <2>1 DEF Mirrored
  <2>2. CASE r = <<t, k, o>>
    BY <1>1, <2>2
  <2>3. CASE r = <<o, InverseRelation[k], t>>
    BY <1>1, <2>3, InverseKinds, InverseInUse
  <2> QED
    BY <1>1, <2>1, <2>2, <2>3
<1>4. AcyclicPerKind'
  <2> SUFFICES ASSUME NEW j \in RelationKind \cap AcyclicKinds
               PROVE  Acyclic(Edges(j)')
    BY DEF AcyclicPerKind, Acyclic
  <2>1. Edges(j) \in SUBSET (Task \X Task) /\ Acyclic(Edges(j))
    BY EdgeRows DEF AcyclicPerKind, Acyclic
  <2>2. CASE j = k
    <3>1. InverseRelation[k] # k /\ ~Reaches(Edges(k), o, t)
      BY <2>2, InverseKinds, InverseInUse DEF CreateRelation
    <3>2. Edges(j)' = Edges(j) \cup {<<t, o>>}
      BY <1>1, <2>2, <3>1, EdgesGrow
    <3> QED
      BY <2>1, <2>2, <3>1, <3>2, EdgeClosesNoCycle
  <2>3. CASE j = InverseRelation[k]
    <3>1. k \in AcyclicKinds /\ j # k /\ InverseRelation[j] = k
      BY <2>3, InverseKinds, InverseInUse
    <3>2. ~Reaches(Edges(k), o, t)
      BY <3>1 DEF CreateRelation
    <3>3. ~Reaches(Edges(j), t, o)
      BY <2>1, <2>3, <3>2, EdgeRows, TurnedEdges, ReachesBackwards
    <3>4. Edges(j)' = Edges(j) \cup {<<o, t>>}
      <4>1. relations' = relations \cup {<<o, j, t>>, <<t, k, o>>}
        BY <1>1, <2>3
      <4> QED
        BY <3>1, <4>1, EdgesGrow
    <3> QED
      BY <2>1, <3>3, <3>4, EdgeClosesNoCycle
  <2>4. CASE j # k /\ j # InverseRelation[k]
    <3>1. Edges(j)' = Edges(j)
      BY <1>1, <2>4 DEF Edges, EdgesIn
    <3> QED
      BY <2>1, <3>1
  <2> QED
    BY <2>2, <2>3, <2>4
<1> QED
  BY <1>2, <1>3, <1>4

(***************************************************************************)
(* Dropping rows closes no cycle.                                          *)
(***************************************************************************)
LEMMA FewerRows ==
    ASSUME AcyclicPerKind, relations' \subseteq relations
    PROVE  AcyclicPerKind'
<1> SUFFICES ASSUME NEW k \in RelationKind \cap AcyclicKinds
             PROVE  Acyclic(Edges(k)')
  BY DEF AcyclicPerKind, Acyclic
<1>1. Acyclic(Edges(k))
  BY DEF AcyclicPerKind, Acyclic
<1>2. Edges(k)' \subseteq Edges(k)
  BY DEF Edges, EdgesIn
<1> QED
  BY <1>1, <1>2, FewerEdges

(***************************************************************************)
(* Deleting a relation takes both of its rows, and no row of another.      *)
(***************************************************************************)
LEMMA DeleteKeeps ==
    ASSUME RelationInv, NEW t \in Task, NEW k \in RelationKind, NEW o \in Task,
           DeleteRelation(t, k, o)
    PROVE  RelationInv'
<1> USE DEF RelationInv
<1>1. relations' = relations \ {<<t, k, o>>, <<o, InverseRelation[k], t>>}
  BY DEF DeleteRelation
<1>2. RelationTypeOK'
  BY <1>1 DEF RelationTypeOK
<1>3. Mirrored'
  <2> SUFFICES ASSUME NEW r \in relations'
               PROVE  <<r[3], InverseRelation[r[2]], r[1]>> \in relations'
    BY DEF Mirrored
  <2>1. r = <<r[1], r[2], r[3]>> /\ r[2] \in RelationKind
    BY <1>1 DEF RelationTypeOK, Row
  <2>2. <<r[3], InverseRelation[r[2]], r[1]>> \in relations
    BY <1>1 DEF Mirrored
  <2>3. <<r[3], InverseRelation[r[2]], r[1]>> # <<t, k, o>>
    BY <1>1, <2>1, InverseKinds, InverseInUse
  <2>4. <<r[3], InverseRelation[r[2]], r[1]>> # <<o, InverseRelation[k], t>>
    BY <1>1, <2>1, InverseKinds, InverseInUse
  <2> QED
    BY <1>1, <2>2, <2>3, <2>4
<1> QED
  BY <1>1, <1>2, <1>3, FewerRows

(***************************************************************************)
(* The purge of a task takes its rows in both directions.                  *)
(***************************************************************************)
LEMMA PurgeKeeps ==
    ASSUME RelationInv, NEW t \in Task, PurgeRelations(t)
    PROVE  RelationInv'
<1> USE DEF RelationInv
<1>1. relations' = {r \in relations : r[1] # t /\ r[3] # t}
  BY DEF PurgeRelations
<1>2. RelationTypeOK' /\ Mirrored'
  BY <1>1 DEF RelationTypeOK, Mirrored
<1> QED
  BY <1>1, <1>2, FewerRows

(***************************************************************************)
(* However relations are created, deleted and purged, the table is typed,  *)
(* both rows of every relation are there, and no chain of relations of one *)
(* ordering kind comes back to its start.                                  *)
(***************************************************************************)
THEOREM RelationsCorrect ==
    RelationSpec => [](RelationTypeOK /\ Mirrored /\ AcyclicPerKind)
<1>1. RelationInit => RelationInv
  BY DEF RelationInit, RelationInv, RelationTypeOK, Mirrored, AcyclicPerKind, Edges, EdgesIn
<1>2. RelationInv /\ [RelationNext]_relations => RelationInv'
  <2> SUFFICES ASSUME RelationInv, [RelationNext]_relations
               PROVE  RelationInv'
    OBVIOUS
  <2>1. CASE RelationNext
    BY <2>1, CreateKeeps, DeleteKeeps, PurgeKeeps DEF RelationNext
  <2>2. CASE UNCHANGED relations
    BY <2>2 DEF RelationInv, RelationTypeOK, Mirrored, AcyclicPerKind, Edges, EdgesIn
  <2> QED
    BY <2>1, <2>2
<1> QED
  BY <1>1, <1>2, PTL DEF RelationSpec, RelationInv

(***************************************************************************)
(* THE BOARD.                                                              *)
(***************************************************************************)

\* The tables a handler has changed so far.
TablesType == [done   : [Task -> BOOLEAN],
               rows   : [Task -> [View -> BucketRow]],
               leases : SUBSET Lease]

-----------------------------------------------------------------------------
(* The operators the handlers are composed of keep the tables well typed.  *)

(***************************************************************************)
(* Where a view sends its tasks is one of its buckets, or none.            *)
(***************************************************************************)
LEMMA ViewBuckets ==
    ASSUME NEW v \in View
    PROVE  /\ Default(v) \in Bucket
           /\ DefaultBucket[v] \in Bucket \cup {NoBucket}
           /\ DoneBucket[v] \in Bucket \cup {NoBucket}
BY BoardAssumption DEF BoardAssumption, Default, BucketsIn

(***************************************************************************)
(* Whoever comes to hold a task that enters a claim bucket is a user.      *)
(***************************************************************************)
LEMMA HolderType ==
    ASSUME NEW u \in User, NEW who \in SUBSET User
    PROVE  /\ Holder(u, who) \in User
           /\ AssignedOnEntry(u, who) \in SUBSET User
<1>1. ASSUME Cardinality(who) = 1
      PROVE  who # {}
  BY <1>1, FS_EmptySet
<1>2. Cardinality(who) = 1 => (CHOOSE a \in who : TRUE) \in User
  BY <1>1
<1> QED
  BY <1>2 DEF Holder, AssignedOnEntry

(***************************************************************************)
(* Moving a task into buckets leaves a row per view.                       *)
(***************************************************************************)
LEMMA MovedRowsType ==
    ASSUME NEW u \in User, NEW current \in [View -> BucketRow], NEW target,
           DOMAIN target \subseteq View,
           \A v \in DOMAIN target : target[v] \in Bucket \cup {NoBucket}
    PROVE  MovedRows(u, current, target) \in [View -> BucketRow]
<1> SUFFICES ASSUME NEW v \in View
             PROVE  (IF v \in DOMAIN target /\ v \in Entering(current, target)
                     THEN [bucket |-> target[v], movedBy |-> u] ELSE current[v]) \in BucketRow
  BY DEF MovedRows
<1> QED
  BY DEF BucketRow

(***************************************************************************)
(* A row a task gets in the done bucket of a view is a bucket row.         *)
(***************************************************************************)
LEMMA InDoneBucketType ==
    ASSUME NEW u \in User, NEW v \in View
    PROVE  InDoneBucket(u, v) \in BucketRow
BY ViewBuckets DEF InDoneBucket, BucketRow

(***************************************************************************)
(* Finishing a task, and the parents that close with it, leaves well-typed *)
(* tables.                                                                 *)
(***************************************************************************)
LEMMA FinishedType ==
    ASSUME TypeOK, NEW u \in User, NEW t \in Task
    PROVE  Finished(u, t) \in TablesType
<1> DEFINE closed == ClosingParents(t)
<1>1. [x \in Task |-> done[x] \/ x = t \/ x \in closed] \in [Task -> BOOLEAN]
  OBVIOUS
<1>2. FinishedRows(u, t, rows[t]) \in [View -> BucketRow]
  BY InDoneBucketType DEF FinishedRows, TypeOK
<1>3. \A x \in Task : ParentRows(u, x) \in [View -> BucketRow]
  BY InDoneBucketType DEF ParentRows, TypeOK
<1>4. [x \in Task |-> IF x = t THEN FinishedRows(u, t, rows[t])
                      ELSE IF x \in closed THEN ParentRows(u, x)
                      ELSE rows[x]] \in [Task -> [View -> BucketRow]]
  BY <1>2, <1>3 DEF TypeOK
<1>5. ReleasedBy(leases, closed \cup {t}) \in SUBSET Lease
  BY ReleasedType DEF TypeOK, LeaseTypeOK
<1> HIDE DEF closed
<1> QED
  BY <1>1, <1>4, <1>5 DEF Finished, TablesType, closed

(***************************************************************************)
(* Moving a card leaves well-typed tables.                                 *)
(***************************************************************************)
LEMMA MovedTablesType ==
    ASSUME TypeOK, NEW u \in User, NEW t \in Task, NEW v \in View, NEW b \in Bucket
    PROVE  MovedTables(u, t, v, b) \in TablesType
<1>1. CASE Finishes(t, v, b) /\ t \notin Repeating
  BY <1>1, FinishedType DEF MovedTables
<1>2. CASE ~(Finishes(t, v, b) /\ t \notin Repeating)
  <2> DEFINE moved == MovedRows(u, rows[t], To(v, RestingPlace(t, v, b)))
  <2>1. RestingPlace(t, v, b) \in Bucket \cup {NoBucket}
    BY ViewBuckets DEF RestingPlace, TypeOK, BucketRow
  <2>2. moved \in [View -> BucketRow]
    BY <2>1, MovedRowsType DEF To, TypeOK
  <2>3. MovedTables(u, t, v, b) =
          [done   |-> [done EXCEPT ![t] = done[t] /\ ~LeavesDone(t, v, b)],
           rows   |-> [rows EXCEPT ![t] = moved],
           leases |-> leases]
    BY <1>2 DEF MovedTables, TypeOK
  <2>4. [done EXCEPT ![t] = done[t] /\ ~LeavesDone(t, v, b)] \in [Task -> BOOLEAN]
    BY DEF TypeOK
  <2>5. [rows EXCEPT ![t] = moved] \in [Task -> [View -> BucketRow]]
    BY <2>2 DEF TypeOK
  <2> HIDE DEF moved
  <2> QED
    BY <2>3, <2>4, <2>5 DEF TablesType, TypeOK, LeaseTypeOK
<1> QED
  BY <1>1, <1>2

(***************************************************************************)
(* Taking the scope of a task leaves well-formed leases.                   *)
(***************************************************************************)
LEMMA TakenByType ==
    ASSUME TypeOK, NEW tabs, tabs.leases \in SUBSET Lease, NEW t \in Task, NEW holder \in User
    PROVE  TakenBy(tabs, t, holder) \in SUBSET Lease
<1>1. scope[t] \in SUBSET Pattern /\ project[t] \in Project
  BY DEF TypeOK
<1>2. Acquired(tabs.leases, t, project[t], holder, scope[t]) \in SUBSET Lease
  BY <1>1, AcquiredType
<1> QED
  BY <1>2, TouchedType DEF TakenBy

-----------------------------------------------------------------------------
(* The handlers keep the tables well typed.                                *)

(***************************************************************************)
(* The tables a handler writes done, rows, assignees and leases to.        *)
(***************************************************************************)
LEMMA WrittenType ==
    ASSUME TypeOK, NEW t \in Task, NEW who \in SUBSET User,
           done' \in [Task -> BOOLEAN], rows' \in [Task -> [View -> BucketRow]],
           leases' \in SUBSET Lease, assignees' = [assignees EXCEPT ![t] = who],
           UNCHANGED <<status, project, scope, receipt, relations>>
    PROVE  TypeOK'
BY DEF TypeOK, LeaseTypeOK, RelationTypeOK

(***************************************************************************)
(* A drag, and a claim: both move the card and may take leases.            *)
(***************************************************************************)
LEMMA MovingType ==
    ASSUME TypeOK, Moving
    PROVE  TypeOK'
<1>1. ASSUME NEW u \in User, NEW t \in Task, NEW b \in Bucket, MoveToBucket(u, t, ViewOf[b], b)
      PROVE  TypeOK'
  <2> DEFINE moved == MovedTables(u, t, ViewOf[b], b)
             enters == EntersClaimBucket(rows[t], To(ViewOf[b], b))
  <2>1. moved \in TablesType
    BY MovedTablesType, BoardAssumption DEF BoardAssumption
  <2>2. assignees[t] \in SUBSET User
    BY DEF TypeOK
  <2>3. leases' = (IF enters THEN TakenBy(moved, t, Holder(u, assignees[t])) ELSE moved.leases)
    BY <1>1 DEF MoveToBucket
  <2>4. leases' \in SUBSET Lease
    BY <2>1, <2>2, <2>3, HolderType, TakenByType DEF TablesType
  <2>5. done' = moved.done /\ rows' = moved.rows
    BY <1>1 DEF MoveToBucket
  <2>6. assignees' = [assignees EXCEPT ![t] = IF enters THEN AssignedOnEntry(u, assignees[t])
                                               ELSE assignees[t]]
    BY <1>1 DEF MoveToBucket
  <2>7. (IF enters THEN AssignedOnEntry(u, assignees[t]) ELSE assignees[t]) \in SUBSET User
    BY <2>2, HolderType
  <2>8. UNCHANGED <<status, project, scope, receipt, relations>>
    BY <1>1 DEF MoveToBucket
  <2> HIDE DEF moved, enters
  <2> QED
    BY <2>1, <2>4, <2>5, <2>6, <2>7, <2>8, WrittenType DEF TablesType
<1>2. ASSUME NEW u \in User, NEW t \in Task, NEW b \in ClaimTargets,
             NEW e \in Bucket \cup {NoBucket}, ClaimTask(u, t, ViewOf[b], b, e)
      PROVE  TypeOK'
  <2> DEFINE moved == MovedTables(u, t, ViewOf[b], b)
  <2>1. moved \in TablesType
    BY MovedTablesType, BoardAssumption DEF BoardAssumption
  <2>2. leases' = TakenBy(moved, t, u) /\ done' = moved.done /\ rows' = moved.rows
    BY <1>2 DEF ClaimTask
  <2>3. leases' \in SUBSET Lease
    BY <2>1, <2>2, TakenByType DEF TablesType
  <2>4. assignees' = [assignees EXCEPT ![t] = {u}]
    BY <1>2 DEF ClaimTask
  <2>5. UNCHANGED <<status, project, scope, receipt, relations>>
    BY <1>2 DEF ClaimTask
  <2> HIDE DEF moved
  <2> QED
    BY <2>1, <2>2, <2>3, <2>4, <2>5, WrittenType DEF TablesType
<1> QED
  BY <1>1, <1>2 DEF Moving

(***************************************************************************)
(* Marking a task done, one that does not repeat.                          *)
(***************************************************************************)
LEMMA MarkDoneType ==
    ASSUME TypeOK, NEW u \in User, NEW t \in Task, NEW who \in SUBSET User, MarkDone(u, t, who)
    PROVE  TypeOK'
<1> DEFINE enters == \E v \in DoneViews(project[t]) : rows[t][v].bucket # DoneBucket[v]
           flagged == [done |-> [done EXCEPT ![t] = TRUE], rows |-> rows,
                       leases |-> ReleasedBy(leases, {t})]
           tabs == IF enters THEN Finished(u, t) ELSE flagged
<1>2. ReleasedBy(leases, {t}) \in SUBSET Lease
  BY ReleasedType DEF TypeOK, LeaseTypeOK
<1>3. flagged \in TablesType
  BY <1>2 DEF TypeOK, TablesType
<1>4. tabs \in TablesType
  BY <1>3, FinishedType
<1>5. done' = tabs.done /\ rows' = tabs.rows /\ leases' = tabs.leases
  BY DEF MarkDone
<1>6. assignees' = [assignees EXCEPT ![t] = who]
      /\ UNCHANGED <<status, project, scope, receipt, relations>>
  BY DEF MarkDone
<1> HIDE DEF tabs
<1> QED
  BY <1>4, <1>5, <1>6, WrittenType DEF TablesType

(***************************************************************************)
(* What updates that move a task to default buckets have in common: the    *)
(* leases they start from, and those of a claim on entry.                  *)
(***************************************************************************)
LEMMA EntryType ==
    ASSUME TypeOK, NEW tabs, tabs.leases \in SUBSET Lease, NEW t \in Task, NEW u \in User,
           NEW who \in SUBSET User, NEW enters
    PROVE  /\ (IF enters THEN TakenBy(tabs, t, Holder(u, who)) ELSE tabs.leases) \in SUBSET Lease
           /\ (IF enters THEN AssignedOnEntry(u, who) ELSE who) \in SUBSET User
BY HolderType, TakenByType

(***************************************************************************)
(* Completing one run of a repeating task.                                 *)
(***************************************************************************)
LEMMA CompleteOccurrenceType ==
    ASSUME TypeOK, NEW u \in User, NEW t \in Task, NEW who \in SUBSET User,
           CompleteOccurrence(u, t, who)
    PROVE  TypeOK'
<1> DEFINE target == [v \in {x \in ManualViews(project[t]) : DefaultBucket[x] # NoBucket}
                         |-> DefaultBucket[v]]
           moved == MovedRows(u, rows[t], target)
           tabs == [done |-> done, rows |-> [rows EXCEPT ![t] = moved],
                    leases |-> ReleasedBy(leases, {t})]
           enters == EntersClaimBucket(rows[t], target)
<1>1. moved \in [View -> BucketRow]
  BY MovedRowsType, ViewBuckets DEF ManualViews, TypeOK
<1>2. tabs.rows = [rows EXCEPT ![t] = moved] /\ tabs.leases = ReleasedBy(leases, {t})
  OBVIOUS
<1>3. [rows EXCEPT ![t] = moved] \in [Task -> [View -> BucketRow]]
  BY <1>1 DEF TypeOK
<1>4. ReleasedBy(leases, {t}) \in SUBSET Lease
  BY ReleasedType DEF TypeOK, LeaseTypeOK
<1>5. /\ rows' = tabs.rows
      /\ assignees' = [assignees EXCEPT ![t] = IF enters THEN AssignedOnEntry(u, who) ELSE who]
      /\ leases' = IF enters THEN TakenBy(tabs, t, Holder(u, who)) ELSE tabs.leases
      /\ UNCHANGED <<status, project, done, scope, receipt, relations>>
  BY DEF CompleteOccurrence
<1> HIDE DEF target, moved, tabs, enters
<1>6. tabs.rows = [rows EXCEPT ![t] = moved] /\ tabs.leases \in SUBSET Lease
  BY <1>2, <1>4
<1>7. /\ leases' \in SUBSET Lease
      /\ (IF enters THEN AssignedOnEntry(u, who) ELSE who) \in SUBSET User
  BY <1>5, <1>6, EntryType
<1>8. done' \in [Task -> BOOLEAN]
  BY <1>5 DEF TypeOK
<1> QED
  BY <1>3, <1>5, <1>6, <1>7, <1>8, WrittenType

(***************************************************************************)
(* Clearing the done flag.                                                 *)
(***************************************************************************)
LEMMA MarkUndoneType ==
    ASSUME TypeOK, NEW u \in User, NEW t \in Task, NEW who \in SUBSET User,
           MarkUndone(u, t, who)
    PROVE  TypeOK'
<1> DEFINE target == [v \in {x \in ManualViews(project[t]) :
                                t \notin Repeating /\ rows[t][x].bucket = DoneBucket[x]}
                         |-> Default(v)]
           moved == MovedRows(u, rows[t], target)
           tabs == [done |-> [done EXCEPT ![t] = FALSE],
                    rows |-> [rows EXCEPT ![t] = moved],
                    leases |-> Touched(leases, t, u)]
           enters == EntersClaimBucket(rows[t], target)
<1>1. moved \in [View -> BucketRow]
  BY MovedRowsType, ViewBuckets DEF ManualViews, TypeOK
<1>2. /\ tabs.done = [done EXCEPT ![t] = FALSE] /\ tabs.rows = [rows EXCEPT ![t] = moved]
      /\ tabs.leases = Touched(leases, t, u)
  OBVIOUS
<1>3. [rows EXCEPT ![t] = moved] \in [Task -> [View -> BucketRow]]
  BY <1>1 DEF TypeOK
<1>4. Touched(leases, t, u) \in SUBSET Lease
  BY TouchedType DEF TypeOK, LeaseTypeOK
<1>5. /\ done' = tabs.done /\ rows' = tabs.rows
      /\ assignees' = [assignees EXCEPT ![t] = IF enters THEN AssignedOnEntry(u, who) ELSE who]
      /\ leases' = IF enters THEN TakenBy(tabs, t, Holder(u, who)) ELSE tabs.leases
      /\ UNCHANGED <<status, project, scope, receipt, relations>>
  BY DEF MarkUndone
<1> HIDE DEF target, moved, tabs, enters
<1>6. /\ tabs.done = [done EXCEPT ![t] = FALSE] /\ tabs.rows = [rows EXCEPT ![t] = moved]
      /\ tabs.leases \in SUBSET Lease
  BY <1>2, <1>4
<1>7. /\ leases' \in SUBSET Lease
      /\ (IF enters THEN AssignedOnEntry(u, who) ELSE who) \in SUBSET User
  BY <1>5, <1>6, EntryType
<1>8. done' \in [Task -> BOOLEAN]
  BY <1>5, <1>6 DEF TypeOK
<1> QED
  BY <1>3, <1>5, <1>6, <1>7, <1>8, WrittenType

(***************************************************************************)
(* Moving a task to another project.                                       *)
(***************************************************************************)
LEMMA MoveToProjectType ==
    ASSUME TypeOK, NEW u \in User, NEW t \in Task, NEW p \in MoveTargets,
           NEW who \in SUBSET User, MoveToProject(u, t, p, who)
    PROVE  TypeOK'
<1> DEFINE target == [v \in ManualViews(p) |->
                        IF done[t] /\ DoneBucket[v] # NoBucket THEN DoneBucket[v] ELSE Default(v)]
           moved == MovedRows(u, NoRows, target)
           tabs == Transferred(u, t, target)
           enters == EntersClaimBucket(NoRows, target)
           entered == IF enters THEN TakenBy(tabs, t, Holder(u, who)) ELSE tabs.leases
<1>1. NoRows \in [View -> BucketRow]
  BY DEF NoRows, NoRow, BucketRow
<1>2. \A v \in DOMAIN target : v \in View /\ target[v] \in Bucket \cup {NoBucket}
  BY ViewBuckets DEF ManualViews
<1>3. /\ rows' = tabs.rows /\ project' = [project EXCEPT ![t] = p]
      /\ assignees' = [assignees EXCEPT ![t] = IF enters THEN AssignedOnEntry(u, who) ELSE who]
      /\ leases' = Touched(entered, t, u)
      /\ UNCHANGED <<status, done, scope, receipt, relations>>
  BY DEF MoveToProject
<1> HIDE DEF target
<1>4. moved \in [View -> BucketRow]
  BY <1>1, <1>2, MovedRowsType
<1>5. tabs.rows = [rows EXCEPT ![t] = moved] /\ tabs.leases = ReleasedBy(leases, {t})
  BY DEF Transferred
<1>6. tabs.leases \in SUBSET Lease
  BY <1>5, ReleasedType DEF TypeOK, LeaseTypeOK
<1> HIDE DEF moved, tabs, enters
<1>7. /\ entered \in SUBSET Lease
      /\ (IF enters THEN AssignedOnEntry(u, who) ELSE who) \in SUBSET User
  BY <1>6, EntryType
<1>8. leases' \in SUBSET Lease
  BY <1>3, <1>7, TouchedType
<1>9. rows' \in [Task -> [View -> BucketRow]]
  BY <1>3, <1>4, <1>5 DEF TypeOK
<1>10. project' \in [Task -> Project]
  BY <1>3, BoardAssumption DEF TypeOK, BoardAssumption
<1>11. assignees' \in [Task -> SUBSET User]
  BY <1>3, <1>7 DEF TypeOK
<1> QED
  BY <1>3, <1>8, <1>9, <1>10, <1>11 DEF TypeOK, LeaseTypeOK, RelationTypeOK

(***************************************************************************)
(* An update in any of its forms.                                          *)
(***************************************************************************)
LEMMA UpdatingType ==
    ASSUME TypeOK, Updating
    PROVE  TypeOK'
<1>1. ASSUME NEW u \in User, NEW t \in Task, NEW who \in SUBSET User, EditTask(u, t, who)
      PROVE  TypeOK'
  <2>1. Touched(leases, t, u) \in SUBSET Lease
    BY TouchedType DEF TypeOK, LeaseTypeOK
  <2>2. done' \in [Task -> BOOLEAN] /\ rows' \in [Task -> [View -> BucketRow]]
    BY <1>1 DEF EditTask, TypeOK
  <2> QED
    BY <1>1, <2>1, <2>2, WrittenType DEF EditTask
<1> QED
  BY <1>1, MarkDoneType, CompleteOccurrenceType, MarkUndoneType, MoveToProjectType DEF Updating

(***************************************************************************)
(* A new task, wherever it is put.                                         *)
(***************************************************************************)
LEMMA CreateTaskType ==
    ASSUME TypeOK, NEW u \in User, NEW t \in Task, NEW p \in Project,
           NEW b \in Bucket \cup {NoBucket}, NEW isDone \in BOOLEAN,
           CreateTask(u, t, p, b, isDone)
    PROVE  TypeOK'
<1> DEFINE intoDone == ~isDone /\ \E v \in DoneViews(p) : DoneBucket[v] = b
           place(v) == IF isDone /\ DoneBucket[v] # NoBucket THEN DoneBucket[v]
                       ELSE IF b \in BucketsIn(v) THEN b ELSE Default(v)
           row(v) == IF v \notin ManualViews(p) \/ (intoDone /\ v \notin DoneViews(p)) THEN NoRow
                     ELSE IF intoDone THEN InDoneBucket(u, v)
                     ELSE [bucket |-> place(v), movedBy |-> NoUser]
<1>1. ASSUME NEW v \in View
      PROVE  row(v) \in BucketRow
  <2>1. place(v) \in Bucket \cup {NoBucket}
    BY ViewBuckets
  <2> HIDE DEF intoDone, place
  <2>2. NoRow \in BucketRow /\ [bucket |-> place(v), movedBy |-> NoUser] \in BucketRow
    BY <2>1 DEF NoRow, BucketRow
  <2> QED
    BY <2>2, InDoneBucketType
<1>2. rows' = [rows EXCEPT ![t] = [v \in View |-> row(v)]]
  BY DEF CreateTask
<1>3. done' = [done EXCEPT ![t] = isDone \/ intoDone]
  BY DEF CreateTask
<1>4. /\ status' = [status EXCEPT ![t] = "live"] /\ project' = [project EXCEPT ![t] = p]
      /\ UNCHANGED <<assignees, scope, receipt, relations, leases>>
  BY DEF CreateTask
<1> HIDE DEF row, intoDone
<1>5. rows' \in [Task -> [View -> BucketRow]]
  BY <1>1, <1>2 DEF TypeOK
<1>6. done' \in [Task -> BOOLEAN]
  <2>1. (isDone \/ intoDone) \in BOOLEAN
    BY DEF intoDone
  <2> QED
    BY <1>3, <2>1 DEF TypeOK
<1> QED
  BY <1>4, <1>5, <1>6 DEF TypeOK, LeaseTypeOK, RelationTypeOK

(***************************************************************************)
(* Receipts, the bin and the purge.                                        *)
(***************************************************************************)
LEMMA LivingType ==
    ASSUME TypeOK, Living
    PROVE  TypeOK'
<1>1. NoRows \in [View -> BucketRow]
  BY DEF NoRows, NoRow, BucketRow
<1>2. ASSUME NEW t \in Task
      PROVE  ReleasedBy(leases, {t}) \in SUBSET Lease
  BY ReleasedType DEF TypeOK, LeaseTypeOK
<1>3. ASSUME NEW t \in Task, PostReceipt(t)
      PROVE  TypeOK'
  BY <1>3 DEF PostReceipt, TypeOK, LeaseTypeOK, RelationTypeOK
<1>4. ASSUME NEW t \in Task, DeleteTask(t)
      PROVE  TypeOK'
  BY <1>1, <1>2, <1>4 DEF DeleteTask, TypeOK, LeaseTypeOK, RelationTypeOK
<1>5. ASSUME NEW t \in Task, PurgeTask(t)
      PROVE  TypeOK'
  BY <1>1, <1>2, <1>5 DEF PurgeTask, PurgeRelations, TypeOK, LeaseTypeOK, RelationTypeOK
<1> QED
  BY <1>3, <1>4, <1>5, CreateTaskType DEF Living

(***************************************************************************)
(* Assignees, scopes, leases and relations.                                *)
(***************************************************************************)
LEMMA OthersType ==
    ASSUME TypeOK, Assigning \/ Scoping \/ Leasing \/ Relating
    PROVE  TypeOK'
<1>1. leases \in SUBSET Lease
  BY DEF TypeOK, LeaseTypeOK
<1>2. CASE Assigning
  BY <1>2 DEF Assigning, AddAssignee, RemoveAssignee, TypeOK, LeaseTypeOK, RelationTypeOK
<1>3. ASSUME NEW t \in Task, DeleteScope(t)
      PROVE  TypeOK'
  BY <1>1, <1>3, ReleasedType DEF DeleteScope, TypeOK, LeaseTypeOK, RelationTypeOK
<1>4. ASSUME NEW t \in Task, NEW patterns \in ScopeInputs, WriteScope(t, patterns)
      PROVE  TypeOK'
  <2>1. patterns \in SUBSET Pattern /\ project[t] \in Project
    BY BoardAssumption DEF BoardAssumption, TypeOK
  <2>2. leases' \in SUBSET Lease
    <3>1. CASE LeasesOf(t) = {}
      BY <1>1, <1>4, <3>1 DEF WriteScope
    <3>2. CASE LeasesOf(t) # {}
      <4>1. PICK first \in LeasesOf(t) :
                leases' = Acquired(leases, t, project[t], first.user, patterns)
        BY <1>4, <3>2 DEF WriteScope
      <4>2. first.user \in User
        BY <1>1 DEF LeasesOf, Lease
      <4> QED
        BY <1>1, <2>1, <4>1, <4>2, AcquiredType
    <3> QED
      BY <3>1, <3>2
  <2>3. scope' \in [Task -> SUBSET Pattern]
    BY <1>4, <2>1 DEF WriteScope, TypeOK
  <2>4. UNCHANGED <<status, project, done, rows, assignees, receipt, relations>>
    BY <1>4 DEF WriteScope
  <2> QED
    BY <2>2, <2>3, <2>4 DEF TypeOK, LeaseTypeOK, RelationTypeOK
<1>5. CASE Leasing
  <2>1. leases' \in SUBSET Lease
    <3>1. ASSUME NEW t \in Task, ReleaseLeases(t) \/ HeartbeatLeases(t)
          PROVE  leases' \in SUBSET Lease
      BY <1>1, <3>1, ReleasedType, RefreshedType DEF ReleaseLeases, HeartbeatLeases
    <3>2. ASSUME NEW t \in Task, NEW u \in User, Comment(u, t)
          PROVE  leases' \in SUBSET Lease
      BY <1>1, <3>2, TouchedType DEF Comment
    <3>3. CASE LeaseClock
      BY <1>1, <3>3, AgedType DEF LeaseClock, Tick
    <3>4. CASE LeaseCron
      BY <1>1, <3>4, StaleNotifiedType, ReleasedType DEF LeaseCron, PoliceStaleLeases
    <3> QED
      BY <1>5, <3>1, <3>2, <3>3, <3>4 DEF Leasing
  <2>2. UNCHANGED <<boardVars, relations>>
    BY <1>5 DEF Leasing, ReleaseLeases, HeartbeatLeases, Comment, LeaseClock, LeaseCron
  <2> QED
    BY <2>1, <2>2 DEF boardVars, TypeOK, LeaseTypeOK, RelationTypeOK
<1>6. ASSUME NEW r \in RelationInputs, Relate(r[1], r[2], r[3])
      PROVE  TypeOK'
  <2>1. r[1] \in Task /\ r[2] \in RelationKind /\ r[3] \in Task
    BY BoardAssumption DEF BoardAssumption, Row
  <2>2. <<r[1], r[2], r[3]>> \in Row /\ <<r[3], InverseRelation[r[2]], r[1]>> \in Row
    <3>1. InverseRelation[r[2]] \in RelationKind
      BY <2>1, BoardAssumption DEF BoardAssumption
    <3> QED
      BY <2>1, <3>1 DEF Row
  <2>3. relations' = relations \cup {<<r[1], r[2], r[3]>>, <<r[3], InverseRelation[r[2]], r[1]>>}
    BY <1>6 DEF Relate, CreateRelation
  <2>5. relations' \subseteq Row
    BY <2>2, <2>3 DEF TypeOK, RelationTypeOK
  <2>4. UNCHANGED <<boardVars, leases>>
    BY <1>6 DEF Relate
  <2> QED
    BY <2>4, <2>5 DEF boardVars, TypeOK, LeaseTypeOK, RelationTypeOK
<1>7. ASSUME NEW r \in RelationInputs, Unrelate(r[1], r[2], r[3])
      PROVE  TypeOK'
  <2>1. relations' \subseteq relations /\ UNCHANGED <<boardVars, leases>>
    BY <1>7 DEF Unrelate, DeleteRelation
  <2> QED
    BY <2>1 DEF boardVars, TypeOK, LeaseTypeOK, RelationTypeOK
<1> QED
  BY <1>2, <1>3, <1>4, <1>5, <1>6, <1>7 DEF Scoping, Relating

(***************************************************************************)
(* The board is well typed after any sequence of requests.                 *)
(***************************************************************************)
THEOREM TypeCorrect == Spec => []TypeOK
<1>1. Init => TypeOK
  <2> SUFFICES ASSUME Init PROVE TypeOK
    OBVIOUS
  <2>1. rows \in [Task -> [View -> BucketRow]]
    BY ViewBuckets DEF Init, NoRow, BucketRow
  <2>2. relations \subseteq Row /\ project \in [Task -> Project]
    BY BoardAssumption DEF BoardAssumption, Init
  <2> QED
    BY <2>1, <2>2 DEF Init, LeaseInit, TypeOK, LeaseTypeOK, RelationTypeOK
<1>2. TypeOK /\ [Next]_vars => TypeOK'
  <2> SUFFICES ASSUME TypeOK, [Next]_vars PROVE TypeOK'
    OBVIOUS
  <2>1. CASE Next
    BY <2>1, MovingType, UpdatingType, LivingType, OthersType DEF Next
  <2>2. CASE UNCHANGED vars
    BY <2>2 DEF vars, boardVars, TypeOK, LeaseTypeOK, RelationTypeOK
  <2> QED
    BY <2>1, <2>2
<1> QED
  BY <1>1, <1>2, PTL DEF Spec

-----------------------------------------------------------------------------
(* What a step does to the leases.                                         *)

\* Rows a handler may have in hand: the committed ones, less those of tasks it has
\* finished or emptied, or with a user's own ones on a task touched.
InHand(lrows) ==
    \/ \E ts \in SUBSET Task : lrows = ReleasedBy(leases, ts)
    \/ \E t \in Task, u \in User : lrows = Touched(leases, t, u)

\* Task t, which waits for nothing that is still open, takes its scope, in which
\* nobody else is.
Takes(t) ==
    /\ t \in Live
    /\ UnfinishedBlockers(t, {x \in Task : done'[x]}) = {}
    /\ \E lrows : \E holder \in User :
          /\ InHand(lrows)
          /\ scope[t] # {} => Conflicting(lrows, project[t], t, scope[t]) = {}
          /\ LET taken == TakenBy([leases |-> lrows], t, holder)
             IN  leases' = taken \/ \E u \in User : leases' = Touched(taken, t, u)

\* Task t exchanges what it holds for its new scope.
Rescopes(t) ==
    /\ t \in Live
    /\ Conflicting(leases, project[t], t, scope'[t]) = {}
    /\ \E first \in LeasesOf(t) :
          leases' = Acquired(leases, t, project[t], first.user, scope'[t])

Retimes == (\E t \in Task : leases' = Refreshed(leases, t)) \/ leases' = Aged(leases)

LeaseStep ==
    \/ InHand(leases')
    \/ Retimes
    \/ PoliceStaleLeases
    \/ \E t \in Task : Takes(t) \/ Rescopes(t)

(***************************************************************************)
(* The ways to come to rows in hand: none changed, and some released.      *)
(***************************************************************************)
LEMMA InHandRows ==
    /\ InHand(leases)
    /\ \A ts \in SUBSET Task : InHand(ReleasedBy(leases, ts))
    /\ \A t \in Task, u \in User : InHand(Touched(leases, t, u))
<1>1. leases = ReleasedBy(leases, {})
  BY DEF ReleasedBy
<1> QED
  BY <1>1 DEF InHand

(***************************************************************************)
(* A handler that may claim on entry and then takes the scope, touched     *)
(* afterwards or not, takes leases as Takes says.                          *)
(***************************************************************************)
LEMMA EntryTakes ==
    ASSUME NEW tabs, InHand(tabs.leases), tabs.done = done',
           NEW u, NEW t \in Live, NEW who, NEW holder \in User,
           EntryAllowed(u, t, who, tabs),
           \/ leases' = TakenBy(tabs, t, holder)
           \/ \E w \in User : leases' = Touched(TakenBy(tabs, t, holder), t, w)
    PROVE  Takes(t)
<1>1. TakenBy(tabs, t, holder) = TakenBy([leases |-> tabs.leases], t, holder)
  BY DEF TakenBy
<1>2. /\ UnfinishedBlockers(t, {x \in Task : done'[x]}) = {}
      /\ scope[t] # {} => Conflicting(tabs.leases, project[t], t, scope[t]) = {}
  BY DEF EntryAllowed
<1> QED
  BY <1>1, <1>2 DEF Takes

(***************************************************************************)
(* Moving a card drops the leases of what it finishes, and no other.       *)
(***************************************************************************)
LEMMA MovedInHand ==
    ASSUME NEW u \in User, NEW t \in Task, NEW v, NEW b
    PROVE  InHand(Finished(u, t).leases) /\ InHand(MovedTables(u, t, v, b).leases)
<1>1. InHand(Finished(u, t).leases)
  <2>1. ClosingParents(t) \cup {t} \in SUBSET Task
    BY DEF ClosingParents
  <2>2. Finished(u, t).leases = ReleasedBy(leases, ClosingParents(t) \cup {t})
    BY DEF Finished
  <2> QED
    BY <2>1, <2>2, InHandRows
<1>2. CASE Finishes(t, v, b) /\ t \notin Repeating
  BY <1>1, <1>2 DEF MovedTables
<1>3. CASE ~(Finishes(t, v, b) /\ t \notin Repeating)
  <2>1. MovedTables(u, t, v, b).leases = leases
    BY <1>3 DEF MovedTables
  <2> QED
    BY <1>1, <2>1, InHandRows
<1> QED
  BY <1>2, <1>3

(***************************************************************************)
(* Drags and claims.                                                       *)
(***************************************************************************)
LEMMA MovingLeases ==
    ASSUME TypeOK, Moving
    PROVE  LeaseStep
<1>1. ASSUME NEW u \in User, NEW t \in Task, NEW b \in Bucket, MoveToBucket(u, t, ViewOf[b], b)
      PROVE  LeaseStep
  <2> DEFINE moved == MovedTables(u, t, ViewOf[b], b)
             enters == EntersClaimBucket(rows[t], To(ViewOf[b], b))
  <2>1. InHand(moved.leases)
    BY MovedInHand
  <2>2. /\ t \in Live /\ moved.done = done'
        /\ enters => EntryAllowed(u, t, assignees[t], moved)
        /\ leases' = IF enters THEN TakenBy(moved, t, Holder(u, assignees[t]))
                     ELSE moved.leases
    BY <1>1 DEF MoveToBucket
  <2>3. Holder(u, assignees[t]) \in User
    BY HolderType DEF TypeOK
  <2> HIDE DEF moved, enters
  <2>4. CASE enters
    BY <2>1, <2>2, <2>3, <2>4, EntryTakes DEF LeaseStep
  <2>5. CASE ~enters
    BY <2>1, <2>2, <2>5 DEF LeaseStep
  <2> QED
    BY <2>4, <2>5
<1>2. ASSUME NEW u \in User, NEW t \in Task, NEW b \in ClaimTargets,
             NEW e \in Bucket \cup {NoBucket}, ClaimTask(u, t, ViewOf[b], b, e)
      PROVE  LeaseStep
  <2> DEFINE moved == MovedTables(u, t, ViewOf[b], b)
  <2>1. InHand(moved.leases)
    BY MovedInHand
  <2>2. /\ t \in Live /\ moved.done = done'
        /\ EntryAllowed(u, t, assignees[t], moved) /\ leases' = TakenBy(moved, t, u)
    BY <1>2 DEF ClaimTask
  <2> HIDE DEF moved
  <2> QED
    BY <2>1, <2>2, EntryTakes DEF LeaseStep
<1> QED
  BY <1>1, <1>2 DEF Moving

(***************************************************************************)
(* An update that moves the task into buckets and may claim it there.      *)
(***************************************************************************)
LEMMA UpdateTakes ==
    ASSUME NEW tabs, InHand(tabs.leases), tabs.done = done',
           NEW u \in User, NEW t \in Live, NEW who \in SUBSET User, NEW enters,
           enters => EntryAllowed(u, t, who, tabs),
           leases' = IF enters THEN TakenBy(tabs, t, Holder(u, who)) ELSE tabs.leases
    PROVE  LeaseStep
<1>1. CASE enters
  <2>1. Holder(u, who) \in User
    BY HolderType
  <2>2. Takes(t)
    BY <1>1, <2>1, EntryTakes
  <2> QED
    BY <2>2 DEF LeaseStep, Live
<1>2. CASE ~enters
  BY <1>2 DEF LeaseStep
<1> QED
  BY <1>1, <1>2

(***************************************************************************)
(* Completing one run of a repeating task.                                 *)
(***************************************************************************)
LEMMA CompleteOccurrenceLeases ==
    ASSUME NEW u \in User, NEW t \in Task, NEW who \in SUBSET User,
           CompleteOccurrence(u, t, who)
    PROVE  LeaseStep
<1> DEFINE target == [v \in {x \in ManualViews(project[t]) : DefaultBucket[x] # NoBucket}
                         |-> DefaultBucket[v]]
           tabs == [done |-> done, rows |-> [rows EXCEPT ![t] = MovedRows(u, @, target)],
                    leases |-> ReleasedBy(leases, {t})]
           enters == EntersClaimBucket(rows[t], target)
<1>1. /\ t \in Live /\ done' = done
      /\ enters => EntryAllowed(u, t, who, tabs)
      /\ leases' = IF enters THEN TakenBy(tabs, t, Holder(u, who)) ELSE tabs.leases
  BY DEF CompleteOccurrence
<1>2. tabs.done = done /\ tabs.leases = ReleasedBy(leases, {t})
  OBVIOUS
<1> HIDE DEF tabs, enters
<1>3. InHand(tabs.leases) /\ tabs.done = done'
  BY <1>1, <1>2, InHandRows
<1> QED
  BY <1>1, <1>3, UpdateTakes

(***************************************************************************)
(* Clearing the done flag.                                                 *)
(***************************************************************************)
LEMMA MarkUndoneLeases ==
    ASSUME NEW u \in User, NEW t \in Task, NEW who \in SUBSET User, MarkUndone(u, t, who)
    PROVE  LeaseStep
<1> DEFINE target == [v \in {x \in ManualViews(project[t]) :
                                t \notin Repeating /\ rows[t][x].bucket = DoneBucket[x]}
                         |-> Default(v)]
           tabs == [done |-> [done EXCEPT ![t] = FALSE],
                    rows |-> [rows EXCEPT ![t] = MovedRows(u, @, target)],
                    leases |-> Touched(leases, t, u)]
           enters == EntersClaimBucket(rows[t], target)
<1>1. /\ t \in Live /\ done' = tabs.done
      /\ enters => EntryAllowed(u, t, who, tabs)
      /\ leases' = IF enters THEN TakenBy(tabs, t, Holder(u, who)) ELSE tabs.leases
  BY DEF MarkUndone
<1>2. tabs.leases = Touched(leases, t, u)
  OBVIOUS
<1> HIDE DEF tabs, enters
<1>3. InHand(tabs.leases)
  BY <1>2, InHandRows
<1> QED
  BY <1>1, <1>3, UpdateTakes

(***************************************************************************)
(* Moving a task to another project: its leases go, and those it takes on  *)
(* entry are touched once more.                                            *)
(***************************************************************************)
LEMMA MoveToProjectLeases ==
    ASSUME NEW u \in User, NEW t \in Task, NEW p, NEW who \in SUBSET User,
           MoveToProject(u, t, p, who)
    PROVE  LeaseStep
<1> DEFINE target == [v \in ManualViews(p) |->
                        IF done[t] /\ DoneBucket[v] # NoBucket THEN DoneBucket[v] ELSE Default(v)]
           tabs == Transferred(u, t, target)
           enters == EntersClaimBucket(NoRows, target)
<1>1. /\ t \in Live /\ done' = done
      /\ enters => EntryAllowed(u, t, who, tabs)
      /\ leases' = Touched(IF enters THEN TakenBy(tabs, t, Holder(u, who)) ELSE tabs.leases, t, u)
  BY DEF MoveToProject
<1>2. tabs.leases = ReleasedBy(leases, {t}) /\ tabs.done = done
  BY DEF Transferred
<1> HIDE DEF tabs, enters
<1>3. InHand(tabs.leases) /\ tabs.done = done'
  BY <1>1, <1>2, InHandRows
<1>4. CASE enters
  BY <1>1, <1>3, <1>4, HolderType, EntryTakes DEF LeaseStep
<1>5. CASE ~enters
  <2>1. leases' = Touched(ReleasedBy(leases, {t}), t, u)
    BY <1>1, <1>2, <1>5
  <2>2. Touched(ReleasedBy(leases, {t}), t, u) = ReleasedBy(leases, {t})
    BY DEF Touched, ReleasedBy
  <2> QED
    BY <2>1, <2>2, InHandRows DEF LeaseStep
<1> QED
  BY <1>4, <1>5

(***************************************************************************)
(* Updates.                                                                *)
(***************************************************************************)
LEMMA UpdatingLeases ==
    ASSUME Updating
    PROVE  LeaseStep
<1>1. ASSUME NEW u \in User, NEW t \in Task, NEW who \in SUBSET User, EditTask(u, t, who)
      PROVE  LeaseStep
  BY <1>1, InHandRows DEF EditTask, LeaseStep
<1>2. ASSUME NEW u \in User, NEW t \in Task, NEW who \in SUBSET User, MarkDone(u, t, who)
      PROVE  LeaseStep
  <2>1. leases' = Finished(u, t).leases \/ leases' = ReleasedBy(leases, {t})
    BY <1>2 DEF MarkDone
  <2> QED
    BY <2>1, MovedInHand, InHandRows DEF LeaseStep
<1> QED
  BY <1>1, <1>2, CompleteOccurrenceLeases, MarkUndoneLeases, MoveToProjectLeases DEF Updating

(***************************************************************************)
(* Scope edits: the new paths are taken for the holder of the old ones.    *)
(***************************************************************************)
LEMMA ScopingLeases ==
    ASSUME TypeOK, Scoping
    PROVE  LeaseStep
<1>1. ASSUME NEW t \in Task, DeleteScope(t)
      PROVE  LeaseStep
  BY <1>1, InHandRows DEF DeleteScope, LeaseStep
<1>2. ASSUME NEW t \in Task, NEW patterns \in ScopeInputs, WriteScope(t, patterns)
      PROVE  LeaseStep
  <2>1. t \in Live /\ scope'[t] = patterns
    BY <1>2 DEF WriteScope, TypeOK
  <2>2. CASE LeasesOf(t) = {}
    BY <1>2, <2>2, InHandRows DEF WriteScope, LeaseStep
  <2>3. CASE LeasesOf(t) # {}
    <3>1. PICK first \in LeasesOf(t) :
             /\ Conflicting(leases, project[t], t, patterns) = {}
             /\ leases' = Acquired(leases, t, project[t], first.user, patterns)
      BY <1>2, <2>3 DEF WriteScope
    <3>2. Rescopes(t)
      BY <2>1, <3>1 DEF Rescopes
    <3> QED
      BY <3>2 DEF LeaseStep
  <2> QED
    BY <2>2, <2>3
<1> QED
  BY <1>1, <1>2 DEF Scoping

(***************************************************************************)
(* Every step drops leases, touches them, ages them, polices them, or      *)
(* takes a task's whole scope for one holder.                              *)
(***************************************************************************)
LEMMA LeaseSteps ==
    ASSUME TypeOK, Next
    PROVE  LeaseStep
<1>1. ASSUME NEW t \in Task, ReleaseLeases(t) \/ DeleteTask(t) \/ PurgeTask(t)
      PROVE  LeaseStep
  <2>1. leases' = ReleasedBy(leases, {t})
    BY <1>1 DEF ReleaseLeases, DeleteTask, PurgeTask
  <2> QED
    BY <2>1, InHandRows DEF LeaseStep
<1>2. ASSUME NEW t \in Task, HeartbeatLeases(t)
      PROVE  LeaseStep
  BY <1>2 DEF HeartbeatLeases, Retimes, LeaseStep
<1>3. ASSUME NEW t \in Task, NEW u \in User, Comment(u, t)
      PROVE  LeaseStep
  BY <1>3, InHandRows DEF Comment, LeaseStep
<1>4. LeaseClock => LeaseStep
  BY DEF LeaseClock, Tick, Retimes, LeaseStep
<1>5. LeaseCron => LeaseStep
  BY DEF LeaseCron, LeaseStep
<1>6. ASSUME UNCHANGED leases
      PROVE  LeaseStep
  BY <1>6, InHandRows DEF LeaseStep
<1>7. Leasing => LeaseStep
  BY <1>1, <1>2, <1>3, <1>4, <1>5 DEF Leasing
<1>8. Living => LeaseStep
  <2>1. ASSUME NEW u \in User, NEW t \in Task, NEW p \in Project,
               NEW b \in Bucket \cup {NoBucket}, NEW isDone \in BOOLEAN,
               CreateTask(u, t, p, b, isDone)
        PROVE  UNCHANGED leases
    BY <2>1 DEF CreateTask
  <2>2. ASSUME NEW t \in Task, PostReceipt(t)
        PROVE  UNCHANGED leases
    BY <2>2 DEF PostReceipt
  <2> QED
    BY <1>1, <1>6, <2>1, <2>2 DEF Living
<1>9. Assigning \/ Relating => UNCHANGED leases
  BY DEF Assigning, AddAssignee, RemoveAssignee, Relating, Relate, Unrelate
<1> QED
  BY <1>6, <1>7, <1>8, <1>9, MovingLeases, UpdatingLeases, ScopingLeases DEF Next

-----------------------------------------------------------------------------
(* What a step does to the tasks and their cards.                          *)

\* u moves the card of t to bucket b of view v, by a drag or a claim.
Moves(u, t, v, b) ==
    /\ t \in Live
    /\ MoveAllowed(u, t, v, b)
    /\ done' = MovedTables(u, t, v, b).done /\ rows' = MovedTables(u, t, v, b).rows
    /\ UNCHANGED <<status, project>>

Creates == \E u \in User, t \in Task, p \in Project, b \in Bucket \cup {NoBucket},
              isDone \in BOOLEAN : CreateTask(u, t, p, b, isDone)

CardStep ==
    \/ UNCHANGED <<status, project, done, rows>>
    \/ \E u \in User, t \in Task, b \in Bucket : Moves(u, t, ViewOf[b], b)
    \/ \E u \in User, t \in Task, who \in SUBSET User :
          \/ MarkDone(u, t, who)
          \/ CompleteOccurrence(u, t, who)
          \/ MarkUndone(u, t, who)
          \/ \E p \in MoveTargets : MoveToProject(u, t, p, who)
    \/ Creates
    \/ \E t \in Task : DeleteTask(t) \/ PurgeTask(t)

(***************************************************************************)
(* The steps that touch a task's status, project, done flag or card.       *)
(***************************************************************************)
LEMMA CardSteps ==
    ASSUME Next
    PROVE  CardStep
<1>1. ASSUME NEW u \in User, NEW t \in Task, NEW b \in Bucket, MoveToBucket(u, t, ViewOf[b], b)
      PROVE  Moves(u, t, ViewOf[b], b)
  BY <1>1 DEF MoveToBucket, Moves
<1>2. ASSUME NEW u \in User, NEW t \in Task, NEW b \in ClaimTargets,
             NEW e \in Bucket \cup {NoBucket}, ClaimTask(u, t, ViewOf[b], b, e)
      PROVE  Moves(u, t, ViewOf[b], b) /\ b \in Bucket
  <2>1. Moves(u, t, ViewOf[b], b)
    BY <1>2 DEF ClaimTask, Moves
  <2>2. b \in Bucket
    BY BoardAssumption DEF BoardAssumption
  <2> QED
    BY <2>1, <2>2
<1>3. Moving => \E u \in User, t \in Task, b \in Bucket : Moves(u, t, ViewOf[b], b)
  <2>1. ASSUME NEW u \in User, NEW t \in Task, NEW b \in Bucket, Moves(u, t, ViewOf[b], b)
        PROVE  \E w \in User, x \in Task, a \in Bucket : Moves(w, x, ViewOf[a], a)
    BY <2>1
  <2> QED
    BY <1>1, <1>2, <2>1 DEF Moving
<1>4. Updating => CardStep
  <2>1. \A u \in User, t \in Task, who \in SUBSET User :
           EditTask(u, t, who) => UNCHANGED <<status, project, done, rows>>
    BY DEF EditTask
  <2> QED
    BY <2>1 DEF Updating, CardStep
<1>5. Assigning => UNCHANGED <<status, project, done, rows>>
  BY DEF Assigning, AddAssignee, RemoveAssignee
<1>6. Scoping => UNCHANGED <<status, project, done, rows>>
  BY DEF Scoping, WriteScope, DeleteScope
<1>7. Leasing \/ Relating => UNCHANGED <<status, project, done, rows>>
  BY DEF Leasing, ReleaseLeases, HeartbeatLeases, Comment, LeaseClock, LeaseCron, Relating,
         Relate, Unrelate, boardVars
<1>8. Living => CardStep
  <2>1. \A t \in Task : PostReceipt(t) => UNCHANGED <<status, project, done, rows>>
    BY DEF PostReceipt
  <2> QED
    BY <2>1 DEF Living, Creates, CardStep
<1> QED
  BY <1>3, <1>4, <1>5, <1>6, <1>7, <1>8 DEF Next, CardStep

-----------------------------------------------------------------------------
(* The board implements the lease book.                                    *)

(***************************************************************************)
(* Rows in hand are well formed and hold what the committed ones hold,     *)
(* less all that some tasks do.                                            *)
(***************************************************************************)
LEMMA InHandFiles ==
    ASSUME leases \in SUBSET Lease, NEW lrows, InHand(lrows)
    PROVE  /\ lrows \in SUBSET Lease
           /\ \E ts \in SUBSET Task : Files(lrows) = {f \in Files(leases) : f.task \notin ts}
<1>1. ASSUME NEW ts \in SUBSET Task, lrows = ReleasedBy(leases, ts)
      PROVE  lrows \in SUBSET Lease /\ Files(lrows) = {f \in Files(leases) : f.task \notin ts}
  BY <1>1, ReleasedType, FilesReleased
<1>2. ASSUME NEW t \in Task, NEW u \in User, lrows = Touched(leases, t, u)
      PROVE  lrows \in SUBSET Lease /\ Files(lrows) = {f \in Files(leases) : f.task \notin {}}
  BY <1>2, TouchedType, SameFiles
<1>3. {} \in SUBSET Task
  OBVIOUS
<1> QED
  BY <1>1, <1>2, <1>3 DEF InHand

(***************************************************************************)
(* Taking a scope is a step of the lease book.  The handler compares the   *)
(* scope with the rows it has in hand, and those differ from the committed *)
(* ones by what it has dropped.                                            *)
(***************************************************************************)
LEMMA TakesBook ==
    ASSUME TypeOK, NEW t \in Task, Takes(t)
    PROVE  Book!Next
<1>1. PICK lrows : \E holder \in User :
         /\ InHand(lrows)
         /\ scope[t] # {} => Conflicting(lrows, project[t], t, scope[t]) = {}
         /\ LET taken == TakenBy([leases |-> lrows], t, holder)
            IN  leases' = taken \/ \E u \in User : leases' = Touched(taken, t, u)
  BY DEF Takes
<1>2. PICK holder \in User :
         LET taken == TakenBy([leases |-> lrows], t, holder)
         IN  leases' = taken \/ \E u \in User : leases' = Touched(taken, t, u)
  BY <1>1
<1>3. scope[t] \in SUBSET Pattern /\ project[t] \in Project /\ leases \in SUBSET Lease
  BY DEF TypeOK, LeaseTypeOK
<1>4. PICK ts \in SUBSET Task : /\ lrows \in SUBSET Lease
                                /\ Files(lrows) = {f \in Files(leases) : f.task \notin ts}
  BY <1>1, <1>3, InHandFiles
<1> DEFINE taken == TakenBy([leases |-> lrows], t, holder)
<1>5. taken \in SUBSET Lease
  BY <1>4, TakenByType
<1>6. Files(leases') = Files(taken)
  BY <1>2, <1>5, SameFiles
<1>7. CASE scope[t] = {}
  <2>1. taken = Touched(lrows, t, holder)
    BY <1>7 DEF TakenBy
  <2>2. Files(leases') = Files(lrows)
    BY <1>4, <1>6, <2>1, SameFiles
  <2> QED
    BY <1>4, <2>2, BookGives
<1>8. CASE scope[t] # {}
  <2> DEFINE acquired == Acquired(lrows, t, project[t], holder, scope[t])
  <2>1. acquired \in SUBSET Lease
    BY <1>3, <1>4, AcquiredType
  <2>2. taken = Touched(acquired, t, holder)
    BY <1>8 DEF TakenBy
  <2>3. Files(leases') = Files(acquired)
    BY <1>6, <2>1, <2>2, SameFiles
  <2>4. Conflicting(lrows, project[t], t, scope[t]) = {}
    BY <1>1, <1>8
  <2> QED
    BY <1>3, <1>4, <2>3, <2>4, BookTakes
<1> QED
  BY <1>7, <1>8

(***************************************************************************)
(* What a step does to the leases the lease book allows.                   *)
(***************************************************************************)
LEMMA LeaseStepBook ==
    ASSUME TypeOK, TypeOK', LeaseStep
    PROVE  Book!Next
<1>1. leases \in SUBSET Lease /\ LeaseTypeOK
  BY DEF TypeOK, LeaseTypeOK
<1>2. CASE InHand(leases')
  <2>1. \E ts \in SUBSET Task : Files(leases') = {f \in Files(leases) : f.task \notin ts}
    BY <1>1, <1>2, InHandFiles
  <2> QED
    BY <2>1, BookGives
<1>3. CASE Retimes
  BY <1>1, <1>3, SameFiles, BookKeeps DEF Retimes
<1>4. CASE PoliceStaleLeases
  BY <1>1, <1>4, PoliceGives
<1>5. ASSUME NEW t \in Task, Rescopes(t)
      PROVE  Book!Next
  <2>1. scope'[t] \in SUBSET Pattern /\ project[t] \in Project
    BY DEF TypeOK
  <2>2. Files(leases) = {f \in Files(leases) : f.task \notin {}}
    OBVIOUS
  <2>3. PICK first \in LeasesOf(t) :
           leases' = Acquired(leases, t, project[t], first.user, scope'[t])
    BY <1>5 DEF Rescopes
  <2>4. Conflicting(leases, project[t], t, scope'[t]) = {}
    BY <1>5 DEF Rescopes
  <2> QED
    BY <1>1, <2>1, <2>2, <2>3, <2>4, BookTakes
<1> QED
  BY <1>2, <1>3, <1>4, <1>5, TakesBook DEF LeaseStep

(***************************************************************************)
(* Every handler, however it finishes, claims, transfers or deletes tasks, *)
(* does to the leases what the lease book allows: the board implements it. *)
(***************************************************************************)
THEOREM BoardImplementsBook == Spec => ImplementsLeaseBook
<1>1. Init => Book!Init
  BY DEF Init, LeaseInit, Book!Init, Files
<1>2. TypeOK /\ TypeOK' /\ [Next]_vars => [Book!Next]_(Files(leases))
  <2> SUFFICES ASSUME TypeOK, TypeOK', [Next]_vars PROVE [Book!Next]_(Files(leases))
    OBVIOUS
  <2>1. CASE Next
    BY <2>1, LeaseSteps, LeaseStepBook
  <2>2. CASE UNCHANGED vars
    BY <2>2 DEF vars, Files
  <2> QED
    BY <2>1, <2>2
<1> QED
  BY <1>1, <1>2, TypeCorrect, PTL DEF Spec, ImplementsLeaseBook, Book!Spec

(***************************************************************************)
(* Two tasks never hold leases on overlapping patterns in one project,     *)
(* whatever requests the board has served and however often the cron ran.  *)
(***************************************************************************)
THEOREM BoardExcludes == Spec => []LeaseExclusion
BY BoardImplementsBook, BookExclusive, PTL

-----------------------------------------------------------------------------
(* Whose leases they are: one holder per task, and the scope's paths.      *)

Holds(lrows, t, q) == \E m \in lrows : m.task = t /\ m.pattern = q

\* Rows in which every task has one holder and all the paths of its scope, or nothing.
Orderly(lrows, paths) ==
    /\ lrows \in SUBSET Lease
    /\ HeldByOne(lrows)
    /\ \A l \in lrows : \A q : q \in paths[l.task] <=> Holds(lrows, l.task, q)

(***************************************************************************)
(* Orderly says of the table itself what the two invariants say.           *)
(***************************************************************************)
LEMMA OrderlyMeans ==
    ASSUME TypeOK
    PROVE  Orderly(leases, scope) <=> OneHolder /\ LeasesMirrorScope
<1>1. leases \in SUBSET Lease /\ scope \in [Task -> SUBSET Pattern]
  BY DEF TypeOK, LeaseTypeOK
<1>2. HeldByOne(leases) <=> OneHolder
  BY DEF HeldByOne, OneHolder
<1> DEFINE Mirrors(t) == \A q : q \in scope[t] <=> Holds(leases, t, q)
<1>3. ASSUME NEW t \in Task
      PROVE  Mirrors(t) <=> {l.pattern : l \in LeasesOf(t)} = scope[t]
  BY DEF LeasesOf, Holds
<1>4. \A l \in leases : l.task \in Task /\ l \in LeasesOf(l.task)
  BY <1>1 DEF Lease, LeasesOf
<1>5. \A t \in Task : LeasesOf(t) # {} <=> \E l \in leases : l.task = t
  BY DEF LeasesOf
<1>6. LeasesMirrorScope <=> \A t \in Task : (\E l \in leases : l.task = t) => Mirrors(t)
  BY <1>3, <1>5 DEF LeasesMirrorScope
<1>7. (\A l \in leases : Mirrors(l.task)) <=> LeasesMirrorScope
  BY <1>4, <1>6
<1> QED
  BY <1>1, <1>2, <1>7 DEF Orderly

(***************************************************************************)
(* Rows rewritten one by one, task and pattern untouched, mirror what they *)
(* mirrored.                                                               *)
(***************************************************************************)
LEMMA SameMirror ==
    ASSUME NEW lrows, NEW new, new \in SUBSET Lease, HeldByOne(new), NEW paths,
           Orderly(lrows, paths), Files(new) = Files(lrows)
    PROVE  Orderly(new, paths)
<1>1. ASSUME NEW l \in new
      PROVE  \E m \in lrows : m.task = l.task /\ m.pattern = l.pattern
  <2>1. [task |-> l.task, project |-> l.project, pattern |-> l.pattern] \in Files(lrows)
    BY DEF Files
  <2> QED
    BY <2>1 DEF Files
<1>2. ASSUME NEW l \in lrows
      PROVE  \E m \in new : m.task = l.task /\ m.pattern = l.pattern
  <2>1. [task |-> l.task, project |-> l.project, pattern |-> l.pattern] \in Files(new)
    BY DEF Files
  <2> QED
    BY <2>1 DEF Files
<1>3. \A t, q : Holds(new, t, q) <=> Holds(lrows, t, q)
  BY <1>1, <1>2 DEF Holds
<1> QED
  BY <1>1, <1>3 DEF Orderly

(***************************************************************************)
(* The statements keep rows orderly: releasing gives up all of a task's    *)
(* leases, the others rewrite rows.                                        *)
(***************************************************************************)
LEMMA StatementsOrderly ==
    ASSUME NEW lrows, NEW paths, Orderly(lrows, paths)
    PROVE  /\ \A ts : Orderly(ReleasedBy(lrows, ts), paths)
           /\ \A t, u : Orderly(Touched(lrows, t, u), paths)
           /\ \A t : Orderly(Refreshed(lrows, t), paths)
           /\ Orderly(Aged(lrows), paths)
           /\ Orderly(StaleNotified(lrows), paths)
<1>0. lrows \in SUBSET Lease /\ HeldByOne(lrows)
  BY DEF Orderly
<1>1. ASSUME NEW ts
      PROVE  Orderly(ReleasedBy(lrows, ts), paths)
  <2>1. ReleasedBy(lrows, ts) \in SUBSET Lease /\ HeldByOne(ReleasedBy(lrows, ts))
    BY <1>0, ReleasedType, ReleasedByOne
  <2>2. \A l \in ReleasedBy(lrows, ts) : l \in lrows /\ l.task \notin ts
    BY DEF ReleasedBy
  <2>3. \A t, q : t \notin ts => (Holds(ReleasedBy(lrows, ts), t, q) <=> Holds(lrows, t, q))
    BY DEF ReleasedBy, Holds
  <2> QED
    BY <2>1, <2>2, <2>3 DEF Orderly
<1>2. ASSUME NEW t, NEW u
      PROVE  Orderly(Touched(lrows, t, u), paths)
  BY <1>0, TouchedType, TouchedByOne, SameFiles, SameMirror
<1>3. ASSUME NEW t
      PROVE  Orderly(Refreshed(lrows, t), paths)
  BY <1>0, RefreshedType, RefreshedByOne, SameFiles, SameMirror
<1>4. Orderly(Aged(lrows), paths)
  BY <1>0, AgedType, AgedByOne, SameFiles, SameMirror
<1>5. Orderly(StaleNotified(lrows), paths)
  BY <1>0, StaleNotifiedType, NotifiedByOne, SameFiles, SameMirror
<1> QED
  BY <1>1, <1>2, <1>3, <1>4, <1>5

(***************************************************************************)
(* A task that exchanges its leases for those of given patterns holds      *)
(* exactly these, and the others what they held.                           *)
(***************************************************************************)
LEMMA AcquiredPaths ==
    ASSUME NEW lrows, NEW t, NEW p, NEW u, NEW patterns
    PROVE  /\ \A q : q \in patterns <=> Holds(Acquired(lrows, t, p, u, patterns), t, q)
           /\ \A l \in Acquired(lrows, t, p, u, patterns) : l.task # t => l \in lrows
           /\ \A s, q : s # t =>
                (Holds(Acquired(lrows, t, p, u, patterns), s, q) <=> Holds(lrows, s, q))
<1> DEFINE fresh == FreshLeases(t, p, u, patterns)
<1>1. \A m \in fresh : m.task = t /\ m.pattern \in patterns
  BY DEF FreshLeases
<1>2. ASSUME NEW q \in patterns
      PROVE  \E m \in fresh : m.task = t /\ m.pattern = q
  <2> DEFINE m == [task |-> t, project |-> p, user |-> u, pattern |-> q,
                   idle |-> 0, notified |-> FALSE]
  <2>1. m \in fresh
    BY DEF FreshLeases
  <2> QED
    BY <2>1
<1>3. \A l : l \in Acquired(lrows, t, p, u, patterns) <=>
               (l \in lrows /\ l.task # t) \/ l \in fresh
  BY DEF Acquired, ReleasedBy
<1> HIDE DEF fresh
<1> QED
  BY <1>1, <1>2, <1>3 DEF Holds

(***************************************************************************)
(* Replacing the leases of a task by those of the paths it is to have      *)
(* keeps rows orderly, whatever the task had before.                       *)
(***************************************************************************)
LEMMA AcquiredOrderly ==
    ASSUME NEW lrows, NEW old, Orderly(lrows, old), NEW new,
           NEW t \in Task, NEW p \in Project, NEW u \in User, new[t] \in SUBSET Pattern,
           \A s \in Task : s # t => new[s] = old[s]
    PROVE  Orderly(Acquired(lrows, t, p, u, new[t]), new)
<1> DEFINE acquired == Acquired(lrows, t, p, u, new[t])
<1>1. lrows \in SUBSET Lease /\ HeldByOne(lrows)
  BY DEF Orderly
<1>2. acquired \in SUBSET Lease /\ HeldByOne(acquired)
  BY <1>1, AcquiredType, AcquiredByOne
<1>3. /\ \A q : q \in new[t] <=> Holds(acquired, t, q)
      /\ \A l \in acquired : l.task # t => l \in lrows
      /\ \A s, q : s # t => (Holds(acquired, s, q) <=> Holds(lrows, s, q))
  BY AcquiredPaths
<1> HIDE DEF acquired
<1>4. ASSUME NEW l \in acquired, NEW q
      PROVE  q \in new[l.task] <=> Holds(acquired, l.task, q)
  <2>1. CASE l.task = t
    BY <1>3, <2>1
  <2>2. CASE l.task # t
    <3>1. l \in lrows /\ l.task \in Task
      BY <1>1, <1>3, <2>2 DEF Lease
    <3> QED
      BY <1>3, <2>2, <3>1 DEF Orderly
  <2> QED
    BY <2>1, <2>2
<1> QED
  BY <1>2, <1>4 DEF Orderly, acquired

(***************************************************************************)
(* Paths that change for tasks without leases only leave rows orderly.     *)
(***************************************************************************)
LEMMA OrderlyFrame ==
    ASSUME NEW lrows, NEW old, Orderly(lrows, old), NEW new,
           \A l \in lrows : new[l.task] = old[l.task]
    PROVE  Orderly(lrows, new)
BY DEF Orderly

(***************************************************************************)
(* Whatever a step that leaves the scopes alone does to the leases, it     *)
(* leaves them orderly.                                                    *)
(***************************************************************************)
LEMMA LeaseStepOrderly ==
    ASSUME TypeOK, Orderly(leases, scope), LeaseStep, UNCHANGED scope
    PROVE  Orderly(leases', scope)
<1>1. ASSUME NEW lrows, InHand(lrows)
      PROVE  Orderly(lrows, scope)
  BY <1>1, StatementsOrderly DEF InHand
<1>2. CASE Retimes
  BY <1>2, StatementsOrderly DEF Retimes
<1>3. CASE PoliceStaleLeases
  BY <1>3, StatementsOrderly DEF PoliceStaleLeases
<1>4. ASSUME NEW t \in Task
      PROVE  scope[t] \in SUBSET Pattern /\ project[t] \in Project
  BY DEF TypeOK
<1>5. ASSUME NEW t \in Task, Takes(t)
      PROVE  Orderly(leases', scope)
  <2>1. PICK lrows : \E holder \in User :
           /\ InHand(lrows)
           /\ LET taken == TakenBy([leases |-> lrows], t, holder)
              IN  leases' = taken \/ \E u \in User : leases' = Touched(taken, t, u)
    BY <1>5 DEF Takes
  <2>2. PICK holder \in User :
           LET taken == TakenBy([leases |-> lrows], t, holder)
           IN  leases' = taken \/ \E u \in User : leases' = Touched(taken, t, u)
    BY <2>1
  <2>3. Orderly(lrows, scope)
    BY <1>1, <2>1
  <2>4. Orderly(Acquired(lrows, t, project[t], holder, scope[t]), scope)
    BY <1>4, <2>3, AcquiredOrderly
  <2>5. Orderly(TakenBy([leases |-> lrows], t, holder), scope)
    BY <2>3, <2>4, StatementsOrderly DEF TakenBy
  <2> QED
    BY <2>2, <2>5, StatementsOrderly
<1>6. ASSUME NEW t \in Task, Rescopes(t)
      PROVE  Orderly(leases', scope)
  <2>1. PICK first \in LeasesOf(t) :
           leases' = Acquired(leases, t, project[t], first.user, scope[t])
    BY <1>6 DEF Rescopes
  <2>2. first.user \in User
    BY DEF TypeOK, LeaseTypeOK, LeasesOf, Lease
  <2> QED
    BY <1>4, <2>1, <2>2, AcquiredOrderly
<1> QED
  BY <1>1, <1>2, <1>3, <1>5, <1>6 DEF LeaseStep

(***************************************************************************)
(* Who writes scopes: the scope requests and the purge.                    *)
(***************************************************************************)
LEMMA ScopeSteps ==
    ASSUME Next
    PROVE  UNCHANGED scope \/ Scoping \/ \E t \in Task : PurgeTask(t)
<1>1. Moving => UNCHANGED scope
  BY DEF Moving, MoveToBucket, ClaimTask
<1>2. Updating => UNCHANGED scope
  <2>1. ASSUME NEW u \in User, NEW t \in Task, NEW who \in SUBSET User
        PROVE  /\ EditTask(u, t, who) => UNCHANGED scope
               /\ MarkDone(u, t, who) => UNCHANGED scope
               /\ CompleteOccurrence(u, t, who) => UNCHANGED scope
               /\ MarkUndone(u, t, who) => UNCHANGED scope
               /\ \A p \in MoveTargets : MoveToProject(u, t, p, who) => UNCHANGED scope
    BY Zenon DEF EditTask, MarkDone, CompleteOccurrence, MarkUndone, MoveToProject
  <2> QED
    BY <2>1 DEF Updating
<1>3. Assigning => UNCHANGED scope
  BY DEF Assigning, AddAssignee, RemoveAssignee
<1>4. Leasing \/ Relating => UNCHANGED scope
  BY DEF Leasing, ReleaseLeases, HeartbeatLeases, Comment, LeaseClock, LeaseCron, Relating,
         Relate, Unrelate, boardVars
<1>5. Living => UNCHANGED scope \/ \E t \in Task : PurgeTask(t)
  <2>1. ASSUME NEW u \in User, NEW t \in Task, NEW p \in Project,
               NEW b \in Bucket \cup {NoBucket}, NEW isDone \in BOOLEAN,
               CreateTask(u, t, p, b, isDone)
        PROVE  UNCHANGED scope
    BY <2>1 DEF CreateTask
  <2>2. ASSUME NEW t \in Task, PostReceipt(t) \/ DeleteTask(t)
        PROVE  UNCHANGED scope
    BY <2>2 DEF PostReceipt, DeleteTask
  <2> QED
    BY <2>1, <2>2 DEF Living
<1> QED
  BY <1>1, <1>2, <1>3, <1>4, <1>5 DEF Next

(***************************************************************************)
(* Every step leaves the leases orderly: a scope is written together with  *)
(* the leases its task holds.                                              *)
(***************************************************************************)
LEMMA BoardOrderly ==
    ASSUME TypeOK, Orderly(leases, scope), Next
    PROVE  Orderly(leases', scope')
<1>1. CASE UNCHANGED scope
  BY <1>1, LeaseSteps, LeaseStepOrderly
<1>2. ASSUME NEW t \in Task, leases' = ReleasedBy(leases, {t}), scope' = [scope EXCEPT ![t] = {}]
      PROVE  Orderly(leases', scope')
  <2>1. Orderly(leases', scope)
    BY <1>2, StatementsOrderly
  <2>2. \A l \in leases' : scope'[l.task] = scope[l.task]
    BY <1>2 DEF ReleasedBy, TypeOK, LeaseTypeOK, Lease
  <2> QED
    BY <2>1, <2>2, OrderlyFrame
<1>3. ASSUME NEW t \in Task, NEW patterns \in ScopeInputs, WriteScope(t, patterns)
      PROVE  Orderly(leases', scope')
  <2>1. scope' = [scope EXCEPT ![t] = patterns] /\ patterns \in SUBSET Pattern
    BY <1>3, BoardAssumption DEF WriteScope, BoardAssumption
  <2>2. /\ \A s \in Task : s # t => scope'[s] = scope[s]
        /\ scope'[t] = patterns /\ scope'[t] \in SUBSET Pattern
    BY <2>1 DEF TypeOK
  <2>3. CASE LeasesOf(t) = {}
    <3>1. leases' = leases
      BY <1>3, <2>3 DEF WriteScope
    <3>2. \A l \in leases : l.task # t /\ l.task \in Task
      BY <2>3 DEF LeasesOf, TypeOK, LeaseTypeOK, Lease
    <3>3. \A l \in leases : scope'[l.task] = scope[l.task]
      BY <2>2, <3>2
    <3> QED
      BY <3>1, <3>3, OrderlyFrame
  <2>4. CASE LeasesOf(t) # {}
    <3>1. PICK first \in LeasesOf(t) :
             leases' = Acquired(leases, t, project[t], first.user, scope'[t])
      BY <1>3, <2>2, <2>4 DEF WriteScope
    <3>2. first.user \in User /\ project[t] \in Project
      BY DEF TypeOK, LeaseTypeOK, LeasesOf, Lease
    <3> QED
      BY <2>2, <3>1, <3>2, AcquiredOrderly
  <2> QED
    BY <2>3, <2>4
<1>4. CASE Scoping
  BY <1>2, <1>3, <1>4 DEF Scoping, DeleteScope
<1>5. CASE \E t \in Task : PurgeTask(t)
  BY <1>2, <1>5 DEF PurgeTask
<1> QED
  BY <1>1, <1>4, <1>5, ScopeSteps

\* Well-typed tables with orderly leases: an inductive invariant of the board.
LeaseInv == TypeOK /\ Orderly(leases, scope)

(***************************************************************************)
(* On the board every task has one holder, with leases of one age, and     *)
(* exactly the paths its scope names.                                      *)
(***************************************************************************)
LEMMA LeaseInvariant == Spec => []LeaseInv
<1>1. Init => Orderly(leases, scope)
  BY DEF Init, LeaseInit, Orderly, HeldByOne
<1>2. TypeOK /\ Orderly(leases, scope) /\ [Next]_vars => Orderly(leases, scope)'
  <2> SUFFICES ASSUME TypeOK, Orderly(leases, scope), [Next]_vars
               PROVE  Orderly(leases', scope')
    BY DEF Orderly, HeldByOne, Holds
  <2>1. CASE UNCHANGED vars
    BY <2>1 DEF vars, boardVars
  <2> QED
    BY <2>1, BoardOrderly
<1> QED
  BY <1>1, <1>2, TypeCorrect, PTL DEF Spec, LeaseInv

(***************************************************************************)
(* All leases of a task have one holder, one project and one age.          *)
(***************************************************************************)
THEOREM BoardOneHolder == Spec => []OneHolder
<1>1. LeaseInv => OneHolder
  BY OrderlyMeans DEF LeaseInv
<1> QED
  BY <1>1, LeaseInvariant, PTL

(***************************************************************************)
(* A task that holds leases holds exactly the paths of its scope, however  *)
(* often the scope is rewritten, taken and given up.                       *)
(***************************************************************************)
THEOREM BoardMirrorsScope == Spec => []LeasesMirrorScope
<1>1. LeaseInv => LeasesMirrorScope
  BY OrderlyMeans DEF LeaseInv
<1> QED
  BY <1>1, LeaseInvariant, PTL

(***************************************************************************)
(* The cron takes no lease that its holder has kept active, among all the  *)
(* requests the board serves.                                              *)
(***************************************************************************)
THEOREM BoardCronSpares == Spec => CronSparesActive
<1>1. TypeOK => LeaseTypeOK
  BY DEF TypeOK
<1> QED
  BY <1>1, TypeCorrect, BoardOneHolder, OneHolderSpares, PTL

-----------------------------------------------------------------------------
(* Where leases come from.                                                 *)

(***************************************************************************)
(* Rows that hold no other files hold no lease of another task.            *)
(***************************************************************************)
LEMMA FilesOrigin ==
    ASSUME NEW new, NEW old, Files(new) \subseteq Files(old), NEW l \in new
    PROVE  \E m \in old : m.task = l.task /\ m.project = l.project
<1>1. [task |-> l.task, project |-> l.project, pattern |-> l.pattern] \in Files(old)
  BY DEF Files
<1> QED
  BY <1>1 DEF Files

(***************************************************************************)
(* The leases a task takes are its own, in its project; all others were in *)
(* hand.                                                                   *)
(***************************************************************************)
LEMMA TakenOrigin ==
    ASSUME TypeOK, NEW lrows \in SUBSET Lease, NEW t \in Task, NEW holder \in User,
           NEW l \in TakenBy([leases |-> lrows], t, holder)
    PROVE  \/ \E m \in lrows : m.task = l.task /\ m.project = l.project
           \/ l.task = t /\ l.project = project[t]
<1> DEFINE acquired == Acquired(lrows, t, project[t], holder, scope[t])
           base == IF scope[t] = {} THEN lrows ELSE acquired
<1>1. acquired \in SUBSET Lease
  BY AcquiredType DEF TypeOK
<1>2. Files(TakenBy([leases |-> lrows], t, holder)) = Files(base)
  BY <1>1, SameFiles DEF TakenBy
<1>3. \A k \in base : k \in lrows \/ (k.task = t /\ k.project = project[t])
  BY DEF Acquired, ReleasedBy, FreshLeases
<1> HIDE DEF base
<1>4. Files(TakenBy([leases |-> lrows], t, holder)) \subseteq Files(base)
  BY <1>2
<1>5. PICK m \in base : m.task = l.task /\ m.project = l.project
  BY <1>4, FilesOrigin
<1> QED
  BY <1>3, <1>5

(***************************************************************************)
(* A lease there is after a step was there before, or its task, alive and  *)
(* in the lease's project, took it or exchanged others for it.             *)
(***************************************************************************)
LEMMA LeaseOrigin ==
    ASSUME TypeOK, LeaseStep, NEW l \in leases'
    PROVE  \/ \E m \in leases : m.task = l.task /\ m.project = l.project
           \/ /\ l.task \in Live /\ l.project = project[l.task]
              /\ LeasesOf(l.task) # {} \/ Takes(l.task)
<1>1. leases \in SUBSET Lease
  BY DEF TypeOK, LeaseTypeOK
<1>2. ASSUME NEW lrows, InHand(lrows), NEW k \in lrows
      PROVE  \E m \in leases : m.task = k.task /\ m.project = k.project
  <2>1. Files(lrows) \subseteq Files(leases)
    BY <1>1, <1>2, InHandFiles
  <2> QED
    BY <2>1, FilesOrigin
<1>3. CASE InHand(leases')
  BY <1>2, <1>3
<1>4. CASE Retimes
  <2>1. Files(leases') \subseteq Files(leases)
    BY <1>1, <1>4, SameFiles DEF Retimes
  <2>2. \E m \in leases : m.task = l.task /\ m.project = l.project
    BY <2>1, FilesOrigin
  <2> QED
    BY <2>2
<1>5. CASE PoliceStaleLeases
  <2>1. l \in StaleNotified(leases)
    BY <1>5 DEF PoliceStaleLeases, ReleasedBy
  <2> QED
    BY <1>1, <2>1, NotifiedRows
<1>6. ASSUME NEW t \in Task, Takes(t)
      PROVE  \/ \E m \in leases : m.task = l.task /\ m.project = l.project
             \/ l.task = t /\ l.project = project[t]
  <2>1. PICK lrows : \E holder \in User :
           /\ InHand(lrows)
           /\ LET taken == TakenBy([leases |-> lrows], t, holder)
              IN  leases' = taken \/ \E u \in User : leases' = Touched(taken, t, u)
    BY <1>6 DEF Takes
  <2>2. PICK holder \in User :
           LET taken == TakenBy([leases |-> lrows], t, holder)
           IN  leases' = taken \/ \E u \in User : leases' = Touched(taken, t, u)
    BY <2>1
  <2> DEFINE taken == TakenBy([leases |-> lrows], t, holder)
  <2>3. lrows \in SUBSET Lease
    BY <1>1, <2>1, InHandFiles
  <2>4. taken \in SUBSET Lease
    BY <2>3, TakenByType
  <2>5. Files(leases') \subseteq Files(taken)
    BY <2>2, <2>4, SameFiles
  <2>6. PICK k \in taken : k.task = l.task /\ k.project = l.project
    BY <2>5, FilesOrigin
  <2>7. \/ \E m \in lrows : m.task = k.task /\ m.project = k.project
        \/ k.task = t /\ k.project = project[t]
    BY <2>3, <2>6, TakenOrigin
  <2> QED
    BY <1>2, <2>1, <2>6, <2>7
<1>7. ASSUME NEW t \in Task, Rescopes(t)
      PROVE  \/ \E m \in leases : m.task = l.task /\ m.project = l.project
             \/ l.task = t /\ l.project = project[t] /\ t \in Live /\ LeasesOf(t) # {}
  <2>1. PICK first \in LeasesOf(t) :
           leases' = Acquired(leases, t, project[t], first.user, scope'[t])
    BY <1>7 DEF Rescopes
  <2>2. l \in leases \/ (l.task = t /\ l.project = project[t])
    BY <2>1 DEF Acquired, ReleasedBy, FreshLeases
  <2> QED
    BY <1>7, <2>1, <2>2 DEF Rescopes
<1>8. ASSUME NEW t \in Task, Takes(t)
      PROVE  t \in Live
  BY <1>8 DEF Takes
<1> QED
  BY <1>3, <1>4, <1>5, <1>6, <1>7, <1>8 DEF LeaseStep

(***************************************************************************)
(* A task comes to hold leases only while nothing it waits for is open, on *)
(* every path that claims: POST /claim, a drag, an update that reopens a   *)
(* task or moves it to another project, the next run of a repeating one.   *)
(***************************************************************************)
THEOREM BoardLeasesUnblocked == Spec => LeasedOnlyUnblocked
<1>1. TypeOK /\ [Next]_vars =>
         [\A t \in Task :
             (LeasesOf(t) = {} /\ \E l \in leases' : l.task = t)
                => \A o \in Related(t, BlockingKinds) \cap Live : done'[o]]_vars
  <2> SUFFICES ASSUME TypeOK, Next, NEW t \in Task, LeasesOf(t) = {},
                      NEW l \in leases', l.task = t,
                      NEW o \in Related(t, BlockingKinds) \cap Live
               PROVE  done'[o]
    OBVIOUS
  <2>1. LeaseStep
    BY LeaseSteps
  <2>2. ~\E m \in leases : m.task = t
    BY DEF LeasesOf
  <2>3. Takes(t)
    BY <2>1, <2>2, LeaseOrigin
  <2>4. UnfinishedBlockers(t, {x \in Task : done'[x]}) = {}
    BY <2>3 DEF Takes
  <2> QED
    BY <2>4 DEF UnfinishedBlockers
<1> QED
  BY <1>1, TypeCorrect, PTL DEF Spec, LeasedOnlyUnblocked

-----------------------------------------------------------------------------
(* Leases follow their task.                                               *)

\* No view claims the tasks that arrive in it: its default bucket is not its claim
\* bucket.  Where it is, a transferred task is claimed before its project changes.
ArrivalsUnclaimed == \A v \in View : Default(v) # ClaimBucket[v]

(***************************************************************************)
(* A task that moves to another project arrives there without leases.      *)
(***************************************************************************)
LEMMA ArrivesWithout ==
    ASSUME ArrivalsUnclaimed, NEW u \in User, NEW t \in Task, NEW p, NEW who,
           MoveToProject(u, t, p, who)
    PROVE  leases' = ReleasedBy(leases, {t})
<1> DEFINE target == [v \in ManualViews(p) |->
                        IF done[t] /\ DoneBucket[v] # NoBucket THEN DoneBucket[v] ELSE Default(v)]
           enters == EntersClaimBucket(NoRows, target)
           tabs == Transferred(u, t, target)
<1>1. ASSUME NEW v \in ManualViews(p)
      PROVE  target[v] # ClaimBucket[v]
  BY BoardAssumption DEF BoardAssumption, ManualViews, ArrivalsUnclaimed
<1>2. ~enters
  BY <1>1 DEF EntersClaimBucket, Entering
<1>3. leases' = Touched(IF enters THEN TakenBy(tabs, t, Holder(u, who)) ELSE tabs.leases, t, u)
  BY DEF MoveToProject
<1>4. tabs.leases = ReleasedBy(leases, {t})
  BY DEF Transferred
<1> HIDE DEF enters, tabs
<1>5. Touched(ReleasedBy(leases, {t}), t, u) = ReleasedBy(leases, {t})
  BY DEF Touched, ReleasedBy
<1> QED
  BY <1>2, <1>3, <1>4, <1>5

(***************************************************************************)
(* The steps that write the status or the project of a task.               *)
(***************************************************************************)
LEMMA StatusSteps ==
    ASSUME Next
    PROVE  \/ UNCHANGED <<status, project>>
           \/ \E u \in User, t \in Task, p \in MoveTargets, who \in SUBSET User :
                 MoveToProject(u, t, p, who)
           \/ Creates
           \/ \E t \in Task : DeleteTask(t) \/ PurgeTask(t)
<1>1. ASSUME NEW u \in User, NEW t \in Task, NEW who \in SUBSET User
      PROVE  /\ MarkDone(u, t, who) => UNCHANGED <<status, project>>
             /\ CompleteOccurrence(u, t, who) => UNCHANGED <<status, project>>
             /\ MarkUndone(u, t, who) => UNCHANGED <<status, project>>
  BY Zenon DEF MarkDone, CompleteOccurrence, MarkUndone
<1>2. ASSUME NEW u \in User, NEW t \in Task, NEW b \in Bucket, Moves(u, t, ViewOf[b], b)
      PROVE  UNCHANGED <<status, project>>
  BY <1>2 DEF Moves
<1> QED
  BY <1>1, <1>2, CardSteps DEF CardStep

HeldByLive == \A l \in leases : l.task \in Live

HeldInProject == \A l \in leases : l.project = project[l.task]

(***************************************************************************)
(* The leases of a task that goes away go with it, and a new task has      *)
(* none.                                                                   *)
(***************************************************************************)
LEMMA LiveKept ==
    ASSUME TypeOK, HeldByLive, Next
    PROVE  HeldByLive'
<1>1. CASE UNCHANGED status
  BY <1>1, LeaseSteps, LeaseOrigin DEF HeldByLive, Live
<1>2. ASSUME NEW u \in User, NEW t \in Task, NEW p \in Project,
             NEW b \in Bucket \cup {NoBucket}, NEW isDone \in BOOLEAN,
             CreateTask(u, t, p, b, isDone)
      PROVE  HeldByLive'
  <2>1. leases' = leases /\ status' = [status EXCEPT ![t] = "live"]
    BY <1>2 DEF CreateTask
  <2> QED
    BY <2>1 DEF HeldByLive, Live, TypeOK
<1>3. ASSUME NEW t \in Task, DeleteTask(t) \/ PurgeTask(t)
      PROVE  HeldByLive'
  <2>1. /\ leases' = ReleasedBy(leases, {t})
        /\ \A x \in Task \ {t} : status'[x] = status[x]
    BY <1>3 DEF DeleteTask, PurgeTask, TypeOK
  <2> QED
    BY <2>1 DEF HeldByLive, Live, ReleasedBy
<1>4. \A u \in User, t \in Task, p \in MoveTargets, who \in SUBSET User :
         MoveToProject(u, t, p, who) => UNCHANGED status
  BY DEF MoveToProject
<1> QED
  BY <1>1, <1>2, <1>3, <1>4, StatusSteps DEF Creates

(***************************************************************************)
(* A task that moves gives up the leases of its old project.               *)
(***************************************************************************)
LEMMA ProjectKept ==
    ASSUME ArrivalsUnclaimed, TypeOK, HeldByLive, HeldInProject, Next
    PROVE  HeldInProject'
<1>1. CASE UNCHANGED project
  BY <1>1, LeaseSteps, LeaseOrigin DEF HeldInProject
<1>2. ASSUME NEW u \in User, NEW t \in Task, NEW p \in MoveTargets, NEW who \in SUBSET User,
             MoveToProject(u, t, p, who)
      PROVE  HeldInProject'
  <2>1. leases' = ReleasedBy(leases, {t})
    BY <1>2, ArrivesWithout
  <2>2. project' = [project EXCEPT ![t] = p]
    BY <1>2 DEF MoveToProject
  <2> QED
    BY <2>1, <2>2 DEF HeldInProject, HeldByLive, Live, ReleasedBy, TypeOK
<1>3. ASSUME NEW u \in User, NEW t \in Task, NEW p \in Project,
             NEW b \in Bucket \cup {NoBucket}, NEW isDone \in BOOLEAN,
             CreateTask(u, t, p, b, isDone)
      PROVE  HeldInProject'
  <2>1. leases' = leases /\ status[t] = "absent" /\ project' = [project EXCEPT ![t] = p]
    BY <1>3 DEF CreateTask
  <2> QED
    BY <2>1 DEF HeldInProject, HeldByLive, Live, TypeOK
<1>4. \A t \in Task : DeleteTask(t) \/ PurgeTask(t) => UNCHANGED project
  BY DEF DeleteTask, PurgeTask
<1> QED
  BY <1>1, <1>2, <1>3, <1>4, StatusSteps DEF Creates

(***************************************************************************)
(* Only tasks on the board hold leases.                                    *)
(***************************************************************************)
LEMMA LiveHold == Spec => []HeldByLive
<1>1. Init => HeldByLive
  BY DEF Init, LeaseInit, HeldByLive
<1>2. TypeOK /\ HeldByLive /\ [Next]_vars => HeldByLive'
  BY LiveKept DEF vars, boardVars, HeldByLive, Live
<1> QED
  BY <1>1, <1>2, TypeCorrect, PTL DEF Spec

(***************************************************************************)
(* Where no view claims what arrives in it, no lease survives its task or  *)
(* stays behind in a project the task has left.                            *)
(***************************************************************************)
THEOREM BoardLeasesFollow ==
    ASSUME ArrivalsUnclaimed
    PROVE  Spec => []LeasesFollowTask
<1>1. Init => HeldInProject
  BY DEF Init, LeaseInit, HeldInProject
<1>2. TypeOK /\ HeldByLive /\ HeldInProject /\ [Next]_vars => HeldInProject'
  BY ProjectKept DEF vars, boardVars, HeldInProject
<1>3. HeldByLive /\ HeldInProject => LeasesFollowTask
  BY DEF HeldByLive, HeldInProject, LeasesFollowTask
<1> QED
  BY <1>1, <1>2, <1>3, TypeCorrect, LiveHold, PTL DEF Spec

-----------------------------------------------------------------------------
(* Limits.                                                                 *)

(***************************************************************************)
(* A row that a move writes is that of a view it enters a bucket in.       *)
(***************************************************************************)
LEMMA MovedRowsAt ==
    ASSUME NEW u, NEW current, NEW target, NEW v \in View
    PROVE  \/ MovedRows(u, current, target)[v] = current[v]
           \/ /\ v \in DOMAIN target /\ v \in Entering(current, target)
              /\ MovedRows(u, current, target)[v] = [bucket |-> target[v], movedBy |-> u]
BY DEF MovedRows

(***************************************************************************)
(* A row that finishing writes is in the done bucket of its view.          *)
(***************************************************************************)
LEMMA FinishedAt ==
    ASSUME TypeOK, NEW u, NEW t \in Task, NEW x \in Task, NEW v \in View
    PROVE  \/ Finished(u, t).rows[x][v] = rows[x][v]
           \/ /\ v \in DoneViews(project[x])
              /\ Finished(u, t).rows[x][v] = InDoneBucket(u, v)
<1>1. Finished(u, t).rows[x] = IF x = t THEN FinishedRows(u, t, rows[t])
                               ELSE IF x \in ClosingParents(t) THEN ParentRows(u, x)
                               ELSE rows[x]
  BY DEF Finished
<1> QED
  BY <1>1 DEF FinishedRows, ParentRows

\* A bucket whose limit counts.
Limited(b) == b \in Bucket /\ Limit[b] > 0 /\ b # Default(ViewOf[b])

\* A step adds at most one task to a bucket, and only where there is room.
Fits(b) ==
    \/ TasksIn(b)' \subseteq TasksIn(b)
    \/ HasRoom(b) /\ \E t \in Task : TasksIn(b)' \subseteq TasksIn(b) \cup {t}

(***************************************************************************)
(* A bucket whose limit counts is no view's done or default bucket.        *)
(***************************************************************************)
LEMMA LimitedIs ==
    ASSUME NEW b, Limited(b)
    PROVE  /\ ViewOf[b] \in View /\ b # NoBucket
           /\ b # Default(ViewOf[b]) /\ b # DefaultBucket[ViewOf[b]]
           /\ b # DoneBucket[ViewOf[b]]
<1>1. b \in Bucket /\ ViewOf[b] \in View /\ b # NoBucket /\ b # Default(ViewOf[b])
  BY BoardAssumption DEF BoardAssumption, Limited
<1>2. b # DefaultBucket[ViewOf[b]]
  BY <1>1 DEF Default
<1>3. b # DoneBucket[ViewOf[b]]
  BY <1>1, BoardAssumption DEF BoardAssumption, Limited
<1> QED
  BY <1>1, <1>2, <1>3

(***************************************************************************)
(* Where only the rows of one task change, and only to enter buckets that  *)
(* have room or carry no limit, the step fits.                             *)
(***************************************************************************)
LEMMA OneCardFits ==
    ASSUME NEW b, Limited(b), NEW t \in Task,
           \A x \in Task \ {t} : rows'[x] = rows[x],
           rows'[t][ViewOf[b]].bucket = b => rows[t][ViewOf[b]].bucket = b \/ HasRoom(b)
    PROVE  Fits(b)
<1>1. TasksIn(b)' \subseteq TasksIn(b) \cup {t}
  BY DEF TasksIn
<1>2. CASE t \in TasksIn(b)'
  BY <1>1, <1>2 DEF TasksIn, Fits
<1>3. CASE t \notin TasksIn(b)'
  BY <1>1, <1>3 DEF TasksIn, Fits
<1> QED
  BY <1>2, <1>3

(***************************************************************************)
(* Finishing fits everywhere: done buckets carry no limit.                 *)
(***************************************************************************)
LEMMA FinishingFits ==
    ASSUME TypeOK, NEW b, Limited(b), NEW u, NEW t \in Task, rows' = Finished(u, t).rows
    PROVE  Fits(b)
<1> SUFFICES ASSUME NEW x \in Task, rows'[x][ViewOf[b]].bucket = b
             PROVE  rows[x][ViewOf[b]].bucket = b
  BY DEF Fits, TasksIn
<1>1. ViewOf[b] \in View /\ b # DoneBucket[ViewOf[b]]
  BY LimitedIs
<1>2. InDoneBucket(u, ViewOf[b]).bucket # b
  BY <1>1 DEF InDoneBucket
<1> QED
  BY <1>1, <1>2, FinishedAt

(***************************************************************************)
(* Moving to buckets that have room, or to default ones, fits.             *)
(***************************************************************************)
LEMMA MovedFits ==
    ASSUME TypeOK, NEW b, Limited(b), NEW u, NEW t \in Task, NEW current, NEW target,
           rows' = [rows EXCEPT ![t] = MovedRows(u, current, target)],
           current = rows[t] \/ current = NoRows,
           \A v \in DOMAIN target \cap View : v \in Entering(current, target) =>
              target[v] = Default(v) \/ target[v] = DefaultBucket[v] \/ HasRoom(target[v])
    PROVE  Fits(b)
<1> DEFINE w == ViewOf[b]
<1>1. w \in View /\ b # Default(w) /\ b # DefaultBucket[w] /\ b # NoBucket
  BY LimitedIs
<1>2. rows'[t] = MovedRows(u, current, target) /\ \A x \in Task \ {t} : rows'[x] = rows[x]
  BY DEF TypeOK
<1>3. ASSUME rows'[t][w].bucket = b
      PROVE  rows[t][w].bucket = b \/ HasRoom(b)
  <2>1. CASE rows'[t][w] = current[w]
    BY <1>1, <1>3, <2>1 DEF NoRows, NoRow
  <2>2. CASE /\ w \in DOMAIN target /\ w \in Entering(current, target)
             /\ rows'[t][w] = [bucket |-> target[w], movedBy |-> u]
    BY <1>1, <1>3, <2>2
  <2> QED
    BY <1>1, <1>2, <2>1, <2>2, MovedRowsAt
<1> QED
  BY <1>2, <1>3, OneCardFits

(***************************************************************************)
(* A drag or a claim fits: it is refused where there is no room.           *)
(***************************************************************************)
LEMMA MovesFit ==
    ASSUME TypeOK, NEW b, Limited(b), NEW u \in User, NEW t \in Task, NEW v \in View, NEW c \in Bucket,
           Moves(u, t, v, c)
    PROVE  Fits(b)
<1>1. CASE Finishes(t, v, c) /\ t \notin Repeating
  BY <1>1, FinishingFits DEF Moves, MovedTables
<1>2. CASE ~(Finishes(t, v, c) /\ t \notin Repeating)
  <2> DEFINE target == To(v, RestingPlace(t, v, c))
  <2>1. rows' = [rows EXCEPT ![t] = MovedRows(u, rows[t], target)]
    BY <1>2 DEF Moves, MovedTables
  <2>2. c = target[v] /\ v \in Entering(rows[t], target) => HasRoom(c)
    BY DEF Moves, MoveAllowed, RoomFor, Entering, To
  <2>3. DOMAIN target = {v} /\ target[v] = RestingPlace(t, v, c)
    BY DEF To
  <2>4. RestingPlace(t, v, c) \in {c, DefaultBucket[v], rows[t][v].bucket}
    BY DEF RestingPlace
  <2>5. \A w \in DOMAIN target \cap View : w \in Entering(rows[t], target) =>
           target[w] = Default(w) \/ target[w] = DefaultBucket[w] \/ HasRoom(target[w])
    BY <2>2, <2>3, <2>4 DEF Entering
  <2> HIDE DEF target
  <2> QED
    BY <2>1, <2>5, MovedFits
<1> QED
  BY <1>1, <1>2

(***************************************************************************)
(* A new task is put where it is asked to be if there is room, else into   *)
(* default or done buckets.                                                *)
(***************************************************************************)
LEMMA CreateFits ==
    ASSUME TypeOK, NEW b, Limited(b), NEW u \in User, NEW t \in Task, NEW p \in Project,
           NEW c \in Bucket \cup {NoBucket}, NEW isDone \in BOOLEAN,
           CreateTask(u, t, p, c, isDone)
    PROVE  Fits(b)
<1> DEFINE w == ViewOf[b]
           intoDone == ~isDone /\ \E v \in DoneViews(p) : DoneBucket[v] = c
           place(v) == IF isDone /\ DoneBucket[v] # NoBucket THEN DoneBucket[v]
                       ELSE IF c \in BucketsIn(v) THEN c ELSE Default(v)
           row(v) == IF v \notin ManualViews(p) \/ (intoDone /\ v \notin DoneViews(p)) THEN NoRow
                     ELSE IF intoDone THEN InDoneBucket(u, v)
                     ELSE [bucket |-> place(v), movedBy |-> NoUser]
<1>1. w \in View /\ b # Default(w) /\ b # DoneBucket[w] /\ b # NoBucket
  BY LimitedIs
<1>2. rows' = [rows EXCEPT ![t] = [v \in View |-> row(v)]]
  BY DEF CreateTask
<1>3. c # NoBucket => HasRoom(c)
  BY DEF CreateTask
<1>4. place(w) \in {DoneBucket[w], c, Default(w)}
  OBVIOUS
<1>5. row(w).bucket \in {NoBucket, DoneBucket[w], c, Default(w)}
  <2> HIDE DEF intoDone, place
  <2> QED
    BY <1>4 DEF NoRow, InDoneBucket
<1> HIDE DEF row, place, intoDone
<1>6. rows'[t][w] = row(w) /\ \A x \in Task \ {t} : rows'[x] = rows[x]
  BY <1>1, <1>2 DEF TypeOK
<1> QED
  BY <1>1, <1>3, <1>5, <1>6, OneCardFits

(***************************************************************************)
(* Every step fits.                                                        *)
(***************************************************************************)
LEMMA StepsFit ==
    ASSUME TypeOK, Next, NEW b, Limited(b)
    PROVE  Fits(b)
<1>1. ASSUME UNCHANGED rows
      PROVE  Fits(b)
  BY <1>1 DEF Fits, TasksIn
<1>2. ASSUME NEW u \in User, NEW t \in Task, NEW c \in Bucket, Moves(u, t, ViewOf[c], c)
      PROVE  Fits(b)
  BY <1>2, MovesFit, BoardAssumption DEF BoardAssumption
<1>3. ASSUME NEW u \in User, NEW t \in Task, NEW who \in SUBSET User, MarkDone(u, t, who)
      PROVE  Fits(b)
  <2>1. rows' = Finished(u, t).rows \/ rows' = rows
    BY <1>3 DEF MarkDone
  <2> QED
    BY <1>1, <2>1, FinishingFits
<1>4. ASSUME NEW u \in User, NEW t \in Task, NEW who \in SUBSET User,
             CompleteOccurrence(u, t, who)
      PROVE  Fits(b)
  <2> DEFINE target == [v \in {x \in ManualViews(project[t]) : DefaultBucket[x] # NoBucket}
                           |-> DefaultBucket[v]]
  <2>1. rows' = [rows EXCEPT ![t] = MovedRows(u, rows[t], target)]
    BY <1>4 DEF CompleteOccurrence
  <2>2. \A v \in DOMAIN target \cap View : target[v] = DefaultBucket[v]
    OBVIOUS
  <2> HIDE DEF target
  <2> QED
    BY <2>1, <2>2, MovedFits
<1>5. ASSUME NEW u \in User, NEW t \in Task, NEW who \in SUBSET User, MarkUndone(u, t, who)
      PROVE  Fits(b)
  <2> DEFINE target == [v \in {x \in ManualViews(project[t]) :
                                  t \notin Repeating /\ rows[t][x].bucket = DoneBucket[x]}
                           |-> Default(v)]
  <2>1. rows' = [rows EXCEPT ![t] = MovedRows(u, rows[t], target)]
    BY <1>5 DEF MarkUndone
  <2>2. \A v \in DOMAIN target \cap View : target[v] = Default(v)
    OBVIOUS
  <2> HIDE DEF target
  <2> QED
    BY <2>1, <2>2, MovedFits
<1>6. ASSUME NEW u \in User, NEW t \in Task, NEW p \in MoveTargets, NEW who \in SUBSET User,
             MoveToProject(u, t, p, who)
      PROVE  Fits(b)
  <2> DEFINE target == [v \in ManualViews(p) |->
                          IF done[t] /\ DoneBucket[v] # NoBucket THEN DoneBucket[v]
                          ELSE Default(v)]
  <2>1. rows' = [rows EXCEPT ![t] = MovedRows(u, NoRows, target)] /\ RoomFor(NoRows, target)
    BY <1>6 DEF MoveToProject, Transferred
  <2> HIDE DEF target
  <2> QED
    BY <2>1, MovedFits DEF RoomFor
<1>7. ASSUME NEW t \in Task, DeleteTask(t) \/ PurgeTask(t)
      PROVE  Fits(b)
  <2>1. rows' = [rows EXCEPT ![t] = NoRows]
    BY <1>7 DEF DeleteTask, PurgeTask
  <2>2. ViewOf[b] \in View /\ b # NoBucket
    BY LimitedIs
  <2>3. rows'[t][ViewOf[b]].bucket # b /\ \A x \in Task \ {t} : rows'[x] = rows[x]
    BY <2>1, <2>2 DEF TypeOK, NoRows, NoRow
  <2> QED
    BY <2>3, OneCardFits
<1> QED
  BY <1>1, <1>2, <1>3, <1>4, <1>5, <1>6, <1>7, CreateFits, CardSteps DEF CardStep, Creates

(***************************************************************************)
(* No bucket but a default one ever holds more tasks than its limit.       *)
(***************************************************************************)
THEOREM BoardWithinLimit ==
    ASSUME IsFiniteSet(Task)
    PROVE  Spec => []WithinLimit
<1>1. ASSUME NEW b
      PROVE  /\ IsFiniteSet(TasksIn(b)) /\ IsFiniteSet(TasksIn(b)')
             /\ Cardinality(TasksIn(b)) \in Nat /\ Cardinality(TasksIn(b)') \in Nat
  <2>1. TasksIn(b) \in SUBSET Task /\ TasksIn(b)' \in SUBSET Task
    BY DEF TasksIn
  <2> QED
    BY <2>1, FS_Subset, FS_CardinalityType
<1>2. Init => WithinLimit
  <2> SUFFICES ASSUME Init, NEW b \in Bucket, Limit[b] > 0, b # Default(ViewOf[b])
               PROVE  Cardinality(TasksIn(b)) <= Limit[b]
    BY DEF WithinLimit
  <2>1. ViewOf[b] \in View /\ b # NoBucket
    BY LimitedIs DEF Limited
  <2>2. TasksIn(b) = {}
    BY <2>1 DEF Init, TasksIn, NoRow
  <2> QED
    BY <2>2, FS_EmptySet, BoardAssumption DEF BoardAssumption
<1>3. TypeOK /\ WithinLimit /\ [Next]_vars => WithinLimit'
  <2> SUFFICES ASSUME TypeOK, WithinLimit, [Next]_vars, NEW b \in Bucket, Limit[b] > 0,
                      b # Default(ViewOf[b])
               PROVE  Cardinality(TasksIn(b)') <= Limit[b]
    BY DEF WithinLimit
  <2>1. Limited(b) /\ Limit[b] \in Nat /\ Cardinality(TasksIn(b)) <= Limit[b]
    BY BoardAssumption DEF BoardAssumption, Limited, WithinLimit
  <2>2. Fits(b)
    <3>1. CASE Next
      BY <2>1, <3>1, StepsFit
    <3>2. CASE UNCHANGED vars
      BY <3>2 DEF vars, boardVars, Fits, TasksIn
    <3> QED
      BY <3>1, <3>2
  <2>3. CASE TasksIn(b)' \subseteq TasksIn(b)
    <3>1. Cardinality(TasksIn(b)') <= Cardinality(TasksIn(b))
      BY <1>1, <2>3, FS_Subset
    <3> QED
      BY <1>1, <2>1, <3>1
  <2>4. ASSUME HasRoom(b), NEW t \in Task, TasksIn(b)' \subseteq TasksIn(b) \cup {t}
        PROVE  Cardinality(TasksIn(b)') <= Limit[b]
    <3>1. Cardinality(TasksIn(b)) < Limit[b]
      BY <2>4 DEF HasRoom
    <3>2. /\ IsFiniteSet(TasksIn(b) \cup {t})
          /\ \/ Cardinality(TasksIn(b) \cup {t}) = Cardinality(TasksIn(b))
             \/ Cardinality(TasksIn(b) \cup {t}) = Cardinality(TasksIn(b)) + 1
      <4>1. IsFiniteSet(TasksIn(b))
        BY <1>1
      <4> QED
        BY <4>1, FS_AddElement
    <3>3. Cardinality(TasksIn(b)') <= Cardinality(TasksIn(b) \cup {t})
      BY <2>4, <3>2, FS_Subset
    <3>4. Cardinality(TasksIn(b) \cup {t}) \in Nat
      BY <3>2, FS_CardinalityType
    <3> QED
      BY <1>1, <2>1, <3>1, <3>2, <3>3, <3>4
  <2> QED
    BY <2>2, <2>3, <2>4 DEF Fits
<1> QED
  BY <1>2, <1>3, TypeCorrect, PTL DEF Spec

-----------------------------------------------------------------------------
(* Where the cards are, and which are done.                                *)

\* A project has at most one kanban view.  With two of them a card dragged out of
\* the done bucket of one stays in that of the other.
OneViewEach == \A v, w \in View : ProjectOf[v] = ProjectOf[w] => v = w

\* A project has one kanban view, and that has a done bucket.
StandardBoards == OneViewEach /\ \A p \in Project : DoneViews(p) # {}

\* Nobody claims a task into the done bucket.
ClaimsStart == \A v \in View : DoneBucket[v] \notin ClaimTargets

\* A task has cards in the views of its project only.
CardsAtHome ==
    \A t \in Task, v \in View : v \notin ManualViews(project[t]) => rows[t][v] = NoRow

\* A task that is done is in the done bucket; one that is there is done, unless it
\* repeats.
Settled(t) ==
    \A v \in DoneViews(project[t]) :
       /\ done[t] => rows[t][v].bucket = DoneBucket[v]
       /\ (rows[t][v].bucket = DoneBucket[v] /\ t \notin Repeating) => done[t]

DoneInBucket == \A t \in Live : Settled(t)

(***************************************************************************)
(* Finishing writes rows in views of the task's own project, and done      *)
(* flags of the task and the parents that close.                           *)
(***************************************************************************)
LEMMA FinishedCards ==
    ASSUME TypeOK, NEW u, NEW t \in Task, NEW x \in Task
    PROVE  /\ \A v \in View \ ManualViews(project[x]) :
                 Finished(u, t).rows[x][v] = rows[x][v]
           /\ x \in ClosingParents(t) \cup {t} =>
                 /\ Finished(u, t).done[x]
                 /\ \A v \in DoneViews(project[x]) :
                       Finished(u, t).rows[x][v].bucket = DoneBucket[v]
           /\ x \notin ClosingParents(t) \cup {t} =>
                 /\ Finished(u, t).done[x] = done[x]
                 /\ Finished(u, t).rows[x] = rows[x]
<1>1. /\ Finished(u, t).rows[x] = IF x = t THEN FinishedRows(u, t, rows[t])
                                  ELSE IF x \in ClosingParents(t) THEN ParentRows(u, x)
                                  ELSE rows[x]
      /\ Finished(u, t).done[x] = (done[x] \/ x = t \/ x \in ClosingParents(t))
  BY DEF Finished
<1>2. \A v \in DoneViews(project[x]) : v \in ManualViews(project[x]) /\ v \in View
  BY DEF DoneViews, ManualViews
<1>3. \A v \in View : /\ FinishedRows(u, t, rows[t])[v] =
                           IF v \in DoneViews(project[t]) THEN InDoneBucket(u, v) ELSE rows[t][v]
                      /\ ParentRows(u, x)[v] =
                           IF v \in DoneViews(project[x]) /\ rows[x][v].bucket # DoneBucket[v]
                           THEN InDoneBucket(u, v) ELSE rows[x][v]
  BY DEF FinishedRows, ParentRows
<1>4. \A v : InDoneBucket(u, v).bucket = DoneBucket[v]
  BY DEF InDoneBucket
<1>5. CASE x = t
  <2>1. /\ Finished(u, t).rows[x] = FinishedRows(u, t, rows[t])
        /\ Finished(u, t).done[x]
    BY <1>1, <1>5
  <2> QED
    BY <1>2, <1>3, <1>4, <1>5, <2>1
<1>6. CASE x # t /\ x \in ClosingParents(t)
  <2>1. /\ Finished(u, t).rows[x] = ParentRows(u, x)
        /\ Finished(u, t).done[x]
    BY <1>1, <1>6
  <2>2. \A v \in View \ ManualViews(project[x]) : Finished(u, t).rows[x][v] = rows[x][v]
    BY <1>2, <1>3, <2>1
  <2>3. \A v \in DoneViews(project[x]) : Finished(u, t).rows[x][v].bucket = DoneBucket[v]
    BY <1>2, <1>3, <1>4, <2>1
  <2> QED
    BY <1>6, <2>1, <2>2, <2>3
<1>7. CASE x # t /\ x \notin ClosingParents(t)
  <2>1. done[x] \in BOOLEAN
    BY DEF TypeOK
  <2>2. /\ Finished(u, t).rows[x] = rows[x]
        /\ Finished(u, t).done[x] = done[x]
    BY <1>1, <1>7, <2>1
  <2> QED
    BY <1>7, <2>2
<1> QED
  BY <1>5, <1>6, <1>7

(***************************************************************************)
(* Moved rows in one view of the target and outside it.                    *)
(***************************************************************************)
LEMMA MovedRowsIn ==
    ASSUME NEW u, NEW current, NEW target, NEW v \in View
    PROVE  /\ v \in DOMAIN target => MovedRows(u, current, target)[v].bucket = target[v]
           /\ v \notin DOMAIN target => MovedRows(u, current, target)[v] = current[v]
BY DEF MovedRows, Entering

(***************************************************************************)
(* A drag or a claim that does not finish the task: its card moves in that *)
(* view, and its flag goes when it leaves the done bucket.                 *)
(***************************************************************************)
LEMMA DraggedCard ==
    ASSUME TypeOK, NEW u, NEW t \in Task, NEW v \in View, NEW b, Moves(u, t, v, b),
           ~(Finishes(t, v, b) /\ t \notin Repeating)
    PROVE  /\ \A x \in Task \ {t} : done'[x] = done[x] /\ rows'[x] = rows[x]
           /\ \A w \in View \ {v} : rows'[t][w] = rows[t][w]
           /\ rows'[t][v].bucket = RestingPlace(t, v, b)
           /\ (done'[t] <=> done[t] /\ ~LeavesDone(t, v, b))
<1> DEFINE target == To(v, RestingPlace(t, v, b))
<1>1. /\ rows' = [rows EXCEPT ![t] = MovedRows(u, rows[t], target)]
      /\ done' = [done EXCEPT ![t] = done[t] /\ ~LeavesDone(t, v, b)]
  BY DEF Moves, MovedTables, TypeOK
<1>2. DOMAIN target = {v} /\ target[v] = RestingPlace(t, v, b)
  BY DEF To
<1> HIDE DEF target
<1>3. /\ rows'[t] = MovedRows(u, rows[t], target)
      /\ \A x \in Task \ {t} : done'[x] = done[x] /\ rows'[x] = rows[x]
      /\ (done'[t] <=> done[t] /\ ~LeavesDone(t, v, b))
  BY <1>1 DEF TypeOK
<1>4. v \in DOMAIN target /\ \A w \in View \ {v} : w \notin DOMAIN target
  BY <1>2
<1>5. MovedRows(u, rows[t], target)[v].bucket = target[v]
  BY <1>4, MovedRowsIn
<1>6. \A w \in View \ {v} : MovedRows(u, rows[t], target)[w] = rows[t][w]
  BY <1>4, MovedRowsIn
<1>7. rows'[t][v].bucket = RestingPlace(t, v, b)
  BY <1>2, <1>3, <1>5
<1>8. \A w \in View \ {v} : rows'[t][w] = rows[t][w]
  BY <1>3, <1>6
<1> QED
  BY <1>3, <1>7, <1>8

(***************************************************************************)
(* Every step leaves cards in the views of the task's project.             *)
(***************************************************************************)
LEMMA HomeKept ==
    ASSUME TypeOK, CardsAtHome, Next
    PROVE  CardsAtHome'
<1>1. CASE UNCHANGED <<project, rows>>
  BY <1>1 DEF CardsAtHome, ManualViews
<1>2. ASSUME NEW t \in Task, UNCHANGED project, \A x \in Task \ {t} : rows'[x] = rows[x],
             \A v \in View \ ManualViews(project[t]) : rows'[t][v] = rows[t][v]
      PROVE  CardsAtHome'
  BY <1>2 DEF CardsAtHome, ManualViews
<1>3. ASSUME NEW u, NEW t \in Task, UNCHANGED project, rows' = Finished(u, t).rows
      PROVE  CardsAtHome'
  BY <1>3, FinishedCards DEF CardsAtHome, ManualViews
<1>4. ASSUME NEW u \in User, NEW t \in Task, NEW b \in Bucket, Moves(u, t, ViewOf[b], b)
      PROVE  CardsAtHome'
  <2>1. UNCHANGED project /\ ViewOf[b] \in ManualViews(project[t]) /\ ViewOf[b] \in View
    BY <1>4 DEF Moves, MoveAllowed, ManualViews
  <2>2. CASE Finishes(t, ViewOf[b], b) /\ t \notin Repeating
    BY <1>3, <1>4, <2>1, <2>2 DEF Moves, MovedTables
  <2>3. CASE ~(Finishes(t, ViewOf[b], b) /\ t \notin Repeating)
    <3>1. /\ \A x \in Task \ {t} : rows'[x] = rows[x]
          /\ \A w \in View \ {ViewOf[b]} : rows'[t][w] = rows[t][w]
      BY <1>4, <2>1, <2>3, DraggedCard
    <3> QED
      BY <1>2, <2>1, <3>1
  <2> QED
    BY <2>2, <2>3
<1>5. ASSUME NEW u \in User, NEW t \in Task, NEW who \in SUBSET User, MarkDone(u, t, who)
      PROVE  CardsAtHome'
  <2>1. UNCHANGED project /\ (rows' = Finished(u, t).rows \/ rows' = rows)
    BY <1>5 DEF MarkDone
  <2> QED
    BY <1>1, <1>3, <2>1
<1>6. ASSUME NEW u, NEW t \in Task, NEW target, UNCHANGED project,
             DOMAIN target \subseteq ManualViews(project[t]),
             rows' = [rows EXCEPT ![t] = MovedRows(u, rows[t], target)]
      PROVE  CardsAtHome'
  <2>1. rows'[t] = MovedRows(u, rows[t], target) /\ \A x \in Task \ {t} : rows'[x] = rows[x]
    BY <1>6 DEF TypeOK
  <2>2. \A v \in View \ ManualViews(project[t]) : rows'[t][v] = rows[t][v]
    BY <1>6, <2>1, MovedRowsIn
  <2> QED
    BY <1>2, <1>6, <2>1, <2>2
<1>7. ASSUME NEW u \in User, NEW t \in Task, NEW who \in SUBSET User,
             CompleteOccurrence(u, t, who)
      PROVE  CardsAtHome'
  <2> DEFINE target == [v \in {x \in ManualViews(project[t]) : DefaultBucket[x] # NoBucket}
                           |-> DefaultBucket[v]]
  <2>1. rows' = [rows EXCEPT ![t] = MovedRows(u, rows[t], target)] /\ UNCHANGED project
    BY <1>7 DEF CompleteOccurrence
  <2>2. DOMAIN target \subseteq ManualViews(project[t])
    OBVIOUS
  <2> HIDE DEF target
  <2> QED
    BY <1>6, <2>1, <2>2
<1>8. ASSUME NEW u \in User, NEW t \in Task, NEW who \in SUBSET User, MarkUndone(u, t, who)
      PROVE  CardsAtHome'
  <2> DEFINE target == [v \in {x \in ManualViews(project[t]) :
                                  t \notin Repeating /\ rows[t][x].bucket = DoneBucket[x]}
                           |-> Default(v)]
  <2>1. rows' = [rows EXCEPT ![t] = MovedRows(u, rows[t], target)] /\ UNCHANGED project
    BY <1>8 DEF MarkUndone
  <2>2. DOMAIN target \subseteq ManualViews(project[t])
    OBVIOUS
  <2> HIDE DEF target
  <2> QED
    BY <1>6, <2>1, <2>2
<1>9. ASSUME NEW u \in User, NEW t \in Task, NEW p \in MoveTargets, NEW who \in SUBSET User,
             MoveToProject(u, t, p, who)
      PROVE  CardsAtHome'
  <2> DEFINE target == [v \in ManualViews(p) |->
                          IF done[t] /\ DoneBucket[v] # NoBucket THEN DoneBucket[v]
                          ELSE Default(v)]
  <2>1. /\ rows' = [rows EXCEPT ![t] = MovedRows(u, NoRows, target)]
        /\ project' = [project EXCEPT ![t] = p]
    BY <1>9 DEF MoveToProject, Transferred
  <2>2. DOMAIN target = ManualViews(p)
    OBVIOUS
  <2> HIDE DEF target
  <2>3. /\ rows'[t] = MovedRows(u, NoRows, target) /\ project'[t] = p
        /\ \A x \in Task \ {t} : rows'[x] = rows[x] /\ project'[x] = project[x]
    BY <2>1 DEF TypeOK
  <2>4. \A v \in View \ ManualViews(p) : rows'[t][v] = NoRow
    BY <2>2, <2>3, MovedRowsIn DEF NoRows
  <2> QED
    BY <2>3, <2>4 DEF CardsAtHome, ManualViews
<1>10. ASSUME NEW u \in User, NEW t \in Task, NEW p \in Project,
              NEW b \in Bucket \cup {NoBucket}, NEW isDone \in BOOLEAN,
              CreateTask(u, t, p, b, isDone)
       PROVE  CardsAtHome'
  <2>1. project' = [project EXCEPT ![t] = p]
    BY <1>10 DEF CreateTask
  <2>2. \A v \in View \ ManualViews(p) : rows'[t][v] = NoRow
    BY <1>10 DEF CreateTask, TypeOK
  <2>3. \A x \in Task \ {t} : rows'[x] = rows[x]
    BY <1>10 DEF CreateTask, TypeOK
  <2>4. project'[t] = p /\ \A x \in Task \ {t} : project'[x] = project[x]
    BY <2>1 DEF TypeOK
  <2> QED
    BY <2>2, <2>3, <2>4 DEF CardsAtHome, ManualViews
<1>11. ASSUME NEW t \in Task, DeleteTask(t) \/ PurgeTask(t)
       PROVE  CardsAtHome'
  <2>1. rows' = [rows EXCEPT ![t] = NoRows] /\ UNCHANGED project
    BY <1>11 DEF DeleteTask, PurgeTask
  <2> QED
    BY <2>1 DEF CardsAtHome, ManualViews, NoRows, TypeOK
<1> QED
  BY <1>1, <1>4, <1>5, <1>7, <1>8, <1>9, <1>10, <1>11, CardSteps DEF CardStep, Creates

(***************************************************************************)
(* Tasks have cards in the views of their project only.                    *)
(***************************************************************************)
LEMMA CardsStayHome == Spec => []CardsAtHome
<1>1. Init => CardsAtHome
  BY DEF Init, CardsAtHome
<1>2. TypeOK /\ CardsAtHome /\ [Next]_vars => CardsAtHome'
  BY HomeKept DEF vars, boardVars, CardsAtHome, ManualViews
<1> QED
  BY <1>1, <1>2, TypeCorrect, PTL DEF Spec

(***************************************************************************)
(* A task nobody touches stays settled.                                    *)
(***************************************************************************)
LEMMA SettledFrame ==
    ASSUME NEW x \in Task, Settled(x),
           project'[x] = project[x], done'[x] = done[x], rows'[x] = rows[x]
    PROVE  Settled(x)'
BY DEF Settled, DoneViews, ManualViews

(***************************************************************************)
(* Finishing settles the task and the parents that close.                  *)
(***************************************************************************)
LEMMA FinishingSettles ==
    ASSUME TypeOK, NEW u, NEW t \in Task, NEW x \in Task, Settled(x), UNCHANGED project,
           done' = Finished(u, t).done, rows' = Finished(u, t).rows
    PROVE  Settled(x)'
<1>1. CASE x \in ClosingParents(t) \cup {t}
  <2>1. /\ done'[x]
        /\ \A v \in DoneViews(project[x]) : rows'[x][v].bucket = DoneBucket[v]
    BY <1>1, FinishedCards
  <2> QED
    BY <2>1 DEF Settled, DoneViews, ManualViews
<1>2. CASE x \notin ClosingParents(t) \cup {t}
  <2>1. done'[x] = done[x] /\ rows'[x] = rows[x]
    BY <1>2, FinishedCards
  <2> QED
    BY <2>1, SettledFrame
<1> QED
  BY <1>1, <1>2

(***************************************************************************)
(* A drag or a claim settles the task when its project has one view: into  *)
(* the done bucket it finishes, out of it it reopens.                      *)
(***************************************************************************)
LEMMA MovingSettles ==
    ASSUME OneViewEach, TypeOK, NEW u \in User, NEW t \in Task, NEW b \in Bucket,
           Moves(u, t, ViewOf[b], b), NEW x \in Task, Settled(x)
    PROVE  Settled(x)'
<1> DEFINE v == ViewOf[b]
<1>1. UNCHANGED project /\ v \in View /\ ProjectOf[v] = project[t]
  BY DEF Moves, MoveAllowed, ManualViews
<1>2. CASE Finishes(t, v, b) /\ t \notin Repeating
  <2>1. done' = Finished(u, t).done /\ rows' = Finished(u, t).rows
    BY <1>2 DEF Moves, MovedTables
  <2> QED
    BY <1>1, <2>1, FinishingSettles
<1>3. CASE ~(Finishes(t, v, b) /\ t \notin Repeating)
  <2> HIDE DEF v
  <2>0. Moves(u, t, v, b) /\ v \in View /\ ~(Finishes(t, v, b) /\ t \notin Repeating)
    BY <1>1, <1>3 DEF v
  <2>1. /\ \A y \in Task \ {t} : done'[y] = done[y] /\ rows'[y] = rows[y]
        /\ \A w \in View \ {v} : rows'[t][w] = rows[t][w]
        /\ rows'[t][v].bucket = RestingPlace(t, v, b)
        /\ (done'[t] <=> done[t] /\ ~LeavesDone(t, v, b))
    BY <2>0, DraggedCard
  <2>2. CASE x # t
    BY <1>1, <2>1, <2>2, SettledFrame
  <2>3. CASE x = t
    <3> SUFFICES ASSUME v \in DoneViews(project[t])
                 PROVE  /\ done'[t] => rows'[t][v].bucket = DoneBucket[v]
                        /\ (rows'[t][v].bucket = DoneBucket[v] /\ t \notin Repeating) => done'[t]
      <4>1. \A w \in DoneViews(project[t]) : w = v
        BY <1>1 DEF DoneViews, ManualViews, OneViewEach
      <4>2. DoneViews(project[t])' = DoneViews(project[t])
        BY <1>1 DEF DoneViews, ManualViews
      <4> QED
        BY <2>3, <4>1, <4>2 DEF Settled
    <3>1. DoneBucket[v] # NoBucket /\ DoneBucket[v] # Default(v)
      BY <1>1, BoardAssumption DEF BoardAssumption, DoneViews
    <3>2. /\ done[t] => rows[t][v].bucket = DoneBucket[v]
          /\ (rows[t][v].bucket = DoneBucket[v] /\ t \notin Repeating) => done[t]
      BY <2>3 DEF Settled
    <3>3. CASE Finishes(t, v, b)
      <4>1. t \in Repeating /\ ~done'[t]
        BY <1>3, <2>1, <3>3 DEF Finishes
      <4> QED
        BY <4>1
    <3>4. CASE ~Finishes(t, v, b)
      <4>1. rows'[t][v].bucket = b
        BY <2>1, <3>4 DEF RestingPlace
      <4>2. CASE b = DoneBucket[v]
        <5>1. ~LeavesDone(t, v, b)
          BY <4>2 DEF LeavesDone
        <5>2. rows[t][v].bucket = b \/ done[t]
          BY <3>4, <4>2 DEF Finishes
        <5> QED
          BY <2>1, <3>2, <4>1, <4>2, <5>1, <5>2
      <4>3. CASE b # DoneBucket[v]
        <5>1. done[t] => LeavesDone(t, v, b)
          BY <3>1, <3>2, <4>3 DEF LeavesDone
        <5> QED
          BY <2>1, <4>1, <4>3, <5>1
      <4> QED
        BY <4>2, <4>3
    <3> QED
      BY <3>3, <3>4
  <2> QED
    BY <2>2, <2>3
<1> QED
  BY <1>2, <1>3

(***************************************************************************)
(* Setting the done flag finishes the task, or finds it in the done        *)
(* bucket of every view already.                                           *)
(***************************************************************************)
LEMMA MarkDoneSettles ==
    ASSUME TypeOK, NEW u \in User, NEW t \in Task, NEW who, MarkDone(u, t, who),
           NEW x \in Task, Settled(x)
    PROVE  Settled(x)'
<1> DEFINE enters == \E v \in DoneViews(project[t]) : rows[t][v].bucket # DoneBucket[v]
<1>1. /\ UNCHANGED project
      /\ enters => done' = Finished(u, t).done /\ rows' = Finished(u, t).rows
      /\ ~enters => done' = [done EXCEPT ![t] = TRUE] /\ rows' = rows
  BY DEF MarkDone
<1>2. CASE enters
  <2>1. done' = Finished(u, t).done /\ rows' = Finished(u, t).rows
    BY <1>1, <1>2
  <2> QED
    BY <1>1, <2>1, FinishingSettles
<1>3. CASE ~enters
  <2>1. /\ \A v \in DoneViews(project[t]) : rows'[t][v].bucket = DoneBucket[v]
        /\ done'[t] /\ rows' = rows
        /\ \A y \in Task \ {t} : done'[y] = done[y]
    BY <1>1, <1>3 DEF TypeOK
  <2>2. CASE x = t
    BY <1>1, <2>1, <2>2 DEF Settled, DoneViews, ManualViews
  <2>3. CASE x # t
    BY <1>1, <2>1, <2>3, SettledFrame
  <2> QED
    BY <2>2, <2>3
<1> QED
  BY <1>2, <1>3

(***************************************************************************)
(* Clearing the done flag takes the task out of the done buckets.          *)
(***************************************************************************)
LEMMA MarkUndoneSettles ==
    ASSUME TypeOK, NEW u \in User, NEW t \in Task, NEW who, MarkUndone(u, t, who),
           NEW x \in Task, Settled(x)
    PROVE  Settled(x)'
<1> DEFINE target == [v \in {y \in ManualViews(project[t]) :
                                t \notin Repeating /\ rows[t][y].bucket = DoneBucket[y]}
                         |-> Default(v)]
<1>1. /\ UNCHANGED project
      /\ rows' = [rows EXCEPT ![t] = MovedRows(u, rows[t], target)]
      /\ done' = [done EXCEPT ![t] = FALSE]
  BY DEF MarkUndone
<1>2. /\ \A v \in DoneViews(project[t]) :
            (rows[t][v].bucket = DoneBucket[v] /\ t \notin Repeating) => v \in DOMAIN target
      /\ \A v \in DOMAIN target : target[v] = Default(v)
  BY DEF DoneViews, ManualViews
<1> HIDE DEF target
<1>3. /\ rows'[t] = MovedRows(u, rows[t], target) /\ ~done'[t]
      /\ \A y \in Task \ {t} : done'[y] = done[y] /\ rows'[y] = rows[y]
  BY <1>1 DEF TypeOK
<1>4. CASE x # t
  BY <1>1, <1>3, <1>4, SettledFrame
<1>5. CASE x = t
  <2>1. ASSUME NEW v \in DoneViews(project[t]), t \notin Repeating
        PROVE  rows'[t][v].bucket # DoneBucket[v]
    <3>1. v \in View /\ DoneBucket[v] # Default(v)
      BY BoardAssumption DEF BoardAssumption, DoneViews, ManualViews
    <3>2. CASE v \in DOMAIN target
      <4>1. MovedRows(u, rows[t], target)[v].bucket = target[v]
        BY <3>1, <3>2, MovedRowsIn
      <4> QED
        BY <1>2, <1>3, <3>1, <3>2, <4>1
    <3>3. CASE v \notin DOMAIN target
      <4>1. MovedRows(u, rows[t], target)[v] = rows[t][v]
        BY <3>1, <3>3, MovedRowsIn
      <4> QED
        BY <1>2, <1>3, <2>1, <3>3, <4>1
    <3> QED
      BY <3>2, <3>3
  <2>2. DoneViews(project[t])' = DoneViews(project[t])
    BY <1>1 DEF DoneViews, ManualViews
  <2> QED
    BY <1>3, <1>5, <2>1, <2>2 DEF Settled
<1> QED
  BY <1>4, <1>5

(***************************************************************************)
(* A task arrives in the done bucket of its new project if it is done, and *)
(* in the default bucket otherwise.                                        *)
(***************************************************************************)
LEMMA TransferSettles ==
    ASSUME TypeOK, NEW u \in User, NEW t \in Task, NEW p \in Project, NEW who,
           MoveToProject(u, t, p, who), NEW x \in Task, Settled(x)
    PROVE  Settled(x)'
<1> DEFINE target == [v \in ManualViews(p) |->
                        IF done[t] /\ DoneBucket[v] # NoBucket THEN DoneBucket[v]
                        ELSE Default(v)]
<1>1. /\ rows' = [rows EXCEPT ![t] = MovedRows(u, NoRows, target)]
      /\ project' = [project EXCEPT ![t] = p] /\ done' = done
  BY DEF MoveToProject, Transferred
<1>2. \A v \in DoneViews(p) :
         /\ v \in View /\ v \in DOMAIN target
         /\ target[v] = IF done[t] THEN DoneBucket[v] ELSE Default(v)
  BY DEF DoneViews, ManualViews
<1> HIDE DEF target
<1>3. /\ rows'[t] = MovedRows(u, NoRows, target) /\ project'[t] = p
      /\ \A y \in Task \ {t} : rows'[y] = rows[y] /\ project'[y] = project[y]
  BY <1>1 DEF TypeOK
<1>4. CASE x # t
  BY <1>1, <1>3, <1>4, SettledFrame
<1>5. CASE x = t
  <2>1. ASSUME NEW v \in DoneViews(p)
        PROVE  /\ done'[t] => rows'[t][v].bucket = DoneBucket[v]
               /\ rows'[t][v].bucket = DoneBucket[v] => done'[t]
    <3>1. DoneBucket[v] # Default(v)
      BY <1>2, BoardAssumption DEF BoardAssumption, DoneViews
    <3>2. MovedRows(u, NoRows, target)[v].bucket = target[v]
      BY <1>2, MovedRowsIn
    <3> QED
      BY <1>1, <1>2, <1>3, <3>1, <3>2
  <2>2. DoneViews(project[t])' = DoneViews(p)
    BY <1>3 DEF DoneViews, ManualViews
  <2> QED
    BY <1>5, <2>1, <2>2 DEF Settled
<1> QED
  BY <1>4, <1>5

(***************************************************************************)
(* A new task is in the done buckets exactly if it is done.                *)
(***************************************************************************)
LEMMA CreateSettles ==
    ASSUME TypeOK, NEW u \in User, NEW t \in Task, NEW p \in Project,
           NEW b \in Bucket \cup {NoBucket}, NEW isDone \in BOOLEAN,
           CreateTask(u, t, p, b, isDone)
    PROVE  Settled(t)'
<1> DEFINE intoDone == ~isDone /\ \E v \in DoneViews(p) : DoneBucket[v] = b
           place(v) == IF isDone /\ DoneBucket[v] # NoBucket THEN DoneBucket[v]
                       ELSE IF b \in BucketsIn(v) THEN b ELSE Default(v)
<1>1. /\ project'[t] = p
      /\ done'[t] <=> isDone \/ intoDone
      /\ \A v \in View : rows'[t][v] =
            IF v \notin ManualViews(p) \/ (intoDone /\ v \notin DoneViews(p)) THEN NoRow
            ELSE IF intoDone THEN InDoneBucket(u, v)
            ELSE [bucket |-> place(v), movedBy |-> NoUser]
  BY DEF CreateTask, TypeOK
<1>2. ASSUME NEW v \in DoneViews(p)
      PROVE  /\ done'[t] => rows'[t][v].bucket = DoneBucket[v]
             /\ rows'[t][v].bucket = DoneBucket[v] => done'[t]
  <2>1. v \in View /\ v \in ManualViews(p) /\ DoneBucket[v] \notin {NoBucket, Default(v)}
    BY BoardAssumption DEF BoardAssumption, DoneViews, ManualViews
  <2>2. CASE intoDone
    <3>1. rows'[t][v] = InDoneBucket(u, v)
      BY <1>1, <1>2, <2>1, <2>2
    <3> QED
      BY <1>1, <2>2, <3>1 DEF InDoneBucket
  <2>3. CASE ~intoDone
    <3>1. rows'[t][v].bucket = place(v)
      <4> HIDE DEF place, intoDone
      <4>1. rows'[t][v] = [bucket |-> place(v), movedBy |-> NoUser]
        BY <1>1, <2>1, <2>3
      <4> QED
        BY <4>1
    <3>2. isDone => place(v) = DoneBucket[v]
      BY <2>1
    <3>3. ~isDone => place(v) # DoneBucket[v]
      BY <1>2, <2>1, <2>3
    <3> QED
      BY <1>1, <2>3, <3>1, <3>2, <3>3
  <2> QED
    BY <2>2, <2>3
<1>3. DoneViews(project[t])' = DoneViews(p)
  BY <1>1 DEF DoneViews, ManualViews
<1> QED
  BY <1>2, <1>3 DEF Settled

(***************************************************************************)
(* Where a project has one view, every step keeps the tasks settled.       *)
(***************************************************************************)
LEMMA SettledKept ==
    ASSUME OneViewEach, TypeOK, DoneInBucket, Next
    PROVE  DoneInBucket'
<1> SUFFICES ASSUME NEW x \in Live'
             PROVE  Settled(x)'
  BY DEF DoneInBucket
<1>0. x \in Task
  BY DEF Live
<1>1. ASSUME UNCHANGED status
      PROVE  Settled(x)
  BY <1>1 DEF DoneInBucket, Live
<1>2. CASE UNCHANGED <<status, project, done, rows>>
  BY <1>0, <1>1, <1>2, SettledFrame
<1>3. ASSUME NEW u \in User, NEW t \in Task, NEW b \in Bucket, Moves(u, t, ViewOf[b], b)
      PROVE  Settled(x)'
  <2>1. UNCHANGED status
    BY <1>3 DEF Moves
  <2> QED
    BY <1>0, <1>1, <1>3, <2>1, MovingSettles
<1>4. ASSUME NEW u \in User, NEW t \in Task, NEW who \in SUBSET User, MarkDone(u, t, who)
      PROVE  Settled(x)'
  <2>1. UNCHANGED status
    BY <1>4 DEF MarkDone
  <2> QED
    BY <1>0, <1>1, <1>4, <2>1, MarkDoneSettles
<1>5. ASSUME NEW u \in User, NEW t \in Task, NEW who \in SUBSET User,
             CompleteOccurrence(u, t, who)
      PROVE  Settled(x)'
  <2> DEFINE target == [v \in {y \in ManualViews(project[t]) : DefaultBucket[y] # NoBucket}
                           |-> DefaultBucket[v]]
  <2>1. /\ UNCHANGED <<status, project, done>> /\ ~done[t] /\ t \in Repeating
        /\ rows' = [rows EXCEPT ![t] = MovedRows(u, rows[t], target)]
    BY <1>5 DEF CompleteOccurrence
  <2> HIDE DEF target
  <2>2. \A y \in Task \ {t} : rows'[y] = rows[y]
    BY <2>1 DEF TypeOK
  <2>3. CASE x = t
    BY <2>1, <2>3 DEF Settled
  <2>4. CASE x # t
    BY <1>0, <1>1, <2>1, <2>2, <2>4, SettledFrame
  <2> QED
    BY <2>3, <2>4
<1>6. ASSUME NEW u \in User, NEW t \in Task, NEW who \in SUBSET User, MarkUndone(u, t, who)
      PROVE  Settled(x)'
  <2>1. UNCHANGED status
    BY <1>6 DEF MarkUndone
  <2> QED
    BY <1>0, <1>1, <1>6, <2>1, MarkUndoneSettles
<1>7. ASSUME NEW u \in User, NEW t \in Task, NEW p \in MoveTargets, NEW who \in SUBSET User,
             MoveToProject(u, t, p, who)
      PROVE  Settled(x)'
  <2>1. UNCHANGED status /\ p \in Project
    BY <1>7, BoardAssumption DEF BoardAssumption, MoveToProject
  <2> QED
    BY <1>0, <1>1, <1>7, <2>1, TransferSettles
<1>8. ASSUME NEW u \in User, NEW t \in Task, NEW p \in Project,
             NEW b \in Bucket \cup {NoBucket}, NEW isDone \in BOOLEAN,
             CreateTask(u, t, p, b, isDone)
      PROVE  Settled(x)'
  <2>1. CASE x = t
    BY <1>8, <2>1, CreateSettles
  <2>2. CASE x # t
    <3>1. /\ status'[x] = status[x] /\ project'[x] = project[x]
          /\ done'[x] = done[x] /\ rows'[x] = rows[x]
      BY <1>0, <1>8, <2>2 DEF CreateTask, TypeOK
    <3>2. Settled(x)
      BY <1>0, <3>1 DEF DoneInBucket, Live
    <3> QED
      BY <1>0, <3>1, <3>2, SettledFrame
  <2> QED
    BY <2>1, <2>2
<1>9. ASSUME NEW t \in Task, DeleteTask(t) \/ PurgeTask(t)
      PROVE  Settled(x)'
  <2>1. /\ UNCHANGED <<project, done>> /\ status'[t] # "live"
        /\ \A y \in Task \ {t} : status'[y] = status[y] /\ rows'[y] = rows[y]
    BY <1>9 DEF DeleteTask, PurgeTask, TypeOK
  <2>2. x # t /\ status'[x] = "live"
    BY <2>1 DEF Live
  <2>3. Settled(x)
    BY <1>0, <2>1, <2>2 DEF DoneInBucket, Live
  <2> QED
    BY <1>0, <2>1, <2>2, <2>3, SettledFrame
<1> QED
  BY <1>2, <1>3, <1>4, <1>5, <1>6, <1>7, <1>8, <1>9, CardSteps DEF CardStep, Creates

(***************************************************************************)
(* Where a project has one view, its tasks stay settled.                   *)
(***************************************************************************)
LEMMA StaysSettled ==
    ASSUME OneViewEach
    PROVE  Spec => []DoneInBucket
<1>1. Init => DoneInBucket
  <2> SUFFICES ASSUME Init, NEW t \in Task, NEW v \in DoneViews(project[t]), t \in Live
               PROVE  ~done[t] /\ rows[t][v].bucket # DoneBucket[v]
    BY DEF DoneInBucket, Settled, Live
  <2>1. v \in View /\ ProjectOf[v] = SeedProject /\ DoneBucket[v] # Default(v)
    BY BoardAssumption DEF BoardAssumption, Init, DoneViews, ManualViews
  <2>2. t \in Seed
    BY DEF Init, Live
  <2>3. rows[t][v] = [bucket |-> Default(v), movedBy |-> NoUser]
    BY <2>1, <2>2 DEF Init, ManualViews
  <2> QED
    BY <2>1, <2>3 DEF Init
<1>2. TypeOK /\ DoneInBucket /\ [Next]_vars => DoneInBucket'
  BY SettledKept DEF vars, boardVars, DoneInBucket, Settled, DoneViews, ManualViews, Live
<1> QED
  BY <1>1, <1>2, TypeCorrect, PTL DEF Spec

(***************************************************************************)
(* Where a project has one kanban view, the done flag of a task and the    *)
(* done bucket agree, whichever way the task is finished or reopened.      *)
(***************************************************************************)
THEOREM BoardDoneMatches ==
    ASSUME OneViewEach
    PROVE  Spec => []DoneMatchesBucket
<1>1. DoneInBucket => DoneMatchesBucket
  BY DEF DoneInBucket, Settled, DoneMatchesBucket
<1> QED
  BY <1>1, StaysSettled, PTL

-----------------------------------------------------------------------------
(* Done tasks hold no lease.                                               *)

\* Task t had a lease before the step.
Held(t) == \E m \in leases : m.task = t

(***************************************************************************)
(* Rows in hand hold leases of tasks that had some; taking a scope adds    *)
(* those of the task that takes it.                                        *)
(***************************************************************************)
LEMMA HandHeld ==
    ASSUME TypeOK, NEW lrows, InHand(lrows)
    PROVE  /\ lrows \in SUBSET Lease
           /\ \A l \in lrows : Held(l.task)
<1>1. leases \in SUBSET Lease
  BY DEF TypeOK, LeaseTypeOK
<1>2. lrows \in SUBSET Lease /\ Files(lrows) \subseteq Files(leases)
  BY <1>1, InHandFiles
<1>3. ASSUME NEW l \in lrows
      PROVE  Held(l.task)
  <2>1. \E m \in leases : m.task = l.task /\ m.project = l.project
    BY <1>2, FilesOrigin
  <2> QED
    BY <2>1 DEF Held
<1> QED
  BY <1>2, <1>3

(***************************************************************************)
(* Rows after t took its scope, touched afterwards or not, are of t or of  *)
(* a task that had some.                                                   *)
(***************************************************************************)
LEMMA TakenHeld ==
    ASSUME TypeOK, NEW tabs, InHand(tabs.leases), NEW t \in Task, NEW holder \in User
    PROVE  /\ \A l \in TakenBy(tabs, t, holder) : Held(l.task) \/ l.task = t
           /\ \A w : \A l \in Touched(TakenBy(tabs, t, holder), t, w) :
                 Held(l.task) \/ l.task = t
<1>1. tabs.leases \in SUBSET Lease /\ \A k \in tabs.leases : Held(k.task)
  BY HandHeld
<1>2. TakenBy(tabs, t, holder) = TakenBy([leases |-> tabs.leases], t, holder)
  BY DEF TakenBy
<1> DEFINE taken == TakenBy([leases |-> tabs.leases], t, holder)
<1>3. taken \in SUBSET Lease
  BY <1>1, TakenByType
<1>4. ASSUME NEW l \in taken
      PROVE  Held(l.task) \/ l.task = t
  <2>1. \/ \E m \in tabs.leases : m.task = l.task /\ m.project = l.project
        \/ l.task = t /\ l.project = project[t]
    BY <1>1, <1>4, TakenOrigin
  <2> QED
    BY <1>1, <2>1
<1> HIDE DEF taken
<1>5. ASSUME NEW w, NEW l \in Touched(taken, t, w)
      PROVE  Held(l.task) \/ l.task = t
  <2>1. Files(Touched(taken, t, w)) \subseteq Files(taken)
    BY <1>3, SameFiles
  <2>2. PICK k \in taken : k.task = l.task /\ k.project = l.project
    BY <1>5, <2>1, FilesOrigin
  <2> QED
    BY <1>4, <2>2
<1> QED
  BY <1>2, <1>4, <1>5 DEF taken

(***************************************************************************)
(* What finishing leaves behind is of tasks it did not finish.             *)
(***************************************************************************)
LEMMA FinishingReleases ==
    ASSUME TypeOK, DoneHoldsNoLease, NEW u, NEW t \in Task,
           NEW l \in Finished(u, t).leases
    PROVE  ~Finished(u, t).done[l.task]
<1>1. l \in leases /\ l.task \notin ClosingParents(t) \cup {t}
  BY DEF Finished, ReleasedBy
<1>2. l.task \in Task /\ ~done[l.task]
  BY <1>1 DEF DoneHoldsNoLease, TypeOK, LeaseTypeOK, Lease
<1> QED
  BY <1>1, <1>2 DEF Finished

(***************************************************************************)
(* A drag or a claim that takes leases for the task is into a bucket other *)
(* than the done bucket, and reopens the task.                             *)
(***************************************************************************)
LEMMA MovingUnleases ==
    ASSUME StandardBoards, ClaimsStart, TypeOK, DoneInBucket, DoneHoldsNoLease,
           NEW u \in User, NEW t \in Task, NEW b \in Bucket,
           t \in Live, Moves(u, t, ViewOf[b], b),
           NEW enters, NEW holder \in User, NEW l \in leases',
           b = DoneBucket[ViewOf[b]] => ~enters,
           leases' = IF enters THEN TakenBy(MovedTables(u, t, ViewOf[b], b), t, holder)
                     ELSE MovedTables(u, t, ViewOf[b], b).leases
    PROVE  ~done'[l.task]
<1> DEFINE v == ViewOf[b]
           moved == MovedTables(u, t, v, b)
<1>0. Held(l.task) \/ (enters /\ l.task = t)
  <2>1. InHand(moved.leases)
    BY MovedInHand
  <2> HIDE DEF moved
  <2>2. \A k \in moved.leases : Held(k.task)
    BY <2>1, HandHeld
  <2>3. \A k \in TakenBy(moved, t, holder) : Held(k.task) \/ k.task = t
    BY <2>1, TakenHeld
  <2>4. leases' = IF enters THEN TakenBy(moved, t, holder) ELSE moved.leases
    BY DEF moved
  <2> QED
    BY <2>2, <2>3, <2>4
<1>1. v \in View /\ ProjectOf[v] = project[t] /\ done' = moved.done
  BY DEF Moves, MoveAllowed, ManualViews
<1>2. CASE Finishes(t, v, b) /\ t \notin Repeating
  <2>1. moved = Finished(u, t) /\ ~enters
    BY <1>2 DEF MovedTables, Finishes
  <2>2. l \in Finished(u, t).leases
    BY <2>1
  <2> QED
    BY <1>1, <2>1, <2>2, FinishingReleases
<1>3. CASE ~(Finishes(t, v, b) /\ t \notin Repeating)
  <2> HIDE DEF v
  <2>1. Moves(u, t, v, b)
    BY DEF v
  <2>2. /\ \A x \in Task \ {t} : done'[x] = done[x]
        /\ done'[t] <=> done[t] /\ ~LeavesDone(t, v, b)
    <3>1. /\ \A x \in Task \ {t} : done'[x] = done[x] /\ rows'[x] = rows[x]
          /\ \A w \in View \ {v} : rows'[t][w] = rows[t][w]
          /\ rows'[t][v].bucket = RestingPlace(t, v, b)
          /\ (done'[t] <=> done[t] /\ ~LeavesDone(t, v, b))
      BY <1>1, <1>3, <2>1, DraggedCard
    <3> QED
      BY <3>1
  <2>3. CASE Held(l.task)
    <3>1. ~done[l.task] /\ l.task \in Task
      BY <2>3 DEF Held, DoneHoldsNoLease, TypeOK, LeaseTypeOK, Lease
    <3> QED
      BY <2>2, <3>1
  <2>4. CASE enters /\ l.task = t
    <3>1. b # DoneBucket[v]
      BY <2>4 DEF v
    <3>2. v \in DoneViews(project[t])
      <4>1. project[t] \in Project
        BY DEF TypeOK
      <4>2. PICK w \in DoneViews(project[t]) : TRUE
        BY <4>1 DEF StandardBoards
      <4>3. w = v
        BY <1>1, <4>2 DEF StandardBoards, OneViewEach, DoneViews, ManualViews
      <4> QED
        BY <4>2, <4>3
    <3>3. done[t] => rows[t][v].bucket = DoneBucket[v]
      BY <3>2 DEF DoneInBucket, Settled
    <3>4. done[t] => LeavesDone(t, v, b)
      BY <3>1, <3>2, <3>3 DEF LeavesDone, DoneViews
    <3> QED
      BY <2>2, <2>4, <3>4
  <2> QED
    BY <1>0, <2>3, <2>4
<1> QED
  BY <1>2, <1>3

(***************************************************************************)
(* The updates: setting the done flag releases, a repeating task is not    *)
(* done, clearing the flag comes before the claim, and in its new project  *)
(* a done task enters the done bucket, which claims nothing.               *)
(***************************************************************************)
LEMMA UpdatingUnleases ==
    ASSUME StandardBoards, TypeOK, DoneInBucket, DoneHoldsNoLease, Updating, NEW l \in leases'
    PROVE  ~done'[l.task]
<1>1. ASSUME Held(l.task)
      PROVE  ~done[l.task] /\ l.task \in Task
  BY <1>1 DEF Held, DoneHoldsNoLease, TypeOK, LeaseTypeOK, Lease
<1>2. ASSUME NEW u \in User, NEW t \in Task, NEW who \in SUBSET User, EditTask(u, t, who)
      PROVE  ~done'[l.task]
  <2>1. InHand(leases') /\ done' = done
    BY <1>2, InHandRows DEF EditTask
  <2>2. Held(l.task)
    BY <2>1, HandHeld
  <2> QED
    BY <1>1, <2>1, <2>2
<1>3. ASSUME NEW u \in User, NEW t \in Task, NEW who \in SUBSET User, MarkDone(u, t, who)
      PROVE  ~done'[l.task]
  <2>1. \/ done' = Finished(u, t).done /\ leases' = Finished(u, t).leases
        \/ done' = [done EXCEPT ![t] = TRUE] /\ leases' = ReleasedBy(leases, {t})
    BY <1>3 DEF MarkDone
  <2>2. CASE done' = Finished(u, t).done /\ leases' = Finished(u, t).leases
    BY <2>2, FinishingReleases
  <2>3. CASE done' = [done EXCEPT ![t] = TRUE] /\ leases' = ReleasedBy(leases, {t})
    <3>1. Held(l.task) /\ l.task # t
      BY <2>3 DEF ReleasedBy, Held
    <3> QED
      BY <1>1, <2>3, <3>1 DEF TypeOK
  <2> QED
    BY <2>1, <2>2, <2>3
<1>4. ASSUME NEW tabs, InHand(tabs.leases), NEW u \in User, NEW t \in Task,
             NEW who \in SUBSET User, NEW enters,
             \/ leases' = IF enters THEN TakenBy(tabs, t, Holder(u, who)) ELSE tabs.leases
             \/ leases' = Touched(IF enters THEN TakenBy(tabs, t, Holder(u, who))
                                  ELSE tabs.leases, t, u)
      PROVE  Held(l.task) \/ (enters /\ l.task = t)
  <2>1. Holder(u, who) \in User
    BY HolderType
  <2>2. CASE enters
    <3>1. \/ leases' = TakenBy(tabs, t, Holder(u, who))
          \/ leases' = Touched(TakenBy(tabs, t, Holder(u, who)), t, u)
      BY <1>4, <2>2
    <3>2. /\ \A k \in TakenBy(tabs, t, Holder(u, who)) : Held(k.task) \/ k.task = t
          /\ \A w : \A k \in Touched(TakenBy(tabs, t, Holder(u, who)), t, w) :
                Held(k.task) \/ k.task = t
      BY <1>4, <2>1, TakenHeld
    <3> QED
      BY <2>2, <3>1, <3>2
  <2>3. CASE ~enters
    <3>1. leases' = tabs.leases \/ leases' = Touched(tabs.leases, t, u)
      BY <1>4, <2>3
    <3>2. tabs.leases \in SUBSET Lease /\ \A k \in tabs.leases : Held(k.task)
      BY <1>4, HandHeld
    <3>3. Files(leases') \subseteq Files(tabs.leases)
      BY <3>1, <3>2, SameFiles
    <3>4. \E k \in tabs.leases : k.task = l.task /\ k.project = l.project
      BY <3>3, FilesOrigin
    <3> QED
      BY <3>2, <3>4
  <2> QED
    BY <2>2, <2>3
<1>5. ASSUME NEW u \in User, NEW t \in Task, NEW who \in SUBSET User,
             CompleteOccurrence(u, t, who)
      PROVE  ~done'[l.task]
  <2> DEFINE target == [v \in {x \in ManualViews(project[t]) : DefaultBucket[x] # NoBucket}
                           |-> DefaultBucket[v]]
             tabs == [done |-> done, rows |-> [rows EXCEPT ![t] = MovedRows(u, @, target)],
                      leases |-> ReleasedBy(leases, {t})]
             enters == EntersClaimBucket(rows[t], target)
  <2>1. /\ done' = done /\ ~done[t]
        /\ leases' = IF enters THEN TakenBy(tabs, t, Holder(u, who)) ELSE tabs.leases
    BY <1>5 DEF CompleteOccurrence
  <2>2. InHand(tabs.leases)
    BY InHandRows
  <2> HIDE DEF tabs, enters
  <2>3. Held(l.task) \/ (enters /\ l.task = t)
    BY <1>4, <2>1, <2>2
  <2> QED
    BY <1>1, <2>1, <2>3
<1>6. ASSUME NEW u \in User, NEW t \in Task, NEW who \in SUBSET User, MarkUndone(u, t, who)
      PROVE  ~done'[l.task]
  <2> DEFINE target == [v \in {x \in ManualViews(project[t]) :
                                  t \notin Repeating /\ rows[t][x].bucket = DoneBucket[x]}
                           |-> Default(v)]
             tabs == [done |-> [done EXCEPT ![t] = FALSE],
                      rows |-> [rows EXCEPT ![t] = MovedRows(u, @, target)],
                      leases |-> Touched(leases, t, u)]
             enters == EntersClaimBucket(rows[t], target)
  <2>1. /\ done' = [done EXCEPT ![t] = FALSE]
        /\ leases' = IF enters THEN TakenBy(tabs, t, Holder(u, who)) ELSE tabs.leases
    BY <1>6 DEF MarkUndone
  <2>2. InHand(tabs.leases)
    BY InHandRows
  <2> HIDE DEF tabs, enters
  <2>3. Held(l.task) \/ (enters /\ l.task = t)
    BY <1>4, <2>1, <2>2
  <2>4. ~done'[t] /\ \A x \in Task \ {t} : done'[x] = done[x]
    BY <2>1 DEF TypeOK
  <2> QED
    BY <1>1, <2>3, <2>4
<1>7. ASSUME NEW u \in User, NEW t \in Task, NEW p \in MoveTargets, NEW who \in SUBSET User,
             MoveToProject(u, t, p, who)
      PROVE  ~done'[l.task]
  <2> DEFINE target == [v \in ManualViews(p) |->
                          IF done[t] /\ DoneBucket[v] # NoBucket THEN DoneBucket[v]
                          ELSE Default(v)]
             tabs == Transferred(u, t, target)
             enters == EntersClaimBucket(NoRows, target)
  <2>1. /\ done' = done
        /\ leases' = Touched(IF enters THEN TakenBy(tabs, t, Holder(u, who))
                             ELSE tabs.leases, t, u)
    BY <1>7 DEF MoveToProject
  <2>2. InHand(tabs.leases)
    BY InHandRows DEF Transferred
  <2>3. enters => ~done[t]
    <3> SUFFICES ASSUME done[t], NEW v \in ManualViews(p), target[v] = ClaimBucket[v]
                 PROVE  FALSE
      BY DEF EntersClaimBucket, Entering
    <3>1. p \in Project
      BY BoardAssumption DEF BoardAssumption
    <3>2. PICK w \in DoneViews(p) : TRUE
      BY <3>1 DEF StandardBoards
    <3>3. w = v /\ v \in View
      BY <3>2 DEF StandardBoards, OneViewEach, DoneViews, ManualViews
    <3>4. DoneBucket[v] # NoBucket
      BY <3>2, <3>3 DEF DoneViews
    <3>5. target[v] = DoneBucket[v]
      BY <3>4
    <3> QED
      BY <3>3, <3>4, <3>5, BoardAssumption DEF BoardAssumption
  <2> HIDE DEF tabs, enters
  <2>4. Held(l.task) \/ (enters /\ l.task = t)
    BY <1>4, <2>1, <2>2
  <2> QED
    BY <1>1, <2>1, <2>3, <2>4
<1> QED
  BY <1>2, <1>3, <1>5, <1>6, <1>7 DEF Updating

(***************************************************************************)
(* No other handler takes leases for a task that had none.                 *)
(***************************************************************************)
LEMMA OthersHeld ==
    ASSUME TypeOK, Assigning \/ Scoping \/ Leasing \/ Living \/ Relating, NEW l \in leases'
    PROVE  Held(l.task)
<1>1. ASSUME InHand(leases')
      PROVE  Held(l.task)
  BY <1>1, HandHeld
<1>2. ASSUME UNCHANGED leases
      PROVE  Held(l.task)
  BY <1>2 DEF Held
<1>3. CASE Assigning \/ Relating
  <2>1. UNCHANGED leases
    BY <1>3 DEF Assigning, AddAssignee, RemoveAssignee, Relating, Relate, Unrelate
  <2> QED
    BY <1>2, <2>1
<1>4. ASSUME NEW t \in Task, DeleteScope(t) \/ ReleaseLeases(t) \/ DeleteTask(t) \/ PurgeTask(t)
      PROVE  Held(l.task)
  <2>1. leases' = ReleasedBy(leases, {t})
    BY <1>4 DEF DeleteScope, ReleaseLeases, DeleteTask, PurgeTask
  <2> QED
    BY <2>1 DEF ReleasedBy, Held
<1>5. ASSUME NEW t \in Task, NEW patterns, WriteScope(t, patterns)
      PROVE  Held(l.task)
  <2>1. CASE LeasesOf(t) = {}
    BY <1>2, <1>5, <2>1 DEF WriteScope
  <2>2. CASE LeasesOf(t) # {}
    <3>1. PICK first \in LeasesOf(t) :
             leases' = Acquired(leases, t, project[t], first.user, patterns)
      BY <1>5, <2>2 DEF WriteScope
    <3>2. l \in leases \/ l.task = t
      BY <3>1 DEF Acquired, ReleasedBy, FreshLeases
    <3> QED
      BY <3>1, <3>2 DEF Held, LeasesOf
  <2> QED
    BY <2>1, <2>2
<1>6. Scoping => Held(l.task)
  BY <1>4, <1>5 DEF Scoping
<1>7. ASSUME Retimes
      PROVE  Held(l.task)
  <2>1. Files(leases') \subseteq Files(leases)
    BY <1>7, SameFiles DEF Retimes, TypeOK, LeaseTypeOK
  <2>2. \E m \in leases : m.task = l.task /\ m.project = l.project
    BY <2>1, FilesOrigin
  <2> QED
    BY <2>2 DEF Held
<1>8. ASSUME PoliceStaleLeases
      PROVE  Held(l.task)
  <2>1. l \in StaleNotified(leases)
    BY <1>8 DEF PoliceStaleLeases, ReleasedBy
  <2>2. \E m \in leases : m.task = l.task /\ m.project = l.project
    BY <2>1, NotifiedRows DEF TypeOK, LeaseTypeOK
  <2> QED
    BY <2>2 DEF Held
<1>9. Leasing => Held(l.task)
  <2>1. ASSUME NEW t \in Task, NEW u \in User, Comment(u, t)
        PROVE  Held(l.task)
    BY <1>1, <2>1, InHandRows DEF Comment
  <2>2. ASSUME NEW t \in Task, HeartbeatLeases(t)
        PROVE  Held(l.task)
    BY <1>7, <2>2 DEF HeartbeatLeases, Retimes
  <2>3. LeaseClock => Held(l.task)
    BY <1>7 DEF LeaseClock, Tick, Retimes
  <2>4. LeaseCron => Held(l.task)
    BY <1>8 DEF LeaseCron
  <2> QED
    BY <1>4, <2>1, <2>2, <2>3, <2>4 DEF Leasing
<1>10. Living => Held(l.task)
  <2>1. ASSUME NEW u \in User, NEW t \in Task, NEW p \in Project,
               NEW b \in Bucket \cup {NoBucket}, NEW isDone \in BOOLEAN,
               CreateTask(u, t, p, b, isDone)
        PROVE  UNCHANGED leases
    BY <2>1 DEF CreateTask
  <2>2. ASSUME NEW t \in Task, PostReceipt(t)
        PROVE  UNCHANGED leases
    BY <2>2 DEF PostReceipt
  <2> QED
    BY <1>2, <1>4, <2>1, <2>2 DEF Living
<1> QED
  BY <1>3, <1>6, <1>9, <1>10

(***************************************************************************)
(* No step leaves a lease with a task that is done after it.               *)
(***************************************************************************)
LEMMA DoneUnleased ==
    ASSUME StandardBoards, ClaimsStart, TypeOK, HeldByLive, DoneInBucket, DoneHoldsNoLease, Next
    PROVE  DoneHoldsNoLease'
<1> SUFFICES ASSUME NEW l \in leases'
             PROVE  ~done'[l.task]
  BY DEF DoneHoldsNoLease
<1>1. ASSUME NEW u \in User, NEW t \in Task, NEW b \in Bucket, MoveToBucket(u, t, ViewOf[b], b)
      PROVE  ~done'[l.task]
  <2> DEFINE enters == EntersClaimBucket(rows[t], To(ViewOf[b], b))
  <2>1. /\ t \in Live /\ Moves(u, t, ViewOf[b], b) /\ ViewOf[b] \in View
        /\ leases' = IF enters
                     THEN TakenBy(MovedTables(u, t, ViewOf[b], b), t, Holder(u, assignees[t]))
                     ELSE MovedTables(u, t, ViewOf[b], b).leases
    BY <1>1 DEF MoveToBucket, Moves, MoveAllowed, ManualViews
  <2>2. b = DoneBucket[ViewOf[b]] => ~enters
    <3>1. DOMAIN To(ViewOf[b], b) = {ViewOf[b]} /\ To(ViewOf[b], b)[ViewOf[b]] = b
      BY DEF To
    <3>2. b = DoneBucket[ViewOf[b]] => b # ClaimBucket[ViewOf[b]]
      BY <2>1, BoardAssumption DEF BoardAssumption
    <3> QED
      BY <3>1, <3>2 DEF EntersClaimBucket, Entering
  <2>3. Holder(u, assignees[t]) \in User
    BY HolderType DEF TypeOK
  <2> HIDE DEF enters
  <2> QED
    BY <2>1, <2>2, <2>3, MovingUnleases
<1>2. ASSUME NEW u \in User, NEW t \in Task, NEW b \in ClaimTargets,
             NEW e \in Bucket \cup {NoBucket}, ClaimTask(u, t, ViewOf[b], b, e)
      PROVE  ~done'[l.task]
  <2>1. /\ t \in Live /\ Moves(u, t, ViewOf[b], b) /\ ViewOf[b] \in View /\ b \in Bucket
        /\ leases' = TakenBy(MovedTables(u, t, ViewOf[b], b), t, u)
    BY <1>2, BoardAssumption DEF BoardAssumption, ClaimTask, Moves, MoveAllowed, ManualViews
  <2>2. b # DoneBucket[ViewOf[b]]
    BY <2>1 DEF ClaimsStart
  <2>3. leases' = IF TRUE THEN TakenBy(MovedTables(u, t, ViewOf[b], b), t, u)
                  ELSE MovedTables(u, t, ViewOf[b], b).leases
    BY <2>1
  <2>4. b = DoneBucket[ViewOf[b]] => ~TRUE
    BY <2>2
  <2> QED
    BY <2>1, <2>3, <2>4, MovingUnleases
<1>3. CASE Assigning \/ Scoping \/ Leasing \/ Living \/ Relating
  <2>1. Held(l.task)
    BY <1>3, OthersHeld
  <2>2. ~done[l.task] /\ l.task \in Live
    BY <2>1 DEF Held, DoneHoldsNoLease, HeldByLive
  <2>3. CASE UNCHANGED done
    BY <2>2, <2>3
  <2>4. ASSUME NEW u \in User, NEW t \in Task, NEW p \in Project,
               NEW b \in Bucket \cup {NoBucket}, NEW isDone \in BOOLEAN,
               CreateTask(u, t, p, b, isDone)
        PROVE  ~done'[l.task]
    <3>1. /\ status[t] = "absent"
          /\ \A x \in Task \ {t} : done'[x] = done[x]
      BY <2>4 DEF CreateTask, TypeOK
    <3> QED
      BY <2>2, <3>1 DEF Live
  <2>5. Living => UNCHANGED done \/ Creates
    BY DEF Living, Creates, PostReceipt, DeleteTask, PurgeTask
  <2>6. Assigning \/ Scoping \/ Leasing \/ Relating => UNCHANGED done
    <3>1. Assigning => UNCHANGED done
      BY DEF Assigning, AddAssignee, RemoveAssignee
    <3>2. Scoping => UNCHANGED done
      BY DEF Scoping, WriteScope, DeleteScope
    <3>3. Leasing \/ Relating => UNCHANGED done
      BY DEF Leasing, ReleaseLeases, HeartbeatLeases, Comment, LeaseClock, LeaseCron, Relating,
             Relate, Unrelate, boardVars
    <3> QED
      BY <3>1, <3>2, <3>3
  <2> QED
    BY <1>3, <2>3, <2>4, <2>5, <2>6 DEF Creates
<1> QED
  BY <1>1, <1>2, <1>3, UpdatingUnleases DEF Next, Moving

(***************************************************************************)
(* Where a project has one kanban view with a done bucket, and nobody      *)
(* claims a task into that bucket, a task that is done holds no lease:     *)
(* not one finished by hand, through a bucket, or as the parent of the     *)
(* last open subtask, and not one dragged or moved afterwards.             *)
(***************************************************************************)
THEOREM BoardDoneHoldsNoLease ==
    ASSUME StandardBoards, ClaimsStart
    PROVE  Spec => []DoneHoldsNoLease
<1>1. Init => DoneHoldsNoLease
  BY DEF Init, LeaseInit, DoneHoldsNoLease
<1>2. TypeOK /\ HeldByLive /\ DoneInBucket /\ DoneHoldsNoLease /\ [Next]_vars
         => DoneHoldsNoLease'
  BY DoneUnleased DEF vars, boardVars, DoneHoldsNoLease
<1>3. Spec => []DoneInBucket
  BY StaysSettled DEF StandardBoards
<1> QED
  BY <1>1, <1>2, <1>3, TypeCorrect, LiveHold, PTL DEF Spec

-----------------------------------------------------------------------------
(* Relations.                                                              *)

(***************************************************************************)
(* A handler creates or deletes one relation, purges those of a task, or   *)
(* leaves them all alone.                                                  *)
(***************************************************************************)
LEMMA RelationSteps ==
    ASSUME Next
    PROVE  \/ RelationNext
           \/ UNCHANGED relations
<1>1. CASE Moving \/ Updating \/ Assigning \/ Scoping \/ Leasing
  <2>1. Moving => UNCHANGED relations
    BY DEF Moving, MoveToBucket, ClaimTask
  <2>2. Updating => UNCHANGED relations
    <3>1. ASSUME NEW u \in User, NEW t \in Task, NEW who \in SUBSET User
          PROVE  /\ EditTask(u, t, who) => UNCHANGED relations
                 /\ MarkDone(u, t, who) => UNCHANGED relations
                 /\ CompleteOccurrence(u, t, who) => UNCHANGED relations
                 /\ MarkUndone(u, t, who) => UNCHANGED relations
                 /\ \A p \in MoveTargets : MoveToProject(u, t, p, who) => UNCHANGED relations
      BY Zenon DEF EditTask, MarkDone, CompleteOccurrence, MarkUndone, MoveToProject
    <3> QED
      BY <3>1 DEF Updating
  <2>3. Assigning => UNCHANGED relations
    BY DEF Assigning, AddAssignee, RemoveAssignee
  <2>4. Scoping => UNCHANGED relations
    BY DEF Scoping, WriteScope, DeleteScope
  <2>5. Leasing => UNCHANGED relations
    BY DEF Leasing, ReleaseLeases, HeartbeatLeases, Comment, LeaseClock, LeaseCron
  <2> QED
    BY <1>1, <2>1, <2>2, <2>3, <2>4, <2>5
<1>2. CASE Living
  <2>1. ASSUME NEW u \in User, NEW t \in Task, NEW p \in Project,
               NEW b \in Bucket \cup {NoBucket}, NEW isDone \in BOOLEAN,
               CreateTask(u, t, p, b, isDone)
        PROVE  UNCHANGED relations
    BY <2>1 DEF CreateTask
  <2>2. ASSUME NEW t \in Task, PostReceipt(t) \/ DeleteTask(t)
        PROVE  UNCHANGED relations
    BY <2>2 DEF PostReceipt, DeleteTask
  <2>3. ASSUME NEW t \in Task, PurgeTask(t)
        PROVE  RelationNext
    <3>1. PurgeRelations(t)
      BY <2>3 DEF PurgeTask
    <3> QED
      BY <3>1 DEF RelationNext
  <2> QED
    BY <1>2, <2>1, <2>2, <2>3 DEF Living
<1>3. CASE Relating
  <2>1. PICK r \in RelationInputs : Relate(r[1], r[2], r[3]) \/ Unrelate(r[1], r[2], r[3])
    BY <1>3 DEF Relating
  <2>2. r[1] \in Task /\ r[2] \in RelationKind /\ r[3] \in Task
    BY <2>1, BoardAssumption DEF Row
  <2> QED
    BY <2>1, <2>2 DEF Relate, Unrelate, RelationNext
<1> QED
  BY <1>1, <1>2, <1>3 DEF Next

(***************************************************************************)
(* On the board, with tasks created, closed and purged beside them, every  *)
(* relation keeps both of its rows and no kind closes a cycle.             *)
(***************************************************************************)
THEOREM BoardRelations == Spec => [](Mirrored /\ AcyclicPerKind)
<1>1. Init => RelationInv
  BY BoardAssumption DEF Init, RelationInv, RelationTypeOK, Mirrored, AcyclicPerKind, Edges
<1>2. RelationInv /\ [Next]_vars => RelationInv'
  <2> SUFFICES ASSUME RelationInv, [Next]_vars
               PROVE  RelationInv'
    OBVIOUS
  <2>1. CASE RelationNext
    BY <2>1, CreateKeeps, DeleteKeeps, PurgeKeeps DEF RelationNext
  <2>2. CASE UNCHANGED relations
    BY <2>2 DEF RelationInv, RelationTypeOK, Mirrored, AcyclicPerKind, Edges
  <2> QED
    BY <2>1, <2>2, RelationSteps DEF vars
<1> QED
  BY <1>1, <1>2, PTL DEF Spec, RelationInv

-----------------------------------------------------------------------------
(* The gate, and the parents that close.                                   *)

\* The open parents left without an open subtask once t and the tasks in C are done.
Closes(t, C) ==
    {q \in (Live \ DoneTasks) \ Repeating :
       /\ \E x \in C \cup {t} : <<x, "parenttask", q>> \in relations
       /\ (Subtasks(q) \cap Live) \subseteq DoneTasks \cup C \cup {t}}

(***************************************************************************)
(* The parents that close are those closed by the parents that close: none *)
(* is closed without a reason, and none is left out.                       *)
(***************************************************************************)
LEMMA ClosingFixed ==
    ASSUME AutoComplete, NEW t
    PROVE  Closes(t, ClosingParents(t)) = ClosingParents(t)
<1> DEFINE C == ClosingParents(t)
<1>1. C = {q \in Task : \A S \in SUBSET Task : Closes(t, S) \subseteq S => q \in S}
  BY DEF ClosingParents, Closes
<1>2. ASSUME NEW S, NEW T, S \subseteq T
      PROVE  Closes(t, S) \subseteq Closes(t, T)
  BY <1>2 DEF Closes
<1>3. \A S : Closes(t, S) \subseteq Task
  BY DEF Closes, Live
<1> HIDE DEF C
<1>4. ASSUME NEW S \in SUBSET Task, Closes(t, S) \subseteq S
      PROVE  C \subseteq S
  BY <1>1, <1>4
<1>5. ASSUME NEW q \in Closes(t, C)
      PROVE  q \in C
  <2> SUFFICES ASSUME NEW S \in SUBSET Task, Closes(t, S) \subseteq S
               PROVE  q \in S
    BY <1>1, <1>3
  <2>1. C \subseteq S
    BY <1>4
  <2>2. Closes(t, C) \subseteq Closes(t, S)
    BY <1>2, <2>1
  <2> QED
    BY <2>2
<1>6. C \subseteq Closes(t, C)
  <2>1. Closes(t, C) \subseteq C
    BY <1>5
  <2>2. Closes(t, Closes(t, C)) \subseteq Closes(t, C)
    BY <1>2, <2>1
  <2> QED
    BY <1>3, <1>4, <2>2
<1> QED
  BY <1>5, <1>6 DEF C

\* What the gate asks of u closing t: it looks at the card u moves, or at all.
PassesGate(u, t) ==
    \E moved : /\ DoneAllowed(u, t, moved)
               /\ \/ moved = RowsOf(t)
                  \/ \E v \in ManualViews(project[t]) : moved = {rows[t][v]}

\* u finishes t through a done bucket.
Ends(u, t) ==
    /\ t \in Live /\ ~done[t] /\ t \notin Repeating /\ PassesGate(u, t)
    /\ done' = Finished(u, t).done /\ rows' = Finished(u, t).rows

\* u flags t, which is in every done bucket already.
Flags(u, t) ==
    /\ t \in Live /\ ~done[t] /\ t \notin Repeating /\ PassesGate(u, t)
    /\ \A v \in DoneViews(project[t]) : rows[t][v].bucket = DoneBucket[v]
    /\ done' = [done EXCEPT ![t] = TRUE] /\ rows' = rows

(***************************************************************************)
(* A task on the board comes to be done in two ways: somebody finishes it  *)
(* or a subtask of it, or flags it where it already is.                    *)
(***************************************************************************)
LEMMA Endings ==
    ASSUME TypeOK, Next, NEW x \in Live, ~done[x], done'[x]
    PROVE  \E u \in User, t \in Task : Ends(u, t) \/ Flags(u, t)
<1>0. x \in Task
  BY DEF Live
<1>1. ASSUME NEW u \in User, NEW t \in Task, NEW b \in Bucket, Moves(u, t, ViewOf[b], b)
      PROVE  Ends(u, t)
  <2> DEFINE v == ViewOf[b]
  <2>1. /\ t \in Live /\ v \in ManualViews(project[t]) /\ v \in View
        /\ Finishes(t, v, b) => DoneAllowed(u, t, {rows[t][v]})
    BY <1>1 DEF Moves, MoveAllowed, ManualViews
  <2>2. Finishes(t, v, b) /\ t \notin Repeating
    <3> HIDE DEF v
    <3>1. SUFFICES ASSUME ~(Finishes(t, v, b) /\ t \notin Repeating)
                   PROVE  FALSE
      OBVIOUS
    <3>2. Moves(u, t, v, b)
      BY <1>1 DEF v
    <3>3. /\ \A y \in Task \ {t} : done'[y] = done[y] /\ rows'[y] = rows[y]
          /\ \A w \in View \ {v} : rows'[t][w] = rows[t][w]
          /\ rows'[t][v].bucket = RestingPlace(t, v, b)
          /\ (done'[t] <=> done[t] /\ ~LeavesDone(t, v, b))
      BY <2>1, <3>1, <3>2, DraggedCard
    <3> QED
      BY <1>0, <3>3
  <2>3. ~done[t] /\ done' = Finished(u, t).done /\ rows' = Finished(u, t).rows
    BY <1>1, <2>2 DEF Moves, MovedTables, Finishes
  <2> QED
    BY <2>1, <2>2, <2>3 DEF Ends, PassesGate
<1>2. ASSUME NEW u \in User, NEW t \in Task, NEW who, MarkDone(u, t, who)
      PROVE  Ends(u, t) \/ Flags(u, t)
  <2> DEFINE enters == \E v \in DoneViews(project[t]) : rows[t][v].bucket # DoneBucket[v]
  <2>1. /\ t \in Live /\ ~done[t] /\ t \notin Repeating /\ DoneAllowed(u, t, RowsOf(t))
        /\ enters => done' = Finished(u, t).done /\ rows' = Finished(u, t).rows
        /\ ~enters => done' = [done EXCEPT ![t] = TRUE] /\ rows' = rows
    BY <1>2 DEF MarkDone
  <2>2. PassesGate(u, t)
    BY <2>1 DEF PassesGate
  <2>3. CASE enters
    BY <2>1, <2>2, <2>3 DEF Ends
  <2>4. CASE ~enters
    BY <2>1, <2>2, <2>4 DEF Flags
  <2> QED
    BY <2>3, <2>4
<1>3. ASSUME done' = done
      PROVE  FALSE
  BY <1>3
<1>4. ASSUME NEW u \in User, NEW t \in Task, NEW who \in SUBSET User
      PROVE  /\ ~CompleteOccurrence(u, t, who)
             /\ ~MarkUndone(u, t, who)
             /\ \A p \in MoveTargets : ~MoveToProject(u, t, p, who)
  <2>1. CompleteOccurrence(u, t, who) => done' = done
    BY Zenon DEF CompleteOccurrence
  <2>2. ASSUME NEW p \in MoveTargets, MoveToProject(u, t, p, who)
        PROVE  done' = done
    BY <2>2, Zenon DEF MoveToProject
  <2>3. ASSUME MarkUndone(u, t, who)
        PROVE  FALSE
    <3>1. done' = [done EXCEPT ![t] = FALSE]
      BY <2>3 DEF MarkUndone
    <3> QED
      BY <1>0, <3>1 DEF TypeOK
  <2> QED
    BY <1>3, <2>1, <2>2, <2>3
<1>5. ASSUME NEW u \in User, NEW t \in Task, NEW p \in Project,
             NEW b \in Bucket \cup {NoBucket}, NEW isDone \in BOOLEAN,
             CreateTask(u, t, p, b, isDone)
      PROVE  FALSE
  <2>1. status[t] = "absent" /\ \A y \in Task \ {t} : done'[y] = done[y]
    BY <1>5 DEF CreateTask, TypeOK
  <2>2. x # t
    BY <2>1 DEF Live
  <2> QED
    BY <1>0, <2>1, <2>2
<1>6. \A t \in Task : DeleteTask(t) \/ PurgeTask(t) => done' = done
  BY DEF DeleteTask, PurgeTask
<1> QED
  BY <1>1, <1>2, <1>3, <1>4, <1>5, <1>6, CardSteps DEF CardStep, Creates

(***************************************************************************)
(* No step that ends a task reopens another.                               *)
(***************************************************************************)
LEMMA EndingKeepsDone ==
    ASSUME TypeOK, NEW u \in User, NEW t \in Task, Ends(u, t) \/ Flags(u, t),
           NEW x \in Task, done[x]
    PROVE  done'[x]
<1>1. CASE Ends(u, t)
  BY <1>1 DEF Ends, Finished
<1>2. CASE Flags(u, t)
  BY <1>2 DEF Flags, TypeOK
<1> QED
  BY <1>1, <1>2

(***************************************************************************)
(* A gated task that ends is the one somebody ended, and that one passed   *)
(* the gate by its receipt and by who moved it: the parents that close     *)
(* have subtasks, and those are all done.                                  *)
(***************************************************************************)
LEMMA GatedEnds ==
    ASSUME TypeOK, Mirrored, NEW u \in User, NEW t \in Task, Ends(u, t) \/ Flags(u, t),
           NEW x \in Task, Gated(x), ~done[x], done'[x]
    PROVE  /\ x = t /\ receipt[t]
           /\ u # ReceiptBot[project[t]] =>
                 \/ \A r \in RowsOf(t) : r.movedBy # u
                 \/ \E v \in ManualViews(project[t]) : rows[t][v].movedBy # u
<1>1. ASSUME NEW y \in Task, (Subtasks(y) \cap Live) \subseteq DoneTasks \cup ClosingParents(t) \cup {t},
             Ends(u, t), Subtasks(y) # {}
      PROVE  ~Gated(y)
  <2>1. \A z \in Subtasks(y) \cap Live : z \in Task
    BY DEF Live
  <2>2. \A z \in Subtasks(y) \cap Live : done'[z]
    BY <1>1, <2>1 DEF Ends, Finished, DoneTasks
  <2> QED
    BY <1>1, <2>2 DEF Gated
<1>2. x \notin ClosingParents(t) \/ ~Ends(u, t)
  <2> SUFFICES ASSUME x \in ClosingParents(t), Ends(u, t)
               PROVE  FALSE
    OBVIOUS
  <2>1. AutoComplete
    BY DEF ClosingParents
  <2>2. x \in Closes(t, ClosingParents(t))
    BY <2>1, ClosingFixed
  <2>3. PICK y \in ClosingParents(t) \cup {t} : <<y, "parenttask", x>> \in relations
    BY <2>2 DEF Closes
  <2>4. <<x, "subtask", y>> \in relations
    <3>1. <<x, InverseRelation["parenttask"], y>> \in relations
      BY <2>3 DEF Mirrored
    <3> QED
      BY <3>1 DEF InverseRelation
  <2>5. y \in Subtasks(x)
    <3>1. y \in Task
      BY <2>3 DEF ClosingParents
    <3> QED
      BY <2>4, <3>1 DEF Subtasks, Related
  <2>6. (Subtasks(x) \cap Live) \subseteq DoneTasks \cup ClosingParents(t) \cup {t}
    BY <2>2 DEF Closes
  <2> QED
    BY <1>1, <2>5, <2>6
<1>3. x = t
  <2>1. CASE Ends(u, t)
    BY <1>2, <2>1 DEF Ends, Finished
  <2>2. CASE Flags(u, t)
    BY <2>2 DEF Flags, TypeOK
  <2> QED
    BY <2>1, <2>2
<1>4. PassesGate(u, t)
  BY DEF Ends, Flags
<1>5. PICK moved : /\ DoneAllowed(u, t, moved)
                   /\ \/ moved = RowsOf(t)
                      \/ \E v \in ManualViews(project[t]) : moved = {rows[t][v]}
  BY <1>4 DEF PassesGate
<1>6. ~IsCompleteContainer(t)
  <2> SUFFICES ASSUME IsCompleteContainer(t)
               PROVE  FALSE
    OBVIOUS
  <2>1. Subtasks(t) # {} /\ \A z \in Subtasks(t) \cap Live : z \in Task /\ done[z]
    BY DEF IsCompleteContainer, DoneTasks
  <2>2. \A z \in Subtasks(t) \cap Live : done'[z]
    BY <2>1, EndingKeepsDone
  <2> QED
    BY <1>3, <2>1, <2>2 DEF Gated
<1>7. receipt[t] /\ (u = ReceiptBot[project[t]] \/ \A r \in moved : r.movedBy # u)
  BY <1>3, <1>5, <1>6 DEF DoneAllowed, Gated
<1> QED
  BY <1>3, <1>5, <1>7

(***************************************************************************)
(* On every path to done, only a receipt ends a gated task: drag, claim,   *)
(* update, and the closing of parents.                                     *)
(***************************************************************************)
THEOREM BoardReceipts == Spec => OnlyReceiptEnds
<1>1. TypeOK /\ Mirrored /\ [Next]_vars =>
         [\A t \in Task : (Gated(t) /\ ~done[t] /\ done'[t]) => receipt[t]]_vars
  <2> SUFFICES ASSUME TypeOK, Mirrored, Next, NEW x \in Task, Gated(x), ~done[x], done'[x]
               PROVE  receipt[x]
    OBVIOUS
  <2>1. x \in Live
    BY DEF Live, Gated
  <2>2. PICK u \in User, t \in Task : Ends(u, t) \/ Flags(u, t)
    BY <2>1, Endings
  <2> QED
    BY <2>2, GatedEnds
<1> QED
  BY <1>1, TypeCorrect, BoardRelations, PTL DEF Spec, OnlyReceiptEnds

(***************************************************************************)
(* Where a project has one kanban view, nobody gets around the receipt or  *)
(* around the rule that the submitter does not close: outside its view a   *)
(* task has no card that could name another submitter.                     *)
(***************************************************************************)
THEOREM BoardGate ==
    ASSUME OneViewEach
    PROVE  Spec => GateHolds
<1>1. TypeOK /\ Mirrored /\ CardsAtHome /\ [Next]_vars =>
         [\A t \in Task, v \in View :
            LET closer == rows'[t][v].movedBy
            IN  (/\ Gated(t) /\ ~done[t] /\ done'[t]
                 /\ rows'[t][v].bucket = DoneBucket[v] /\ rows'[t][v] # rows[t][v])
                   => \/ closer = ReceiptBot[project[t]]
                      \/ \A w \in View : rows[t][w].movedBy # closer]_vars
  <2> SUFFICES ASSUME TypeOK, Mirrored, CardsAtHome, Next, NEW x \in Task, NEW v \in View,
                      Gated(x), ~done[x], done'[x], rows'[x][v] # rows[x][v],
                      rows'[x][v].movedBy # ReceiptBot[project[x]], NEW w \in View
               PROVE  rows[x][w].movedBy # rows'[x][v].movedBy
    OBVIOUS
  <2>1. x \in Live
    BY DEF Live, Gated
  <2>2. PICK u \in User, t \in Task : Ends(u, t) \/ Flags(u, t)
    BY <2>1, Endings
  <2>3. /\ x = t
        /\ u # ReceiptBot[project[t]] =>
              \/ \A r \in RowsOf(t) : r.movedBy # u
              \/ \E y \in ManualViews(project[t]) : rows[t][y].movedBy # u
    BY <2>2, GatedEnds
  <2>4. rows'[x][v].movedBy = u
    <3>1. rows' = Finished(u, t).rows
      BY <2>2 DEF Ends, Flags
    <3>2. \/ Finished(u, t).rows[x][v] = rows[x][v]
          \/ /\ v \in DoneViews(project[x])
             /\ Finished(u, t).rows[x][v] = InDoneBucket(u, v)
      BY FinishedAt
    <3> QED
      BY <3>1, <3>2 DEF InDoneBucket
  <2>5. CASE w \notin ManualViews(project[t])
    <3>1. rows[t][w] = NoRow
      BY <2>5 DEF CardsAtHome
    <3>2. u # NoUser
      BY BoardAssumption DEF BoardAssumption
    <3> QED
      BY <2>3, <2>4, <3>1, <3>2 DEF NoRow
  <2>6. CASE w \in ManualViews(project[t])
    <3>1. \A y \in ManualViews(project[t]) : y = w
      BY <2>6 DEF OneViewEach, ManualViews
    <3>2. rows[t][w] \in RowsOf(t)
      BY DEF RowsOf
    <3> QED
      BY <2>3, <2>4, <3>1, <3>2
  <2> QED
    BY <2>5, <2>6
<1>2. Spec => SubmitterDoesNotClose
  BY <1>1, TypeCorrect, BoardRelations, CardsStayHome, PTL DEF Spec, SubmitterDoesNotClose
<1> QED
  BY <1>2, BoardReceipts DEF GateHolds

(***************************************************************************)
(* Where a project has one kanban view with a done bucket, no step         *)
(* finishes a task and leaves one of its parents open with all its         *)
(* subtasks done.  A task that is only flagged would, but it would have to *)
(* be in the done bucket without being done.                               *)
(***************************************************************************)
THEOREM BoardParentsClose ==
    ASSUME StandardBoards
    PROVE  Spec => ParentsClose
<1>1. TypeOK /\ DoneInBucket /\ [Next]_vars =>
         [\A t, q \in Live :
            (AutoComplete /\ ~done[t] /\ done'[t] /\ <<t, "parenttask", q>> \in relations
               /\ q \notin Repeating)
               => done'[q] \/ \E x \in Subtasks(q) \cap Live : ~done'[x]]_vars
  <2> SUFFICES ASSUME TypeOK, DoneInBucket, Next, NEW x \in Live, NEW q \in Live,
                      AutoComplete, ~done[x], done'[x], <<x, "parenttask", q>> \in relations,
                      q \notin Repeating, \A y \in Subtasks(q) \cap Live : done'[y]
               PROVE  done'[q]
    OBVIOUS
  <2>0. x \in Task /\ q \in Task
    BY DEF Live
  <2>1. PICK u \in User, t \in Task : Ends(u, t) \/ Flags(u, t)
    BY Endings
  <2>2. CASE Flags(u, t)
    <3>1. project[t] \in Project
      BY DEF TypeOK
    <3>2. PICK v \in DoneViews(project[t]) : TRUE
      BY <3>1 DEF StandardBoards
    <3>3. rows[t][v].bucket = DoneBucket[v] /\ t \in Live /\ t \notin Repeating /\ ~done[t]
      BY <2>2, <3>2 DEF Flags
    <3> QED
      BY <3>2, <3>3 DEF DoneInBucket, Settled
  <2>3. CASE Ends(u, t)
    <3> DEFINE C == ClosingParents(t)
    <3>1. \A y \in Task : done'[y] <=> (done[y] \/ y = t \/ y \in C)
      BY <2>3 DEF Ends, Finished
    <3>2. CASE done[q]
      BY <2>0, <3>1, <3>2
    <3>3. CASE ~done[q]
      <4>1. x \in C \cup {t}
        BY <2>0, <3>1
      <4>2. (Subtasks(q) \cap Live) \subseteq DoneTasks \cup C \cup {t}
        BY <3>1 DEF DoneTasks, Live
      <4>3. q \in Closes(t, C)
        BY <2>0, <3>3, <4>1, <4>2 DEF Closes, DoneTasks
      <4>4. q \in C
        BY <4>3, ClosingFixed
      <4> QED
        BY <2>0, <3>1, <4>4
    <3> QED
      BY <3>2, <3>3
  <2> QED
    BY <2>1, <2>2, <2>3
<1>2. Spec => []DoneInBucket
  BY StaysSettled DEF StandardBoards
<1> QED
  BY <1>1, <1>2, TypeCorrect, PTL DEF Spec, ParentsClose
=============================================================================
