-------------------------------- MODULE Pool --------------------------------
(***************************************************************************)
(* marshal's registry of databases, ports and checkouts: a file that every *)
(* caller locks, loads, changes in memory and replaces by a rename.  The   *)
(* callers are goroutines of marshal processes; one lock stands for the    *)
(* mutex within a process together with the flock between processes, on a  *)
(* system that has flock.                                                  *)
(*                                                                         *)
(* A process may be killed at any step: the kernel then drops its lock,    *)
(* the file is as the last rename left it and a temporary file is ignored. *)
(***************************************************************************)
EXTENDS Integers, Sequences

CONSTANTS
    Worker, Task, Checkout, Database, Port,
    Caller,         \* goroutines that call the pool
    Process,        \* marshal processes
    ProcessOf,      \* the process of a caller
    Config,         \* what the configuration of a caller's process lists, in order
    CheckoutOf,     \* where a task's worktree is planned: tasks of one story share it
    NoCaller, NoAnswer, NoRequest

ASSUME PoolAssumption ==
    /\ NoCaller \notin Caller
    /\ ProcessOf \in [Caller -> Process]
    /\ Config \in [Caller -> [databases : Seq(Database), ports : Seq(Port)]]
    /\ CheckoutOf \in [Task -> Checkout]

Allocation == [worker : Worker, task : Task, checkout : Checkout, database : Database, port : Port]

ASSUME AnswerAssumption == NoAnswer \notin Allocation

VARIABLES
    registry,   \* the allocations in the file
    lock,       \* who holds the lock
    pc,         \* what each caller does next
    request,    \* what it was called for, or NoRequest
    seen,       \* the registry it loaded, and then the one it is about to write
    answer,     \* the allocation it is about to return, or NoAnswer
    promised    \* the allocations returned to callers and not released since

vars == <<registry, lock, pc, request, seen, answer, promised>>

-----------------------------------------------------------------------------
\* Allocate, ReleaseTask, ReleaseWorker.
Requests == [op : {"allocate"}, worker : Worker, task : Task]
       \cup [op : {"releaseTask"}, task : Task]
       \cup [op : {"releaseWorker"}, worker : Worker]

ASSUME RequestAssumption == NoRequest \notin Requests

\* firstFree.
FirstFree(list, used) == CHOOSE x \in {list[i] : i \in DOMAIN list} \ used :
    \E i \in DOMAIN list : list[i] = x /\ \A j \in 1..i - 1 : list[j] \in used

Exhausted(list, used) == \A i \in DOMAIN list : list[i] \in used

\* Mutant of UsedPorts: those of the own worker do not count.
PortsOfOthers(rs, r) == {a.port : a \in {b \in rs : b.worker # r.worker}}

UsedDatabases(rs) == {a.database : a \in rs}
UsedPorts(rs, r) == {a.port : a \in rs}

\* Mutant of Existing: only in the checkout of another task.
ExistingElsewhere(rs, r) ==
    {a \in rs : a.worker = r.worker /\ a.task = r.task /\ a.checkout # CheckoutOf[r.task]}

\* What there is for this worker and task already.
Existing(rs, r) == {a \in rs : a.worker = r.worker /\ a.task = r.task}

\* ErrCheckoutInUse.
InUse(rs, r) == \E a \in rs : a.checkout = CheckoutOf[r.task] /\ a.worker # r.worker

\* ErrPoolExhausted.
NoneLeft(c, rs, r) ==
    \/ Exhausted(Config[c].databases, UsedDatabases(rs))
    \/ Exhausted(Config[c].ports, UsedPorts(rs, r))

NewAllocation(c, rs, r) ==
    [worker |-> r.worker, task |-> r.task, checkout |-> CheckoutOf[r.task],
     database |-> FirstFree(Config[c].databases, UsedDatabases(rs)),
     port |-> FirstFree(Config[c].ports, UsedPorts(rs, r))]

\* release: what goes.
Matching(rs, r) ==
    {a \in rs : \/ r.op = "releaseTask" /\ a.task = r.task
                \/ r.op = "releaseWorker" /\ a.worker = r.worker}

-----------------------------------------------------------------------------
Init ==
    /\ registry = {} /\ lock = NoCaller
    /\ pc = [c \in Caller |-> "idle"]
    /\ request = [c \in Caller |-> NoRequest]
    /\ seen = [c \in Caller |-> {}]
    /\ answer = [c \in Caller |-> NoAnswer]
    /\ promised = {}

Goto(c, l) == pc' = [pc EXCEPT ![c] = l]

Call(c) ==
    /\ pc[c] = "idle"
    /\ \E r \in Requests : request' = [request EXCEPT ![c] = r]
    /\ Goto(c, "lock")
    /\ UNCHANGED <<registry, lock, seen, answer, promised>>

\* Mutant of Lock: flock does nothing.
LockNothing(c) ==
    /\ pc[c] = "lock"
    /\ lock' = c
    /\ Goto(c, "load")
    /\ UNCHANGED <<registry, request, seen, answer, promised>>

Lock(c) ==
    /\ pc[c] = "lock"
    /\ lock = NoCaller /\ lock' = c
    /\ Goto(c, "load")
    /\ UNCHANGED <<registry, request, seen, answer, promised>>

Load(c) ==
    /\ pc[c] = "load"
    /\ seen' = [seen EXCEPT ![c] = registry]
    /\ Goto(c, "mutate")
    /\ UNCHANGED <<registry, lock, request, answer, promised>>

\* Allocate finds what it gave before: nothing is written.
Found(c) ==
    /\ pc[c] = "mutate" /\ request[c].op = "allocate"
    /\ \E a \in Existing(seen[c], request[c]) : answer' = [answer EXCEPT ![c] = a]
    /\ Goto(c, "unlock")
    /\ UNCHANGED <<registry, lock, request, seen, promised>>

\* Allocate refuses, or there is nothing to release.
Refuse(c) ==
    /\ pc[c] = "mutate"
    /\ LET r == request[c] IN
          IF r.op = "allocate"
          THEN /\ Existing(seen[c], r) = {}
               /\ InUse(seen[c], r) \/ NoneLeft(c, seen[c], r)
          ELSE Matching(seen[c], r) = {}
    /\ Goto(c, "unlock")
    /\ UNCHANGED <<registry, lock, request, seen, answer, promised>>

\* Allocate appends an allocation; the temporary file is written and synced.
Add(c) ==
    LET r == request[c]
        a == NewAllocation(c, seen[c], r)
    IN  /\ pc[c] = "mutate" /\ r.op = "allocate"
        /\ Existing(seen[c], r) = {} /\ ~InUse(seen[c], r) /\ ~NoneLeft(c, seen[c], r)
        /\ seen' = [seen EXCEPT ![c] = @ \cup {a}]
        /\ answer' = [answer EXCEPT ![c] = a]
        /\ Goto(c, "rename")
        /\ UNCHANGED <<registry, lock, request, promised>>

\* release drops the matching ones; the temporary file is written and synced.
Drop(c) ==
    /\ pc[c] = "mutate" /\ request[c].op # "allocate"
    /\ Matching(seen[c], request[c]) # {}
    /\ seen' = [seen EXCEPT ![c] = @ \ Matching(@, request[c])]
    /\ Goto(c, "rename")
    /\ UNCHANGED <<registry, lock, request, answer, promised>>

Rename(c) ==
    /\ pc[c] = "rename"
    /\ registry' = seen[c]
    /\ promised' = IF request[c].op = "allocate" THEN promised
                   ELSE promised \ Matching(promised, request[c])
    /\ Goto(c, "renamed")
    /\ UNCHANGED <<lock, request, seen, answer>>

\* The temporary file cannot be written or renamed, or the mode of the new file cannot
\* be set: the caller gets an error, in the last case although the file has changed.
SaveFails(c) ==
    /\ pc[c] \in {"rename", "renamed"}
    /\ answer' = [answer EXCEPT ![c] = NoAnswer]
    /\ Goto(c, "unlock")
    /\ UNCHANGED <<registry, lock, request, seen, promised>>

\* The locks go and the caller has its answer.
Unlock(c) ==
    /\ pc[c] \in {"renamed", "unlock"}
    /\ lock' = NoCaller
    /\ promised' = promised \cup ({answer[c]} \ {NoAnswer})
    /\ answer' = [answer EXCEPT ![c] = NoAnswer]
    /\ request' = [request EXCEPT ![c] = NoRequest]
    /\ seen' = [seen EXCEPT ![c] = {}]
    /\ Goto(c, "idle")
    /\ UNCHANGED registry

\* Mutant of Kill: the lock is a file that outlives its process.
KillHolding(p) ==
    LET killed == {c \in Caller : ProcessOf[c] = p}
    IN  /\ \E c \in killed : pc[c] # "idle"
        /\ pc' = [c \in Caller |-> IF c \in killed THEN "idle" ELSE pc[c]]
        /\ answer' = [c \in Caller |-> IF c \in killed THEN NoAnswer ELSE answer[c]]
        /\ request' = [c \in Caller |-> IF c \in killed THEN NoRequest ELSE request[c]]
        /\ seen' = [c \in Caller |-> IF c \in killed THEN {} ELSE seen[c]]
        /\ UNCHANGED <<registry, lock, promised>>

\* A process ends; the kernel drops its lock.
Kill(p) ==
    LET killed == {c \in Caller : ProcessOf[c] = p}
    IN  /\ \E c \in killed : pc[c] # "idle"
        /\ pc' = [c \in Caller |-> IF c \in killed THEN "idle" ELSE pc[c]]
        /\ answer' = [c \in Caller |-> IF c \in killed THEN NoAnswer ELSE answer[c]]
        /\ request' = [c \in Caller |-> IF c \in killed THEN NoRequest ELSE request[c]]
        /\ seen' = [c \in Caller |-> IF c \in killed THEN {} ELSE seen[c]]
        /\ lock' = IF lock \in killed THEN NoCaller ELSE lock
        /\ UNCHANGED <<registry, promised>>

Update(c) == Lock(c) \/ Load(c) \/ Found(c) \/ Refuse(c) \/ Add(c) \/ Drop(c) \/ Rename(c) \/ Unlock(c)

Next ==
    \/ \E c \in Caller : Call(c) \/ Update(c) \/ SaveFails(c)
    \/ \E p \in Process : Kill(p)

Spec == Init /\ [][Next]_vars

\* A call runs on by itself; nothing is said of who gets the lock.
FairSpec == Spec /\ \A c \in Caller : WF_vars(Update(c))

-----------------------------------------------------------------------------
PoolTypeOK ==
    /\ registry \subseteq Allocation /\ promised \subseteq Allocation
    /\ lock \in Caller \cup {NoCaller}
    /\ pc \in [Caller -> {"idle", "lock", "load", "mutate", "rename", "renamed", "unlock"}]
    /\ request \in [Caller -> Requests \cup {NoRequest}]
    /\ seen \in [Caller -> SUBSET Allocation]
    /\ answer \in [Caller -> Allocation \cup {NoAnswer}]

(***************************************************************************)
(* "concurrent marshal processes never double-assign a resource" (Store),  *)
(* and a checkout has one worker (Allocate): in the file and in what the   *)
(* callers were told.                                                      *)
(***************************************************************************)
NeverDoubleAssigned ==
    \A a, b \in registry :
       a # b => /\ a.database # b.database /\ a.port # b.port
                /\ a.checkout = b.checkout => a.worker = b.worker

(***************************************************************************)
(* What a caller was told it has is in the registry, unchanged, until a    *)
(* release: whoever else calls, fails or is killed meanwhile.  A second    *)
(* call for the same worker and task is therefore told the same.           *)
(***************************************************************************)
PromisesHold ==
    /\ promised \subseteq registry
    /\ \A a, b \in promised : a.worker = b.worker /\ a.task = b.task => a = b

(***************************************************************************)
(* Whoever has the lock lets go of it, by unlocking or by being killed.    *)
(***************************************************************************)
LockComesFree == \A c \in Caller : lock = c ~> lock = NoCaller

(***************************************************************************)
(* The file implements the book of allocations: each change of it is one   *)
(* allocation or one release on the allocations there are at that moment.  *)
(***************************************************************************)
Book == INSTANCE PoolBook WITH held <- registry
ImplementsPoolBook == Book!Spec
=============================================================================
