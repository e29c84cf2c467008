---------------------------- MODULE Pool_proofs ----------------------------
(***************************************************************************)
(* The registry never assigns a resource twice, whoever calls, fails or is *)
(* killed, and what a caller was told stays: for any number of callers,    *)
(* processes, workers and tasks, and for any configurations.               *)
(*                                                                         *)
(* The invariant follows the lock: a caller between Lock and Unlock has    *)
(* it, and what such a caller has read or is about to write is the         *)
(* registry as it still is, with one allocation more or with those of a    *)
(* release less.                                                           *)
(***************************************************************************)
EXTENDS Pool, SequenceTheorems, FiniteSetTheorems, WellFoundedInduction, TLAPS

-----------------------------------------------------------------------------
(***************************************************************************)
(* firstFree has something to return, from the list and not in use, unless *)
(* the whole list is in use.                                               *)
(***************************************************************************)
LEMMA FirstFreeIsFree ==
    ASSUME NEW S, NEW list \in Seq(S), NEW used, ~Exhausted(list, used)
    PROVE  FirstFree(list, used) \in S \ used
<1> DEFINE Upto(i) == 1..i
           Free == {i \in DOMAIN list : list[i] \notin used}
           Prefixes == {Upto(i) : i \in Free}
<1>1. DOMAIN list = 1..Len(list) /\ Len(list) \in Nat /\ \A i \in DOMAIN list : list[i] \in S
  BY LenProperties, ElementOfSeq
<1>2. Prefixes \subseteq FiniteSubsetsOf(Nat) /\ Prefixes # {}
  <2>1. \A i \in Nat : IsFiniteSet(1..i) /\ 1..i \subseteq Nat
    BY FS_Interval
  <2> QED
    BY <1>1, <2>1 DEF FiniteSubsetsOf, Exhausted
<1>3. PICK p \in Prefixes : \A q \in Prefixes : ~(<<q, p>> \in StrictSubsetOrdering(Nat))
  <2> HIDE DEF Prefixes
  <2> QED
    BY <1>2, FS_StrictSubsetOrderingWellFounded, WFMin
<1>4. PICK i \in Free : p = Upto(i)
  OBVIOUS
<1>5. \A j \in 1..i - 1 : list[j] \in used
  <2> SUFFICES ASSUME NEW j \in 1..i - 1, list[j] \notin used
               PROVE  FALSE
    OBVIOUS
  <2>1. j \in Free /\ j \in Nat /\ i \in Nat /\ j < i
    BY <1>1
  <2>2. 1..j \subseteq 1..i /\ 1..j # 1..i /\ 1..i \subseteq Nat
    BY <2>1
  <2>3. <<Upto(j), p>> \in StrictSubsetOrdering(Nat)
    BY <1>4, <2>2 DEF StrictSubsetOrdering
  <2> QED
    BY <1>3, <2>1, <2>3
<1>6. \E x \in {list[k] : k \in DOMAIN list} \ used :
         \E k \in DOMAIN list : list[k] = x /\ \A j \in 1..k - 1 : list[j] \in used
  BY <1>5
<1>7. FirstFree(list, used) \in {list[k] : k \in DOMAIN list} \ used
  BY <1>6 DEF FirstFree
<1> QED
  BY <1>1, <1>7

-----------------------------------------------------------------------------
AllApart(rs) == \A a, b \in rs : a # b => Book!Apart(a, b)

\* What a caller is doing, as far as its place tells.
Place(c) ==
    /\ pc[c] \notin {"idle", "lock"} => lock = c
    /\ pc[c] # "idle" => request[c] \in Requests
    /\ pc[c] \in {"idle", "lock", "load", "mutate"} => answer[c] = NoAnswer
    /\ pc[c] = "mutate" => seen[c] = registry

\* What it is about to write.
Pending(c) ==
    pc[c] = "rename" =>
       IF request[c].op = "allocate"
       THEN /\ answer[c] \in Allocation /\ seen[c] = registry \cup {answer[c]}
            /\ \A b \in registry : Book!Apart(answer[c], b)
       ELSE answer[c] = NoAnswer /\ seen[c] = registry \ Matching(registry, request[c])

\* What it is about to answer.
Settled(c) ==
    pc[c] \in {"renamed", "unlock"} /\ answer[c] # NoAnswer => answer[c] \in registry

Inv ==
    /\ PoolTypeOK
    /\ AllApart(registry)
    /\ promised \subseteq registry
    /\ \A c \in Caller : Place(c) /\ Pending(c) /\ Settled(c)

(***************************************************************************)
(* A new allocation is apart from all there are: the refusals before it    *)
(* see to the checkout and the task, firstFree to the rest.                *)
(***************************************************************************)
LEMMA NewIsApart ==
    ASSUME NEW c \in Caller, NEW rs \in SUBSET Allocation,
           NEW r \in Requests, r.op = "allocate",
           Existing(rs, r) = {}, ~InUse(rs, r), ~NoneLeft(c, rs, r)
    PROVE  /\ NewAllocation(c, rs, r) \in Allocation
           /\ \A b \in rs : Book!Apart(NewAllocation(c, rs, r), b)
<1> DEFINE n == NewAllocation(c, rs, r)
           db == FirstFree(Config[c].databases, UsedDatabases(rs))
           pt == FirstFree(Config[c].ports, UsedPorts(rs, r))
<1>1. db \in Database \ UsedDatabases(rs)
  BY FirstFreeIsFree, PoolAssumption DEF NoneLeft
<1>2. pt \in Port \ UsedPorts(rs, r)
  BY FirstFreeIsFree, PoolAssumption DEF NoneLeft
<1>3. r.worker \in Worker /\ r.task \in Task /\ CheckoutOf[r.task] \in Checkout
  BY PoolAssumption DEF Requests
<1>4. n = [worker |-> r.worker, task |-> r.task, checkout |-> CheckoutOf[r.task],
           database |-> db, port |-> pt]
  BY DEF NewAllocation
<1> HIDE DEF db, pt, n
<1>5. n \in Allocation
  BY <1>1, <1>2, <1>3, <1>4 DEF Allocation
<1>6. ASSUME NEW b \in rs PROVE Book!Apart(n, b)
  <2>1. n.database # b.database
    BY <1>1, <1>4 DEF UsedDatabases
  <2>2. n.port # b.port
    BY <1>2, <1>4 DEF UsedPorts
  <2>3. n.checkout = b.checkout => n.worker = b.worker
    BY <1>4 DEF InUse
  <2>4. ~(n.worker = b.worker /\ n.task = b.task)
    BY <1>4 DEF Existing
  <2> QED
    BY <2>1, <2>2, <2>3, <2>4 DEF Book!Apart
<1> QED
  BY <1>5, <1>6 DEF n

-----------------------------------------------------------------------------
LEMMA InvInit == Init => Inv
BY PoolAssumption DEF Init, Inv, PoolTypeOK, AllApart, Place, Pending, Settled

(***************************************************************************)
(* A step of c that leaves the registry alone: the others are not          *)
(* concerned, as long as nobody who has the lock loses it.                 *)
(***************************************************************************)
LEMMA OthersUndisturbed ==
    ASSUME Inv, NEW c \in Caller, UNCHANGED registry,
           \A d \in Caller \ {c} : /\ pc'[d] = pc[d] /\ request'[d] = request[d]
                                   /\ seen'[d] = seen[d] /\ answer'[d] = answer[d]
                                   /\ lock = d => lock' = d
    PROVE  \A d \in Caller \ {c} : (Place(d) /\ Pending(d) /\ Settled(d))'
BY DEF Inv, Place, Pending, Settled

LEMMA CallKeeps == ASSUME Inv, NEW c \in Caller, Call(c) PROVE Inv'
<1> USE DEF Inv, Call, Goto
<1>1. PICK r \in Requests : request' = [request EXCEPT ![c] = r]
  OBVIOUS
<1>2. PoolTypeOK'
  BY <1>1 DEF PoolTypeOK
<1>3. (Place(c) /\ Pending(c) /\ Settled(c))'
  BY <1>1 DEF PoolTypeOK, Place, Pending, Settled
<1>4. \A d \in Caller \ {c} : (Place(d) /\ Pending(d) /\ Settled(d))'
  BY <1>1, OthersUndisturbed DEF PoolTypeOK
<1> QED
  BY <1>2, <1>3, <1>4 DEF AllApart

LEMMA LockKeeps == ASSUME Inv, NEW c \in Caller, Lock(c) PROVE Inv'
<1> USE DEF Inv, Lock, Goto
<1>1. PoolTypeOK'
  BY DEF PoolTypeOK
<1>2. (Place(c) /\ Pending(c) /\ Settled(c))'
  BY DEF PoolTypeOK, Place, Pending, Settled
<1>3. \A d \in Caller \ {c} : (Place(d) /\ Pending(d) /\ Settled(d))'
  BY OthersUndisturbed, PoolAssumption DEF PoolTypeOK
<1> QED
  BY <1>1, <1>2, <1>3 DEF AllApart

LEMMA LoadKeeps == ASSUME Inv, NEW c \in Caller, Load(c) PROVE Inv'
<1> USE DEF Inv, Load, Goto
<1>1. PoolTypeOK'
  BY DEF PoolTypeOK
<1>2. (Place(c) /\ Pending(c) /\ Settled(c))'
  BY DEF PoolTypeOK, Place, Pending, Settled
<1>3. \A d \in Caller \ {c} : (Place(d) /\ Pending(d) /\ Settled(d))'
  BY OthersUndisturbed DEF PoolTypeOK
<1> QED
  BY <1>1, <1>2, <1>3 DEF AllApart

LEMMA FoundKeeps == ASSUME Inv, NEW c \in Caller, Found(c) PROVE Inv'
<1> USE DEF Inv, Found, Goto
<1>1. PICK a \in registry : answer' = [answer EXCEPT ![c] = a]
  BY DEF Existing, Place
<1>2. PoolTypeOK'
  BY <1>1 DEF PoolTypeOK
<1>3. (Place(c) /\ Pending(c) /\ Settled(c))'
  BY <1>1 DEF PoolTypeOK, Place, Pending, Settled
<1>4. \A d \in Caller \ {c} : (Place(d) /\ Pending(d) /\ Settled(d))'
  BY <1>1, OthersUndisturbed DEF PoolTypeOK
<1> QED
  BY <1>2, <1>3, <1>4 DEF AllApart

LEMMA RefuseKeeps == ASSUME Inv, NEW c \in Caller, Refuse(c) PROVE Inv'
<1> USE DEF Inv, Refuse, Goto
<1>1. PoolTypeOK'
  BY DEF PoolTypeOK
<1>2. (Place(c) /\ Pending(c) /\ Settled(c))'
  BY DEF PoolTypeOK, Place, Pending, Settled
<1>3. \A d \in Caller \ {c} : (Place(d) /\ Pending(d) /\ Settled(d))'
  BY OthersUndisturbed DEF PoolTypeOK
<1> QED
  BY <1>1, <1>2, <1>3 DEF AllApart

LEMMA AddKeeps == ASSUME Inv, NEW c \in Caller, Add(c) PROVE Inv'
<1> DEFINE a == NewAllocation(c, registry, request[c])
<1>0. seen[c] = registry /\ registry \in SUBSET Allocation /\ request[c] \in Requests
  BY DEF Inv, PoolTypeOK, Place, Add
<1>1. a \in Allocation /\ \A b \in registry : Book!Apart(a, b)
  BY <1>0, NewIsApart DEF Add
<1>2. /\ pc[c] = "mutate" /\ request[c].op = "allocate"
      /\ seen' = [seen EXCEPT ![c] = registry \cup {a}]
      /\ answer' = [answer EXCEPT ![c] = a]
      /\ pc' = [pc EXCEPT ![c] = "rename"]
      /\ UNCHANGED <<registry, lock, request, promised>>
  BY <1>0 DEF Add, Goto, Inv, PoolTypeOK
<1> HIDE DEF a
<1> USE DEF Inv
<1>3. PoolTypeOK'
  BY <1>1, <1>2 DEF PoolTypeOK
<1>4. (Place(c) /\ Settled(c))'
  BY <1>2 DEF PoolTypeOK, Place, Settled
<1>5. Pending(c)'
  BY <1>1, <1>2 DEF PoolTypeOK, Pending, Book!Apart
<1>6. \A d \in Caller \ {c} : (Place(d) /\ Pending(d) /\ Settled(d))'
  BY <1>2, OthersUndisturbed DEF PoolTypeOK
<1> QED
  BY <1>2, <1>3, <1>4, <1>5, <1>6 DEF AllApart

LEMMA DropKeeps == ASSUME Inv, NEW c \in Caller, Drop(c) PROVE Inv'
<1> USE DEF Inv, Drop, Goto
<1>1. PoolTypeOK'
  BY DEF PoolTypeOK
<1>2. (Place(c) /\ Settled(c))'
  BY DEF PoolTypeOK, Place, Settled
<1>3. Pending(c)'
  BY DEF PoolTypeOK, Place, Pending
<1>4. \A d \in Caller \ {c} : (Place(d) /\ Pending(d) /\ Settled(d))'
  BY OthersUndisturbed DEF PoolTypeOK
<1> QED
  BY <1>1, <1>2, <1>3, <1>4 DEF AllApart

(***************************************************************************)
(* The file changes: nobody else is past the lock, so nobody else has read *)
(* what changes here.                                                      *)
(***************************************************************************)
LEMMA RenameKeeps == ASSUME Inv, NEW c \in Caller, Rename(c) PROVE Inv'
<1> USE DEF Inv, Rename, Goto
<1>1. PoolTypeOK'
  BY DEF PoolTypeOK
<1>2. lock = c /\ \A d \in Caller \ {c} : pc[d] \in {"idle", "lock"}
  BY DEF Place
<1>3. \A d \in Caller \ {c} : (Place(d) /\ Pending(d) /\ Settled(d))'
  BY <1>2 DEF PoolTypeOK, Place, Pending, Settled
<1>4. (Place(c) /\ Pending(c))'
  BY DEF PoolTypeOK, Place, Pending
<1>5. Settled(c)' /\ AllApart(registry)' /\ (promised \subseteq registry)'
  <2>1. CASE request[c].op = "allocate"
    <3>1. registry' = registry \cup {answer[c]} /\ promised' = promised
      BY <2>1 DEF Pending
    <3>2. \A b \in registry : Book!Apart(answer[c], b) /\ Book!Apart(b, answer[c])
      BY <2>1 DEF Pending, Book!Apart
    <3> QED
      BY <3>1, <3>2 DEF Settled, AllApart
  <2>2. CASE request[c].op # "allocate"
    <3>1. /\ registry' = registry \ Matching(registry, request[c])
          /\ promised' = promised \ Matching(promised, request[c])
          /\ answer'[c] = NoAnswer
      BY <2>2 DEF Pending
    <3> QED
      BY <3>1 DEF Settled, AllApart, Matching
  <2> QED
    BY <2>1, <2>2
<1> QED
  BY <1>1, <1>3, <1>4, <1>5

LEMMA SaveFailsKeeps == ASSUME Inv, NEW c \in Caller, SaveFails(c) PROVE Inv'
<1> USE DEF Inv, SaveFails, Goto
<1>1. PoolTypeOK'
  BY DEF PoolTypeOK
<1>2. (Place(c) /\ Pending(c) /\ Settled(c))'
  BY DEF PoolTypeOK, Place, Pending, Settled
<1>3. \A d \in Caller \ {c} : (Place(d) /\ Pending(d) /\ Settled(d))'
  BY OthersUndisturbed DEF PoolTypeOK
<1> QED
  BY <1>1, <1>2, <1>3 DEF AllApart

LEMMA UnlockKeeps == ASSUME Inv, NEW c \in Caller, Unlock(c) PROVE Inv'
<1> USE DEF Inv, Unlock, Goto
<1>1. PoolTypeOK'
  BY DEF PoolTypeOK
<1>2. (Place(c) /\ Pending(c) /\ Settled(c))'
  BY DEF PoolTypeOK, Place, Pending, Settled
<1>3. \A d \in Caller \ {c} : (Place(d) /\ Pending(d) /\ Settled(d))'
  <2>1. lock = c
    BY DEF Place
  <2> QED
    BY <2>1, OthersUndisturbed DEF PoolTypeOK
<1>4. (promised \subseteq registry)'
  BY DEF Settled
<1> QED
  BY <1>1, <1>2, <1>3, <1>4 DEF AllApart

LEMMA KillKeeps == ASSUME Inv, NEW p \in Process, Kill(p) PROVE Inv'
<1> DEFINE killed == {c \in Caller : ProcessOf[c] = p}
<1>1. /\ \A c \in killed : pc'[c] = "idle" /\ answer'[c] = NoAnswer
      /\ \A c \in Caller \ killed :
            /\ pc'[c] = pc[c] /\ answer'[c] = answer[c]
            /\ request'[c] = request[c] /\ seen'[c] = seen[c]
            /\ lock = c => lock' = c
      /\ UNCHANGED <<registry, promised>>
  BY PoolAssumption DEF Kill
<1>2. PoolTypeOK'
  BY DEF Kill, Inv, PoolTypeOK
<1> HIDE DEF killed
<1>3. ASSUME NEW c \in Caller PROVE (Place(c) /\ Pending(c) /\ Settled(c))'
  BY <1>1 DEF Inv, Place, Pending, Settled
<1> QED
  BY <1>1, <1>2, <1>3 DEF Inv, AllApart

LEMMA InvStep == Inv /\ [Next]_vars => Inv'
<1> SUFFICES ASSUME Inv, [Next]_vars PROVE Inv'
  OBVIOUS
<1>1. CASE UNCHANGED vars
  BY <1>1 DEF vars, Inv, PoolTypeOK, AllApart, Place, Pending, Settled
<1>2. CASE Next
  BY <1>2, CallKeeps, LockKeeps, LoadKeeps, FoundKeeps, RefuseKeeps, AddKeeps, DropKeeps,
     RenameKeeps, SaveFailsKeeps, UnlockKeeps, KillKeeps
     DEF Next, Update
<1> QED
  BY <1>1, <1>2

LEMMA InvHolds == Spec => []Inv
BY InvInit, InvStep, PTL DEF Spec

-----------------------------------------------------------------------------
(***************************************************************************)
(* "concurrent marshal processes never double-assign a resource": at any   *)
(* time no two allocations in the file share a database or a port, nor a   *)
(* checkout of two workers.                                                *)
(***************************************************************************)
THEOREM PoolNeverAssignsTwice == Spec => [](PoolTypeOK /\ NeverDoubleAssigned)
<1>1. Inv => PoolTypeOK /\ NeverDoubleAssigned
  BY DEF Inv, AllApart, Book!Apart, NeverDoubleAssigned
<1> QED
  BY InvHolds, <1>1, PTL

(***************************************************************************)
(* An allocation a caller was told stays until its release, and a worker   *)
(* is never told two of them for one task.                                 *)
(***************************************************************************)
THEOREM PoolKeepsPromises == Spec => []PromisesHold
<1>1. Inv => PromisesHold
  BY DEF Inv, AllApart, Book!Apart, PromisesHold
<1> QED
  BY InvHolds, <1>1, PTL

(***************************************************************************)
(* Each change of the file is one allocation or one release of the book of *)
(* allocations, on what the file holds at that moment.                     *)
(***************************************************************************)
THEOREM PoolImplementsBook == Spec => ImplementsPoolBook
<1>1. Init => Book!Init
  BY DEF Init, Book!Init
<1>2. ASSUME Inv, [Next]_vars PROVE [Book!Next]_registry
  <2> SUFFICES ASSUME NEW c \in Caller, Rename(c) PROVE Book!Next
    BY <1>2 DEF vars, Next, Update, Call, Lock, Load, Found, Refuse, Add, Drop, SaveFails,
                Unlock, Kill
  <2>1. CASE request[c].op = "allocate"
    <3>1. /\ answer[c] \in Allocation /\ registry' = registry \cup {answer[c]}
          /\ \A b \in registry : Book!Apart(answer[c], b)
      BY <1>2, <2>1 DEF Inv, Pending, Rename
    <3>2. answer[c] \in Book!Allocation
      BY <3>1 DEF Allocation, Book!Allocation
    <3> QED
      BY <3>1, <3>2 DEF Book!Next, Book!Give
  <2>2. CASE request[c].op # "allocate"
    <3>1. registry' = registry \ Matching(registry, request[c])
      BY <1>2, <2>2 DEF Inv, Pending, Rename
    <3>2. request[c] \in Requests
      BY <1>2 DEF Inv, Place, Rename
    <3>3. CASE request[c].op = "releaseTask"
      <4>1. request[c].task \in Task
        BY <3>2, <3>3 DEF Requests
      <4>2. Matching(registry, request[c]) = Book!For(request[c].task)
        BY <3>3 DEF Matching, Book!For
      <4> QED
        BY <3>1, <4>1, <4>2 DEF Book!Next, Book!Free
    <3>4. CASE request[c].op = "releaseWorker"
      <4>1. request[c].worker \in Worker
        BY <3>2, <3>4 DEF Requests
      <4>2. Matching(registry, request[c]) = Book!Of(request[c].worker)
        BY <3>4 DEF Matching, Book!Of
      <4> QED
        BY <3>1, <4>1, <4>2 DEF Book!Next, Book!Free
    <3> QED
      BY <2>2, <3>2, <3>3, <3>4 DEF Requests
  <2> QED
    BY <2>1, <2>2
<1> QED
  BY <1>1, <1>2, InvHolds, PTL DEF Spec, ImplementsPoolBook, Book!Spec
=============================================================================
