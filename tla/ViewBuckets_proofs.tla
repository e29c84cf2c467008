------------------------- MODULE ViewBuckets_proofs -------------------------
(***************************************************************************)
(* Proofs about ViewBuckets.  The invariant adds to the two properties     *)
(* that a manual kanban view has buckets, one of which is the leftmost: a  *)
(* default bucket is looked up among them.                                 *)
(***************************************************************************)
EXTENDS ViewBuckets, FiniteSetTheorems, TLAPS

ViewInv ==
    /\ ViewTypeOK
    /\ NamedBucketsExist
    /\ EveryTaskHasCard
    /\ buckets # {} => leftmost \in buckets
    /\ kind = "manual" => buckets # {}

USE ViewAssumption

LEMMA BucketsTyped == ViewTypeOK => buckets \subseteq Bucket /\ NoBucket \notin Bucket
  BY DEF ViewTypeOK, Bucket, NoBucket

\* What a client names is resolved to buckets of the view, or to none.
LEMMA ResolvedExists ==
    ASSUME ViewTypeOK, NEW ids
    PROVE  /\ Resolved(ids) \in [{"default", "done", "claim"} -> buckets \cup {NoBucket}]
           /\ Resolved(ids) \in Named
<1>1. Resolved(ids) \in [{"default", "done", "claim"} -> buckets \cup {NoBucket}]
  BY DEF Resolved
<1> QED
  BY <1>1, BucketsTyped DEF Resolved, Named, NoBucket

\* What is restored are buckets of the view, and there is a default one.
LEMMA HealedExists ==
    ASSUME ViewInv, buckets # {}, NEW ids, ids = Resolved(ids)
    PROVE  /\ Healed(ids) \in Named
           /\ Healed(ids).default \in buckets
           /\ Healed(ids).done \in buckets \cup {NoBucket}
<1>1. /\ ids \in Named /\ ids.default \in buckets \cup {NoBucket}
      /\ ids.done \in buckets \cup {NoBucket}
  BY ResolvedExists DEF ViewInv
<1>2. buckets \subseteq Bucket /\ leftmost \in buckets /\ NoBucket \notin Bucket
  BY BucketsTyped DEF ViewInv
<1> QED
  BY <1>1, <1>2 DEF Healed, Existing, Named

\* Storing resolved ids keeps the named buckets right.
LEMMA StoredExists ==
    ASSUME ViewTypeOK, NEW k \in Kinds, NEW ids, NEW T,
           ids \in Named, ids.default \in T \cup {NoBucket}, ids.done \in T \cup {NoBucket}
    PROVE  /\ Stored(k, ids) \in Named
           /\ k # "list" => {Stored(k, ids).default, Stored(k, ids).done} \subseteq T \cup {NoBucket}
  BY DEF Stored, ViewTypeOK

\* Cards are placed in the bucket given.
LEMMA PlacedShows ==
    ASSUME ViewTypeOK, NEW b \in Bucket
    PROVE  /\ Placed(b) \in [Task -> Bucket \cup {NoBucket}]
           /\ \A t \in live : Placed(b)[t] # NoBucket
  BY DEF ViewTypeOK, Placed, Bucket, NoBucket

-----------------------------------------------------------------------------
LEMMA ViewInit == Init => ViewInv
<1> SUFFICES ASSUME Init PROVE ViewInv
  OBVIOUS
<1> USE DEF Init, NoBucket, Bucket, Foreign, Kinds
<1>1. ViewTypeOK
  BY DEF ViewTypeOK, Named
<1>2. NamedBucketsExist
  BY DEF NamedBucketsExist
<1> QED
  BY <1>1, <1>2 DEF ViewInv, EveryTaskHasCard

LEMMA CreateBucketKeeps == ViewInv /\ CreateBucket => ViewInv'
  BY DEF ViewInv, CreateBucket, ViewTypeOK, NamedBucketsExist, EveryTaskHasCard, Fresh, NoBucket, Bucket

\* The buckets that are left after a deletion, and the bucket its cards go to.
LEMMA DeleteBucketKeeps == ASSUME ViewInv, NEW b \in Bucket, DeleteBucket(b) PROVE ViewInv'
<1>1. buckets' = buckets \ {b} /\ b \in buckets /\ buckets' # {}
  <2>1. Cardinality({b}) = 1
    BY FS_Singleton
  <2> QED
    BY <2>1 DEF DeleteBucket
<1> DEFINE ids == IF Cleared(b) = named THEN named ELSE Resolved(Cleared(b))
<1>2. /\ named' = Stored(kind, ids)
      /\ rows' = [t \in Task |-> IF rows[t] = b THEN DefaultOf(ids) ELSE rows[t]]
      /\ leftmost' \in IF leftmost = b THEN buckets' ELSE {leftmost}
      /\ UNCHANGED <<kind, created, live>>
  BY DEF DeleteBucket
<1>3. ids \in Named
  BY ResolvedExists DEF ViewInv, ViewTypeOK
<1>4. kind # "list" => {ids.default, ids.done} \subseteq buckets' \cup {NoBucket}
  <2>1. CASE Cleared(b) = named
    BY <2>1, <1>1 DEF Cleared, ViewInv, ViewTypeOK, Named, NamedBucketsExist, Bucket, NoBucket
  <2>2. CASE Cleared(b) # named
    BY <2>2, <1>1 DEF Cleared, Resolved, ViewInv, ViewTypeOK, Named, NoBucket, Bucket
  <2> QED
    BY <2>1, <2>2
<1>5. DefaultOf(ids) \in Bucket
  BY <1>1, <1>3 DEF DefaultOf, ViewInv, ViewTypeOK, Named, Bucket, NoBucket
<1>6. ViewTypeOK'
  <2>1. named' \in Named
    BY <1>2, <1>3 DEF Stored, ViewInv, ViewTypeOK
  <2>2. rows' \in [Task -> Bucket \cup {NoBucket}]
    BY <1>2, <1>5 DEF ViewInv, ViewTypeOK
  <2> QED
    BY <1>1, <1>2, <2>1, <2>2 DEF ViewInv, ViewTypeOK, Bucket, NoBucket
<1>7. NamedBucketsExist'
  BY <1>2, <1>4 DEF NamedBucketsExist, Stored
<1>8. EveryTaskHasCard'
  BY <1>2, <1>5 DEF EveryTaskHasCard, ViewInv, ViewTypeOK, Bucket, NoBucket
<1> QED
  BY <1>1, <1>2, <1>6, <1>7, <1>8 DEF ViewInv

LEMMA EditViewKeeps == ASSUME ViewInv, NEW ids, NEW k \in Kinds, EditView(k, ids) PROVE ViewInv'
<1>1. /\ Resolved(ids) \in Named
      /\ Resolved(ids).default \in buckets \cup {NoBucket} /\ Resolved(ids).done \in buckets \cup {NoBucket}
  BY ResolvedExists DEF ViewInv
<1>2. /\ named' \in Named
      /\ k # "list" => {named'.default, named'.done} \subseteq buckets \cup {NoBucket}
  BY <1>1, StoredExists DEF EditView, ViewInv
<1> QED
  BY <1>2 DEF EditView, ViewInv, ViewTypeOK, NamedBucketsExist, EveryTaskHasCard

LEMMA ReturnToKanbanKeeps == ASSUME ViewInv, NEW ids, ReturnToKanban(ids) PROVE ViewInv'
<1>1. Resolved(Resolved(ids)) = Resolved(ids)
  BY DEF Resolved, ViewInv, ViewTypeOK, Bucket, NoBucket
<1>2. /\ named' \in Named /\ named'.default \in buckets
      /\ named'.done \in buckets \cup {NoBucket}
  BY <1>1, HealedExists DEF ReturnToKanban
<1>3. named'.default \in Bucket
  BY <1>2, BucketsTyped DEF ViewInv
<1>4. /\ rows' \in [Task -> Bucket \cup {NoBucket}]
      /\ \A t \in live : rows'[t] # NoBucket
  BY <1>3, PlacedShows DEF ReturnToKanban, ViewInv
<1> QED
  BY <1>2, <1>4 DEF ReturnToKanban, ViewInv, ViewTypeOK, NamedBucketsExist, EveryTaskHasCard, Kinds

LEMMA BecomeKanbanKeeps == ASSUME ViewInv, NEW ids, BecomeKanban(ids) PROVE ViewInv'
<1>1. /\ Fresh \in Bucket /\ created + 3 \in Bucket /\ created' = created + 3 /\ created' \in 0..MaxBuckets
      /\ {Fresh, created + 3} \subseteq buckets' /\ buckets' \subseteq 1..created' /\ Fresh # NoBucket
  BY DEF BecomeKanban, ViewInv, ViewTypeOK, Fresh, Bucket, NoBucket
<1>2. /\ named' \in Named /\ named'.default = Fresh /\ named'.done = created + 3
  BY <1>1, ResolvedExists DEF BecomeKanban, ViewInv, Named
<1>3. /\ rows' \in [Task -> Bucket \cup {NoBucket}]
      /\ \A t \in live : rows'[t] # NoBucket
  BY <1>1, PlacedShows DEF BecomeKanban, ViewInv
<1> QED
  BY <1>1, <1>2, <1>3 DEF BecomeKanban, ViewInv, ViewTypeOK, NamedBucketsExist, EveryTaskHasCard, Kinds

LEMMA TasksKeep ==
    ASSUME ViewInv, NEW t \in Task,
           AddTask(t) \/ RemoveTask(t) \/ \E b \in Bucket : PlaceTask(t, b)
    PROVE  ViewInv'
<1>1. CASE AddTask(t)
  <2>1. kind = "manual" => buckets \cup {DefaultOf(named)} \subseteq Bucket
    BY BucketsTyped DEF DefaultOf, ViewInv, ViewTypeOK, Named
  <2> QED
    BY <1>1, <2>1 DEF AddTask, ViewInv, ViewTypeOK, NamedBucketsExist, EveryTaskHasCard, Bucket, NoBucket
<1>2. CASE RemoveTask(t)
  BY <1>2 DEF RemoveTask, ViewInv, ViewTypeOK, NamedBucketsExist, EveryTaskHasCard
<1>3. CASE \E b \in Bucket : PlaceTask(t, b)
  BY <1>3 DEF PlaceTask, ViewInv, ViewTypeOK, NamedBucketsExist, EveryTaskHasCard, Bucket, NoBucket
<1> QED
  BY <1>1, <1>2, <1>3

LEMMA ViewNext == ViewInv /\ [Next]_vars => ViewInv'
<1> SUFFICES ASSUME ViewInv, [Next]_vars PROVE ViewInv'
  OBVIOUS
<1>1. CASE CreateBucket
  BY <1>1, CreateBucketKeeps
<1>2. CASE MoveBucket
  BY <1>2 DEF MoveBucket, ViewInv, ViewTypeOK, NamedBucketsExist, EveryTaskHasCard, Bucket
<1>3. CASE \E b \in Bucket : DeleteBucket(b)
  BY <1>3, DeleteBucketKeeps
<1>4. CASE \E ids \in Ids : ReturnToKanban(ids) \/ BecomeKanban(ids) \/ \E k \in Kinds : EditView(k, ids)
  BY <1>4, ReturnToKanbanKeeps, BecomeKanbanKeeps, EditViewKeeps
<1>5. CASE \E t \in Task : AddTask(t) \/ RemoveTask(t) \/ \E b \in Bucket : PlaceTask(t, b)
  BY <1>5, TasksKeep
<1>6. CASE UNCHANGED vars
  BY <1>6 DEF vars, ViewInv, ViewTypeOK, NamedBucketsExist, EveryTaskHasCard
<1> QED
  BY <1>1, <1>2, <1>3, <1>4, <1>5, <1>6 DEF Next

LEMMA ViewInvariant == Spec => []ViewInv
  BY ViewInit, ViewNext, PTL DEF Spec

(***************************************************************************)
(* A kanban view names buckets it has: a deletion lets go of the ids, and  *)
(* whatever comes back from a client or from before is looked for.         *)
(***************************************************************************)
THEOREM ViewNamesItsBuckets == Spec => []NamedBucketsExist
<1>1. ViewInv => NamedBucketsExist
  BY DEF ViewInv
<1> QED
  BY <1>1, ViewInvariant, PTL

(***************************************************************************)
(* A manual kanban view has a card for every task of its project: it gets  *)
(* them when it becomes one, and there is always a bucket for them.        *)
(***************************************************************************)
THEOREM ViewShowsAll == Spec => []EveryTaskHasCard
<1>1. ViewInv => EveryTaskHasCard
  BY DEF ViewInv
<1> QED
  BY <1>1, ViewInvariant, PTL
=============================================================================
