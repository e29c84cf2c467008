---------------------------- MODULE ViewBuckets -----------------------------
(***************************************************************************)
(* The buckets of one view of a project, while tasks sit in them: the view *)
(* turns from a list into a manual kanban view or one with filter buckets  *)
(* and back, buckets come, go and change places, and the view names one as *)
(* its default, one as its done and one as its claim bucket.               *)
(*                                                                         *)
(* AgentBoard takes all of this as constants.  What its handlers do to the *)
(* cards of this view is to put one into a bucket (PlaceTask).             *)
(*                                                                         *)
(* Of the positions only the leftmost bucket matters.                      *)
(***************************************************************************)
EXTENDS Integers, FiniteSets

CONSTANTS
    Task,
    MaxBuckets      \* bound: buckets ever created in the view, default ones included

ASSUME ViewAssumption == MaxBuckets \in Nat /\ MaxBuckets >= 3

\* Ids of buckets are never used twice; 0 is none, and one belongs to another view.
Bucket == 1..MaxBuckets
NoBucket == 0
Foreign == MaxBuckets + 1

Kinds == {"list", "manual", "filter"}

Named == [default : Bucket \cup {NoBucket}, done : Bucket \cup {NoBucket},
          claim : Bucket \cup {NoBucket, Foreign}]

VARIABLES
    kind,       \* view_kind, and of a kanban view its bucket_configuration_mode
    named,      \* default_bucket_id, done_bucket_id and claim_bucket_id
    buckets,    \* the rows of buckets
    leftmost,   \* the first of them by position, or NoBucket
    created,    \* how many there have been
    live,       \* tasks of the project
    rows        \* task_buckets: the bucket of a task in this view, or NoBucket

vars == <<kind, named, buckets, leftmost, created, live, rows>>

Fresh == created + 1

-----------------------------------------------------------------------------
\* getDefaultBucketID.
DefaultOf(ids) == IF ids.default # NoBucket THEN ids.default ELSE leftmost

\* resolveBucketIDs: of what a client or a handler names, the buckets of this view.
Resolved(ids) == [f \in {"default", "done", "claim"} |-> IF ids[f] \in buckets THEN ids[f] ELSE NoBucket]

\* Another view's bucket is refused, unless it is the stored one that comes back.
Acceptable(ids) == \A f \in {"default", "done", "claim"} : ids[f] = Foreign => named[f] = Foreign

\* A list has no business with buckets: the stored ids stay.
Stored(k, ids) == IF k = "list" THEN named ELSE ids

\* existingBucketID.
Existing(b) == IF b \in buckets THEN b ELSE NoBucket

\* healBucketIDs: what the client left out is restored, if it is still there.
Healed(ids) ==
    LET default == IF ids.default # NoBucket THEN ids.default ELSE Existing(named.default)
    IN  [ids EXCEPT !.default = IF default # NoBucket THEN default ELSE leftmost,
                    !.done = IF @ # NoBucket THEN @ ELSE Existing(named.done)]

\* Mutant of Placed: tasks that came while the view was no kanban view are left out.
PlacedAlready(b) == rows

\* addTasksToView.
Placed(b) == [t \in Task |-> IF t \in live /\ rows[t] = NoBucket THEN b ELSE rows[t]]

-----------------------------------------------------------------------------
\* A view is created with the buckets of its kind, and with the tasks there are; the
\* claim bucket is taken from the request as it is.
Init ==
    /\ kind \in Kinds
    /\ live \in SUBSET Task
    /\ named \in [default : {IF kind = "manual" THEN 1 ELSE NoBucket},
                  done : {IF kind = "manual" THEN 3 ELSE NoBucket},
                  claim : {NoBucket, Foreign}]
    /\ created = IF kind = "manual" THEN 3 ELSE 0
    /\ buckets = 1..created
    /\ leftmost = IF kind = "manual" THEN 1 ELSE NoBucket
    /\ rows = [t \in Task |-> IF kind = "manual" /\ t \in live THEN 1 ELSE NoBucket]

\* Bucket.Create; the position decides whether it becomes the leftmost.
CreateBucket ==
    /\ created < MaxBuckets
    /\ created' = Fresh
    /\ buckets' = buckets \cup {Fresh}
    /\ leftmost' \in IF buckets = {} THEN {Fresh} ELSE {leftmost, Fresh}
    /\ UNCHANGED <<kind, named, live, rows>>

\* Bucket.Update, of a position.
MoveBucket ==
    /\ leftmost' \in buckets
    /\ UNCHANGED <<kind, named, buckets, created, live, rows>>

\* Mutant of Cleared: the done bucket is forgotten.
ClearedDefault(b) == [named EXCEPT !.default = IF @ = b THEN NoBucket ELSE @]

Cleared(b) == [named EXCEPT !.default = IF @ = b THEN NoBucket ELSE @,
                            !.done = IF @ = b THEN NoBucket ELSE @]

\* Bucket.Delete.  The view is updated when it named the bucket, all of its ids being
\* resolved on the way; then the cards move to the default bucket, looked up while the
\* bucket is still there.
DeleteBucket(b) ==
    /\ b \in buckets /\ Cardinality(buckets) > 1
    /\ LET ids == IF Cleared(b) = named THEN named ELSE Resolved(Cleared(b))
       IN  /\ named' = Stored(kind, ids)
           /\ rows' = [t \in Task |-> IF rows[t] = b THEN DefaultOf(ids) ELSE rows[t]]
    /\ buckets' = buckets \ {b}
    /\ leftmost' \in IF leftmost = b THEN buckets' ELSE {leftmost}
    /\ UNCHANGED <<kind, created, live>>

\* ProjectView.Update of a view that was and is not, or is and was, a manual kanban view.
EditView(k, ids) ==
    /\ Acceptable(ids)
    /\ k # "manual" \/ kind = "manual"
    /\ kind' = k
    /\ named' = Stored(k, Resolved(ids))
    /\ UNCHANGED <<buckets, leftmost, created, live, rows>>

\* The view becomes a manual kanban view that has buckets from earlier...
ReturnToKanban(ids) ==
    /\ Acceptable(ids)
    /\ kind # "manual" /\ kind' = "manual"
    /\ buckets # {}
    /\ named' = Healed(Resolved(ids))
    /\ rows' = Placed(named'.default)
    /\ UNCHANGED <<buckets, leftmost, created, live>>

\* ... or has none and gets the default ones.
BecomeKanban(ids) ==
    /\ Acceptable(ids)
    /\ kind # "manual" /\ kind' = "manual"
    /\ buckets = {} /\ created + 3 <= MaxBuckets
    /\ created' = created + 3
    /\ buckets' = Fresh..(created + 3)
    /\ leftmost' = Fresh
    /\ named' = [Resolved(ids) EXCEPT !.default = Fresh, !.done = created + 3]
    /\ rows' = Placed(Fresh)
    /\ UNCHANGED live

-----------------------------------------------------------------------------
\* A task is created in the project or moved into it, with or without a bucket.
AddTask(t) ==
    /\ t \notin live /\ live' = live \cup {t}
    /\ IF kind = "manual"
       THEN \E b \in buckets \cup {DefaultOf(named)} : rows' = [rows EXCEPT ![t] = b]
       ELSE UNCHANGED rows
    /\ UNCHANGED <<kind, named, buckets, leftmost, created>>

\* A drag, or a handler that puts the card into the done or the default bucket.
PlaceTask(t, b) ==
    /\ t \in live /\ b \in buckets
    /\ rows' = [rows EXCEPT ![t] = b]
    /\ UNCHANGED <<kind, named, buckets, leftmost, created, live>>

\* A task is deleted or leaves the project.
RemoveTask(t) ==
    /\ t \in live /\ live' = live \ {t}
    /\ rows' = [rows EXCEPT ![t] = NoBucket]
    /\ UNCHANGED <<kind, named, buckets, leftmost, created>>

\* What a client may name: its own buckets, there or gone, none, or another view's.
Ids == [{"default", "done", "claim"} -> 0..created \cup {Foreign}]

Next ==
    \/ CreateBucket \/ MoveBucket
    \/ \E b \in Bucket : DeleteBucket(b) \/ \E t \in Task : PlaceTask(t, b)
    \/ \E ids \in Ids :
          ReturnToKanban(ids) \/ BecomeKanban(ids) \/ \E k \in Kinds : EditView(k, ids)
    \/ \E t \in Task : AddTask(t) \/ RemoveTask(t)

Spec == Init /\ [][Next]_vars

-----------------------------------------------------------------------------
ViewTypeOK ==
    /\ kind \in Kinds
    /\ named \in Named
    /\ buckets \subseteq 1..created /\ created \in 0..MaxBuckets
    /\ leftmost \in Bucket \cup {NoBucket}
    /\ live \subseteq Task
    /\ rows \in [Task -> Bucket \cup {NoBucket}]

(***************************************************************************)
(* The default and the done bucket of a kanban view are buckets it has,    *)
(* through deletions, changes of kind and ids that clients echo or omit.   *)
(* A task that is created, finished or reopened is moved there and the     *)
(* request fails when there is no such bucket.                             *)
(***************************************************************************)
NamedBucketsExist ==
    kind # "list" => {named.default, named.done} \subseteq buckets \cup {NoBucket}

(***************************************************************************)
(* Every task of the project has a card on a manual kanban view, also one  *)
(* that came while the view was something else ("Tasks created while the   *)
(* view was not a kanban view are not in any bucket yet").                 *)
(***************************************************************************)
EveryTaskHasCard == kind = "manual" => \A t \in live : rows[t] # NoBucket
=============================================================================
