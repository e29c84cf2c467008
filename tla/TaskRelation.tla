---------------------------- MODULE TaskRelation ----------------------------
(***************************************************************************)
(* The task_relations table of pkg/models.  Every relation is stored as    *)
(* two rows, one per direction, with inverse kinds, and creating one is    *)
(* refused when it would close a cycle of its own kind.                    *)
(*                                                                         *)
(* "related" stands for the kinds the cycle check skips.                   *)
(***************************************************************************)
EXTENDS FiniteSets, Tasks

CONSTANT
    RelationKind   \* the kinds in use, closed under inverse

AllKinds == {"subtask", "parenttask", "blocked", "blocking", "follows", "precedes", "related"}

ASSUME RelationAssumption ==
    /\ RelationKind \subseteq AllKinds
    /\ \A pair \in {<<"subtask", "parenttask">>, <<"blocked", "blocking">>,
                    <<"follows", "precedes">>} :
          pair[1] \in RelationKind <=> pair[2] \in RelationKind

VARIABLE relations    \* rows <<task, kind, other task>>

Row == Task \X RelationKind \X Task

InverseRelation ==
    [subtask  |-> "parenttask", parenttask |-> "subtask",
     blocked  |-> "blocking",   blocking   |-> "blocked",
     follows  |-> "precedes",   precedes   |-> "follows",
     related  |-> "related"]

\* The kinds a cycle would deadlock.
AcyclicKinds == AllKinds \ {"related"}

\* The relations whose other side must be done before a task can be claimed.
BlockingKinds == {"blocked", "follows", "subtask"}

Related(t, kinds) == {o \in Task : \E k \in kinds : <<t, k, o>> \in relations}

EdgesIn(rs, k) == {<<r[1], r[3]>> : r \in {q \in rs : q[2] = k}}

Edges(k) == EdgesIn(relations, k)

\* y is in every set that holds x and all successors of its members.
Reaches(edges, x, y) ==
    \A S \in SUBSET Task :
       (x \in S /\ \A e \in edges : e[1] \in S => e[2] \in S) => y \in S

-----------------------------------------------------------------------------
\* Mutant of CreateRelation: the check walks from the wrong end.
CreateUnlessReached(t, k, o) ==
    /\ t # o
    /\ <<t, k, o>> \notin relations
    /\ k \in AcyclicKinds => ~Reaches(Edges(k), t, o)
    /\ relations' = relations \cup {<<t, k, o>>, <<o, InverseRelation[k], t>>}

\* The rows are refused when the relation exists, relates a task to itself or
\* would close a cycle of its own kind: the check walks the rows of that kind
\* backwards from t, looking for o.
CreateRelation(t, k, o) ==
    /\ t # o
    /\ <<t, k, o>> \notin relations
    /\ k \in AcyclicKinds => ~Reaches(Edges(k), o, t)
    /\ relations' = relations \cup {<<t, k, o>>, <<o, InverseRelation[k], t>>}

\* Mutant of DeleteRelation: the row of the other direction stays.
DeleteOneRow(t, k, o) ==
    /\ <<t, k, o>> \in relations
    /\ relations' = relations \ {<<t, k, o>>}

DeleteRelation(t, k, o) ==
    /\ <<t, k, o>> \in relations
    /\ relations' = relations \ {<<t, k, o>>, <<o, InverseRelation[k], t>>}

\* Permanently deleting a task takes its relations, in both directions.
PurgeRelations(t) == relations' = {r \in relations : r[1] # t /\ r[3] # t}

RelationInit == relations = {}

RelationNext ==
    \/ \E t, o \in Task, k \in RelationKind : CreateRelation(t, k, o)
    \/ \E t, o \in Task, k \in RelationKind : DeleteRelation(t, k, o)
    \/ \E t \in Task : PurgeRelations(t)

RelationSpec == RelationInit /\ [][RelationNext]_relations

-----------------------------------------------------------------------------
RelationTypeOK == relations \subseteq Row

(***************************************************************************)
(* Every relation can be read from both of its tasks: TaskRelation stores  *)
(* and deletes the two rows together, and everything that walks parents    *)
(* and subtasks depends on it.                                             *)
(***************************************************************************)
Mirrored == \A r \in relations : <<r[3], InverseRelation[r[2]], r[1]>> \in relations

(***************************************************************************)
(* No chain of relations of one ordering kind comes back to where it       *)
(* started, whatever is created and deleted in between.                    *)
(***************************************************************************)
AcyclicPerKind ==
    \A k \in RelationKind \cap AcyclicKinds :
       \A e \in Edges(k) : ~Reaches(Edges(k), e[2], e[1])
=============================================================================
