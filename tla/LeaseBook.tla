----------------------------- MODULE LeaseBook -----------------------------
(***************************************************************************)
(* What the path leases promise, with no board around them: at any moment  *)
(* every lease in a project covers files nobody else's lease covers.       *)
(*                                                                         *)
(* A holding is a path pattern a task holds inside a project.  A step      *)
(* either gives up everything some tasks hold, or gives one task a new     *)
(* set of patterns in one project, all or nothing, in place of whatever it *)
(* held before.  There are no users, clocks, buckets or assignees here:    *)
(* AgentBoard, which has them, is shown to implement this specification.   *)
(***************************************************************************)
EXTENDS Naturals

CONSTANTS
    Task,        \* the tasks
    Project,     \* the projects; holdings never conflict across projects
    Pattern,     \* normalised path patterns
    Overlap      \* the pairs of patterns that can name the same file

VARIABLE held    \* the holdings

Holding == [task : Task, project : Project, pattern : Pattern]

HeldBy(ts) == {h \in held : h.task \in ts}

Init == held = {}

\* Some tasks give up everything they hold.
Give(ts) == held' = held \ HeldBy(ts)

\* Some tasks give up what they hold and, in the same step, one task takes a
\* set of patterns of one project, provided nobody else then overlaps them.
Take(t, p, patterns, ts) ==
    /\ \A h \in held \ HeldBy(ts) :
          (h.task # t /\ h.project = p) =>
             \A q \in patterns : {<<q, h.pattern>>, <<h.pattern, q>>} \cap Overlap = {}
    /\ held' = (held \ HeldBy(ts \cup {t}))
                 \cup [task : {t}, project : {p}, pattern : patterns]

Next ==
    \/ \E ts \in SUBSET Task : Give(ts)
    \/ \E t \in Task, p \in Project, patterns \in SUBSET Pattern, ts \in SUBSET Task :
          Take(t, p, patterns, ts)

Spec == Init /\ [][Next]_held

-----------------------------------------------------------------------------
TypeOK == held \subseteq Holding

(***************************************************************************)
(* Two tasks of the same project never hold overlapping patterns.          *)
(***************************************************************************)
Exclusive ==
    \A h, g \in held : (h.task # g.task /\ h.project = g.project)
                          => <<h.pattern, g.pattern>> \notin Overlap
=============================================================================
