----------------------------- MODULE BranchLag ------------------------------
(***************************************************************************)
(* How far the branch of a claimed task has fallen behind the integration  *)
(* branch: marshal measures it on every tick of its watcher, writes a      *)
(* record per task to the board, keeps the label marshal:lag in step and   *)
(* posts a card when a task becomes certain to conflict.                   *)
(*                                                                         *)
(* Workers commit, rebase, claim and hand back while a tick runs: the      *)
(* snapshot of the board, the tip of the base, the tip of a branch and its *)
(* merge base are read one after the other.  Every task here is open.      *)
(*                                                                         *)
(* The integration branch is a sequence of trees and only grows.  A        *)
(* branch is the tree it left the integration branch at and a tip, a       *)
(* number that every commit, rebase or new branch makes larger.            *)
(***************************************************************************)
EXTENDS Naturals, Sequences

CONSTANTS
    Task, Path,
    ScopeInputs,    \* scopes a task may get: what it claims each path as
    MaxCommits,     \* commits on the integration branch
    MaxTips,        \* moves of one branch
    MaxScopeEdits, MaxHandBacks,
    MaxFaults,      \* git commands and requests that fail
    MaxCrashes,
    NoEntry, NoTask

ASSUME LagAssumption ==
    /\ ScopeInputs \subseteq [Path -> {"owned", "affected", "none"}]
    /\ ScopeInputs # {}
    /\ NoTask \notin Task

VARIABLES
    base,       \* the trees of the integration branch: a version of each path
    branch,     \* per task: its tip, and which tree of the base it left from
    scope,      \* paths_owned and paths_affected
    labelled,   \* tasks with a veans:branch: label
    record,     \* task_lags: the severity, or "current" when there is no row
    chips,      \* tasks with the label marshal:lag
    flags,      \* .marshal/flags.json: the severity announced last
    cache,      \* lagCache, lost with the process
    pc,         \* where the tick is
    snap,       \* its snapshot of the board
    pinned,     \* the base tip it resolved
    left,       \* tasks its present loop has still to visit
    at,         \* the task it is at, with the tip resolved for it
    report,     \* what it measured; "current" also for what it could not measure
    alarmed,    \* tasks with a card since a tick last measured them otherwise
    used        \* how often what is bounded has happened

git == <<base, branch>>
board == <<scope, labelled, record, chips>>
tick == <<pc, snap, pinned, left, at, report>>
vars == <<git, board, flags, cache, tick, alarmed, used>>

-----------------------------------------------------------------------------
Moved(from, to) == {p \in Path : base[from][p] # base[to][p]}

\* severityFor, and MaxLagSeverity over what moved: the worst first.
Severity(s, moved) ==
    CASE \E p \in moved : s[p] = "owned"    -> "owned"
      [] \E p \in moved : s[p] = "affected" -> "affected"
      [] OTHER                              -> "elsewhere"

ClaimsPaths(s) == \E p \in Path : s[p] # "none"

\* lagFor, with the merge base from and the base tip to; the base may be further by now.
LagFor(s, from, to) ==
    IF from \in {to, Len(base)} THEN "current" ELSE Severity(s, Moved(from, to))

\* What the record of a task should say.
Truth(t) ==
    IF ClaimsPaths(scope[t]) THEN LagFor(scope[t], branch[t].from, Len(base)) ELSE "current"

Init ==
    /\ base = <<[p \in Path |-> 0]>>
    /\ branch = [t \in Task |-> [tip |-> 0, from |-> 1]]
    /\ scope \in [Task -> ScopeInputs]
    /\ labelled = Task /\ chips = {} /\ alarmed = {}
    /\ record = [t \in Task |-> "current"]
    /\ flags = [t \in Task |-> "current"]
    /\ cache = [t \in Task |-> NoEntry]
    /\ pc = "idle" /\ pinned = 1 /\ left = {}
    /\ snap = [labelled |-> {}, scope |-> scope, chips |-> {}]
    /\ at = [task |-> NoTask, tip |-> 0]
    /\ report = [t \in Task |-> "current"]
    /\ used = [commits |-> 0, edits |-> 0, handBacks |-> 0, faults |-> 0, crashes |-> 0]

May(what, bound) == used[what] < bound /\ used' = [used EXCEPT ![what] = @ + 1]

Fault == May("faults", MaxFaults)

-----------------------------------------------------------------------------
\* A commit on the integration branch changes a path, or reverts it.
Land(p) ==
    /\ May("commits", MaxCommits)
    /\ base' = Append(base, [base[Len(base)] EXCEPT ![p] = 1 - @])
    /\ UNCHANGED <<branch, board, flags, cache, tick, alarmed>>

MoveBranch(t, from) ==
    /\ branch[t].tip < MaxTips
    /\ branch' = [branch EXCEPT ![t] = [tip |-> branch[t].tip + 1, from |-> from]]

\* A commit leaves the merge base alone, a rebase or a merge of the base does not.
Commit(t) ==
    /\ MoveBranch(t, branch[t].from)
    /\ UNCHANGED <<base, board, flags, cache, tick, alarmed, used>>

Rebase(t) ==
    /\ branch[t].from < Len(base) /\ MoveBranch(t, Len(base))
    /\ UNCHANGED <<base, board, flags, cache, tick, alarmed, used>>

EditScope(t) ==
    /\ May("edits", MaxScopeEdits)
    /\ \E s \in ScopeInputs : scope' = [scope EXCEPT ![t] = s]
    /\ UNCHANGED <<git, labelled, record, chips, flags, cache, tick, alarmed>>

\* The end of veans unclaim.
HandBack(t) ==
    /\ May("handBacks", MaxHandBacks)
    /\ t \in labelled /\ labelled' = labelled \ {t}
    /\ UNCHANGED <<git, scope, record, chips, flags, cache, tick, alarmed>>

\* The end of veans claim, on the branch there is or on a new one.
TakeUp(t) ==
    /\ t \notin labelled /\ labelled' = labelled \cup {t}
    /\ UNCHANGED branch \/ MoveBranch(t, Len(base))
    /\ UNCHANGED <<base, scope, record, chips, flags, cache, tick, alarmed, used>>

Worker ==
    \/ \E p \in Path : Land(p)
    \/ \E t \in Task : Commit(t) \/ Rebase(t) \/ EditScope(t) \/ HandBack(t) \/ TakeUp(t)

-----------------------------------------------------------------------------
(* ComputeLag. *)

TakeSnapshot ==
    /\ pc = "idle" /\ pc' = "pin"
    /\ snap' = [labelled |-> labelled, scope |-> scope, chips |-> chips]
    /\ report' = [t \in Task |-> "current"]
    /\ UNCHANGED <<git, board, flags, cache, pinned, left, at, alarmed, used>>

PinBase ==
    /\ pc = "pin" /\ pc' = "walk"
    /\ pinned' = Len(base)
    /\ left' = {t \in snap.labelled : ClaimsPaths(snap.scope[t])}
    /\ UNCHANGED <<git, board, flags, cache, snap, at, report, alarmed, used>>

\* Without a base the tick gives up.
PinFails ==
    /\ pc = "pin" /\ pc' = "idle"
    /\ Fault
    /\ UNCHANGED <<git, board, flags, cache, snap, pinned, left, at, report, alarmed>>

\* Mutant of Key: the base is looked up again.
KeyOfLiveBase(t, tip) == [tip |-> tip, base |-> Len(base), scope |-> snap.scope[t]]

\* branchTip, baseTip and scopeRevision.
Key(t, tip) == [tip |-> tip, base |-> pinned, scope |-> snap.scope[t]]

\* Mutant of IsCached: scopeRevision is not part of the key.
IsCachedForTips(t, tip) ==
    cache[t] # NoEntry /\ cache[t].key.tip = tip /\ cache[t].key.base = pinned

IsCached(t, tip) == cache[t] # NoEntry /\ cache[t].key = Key(t, tip)

UseCache(t) ==
    /\ pc = "walk" /\ t \in left
    /\ IsCached(t, branch[t].tip)
    /\ report' = [report EXCEPT ![t] = cache[t].lag]
    /\ left' = left \ {t}
    /\ UNCHANGED <<git, board, flags, cache, pc, snap, pinned, at, alarmed, used>>

ResolveTip(t) ==
    /\ pc = "walk" /\ t \in left
    /\ ~ IsCached(t, branch[t].tip)
    /\ at' = [task |-> t, tip |-> branch[t].tip]
    /\ left' = left \ {t}
    /\ pc' = "measure"
    /\ UNCHANGED <<git, board, flags, cache, snap, pinned, report, alarmed, used>>

\* git merge-base and rev-list go by the name of the branch, not by the tip resolved.
Measure ==
    /\ pc = "measure" /\ pc' = "walk"
    /\ LET t == at.task
           lag == LagFor(snap.scope[t], branch[t].from, pinned) IN
          /\ cache' = [cache EXCEPT ![t] = [key |-> Key(t, at.tip), lag |-> lag]]
          /\ report' = [report EXCEPT ![t] = lag]
    /\ UNCHANGED <<git, board, flags, snap, pinned, left, at, alarmed, used>>

\* There is no such branch, or git fails: the task is not in the report.
MeasureFails ==
    /\ pc = "measure" /\ pc' = "walk"
    /\ Fault
    /\ UNCHANGED <<git, board, flags, cache, snap, pinned, left, at, report, alarmed>>

Behind == {t \in Task : report[t] # "current"}

Measured ==
    /\ pc = "walk" /\ left = {} /\ pc' = "put"
    /\ left' = Behind
    /\ alarmed' = alarmed \cap {t \in Task : report[t] = "owned" \/ t \notin snap.labelled}
    /\ UNCHANGED <<git, board, flags, cache, snap, pinned, at, report, used>>

-----------------------------------------------------------------------------
(* PublishLag. *)

\* PutTaskLag; the label and the card come after it.
Put(t) ==
    /\ pc = "put" /\ t \in left /\ left' = left \ {t}
    /\ record' = [record EXCEPT ![t] = report[t]]
    /\ at' = [at EXCEPT !.task = t] /\ pc' = "label"
    /\ UNCHANGED <<git, scope, labelled, chips, flags, cache, snap, pinned, report, alarmed, used>>

\* The board refuses or is away: neither label nor card.
PutFails(t) ==
    /\ pc = "put" /\ t \in left /\ left' = left \ {t}
    /\ Fault
    /\ UNCHANGED <<git, board, flags, cache, pc, snap, pinned, at, report, alarmed>>

\* applyLagLabel trusts the labels of the snapshot, and its errors are dropped.
LabelAfter(t) ==
    IF report[t] = "owned" /\ t \notin snap.chips THEN chips \cup {t}
    ELSE IF report[t] # "owned" /\ t \in snap.chips THEN chips \ {t} ELSE chips

ApplyLabel(next) ==
    /\ \/ chips' = LabelAfter(at.task) /\ UNCHANGED used
       \/ LabelAfter(at.task) # chips /\ UNCHANGED chips /\ Fault
    /\ pc' = next
    /\ UNCHANGED <<git, scope, labelled, record, flags, cache, snap, pinned, left, at, report, alarmed>>

Label == pc = "label" /\ ApplyLabel("announce")

\* flags.Seen: the severity is written down before anybody is told.
Announce ==
    /\ pc = "announce"
    /\ flags' = [flags EXCEPT ![at.task] = report[at.task]]
    /\ pc' = IF report[at.task] = "owned" /\ flags[at.task] # "owned" THEN "card" ELSE "put"
    /\ UNCHANGED <<git, board, cache, snap, pinned, left, at, report, alarmed, used>>

Card ==
    /\ pc = "card" /\ pc' = "put"
    /\ alarmed' = alarmed \cup {at.task}
    /\ UNCHANGED <<git, board, flags, cache, snap, pinned, left, at, report, used>>

\* Then the labelled tasks that the report does not have.
AllPut ==
    /\ pc = "put" /\ left = {} /\ pc' = "clear"
    /\ left' = snap.labelled \ Behind
    /\ UNCHANGED <<git, board, flags, cache, snap, pinned, at, report, alarmed, used>>

\* DeleteTaskLag; when it fails the tick goes on with the label and the flag.
Delete(t) ==
    /\ pc = "clear" /\ t \in left /\ left' = left \ {t}
    /\ \/ record' = [record EXCEPT ![t] = "current"] /\ UNCHANGED used
       \/ UNCHANGED record /\ Fault
    /\ at' = [at EXCEPT !.task = t] /\ pc' = "unlabel"
    /\ UNCHANGED <<git, scope, labelled, chips, flags, cache, snap, pinned, report, alarmed>>

Unlabel == pc = "unlabel" /\ ApplyLabel("forget")

\* flags.Clear.
Forget ==
    /\ pc = "forget" /\ pc' = "clear"
    /\ flags' = [flags EXCEPT ![at.task] = "current"]
    /\ UNCHANGED <<git, board, cache, snap, pinned, left, at, report, alarmed, used>>

TickEnds ==
    /\ pc = "clear" /\ left = {} /\ pc' = "idle"
    /\ UNCHANGED <<git, board, flags, cache, snap, pinned, left, at, report, alarmed, used>>

\* Mutant of Restart: the flags are in memory only.
RestartBlank ==
    /\ May("crashes", MaxCrashes)
    /\ pc' = "idle" /\ left' = {}
    /\ cache' = [t \in Task |-> NoEntry]
    /\ flags' = [t \in Task |-> "current"]
    /\ UNCHANGED <<git, board, snap, pinned, at, report, alarmed>>

\* marshal ends and is started again: the flags are in a file, the cache is not.
Restart ==
    /\ May("crashes", MaxCrashes)
    /\ pc' = "idle" /\ left' = {}
    /\ cache' = [t \in Task |-> NoEntry]
    /\ UNCHANGED <<git, board, flags, snap, pinned, at, report, alarmed>>

Marshal ==
    \/ TakeSnapshot \/ PinBase \/ Measure \/ Measured
    \/ Label \/ Announce \/ Card \/ AllPut \/ Unlabel \/ Forget \/ TickEnds
    \/ \E t \in Task : UseCache(t) \/ ResolveTip(t) \/ Put(t) \/ Delete(t)

Next ==
    \/ Worker \/ Marshal \/ Restart
    \/ PinFails \/ MeasureFails \/ \E t \in Task : PutFails(t)

Spec == Init /\ [][Next]_vars

\* The watcher ticks for ever; nothing is assumed of workers.
FairSpec == Spec /\ WF_vars(Marshal)

-----------------------------------------------------------------------------
(* Properties. *)

\* The cache is keyed on three things, one of which is read before the branch is
\* measured by its name: an entry that the next tick would use says what measuring
\* would say.
CacheNeverLies ==
    \A t \in Task :
        cache[t] # NoEntry /\ cache[t].key = [tip |-> branch[t].tip, base |-> Len(base), scope |-> scope[t]]
            => cache[t].lag = Truth(t)

\* Nobody is told twice of one conflict: between two cards for a task some tick
\* measured it as something else, whatever crashes, failed requests and hand-backs
\* lie between.
NoRepeatedCard == [][\A t \in Task : Card => at.task \notin alarmed]_vars

\* However ticks overlap with commits, rebases, scope edits and claims, and whatever
\* failed on the way: once things rest, the record of a labelled task and its label
\* say what is so.
SettlesToTruth ==
    \A t \in Task :
        <>[](t \in labelled) => <>[](record[t] = Truth(t) /\ (t \in chips <=> Truth(t) = "owned"))
=============================================================================
