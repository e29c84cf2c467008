-------------------------- MODULE BranchLag_proofs --------------------------
(***************************************************************************)
(* The cache of the lag watcher never answers wrongly and nobody is told   *)
(* twice of one conflict, for any tasks, paths and scopes and however      *)
(* often workers commit, commands fail and marshal is restarted.           *)
(*                                                                         *)
(* The cache is right because tips and the base only go forward: an entry  *)
(* for a tip or a base that has moved on is never asked for again, and one *)
(* that is still asked for was measured on what still is.                  *)
(***************************************************************************)
EXTENDS BranchLag, SequenceTheorems, TLAPS

Lags == {"current", "owned", "affected", "elsewhere"}
Tree == [Path -> {0, 1}]
Entry == [key : [tip : Nat, base : Nat, scope : ScopeInputs], lag : Lags]

LagTypeOK ==
    /\ base \in Seq(Tree) /\ Len(base) \in Nat \ {0}
    /\ branch \in [Task -> [tip : Nat, from : Nat]]
    /\ scope \in [Task -> ScopeInputs]
    /\ labelled \subseteq Task /\ chips \subseteq Task /\ alarmed \subseteq Task
    /\ record \in [Task -> Lags] /\ flags \in [Task -> Lags] /\ report \in [Task -> Lags]
    /\ cache \in [Task -> Entry \cup {NoEntry}]
    /\ snap \in [labelled : SUBSET Task, scope : [Task -> ScopeInputs], chips : SUBSET Task]
    /\ pinned \in Nat /\ left \subseteq Task
    /\ at \in [task : Task \cup {NoTask}, tip : Nat]
    /\ pc \in {"measure", "label", "announce", "card", "unlabel", "forget"} => at.task \in Task

LEMMA LagForType == \A s, from, to : LagFor(s, from, to) \in Lags
  BY DEF LagFor, Severity, Lags

LEMMA FlipTree == ASSUME NEW f \in Tree, NEW p \in Path PROVE [f EXCEPT ![p] = 1 - @] \in Tree
<1>1. \A x \in {0, 1} : 1 - x \in {0, 1}
  OBVIOUS
<1> DEFINE g == [f EXCEPT ![p] = 1 - @]
<1>2. \A q \in Path : g[q] \in {0, 1}
  BY <1>1 DEF Tree
<1> QED
  BY <1>2 DEF Tree

-----------------------------------------------------------------------------
\* The tables stay typed.
LEMMA TypeInvariant == Spec => []LagTypeOK
<1>1. Init => LagTypeOK
  <2> SUFFICES ASSUME Init PROVE LagTypeOK
    OBVIOUS
  <2>1. [p \in Path |-> 0] \in Tree
    BY DEF Tree
  <2>2. base \in Seq(Tree) /\ Len(base) = 1
    BY <2>1 DEF Init
  <2> QED
    BY <2>2 DEF Init, LagTypeOK, Lags
<1>2. LagTypeOK /\ [Next]_vars => LagTypeOK'
  <2> SUFFICES ASSUME LagTypeOK, [Next]_vars PROVE LagTypeOK'
    OBVIOUS
  <2> USE DEF LagTypeOK, git, board, tick, vars
  <2>1. CASE UNCHANGED vars
    BY <2>1
  <2>2. CASE \E p \in Path : Land(p)
    <3> PICK p \in Path : Land(p)
      BY <2>2
    <3>1. base[Len(base)] \in Tree
      BY ElementOfSeq
    <3>2. [base[Len(base)] EXCEPT ![p] = 1 - @] \in Tree
      BY <3>1, FlipTree
    <3>3. base' \in Seq(Tree) /\ Len(base') = Len(base) + 1
      BY <3>2, AppendProperties DEF Land
    <3> QED
      BY <3>3 DEF Land
  <2>3. CASE \E t \in Task : Commit(t) \/ Rebase(t) \/ TakeUp(t)
    <3>1. PICK t \in Task : Commit(t) \/ Rebase(t) \/ TakeUp(t)
      BY <2>3
    <3>2. CASE Commit(t)
      BY <3>2 DEF Commit, MoveBranch
    <3>3. CASE Rebase(t)
      BY <3>3 DEF Rebase, MoveBranch
    <3>4. CASE TakeUp(t)
      <4>1. branch' \in [Task -> [tip : Nat, from : Nat]]
        <5>1. CASE UNCHANGED branch
          BY <5>1
        <5>2. CASE MoveBranch(t, Len(base))
          BY <5>2 DEF MoveBranch
        <5> QED
          BY <3>4, <5>1, <5>2 DEF TakeUp
      <4> QED
        BY <3>4, <4>1 DEF TakeUp
    <3> QED
      BY <3>1, <3>2, <3>3, <3>4
  <2>4. CASE \E t \in Task : EditScope(t) \/ HandBack(t)
    <3>1. PICK t \in Task : EditScope(t) \/ HandBack(t)
      BY <2>4
    <3>2. CASE EditScope(t)
      BY <3>2 DEF EditScope
    <3>3. CASE HandBack(t)
      BY <3>3 DEF HandBack
    <3> QED
      BY <3>1, <3>2, <3>3
  <2>5. CASE TakeSnapshot \/ PinBase \/ PinFails
    BY <2>5 DEF TakeSnapshot, PinBase, PinFails, Lags
  <2>6. CASE \E t \in Task : UseCache(t)
    <3> PICK t \in Task : UseCache(t)
      BY <2>6
    <3>1. cache[t].lag \in Lags
      BY DEF UseCache, IsCached, Entry
    <3> QED
      BY <3>1 DEF UseCache
  <2>7. CASE \E t \in Task : ResolveTip(t)
    BY <2>7 DEF ResolveTip
  <2>8. CASE Measure
    <3>1. Key(at.task, at.tip) \in [tip : Nat, base : Nat, scope : ScopeInputs]
      BY <2>8 DEF Measure, Key
    <3>2. LagFor(snap.scope[at.task], branch[at.task].from, pinned) \in Lags
      BY LagForType
    <3>3. [key |-> Key(at.task, at.tip),
           lag |-> LagFor(snap.scope[at.task], branch[at.task].from, pinned)] \in Entry
      BY <3>1, <3>2 DEF Entry
    <3> QED
      BY <2>8, <3>2, <3>3 DEF Measure
  <2>9. CASE MeasureFails \/ Measured \/ AllPut \/ TickEnds
    BY <2>9 DEF MeasureFails, Measured, AllPut, TickEnds, Behind
  <2>10. CASE \E t \in Task : Put(t) \/ PutFails(t) \/ Delete(t)
    <3>1. PICK t \in Task : Put(t) \/ PutFails(t) \/ Delete(t)
      BY <2>10
    <3>2. CASE Put(t)
      BY <3>2 DEF Put, Lags
    <3>3. CASE PutFails(t)
      BY <3>3 DEF PutFails, Fault
    <3>4. CASE Delete(t)
      <4>1. record' \in [Task -> Lags]
        BY <3>4 DEF Delete, Lags
      <4> QED
        BY <3>4, <4>1 DEF Delete, Fault
    <3> QED
      BY <3>1, <3>2, <3>3, <3>4
  <2>11. CASE Label \/ Unlabel
    BY <2>11 DEF Label, Unlabel, ApplyLabel, LabelAfter
  <2>12. CASE Announce \/ Card \/ Forget
    BY <2>12 DEF Announce, Card, Forget, Lags
  <2>13. CASE Restart
    BY <2>13 DEF Restart
  <2> QED
    BY <2>1, <2>2, <2>3, <2>4, <2>5, <2>6, <2>7, <2>8, <2>9, <2>10, <2>11, <2>12, <2>13
       DEF Next, Worker, Marshal
<1> QED
  BY <1>1, <1>2, PTL DEF Spec

-----------------------------------------------------------------------------
\* What is cached for the tip and the base there are is what they measure as; what
\* is cached for others is out of reach, for both only go forward.
Measures(t, e) ==
    /\ e.key.tip <= branch[t].tip /\ e.key.base <= Len(base)
    /\ ClaimsPaths(e.key.scope)
    /\ e.key.tip = branch[t].tip /\ e.key.base = Len(base)
          => e.lag = LagFor(e.key.scope, branch[t].from, Len(base))

CacheInv ==
    /\ pinned <= Len(base)
    /\ pc \in {"walk", "measure"} => \A t \in left : ClaimsPaths(snap.scope[t])
    /\ pc = "measure" => at.tip <= branch[at.task].tip /\ ClaimsPaths(snap.scope[at.task])
    /\ \A t \in Task : cache[t] # NoEntry => Measures(t, cache[t])

\* A step that moves neither the base nor the branches.
LEMMA SameGit ==
    ASSUME UNCHANGED git
    PROVE  \A t, e : Measures(t, e)' <=> Measures(t, e)
  BY DEF git, Measures, LagFor, Severity, Moved

LEMMA CacheInvariant == Spec => []CacheInv
<1>1. Init => CacheInv
  BY DEF Init, CacheInv
<1>2. LagTypeOK /\ CacheInv /\ [Next]_vars => CacheInv'
  <2> SUFFICES ASSUME LagTypeOK, CacheInv, [Next]_vars PROVE CacheInv'
    OBVIOUS
  <2> USE DEF tick, vars
  <2>1. CASE UNCHANGED vars
    BY <2>1, SameGit DEF CacheInv, git
  <2>2. CASE \E p \in Path : Land(p)
    <3>1. PICK p \in Path : Land(p)
      BY <2>2
    <3>2. Len(base) \in Nat /\ Len(base') = Len(base) + 1
      BY <3>1, AppendProperties DEF Land, LagTypeOK
    <3>3. \A t \in Task : cache[t] # NoEntry => Measures(t, cache[t])'
      <4> SUFFICES ASSUME NEW t \in Task, cache[t] # NoEntry PROVE Measures(t, cache[t])'
        OBVIOUS
      <4>1. Measures(t, cache[t]) /\ cache[t].key.base \in Nat /\ cache[t].key.tip \in Nat
        BY DEF CacheInv, LagTypeOK, Entry
      <4>2. cache' = cache /\ branch' = branch
        BY <3>1 DEF Land
      <4> QED
        BY <3>2, <4>1, <4>2 DEF Measures
    <3> QED
      BY <3>1, <3>2, <3>3 DEF Land, CacheInv, LagTypeOK
  <2>3. CASE \E t \in Task : Commit(t) \/ Rebase(t) \/ TakeUp(t)
    <3>1. PICK u \in Task : \/ UNCHANGED branch
                            \/ \E from \in Nat : MoveBranch(u, from)
      BY <2>3 DEF Commit, Rebase, TakeUp, LagTypeOK
    <3>2. UNCHANGED <<base, cache, tick>>
      BY <2>3 DEF Commit, Rebase, TakeUp
    <3>3. CASE UNCHANGED branch
      BY <3>2, <3>3, SameGit DEF CacheInv, git
    <3>4. CASE \E from \in Nat : MoveBranch(u, from)
      <4>1. /\ branch[u].tip \in Nat /\ branch'[u].tip = branch[u].tip + 1
            /\ \A t \in Task \ {u} : branch'[t] = branch[t]
        BY <3>4 DEF MoveBranch, LagTypeOK
      <4>2. \A t \in Task : cache[t] # NoEntry => Measures(t, cache[t])'
        <5> SUFFICES ASSUME NEW t \in Task, cache[t] # NoEntry PROVE Measures(t, cache[t])'
          OBVIOUS
        <5>1. Measures(t, cache[t]) /\ cache[t].key.base \in Nat /\ cache[t].key.tip \in Nat
          BY DEF CacheInv, LagTypeOK, Entry
        <5>2. CASE t = u
          BY <3>2, <4>1, <5>1, <5>2 DEF Measures
        <5>3. CASE t # u
          BY <3>2, <4>1, <5>1, <5>3 DEF Measures, LagFor, Severity, Moved
        <5> QED
          BY <5>2, <5>3
      <4>3. pc = "measure" => at.tip <= branch'[at.task].tip
        <5> SUFFICES ASSUME pc = "measure" PROVE at.tip <= branch'[at.task].tip
          OBVIOUS
        <5>1. at.task \in Task /\ at.tip \in Nat /\ at.tip <= branch[at.task].tip
          BY DEF CacheInv, LagTypeOK
        <5>2. CASE at.task = u
          BY <4>1, <5>1, <5>2
        <5>3. CASE at.task # u
          BY <4>1, <5>1, <5>3
        <5> QED
          BY <5>2, <5>3
      <4> QED
        BY <3>2, <4>2, <4>3 DEF CacheInv
    <3> QED
      BY <3>1, <3>3, <3>4
  <2>4. CASE \E t \in Task : EditScope(t) \/ HandBack(t)
    <3>1. UNCHANGED <<git, cache, tick>>
      BY <2>4 DEF EditScope, HandBack
    <3> QED
      BY <3>1, SameGit DEF CacheInv, git
  <2>5. CASE TakeSnapshot \/ PinFails
    <3>1. UNCHANGED <<git, cache, pinned>> /\ pc' \in {"pin", "idle"}
      BY <2>5 DEF TakeSnapshot, PinFails
    <3> QED
      BY <3>1, SameGit DEF CacheInv, git
  <2>6. CASE PinBase
    BY <2>6, SameGit DEF PinBase, CacheInv, LagTypeOK, git
  <2>7. CASE \E t \in Task : UseCache(t)
    <3>1. UNCHANGED <<git, cache, pinned, snap, at, pc>> /\ left' \subseteq left
      BY <2>7 DEF UseCache
    <3> QED
      BY <3>1, SameGit DEF CacheInv, git
  <2>8. CASE \E t \in Task : ResolveTip(t)
    <3>1. PICK t \in Task : ResolveTip(t)
      BY <2>8
    <3>2. UNCHANGED <<git, cache, pinned, snap>> /\ left' \subseteq left /\ pc = "walk" /\ t \in left
      BY <3>1 DEF ResolveTip
    <3>3. at'.task = t /\ at'.tip = branch[t].tip /\ branch[t].tip \in Nat
      BY <3>1 DEF ResolveTip, LagTypeOK
    <3> QED
      BY <3>2, <3>3, SameGit DEF CacheInv, git
  <2>9. CASE Measure
    <3> DEFINE u == at.task
               e == [key |-> Key(u, at.tip), lag |-> LagFor(snap.scope[u], branch[u].from, pinned)]
    <3>1. /\ UNCHANGED <<git, pinned, snap, left, at>> /\ pc = "measure" /\ pc' = "walk"
          /\ cache' = [cache EXCEPT ![u] = e] /\ u \in Task
      BY <2>9 DEF Measure, LagTypeOK
    <3>2. Measures(u, e)
      BY <3>1 DEF CacheInv, Measures, Key
    <3>3. \A t \in Task : cache'[t] # NoEntry => Measures(t, cache'[t])
      BY <3>1, <3>2 DEF CacheInv, LagTypeOK
    <3>4. \A t \in Task : cache'[t] # NoEntry => Measures(t, cache[t])'
      BY <3>1, <3>3, SameGit
    <3> QED
      BY <3>1, <3>4 DEF CacheInv, git
  <2>10. CASE MeasureFails
    BY <2>10, SameGit DEF MeasureFails, CacheInv, git
  <2>11. CASE \/ Measured \/ AllPut \/ TickEnds \/ Label \/ Unlabel \/ Announce \/ Card \/ Forget
              \/ \E t \in Task : Put(t) \/ PutFails(t) \/ Delete(t)
    <3>1. UNCHANGED <<git, cache, pinned>> /\ pc' \notin {"walk", "measure"}
      BY <2>11 DEF Measured, AllPut, TickEnds, Label, Unlabel, ApplyLabel, Announce, Card, Forget,
                   Put, PutFails, Delete
    <3> QED
      BY <3>1, SameGit DEF CacheInv, git
  <2>12. CASE Restart
    <3>1. UNCHANGED <<git, pinned>> /\ pc' = "idle" /\ \A t \in Task : cache'[t] = NoEntry
      BY <2>12 DEF Restart
    <3> QED
      BY <3>1 DEF CacheInv, git
  <2> QED
    BY <2>1, <2>2, <2>3, <2>4, <2>5, <2>6, <2>7, <2>8, <2>9, <2>10, <2>11, <2>12
       DEF Next, Worker, Marshal
<1> QED
  BY <1>1, <1>2, TypeInvariant, PTL DEF Spec

(***************************************************************************)
(* An entry of the cache that the next tick would use says what measuring  *)
(* would say, although the tip in its key and the merge base behind its    *)
(* value were read at different times.                                     *)
(***************************************************************************)
THEOREM CacheIsRight == Spec => []CacheNeverLies
<1>1. CacheInv => CacheNeverLies
  <2> SUFFICES ASSUME CacheInv, NEW t \in Task, cache[t] # NoEntry,
                      cache[t].key = [tip |-> branch[t].tip, base |-> Len(base), scope |-> scope[t]]
               PROVE  cache[t].lag = Truth(t)
    BY DEF CacheNeverLies
  <2>1. /\ cache[t].key.tip = branch[t].tip /\ cache[t].key.base = Len(base)
        /\ cache[t].key.scope = scope[t]
    OBVIOUS
  <2> QED
    BY <2>1 DEF CacheInv, Measures, Truth
<1> QED
  BY <1>1, CacheInvariant, PTL

-----------------------------------------------------------------------------
\* Whoever was told is still flagged, and a tick that publishes has measured them as
\* owned again, unless it did not look at them.
Publishes == {"put", "label", "announce", "card", "clear", "unlabel", "forget"}

CardInv ==
    /\ \A t \in alarmed : flags[t] = "owned"
    /\ pc \in Publishes => \A t \in alarmed : report[t] = "owned" \/ t \notin snap.labelled
    /\ Behind \subseteq snap.labelled
    /\ pc \in {"walk", "measure", "clear", "unlabel", "forget"} => left \subseteq snap.labelled
    /\ pc = "measure" => at.task \in snap.labelled
    /\ pc \in {"put", "label", "announce", "card"} => left \subseteq Behind
    /\ pc \in {"label", "announce", "card"} => at.task \in Behind
    /\ pc \in {"clear", "unlabel", "forget"} => left \cap Behind = {}
    /\ pc \in {"unlabel", "forget"} => at.task \in snap.labelled \ Behind
    /\ pc = "card" => report[at.task] = "owned" /\ flags[at.task] = "owned" /\ at.task \notin alarmed

LEMMA CardInvariant == Spec => []CardInv
<1>1. Init => CardInv
  BY DEF Init, CardInv, Behind, Publishes
<1>2. LagTypeOK /\ CardInv /\ [Next]_vars => CardInv'
  <2> SUFFICES ASSUME LagTypeOK, CardInv, [Next]_vars PROVE CardInv'
    OBVIOUS
  <2> USE DEF tick, vars, CardInv, Behind, Publishes
  <2>1. CASE UNCHANGED vars \/ Worker
    <3>1. UNCHANGED <<flags, tick, alarmed>>
      BY <2>1 DEF Worker, Land, Commit, Rebase, TakeUp, MoveBranch, EditScope, HandBack
    <3> QED
      BY <3>1
  <2>2. CASE TakeSnapshot
    BY <2>2 DEF TakeSnapshot
  <2>3. CASE PinBase
    BY <2>3 DEF PinBase
  <2>4. CASE PinFails \/ MeasureFails \/ TickEnds
    BY <2>4 DEF PinFails, MeasureFails, TickEnds
  <2>5. CASE Restart
    BY <2>5 DEF Restart
  <2>6. CASE \E t \in Task : UseCache(t)
    BY <2>6 DEF UseCache, LagTypeOK
  <2>7. CASE \E t \in Task : ResolveTip(t)
    BY <2>7 DEF ResolveTip
  <2>8. CASE Measure
    <3>1. /\ UNCHANGED <<flags, snap, left, alarmed>> /\ pc = "measure" /\ pc' = "walk"
          /\ \A t \in Task \ {at.task} : report'[t] = report[t]
      BY <2>8 DEF Measure, LagTypeOK
    <3> QED
      BY <3>1
  <2>9. CASE Measured
    BY <2>9 DEF Measured
  <2>10. CASE \E t \in Task : Put(t) \/ PutFails(t)
    <3>1. PICK t \in Task : Put(t) \/ PutFails(t)
      BY <2>10
    <3>2. CASE Put(t)
      <4>1. at'.task = t /\ t \in Behind
        BY <3>2 DEF Put, LagTypeOK
      <4> QED
        BY <3>2, <4>1 DEF Put
    <3>3. CASE PutFails(t)
      BY <3>3 DEF PutFails
    <3> QED
      BY <3>1, <3>2, <3>3
  <2>11. CASE Label \/ Unlabel
    BY <2>11 DEF Label, Unlabel, ApplyLabel
  <2>12. CASE Announce
    <3>1. /\ UNCHANGED <<snap, left, at, report, alarmed>> /\ pc = "announce"
          /\ flags' = [flags EXCEPT ![at.task] = report[at.task]] /\ at.task \in Task
          /\ pc' = IF report[at.task] = "owned" /\ flags[at.task] # "owned" THEN "card" ELSE "put"
      BY <2>12 DEF Announce, LagTypeOK
    <3>2. at.task \in alarmed => report[at.task] = "owned"
      BY <3>1
    <3>3. \A t \in alarmed : flags'[t] = "owned"
      BY <3>1, <3>2 DEF LagTypeOK
    <3> QED
      BY <3>1, <3>3 DEF LagTypeOK
  <2>13. CASE Card
    BY <2>13 DEF Card, LagTypeOK
  <2>14. CASE AllPut
    BY <2>14 DEF AllPut
  <2>15. CASE \E t \in Task : Delete(t)
    BY <2>15 DEF Delete
  <2>16. CASE Forget
    BY <2>16 DEF Forget, LagTypeOK
  <2> QED
    BY <2>1, <2>2, <2>3, <2>4, <2>5, <2>6, <2>7, <2>8, <2>9, <2>10, <2>11, <2>12, <2>13, <2>14,
       <2>15, <2>16 DEF Next, Marshal
<1> QED
  BY <1>1, <1>2, TypeInvariant, PTL DEF Spec

(***************************************************************************)
(* Between two cards for a task some tick measured it as something other   *)
(* than owned: the flag is in the file before the card is sent, and only a *)
(* tick that measured the task takes it away.                              *)
(***************************************************************************)
THEOREM ToldOnce == Spec => NoRepeatedCard
<1>1. CardInv => \A t \in Task : Card => at.task \notin alarmed
  BY DEF CardInv, Card
<1> QED
  BY <1>1, CardInvariant, PTL DEF NoRepeatedCard
=============================================================================
