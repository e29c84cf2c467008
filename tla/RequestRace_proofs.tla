------------------------- MODULE RequestRace_proofs -------------------------
(***************************************************************************)
(* What overlapping requests keep, for any tasks, users, paths and numbers *)
(* of requests. The statements are first put into a form that says no more *)
(* than what they change (Does, Reads, Writes); the types follow from      *)
(* that. On SQLite the first write takes the only lock there is, and takes *)
(* it only from a snapshot that is still the newest: a request that has    *)
(* written has tables nobody else changes (SingleWriter). Hence what it    *)
(* read stays true of them to the end, statement by statement (DraftIn),   *)
(* and what commits is what the checks allow (Serial). On PostgreSQL the   *)
(* row a claim locks is enough for one winner (Pins), and on every engine  *)
(* a race has one: the last to be turned away sees the tables of the       *)
(* start (Racing).  A parent without an open subtask is closed, or some    *)
(* request that is not yet committed is about to close it (Siblings).  On  *)
(* PostgreSQL the project row, which whoever assigns locks, keeps the      *)
(* files of winners apart (Excluding); on MySQL the bucket a claim reads   *)
(* with its lock tells it whether its snapshot of the assignees is stale   *)
(* (Recalling).                                                            *)
(***************************************************************************)
EXTENDS RequestRace, FiniteSetTheorems, TLAPS

-----------------------------------------------------------------------------
(* Rows and tables.                                                        *)

\* Rows of different kinds or of different tasks are different rows.
LEMMA RowsApart ==
    ASSUME NEW t, NEW o, NEW u, NEW w, NEW p, NEW q
    PROVE  /\ Bucket(t) # Done(o) /\ Bucket(t) # Assigned(o, u) /\ Bucket(t) # Lease(o, u, p)
           /\ Done(t) # Assigned(o, u) /\ Done(t) # Lease(o, u, p)
           /\ Assigned(t, w) # Lease(o, u, p)
           /\ Bucket(t) = Bucket(o) => t = o
           /\ Done(t) = Done(o) => t = o
           /\ Assigned(t, u) = Assigned(o, w) => t = o /\ u = w
           /\ Lease(t, u, p) = Lease(o, w, q) => t = o /\ u = w /\ p = q
BY DEF Bucket, Done, Assigned, Lease

\* The rows there are.
LEMMA RowsAre ==
    ASSUME NEW t \in Task
    PROVE  /\ Bucket(t) \in Rows /\ Done(t) \in Rows
           /\ \A u \in User : Assigned(t, u) \in Rows
           /\ LeaseRows(t) \subseteq Rows
           /\ \A u \in User, p \in Pattern : Lease(t, u, p) \in LeaseRows(t)
BY DEF Rows, LeaseRows

\* A row of the leases of a task is no other row.
LEMMA LeaseRowsApart ==
    ASSUME NEW t, NEW k \in LeaseRows(t)
    PROVE  /\ \A o : k # Bucket(o) /\ k # Done(o)
           /\ \A o, u : k # Assigned(o, u)
           /\ \A o : k \in LeaseRows(o) => o = t
BY RowsApart DEF LeaseRows

\* What one finds in tables with somebody's rows written over them.
LEMMA OverRows ==
    ASSUME NEW f, NEW g
    PROVE  /\ DOMAIN Over(f, g) = DOMAIN f \cup DOMAIN g
           /\ \A k \in DOMAIN f \cup DOMAIN g :
                 Over(f, g)[k] = IF k \in DOMAIN g THEN g[k] ELSE f[k]
           /\ Over(f, g) = [k \in DOMAIN Over(f, g) |-> Over(f, g)[k]]
BY DEF Over

\* Writing twice is writing what was written twice.
LEMMA OverTwice ==
    ASSUME NEW f, NEW g, NEW h
    PROVE  Over(f, Over(g, h)) = Over(Over(f, g), h)
BY DEF Over

-----------------------------------------------------------------------------
(* The state of every request.                                             *)

\* The buckets.
Places == {"todo", "doing", "done"}

\* Rows, some of them, with contents that fit.
IsPart(g) ==
    /\ g = [k \in DOMAIN g |-> g[k]] /\ DOMAIN g \subseteq Rows
    /\ \A t \in Task : Bucket(t) \in DOMAIN g => g[Bucket(t)] \in Places
    /\ \A t \in Task : Done(t) \in DOMAIN g => g[Done(t)] \in BOOLEAN
    \* Nobody is ever unassigned.
    /\ \A t \in Task, u \in User : Assigned(t, u) \in DOMAIN g => g[Assigned(t, u)] = TRUE
    /\ \A t \in Task : \A k \in LeaseRows(t) \cap DOMAIN g : g[k] \in {"none", "active"}

\* A request that has begun and has not ended.
Open(r) == pc[r] \notin {"begin", "committed", "refused"}

\* The statements of a request of each kind, and how it ends.
Lines(kind) == DOMAIN Order[kind] \cup {"commit"} \cup Ended

\* Rows written over tables leave tables.
LEMMA OverTables ==
    ASSUME NEW f, IsTables(f), NEW g, IsPart(g)
    PROVE  IsTables(Over(f, g))
<1>0. DOMAIN f = Rows /\ DOMAIN g \subseteq Rows
  BY DEF IsTables, IsPart
<1>1. /\ DOMAIN Over(f, g) = DOMAIN f \cup DOMAIN g
      /\ \A k \in DOMAIN f \cup DOMAIN g :
            Over(f, g)[k] = IF k \in DOMAIN g THEN g[k] ELSE f[k]
      /\ Over(f, g) = [k \in DOMAIN Over(f, g) |-> Over(f, g)[k]]
  BY OverRows
<1>3. DOMAIN f \cup DOMAIN g = Rows
  BY <1>0
<1>4. \A k \in Rows : Over(f, g)[k] = IF k \in DOMAIN g THEN g[k] ELSE f[k]
  BY <1>1, <1>3
<1>2. ASSUME NEW t \in Task
      PROVE  /\ Over(f, g)[Bucket(t)] \in {"todo", "doing", "done"}
             /\ Over(f, g)[Done(t)] \in BOOLEAN
             /\ \A u \in User : Over(f, g)[Assigned(t, u)] \in BOOLEAN
             /\ \A k \in LeaseRows(t) : Over(f, g)[k] \in {"none", "active", "overdue"}
  <2>1. /\ Bucket(t) \in Rows /\ Done(t) \in Rows
        /\ \A u \in User : Assigned(t, u) \in Rows
        /\ LeaseRows(t) \subseteq Rows
    BY RowsAre
  <2>2. Over(f, g)[Bucket(t)] \in {"todo", "doing", "done"}
    BY <1>4, <2>1 DEF IsTables, IsPart, Places
  <2>3. Over(f, g)[Done(t)] \in BOOLEAN
    BY <1>4, <2>1 DEF IsTables, IsPart
  <2>4. ASSUME NEW u \in User
        PROVE  Over(f, g)[Assigned(t, u)] \in BOOLEAN
    <3>1. /\ f[Assigned(t, u)] \in BOOLEAN
          /\ Assigned(t, u) \in DOMAIN g => g[Assigned(t, u)] = TRUE
      BY DEF IsTables, IsPart
    <3>2. Over(f, g)[Assigned(t, u)] =
             IF Assigned(t, u) \in DOMAIN g THEN g[Assigned(t, u)] ELSE f[Assigned(t, u)]
      BY <1>4, <2>1
    <3> QED
      BY <3>1, <3>2
  <2>5. \A k \in LeaseRows(t) : Over(f, g)[k] \in {"none", "active", "overdue"}
    BY <1>4, <2>1 DEF IsTables, IsPart
  <2> QED
    BY <2>2, <2>3, <2>4, <2>5
<1> QED
  BY <1>1, <1>2, <1>3 DEF IsTables

\* Rows written over rows are rows.
LEMMA OverParts ==
    ASSUME NEW f, IsPart(f), NEW g, IsPart(g)
    PROVE  IsPart(Over(f, g))
<1>0. /\ DOMAIN Over(f, g) = DOMAIN f \cup DOMAIN g
      /\ \A k \in DOMAIN f \cup DOMAIN g :
            Over(f, g)[k] = IF k \in DOMAIN g THEN g[k] ELSE f[k]
      /\ Over(f, g) = [k \in DOMAIN Over(f, g) |-> Over(f, g)[k]]
  BY OverRows
<1>1. /\ \A k \in DOMAIN Over(f, g) : Over(f, g)[k] = IF k \in DOMAIN g THEN g[k] ELSE f[k]
      /\ DOMAIN Over(f, g) = DOMAIN f \cup DOMAIN g
  BY <1>0
<1>2. DOMAIN Over(f, g) \subseteq Rows
  BY <1>1 DEF IsPart
<1>3. ASSUME NEW t \in Task
      PROVE  /\ Bucket(t) \in DOMAIN Over(f, g) => Over(f, g)[Bucket(t)] \in Places
             /\ Done(t) \in DOMAIN Over(f, g) => Over(f, g)[Done(t)] \in BOOLEAN
             /\ \A u \in User : Assigned(t, u) \in DOMAIN Over(f, g) => Over(f, g)[Assigned(t, u)] = TRUE
             /\ \A k \in LeaseRows(t) \cap DOMAIN Over(f, g) : Over(f, g)[k] \in {"none", "active"}
  <2>1. Bucket(t) \in DOMAIN Over(f, g) => Over(f, g)[Bucket(t)] \in Places
    BY <1>1 DEF IsPart
  <2>2. Done(t) \in DOMAIN Over(f, g) => Over(f, g)[Done(t)] \in BOOLEAN
    BY <1>1 DEF IsPart
  <2>3. \A u \in User : Assigned(t, u) \in DOMAIN Over(f, g) => Over(f, g)[Assigned(t, u)] = TRUE
    BY <1>1 DEF IsPart
  <2>4. \A k \in LeaseRows(t) \cap DOMAIN Over(f, g) : Over(f, g)[k] \in {"none", "active"}
    BY <1>1 DEF IsPart
  <2> QED
    BY <2>1, <2>2, <2>3, <2>4
<1> QED
  BY <1>0, <1>2, <1>3 DEF IsPart

\* No rows change nothing.
LEMMA NothingWritten ==
    /\ IsPart(NoRows) /\ DOMAIN NoRows = {}
    /\ \A f : IsTables(f) => Over(f, NoRows) = f
    /\ \A g : IsPart(g) /\ DOMAIN g = {} => g = NoRows
<1>1. DOMAIN NoRows = {} /\ NoRows = [k \in DOMAIN NoRows |-> NoRows[k]]
  BY DEF NoRows
<1>2. IsPart(NoRows)
  BY <1>1 DEF IsPart
<1>3. ASSUME NEW f, IsTables(f)
      PROVE  Over(f, NoRows) = f
  BY <1>1, <1>3 DEF Over, IsTables
<1>4. ASSUME NEW g, IsPart(g), DOMAIN g = {}
      PROVE  g = NoRows
  BY <1>4 DEF IsPart, NoRows
<1> QED
  BY <1>1, <1>2, <1>3, <1>4

\* The lines of each kind, spelt out.
LEMMA LinesAre ==
    /\ Lines("claim") = {"begin", "row", "check", "room", "flag", "move", "assign", "conflicts",
                         "lease", "commit", "committed", "refused"}
    /\ Lines("drag") = {"begin", "row", "room", "check", "assign", "conflicts", "lease", "flag",
                        "move", "commit", "committed", "refused"}
    /\ Lines("finish") = {"begin", "row", "flag", "free", "count", "close", "view", "move",
                          "commit", "committed", "refused"}
    /\ Lines("update") = {"begin", "view", "free", "early", "earlyClose", "row", "flag",
                          "freeAgain", "count", "close", "move", "final", "commit",
                          "committed", "refused"}
    /\ Lines("heartbeat") = {"begin", "beat", "commit", "committed", "refused"}
    /\ Lines("cron") = {"begin", "select", "drop", "commit", "committed", "refused"}
BY DEF Lines, Order, Ended

\* The line after each of them.
LEMMA OrderIs ==
    /\ Order["claim"]["begin"] = "row" /\ Order["claim"]["row"] = "check"
    /\ Order["claim"]["check"] = "room" /\ Order["claim"]["room"] = "flag"
    /\ Order["claim"]["flag"] = "move" /\ Order["claim"]["move"] = "assign"
    /\ Order["claim"]["assign"] = "conflicts" /\ Order["claim"]["conflicts"] = "lease"
    /\ Order["claim"]["lease"] = "commit"
    /\ Order["drag"]["begin"] = "row" /\ Order["drag"]["row"] = "room"
    /\ Order["drag"]["room"] = "check" /\ Order["drag"]["check"] = "assign"
    /\ Order["drag"]["assign"] = "conflicts" /\ Order["drag"]["conflicts"] = "lease"
    /\ Order["drag"]["lease"] = "flag" /\ Order["drag"]["flag"] = "move"
    /\ Order["drag"]["move"] = "commit"
    /\ Order["finish"]["begin"] = "row" /\ Order["finish"]["row"] = "flag"
    /\ Order["finish"]["flag"] = "free" /\ Order["finish"]["free"] = "count"
    /\ Order["finish"]["count"] = "close" /\ Order["finish"]["close"] = "view"
    /\ Order["finish"]["view"] = "move" /\ Order["finish"]["move"] = "commit"
    /\ Order["update"]["begin"] = "view" /\ Order["update"]["view"] = "free"
    /\ Order["update"]["free"] = "early" /\ Order["update"]["early"] = "earlyClose"
    /\ Order["update"]["earlyClose"] = "row" /\ Order["update"]["row"] = "flag"
    /\ Order["update"]["flag"] = "freeAgain" /\ Order["update"]["freeAgain"] = "count"
    /\ Order["update"]["count"] = "close" /\ Order["update"]["close"] = "move"
    /\ Order["update"]["move"] = "final" /\ Order["update"]["final"] = "commit"
    /\ Order["heartbeat"]["begin"] = "beat" /\ Order["heartbeat"]["beat"] = "commit"
    /\ Order["cron"]["begin"] = "select" /\ Order["cron"]["select"] = "drop"
    /\ Order["cron"]["drop"] = "commit"
BY DEF Order

-----------------------------------------------------------------------------
(* The rows that statements write.                                         *)

\* A bucket, a flag, an assignee, and the closing of a parent.
PlaceRow(t, b) == [k \in {Bucket(t)} |-> b]
FlagRow(t, b) == [k \in {Done(t)} |-> b]
OwnerRow(t, u) == [k \in {Assigned(t, u)} |-> TRUE]
ClosedRows(q) == [k \in {Done(q), Bucket(q)} |-> IF k = Done(q) THEN TRUE ELSE "done"]

\* What two tables agree in.
SamePlaces(T, S) == \A x \in Task : S[Bucket(x)] = T[Bucket(x)]
SameFlags(T, S) == \A x \in Task : S[Done(x)] = T[Done(x)]
SameOwners(T, S) == \A x \in Task : Who(S, x) = Who(T, x)
SameLeases(T, S, x) == \A k \in LeaseRows(x) : S[k] = T[k]

\* Rows that are not written stay.
LEMMA Unwritten ==
    ASSUME NEW T, IsTables(T), NEW g
    PROVE  /\ (\A x \in Task : Bucket(x) \notin DOMAIN g) => SamePlaces(T, Over(T, g))
           /\ (\A x \in Task : Done(x) \notin DOMAIN g) => SameFlags(T, Over(T, g))
           /\ (\A x \in Task, u \in User : Assigned(x, u) \notin DOMAIN g) => SameOwners(T, Over(T, g))
           /\ \A x \in Task : LeaseRows(x) \cap DOMAIN g = {} => SameLeases(T, Over(T, g), x)
<1>1. \A k \in Rows : Over(T, g)[k] = IF k \in DOMAIN g THEN g[k] ELSE T[k]
  <2>1. DOMAIN T = Rows
    BY DEF IsTables
  <2>2. \A k \in DOMAIN T \cup DOMAIN g : Over(T, g)[k] = IF k \in DOMAIN g THEN g[k] ELSE T[k]
    BY OverRows
  <2> QED
    BY <2>1, <2>2
<1>2. \A x \in Task : /\ Bucket(x) \in Rows /\ Done(x) \in Rows
                      /\ \A u \in User : Assigned(x, u) \in Rows
                      /\ LeaseRows(x) \subseteq Rows
  BY RowsAre
<1>3. ASSUME \A x \in Task : Bucket(x) \notin DOMAIN g
      PROVE  SamePlaces(T, Over(T, g))
  BY <1>1, <1>2, <1>3 DEF SamePlaces
<1>4. ASSUME \A x \in Task : Done(x) \notin DOMAIN g
      PROVE  SameFlags(T, Over(T, g))
  BY <1>1, <1>2, <1>4 DEF SameFlags
<1>5. ASSUME \A x \in Task, u \in User : Assigned(x, u) \notin DOMAIN g
      PROVE  SameOwners(T, Over(T, g))
  <2> SUFFICES ASSUME NEW x \in Task
               PROVE  Who(Over(T, g), x) = Who(T, x)
    BY DEF SameOwners
  <2>1. \A u \in User : Over(T, g)[Assigned(x, u)] = T[Assigned(x, u)]
    BY <1>1, <1>2, <1>5
  <2> QED
    BY <2>1 DEF Who
<1>6. ASSUME NEW x \in Task, LeaseRows(x) \cap DOMAIN g = {}
      PROVE  SameLeases(T, Over(T, g), x)
  BY <1>1, <1>2, <1>6 DEF SameLeases
<1> QED
  BY <1>3, <1>4, <1>5, <1>6

\* A task put into a bucket.
LEMMA PlaceWritten ==
    ASSUME NEW T, IsTables(T), NEW t \in Task, NEW b \in Places
    PROVE  /\ IsPart(PlaceRow(t, b)) /\ IsTables(Over(T, PlaceRow(t, b)))
           /\ SameFlags(T, Over(T, PlaceRow(t, b))) /\ SameOwners(T, Over(T, PlaceRow(t, b)))
           /\ \A x \in Task : SameLeases(T, Over(T, PlaceRow(t, b)), x)
           /\ \A x \in Task : Over(T, PlaceRow(t, b))[Bucket(x)] = IF x = t THEN b ELSE T[Bucket(x)]
<1> DEFINE g == PlaceRow(t, b)
<1>1. DOMAIN g = {Bucket(t)} /\ g[Bucket(t)] = b /\ g = [k \in DOMAIN g |-> g[k]]
  BY DEF PlaceRow
<1> HIDE DEF g
<1>2. Bucket(t) \in Rows
  BY RowsAre
<1>3. /\ \A x \in Task : Done(x) \notin DOMAIN g
      /\ \A x \in Task, u \in User : Assigned(x, u) \notin DOMAIN g
      /\ \A x \in Task : LeaseRows(x) \cap DOMAIN g = {}
      /\ \A x \in Task : Bucket(x) \in DOMAIN g <=> x = t
  BY <1>1, RowsApart, LeaseRowsApart
<1>4. IsPart(g)
  BY <1>1, <1>2, <1>3 DEF IsPart
<1>5. IsTables(Over(T, g))
  BY <1>4, OverTables
<1>6. \A x \in Task : Over(T, g)[Bucket(x)] = IF x = t THEN b ELSE T[Bucket(x)]
  <2>1. \A k \in DOMAIN T \cup DOMAIN g : Over(T, g)[k] = IF k \in DOMAIN g THEN g[k] ELSE T[k]
    BY OverRows
  <2>2. \A x \in Task : Bucket(x) \in DOMAIN T
    BY RowsAre DEF IsTables
  <2> QED
    BY <1>1, <1>3, <2>1, <2>2
<1>7. /\ SameFlags(T, Over(T, g)) /\ SameOwners(T, Over(T, g))
      /\ \A x \in Task : SameLeases(T, Over(T, g), x)
  BY <1>3, Unwritten
<1> QED
  BY <1>4, <1>5, <1>6, <1>7 DEF g

\* A done flag written.
LEMMA FlagWritten ==
    ASSUME NEW T, IsTables(T), NEW t \in Task, NEW b \in BOOLEAN
    PROVE  /\ IsPart(FlagRow(t, b)) /\ IsTables(Over(T, FlagRow(t, b)))
           /\ SamePlaces(T, Over(T, FlagRow(t, b))) /\ SameOwners(T, Over(T, FlagRow(t, b)))
           /\ \A x \in Task : SameLeases(T, Over(T, FlagRow(t, b)), x)
           /\ \A x \in Task : Over(T, FlagRow(t, b))[Done(x)] <=> IF x = t THEN b ELSE T[Done(x)]
<1> DEFINE g == FlagRow(t, b)
<1>1. DOMAIN g = {Done(t)} /\ g[Done(t)] = b /\ g = [k \in DOMAIN g |-> g[k]]
  BY DEF FlagRow
<1> HIDE DEF g
<1>2. Done(t) \in Rows
  BY RowsAre
<1>3. /\ \A x \in Task : Bucket(x) \notin DOMAIN g
      /\ \A x \in Task, u \in User : Assigned(x, u) \notin DOMAIN g
      /\ \A x \in Task : LeaseRows(x) \cap DOMAIN g = {}
      /\ \A x \in Task : Done(x) \in DOMAIN g <=> x = t
  BY <1>1, RowsApart, LeaseRowsApart
<1>4. IsPart(g)
  BY <1>1, <1>2, <1>3 DEF IsPart
<1>5. IsTables(Over(T, g))
  BY <1>4, OverTables
<1>6. \A x \in Task : Over(T, g)[Done(x)] = IF x = t THEN b ELSE T[Done(x)]
  <2>1. \A k \in DOMAIN T \cup DOMAIN g : Over(T, g)[k] = IF k \in DOMAIN g THEN g[k] ELSE T[k]
    BY OverRows
  <2>2. \A x \in Task : Done(x) \in DOMAIN T
    BY RowsAre DEF IsTables
  <2> QED
    BY <1>1, <1>3, <2>1, <2>2
<1>7. /\ SamePlaces(T, Over(T, g)) /\ SameOwners(T, Over(T, g))
      /\ \A x \in Task : SameLeases(T, Over(T, g), x)
  BY <1>3, Unwritten
<1>8. \A x \in Task : Over(T, g)[Done(x)] <=> IF x = t THEN b ELSE T[Done(x)]
  BY <1>6
<1> QED
  BY <1>4, <1>5, <1>7, <1>8 DEF g

\* Somebody assigned.
LEMMA OwnerWritten ==
    ASSUME NEW T, IsTables(T), NEW t \in Task, NEW u \in User
    PROVE  /\ IsPart(OwnerRow(t, u)) /\ IsTables(Over(T, OwnerRow(t, u)))
           /\ SamePlaces(T, Over(T, OwnerRow(t, u))) /\ SameFlags(T, Over(T, OwnerRow(t, u)))
           /\ \A x \in Task : SameLeases(T, Over(T, OwnerRow(t, u)), x)
           /\ \A x \in Task : Who(Over(T, OwnerRow(t, u)), x) = IF x = t THEN Who(T, t) \cup {u} ELSE Who(T, x)
<1> DEFINE g == OwnerRow(t, u)
<1>1. DOMAIN g = {Assigned(t, u)} /\ g[Assigned(t, u)] = TRUE /\ g = [k \in DOMAIN g |-> g[k]]
  BY DEF OwnerRow
<1> HIDE DEF g
<1>2. Assigned(t, u) \in Rows
  BY RowsAre
<1>3. /\ \A x \in Task : Bucket(x) \notin DOMAIN g /\ Done(x) \notin DOMAIN g
      /\ \A x \in Task : LeaseRows(x) \cap DOMAIN g = {}
      /\ \A x \in Task, w \in User : Assigned(x, w) \in DOMAIN g <=> x = t /\ w = u
  BY <1>1, RowsApart, LeaseRowsApart
<1>4. IsPart(g)
  BY <1>1, <1>2, <1>3 DEF IsPart
<1>5. IsTables(Over(T, g))
  BY <1>4, OverTables
<1>6. ASSUME NEW x \in Task
      PROVE  Who(Over(T, g), x) = IF x = t THEN Who(T, t) \cup {u} ELSE Who(T, x)
  <2>1. \A k \in DOMAIN T \cup DOMAIN g : Over(T, g)[k] = IF k \in DOMAIN g THEN g[k] ELSE T[k]
    BY OverRows
  <2>2. \A w \in User : Assigned(x, w) \in DOMAIN T
    BY RowsAre DEF IsTables
  <2>3. \A w \in User : Over(T, g)[Assigned(x, w)] = IF x = t /\ w = u THEN TRUE ELSE T[Assigned(x, w)]
    BY <1>1, <1>3, <2>1, <2>2
  <2> QED
    BY <2>3 DEF Who
<1>7. /\ SamePlaces(T, Over(T, g)) /\ SameFlags(T, Over(T, g))
      /\ \A x \in Task : SameLeases(T, Over(T, g), x)
  BY <1>3, Unwritten
<1> QED
  BY <1>4, <1>5, <1>6, <1>7 DEF g

\* A parent closed.
LEMMA ClosedWritten ==
    ASSUME NEW T, IsTables(T), NEW q \in Task
    PROVE  /\ IsPart(ClosedRows(q)) /\ IsTables(Over(T, ClosedRows(q)))
           /\ SameOwners(T, Over(T, ClosedRows(q)))
           /\ \A x \in Task : SameLeases(T, Over(T, ClosedRows(q)), x)
           /\ \A x \in Task : Over(T, ClosedRows(q))[Done(x)] <=> T[Done(x)] \/ x = q
           /\ \A x \in Task : Over(T, ClosedRows(q))[Bucket(x)] = IF x = q THEN "done" ELSE T[Bucket(x)]
<1> DEFINE g == ClosedRows(q)
<1>0. Bucket(q) # Done(q)
  BY RowsApart
<1>1. /\ DOMAIN g = {Done(q), Bucket(q)} /\ g[Done(q)] = TRUE /\ g[Bucket(q)] = "done"
      /\ g = [k \in DOMAIN g |-> g[k]]
  BY <1>0 DEF ClosedRows
<1> HIDE DEF g
<1>2. Bucket(q) \in Rows /\ Done(q) \in Rows
  BY RowsAre
<1>3. /\ \A x \in Task, u \in User : Assigned(x, u) \notin DOMAIN g
      /\ \A x \in Task : LeaseRows(x) \cap DOMAIN g = {}
      /\ \A x \in Task : (Bucket(x) \in DOMAIN g <=> x = q) /\ (Done(x) \in DOMAIN g <=> x = q)
  BY <1>1, RowsApart, LeaseRowsApart
<1>4. IsPart(g)
  BY <1>1, <1>2, <1>3 DEF IsPart, Places
<1>5. IsTables(Over(T, g))
  BY <1>4, OverTables
<1>6. ASSUME NEW x \in Task
      PROVE  /\ Over(T, g)[Done(x)] <=> T[Done(x)] \/ x = q
             /\ Over(T, g)[Bucket(x)] = IF x = q THEN "done" ELSE T[Bucket(x)]
  <2>1. \A k \in DOMAIN T \cup DOMAIN g : Over(T, g)[k] = IF k \in DOMAIN g THEN g[k] ELSE T[k]
    BY OverRows
  <2>2. Bucket(x) \in DOMAIN T /\ Done(x) \in DOMAIN T
    BY RowsAre DEF IsTables
  <2>3. Over(T, g)[Bucket(x)] = IF x = q THEN "done" ELSE T[Bucket(x)]
    BY <1>1, <1>3, <2>1, <2>2
  <2>4. Over(T, g)[Done(x)] = IF x = q THEN TRUE ELSE T[Done(x)]
    BY <1>1, <1>3, <2>1, <2>2
  <2> QED
    BY <2>3, <2>4
<1>7. SameOwners(T, Over(T, g)) /\ \A x \in Task : SameLeases(T, Over(T, g), x)
  BY <1>3, Unwritten
<1> QED
  BY <1>4, <1>5, <1>6, <1>7 DEF g

\* Rows of leases are rows.
LEMMA LeasePart ==
    ASSUME NEW t \in Task, NEW g, g = [k \in DOMAIN g |-> g[k]],
           DOMAIN g \subseteq LeaseRows(t), \A k \in DOMAIN g : g[k] \in {"none", "active"}
    PROVE  IsPart(g)
<1>1. LeaseRows(t) \subseteq Rows
  BY RowsAre
<1>2. /\ \A x \in Task : Bucket(x) \notin DOMAIN g /\ Done(x) \notin DOMAIN g
      /\ \A x \in Task, u \in User : Assigned(x, u) \notin DOMAIN g
  BY LeaseRowsApart
<1> QED
  BY <1>1, <1>2 DEF IsPart

\* Leases of one task written.
LEMMA LeasesWritten ==
    ASSUME NEW T, IsTables(T), NEW t \in Task, NEW g, g = [k \in DOMAIN g |-> g[k]],
           DOMAIN g \subseteq LeaseRows(t), \A k \in DOMAIN g : g[k] \in {"none", "active"}
    PROVE  /\ IsPart(g) /\ IsTables(Over(T, g))
           /\ SamePlaces(T, Over(T, g)) /\ SameFlags(T, Over(T, g)) /\ SameOwners(T, Over(T, g))
           /\ \A x \in Task \ {t} : SameLeases(T, Over(T, g), x)
           /\ \A k \in LeaseRows(t) : Over(T, g)[k] = IF k \in DOMAIN g THEN g[k] ELSE T[k]
<1>1. LeaseRows(t) \subseteq Rows
  BY RowsAre
<1>2. /\ \A x \in Task : Bucket(x) \notin DOMAIN g /\ Done(x) \notin DOMAIN g
      /\ \A x \in Task, u \in User : Assigned(x, u) \notin DOMAIN g
  BY LeaseRowsApart
<1>3. \A x \in Task \ {t} : LeaseRows(x) \cap DOMAIN g = {}
  BY LeaseRowsApart
<1>4. IsPart(g)
  BY LeasePart
<1>5. IsTables(Over(T, g))
  BY <1>4, OverTables
<1>6. \A k \in LeaseRows(t) : Over(T, g)[k] = IF k \in DOMAIN g THEN g[k] ELSE T[k]
  <2>1. \A k \in DOMAIN T \cup DOMAIN g : Over(T, g)[k] = IF k \in DOMAIN g THEN g[k] ELSE T[k]
    BY OverRows
  <2> QED
    BY <1>1, <2>1 DEF IsTables
<1>7. SamePlaces(T, Over(T, g)) /\ SameFlags(T, Over(T, g)) /\ SameOwners(T, Over(T, g))
  BY <1>2, Unwritten
<1>8. \A x \in Task \ {t} : SameLeases(T, Over(T, g), x)
  BY <1>3, Unwritten
<1> QED
  BY <1>4, <1>5, <1>6, <1>7, <1>8

\* The rows "there" deleted, and those of "fresh" inserted.
Replaced(there, fresh) == Over([k \in there |-> "none"], [k \in fresh |-> "active"])

\* Rows of leases deleted and inserted.
LEMMA ReplacedRows ==
    ASSUME NEW there, NEW fresh
    PROVE  /\ Replaced(there, fresh) = [k \in DOMAIN Replaced(there, fresh) |-> Replaced(there, fresh)[k]]
           /\ DOMAIN Replaced(there, fresh) = there \cup fresh
           /\ \A k \in there \cup fresh :
                 Replaced(there, fresh)[k] = IF k \in fresh THEN "active" ELSE "none"
BY DEF Replaced, Over

-----------------------------------------------------------------------------
(* Types.                                                                  *)

\* Where a request can be.
Line == UNION {Lines(kind) : kind \in Kinds}

\* Values fit, and a request is at a statement of its kind. On PostgreSQL each
\* statement reads the committed tables: only elsewhere is there a snapshot.
RaceTypeOK ==
    /\ engine \in {"sqlite", "postgres", "mysql"} /\ limit \in Nat
    /\ input \in [Request -> Input]
    /\ pc \in [Request -> Line] /\ \A r \in Request : pc[r] \in Lines(input[r].kind)
    /\ found \in [Request -> Places] /\ joins \in [Request -> BOOLEAN]
    /\ holder \in [Request -> User] /\ noted \in [Request -> SUBSET Task]
    /\ DOMAIN locks = Lockable /\ behind \subseteq Request
    /\ DOMAIN snapshot = Request /\ DOMAIN own = Request
    /\ IsTables(db)
    /\ \A r \in Request : IsPart(own[r])
    /\ \A r \in Request : Open(r) /\ engine # "postgres" => IsTables(snapshot[r])

\* The tables as a request has them.
Draft(r) == Over(snapshot[r], own[r])

\* Who has not begun has read nothing and written nothing.
Untouched(r) == pc[r] = "begin" => ~joins[r] /\ noted[r] = {}

(* The single writer of SQLite.                                            *)

\* Who has the database locked.
Alone == locks[<<"database">>]

\* Who has written has the database locked, and nobody else has committed since it began.
SingleWriter ==
    /\ Alone \in Request \cup {Nobody}
    /\ \A r \in Request :
         /\ own[r] # NoRows => Alone = r
         /\ Alone = r => Open(r) /\ r \notin behind
         /\ Open(r) /\ r \notin behind => snapshot[r] = db

-----------------------------------------------------------------------------
(* What a statement does to the database.                                  *)

\* Nothing is written; locks may be taken, but on SQLite there are none for
\* readers.
Reads(r) ==
    /\ UNCHANGED <<db, snapshot, behind, own>> /\ DOMAIN locks' = DOMAIN locks
    /\ engine = "sqlite" => UNCHANGED locks

\* On SQLite a writer has the database to itself, and an old snapshot cannot get it.
Writes(r, g) ==
    /\ IsPart(g)
    /\ UNCHANGED <<db, snapshot, behind>> /\ DOMAIN locks' = DOMAIN locks
    /\ own' = [own EXCEPT ![r] = Over(@, g)]
    /\ engine = "sqlite" => /\ Alone \in {Nobody, r} /\ Alone' = r
                            /\ r \in behind => Alone = r

\* A statement that leaves the database alone only reads.
LEMMA IdleReads ==
    ASSUME NEW r, UNCHANGED database
    PROVE  Reads(r)
BY DEF Reads, database

\* So does one that locks.
LEMMA LockReads ==
    ASSUME RaceTypeOK, NEW r, NEW row, LockOnly(r, row)
    PROVE  Reads(r)
<1>1. CASE engine = "sqlite"
  BY <1>1, IdleReads DEF LockOnly
<1>2. CASE engine # "sqlite"
  <2>1. locks' = [locks EXCEPT ![LockFor(row)] = r] /\ UNCHANGED <<db, snapshot, behind, own>>
    BY <1>2 DEF LockOnly, Lock
  <2> QED
    BY <1>2, <2>1 DEF Reads
<1> QED
  BY <1>1, <1>2

\* One that writes rows writes.
LEMMA WriteWrites ==
    ASSUME RaceTypeOK, NEW r \in Request, NEW row, NEW g, IsPart(g), Write(r, row, g)
    PROVE  Writes(r, g)
<1>1. <<"database">> \in DOMAIN locks
  BY DEF RaceTypeOK, Lockable
<1>2. /\ own' = [own EXCEPT ![r] = Over(@, g)]
      /\ UNCHANGED <<db, snapshot, behind>> /\ CanLock(r, row)
      /\ locks' = [locks EXCEPT ![LockFor(row)] = r]
  BY DEF Write, Lock
<1>3. DOMAIN locks' = DOMAIN locks
  BY <1>2
<1>4. ASSUME engine = "sqlite"
      PROVE  /\ Alone \in {Nobody, r} /\ Alone' = r
             /\ r \in behind => Alone = r
  <2>1. LockFor(row) = <<"database">>
    BY <1>4 DEF LockFor
  <2>2. locks' = [locks EXCEPT ![<<"database">>] = r]
    BY <1>2, <2>1
  <2>3. Alone' = r
    BY <1>1, <2>2 DEF Alone
  <2> QED
    BY <1>2, <1>4, <2>1, <2>3 DEF CanLock, Alone
<1> QED
  BY <1>2, <1>3, <1>4 DEF Writes

\* The leases of task t replaced by the rows of "fresh".
Refills(r, t, fresh) == Writes(r, Replaced(Leased(Newest(r), t), fresh))

\* Replacing the leases of a task writes rows of these leases.
LEMMA ReplacePart ==
    ASSUME NEW t \in Task, NEW there \in SUBSET LeaseRows(t), NEW fresh \in SUBSET LeaseRows(t)
    PROVE  IsPart(Replaced(there, fresh))
<1> DEFINE g == Replaced(there, fresh)
<1>1. /\ g = [k \in DOMAIN g |-> g[k]] /\ DOMAIN g = there \cup fresh
      /\ \A k \in there \cup fresh : g[k] = IF k \in fresh THEN "active" ELSE "none"
  BY ReplacedRows
<1>2. DOMAIN g \subseteq LeaseRows(t) /\ \A k \in DOMAIN g : g[k] \in {"none", "active"}
  BY <1>1
<1> HIDE DEF g
<1>3. IsPart(g)
  BY <1>1, <1>2, LeasePart
<1> QED
  BY <1>3 DEF g

\* ReplaceLeases on one task.
LEMMA ReplaceWrites ==
    ASSUME RaceTypeOK, NEW r \in Request, NEW t \in Task, NEW fresh \in SUBSET LeaseRows(t),
           ReplaceLeases(r, {t}, [k \in fresh |-> "active"])
    PROVE  Refills(r, t, fresh)
<1> DEFINE there == Leased(Newest(r), t)
           g == Replaced(there, fresh)
<1>1. UNION {Leased(Newest(r), x) : x \in {t}} = there
  OBVIOUS
<1>2. IsPart(g)
  <2>1. there \in SUBSET LeaseRows(t)
    BY DEF Leased
  <2> QED
    BY <2>1, ReplacePart
<1>3. IF engine = "sqlite" \/ there # {} THEN \E x \in {t} : Write(r, <<"leases", x>>, g)
      ELSE own' = [own EXCEPT ![r] = Over(@, g)] /\ UNCHANGED <<db, snapshot, behind, locks>>
  BY <1>1 DEF ReplaceLeases, Replaced
<1> HIDE DEF g, there
<1>4. CASE Write(r, <<"leases", t>>, g)
  BY <1>2, <1>4, WriteWrites DEF Refills, g, there
<1>5. CASE engine # "sqlite" /\ own' = [own EXCEPT ![r] = Over(@, g)]
           /\ UNCHANGED <<db, snapshot, behind, locks>>
  <2>1. Writes(r, g)
    BY <1>2, <1>5 DEF Writes
  <2> QED
    BY <2>1 DEF Refills, g, there
<1> QED
  BY <1>3, <1>4, <1>5

\* Releasing inserts nothing.
LEMMA NoneFresh == NoRows = [k \in {} |-> "active"]
BY DEF NoRows

\* What is known of a request.
LEMMA InputTyped ==
    ASSUME RaceTypeOK, NEW r \in Request
    PROVE  /\ input[r] \in Input /\ input[r].kind \in Kinds
           /\ input[r].task \in Task /\ input[r].user \in User
           /\ pc[r] \in Lines(input[r].kind)
           /\ found[r] \in Places /\ joins[r] \in BOOLEAN /\ holder[r] \in User
           /\ noted[r] \in SUBSET Task /\ IsPart(own[r])
BY DEF RaceTypeOK, Input

\* What a request reads are tables.
LEMMA SeesTyped ==
    ASSUME RaceTypeOK, NEW r \in Request
    PROVE  /\ IsTables(Newest(r))
           /\ Open(r) => IsTables(Sees(r))
           /\ Open(r) /\ engine # "postgres" => IsTables(snapshot[r]) /\ Sees(r) = Draft(r)
<1>1. IsPart(own[r]) /\ IsTables(db)
  BY DEF RaceTypeOK
<1>2. IsTables(Newest(r))
  BY <1>1, OverTables DEF Newest
<1>3. ASSUME Open(r), engine # "postgres"
      PROVE  IsTables(snapshot[r]) /\ IsTables(Draft(r)) /\ Sees(r) = Draft(r)
  <2>1. IsTables(snapshot[r])
    BY <1>3 DEF RaceTypeOK
  <2>2. IsTables(Draft(r))
    BY <1>1, <2>1, OverTables DEF Draft
  <2> QED
    BY <1>3, <2>1, <2>2 DEF Sees, Draft
<1>4. engine = "postgres" => Sees(r) = Newest(r)
  BY DEF Sees
<1> QED
  BY <1>2, <1>3, <1>4

-----------------------------------------------------------------------------
(* From statement to statement.                                            *)

\* The statements of each kind.
LEMMA StatementsAre ==
    /\ DOMAIN Order["claim"] = {"begin", "row", "check", "room", "flag", "move", "assign", "conflicts",
                                "lease"}
    /\ DOMAIN Order["drag"] = {"begin", "row", "room", "check", "assign", "conflicts", "lease", "flag",
                               "move"}
    /\ DOMAIN Order["finish"] = {"begin", "row", "flag", "free", "count", "close", "view", "move"}
    /\ DOMAIN Order["update"] = {"begin", "view", "free", "early", "earlyClose", "row", "flag",
                                 "freeAgain", "count", "close", "move", "final"}
    /\ DOMAIN Order["heartbeat"] = {"begin", "beat"}
    /\ DOMAIN Order["cron"] = {"begin", "select", "drop"}
BY DEF Order

\* A statement is followed by one of the same handler.
LEMMA NextLine ==
    ASSUME NEW kind \in Kinds, NEW l \in Lines(kind), l \notin {"commit"} \cup Ended
    PROVE  Order[kind][l] \in Lines(kind)
<1>1. l \in DOMAIN Order[kind]
  BY DEF Lines
<1>2. CASE kind = "claim"
  BY <1>1, <1>2, StatementsAre, LinesAre, OrderIs
<1>3. CASE kind = "drag"
  BY <1>1, <1>3, StatementsAre, LinesAre, OrderIs
<1>4. CASE kind = "finish"
  BY <1>1, <1>4, StatementsAre, LinesAre, OrderIs
<1>5. CASE kind = "update"
  BY <1>1, <1>5, StatementsAre, LinesAre, OrderIs
<1>6. CASE kind = "heartbeat"
  BY <1>1, <1>6, StatementsAre, LinesAre, OrderIs
<1>7. CASE kind = "cron"
  BY <1>1, <1>7, StatementsAre, LinesAre, OrderIs
<1> QED
  BY <1>2, <1>3, <1>4, <1>5, <1>6, <1>7 DEF Kinds

\* Request r goes to line l of its handler.
Moved(r, l) == l \in Lines(input[r].kind) /\ Goto(r, l)

\* Whoever proceeds goes to the next line.
LEMMA Proceeds ==
    ASSUME RaceTypeOK, NEW r \in Request, pc[r] \notin {"commit", "committed", "refused"}, Proceed(r)
    PROVE  Moved(r, Order[input[r].kind][pc[r]])
BY InputTyped, NextLine DEF Proceed, Moved, Ended

\* The types survive a statement that changes the database as statements
\* do and reads what is well typed.
LEMMA StatementTyped ==
    ASSUME RaceTypeOK, NEW r \in Request, Open(r), UNCHANGED request, \E l : Moved(r, l),
           found' \in [Request -> Places], joins' \in [Request -> BOOLEAN],
           holder' \in [Request -> User], noted' \in [Request -> SUBSET Task],
           Reads(r) \/ \E g : Writes(r, g)
    PROVE  RaceTypeOK'
<1>1. PICK l \in Lines(input[r].kind) : pc' = [pc EXCEPT ![r] = l]
  BY DEF Moved, Goto
<1>2. l \in Line
  BY InputTyped DEF Line
<1>3. pc' \in [Request -> Line] /\ \A q \in Request : pc'[q] \in Lines(input[q].kind)
  BY <1>1, <1>2 DEF RaceTypeOK
<1>4. \A q \in Request : Open(q)' => Open(q)
  BY <1>1 DEF RaceTypeOK, Open
<1>5. /\ UNCHANGED <<db, snapshot, behind>> /\ DOMAIN locks' = DOMAIN locks
      /\ DOMAIN own' = Request /\ \A q \in Request : IsPart(own'[q])
  <2>1. CASE Reads(r)
    BY <2>1 DEF Reads, RaceTypeOK
  <2>2. CASE \E g : Writes(r, g)
    <3>1. PICK g : Writes(r, g)
      BY <2>2
    <3>2. own' = [own EXCEPT ![r] = Over(own[r], g)] /\ IsPart(g)
      BY <3>1 DEF Writes
    <3>3. IsPart(Over(own[r], g))
      BY <3>2, InputTyped, OverParts
    <3>4. DOMAIN own' = Request /\ \A q \in Request : own'[q] = IF q = r THEN Over(own[r], g) ELSE own[q]
      BY <3>2 DEF RaceTypeOK
    <3>5. \A q \in Request : IsPart(own'[q])
      BY <3>3, <3>4 DEF RaceTypeOK
    <3> QED
      BY <3>1, <3>4, <3>5 DEF Writes
  <2> QED
    BY <2>1, <2>2
<1>6. UNCHANGED <<engine, limit, input>>
  BY DEF request
<1>7. \A q \in Request : Open(q)' /\ engine' # "postgres" => IsTables(snapshot'[q])
  BY <1>4, <1>5, <1>6 DEF RaceTypeOK
<1>8. /\ engine' \in {"sqlite", "postgres", "mysql"} /\ limit' \in Nat /\ input' \in [Request -> Input]
      /\ DOMAIN locks' = Lockable /\ behind' \subseteq Request /\ DOMAIN snapshot' = Request
      /\ IsTables(db')
  BY <1>5, <1>6 DEF RaceTypeOK
<1>9. \A q \in Request : pc'[q] \in Lines(input'[q].kind)
  BY <1>3, <1>6
<1> QED
  BY <1>3, <1>5, <1>7, <1>8, <1>9 DEF RaceTypeOK

\* A request that is turned away leaves the types alone.
LEMMA RefuseTyped ==
    ASSUME RaceTypeOK, NEW r \in Request, Refuse(r)
    PROVE  RaceTypeOK'
<1>1. /\ pc' = [pc EXCEPT ![r] = "refused"]
      /\ own' = [own EXCEPT ![r] = NoRows] /\ snapshot' = [snapshot EXCEPT ![r] = NoRows]
      /\ locks' = [k \in DOMAIN locks |-> IF locks[k] = r THEN Nobody ELSE locks[k]]
      /\ UNCHANGED <<db, behind>> /\ UNCHANGED <<engine, limit, input, found, joins, holder, noted>>
  BY DEF Refuse, Goto, Rollback, Unlocked, request, reading
<1>2. "refused" \in Lines(input[r].kind) /\ "refused" \in Line
  BY InputTyped DEF Lines, Ended, Line
<1>3. pc' \in [Request -> Line] /\ \A q \in Request : pc'[q] \in Lines(input[q].kind)
  BY <1>1, <1>2 DEF RaceTypeOK
<1>4. \A q \in Request : Open(q)' => Open(q) /\ q # r
  BY <1>1 DEF RaceTypeOK, Open
<1>5. \A q \in Request : Open(q)' /\ engine' # "postgres" => IsTables(snapshot'[q])
  BY <1>1, <1>4 DEF RaceTypeOK
<1>6. DOMAIN own' = Request /\ \A q \in Request : IsPart(own'[q])
  BY <1>1, NothingWritten DEF RaceTypeOK
<1>7. DOMAIN locks' = Lockable /\ DOMAIN snapshot' = Request
  BY <1>1 DEF RaceTypeOK
<1>8. \A q \in Request : pc'[q] \in Lines(input'[q].kind)
  BY <1>1, <1>3
<1>9. /\ engine' \in {"sqlite", "postgres", "mysql"} /\ limit' \in Nat
      /\ input' \in [Request -> Input] /\ found' \in [Request -> Places]
      /\ joins' \in [Request -> BOOLEAN] /\ holder' \in [Request -> User]
      /\ noted' \in [Request -> SUBSET Task] /\ behind' \subseteq Request /\ IsTables(db')
  BY <1>1 DEF RaceTypeOK
<1> QED
  BY <1>3, <1>5, <1>6, <1>7, <1>8, <1>9 DEF RaceTypeOK

-----------------------------------------------------------------------------
(* What each statement does.                                               *)

\* Request r goes to line l with these things in hand.
Does(r, l, f, j, h, n) ==
    /\ Moved(r, l) /\ UNCHANGED request
    /\ found' = [found EXCEPT ![r] = f] /\ joins' = [joins EXCEPT ![r] = j]
    /\ holder' = [holder EXCEPT ![r] = h] /\ noted' = [noted EXCEPT ![r] = n]

\* What the other requests have is theirs.
Apiece(r) ==
    \A q \in Request \ {r} :
       /\ pc'[q] = pc[q] /\ found'[q] = found[q] /\ joins'[q] = joins[q]
       /\ holder'[q] = holder[q] /\ noted'[q] = noted[q]
       /\ own'[q] = own[q] /\ snapshot'[q] = snapshot[q]

\* A statement changes what its request has and keeps the types.
LEMMA DoesTyped ==
    ASSUME RaceTypeOK, NEW r \in Request, Open(r), NEW l,
           NEW f \in Places, NEW j \in BOOLEAN, NEW h \in User, NEW n \in SUBSET Task,
           Does(r, l, f, j, h, n), Reads(r) \/ \E g : Writes(r, g)
    PROVE  /\ RaceTypeOK' /\ Apiece(r)
           /\ pc'[r] = l /\ found'[r] = f /\ (joins'[r] <=> j) /\ holder'[r] = h /\ noted'[r] = n
           /\ UNCHANGED <<engine, limit, input, db, snapshot, behind>>
<1>1. /\ found' \in [Request -> Places] /\ joins' \in [Request -> BOOLEAN]
      /\ holder' \in [Request -> User] /\ noted' \in [Request -> SUBSET Task]
  BY DEF RaceTypeOK, Does
<1>2. RaceTypeOK'
  BY <1>1, StatementTyped DEF Does
<1>3. pc'[r] = l /\ found'[r] = f /\ holder'[r] = h /\ noted'[r] = n
  BY DEF Does, Moved, Goto, RaceTypeOK
<1>4. joins'[r] <=> j
  <2>1. joins' = [joins EXCEPT ![r] = j] /\ DOMAIN joins = Request
    BY DEF Does, RaceTypeOK
  <2>2. joins'[r] = j
    BY <2>1
  <2> QED
    BY <2>2
<1>5. ASSUME NEW q \in Request \ {r}
      PROVE  /\ pc'[q] = pc[q] /\ found'[q] = found[q] /\ joins'[q] = joins[q]
             /\ holder'[q] = holder[q] /\ noted'[q] = noted[q]
             /\ own'[q] = own[q] /\ snapshot'[q] = snapshot[q]
  <2>1. pc'[q] = pc[q]
    BY DEF Does, Moved, Goto, RaceTypeOK
  <2>2. found'[q] = found[q] /\ holder'[q] = holder[q] /\ noted'[q] = noted[q]
    BY DEF Does, RaceTypeOK
  <2>3. joins'[q] = joins[q]
    BY DEF Does, RaceTypeOK
  <2>4. own'[q] = own[q] /\ snapshot'[q] = snapshot[q]
    BY DEF Reads, Writes, RaceTypeOK
  <2> QED
    BY <2>1, <2>2, <2>3, <2>4
<1>6. UNCHANGED <<engine, limit, input, db, snapshot, behind>>
  BY DEF Does, request, Reads, Writes
<1> QED
  BY <1>2, <1>3, <1>4, <1>5, <1>6 DEF Apiece

\* What is in hand may stay as it is.
LEMMA InHandStays ==
    ASSUME RaceTypeOK, NEW r \in Request
    PROVE  /\ UNCHANGED found => found' = [found EXCEPT ![r] = found[r]]
           /\ UNCHANGED joins => joins' = [joins EXCEPT ![r] = joins[r]]
           /\ UNCHANGED holder => holder' = [holder EXCEPT ![r] = holder[r]]
           /\ UNCHANGED noted => noted' = [noted EXCEPT ![r] = noted[r]]
BY DEF RaceTypeOK

\* A statement that changes nothing in hand.
LEMMA HandsOff ==
    ASSUME RaceTypeOK, NEW r \in Request, NEW l, Moved(r, l), UNCHANGED <<request, reading>>
    PROVE  Does(r, l, found[r], joins[r], holder[r], noted[r])
BY InHandStays DEF Does, reading

\* A claim reads the row it pins.
LEMMA PinDoes ==
    ASSUME RaceTypeOK, NEW r \in Request, PinRow(r)
    PROVE  /\ Open(r) /\ pc[r] = "row" /\ input[r].kind = "claim" /\ Reads(r)
           /\ \E b \in Places :
                 /\ Does(r, "check", b, joins[r], holder[r], noted[r])
                 /\ engine = "sqlite" => b = Draft(r)[Bucket(input[r].task)]
<1> DEFINE row == Bucket(input[r].task)
           b == IF engine = "sqlite" THEN Sees(r)[row] ELSE Newest(r)[row]
<1>1. /\ pc[r] = "row" /\ input[r].kind = "claim" /\ LockOnly(r, row)
      /\ found' = [found EXCEPT ![r] = b] /\ Proceed(r)
      /\ UNCHANGED <<request, joins, holder, noted>>
  BY DEF PinRow
<1>2. Open(r)
  BY <1>1 DEF Open
<1>3. Moved(r, "check")
  BY <1>1, Proceeds, OrderIs
<1>4. Reads(r)
  BY <1>1, LockReads
<1>5. b \in Places
  BY <1>2, SeesTyped, InputTyped DEF IsTables, Places
<1>6. engine = "sqlite" => b = Draft(r)[row]
  BY <1>2, SeesTyped
<1> HIDE DEF b, row
<1>7. Does(r, "check", b, joins[r], holder[r], noted[r])
  BY <1>1, <1>3, InHandStays DEF Does
<1> QED
  BY <1>1, <1>2, <1>4, <1>5, <1>6, <1>7 DEF row

\* A move reads where the task is.
LEMMA RowDoes ==
    ASSUME RaceTypeOK, NEW r \in Request, ReadRow(r)
    PROVE  /\ Open(r) /\ pc[r] = "row" /\ input[r].kind # "claim" /\ Reads(r)
           /\ \E b \in Places : \E l :
                 /\ Does(r, l, b, joins[r], holder[r], noted[r])
                 /\ b = Sees(r)[Bucket(input[r].task)]
                 /\ IF b = (IF input[r].kind = "drag" THEN "doing" ELSE "done")
                    THEN l = IF input[r].kind = "update" THEN "final" ELSE "commit"
                    ELSE IF input[r].kind # "drag" /\ Sees(r)[Done(input[r].task)] THEN l = "move"
                    ELSE l = Order[input[r].kind]["row"]
<1> DEFINE b == Sees(r)[Bucket(input[r].task)]
<1>1. /\ pc[r] = "row" /\ input[r].kind # "claim"
      /\ found' = [found EXCEPT ![r] = b]
      /\ UNCHANGED <<database, request, joins, holder, noted>>
  BY DEF ReadRow
<1>2. Open(r)
  BY <1>1 DEF Open
<1>3. Reads(r)
  BY <1>1, IdleReads
<1>4. b \in Places
  BY <1>2, SeesTyped, InputTyped DEF IsTables, Places
<1>5. input[r].kind \in {"drag", "finish", "update"}
  BY <1>1, InputTyped, LinesAre DEF Kinds
<1> HIDE DEF b
<1>6. ASSUME NEW l, Goto(r, l), l \in Lines(input[r].kind)
      PROVE  Does(r, l, b, joins[r], holder[r], noted[r])
  BY <1>1, <1>6, InHandStays DEF Does, Moved
<1>7. CASE b = (IF input[r].kind = "drag" THEN "doing" ELSE "done")
  <2>1. Goto(r, IF input[r].kind = "update" THEN "final" ELSE "commit")
    BY <1>7 DEF ReadRow, b
  <2>2. (IF input[r].kind = "update" THEN "final" ELSE "commit") \in Lines(input[r].kind)
    BY <1>5, LinesAre
  <2>3. Does(r, IF input[r].kind = "update" THEN "final" ELSE "commit", b, joins[r], holder[r], noted[r])
    BY <1>6, <2>1, <2>2
  <2> QED
    BY <1>1, <1>2, <1>3, <1>4, <1>7, <2>3 DEF b
<1>8. CASE /\ b # (IF input[r].kind = "drag" THEN "doing" ELSE "done")
           /\ input[r].kind # "drag" /\ Sees(r)[Done(input[r].task)]
  <2>1. Goto(r, "move")
    BY <1>8 DEF ReadRow, b
  <2>2. "move" \in Lines(input[r].kind)
    BY <1>5, LinesAre
  <2>3. Does(r, "move", b, joins[r], holder[r], noted[r])
    BY <1>6, <2>1, <2>2
  <2> QED
    BY <1>1, <1>2, <1>3, <1>4, <1>8, <2>3 DEF b
<1>9. CASE /\ b # (IF input[r].kind = "drag" THEN "doing" ELSE "done")
           /\ ~(input[r].kind # "drag" /\ Sees(r)[Done(input[r].task)])
  <2>1. Proceed(r)
    BY <1>9 DEF ReadRow, b
  <2>2. Moved(r, Order[input[r].kind]["row"])
    BY <1>1, <2>1, Proceeds
  <2>3. Does(r, Order[input[r].kind]["row"], b, joins[r], holder[r], noted[r])
    BY <1>6, <2>2 DEF Moved
  <2> QED
    BY <1>1, <1>2, <1>3, <1>4, <1>9, <2>3 DEF b
<1> QED
  BY <1>7, <1>8, <1>9

\* What statements write are rows.
LEMMA Parts ==
    ASSUME RaceTypeOK, NEW t \in Task
    PROVE  /\ \A b \in Places : IsPart(PlaceRow(t, b))
           /\ \A b \in BOOLEAN : IsPart(FlagRow(t, b))
           /\ \A u \in User : IsPart(OwnerRow(t, u))
           /\ IsPart(ClosedRows(t))
<1>1. IsTables(db)
  BY DEF RaceTypeOK
<1>2. \A b \in Places : IsPart(PlaceRow(t, b))
  BY <1>1, PlaceWritten
<1>3. \A b \in BOOLEAN : IsPart(FlagRow(t, b))
  BY <1>1, FlagWritten
<1>4. \A u \in User : IsPart(OwnerRow(t, u))
  BY <1>1, OwnerWritten
<1>5. IsPart(ClosedRows(t))
  BY <1>1, ClosedWritten
<1> QED
  BY <1>2, <1>3, <1>4, <1>5

\* The assignees are acceptable, and say whether to assign and who holds.
LEMMA CheckDoes ==
    ASSUME RaceTypeOK, NEW r \in Request, CheckAssignees(r)
    PROVE  /\ Open(r) /\ pc[r] = "check"
           /\ \/ Refuse(r)
              \/ /\ Acceptable(r, Who(Sees(r), input[r].task)) /\ Reads(r)
                 /\ \E j \in BOOLEAN, h \in User :
                       /\ Does(r, Order[input[r].kind]["check"], found[r], j, h, noted[r])
                       /\ j <=> Who(Sees(r), input[r].task) = {}
<1> DEFINE who == Who(Sees(r), input[r].task)
           j == who = {}
           h == IF Cardinality(who) = 1 THEN CHOOSE a \in who : TRUE ELSE input[r].user
<1>1. pc[r] = "check" /\ Open(r)
  BY DEF CheckAssignees, Open
<1>2. CASE ~Acceptable(r, who)
  BY <1>1, <1>2 DEF CheckAssignees
<1>3. CASE Acceptable(r, who)
  <2>1. /\ joins' = [joins EXCEPT ![r] = j] /\ holder' = [holder EXCEPT ![r] = h]
        /\ Proceed(r) /\ UNCHANGED <<database, request, found, noted>>
    BY <1>3 DEF CheckAssignees
  <2>2. h \in User
    <3>1. who \in SUBSET User
      BY DEF Who
    <3> HIDE DEF who
    <3>2. CASE Cardinality(who) = 1
      <4>1. who # {}
        BY <3>2, FS_EmptySet
      <4> QED
        BY <3>1, <3>2, <4>1
    <3>3. CASE Cardinality(who) # 1
      BY <3>3, InputTyped
    <3> QED
      BY <3>2, <3>3
  <2>3. Moved(r, Order[input[r].kind]["check"])
    BY <1>1, <2>1, Proceeds
  <2>4. Reads(r)
    BY <2>1, IdleReads
  <2> HIDE DEF h
  <2>5. PICK k \in BOOLEAN : k = j
    OBVIOUS
  <2>6. joins' = [joins EXCEPT ![r] = k]
    BY <2>1, <2>5
  <2>7. Does(r, Order[input[r].kind]["check"], found[r], k, h, noted[r])
    BY <2>1, <2>3, <2>6, InHandStays DEF Does
  <2>8. k <=> who = {}
    BY <2>5
  <2> QED
    BY <1>1, <1>3, <2>2, <2>4, <2>7, <2>8
<1> QED
  BY <1>2, <1>3

\* There is room, or the task is there.
LEMMA RoomDoes ==
    ASSUME RaceTypeOK, NEW r \in Request, CheckRoom(r)
    PROVE  /\ Open(r) /\ pc[r] = "room"
           /\ \/ Refuse(r)
              \/ /\ Reads(r)
                 /\ \/ /\ found[r] = "doing"
                       /\ Does(r, "assign", found[r], joins[r], holder[r], noted[r])
                    \/ /\ found[r] # "doing"
                       /\ limit > 0 => ~(Cardinality(InBucket(Sees(r), "doing")) >= limit)
                       /\ Does(r, Order[input[r].kind]["room"], found[r], joins[r], holder[r], noted[r])
<1>1. pc[r] = "room" /\ Open(r)
  BY DEF CheckRoom, Open
<1>2. CASE found[r] = "doing"
  <2>1. Goto(r, "assign") /\ UNCHANGED <<database, request, reading>>
    BY <1>2 DEF CheckRoom
  <2>2. "assign" \in Lines(input[r].kind)
    BY <1>1, InputTyped, LinesAre DEF Kinds
  <2>3. Does(r, "assign", found[r], joins[r], holder[r], noted[r])
    BY <2>1, <2>2, HandsOff DEF Moved
  <2> QED
    BY <1>1, <1>2, <2>1, <2>3, IdleReads
<1>3. CASE found[r] # "doing" /\ ~Refuse(r)
  <2>1. /\ limit > 0 => ~(Cardinality(InBucket(Sees(r), "doing")) >= limit)
        /\ Proceed(r) /\ UNCHANGED <<database, request, reading>>
    BY <1>3 DEF CheckRoom
  <2>2. Moved(r, Order[input[r].kind]["room"])
    BY <1>1, <2>1, Proceeds
  <2>3. Does(r, Order[input[r].kind]["room"], found[r], joins[r], holder[r], noted[r])
    BY <2>1, <2>2, HandsOff
  <2> QED
    BY <1>1, <1>3, <2>1, <2>3, IdleReads
<1> QED
  BY <1>1, <1>2, <1>3

\* The flag of the task, where it is entering or leaving the done bucket.
LEMMA FlagDoes ==
    ASSUME RaceTypeOK, NEW r \in Request, WriteFlag(r)
    PROVE  /\ Open(r) /\ pc[r] \in {"flag", "final"}
           /\ Does(r, Order[input[r].kind][pc[r]], found[r], joins[r], holder[r], noted[r])
           /\ \/ ~Finishes(r) /\ found[r] # "done" /\ Reads(r)
              \/ ~Finishes(r) /\ found[r] = "done" /\ Writes(r, FlagRow(input[r].task, FALSE))
              \/ Finishes(r) /\ Writes(r, FlagRow(input[r].task, TRUE))
<1> DEFINE t == input[r].task
<1>1. /\ pc[r] \in {"flag", "final"} /\ Open(r) /\ t \in Task
      /\ Proceed(r) /\ UNCHANGED <<request, reading>>
  BY InputTyped DEF WriteFlag, Open
<1>2. Does(r, Order[input[r].kind][pc[r]], found[r], joins[r], holder[r], noted[r])
  BY <1>1, Proceeds, HandsOff
<1>3. CASE ~Finishes(r) /\ found[r] # "done"
  BY <1>1, <1>2, <1>3, IdleReads DEF WriteFlag
<1>4. IsPart(FlagRow(t, TRUE)) /\ IsPart(FlagRow(t, FALSE))
  BY <1>1, Parts
<1>5. CASE ~Finishes(r) /\ found[r] = "done"
  <2>1. Write(r, <<"task", t>>, [k \in {Done(t)} |-> Finishes(r)])
    BY <1>5 DEF WriteFlag
  <2>2. Finishes(r) = FALSE
    BY <1>5, SMT DEF Finishes
  <2>3. [k \in {Done(t)} |-> Finishes(r)] = FlagRow(t, FALSE)
    <3>1. [k \in {Done(t)} |-> Finishes(r)] = [k \in {Done(t)} |-> FALSE]
      BY <2>2
    <3> QED
      BY <3>1 DEF FlagRow
  <2>4. Writes(r, FlagRow(t, FALSE))
    BY <1>4, <2>1, <2>3, WriteWrites
  <2> QED
    BY <1>1, <1>2, <1>5, <2>4
<1>6. CASE Finishes(r)
  <2>1. Write(r, <<"task", t>>, [k \in {Done(t)} |-> Finishes(r)])
    BY <1>6 DEF WriteFlag
  <2>2. Finishes(r) = TRUE
    BY <1>6, SMT DEF Finishes
  <2>3. [k \in {Done(t)} |-> Finishes(r)] = FlagRow(t, TRUE)
    <3>1. [k \in {Done(t)} |-> Finishes(r)] = [k \in {Done(t)} |-> TRUE]
      BY <2>2
    <3> QED
      BY <3>1 DEF FlagRow
  <2>4. Writes(r, FlagRow(t, TRUE))
    BY <1>4, <2>1, <2>3, WriteWrites
  <2> QED
    BY <1>1, <1>2, <1>6, <2>4
<1> QED
  BY <1>3, <1>5, <1>6

\* The place of the task.
LEMMA MoveDoes ==
    ASSUME RaceTypeOK, NEW r \in Request, MoveRow(r)
    PROVE  /\ Open(r) /\ pc[r] = "move"
           /\ Does(r, Order[input[r].kind]["move"], found[r], joins[r], holder[r], noted[r])
           /\ Writes(r, PlaceRow(input[r].task, IF Finishes(r) THEN "done" ELSE "doing"))
<1> DEFINE t == input[r].task
           b == IF Finishes(r) THEN "done" ELSE "doing"
<1>1. /\ pc[r] = "move" /\ Open(r) /\ t \in Task /\ b \in Places
      /\ Proceed(r) /\ UNCHANGED <<request, reading>>
      /\ Write(r, Bucket(t), [k \in {Bucket(t)} |-> b])
  BY InputTyped DEF MoveRow, Open, Places
<1>2. Does(r, Order[input[r].kind]["move"], found[r], joins[r], holder[r], noted[r])
  BY <1>1, Proceeds, HandsOff
<1> HIDE DEF b
<1>3. Writes(r, PlaceRow(t, b))
  <2>1. IsPart(PlaceRow(t, b))
    BY <1>1, Parts
  <2>2. Write(r, Bucket(t), PlaceRow(t, b))
    BY <1>1 DEF PlaceRow
  <2> QED
    BY <2>1, <2>2, WriteWrites
<1> QED
  BY <1>1, <1>2, <1>3 DEF b

\* The assignee.
LEMMA AssignDoes ==
    ASSUME RaceTypeOK, NEW r \in Request, Assign(r)
    PROVE  /\ Open(r) /\ pc[r] = "assign"
           /\ Does(r, Order[input[r].kind]["assign"], found[r], joins[r], holder[r], noted[r])
           /\ \/ ~joins[r] /\ Reads(r)
              \/ joins[r] /\ Writes(r, OwnerRow(input[r].task, input[r].user))
<1> DEFINE t == input[r].task
           u == input[r].user
<1>1. /\ pc[r] = "assign" /\ Open(r) /\ t \in Task /\ u \in User
      /\ Proceed(r) /\ UNCHANGED <<request, reading>>
  BY InputTyped DEF Assign, Open
<1>2. Does(r, Order[input[r].kind]["assign"], found[r], joins[r], holder[r], noted[r])
  BY <1>1, Proceeds, HandsOff
<1>3. CASE ~joins[r]
  BY <1>1, <1>2, <1>3, IdleReads DEF Assign
<1>4. CASE joins[r]
  <2>1. IsPart(OwnerRow(t, u))
    BY <1>1, Parts
  <2>2. Write(r, <<"project">>, OwnerRow(t, u))
    BY <1>4 DEF Assign, OwnerRow
  <2>3. Writes(r, OwnerRow(t, u))
    BY <2>1, <2>2, WriteWrites
  <2> QED
    BY <1>1, <1>2, <1>4, <2>3
<1> QED
  BY <1>3, <1>4

\* A lease on a path task t wants, held for another task.
InTheWay(T, t) ==
    \E o \in Task \ {t}, u \in User, p \in Pattern :
       T[Lease(o, u, p)] # "none" /\ \E q \in ScopeOf[t] : <<q, p>> \in Overlap

\* Nobody is in the way.
LEMMA ConflictsDoes ==
    ASSUME RaceTypeOK, NEW r \in Request, CheckLeases(r)
    PROVE  /\ Open(r) /\ pc[r] = "conflicts"
           /\ \/ Refuse(r)
              \/ /\ Reads(r) /\ ~InTheWay(Sees(r), input[r].task)
                 /\ Does(r, Order[input[r].kind]["conflicts"], found[r], joins[r], holder[r], noted[r])
<1>1. pc[r] = "conflicts" /\ Open(r)
  BY DEF CheckLeases, Open
<1>2. CASE InTheWay(Sees(r), input[r].task)
  BY <1>1, <1>2 DEF CheckLeases, InTheWay
<1>3. CASE ~InTheWay(Sees(r), input[r].task)
  <2>1. Proceed(r) /\ UNCHANGED <<database, request, reading>>
    BY <1>3 DEF CheckLeases, InTheWay
  <2>2. Does(r, Order[input[r].kind]["conflicts"], found[r], joins[r], holder[r], noted[r])
    BY <1>1, <2>1, Proceeds, HandsOff
  <2> QED
    BY <1>1, <1>3, <2>1, <2>2, IdleReads
<1> QED
  BY <1>2, <1>3

\* The leases of the task, where it has a scope.
LEMMA LeaseDoes ==
    ASSUME RaceTypeOK, NEW r \in Request, TakeLeases(r)
    PROVE  /\ Open(r) /\ pc[r] = "lease"
           /\ Does(r, Order[input[r].kind]["lease"], found[r], joins[r], holder[r], noted[r])
           /\ \/ ScopeOf[input[r].task] = {} /\ Reads(r)
              \/ /\ ScopeOf[input[r].task] # {}
                 /\ Refills(r, input[r].task, {Lease(input[r].task, holder[r], p) : p \in ScopeOf[input[r].task]})
<1> DEFINE t == input[r].task
           fresh == {Lease(t, holder[r], p) : p \in ScopeOf[t]}
<1>1. /\ pc[r] = "lease" /\ Open(r) /\ t \in Task /\ holder[r] \in User
      /\ Proceed(r) /\ UNCHANGED <<request, reading>>
  BY InputTyped DEF TakeLeases, Open
<1>2. Does(r, Order[input[r].kind]["lease"], found[r], joins[r], holder[r], noted[r])
  BY <1>1, Proceeds, HandsOff
<1>3. CASE ScopeOf[t] = {}
  BY <1>1, <1>2, <1>3, IdleReads DEF TakeLeases
<1>4. CASE ScopeOf[t] # {}
  <2>1. ReplaceLeases(r, {t}, [k \in fresh |-> "active"])
    BY <1>4 DEF TakeLeases
  <2>2. fresh \in SUBSET LeaseRows(t)
    <3>1. ScopeOf[t] \subseteq Pattern
      BY <1>1, RaceAssumption DEF RaceAssumption
    <3> QED
      BY <1>1, <3>1 DEF LeaseRows
  <2> HIDE DEF fresh
  <2>3. Refills(r, t, fresh)
    BY <1>1, <2>1, <2>2, ReplaceWrites
  <2> QED
    BY <1>1, <1>2, <1>4, <2>3 DEF fresh
<1> QED
  BY <1>3, <1>4

\* Releasing the leases of a task replaces them by none.
LEMMA ReleaseWrites ==
    ASSUME RaceTypeOK, NEW r \in Request, NEW t \in Task, ReplaceLeases(r, {t}, NoRows)
    PROVE  Refills(r, t, {})
<1>1. ReplaceLeases(r, {t}, [k \in {} |-> "active"])
  BY NoneFresh
<1> QED
  BY <1>1, ReplaceWrites

\* The leases of the task that is finished.
LEMMA FreeDoes ==
    ASSUME RaceTypeOK, NEW r \in Request, FreeLeases(r)
    PROVE  /\ Open(r) /\ pc[r] \in {"free", "freeAgain"}
           /\ Does(r, Order[input[r].kind][pc[r]], found[r], joins[r], holder[r], noted[r])
           /\ Refills(r, input[r].task, {})
<1>1. /\ pc[r] \in {"free", "freeAgain"} /\ Open(r) /\ input[r].task \in Task
      /\ Proceed(r) /\ UNCHANGED <<request, reading>>
      /\ ReplaceLeases(r, {input[r].task}, NoRows)
  BY InputTyped DEF FreeLeases, Open
<1>2. Does(r, Order[input[r].kind][pc[r]], found[r], joins[r], holder[r], noted[r])
  BY <1>1, Proceeds, HandsOff
<1> QED
  BY <1>1, <1>2, ReleaseWrites

\* The parents to close.
LEMMA CountDoes ==
    ASSUME RaceTypeOK, NEW r \in Request, CountOpen(r)
    PROVE  /\ Open(r) /\ pc[r] \in {"early", "count"} /\ Reads(r)
           /\ \E n \in SUBSET Task :
                 /\ Does(r, Order[input[r].kind][pc[r]], found[r], joins[r], holder[r], n)
                 /\ \A q \in n : SubtasksOf[q] # {}
<1> DEFINE n == Closable(Sees(r), input[r].task)
<1>1. /\ pc[r] \in {"early", "count"} /\ Open(r) /\ Proceed(r)
      /\ noted' = [noted EXCEPT ![r] = n]
      /\ UNCHANGED <<database, request, found, joins, holder>>
  BY DEF CountOpen, Open
<1>2. n \in SUBSET Task /\ \A q \in n : SubtasksOf[q] # {}
  BY DEF Closable, Parents
<1> HIDE DEF n
<1>3. Does(r, Order[input[r].kind][pc[r]], found[r], joins[r], holder[r], n)
  BY <1>1, Proceeds, InHandStays DEF Does
<1> QED
  BY <1>1, <1>2, <1>3, IdleReads

\* A parent closed, or none left to close.
LEMMA CloseDoes ==
    ASSUME RaceTypeOK, NEW r \in Request, CloseParent(r)
    PROVE  /\ Open(r) /\ pc[r] \in {"earlyClose", "close"} /\ input[r].kind \in {"finish", "update"}
           /\ \E l : \E n \in SUBSET noted[r] :
                 /\ Does(r, l, found[r], joins[r], holder[r], n)
                 /\ \/ l \in {pc[r], Order[input[r].kind][pc[r]]}
                    \/ l = "move" /\ input[r].kind = "finish"
                 /\ Reads(r) \/ \E q \in noted[r] : Writes(r, ClosedRows(q))
<1>1. /\ pc[r] \in {"earlyClose", "close"} /\ Open(r)
      /\ UNCHANGED <<request, found, joins, holder>>
  BY DEF CloseParent, Open
<1>2. input[r].kind \in {"finish", "update"}
  BY <1>1, InputTyped, LinesAre DEF Kinds
<1>3. CASE noted[r] = {}
  <2>1. /\ UNCHANGED <<database, noted>>
        /\ Goto(r, IF input[r].kind = "finish" THEN "move" ELSE Order["update"][pc[r]])
    BY <1>3 DEF CloseParent
  <2> DEFINE l == IF input[r].kind = "finish" THEN "move" ELSE Order["update"][pc[r]]
  <2>2. Moved(r, l)
    BY <1>1, <1>2, <2>1, LinesAre, OrderIs DEF Moved
  <2>3. \/ l \in {pc[r], Order[input[r].kind][pc[r]]}
        \/ l = "move" /\ input[r].kind = "finish"
    BY <1>2
  <2> HIDE DEF l
  <2>4. Does(r, l, found[r], joins[r], holder[r], noted[r])
    BY <1>1, <2>1, <2>2, InHandStays DEF Does
  <2>5. Reads(r)
    BY <2>1, IdleReads
  <2> QED
    BY <1>1, <1>2, <2>3, <2>4, <2>5
<1>4. CASE noted[r] # {}
  <2>1. PICK q \in noted[r] :
          /\ Write(r, <<"task", q>>, ClosedRows(q))
          /\ noted' = [noted EXCEPT ![r] = @ \ {q}]
          /\ IF noted[r] = {q} THEN Proceed(r) ELSE UNCHANGED pc
    BY <1>4 DEF CloseParent, ClosedRows
  <2>2. q \in Task
    BY InputTyped
  <2>3. Writes(r, ClosedRows(q))
    BY <2>1, <2>2, Parts, WriteWrites
  <2>4. \E l \in {pc[r], Order[input[r].kind][pc[r]]} : Moved(r, l)
    <3>1. CASE noted[r] = {q}
      <4>1. Moved(r, Order[input[r].kind][pc[r]])
        BY <1>1, <2>1, <3>1, Proceeds
      <4> QED
        BY <4>1
    <3>2. CASE noted[r] # {q}
      <4>1. pc' = [pc EXCEPT ![r] = pc[r]]
        BY <2>1, <3>2 DEF RaceTypeOK
      <4>2. Moved(r, pc[r])
        BY <4>1, InputTyped DEF Moved, Goto
      <4> QED
        BY <4>2
    <3> QED
      BY <3>1, <3>2
  <2>5. PICK l \in {pc[r], Order[input[r].kind][pc[r]]} : Moved(r, l)
    BY <2>4
  <2>6. noted' = [noted EXCEPT ![r] = noted[r] \ {q}]
    BY <2>1
  <2>7. Does(r, l, found[r], joins[r], holder[r], noted[r] \ {q})
    BY <1>1, <2>5, <2>6, InHandStays DEF Does
  <2>8. noted[r] \ {q} \in SUBSET noted[r]
    OBVIOUS
  <2> QED
    BY <1>1, <1>2, <2>3, <2>5, <2>7, <2>8
<1> QED
  BY <1>3, <1>4

\* The row of the view.
LEMMA ViewDoes ==
    ASSUME RaceTypeOK, NEW r \in Request, LockView(r)
    PROVE  /\ Open(r) /\ pc[r] = "view" /\ Reads(r)
           /\ Does(r, Order[input[r].kind]["view"], found[r], joins[r], holder[r], noted[r])
<1>1. /\ pc[r] = "view" /\ Open(r) /\ Proceed(r) /\ LockOnly(r, <<"view">>)
      /\ UNCHANGED <<request, reading>>
  BY DEF LockView, Open
<1> QED
  BY <1>1, Proceeds, HandsOff, LockReads

\* Refreshed leases.
BeatRows(there) == [k \in there |-> "active"]

\* The leases a heartbeat finds are refreshed.
LEMMA BeatDoes ==
    ASSUME RaceTypeOK, NEW r \in Request, Heartbeat(r)
    PROVE  /\ Open(r) /\ pc[r] = "beat"
           /\ LET t == input[r].task
                  there == Leased(Newest(r), t)
              IN  /\ Does(r, Order[input[r].kind]["beat"], found[r], joins[r], holder[r],
                          IF there = {} THEN {} ELSE {t})
                  /\ \/ engine # "sqlite" /\ Reads(r)
                     \/ Writes(r, BeatRows(there))
<1> DEFINE t == input[r].task
           there == Leased(Newest(r), t)
           n == IF there = {} THEN {} ELSE {t}
<1>1. /\ pc[r] = "beat" /\ Open(r) /\ Proceed(r) /\ t \in Task
      /\ noted' = [noted EXCEPT ![r] = n] /\ UNCHANGED <<request, found, joins, holder>>
      /\ IF engine # "sqlite" /\ there = {} THEN UNCHANGED database
         ELSE Write(r, <<"leases", t>>, BeatRows(there))
  BY InputTyped DEF Heartbeat, Open, BeatRows
<1>2. there \in SUBSET LeaseRows(t)
  BY DEF Leased
<1> HIDE DEF there, n
<1>3. Does(r, Order[input[r].kind]["beat"], found[r], joins[r], holder[r], n)
  BY <1>1, Proceeds, InHandStays DEF Does
<1>4. IsPart(BeatRows(there))
  <2>1. /\ BeatRows(there) = [k \in DOMAIN BeatRows(there) |-> BeatRows(there)[k]]
        /\ DOMAIN BeatRows(there) = there
        /\ \A k \in there : BeatRows(there)[k] = "active"
    BY DEF BeatRows
  <2> QED
    BY <1>1, <1>2, <2>1, LeasePart
<1>5. CASE engine # "sqlite" /\ there = {}
  BY <1>1, <1>3, <1>5, IdleReads DEF there, n
<1>6. CASE ~(engine # "sqlite" /\ there = {})
  <2>1. Writes(r, BeatRows(there))
    BY <1>1, <1>4, <1>6, WriteWrites
  <2> QED
    BY <1>1, <1>3, <2>1 DEF there, n
<1> QED
  BY <1>5, <1>6

\* The tasks of overdue leases.
LEMMA SelectDoes ==
    ASSUME RaceTypeOK, NEW r \in Request, SelectOverdue(r)
    PROVE  /\ Open(r) /\ pc[r] = "select" /\ Reads(r)
           /\ \E n \in SUBSET Task :
                 /\ Does(r, Order[input[r].kind]["select"], found[r], joins[r], holder[r], n)
                 /\ \A x \in n : \E k \in LeaseRows(x) : Sees(r)[k] = "overdue"
<1> DEFINE n == {t \in Task : \E k \in LeaseRows(t) : Sees(r)[k] = "overdue"}
<1>1. /\ pc[r] = "select" /\ Open(r) /\ Proceed(r) /\ noted' = [noted EXCEPT ![r] = n]
      /\ UNCHANGED <<database, request, found, joins, holder>>
  BY DEF SelectOverdue, Open
<1>2. n \in SUBSET Task /\ \A x \in n : \E k \in LeaseRows(x) : Sees(r)[k] = "overdue"
  OBVIOUS
<1> HIDE DEF n
<1>3. Does(r, Order[input[r].kind]["select"], found[r], joins[r], holder[r], n)
  BY <1>1, Proceeds, InHandStays DEF Does
<1> QED
  BY <1>1, <1>2, <1>3, IdleReads

\* The leases of one of them dropped, or none left.
LEMMA DropDoes ==
    ASSUME RaceTypeOK, NEW r \in Request, DropOverdue(r)
    PROVE  /\ Open(r) /\ pc[r] = "drop"
           /\ \/ /\ Reads(r)
                 /\ Does(r, Order[input[r].kind]["drop"], found[r], joins[r], holder[r], noted[r])
              \/ \E t \in noted[r] :
                    /\ Refills(r, t, {})
                    /\ Does(r, "drop", found[r], joins[r], holder[r], noted[r] \ {t})
<1>1. pc[r] = "drop" /\ Open(r) /\ UNCHANGED <<request, found, joins, holder>>
  BY DEF DropOverdue, Open
<1>2. CASE noted[r] = {}
  <2>1. UNCHANGED <<database, noted>> /\ Proceed(r)
    BY <1>2 DEF DropOverdue
  <2>2. Does(r, Order[input[r].kind]["drop"], found[r], joins[r], holder[r], noted[r])
    BY <1>1, <2>1, Proceeds, InHandStays DEF Does
  <2> QED
    BY <1>1, <2>1, <2>2, IdleReads
<1>3. CASE noted[r] # {}
  <2>1. PICK t \in noted[r] : /\ ReplaceLeases(r, {t}, NoRows)
                              /\ noted' = [noted EXCEPT ![r] = @ \ {t}] /\ UNCHANGED pc
    BY <1>3 DEF DropOverdue
  <2>2. t \in Task
    BY InputTyped
  <2>3. Refills(r, t, {})
    BY <2>1, <2>2, ReleaseWrites
  <2>4. pc' = [pc EXCEPT ![r] = "drop"]
    BY <1>1, <2>1 DEF RaceTypeOK
  <2>5. Moved(r, "drop")
    BY <1>1, <2>4, InputTyped DEF Moved, Goto
  <2>6. Does(r, "drop", found[r], joins[r], holder[r], noted[r] \ {t})
    BY <1>1, <2>1, <2>5, InHandStays DEF Does
  <2> QED
    BY <1>1, <2>3, <2>6
<1> QED
  BY <1>2, <1>3

-----------------------------------------------------------------------------
(* The types hold throughout.                                              *)

\* A transaction begins.
LEMMA BeginDoes ==
    ASSUME RaceTypeOK, NEW r \in Request, Begin(r)
    PROVE  /\ pc[r] = "begin" /\ UNCHANGED <<request, reading>>
           /\ \/ Moved(r, "committed") /\ UNCHANGED database
              \/ /\ Moved(r, Order[input[r].kind]["begin"]) /\ BeginTransaction(r)
                 /\ ~(input[r].kind = "update" /\ db[Done(input[r].task)])
<1>1. pc[r] = "begin" /\ UNCHANGED <<request, reading>>
  BY DEF Begin
<1>2. CASE input[r].kind = "update" /\ db[Done(input[r].task)]
  <2>1. Goto(r, "committed") /\ UNCHANGED database
    BY <1>2 DEF Begin
  <2>2. "committed" \in Lines(input[r].kind)
    BY DEF Lines, Ended
  <2> QED
    BY <1>1, <2>1, <2>2 DEF Moved
<1>3. CASE ~(input[r].kind = "update" /\ db[Done(input[r].task)])
  <2>1. Proceed(r) /\ BeginTransaction(r)
    BY <1>3 DEF Begin
  <2> QED
    BY <1>1, <1>3, <2>1, Proceeds
<1> QED
  BY <1>2, <1>3

\* Where everybody is, once one has moved.
LEMMA MovedLines ==
    ASSUME RaceTypeOK, NEW r \in Request, NEW l, Moved(r, l)
    PROVE  /\ pc' \in [Request -> Line] /\ pc'[r] = l
           /\ \A q \in Request \ {r} : pc'[q] = pc[q]
           /\ \A q \in Request : pc'[q] \in Lines(input[q].kind)
<1>1. l \in Line
  BY InputTyped DEF Moved, Line
<1> QED
  BY <1>1 DEF RaceTypeOK, Moved, Goto

\* Beginning keeps the types.
LEMMA BeginTyped ==
    ASSUME RaceTypeOK, NEW r \in Request, Begin(r)
    PROVE  RaceTypeOK'
<1>0. pc[r] = "begin" /\ UNCHANGED <<engine, limit, input, found, joins, holder, noted>>
  BY BeginDoes DEF request, reading
<1>1. PICK l : Moved(r, l)
  BY BeginDoes
<1>2. /\ pc' \in [Request -> Line] /\ \A q \in Request : pc'[q] \in Lines(input'[q].kind)
      /\ \A q \in Request \ {r} : pc'[q] = pc[q]
  BY <1>0, <1>1, MovedLines
<1>3. /\ UNCHANGED <<db, own, locks>> /\ behind' \subseteq behind /\ DOMAIN snapshot' = Request
      /\ \A q \in Request \ {r} : snapshot'[q] = snapshot[q]
      /\ Open(r)' /\ engine # "postgres" => snapshot'[r] = db
  <2>1. CASE Moved(r, "committed") /\ UNCHANGED database
    <3>1. ~Open(r)'
      BY <2>1, MovedLines DEF Open
    <3> QED
      BY <2>1, <3>1 DEF database, RaceTypeOK
  <2>2. CASE BeginTransaction(r)
    BY <2>2 DEF BeginTransaction, RaceTypeOK
  <2> QED
    BY <2>1, <2>2, BeginDoes
<1>4. \A q \in Request : Open(q)' /\ engine' # "postgres" => IsTables(snapshot'[q])
  BY <1>0, <1>2, <1>3 DEF RaceTypeOK, Open
<1>5. /\ engine' \in {"sqlite", "postgres", "mysql"} /\ limit' \in Nat
      /\ input' \in [Request -> Input] /\ found' \in [Request -> Places]
      /\ joins' \in [Request -> BOOLEAN] /\ holder' \in [Request -> User]
      /\ noted' \in [Request -> SUBSET Task]
  BY <1>0 DEF RaceTypeOK
<1>6. /\ DOMAIN locks' = Lockable /\ behind' \subseteq Request /\ DOMAIN own' = Request
      /\ IsTables(db') /\ \A q \in Request : IsPart(own'[q])
  BY <1>3 DEF RaceTypeOK
<1> QED
  BY <1>2, <1>3, <1>4, <1>5, <1>6 DEF RaceTypeOK

\* A transaction commits: its rows are written over the tables.
LEMMA EndTyped ==
    ASSUME RaceTypeOK, NEW r \in Request, End(r)
    PROVE  RaceTypeOK'
<1>1. /\ Goto(r, "committed") /\ UNCHANGED <<engine, limit, input, found, joins, holder, noted>>
      /\ db' = Newest(r)
      /\ own' = [own EXCEPT ![r] = NoRows] /\ snapshot' = [snapshot EXCEPT ![r] = NoRows]
      /\ locks' = [k \in DOMAIN locks |-> IF locks[k] = r THEN Nobody ELSE locks[k]]
      /\ behind' = IF own[r] = NoRows THEN behind ELSE Request \ {r}
  BY DEF End, Commit, Unlocked, request, reading
<1>2. Moved(r, "committed")
  BY <1>1 DEF Moved, Lines, Ended
<1>3. /\ pc' \in [Request -> Line] /\ \A q \in Request : pc'[q] \in Lines(input'[q].kind)
      /\ \A q \in Request \ {r} : pc'[q] = pc[q] /\ pc'[r] = "committed"
  BY <1>1, <1>2, MovedLines
<1>4. pc'[r] = "committed"
  BY <1>2, MovedLines
<1>5. IsTables(db')
  BY <1>1, SeesTyped
<1>6. /\ DOMAIN own' = Request /\ DOMAIN snapshot' = Request /\ DOMAIN locks' = Lockable
      /\ \A q \in Request : IsPart(own'[q])
  BY <1>1, NothingWritten DEF RaceTypeOK
<1>7. behind' \subseteq Request
  BY <1>1 DEF RaceTypeOK
<1>8. \A q \in Request : Open(q)' /\ engine' # "postgres" => IsTables(snapshot'[q])
  BY <1>1, <1>3, <1>4 DEF RaceTypeOK, Open
<1>9. /\ engine' \in {"sqlite", "postgres", "mysql"} /\ limit' \in Nat
      /\ input' \in [Request -> Input] /\ found' \in [Request -> Places]
      /\ joins' \in [Request -> BOOLEAN] /\ holder' \in [Request -> User]
      /\ noted' \in [Request -> SUBSET Task]
  BY <1>1 DEF RaceTypeOK
<1> QED
  BY <1>3, <1>5, <1>6, <1>7, <1>8, <1>9 DEF RaceTypeOK

(***************************************************************************)
(* A request begins, ends, is turned away, or runs a statement.            *)
(***************************************************************************)
Runs(r) ==
    \/ PinRow(r) \/ ReadRow(r) \/ CheckAssignees(r) \/ CheckRoom(r) \/ WriteFlag(r)
    \/ MoveRow(r) \/ Assign(r) \/ CheckLeases(r) \/ TakeLeases(r) \/ FreeLeases(r)
    \/ CountOpen(r) \/ CloseParent(r) \/ LockView(r)
    \/ Heartbeat(r) \/ SelectOverdue(r) \/ DropOverdue(r)

\* Every statement is run by a request that is open. Unless it ends in a
\* refusal it changes only its own request's state, and the database only
\* by reading locks or by writing rows that fit.
LEMMA RunsDoes ==
    ASSUME RaceTypeOK, NEW r \in Request, Runs(r)
    PROVE  /\ Open(r)
           /\ \/ Refuse(r)
              \/ \E l : \E f \in Places, j \in BOOLEAN, h \in User, n \in SUBSET Task :
                    Does(r, l, f, j, h, n) /\ (Reads(r) \/ \E g : Writes(r, g))
<1>0. /\ found[r] \in Places /\ joins[r] \in BOOLEAN /\ holder[r] \in User
      /\ noted[r] \in SUBSET Task
  BY InputTyped
<1>1. CASE PinRow(r)
  BY <1>0, <1>1, PinDoes
<1>2. CASE ReadRow(r)
  BY <1>0, <1>2, RowDoes
<1>3. CASE CheckAssignees(r) /\ ~Refuse(r)
  <2>1. /\ Open(r) /\ Reads(r)
        /\ \E j \in BOOLEAN, h \in User :
              Does(r, Order[input[r].kind]["check"], found[r], j, h, noted[r])
    BY <1>3, CheckDoes
  <2>2. PICK j \in BOOLEAN, h \in User :
          Does(r, Order[input[r].kind]["check"], found[r], j, h, noted[r])
    BY <2>1
  <2> QED
    BY <1>0, <2>1, <2>2
<1>17. CASE CheckAssignees(r) /\ Refuse(r)
  BY <1>17, CheckDoes
<1>4. CASE CheckRoom(r)
  BY <1>0, <1>4, RoomDoes
<1>5. CASE WriteFlag(r)
  BY <1>0, <1>5, FlagDoes
<1>6. CASE MoveRow(r)
  BY <1>0, <1>6, MoveDoes
<1>7. CASE Assign(r)
  BY <1>0, <1>7, AssignDoes
<1>8. CASE CheckLeases(r)
  BY <1>0, <1>8, ConflictsDoes
<1>9. CASE TakeLeases(r)
  BY <1>0, <1>9, LeaseDoes DEF Refills
<1>10. CASE FreeLeases(r)
  BY <1>0, <1>10, FreeDoes DEF Refills
<1>11. CASE CountOpen(r)
  <2>1. PICK n \in SUBSET Task : Does(r, Order[input[r].kind][pc[r]], found[r], joins[r], holder[r], n)
    BY <1>11, CountDoes
  <2>2. Open(r) /\ Reads(r)
    BY <1>11, CountDoes
  <2> QED
    BY <1>0, <2>1, <2>2
<1>12. CASE CloseParent(r)
  <2>0. \E l : \E n \in SUBSET noted[r] :
          Does(r, l, found[r], joins[r], holder[r], n) /\ (Reads(r) \/ \E g : Writes(r, g))
    BY <1>12, CloseDoes
  <2>1. PICK l : \E n \in SUBSET noted[r] :
          Does(r, l, found[r], joins[r], holder[r], n) /\ (Reads(r) \/ \E g : Writes(r, g))
    BY <2>0
  <2> QED
    BY <1>0, <1>12, <2>1, CloseDoes
<1>13. CASE LockView(r)
  BY <1>0, <1>13, ViewDoes
<1>14. CASE Heartbeat(r)
  <2>1. input[r].task \in Task
    BY InputTyped
  <2> DEFINE n == IF Leased(Newest(r), input[r].task) = {} THEN {} ELSE {input[r].task}
  <2>2. n \in SUBSET Task
    BY <2>1
  <2>3. /\ Open(r) /\ Does(r, Order[input[r].kind]["beat"], found[r], joins[r], holder[r], n)
        /\ Reads(r) \/ \E g : Writes(r, g)
    BY <1>14, BeatDoes
  <2> HIDE DEF n
  <2> QED
    BY <1>0, <2>2, <2>3
<1>15. CASE SelectOverdue(r)
  <2>1. PICK n \in SUBSET Task : Does(r, Order[input[r].kind]["select"], found[r], joins[r], holder[r], n)
    BY <1>15, SelectDoes
  <2>2. Open(r) /\ Reads(r)
    BY <1>15, SelectDoes
  <2> QED
    BY <1>0, <2>1, <2>2
<1>16. CASE DropOverdue(r)
  <2>1. CASE Reads(r) /\ Does(r, Order[input[r].kind]["drop"], found[r], joins[r], holder[r], noted[r])
    BY <1>0, <1>16, <2>1, DropDoes
  <2>2. CASE \E t \in noted[r] : /\ Refills(r, t, {})
                                 /\ Does(r, "drop", found[r], joins[r], holder[r], noted[r] \ {t})
    <3>1. PICK t \in noted[r] : /\ Refills(r, t, {})
                                /\ Does(r, "drop", found[r], joins[r], holder[r], noted[r] \ {t})
      BY <2>2
    <3>2. noted[r] \ {t} \in SUBSET Task
      BY <1>0
    <3> QED
      BY <1>0, <1>16, <3>1, <3>2, DropDoes DEF Refills
  <2> QED
    BY <1>16, <2>1, <2>2, DropDoes
<1> QED
  BY <1>1, <1>2, <1>3, <1>4, <1>5, <1>6, <1>7, <1>8, <1>9, <1>10, <1>11, <1>12, <1>13, <1>14,
     <1>15, <1>16, <1>17 DEF Runs

\* A step of any request keeps the types.
LEMMA StepTyped ==
    ASSUME RaceTypeOK, NEW r \in Request, Step(r)
    PROVE  RaceTypeOK'
<1>1. CASE Begin(r)
  BY <1>1, BeginTyped
<1>2. CASE End(r)
  BY <1>2, EndTyped
<1>3. CASE Refuse(r)
  BY <1>3, RefuseTyped
<1>4. CASE Runs(r) /\ ~Refuse(r)
  <2>1. Open(r)
    BY <1>4, RunsDoes
  <2>2. PICK l : \E f \in Places, j \in BOOLEAN, h \in User, n \in SUBSET Task :
          Does(r, l, f, j, h, n) /\ (Reads(r) \/ \E g : Writes(r, g))
    BY <1>4, RunsDoes
  <2> QED
    BY <2>1, <2>2, DoesTyped
<1> QED
  BY <1>1, <1>2, <1>3, <1>4 DEF Step, Abort, Runs

(***************************************************************************)
(* However requests overlap and whatever the engine, the tables, and what  *)
(* each request has read, written and noted of them, stay well formed.     *)
(***************************************************************************)
THEOREM RaceTypeCorrect == Spec => []RaceTypeOK
<1>1. Init => RaceTypeOK
  <2> SUFFICES ASSUME Init PROVE RaceTypeOK
    OBVIOUS
  <2>1. PICK s \in Scenarios : /\ engine = s.engine /\ limit = s.limit
                               /\ input \in [Request -> s.inputs] /\ db \in s.tables
    BY DEF Init
  <2>2. /\ engine \in {"sqlite", "postgres", "mysql"} /\ limit \in Nat
        /\ input \in [Request -> Input] /\ IsTables(db)
    BY <2>1, RaceAssumption DEF RaceAssumption
  <2>3. \A r \in Request : input[r].kind \in Kinds /\ input[r].user \in User
    BY <2>2 DEF Input
  <2>4. \A kind \in Kinds : "begin" \in Lines(kind)
    BY LinesAre DEF Kinds
  <2>5. pc \in [Request -> Line] /\ \A r \in Request : pc[r] \in Lines(input[r].kind) /\ ~Open(r)
    BY <2>3, <2>4 DEF Init, Open, Line
  <2>6. /\ found \in [Request -> Places] /\ joins \in [Request -> BOOLEAN]
        /\ holder \in [Request -> User] /\ noted \in [Request -> SUBSET Task]
    BY <2>3 DEF Init, Places
  <2>7. /\ DOMAIN locks = Lockable /\ behind \subseteq Request
        /\ DOMAIN snapshot = Request /\ DOMAIN own = Request
        /\ \A r \in Request : IsPart(own[r])
    BY NothingWritten DEF Init
  <2> QED
    BY <2>2, <2>5, <2>6, <2>7 DEF RaceTypeOK
<1>2. RaceTypeOK /\ [Next]_vars => RaceTypeOK'
  <2> SUFFICES ASSUME RaceTypeOK, [Next]_vars PROVE RaceTypeOK'
    OBVIOUS
  <2>1. CASE Next
    BY <2>1, StepTyped DEF Next
  <2>2. CASE UNCHANGED vars
    BY <2>2, Zenon DEF vars, database, request, reading, RaceTypeOK, Open
  <2> QED
    BY <2>1, <2>2
<1> QED
  BY <1>1, <1>2, PTL DEF Spec

-----------------------------------------------------------------------------
(* What the tables of a request, at statement l, have in common with those *)
(* that are committed.                                                     *)

\* Whatever overlaps a path is overlapped by it.
OverlapMutual == \A p, q \in Pattern : <<p, q>> \in Overlap => <<q, p>> \in Overlap

\* A claim or a drag is yet to assign.
Before(in, l) ==
    \/ in.kind = "claim" /\ l \in {"room", "flag", "move", "assign"}
    \/ in.kind = "drag" /\ l = "assign"

\* No task has two assignees.
OneOwner(T) == \A x \in Task : \A a, b \in Who(T, x) : a = b

\* Who means to join a task that nobody has still finds nobody there, and a claim
\* that has passed its check has the task to itself.
OwnersIn(in, l, j, T) ==
    /\ OneOwner(T)
    /\ j /\ Before(in, l) => Who(T, in.task) = {}
    /\ in.kind = "drag" /\ l \in {"row", "room", "check"} => ~j
    /\ in.kind = "claim" /\ l \in {"room", "flag", "move", "assign", "conflicts", "lease", "commit"} =>
         /\ Who(T, in.task) \subseteq {in.user}
         /\ ~j \/ l \in {"conflicts", "lease", "commit"} => in.user \in Who(T, in.task)

\* The bucket in hand is the one the task is in.
Standing(in, l) ==
    \/ in.kind = "claim" /\ l \in {"check", "room", "flag", "move"}
    \/ in.kind = "drag" /\ l \in {"room", "check", "assign", "conflicts", "lease", "flag", "move"}

\* There is room.
Admitted(in, l) ==
    \/ in.kind = "claim" /\ l \in {"flag", "move"}
    \/ in.kind = "drag" /\ l \in {"check", "assign", "conflicts", "lease", "flag", "move"}

\* The limit of the bucket is kept; 0 is no limit.
Fits(T, n) == n > 0 => Cardinality(InBucket(T, "doing")) <= n

\* The bucket read is still the one the task is in, and where the limit was checked
\* there is still room.
PlacesIn(in, l, f, T, n) ==
    /\ Fits(T, n)
    /\ Standing(in, l) => f = T[Bucket(in.task)]
    /\ in.kind = "drag" /\ Standing(in, l) => f # "doing"
    /\ Admitted(in, l) /\ n > 0 => Cardinality(InBucket(T, "doing")) < n
    /\ in.kind = "update" /\ l = "final" => T[Bucket(in.task)] = "done"

\* A task that is being finished is done before it is in the done bucket.
Entering(in, l) ==
    \/ in.kind = "finish" /\ l \in {"free", "count", "close", "view", "move"}
    \/ in.kind = "update" /\ l \in {"freeAgain", "count", "close", "move"}

\* Its task is in play.
Cleared(in, l) ==
    \/ in.kind = "claim" /\ l \in {"move", "assign", "conflicts", "lease", "commit"}
    \/ in.kind = "drag" /\ l \in {"move"}

\* Done tasks are in the done bucket, but for the one at hand on its way there.
FlagsIn(in, l, T) ==
    /\ \A x \in Task : T[Done(x)] => T[Bucket(x)] = "done" \/ (x = in.task /\ Entering(in, l))
    /\ Cleared(in, l) => ~T[Done(in.task)]

\* The files of a done task are free, but for the one at hand while its flag and its
\* leases are written.
Freeing(in, l) == (in.kind = "finish" /\ l = "free") \/ (in.kind = "drag" /\ l = "flag")

\* An update to done has given up the leases of its task.
Freed(in, l) == in.kind = "update" /\ l \notin {"begin", "view", "free"} \cup Ended

\* Two tasks hold paths that overlap.
Clash(T, x, o) ==
    \E u, v \in User, p, q \in Pattern :
       T[Lease(x, u, p)] # "none" /\ T[Lease(o, v, q)] # "none" /\ <<p, q>> \in Overlap

\* No two tasks do.
Apart(T) == \A x, o \in Task : x # o => ~Clash(T, x, o)

\* Nobody holds what somebody else holds, done tasks and parents hold nothing, and
\* after the check of the leases the scope at hand is free.
LeasesIn(in, l, T) ==
    /\ \A x \in Task : T[Done(x)] => Leased(T, x) = {} \/ (x = in.task /\ Freeing(in, l))
    /\ Freed(in, l) => Leased(T, in.task) = {}
    /\ \A q \in Task : SubtasksOf[q] # {} => Leased(T, q) = {}
    /\ Apart(T)
    /\ l = "lease" => \A o \in Task \ {in.task}, u \in User, p \in Pattern :
          T[Lease(o, u, p)] # "none" => \A q \in ScopeOf[in.task] : <<q, p>> \notin Overlap

\* A task has leases and none of them is overdue.
Beaten(T, x) == Leased(T, x) # {} /\ \A k \in LeaseRows(x) : T[k] # "overdue"

\* The tasks noted are parents to close, tasks with an overdue lease to drop, or
\* the task that the heartbeat refreshed.
NotesIn(in, l, n, T) ==
    /\ in.kind \in {"finish", "update"} => \A q \in n : SubtasksOf[q] # {}
    /\ in.kind = "cron" /\ l = "drop" => \A x \in n : \E k \in LeaseRows(x) : T[k] = "overdue"
    /\ in.kind = "heartbeat" => n \subseteq {in.task} /\ (n # {} => Beaten(T, in.task))

\* What a request at l with found, joins and noted knows of its tables T.
DraftIn(in, l, f, j, n, T, room) ==
    /\ OwnersIn(in, l, j, T)
    /\ PlacesIn(in, l, f, T, room)
    /\ FlagsIn(in, l, T)
    /\ LeasesIn(in, l, T)
    /\ NotesIn(in, l, n, T)

\* The same of a request, and a heartbeat that found leases has written.
DraftOK(r) ==
    /\ DraftIn(input[r], pc[r], found[r], joins[r], noted[r], Draft(r), limit)
    /\ input[r].kind = "heartbeat" /\ noted[r] # {} => own[r] # NoRows

\* What the checks are for, of tables between requests.
TablesOK(T, n) ==
    /\ OneOwner(T) /\ Fits(T, n)
    /\ \A x \in Task : T[Done(x)] => T[Bucket(x)] = "done" /\ Leased(T, x) = {}
    /\ \A q \in Task : SubtasksOf[q] # {} => Leased(T, q) = {}
    /\ Apart(T)

\* A committed claim has its assignee, and nobody unassigns.
ClaimsStand ==
    \A r \in Request : pc[r] = "committed" /\ input[r].kind = "claim" => input[r].user \in Who(db, input[r].task)

\* Nobody is unassigned after a snapshot was taken.
Growing == \A r \in Request : Open(r) => \A x \in Task : Who(snapshot[r], x) \subseteq Who(db, x)

\* Some committed request finished the task.
FinishedBy(t) == \E q \in Request : pc[q] = "committed" /\ Finishes(q) /\ input[q].task = t

\* What a committed heartbeat has refreshed stays so in the committed tables and in
\* those of whoever may still write, until the task is finished.
BeatsStand ==
    \A r \in Request :
      (pc[r] = "committed" /\ input[r].kind = "heartbeat" /\ noted[r] # {} /\ ~FinishedBy(input[r].task))
        => /\ Beaten(db, input[r].task)
           /\ \A q \in Request : (Open(q) /\ q \notin behind) =>
                 \/ Beaten(Draft(q), input[r].task)
                 \/ Finishes(q) /\ input[q].task = input[r].task

\* On SQLite requests that overlap are as good as one after the other.
Serial ==
    /\ SingleWriter
    /\ TablesOK(db, limit)
    /\ \A r \in Request : Open(r) => DraftOK(r)
    /\ \A r \in Request : Untouched(r)
    /\ ClaimsStand /\ Growing /\ BeatsStand

-----------------------------------------------------------------------------
(* What a statement makes of the tables of its request.                    *)

\* What is said of tables that agree is said of both.
LEMMA OwnersSame ==
    ASSUME NEW in \in Input, NEW l, NEW j \in BOOLEAN, NEW T, NEW S, SameOwners(T, S),
           OwnersIn(in, l, j, T)
    PROVE  OwnersIn(in, l, j, S)
<1>1. in.task \in Task /\ \A x \in Task : Who(S, x) = Who(T, x)
  BY DEF Input, SameOwners
<1> QED
  BY <1>1 DEF OwnersIn, OneOwner

\* What is said of places is said of tables with the same places.
LEMMA PlacesSame ==
    ASSUME NEW in \in Input, NEW l, NEW f, NEW T, NEW S, NEW m, SamePlaces(T, S),
           PlacesIn(in, l, f, T, m)
    PROVE  PlacesIn(in, l, f, S, m)
<1>1. in.task \in Task /\ S[Bucket(in.task)] = T[Bucket(in.task)]
  BY DEF Input, SamePlaces
<1>2. InBucket(S, "doing") = InBucket(T, "doing")
  BY DEF InBucket, SamePlaces
<1> QED
  BY <1>1, <1>2 DEF PlacesIn, Fits

\* What is said of done flags is said of tables with the same places and
\* flags.
LEMMA FlagsSame ==
    ASSUME NEW in \in Input, NEW l, NEW T, NEW S, SamePlaces(T, S), SameFlags(T, S),
           FlagsIn(in, l, T)
    PROVE  FlagsIn(in, l, S)
<1>1. in.task \in Task
  BY DEF Input
<1> QED
  BY <1>1 DEF FlagsIn, SamePlaces, SameFlags

\* Tables that agree in the lease rows of a task agree in who holds it, in
\* whether it has been refreshed and in whether any of its leases is
\* overdue.
LEMMA LeasedSame ==
    ASSUME NEW T, NEW S, NEW x \in Task, SameLeases(T, S, x)
    PROVE  /\ Leased(S, x) = Leased(T, x)
           /\ \A u \in User, p \in Pattern : S[Lease(x, u, p)] = T[Lease(x, u, p)]
           /\ Beaten(S, x) <=> Beaten(T, x)
           /\ (\E k \in LeaseRows(x) : S[k] = "overdue") <=> \E k \in LeaseRows(x) : T[k] = "overdue"
<1>1. \A k \in LeaseRows(x) : S[k] = T[k]
  BY DEF SameLeases
<1>2. Leased(S, x) = Leased(T, x)
  BY <1>1 DEF Leased
<1>3. \A u \in User, p \in Pattern : S[Lease(x, u, p)] = T[Lease(x, u, p)]
  BY <1>1, RowsAre
<1>4. Beaten(S, x) <=> Beaten(T, x)
  BY <1>1, <1>2 DEF Beaten
<1> QED
  BY <1>1, <1>2, <1>3, <1>4

\* Every lease of x in S is one in T.
Fewer(T, S, x) == \A u \in User, p \in Pattern : S[Lease(x, u, p)] # "none" => T[Lease(x, u, p)] # "none"

\* Files that do not collide do not collide with fewer leases.
LEMMA ApartFewer ==
    ASSUME NEW T, NEW S, Apart(T), \A x \in Task : Fewer(T, S, x)
    PROVE  Apart(S)
<1> SUFFICES ASSUME NEW x \in Task, NEW o \in Task, x # o, Clash(S, x, o)
             PROVE  Clash(T, x, o)
  BY DEF Apart
<1>1. PICK u \in User, v \in User, p \in Pattern, q \in Pattern :
        S[Lease(x, u, p)] # "none" /\ S[Lease(o, v, q)] # "none" /\ <<p, q>> \in Overlap
  BY DEF Clash
<1>2. T[Lease(x, u, p)] # "none" /\ T[Lease(o, v, q)] # "none"
  BY <1>1 DEF Fewer
<1> QED
  BY <1>1, <1>2 DEF Clash

\* What is said of leases is said of tables with the same flags and
\* leases.
LEMMA LeasesSame ==
    ASSUME NEW in \in Input, NEW l, NEW T, NEW S, SameFlags(T, S), \A x \in Task : SameLeases(T, S, x),
           LeasesIn(in, l, T)
    PROVE  LeasesIn(in, l, S)
<1>1. in.task \in Task
  BY DEF Input
<1>2. \A x \in Task : /\ Leased(S, x) = Leased(T, x)
                      /\ \A u \in User, p \in Pattern : S[Lease(x, u, p)] = T[Lease(x, u, p)]
  BY LeasedSame
<1>3. Apart(S)
  <2>1. Apart(T)
    BY DEF LeasesIn
  <2>2. \A x \in Task : Fewer(T, S, x)
    BY <1>2 DEF Fewer
  <2> QED
    BY <2>1, <2>2, ApartFewer
<1>4. \A x \in Task : S[Done(x)] = T[Done(x)]
  BY DEF SameFlags
<1> QED
  BY <1>1, <1>2, <1>3, <1>4 DEF LeasesIn

\* What is said of the tasks a request has noted is said of tables with
\* the same leases.
LEMMA NotesSame ==
    ASSUME NEW in \in Input, NEW l, NEW n \in SUBSET Task, NEW T, NEW S,
           \A x \in Task : SameLeases(T, S, x), NotesIn(in, l, n, T)
    PROVE  NotesIn(in, l, n, S)
<1>1. in.task \in Task
  BY DEF Input
<1>2. \A x \in Task : /\ Beaten(S, x) <=> Beaten(T, x)
                      /\ (\E k \in LeaseRows(x) : S[k] = "overdue")
                            <=> \E k \in LeaseRows(x) : T[k] = "overdue"
  BY LeasedSame
<1> QED
  BY <1>1, <1>2 DEF NotesIn

\* The pinned row is where the task is.
LEMMA PinLocal ==
    ASSUME NEW in \in Input, in.kind = "claim", NEW f, NEW j \in BOOLEAN, NEW n, NEW T, NEW m \in Nat,
           DraftIn(in, "row", f, j, n, T, m)
    PROVE  DraftIn(in, "check", T[Bucket(in.task)], j, n, T, m)
<1>1. OwnersIn(in, "check", j, T)
  BY DEF DraftIn, OwnersIn, Before
<1>2. PlacesIn(in, "check", T[Bucket(in.task)], T, m)
  BY DEF DraftIn, PlacesIn, Standing, Admitted
<1>3. FlagsIn(in, "check", T)
  BY DEF DraftIn, FlagsIn, Entering, Cleared
<1>4. LeasesIn(in, "check", T)
  BY DEF DraftIn, LeasesIn, Freeing, Freed, Ended
<1>5. NotesIn(in, "check", n, T)
  BY DEF DraftIn, NotesIn
<1> QED
  BY <1>1, <1>2, <1>3, <1>4, <1>5 DEF DraftIn

\* So is the row a move reads; a task that is there is not moved.
LEMMA RowLocal ==
    ASSUME NEW in \in Input, in.kind \in {"drag", "finish", "update"},
           NEW f, NEW j \in BOOLEAN, NEW n, NEW T, NEW m \in Nat,
           DraftIn(in, "row", f, j, n, T, m), NEW l,
           IF T[Bucket(in.task)] = (IF in.kind = "drag" THEN "doing" ELSE "done")
           THEN l = IF in.kind = "update" THEN "final" ELSE "commit"
           ELSE IF in.kind # "drag" /\ T[Done(in.task)] THEN l = "move"
           ELSE l = Order[in.kind]["row"]
    PROVE  DraftIn(in, l, T[Bucket(in.task)], j, n, T, m)
<1>0. \/ /\ in.kind = "drag"
         /\ \/ l = "commit" /\ T[Bucket(in.task)] = "doing"
            \/ l = "room" /\ T[Bucket(in.task)] # "doing"
      \/ /\ in.kind = "finish"
         /\ \/ l = "commit" /\ T[Bucket(in.task)] = "done"
            \/ l \in {"move", "flag"}
      \/ /\ in.kind = "update"
         /\ \/ l = "final" /\ T[Bucket(in.task)] = "done"
            \/ l \in {"move", "flag"}
  BY OrderIs
<1>1. OwnersIn(in, l, j, T)
  BY <1>0 DEF DraftIn, OwnersIn, Before
<1>2. PlacesIn(in, l, T[Bucket(in.task)], T, m)
  BY <1>0 DEF DraftIn, PlacesIn, Standing, Admitted
<1>3. FlagsIn(in, l, T)
  BY <1>0 DEF DraftIn, FlagsIn, Entering, Cleared
<1>4. LeasesIn(in, l, T)
  BY <1>0 DEF DraftIn, LeasesIn, Freeing, Freed, Ended
<1>5. NotesIn(in, l, n, T)
  BY <1>0 DEF DraftIn, NotesIn
<1> QED
  BY <1>1, <1>2, <1>3, <1>4, <1>5 DEF DraftIn

\* Whoever is to be assigned finds the task with nobody.
LEMMA CheckLocal ==
    ASSUME NEW in \in Input, in.kind \in {"claim", "drag"},
           NEW f, NEW j \in BOOLEAN, NEW n, NEW T, NEW m \in Nat,
           DraftIn(in, "check", f, j, n, T, m), NEW k \in BOOLEAN, k <=> Who(T, in.task) = {},
           in.kind = "claim" => Who(T, in.task) \subseteq {in.user}
    PROVE  DraftIn(in, Order[in.kind]["check"], f, k, n, T, m)
<1> DEFINE l == Order[in.kind]["check"]
<1>0. (in.kind = "claim" /\ l = "room") \/ (in.kind = "drag" /\ l = "assign")
  BY OrderIs
<1> HIDE DEF l
<1>1. OwnersIn(in, l, k, T)
  BY <1>0 DEF DraftIn, OwnersIn, Before
<1>2. PlacesIn(in, l, f, T, m)
  BY <1>0 DEF DraftIn, PlacesIn, Standing, Admitted
<1>3. FlagsIn(in, l, T)
  BY <1>0 DEF DraftIn, FlagsIn, Entering, Cleared
<1>4. LeasesIn(in, l, T)
  BY <1>0 DEF DraftIn, LeasesIn, Freeing, Freed, Ended
<1>5. NotesIn(in, l, n, T)
  BY <1>0 DEF DraftIn, NotesIn
<1>6. DraftIn(in, l, f, k, n, T, m)
  BY <1>1, <1>2, <1>3, <1>4, <1>5 DEF DraftIn
<1> QED
  BY <1>6 DEF l

\* Whoever is let in finds a place free, or the task in it.
LEMMA RoomLocal ==
    ASSUME NEW in \in Input, in.kind \in {"claim", "drag"},
           NEW f, NEW j \in BOOLEAN, NEW n, NEW T, IsTables(T), NEW m \in Nat, IsFiniteSet(Task),
           DraftIn(in, "room", f, j, n, T, m), NEW l,
           \/ f = "doing" /\ l = "assign"
           \/ /\ f # "doing" /\ l = Order[in.kind]["room"]
              /\ m > 0 => ~(Cardinality(InBucket(T, "doing")) >= m)
    PROVE  DraftIn(in, l, f, j, n, T, m)
<1>0. \/ in.kind = "claim" /\ f = "doing" /\ l = "assign"
      \/ in.kind = "claim" /\ f # "doing" /\ l = "flag"
      \/ in.kind = "drag" /\ f # "doing" /\ l = "check"
  <2>1. in.kind = "drag" => f # "doing"
    BY DEF DraftIn, PlacesIn, Standing
  <2> QED
    BY <2>1, OrderIs
<1>a. f # "doing" => (m > 0 => Cardinality(InBucket(T, "doing")) < m)
  <2>1. IsFiniteSet(InBucket(T, "doing"))
    <3>1. InBucket(T, "doing") \in SUBSET Task
      BY DEF InBucket
    <3> QED
      BY <3>1, FS_Subset
  <2>2. Cardinality(InBucket(T, "doing")) \in Nat
    BY <2>1, FS_CardinalityType
  <2> QED
    BY <2>2
<1>b. in.task \in Task /\ T[Bucket(in.task)] = f
  BY DEF DraftIn, PlacesIn, Standing, Input
<1>1. OwnersIn(in, l, j, T)
  BY <1>0 DEF DraftIn, OwnersIn, Before
<1>2. PlacesIn(in, l, f, T, m)
  BY <1>0, <1>a DEF DraftIn, PlacesIn, Standing, Admitted
<1>3. FlagsIn(in, l, T)
  BY <1>0, <1>b DEF DraftIn, FlagsIn, Entering, Cleared
<1>4. LeasesIn(in, l, T)
  BY <1>0 DEF DraftIn, LeasesIn, Freeing, Freed, Ended
<1>5. NotesIn(in, l, n, T)
  BY <1>0 DEF DraftIn, NotesIn
<1> QED
  BY <1>1, <1>2, <1>3, <1>4, <1>5 DEF DraftIn

\* A claim or a drag leaves its task open: it was not in the done bucket,
\* or its flag is cleared.
LEMMA OpenLocal ==
    ASSUME NEW in \in Input, in.kind \in {"claim", "drag"},
           NEW f, NEW j \in BOOLEAN, NEW n \in SUBSET Task, NEW T, IsTables(T), NEW m \in Nat,
           DraftIn(in, "flag", f, j, n, T, m), NEW S,
           \/ f # "done" /\ S = T
           \/ f = "done" /\ S = Over(T, FlagRow(in.task, FALSE))
    PROVE  DraftIn(in, Order[in.kind]["flag"], f, j, n, S, m)
<1>0. Order[in.kind]["flag"] = "move" /\ in.task \in Task
  BY OrderIs DEF Input
<1>1. /\ SamePlaces(T, S) /\ SameOwners(T, S) /\ \A x \in Task : SameLeases(T, S, x)
      /\ \A x \in Task \ {in.task} : S[Done(x)] <=> T[Done(x)]
      /\ ~S[Done(in.task)]
  <2>1. CASE f # "done" /\ S = T
    <3>1. ~T[Done(in.task)]
      BY <1>0, <2>1 DEF DraftIn, PlacesIn, Standing, FlagsIn, Entering
    <3>2. SamePlaces(T, T) /\ SameOwners(T, T) /\ \A x \in Task : SameLeases(T, T, x)
      BY DEF SamePlaces, SameOwners, SameLeases
    <3> QED
      BY <2>1, <3>1, <3>2
  <2>2. CASE f = "done" /\ S = Over(T, FlagRow(in.task, FALSE))
    <3>1. /\ SamePlaces(T, Over(T, FlagRow(in.task, FALSE)))
          /\ SameOwners(T, Over(T, FlagRow(in.task, FALSE)))
          /\ \A x \in Task : SameLeases(T, Over(T, FlagRow(in.task, FALSE)), x)
          /\ \A x \in Task : Over(T, FlagRow(in.task, FALSE))[Done(x)]
                                <=> IF x = in.task THEN FALSE ELSE T[Done(x)]
      BY <1>0, FlagWritten
    <3> QED
      BY <1>0, <2>2, <3>1
  <2> QED
    BY <2>1, <2>2
<1>2. OwnersIn(in, "move", j, S)
  <2>1. OwnersIn(in, "move", j, T)
    BY DEF DraftIn, OwnersIn, Before
  <2> QED
    BY <1>1, <2>1, OwnersSame
<1>3. PlacesIn(in, "move", f, S, m)
  <2>1. PlacesIn(in, "move", f, T, m)
    BY DEF DraftIn, PlacesIn, Standing, Admitted
  <2> QED
    BY <1>1, <2>1, PlacesSame
<1>4. FlagsIn(in, "move", S)
  BY <1>0, <1>1 DEF DraftIn, FlagsIn, Entering, Cleared, SamePlaces
<1>5. LeasesIn(in, "move", S)
  <2>1. \A x \in Task : Leased(S, x) = Leased(T, x) /\ Fewer(T, S, x)
    BY <1>1, LeasedSame DEF Fewer
  <2>2. Apart(S)
    BY <2>1, ApartFewer DEF DraftIn, LeasesIn
  <2>3. \A x \in Task : S[Done(x)] => Leased(S, x) = {}
    BY <1>1, <2>1 DEF DraftIn, LeasesIn, Freeing
  <2>4. \A q \in Task : SubtasksOf[q] # {} => Leased(S, q) = {}
    BY <2>1 DEF DraftIn, LeasesIn
  <2> QED
    BY <2>2, <2>3, <2>4 DEF LeasesIn, Freed
<1>6. NotesIn(in, "move", n, S)
  BY DEF NotesIn
<1> QED
  BY <1>0, <1>2, <1>3, <1>4, <1>5, <1>6 DEF DraftIn

\* A task that is finished is flagged before it is moved, or after.
LEMMA DoneLocal ==
    ASSUME NEW in \in Input, NEW l, \/ in.kind \in {"finish", "update"} /\ l = "flag"
                                    \/ in.kind = "update" /\ l = "final",
           NEW f, NEW j \in BOOLEAN, NEW n \in SUBSET Task, NEW T, IsTables(T), NEW m \in Nat,
           DraftIn(in, l, f, j, n, T, m)
    PROVE  DraftIn(in, Order[in.kind][l], f, j, n, Over(T, FlagRow(in.task, TRUE)), m)
<1> DEFINE k == Order[in.kind][l]
           S == Over(T, FlagRow(in.task, TRUE))
<1>0. /\ in.task \in Task
      /\ \/ in.kind = "finish" /\ l = "flag" /\ k = "free"
         \/ in.kind = "update" /\ l = "flag" /\ k = "freeAgain"
         \/ in.kind = "update" /\ l = "final" /\ k = "commit"
  BY OrderIs DEF Input
<1>1. /\ SamePlaces(T, S) /\ SameOwners(T, S) /\ \A x \in Task : SameLeases(T, S, x)
      /\ \A x \in Task : S[Done(x)] <=> IF x = in.task THEN TRUE ELSE T[Done(x)]
  BY <1>0, FlagWritten
<1> HIDE DEF k, S
<1>2. OwnersIn(in, k, j, S)
  <2>1. OwnersIn(in, k, j, T)
    BY <1>0 DEF DraftIn, OwnersIn, Before
  <2> QED
    BY <1>1, <2>1, OwnersSame
<1>3. PlacesIn(in, k, f, S, m)
  <2>1. PlacesIn(in, k, f, T, m)
    BY <1>0 DEF DraftIn, PlacesIn, Standing, Admitted
  <2> QED
    BY <1>1, <2>1, PlacesSame
<1>4. FlagsIn(in, k, S)
  <2>1. l = "final" => T[Bucket(in.task)] = "done"
    BY <1>0 DEF DraftIn, PlacesIn
  <2> QED
    BY <1>0, <1>1, <2>1 DEF DraftIn, FlagsIn, Entering, Cleared, SamePlaces
<1>5. LeasesIn(in, k, S)
  <2>1. \A x \in Task : Leased(S, x) = Leased(T, x) /\ Fewer(T, S, x)
    BY <1>1, LeasedSame DEF Fewer
  <2>2. Apart(S)
    BY <2>1, ApartFewer DEF DraftIn, LeasesIn
  <2>3. in.kind = "update" => Leased(T, in.task) = {}
    BY <1>0 DEF DraftIn, LeasesIn, Freed, Ended
  <2>4. \A x \in Task : S[Done(x)] => Leased(S, x) = {} \/ (x = in.task /\ Freeing(in, k))
    BY <1>0, <1>1, <2>1, <2>3 DEF DraftIn, LeasesIn, Freeing
  <2>5. \A q \in Task : SubtasksOf[q] # {} => Leased(S, q) = {}
    BY <2>1 DEF DraftIn, LeasesIn
  <2>6. Freed(in, k) => Leased(S, in.task) = {}
    BY <1>0, <2>1, <2>3 DEF Freed
  <2> QED
    BY <1>0, <2>2, <2>4, <2>5, <2>6 DEF LeasesIn
<1>6. NotesIn(in, k, n, S)
  BY <1>0 DEF DraftIn, NotesIn
<1> QED
  BY <1>2, <1>3, <1>4, <1>5, <1>6 DEF DraftIn, k, S

\* A card put into the claim bucket found a place there; one put into the
\* done bucket is of a task that is done.
LEMMA MoveLocal ==
    ASSUME NEW in \in Input, in.kind \in {"claim", "drag", "finish", "update"}, IsFiniteSet(Task),
           NEW f, NEW j \in BOOLEAN, NEW n \in SUBSET Task, NEW T, IsTables(T), NEW m \in Nat,
           DraftIn(in, "move", f, j, n, T, m), NEW b,
           b = IF in.kind \in {"finish", "update"} THEN "done" ELSE "doing"
    PROVE  DraftIn(in, Order[in.kind]["move"], f, j, n, Over(T, PlaceRow(in.task, b)), m)
<1> DEFINE k == Order[in.kind]["move"]
           S == Over(T, PlaceRow(in.task, b))
<1>0. /\ in.task \in Task /\ b \in Places
      /\ \/ in.kind = "claim" /\ k = "assign" /\ b = "doing"
         \/ in.kind = "drag" /\ k = "commit" /\ b = "doing"
         \/ in.kind = "finish" /\ k = "commit" /\ b = "done"
         \/ in.kind = "update" /\ k = "final" /\ b = "done"
  BY OrderIs DEF Input, Places
<1>1. /\ SameFlags(T, S) /\ SameOwners(T, S) /\ \A x \in Task : SameLeases(T, S, x)
      /\ \A x \in Task : S[Bucket(x)] = IF x = in.task THEN b ELSE T[Bucket(x)]
  BY <1>0, PlaceWritten
<1> HIDE DEF k, S
<1>2. OwnersIn(in, k, j, S)
  <2>1. OwnersIn(in, k, j, T)
    BY <1>0 DEF DraftIn, OwnersIn, Before
  <2> QED
    BY <1>1, <2>1, OwnersSame
<1>3. PlacesIn(in, k, f, S, m)
  <2>1. Fits(S, m)
    <3>1. InBucket(S, "doing") \in SUBSET Task /\ InBucket(T, "doing") \in SUBSET Task
      BY DEF InBucket
    <3>2. IsFiniteSet(InBucket(S, "doing")) /\ IsFiniteSet(InBucket(T, "doing"))
      BY <3>1, FS_Subset
    <3>3. /\ Cardinality(InBucket(S, "doing")) \in Nat /\ Cardinality(InBucket(T, "doing")) \in Nat
      BY <3>2, FS_CardinalityType
    <3>4. CASE b = "done"
      <4>1. InBucket(S, "doing") \subseteq InBucket(T, "doing")
        BY <1>1, <3>4 DEF InBucket
      <4>2. Cardinality(InBucket(S, "doing")) <= Cardinality(InBucket(T, "doing"))
        BY <3>2, <4>1, FS_Subset
      <4>3. m > 0 => Cardinality(InBucket(T, "doing")) <= m
        BY DEF DraftIn, PlacesIn, Fits
      <4> QED
        BY <3>3, <4>2, <4>3 DEF Fits
    <3>5. CASE b = "doing"
      <4>1. InBucket(S, "doing") \subseteq InBucket(T, "doing") \cup {in.task}
        BY <1>1, <3>5 DEF InBucket
      <4>2. /\ IsFiniteSet(InBucket(T, "doing") \cup {in.task})
            /\ Cardinality(InBucket(T, "doing") \cup {in.task}) \in
                  {Cardinality(InBucket(T, "doing")), Cardinality(InBucket(T, "doing")) + 1}
        BY <3>2, FS_AddElement
      <4>3. Cardinality(InBucket(S, "doing")) <= Cardinality(InBucket(T, "doing") \cup {in.task})
        BY <4>1, <4>2, FS_Subset
      <4>4. m > 0 => Cardinality(InBucket(T, "doing")) < m
        BY <1>0, <3>5 DEF DraftIn, PlacesIn, Admitted
      <4> DEFINE x == Cardinality(InBucket(S, "doing"))
                 y == Cardinality(InBucket(T, "doing"))
                 z == Cardinality(InBucket(T, "doing") \cup {in.task})
      <4>5. x \in Nat /\ y \in Nat /\ z \in {y, y + 1} /\ x <= z /\ (m > 0 => y < m)
        BY <3>3, <4>2, <4>3, <4>4
      <4> HIDE DEF x, y, z
      <4>6. m > 0 => x <= m
        BY <4>5
      <4> QED
        BY <4>6 DEF Fits, x
    <3> QED
      BY <1>0, <3>4, <3>5
  <2>2. S[Bucket(in.task)] = b
    BY <1>0, <1>1
  <2> QED
    BY <1>0, <2>1, <2>2 DEF PlacesIn, Standing, Admitted
<1>4. FlagsIn(in, k, S)
  <2>1. b = "doing" => ~T[Done(in.task)]
    BY <1>0 DEF DraftIn, FlagsIn, Cleared
  <2> QED
    BY <1>0, <1>1, <2>1 DEF DraftIn, FlagsIn, Entering, Cleared, SameFlags
<1>5. LeasesIn(in, k, S)
  <2>1. LeasesIn(in, k, T)
    BY <1>0 DEF DraftIn, LeasesIn, Freeing, Freed, Ended
  <2> QED
    BY <1>1, <2>1, LeasesSame
<1>6. NotesIn(in, k, n, S)
  BY <1>0 DEF DraftIn, NotesIn
<1> QED
  BY <1>2, <1>3, <1>4, <1>5, <1>6 DEF DraftIn, k, S

\* Whoever is assigned gets a task that nobody has.
LEMMA AssignLocal ==
    ASSUME NEW in \in Input, in.kind \in {"claim", "drag"},
           NEW f, NEW j \in BOOLEAN, NEW n \in SUBSET Task, NEW T, IsTables(T), NEW m \in Nat,
           DraftIn(in, "assign", f, j, n, T, m), NEW S,
           \/ ~j /\ S = T
           \/ j /\ S = Over(T, OwnerRow(in.task, in.user))
    PROVE  DraftIn(in, Order[in.kind]["assign"], f, j, n, S, m)
<1>0. Order[in.kind]["assign"] = "conflicts" /\ in.task \in Task /\ in.user \in User
  BY OrderIs DEF Input
<1>1. /\ SamePlaces(T, S) /\ SameFlags(T, S) /\ \A x \in Task : SameLeases(T, S, x)
      /\ \A x \in Task : Who(S, x) = IF j /\ x = in.task THEN Who(T, x) \cup {in.user} ELSE Who(T, x)
  <2>1. CASE ~j /\ S = T
    <3>1. SamePlaces(T, T) /\ SameFlags(T, T) /\ \A x \in Task : SameLeases(T, T, x)
      BY DEF SamePlaces, SameFlags, SameLeases
    <3>2. SamePlaces(T, S) /\ SameFlags(T, S) /\ \A x \in Task : SameLeases(T, S, x)
      <4>1. S = T
        BY <2>1
      <4> QED
        BY ONLY <3>1, <4>1
    <3>3. \A x \in Task : Who(S, x) = IF j /\ x = in.task THEN Who(T, x) \cup {in.user} ELSE Who(T, x)
      <4>1. S = T /\ ~j
        BY <2>1
      <4> QED
        BY ONLY <4>1
    <3> QED
      BY <3>2, <3>3
  <2>2. CASE j /\ S = Over(T, OwnerRow(in.task, in.user))
    <3> DEFINE R == Over(T, OwnerRow(in.task, in.user))
    <3>1. /\ SamePlaces(T, R) /\ SameFlags(T, R) /\ \A x \in Task : SameLeases(T, R, x)
          /\ \A x \in Task : Who(R, x) = IF x = in.task THEN Who(T, in.task) \cup {in.user} ELSE Who(T, x)
      <4>1. /\ IsPart(OwnerRow(in.task, in.user)) /\ IsTables(R)
            /\ SamePlaces(T, R) /\ SameFlags(T, R)
            /\ \A x \in Task : SameLeases(T, R, x)
            /\ \A x \in Task : Who(R, x) = IF x = in.task THEN Who(T, in.task) \cup {in.user} ELSE Who(T, x)
        BY ONLY <1>0, IsTables(T), OwnerWritten
      <4> QED
        BY ONLY <4>1
    <3> HIDE DEF R
    <3>2. S = R
      BY <2>2 DEF R
    <3> QED
      BY <2>2, <3>1, <3>2
  <2> QED
    BY <2>1, <2>2
<1>2. OwnersIn(in, "conflicts", j, S)
  <2>1. /\ OneOwner(T) /\ (j => Who(T, in.task) = {})
        /\ in.kind = "claim" => Who(T, in.task) \subseteq {in.user} /\ (~j => in.user \in Who(T, in.task))
    BY DEF DraftIn, OwnersIn, Before
  <2>2. OneOwner(S)
    BY <1>0, <1>1, <2>1 DEF OneOwner
  <2>3. in.kind = "claim" => Who(S, in.task) \subseteq {in.user} /\ in.user \in Who(S, in.task)
    BY <1>0, <1>1, <2>1
  <2> QED
    BY <2>2, <2>3 DEF OwnersIn, Before
<1>3. PlacesIn(in, "conflicts", f, S, m)
  <2>1. PlacesIn(in, "conflicts", f, T, m)
    BY DEF DraftIn, PlacesIn, Standing, Admitted
  <2> QED
    BY <1>1, <2>1, PlacesSame
<1>4. FlagsIn(in, "conflicts", S)
  <2>1. FlagsIn(in, "conflicts", T)
    BY DEF DraftIn, FlagsIn, Entering, Cleared
  <2> QED
    BY <1>1, <2>1, FlagsSame
<1>5. LeasesIn(in, "conflicts", S)
  <2>1. LeasesIn(in, "conflicts", T)
    BY DEF DraftIn, LeasesIn, Freeing, Freed, Ended
  <2> QED
    BY <1>1, <2>1, LeasesSame
<1>6. NotesIn(in, "conflicts", n, S)
  BY DEF NotesIn
<1> QED
  BY <1>0, <1>2, <1>3, <1>4, <1>5, <1>6 DEF DraftIn

\* Whoever goes on to take leases has seen nobody in the way.
LEMMA ConflictsLocal ==
    ASSUME NEW in \in Input, in.kind \in {"claim", "drag"},
           NEW f, NEW j \in BOOLEAN, NEW n \in SUBSET Task, NEW T, NEW m \in Nat,
           DraftIn(in, "conflicts", f, j, n, T, m), ~InTheWay(T, in.task)
    PROVE  DraftIn(in, Order[in.kind]["conflicts"], f, j, n, T, m)
<1>0. Order[in.kind]["conflicts"] = "lease"
  BY OrderIs
<1>1. OwnersIn(in, "lease", j, T)
  BY DEF DraftIn, OwnersIn, Before
<1>2. PlacesIn(in, "lease", f, T, m)
  BY DEF DraftIn, PlacesIn, Standing, Admitted
<1>3. FlagsIn(in, "lease", T)
  BY DEF DraftIn, FlagsIn, Entering, Cleared
<1>4. LeasesIn(in, "lease", T)
  <2>1. \A o \in Task \ {in.task}, u \in User, p \in Pattern :
           T[Lease(o, u, p)] # "none" => \A q \in ScopeOf[in.task] : <<q, p>> \notin Overlap
    BY DEF InTheWay
  <2> QED
    BY <2>1 DEF DraftIn, LeasesIn, Freeing, Freed, Ended
<1>5. NotesIn(in, "lease", n, T)
  BY DEF NotesIn
<1> QED
  BY <1>0, <1>1, <1>2, <1>3, <1>4, <1>5 DEF DraftIn

\* The leases of a task replaced: the fresh ones are all it has.
LEMMA Refilled ==
    ASSUME NEW T, IsTables(T), NEW t \in Task, NEW fresh \in SUBSET LeaseRows(t), NEW S,
           S = Over(T, Replaced(Leased(T, t), fresh))
    PROVE  /\ SamePlaces(T, S) /\ SameFlags(T, S) /\ SameOwners(T, S)
           /\ \A x \in Task \ {t} : SameLeases(T, S, x)
           /\ \A k \in LeaseRows(t) : S[k] = IF k \in fresh THEN "active" ELSE "none"
           /\ Leased(S, t) = fresh
<1> DEFINE g == Replaced(Leased(T, t), fresh)
<1>1. /\ g = [k \in DOMAIN g |-> g[k]] /\ DOMAIN g = Leased(T, t) \cup fresh
      /\ \A k \in Leased(T, t) \cup fresh : g[k] = IF k \in fresh THEN "active" ELSE "none"
  BY ReplacedRows
<1>2. DOMAIN g \subseteq LeaseRows(t) /\ \A k \in DOMAIN g : g[k] \in {"none", "active"}
  BY <1>1 DEF Leased
<1> HIDE DEF g
<1>3. /\ SamePlaces(T, Over(T, g)) /\ SameFlags(T, Over(T, g)) /\ SameOwners(T, Over(T, g))
      /\ \A x \in Task \ {t} : SameLeases(T, Over(T, g), x)
      /\ \A k \in LeaseRows(t) : Over(T, g)[k] = IF k \in DOMAIN g THEN g[k] ELSE T[k]
  BY <1>1, <1>2, LeasesWritten
<1>4. S = Over(T, g)
  BY DEF g
<1>5. \A k \in LeaseRows(t) : S[k] = IF k \in fresh THEN "active" ELSE "none"
  BY <1>1, <1>3, <1>4 DEF Leased
<1>6. Leased(S, t) = fresh
  BY <1>5 DEF Leased
<1> QED
  BY <1>3, <1>4, <1>5, <1>6

\* The leases taken are on the paths of the task, and nobody is in the
\* way of these.
LEMMA LeaseLocal ==
    ASSUME NEW in \in Input, in.kind \in {"claim", "drag"}, OverlapMutual,
           NEW f, NEW j \in BOOLEAN, NEW n \in SUBSET Task, NEW T, IsTables(T), NEW m \in Nat,
           DraftIn(in, "lease", f, j, n, T, m), NEW h \in User, NEW S,
           \/ ScopeOf[in.task] = {} /\ S = T
           \/ /\ ScopeOf[in.task] # {}
              /\ S = Over(T, Replaced(Leased(T, in.task), {Lease(in.task, h, p) : p \in ScopeOf[in.task]}))
    PROVE  DraftIn(in, Order[in.kind]["lease"], f, j, n, S, m)
<1> DEFINE l == Order[in.kind]["lease"]
           t == in.task
           fresh == {Lease(t, h, p) : p \in ScopeOf[t]}
<1>0. /\ t \in Task /\ ScopeOf[t] \subseteq Pattern
      /\ (in.kind = "claim" /\ l = "commit") \/ (in.kind = "drag" /\ l = "flag")
  BY OrderIs, RaceAssumption DEF Input, RaceAssumption
<1>9. fresh \in SUBSET LeaseRows(t)
  BY <1>0 DEF LeaseRows
<1>1. /\ SamePlaces(T, S) /\ SameFlags(T, S) /\ SameOwners(T, S)
      /\ \A x \in Task \ {t} : SameLeases(T, S, x)
      /\ S = T \/ (ScopeOf[t] # {} /\ \A k \in LeaseRows(t) : S[k] # "none" => k \in fresh)
  <2>1. CASE S = T
    BY <2>1 DEF SamePlaces, SameFlags, SameOwners, SameLeases
  <2>2. CASE ScopeOf[t] # {} /\ S = Over(T, Replaced(Leased(T, t), fresh))
    <3> HIDE DEF t, fresh
    <3>1. /\ SamePlaces(T, S) /\ SameFlags(T, S) /\ SameOwners(T, S)
          /\ \A x \in Task \ {t} : SameLeases(T, S, x)
          /\ \A k \in LeaseRows(t) : S[k] = IF k \in fresh THEN "active" ELSE "none"
          /\ Leased(S, t) = fresh
      BY <1>0, <1>9, <2>2, Refilled
    <3> QED
      BY <2>2, <3>1
  <2> QED
    BY <2>1, <2>2
<1>2. OwnersIn(in, l, j, S)
  <2>1. OwnersIn(in, l, j, T)
    BY <1>0 DEF DraftIn, OwnersIn, Before
  <2> QED
    BY <1>1, <2>1, OwnersSame
<1>3. PlacesIn(in, l, f, S, m)
  <2>1. PlacesIn(in, l, f, T, m)
    BY <1>0 DEF DraftIn, PlacesIn, Standing, Admitted
  <2> QED
    BY <1>1, <2>1, PlacesSame
<1>4. FlagsIn(in, l, S)
  <2>1. FlagsIn(in, l, T)
    BY <1>0 DEF DraftIn, FlagsIn, Entering, Cleared
  <2> QED
    BY <1>1, <2>1, FlagsSame
<1>5. LeasesIn(in, l, S)
  <2>1. \A x \in Task \ {t} : /\ Leased(S, x) = Leased(T, x)
                              /\ \A u \in User, p \in Pattern : S[Lease(x, u, p)] = T[Lease(x, u, p)]
    BY <1>1, LeasedSame
  <2>2. \A x \in Task : S[Done(x)] => Leased(S, x) = {} \/ (x = t /\ Freeing(in, l))
    <3>1. in.kind = "claim" => ~S[Done(t)]
      BY <1>0, <1>1 DEF DraftIn, FlagsIn, Cleared, SameFlags
    <3>2. in.kind = "drag" => Freeing(in, l)
      BY <1>0 DEF Freeing
    <3>3. \A x \in Task \ {t} : S[Done(x)] => Leased(T, x) = {}
      BY <1>1 DEF DraftIn, LeasesIn, Freeing, SameFlags
    <3> QED
      BY <2>1, <3>1, <3>2, <3>3
  <2>3. ~Freed(in, l) /\ l # "lease"
    BY <1>0 DEF Freed
  <2>4. \A q \in Task : SubtasksOf[q] # {} => Leased(S, q) = {}
    <3>1. SubtasksOf[t] # {} => ScopeOf[t] = {}
      BY <1>0, RaceAssumption DEF RaceAssumption
    <3>2. \A q \in Task : SubtasksOf[q] # {} => Leased(T, q) = {}
      BY DEF DraftIn, LeasesIn
    <3> QED
      BY <1>1, <2>1, <3>1, <3>2
  <2>5. Apart(S)
    <3>0. Apart(T) /\ \A o \in Task \ {t}, u \in User, p \in Pattern :
             T[Lease(o, u, p)] # "none" => \A q \in ScopeOf[t] : <<q, p>> \notin Overlap
      BY DEF DraftIn, LeasesIn
    <3>1. CASE S = T
      BY <3>0, <3>1
    <3>2. CASE \A k \in LeaseRows(t) : S[k] # "none" => k \in fresh
      <4>1. \A u \in User, p \in Pattern : S[Lease(t, u, p)] # "none" => p \in ScopeOf[t]
        <5> SUFFICES ASSUME NEW u \in User, NEW p \in Pattern, S[Lease(t, u, p)] # "none"
                     PROVE  p \in ScopeOf[t]
          OBVIOUS
        <5>1. Lease(t, u, p) \in LeaseRows(t)
          BY <1>0, RowsAre
        <5>2. PICK q \in ScopeOf[t] : Lease(t, u, p) = Lease(t, h, q)
          BY <3>2, <5>1
        <5> QED
          BY <5>2, RowsApart
      <4> SUFFICES ASSUME NEW x \in Task, NEW o \in Task, x # o, Clash(S, x, o)
                   PROVE  FALSE
        BY DEF Apart
      <4>2. PICK u \in User, v \in User, p \in Pattern, q \in Pattern :
               S[Lease(x, u, p)] # "none" /\ S[Lease(o, v, q)] # "none" /\ <<p, q>> \in Overlap
        BY DEF Clash
      <4>3. CASE x = t
        BY <2>1, <3>0, <4>1, <4>2, <4>3
      <4>4. CASE o = t
        <5>1. <<q, p>> \in Overlap
          BY <4>2 DEF OverlapMutual
        <5> QED
          BY <2>1, <3>0, <4>1, <4>2, <4>4, <5>1
      <4>5. CASE x # t /\ o # t
        <5>1. T[Lease(x, u, p)] # "none" /\ T[Lease(o, v, q)] # "none"
          BY <2>1, <4>2, <4>5
        <5>2. Clash(T, x, o)
          BY <4>2, <5>1 DEF Clash
        <5> QED
          BY <3>0, <5>2 DEF Apart
      <4> QED
        BY <4>3, <4>4, <4>5
    <3> QED
      BY <1>1, <3>1, <3>2
  <2> QED
    BY <2>2, <2>3, <2>4, <2>5 DEF LeasesIn
<1>6. NotesIn(in, l, n, S)
  BY DEF NotesIn
<1> QED
  BY <1>2, <1>3, <1>4, <1>5, <1>6 DEF DraftIn

\* What is said of leases, with those of a task gone.
LEMMA GoneLeases ==
    ASSUME NEW in \in Input, NEW l, NEW T, IsTables(T), NEW t \in Task, NEW S,
           S = Over(T, Replaced(Leased(T, t), {})), LeasesIn(in, l, T), l # "lease"
    PROVE  /\ LeasesIn(in, l, S)
           /\ SamePlaces(T, S) /\ SameFlags(T, S) /\ SameOwners(T, S)
           /\ \A x \in Task \ {t} : SameLeases(T, S, x)
           /\ Leased(S, t) = {}
<1>0. {} \in SUBSET LeaseRows(t) /\ in.task \in Task
  BY DEF Input
<1>1. /\ SamePlaces(T, S) /\ SameFlags(T, S) /\ SameOwners(T, S)
      /\ \A x \in Task \ {t} : SameLeases(T, S, x)
      /\ \A k \in LeaseRows(t) : S[k] = IF k \in {} THEN "active" ELSE "none"
      /\ Leased(S, t) = {}
  BY <1>0, Refilled
<1>2. \A x \in Task : Leased(S, x) \subseteq Leased(T, x)
  BY <1>1, LeasedSame
<1>3. \A x \in Task : Fewer(T, S, x)
  BY <1>1, LeasedSame, RowsAre DEF Fewer
<1>4. Apart(S)
  BY <1>3, ApartFewer DEF LeasesIn
<1>5. \A x \in Task : S[Done(x)] => T[Done(x)]
  BY <1>1 DEF SameFlags
<1>6. LeasesIn(in, l, S)
  <2>1. \A x \in Task : S[Done(x)] => Leased(S, x) = {} \/ (x = in.task /\ Freeing(in, l))
    BY <1>2, <1>5 DEF LeasesIn
  <2>2. Freed(in, l) => Leased(S, in.task) = {}
    BY <1>0, <1>2 DEF LeasesIn
  <2>3. \A q \in Task : SubtasksOf[q] # {} => Leased(S, q) = {}
    BY <1>2 DEF LeasesIn
  <2> QED
    BY <1>4, <2>1, <2>2, <2>3 DEF LeasesIn
<1> QED
  BY <1>1, <1>6

\* The task that is finished leaves no leases.
LEMMA FreeLocal ==
    ASSUME NEW in \in Input, NEW l, \/ in.kind = "finish" /\ l = "free"
                                    \/ in.kind = "update" /\ l \in {"free", "freeAgain"},
           NEW f, NEW j \in BOOLEAN, NEW n \in SUBSET Task, NEW T, IsTables(T), NEW m \in Nat,
           DraftIn(in, l, f, j, n, T, m), NEW S, S = Over(T, Replaced(Leased(T, in.task), {}))
    PROVE  DraftIn(in, Order[in.kind][l], f, j, n, S, m)
<1> DEFINE k == Order[in.kind][l]
<1>0. /\ in.task \in Task
      /\ \/ in.kind = "finish" /\ l = "free" /\ k = "count"
         \/ in.kind = "update" /\ l = "free" /\ k = "early"
         \/ in.kind = "update" /\ l = "freeAgain" /\ k = "count"
  BY OrderIs DEF Input
<1> HIDE DEF k
<1>1. /\ LeasesIn(in, l, S)
      /\ SamePlaces(T, S) /\ SameFlags(T, S) /\ SameOwners(T, S)
      /\ \A x \in Task \ {in.task} : SameLeases(T, S, x)
      /\ Leased(S, in.task) = {}
  <2>1. LeasesIn(in, l, T) /\ l # "lease"
    BY <1>0 DEF DraftIn
  <2> QED
    BY <1>0, <2>1, GoneLeases
<1>2. OwnersIn(in, k, j, S)
  <2>1. OwnersIn(in, k, j, T)
    BY <1>0 DEF DraftIn, OwnersIn, Before
  <2> QED
    BY <1>1, <2>1, OwnersSame
<1>3. PlacesIn(in, k, f, S, m)
  <2>1. PlacesIn(in, k, f, T, m)
    BY <1>0 DEF DraftIn, PlacesIn, Standing, Admitted
  <2> QED
    BY <1>1, <2>1, PlacesSame
<1>4. FlagsIn(in, k, S)
  <2>1. FlagsIn(in, k, T)
    BY <1>0 DEF DraftIn, FlagsIn, Entering, Cleared
  <2> QED
    BY <1>1, <2>1, FlagsSame
<1>5. LeasesIn(in, k, S)
  BY <1>0, <1>1 DEF LeasesIn, Freeing, Freed
<1>6. NotesIn(in, k, n, S)
  BY <1>0 DEF DraftIn, NotesIn
<1>7. DraftIn(in, k, f, j, n, S, m)
  BY <1>2, <1>3, <1>4, <1>5, <1>6 DEF DraftIn
<1> QED
  BY <1>7 DEF k

\* The tasks noted to be closed are parents.
LEMMA CountLocal ==
    ASSUME NEW in \in Input, NEW l, \/ in.kind = "finish" /\ l = "count"
                                    \/ in.kind = "update" /\ l \in {"early", "count"},
           NEW f, NEW j \in BOOLEAN, NEW n, NEW T, NEW m \in Nat,
           DraftIn(in, l, f, j, n, T, m), NEW o \in SUBSET Task, \A q \in o : SubtasksOf[q] # {}
    PROVE  DraftIn(in, Order[in.kind][l], f, j, o, T, m)
<1> DEFINE k == Order[in.kind][l]
<1>0. \/ in.kind = "finish" /\ l = "count" /\ k = "close"
      \/ in.kind = "update" /\ l = "early" /\ k = "earlyClose"
      \/ in.kind = "update" /\ l = "count" /\ k = "close"
  BY OrderIs
<1> HIDE DEF k
<1>1. OwnersIn(in, k, j, T)
  BY <1>0 DEF DraftIn, OwnersIn, Before
<1>2. PlacesIn(in, k, f, T, m)
  BY <1>0 DEF DraftIn, PlacesIn, Standing, Admitted
<1>3. FlagsIn(in, k, T)
  BY <1>0 DEF DraftIn, FlagsIn, Entering, Cleared
<1>4. LeasesIn(in, k, T)
  BY <1>0 DEF DraftIn, LeasesIn, Freeing, Freed, Ended
<1>5. NotesIn(in, k, o, T)
  BY <1>0 DEF NotesIn
<1>6. DraftIn(in, k, f, j, o, T, m)
  BY <1>1, <1>2, <1>3, <1>4, <1>5 DEF DraftIn
<1> QED
  BY <1>6 DEF k

\* A parent that is closed is in the done bucket and never had leases.
LEMMA CloseLocal ==
    ASSUME NEW in \in Input, NEW l, NEW k,
           \/ in.kind = "finish" /\ l = "close" /\ k \in {"close", "view", "move"}
           \/ in.kind = "update" /\ l = "earlyClose" /\ k \in {"earlyClose", "row"}
           \/ in.kind = "update" /\ l = "close" /\ k \in {"close", "move"},
           NEW f, NEW j \in BOOLEAN, NEW n \in SUBSET Task, NEW T, IsTables(T), NEW m \in Nat,
           IsFiniteSet(Task),
           DraftIn(in, l, f, j, n, T, m), NEW o \in SUBSET n, NEW S,
           S = T \/ \E q \in n : S = Over(T, ClosedRows(q))
    PROVE  DraftIn(in, k, f, j, o, S, m)
<1>0. in.task \in Task
  BY DEF Input
<1>1. /\ SameOwners(T, S) /\ \A x \in Task : SameLeases(T, S, x)
      /\ \A x \in Task : S[Done(x)] => T[Done(x)] \/ (S[Bucket(x)] = "done" /\ SubtasksOf[x] # {})
      /\ \A x \in Task : S[Bucket(x)] \in {T[Bucket(x)], "done"}
  <2>1. CASE S = T
    BY <2>1 DEF SameOwners, SameLeases
  <2>2. CASE \E q \in n : S = Over(T, ClosedRows(q))
    <3>1. PICK q \in n : S = Over(T, ClosedRows(q))
      BY <2>2
    <3>2. q \in Task /\ SubtasksOf[q] # {}
      BY DEF DraftIn, NotesIn
    <3>3. /\ SameOwners(T, Over(T, ClosedRows(q)))
          /\ \A x \in Task : SameLeases(T, Over(T, ClosedRows(q)), x)
          /\ \A x \in Task : Over(T, ClosedRows(q))[Done(x)] <=> T[Done(x)] \/ x = q
          /\ \A x \in Task : Over(T, ClosedRows(q))[Bucket(x)] = IF x = q THEN "done" ELSE T[Bucket(x)]
      BY <3>2, ClosedWritten
    <3> QED
      BY <3>1, <3>2, <3>3
  <2> QED
    BY <2>1, <2>2
<1>2. OwnersIn(in, k, j, S)
  <2>1. OwnersIn(in, k, j, T)
    BY DEF DraftIn, OwnersIn, Before
  <2> QED
    BY <1>1, <2>1, OwnersSame
<1>3. PlacesIn(in, k, f, S, m)
  <2>1. InBucket(S, "doing") \subseteq InBucket(T, "doing")
    BY <1>1 DEF InBucket
  <2>2. IsFiniteSet(InBucket(T, "doing"))
    <3>1. InBucket(T, "doing") \in SUBSET Task
      BY DEF InBucket
    <3> QED
      BY <3>1, FS_Subset
  <2>3. /\ Cardinality(InBucket(S, "doing")) <= Cardinality(InBucket(T, "doing"))
        /\ Cardinality(InBucket(S, "doing")) \in Nat /\ Cardinality(InBucket(T, "doing")) \in Nat
    BY <2>1, <2>2, FS_Subset, FS_CardinalityType
  <2>4. m > 0 => Cardinality(InBucket(T, "doing")) <= m
    BY DEF DraftIn, PlacesIn, Fits
  <2>5. m > 0 => Cardinality(InBucket(S, "doing")) <= m
    BY <2>3, <2>4
  <2> QED
    BY <2>5 DEF PlacesIn, Fits, Standing, Admitted
<1>4. FlagsIn(in, k, S)
  <2>1. \A x \in Task : S[Done(x)] => S[Bucket(x)] = "done" \/ (x = in.task /\ Entering(in, k))
    <3>1. Entering(in, l) <=> Entering(in, k)
      BY DEF Entering
    <3>2. \A x \in Task : T[Done(x)] => T[Bucket(x)] = "done" \/ (x = in.task /\ Entering(in, l))
      BY DEF DraftIn, FlagsIn
    <3> QED
      BY <1>1, <3>1, <3>2
  <2> QED
    BY <2>1 DEF FlagsIn, Cleared
<1>5. LeasesIn(in, k, S)
  <2>1. \A x \in Task : Leased(S, x) = Leased(T, x) /\ Fewer(T, S, x)
    BY <1>1, LeasedSame DEF Fewer
  <2>2. Apart(S)
    BY <2>1, ApartFewer DEF DraftIn, LeasesIn
  <2>3. \A q \in Task : SubtasksOf[q] # {} => Leased(S, q) = {}
    BY <2>1 DEF DraftIn, LeasesIn
  <2>4. \A x \in Task : S[Done(x)] => Leased(S, x) = {}
    BY <1>1, <2>1, <2>3 DEF DraftIn, LeasesIn, Freeing
  <2>5. Freed(in, k) => Leased(S, in.task) = {}
    BY <1>0, <2>1 DEF DraftIn, LeasesIn, Freed, Ended
  <2> QED
    BY <2>2, <2>3, <2>4, <2>5 DEF LeasesIn
<1>6. NotesIn(in, k, o, S)
  BY DEF DraftIn, NotesIn
<1> QED
  BY <1>2, <1>3, <1>4, <1>5, <1>6 DEF DraftIn

\* Locking the view says nothing of the tables.
LEMMA ViewLocal ==
    ASSUME NEW in \in Input, in.kind \in {"finish", "update"},
           NEW f, NEW j \in BOOLEAN, NEW n, NEW T, NEW m \in Nat, DraftIn(in, "view", f, j, n, T, m)
    PROVE  DraftIn(in, Order[in.kind]["view"], f, j, n, T, m)
<1> DEFINE k == Order[in.kind]["view"]
<1>0. \/ in.kind = "finish" /\ k = "move"
      \/ in.kind = "update" /\ k = "free"
  BY OrderIs
<1> HIDE DEF k
<1>1. OwnersIn(in, k, j, T)
  BY <1>0 DEF DraftIn, OwnersIn, Before
<1>2. PlacesIn(in, k, f, T, m)
  BY <1>0 DEF DraftIn, PlacesIn, Standing, Admitted
<1>3. FlagsIn(in, k, T)
  BY <1>0 DEF DraftIn, FlagsIn, Entering, Cleared
<1>4. LeasesIn(in, k, T)
  BY <1>0 DEF DraftIn, LeasesIn, Freeing, Freed
<1>5. NotesIn(in, k, n, T)
  BY <1>0 DEF DraftIn, NotesIn
<1>6. DraftIn(in, k, f, j, n, T, m)
  BY <1>1, <1>2, <1>3, <1>4, <1>5 DEF DraftIn
<1> QED
  BY <1>6 DEF k

\* A heartbeat makes the leases it finds fresh, and notes the task if
\* there are any.
LEMMA BeatLocal ==
    ASSUME NEW in \in Input, in.kind = "heartbeat",
           NEW f, NEW j \in BOOLEAN, NEW n, NEW T, IsTables(T), NEW m \in Nat,
           DraftIn(in, "beat", f, j, n, T, m), NEW S, S = Over(T, BeatRows(Leased(T, in.task)))
    PROVE  DraftIn(in, Order[in.kind]["beat"], f, j, IF Leased(T, in.task) = {} THEN {} ELSE {in.task}, S, m)
<1> DEFINE g == BeatRows(Leased(T, in.task))
           o == IF Leased(T, in.task) = {} THEN {} ELSE {in.task}
<1>0. Order[in.kind]["beat"] = "commit" /\ in.task \in Task
  BY OrderIs DEF Input
<1>1. g = [k \in DOMAIN g |-> g[k]] /\ DOMAIN g = Leased(T, in.task) /\ \A k \in DOMAIN g : g[k] = "active"
  BY DEF BeatRows
<1>2. DOMAIN g \subseteq LeaseRows(in.task) /\ \A k \in DOMAIN g : g[k] \in {"none", "active"}
  BY <1>1 DEF Leased
<1> HIDE DEF g
<1>3. /\ SamePlaces(T, Over(T, g)) /\ SameFlags(T, Over(T, g)) /\ SameOwners(T, Over(T, g))
      /\ \A x \in Task \ {in.task} : SameLeases(T, Over(T, g), x)
      /\ \A k \in LeaseRows(in.task) : Over(T, g)[k] = IF k \in DOMAIN g THEN g[k] ELSE T[k]
  BY <1>0, <1>1, <1>2, LeasesWritten
<1>4. S = Over(T, g)
  BY DEF g
<1>5. \A k \in LeaseRows(in.task) : S[k] = IF T[k] # "none" THEN "active" ELSE "none"
  BY <1>1, <1>3, <1>4 DEF Leased
<1>6. Leased(S, in.task) = Leased(T, in.task) /\ Fewer(T, S, in.task)
  BY <1>0, <1>5, RowsAre DEF Leased, Fewer
<1>7. \A x \in Task : Leased(S, x) = Leased(T, x) /\ Fewer(T, S, x)
  BY <1>3, <1>4, <1>6, LeasedSame DEF Fewer
<1>8. OwnersIn(in, "commit", j, S)
  <2>1. OwnersIn(in, "commit", j, T)
    BY DEF DraftIn, OwnersIn, Before
  <2> QED
    BY <1>3, <1>4, <2>1, OwnersSame
<1>9. PlacesIn(in, "commit", f, S, m)
  <2>1. PlacesIn(in, "commit", f, T, m)
    BY DEF DraftIn, PlacesIn, Standing, Admitted
  <2> QED
    BY <1>3, <1>4, <2>1, PlacesSame
<1>10. FlagsIn(in, "commit", S)
  <2>1. FlagsIn(in, "commit", T)
    BY DEF DraftIn, FlagsIn, Entering, Cleared
  <2> QED
    BY <1>3, <1>4, <2>1, FlagsSame
<1>11. LeasesIn(in, "commit", S)
  <2>1. Apart(S)
    BY <1>7, ApartFewer DEF DraftIn, LeasesIn
  <2>2. \A x \in Task : S[Done(x)] => Leased(S, x) = {}
    BY <1>3, <1>4, <1>7 DEF DraftIn, LeasesIn, Freeing, SameFlags
  <2>3. \A q \in Task : SubtasksOf[q] # {} => Leased(S, q) = {}
    BY <1>7 DEF DraftIn, LeasesIn
  <2> QED
    BY <2>1, <2>2, <2>3 DEF LeasesIn, Freed
<1>12. NotesIn(in, "commit", o, S)
  <2>1. o # {} => Beaten(S, in.task)
    BY <1>5, <1>6 DEF Beaten
  <2> QED
    BY <2>1 DEF NotesIn
<1>13. DraftIn(in, "commit", f, j, o, S, m)
  BY <1>8, <1>9, <1>10, <1>11, <1>12 DEF DraftIn
<1> QED
  BY <1>0, <1>13

\* The cron notes tasks with an overdue lease.
LEMMA SelectLocal ==
    ASSUME NEW in \in Input, in.kind = "cron",
           NEW f, NEW j \in BOOLEAN, NEW n, NEW T, NEW m \in Nat, DraftIn(in, "select", f, j, n, T, m),
           NEW o \in SUBSET Task, \A x \in o : \E k \in LeaseRows(x) : T[k] = "overdue"
    PROVE  DraftIn(in, Order[in.kind]["select"], f, j, o, T, m)
<1>0. Order[in.kind]["select"] = "drop"
  BY OrderIs
<1>1. OwnersIn(in, "drop", j, T)
  BY DEF DraftIn, OwnersIn, Before
<1>2. PlacesIn(in, "drop", f, T, m)
  BY DEF DraftIn, PlacesIn, Standing, Admitted
<1>3. FlagsIn(in, "drop", T)
  BY DEF DraftIn, FlagsIn, Entering, Cleared
<1>4. LeasesIn(in, "drop", T)
  BY DEF DraftIn, LeasesIn, Freeing, Freed
<1>5. NotesIn(in, "drop", o, T)
  BY DEF NotesIn
<1> QED
  BY <1>0, <1>1, <1>2, <1>3, <1>4, <1>5 DEF DraftIn

\* It drops the leases of one of them, and those of the others are still
\* overdue.
LEMMA DropLocal ==
    ASSUME NEW in \in Input, in.kind = "cron",
           NEW f, NEW j \in BOOLEAN, NEW n \in SUBSET Task, NEW T, IsTables(T), NEW m \in Nat,
           DraftIn(in, "drop", f, j, n, T, m), NEW t \in n, NEW S, S = Over(T, Replaced(Leased(T, t), {}))
    PROVE  DraftIn(in, "drop", f, j, n \ {t}, S, m)
<1>1. /\ LeasesIn(in, "drop", S)
      /\ SamePlaces(T, S) /\ SameFlags(T, S) /\ SameOwners(T, S)
      /\ \A x \in Task \ {t} : SameLeases(T, S, x)
      /\ Leased(S, t) = {}
  <2>1. LeasesIn(in, "drop", T) /\ t \in Task
    BY DEF DraftIn
  <2> QED
    BY <2>1, GoneLeases
<1>2. OwnersIn(in, "drop", j, S) /\ PlacesIn(in, "drop", f, S, m) /\ FlagsIn(in, "drop", S)
  BY <1>1, OwnersSame, PlacesSame, FlagsSame DEF DraftIn
<1>3. NotesIn(in, "drop", n \ {t}, S)
  <2>1. \A x \in n : \E k \in LeaseRows(x) : T[k] = "overdue"
    BY DEF DraftIn, NotesIn
  <2>2. \A x \in n \ {t} : SameLeases(T, S, x)
    BY <1>1
  <2>3. \A x \in n \ {t} : \E k \in LeaseRows(x) : S[k] = "overdue"
    BY <2>1, <2>2 DEF SameLeases
  <2> QED
    BY <2>3 DEF NotesIn
<1> QED
  BY <1>1, <1>2, <1>3 DEF DraftIn

\* Nothing left to drop.
LEMMA DroppedLocal ==
    ASSUME NEW in \in Input, in.kind = "cron",
           NEW f, NEW j \in BOOLEAN, NEW n, NEW T, NEW m \in Nat, DraftIn(in, "drop", f, j, n, T, m)
    PROVE  DraftIn(in, Order[in.kind]["drop"], f, j, n, T, m)
<1>0. Order[in.kind]["drop"] = "commit"
  BY OrderIs
<1>1. OwnersIn(in, "commit", j, T)
  BY DEF DraftIn, OwnersIn, Before
<1>2. PlacesIn(in, "commit", f, T, m)
  BY DEF DraftIn, PlacesIn, Standing, Admitted
<1>3. FlagsIn(in, "commit", T)
  BY DEF DraftIn, FlagsIn, Entering, Cleared
<1>4. LeasesIn(in, "commit", T)
  BY DEF DraftIn, LeasesIn, Freeing, Freed
<1>5. NotesIn(in, "commit", n, T)
  BY DEF NotesIn
<1> QED
  BY <1>0, <1>1, <1>2, <1>3, <1>4, <1>5 DEF DraftIn

-----------------------------------------------------------------------------
(* SQLite, step by step.                                                   *)

\* What a statement makes of the tables T of its request: S.
Makes(r, T, S) ==
    \/ Reads(r) /\ S = T
    \/ \E g : Writes(r, g) /\ S = Over(T, g)

\* Whoever writes on SQLite has the newest tables.
LEMMA WriterIsUpToDate ==
    ASSUME engine = "sqlite", SingleWriter, NEW r \in Request, Open(r), NEW g, Writes(r, g)
    PROVE  r \notin behind /\ snapshot[r] = db /\ Newest(r) = Draft(r)
BY DEF Writes, SingleWriter, Newest, Draft

\* A statement keeps the single writer.
LEMMA StatementWriter ==
    ASSUME engine = "sqlite", SingleWriter, NEW r \in Request, Open(r), Open(r)', Apiece(r),
           UNCHANGED <<db, snapshot, behind>>, Reads(r) \/ \E g : Writes(r, g)
    PROVE  SingleWriter'
<1>1. \A q \in Request : Open(q)' <=> Open(q)
  BY DEF Apiece, Open
<1>2. CASE Reads(r)
  <2>1. UNCHANGED <<own, locks>>
    BY <1>2 DEF Reads
  <2> QED
    BY <1>1, <2>1 DEF SingleWriter, Alone
<1>3. CASE \E g : Writes(r, g)
  <2>1. PICK g : Writes(r, g)
    BY <1>3
  <2>2. r \notin behind /\ snapshot[r] = db
    BY <2>1, WriterIsUpToDate
  <2>3. Alone \in {Nobody, r} /\ Alone' = r
    BY <2>1 DEF Writes
  <2>4. \A q \in Request \ {r} : own'[q] = NoRows
    BY <2>3, RaceAssumption DEF SingleWriter, Apiece, RaceAssumption
  <2> QED
    BY <1>1, <2>2, <2>3, <2>4 DEF SingleWriter
<1> QED
  BY <1>2, <1>3

\* So does a request that begins, with the newest tables or with nothing
\* to do.
LEMMA BeginWriter ==
    ASSUME SingleWriter, NEW r \in Request, ~Open(r), UNCHANGED <<db, own, locks>>,
           \A q \in Request \ {r} : /\ snapshot'[q] = snapshot[q] /\ (q \in behind' <=> q \in behind)
                                    /\ Open(q)' <=> Open(q),
           Open(r)' => snapshot'[r] = db /\ r \notin behind'
    PROVE  SingleWriter'
<1>1. Alone' = Alone /\ own[r] = NoRows /\ Alone # r
  BY DEF Alone, SingleWriter
<1>2. ASSUME NEW q \in Request \ {r}
      PROVE  /\ own'[q] # NoRows => Alone' = q
             /\ Alone' = q => Open(q)' /\ q \notin behind'
             /\ Open(q)' /\ q \notin behind' => snapshot'[q] = db'
  BY <1>1 DEF SingleWriter
<1>3. /\ own'[r] # NoRows => Alone' = r
      /\ Alone' = r => Open(r)' /\ r \notin behind'
      /\ Open(r)' /\ r \notin behind' => snapshot'[r] = db'
  BY <1>1
<1>4. \A q \in Request : /\ own'[q] # NoRows => Alone' = q
                         /\ Alone' = q => Open(q)' /\ q \notin behind'
                         /\ Open(q)' /\ q \notin behind' => snapshot'[q] = db'
  BY <1>2, <1>3
<1>5. Alone' \in Request \cup {Nobody}
  BY <1>1 DEF SingleWriter
<1> QED
  BY <1>4, <1>5 DEF SingleWriter

\* So does one that ends: either nothing new is committed, or everybody
\* else falls behind.
LEMMA EndWriter ==
    ASSUME RaceTypeOK, SingleWriter, NEW r \in Request, ~Open(r)',
           own' = [own EXCEPT ![r] = NoRows], locks' = Unlocked(r),
           \A q \in Request \ {r} : snapshot'[q] = snapshot[q] /\ (Open(q)' <=> Open(q)),
           \/ UNCHANGED <<db, behind>>
           \/ own[r] # NoRows /\ \A q \in Request \ {r} : q \in behind'
    PROVE  SingleWriter'
<1>1. Alone' = IF Alone = r THEN Nobody ELSE Alone
  BY DEF Unlocked, Alone, RaceTypeOK, Lockable
<1>2. r # Nobody /\ own'[r] = NoRows /\ \A q \in Request \ {r} : own'[q] = own[q]
  BY RaceAssumption DEF RaceAssumption, RaceTypeOK
<1>3. ASSUME NEW q \in Request \ {r}
      PROVE  /\ own'[q] # NoRows => Alone' = q
             /\ Alone' = q => Open(q)' /\ q \notin behind'
             /\ Open(q)' /\ q \notin behind' => snapshot'[q] = db'
  <2>1. q # Nobody
    BY RaceAssumption DEF RaceAssumption
  <2>2. /\ own[q] # NoRows => Alone = q
        /\ Alone = q => Open(q) /\ q \notin behind
        /\ Open(q) /\ q \notin behind => snapshot[q] = db
    BY DEF SingleWriter
  <2>3. CASE UNCHANGED <<db, behind>>
    BY <1>1, <1>2, <2>1, <2>2, <2>3
  <2>4. CASE own[r] # NoRows /\ q \in behind'
    <3>1. Alone = r
      BY <2>4 DEF SingleWriter
    <3> QED
      BY <1>1, <1>2, <2>1, <2>2, <2>4, <3>1
  <2> QED
    BY <2>3, <2>4
<1>4. /\ own'[r] # NoRows => Alone' = r
      /\ Alone' = r => Open(r)' /\ r \notin behind'
      /\ Open(r)' /\ r \notin behind' => snapshot'[r] = db'
  BY <1>1, <1>2
<1>5. \A q \in Request : /\ own'[q] # NoRows => Alone' = q
                         /\ Alone' = q => Open(q)' /\ q \notin behind'
                         /\ Open(q)' /\ q \notin behind' => snapshot'[q] = db'
  BY <1>3, <1>4
<1>6. Alone' \in Request \cup {Nobody}
  BY <1>1 DEF SingleWriter
<1> QED
  BY <1>5, <1>6 DEF SingleWriter

\* No statement leads back to the beginning or to the end.
LEMMA OrderStays ==
    ASSUME NEW kind \in Kinds, NEW l \in DOMAIN Order[kind]
    PROVE  Order[kind][l] \notin {"begin", "committed", "refused"}
<1>1. CASE kind = "claim"
  BY <1>1, StatementsAre, OrderIs
<1>2. CASE kind = "drag"
  BY <1>2, StatementsAre, OrderIs
<1>3. CASE kind = "finish"
  BY <1>3, StatementsAre, OrderIs
<1>4. CASE kind = "update"
  BY <1>4, StatementsAre, OrderIs
<1>5. CASE kind = "heartbeat"
  BY <1>5, StatementsAre, OrderIs
<1>6. CASE kind = "cron"
  BY <1>6, StatementsAre, OrderIs
<1> QED
  BY <1>1, <1>2, <1>3, <1>4, <1>5, <1>6 DEF Kinds

\* The next line of a request that is open is one where it is open.
LEMMA NextIsOpen ==
    ASSUME RaceTypeOK, NEW r \in Request, Open(r), pc[r] # "commit"
    PROVE  Order[input[r].kind][pc[r]] \notin {"begin", "committed", "refused"}
<1>1. pc[r] \in DOMAIN Order[input[r].kind] /\ input[r].kind \in Kinds
  BY InputTyped DEF Lines, Ended, Open
<1> QED
  BY <1>1, OrderStays

\* What is known of a request after a statement, from what the statement
\* makes of its tables.
LEMMA DraftAfter ==
    ASSUME RaceTypeOK, NEW r \in Request, Open(r), NEW l,
           NEW f \in Places, NEW j \in BOOLEAN, NEW h \in User, NEW n \in SUBSET Task,
           Does(r, l, f, j, h, n), l \notin {"begin", "committed", "refused"},
           NEW S, Makes(r, Draft(r), S), DraftIn(input[r], l, f, j, n, S, limit),
           input[r].kind = "heartbeat" /\ n # {} => own'[r] # NoRows
    PROVE  /\ Open(r)' /\ DraftOK(r)' /\ Draft(r)' = S
           /\ Apiece(r) /\ UNCHANGED <<engine, limit, input, db, snapshot, behind>>
           /\ Reads(r) \/ \E g : Writes(r, g)
<1>1. Reads(r) \/ \E g : Writes(r, g)
  BY DEF Makes
<1>2. /\ RaceTypeOK' /\ Apiece(r)
      /\ pc'[r] = l /\ found'[r] = f /\ (joins'[r] <=> j) /\ holder'[r] = h /\ noted'[r] = n
      /\ UNCHANGED <<engine, limit, input, db, snapshot, behind>>
  BY <1>1, DoesTyped
<1>3. joins'[r] = j
  <2>1. joins'[r] \in BOOLEAN
    BY <1>2 DEF RaceTypeOK
  <2> QED
    BY <1>2, <2>1
<1>4. Over(snapshot'[r], own'[r]) = S
  <2>1. CASE Reads(r) /\ S = Draft(r)
    BY <2>1 DEF Reads, Draft
  <2>2. CASE \E g : Writes(r, g) /\ S = Over(Draft(r), g)
    <3>1. PICK g : Writes(r, g) /\ S = Over(Draft(r), g)
      BY <2>2
    <3>2. own'[r] = Over(own[r], g) /\ snapshot' = snapshot
      BY <3>1 DEF Writes, RaceTypeOK
    <3>3. Over(snapshot[r], Over(own[r], g)) = Over(Over(snapshot[r], own[r]), g)
      BY OverTwice
    <3> QED
      BY <3>1, <3>2, <3>3 DEF Draft
  <2> QED
    BY <2>1, <2>2 DEF Makes
<1>5. Open(r)'
  BY <1>2 DEF Open
<1>6. Draft(r)' = S
  BY <1>4 DEF Draft
<1>7. DraftOK(r)'
  BY <1>2, <1>3, <1>6 DEF DraftOK
<1> QED
  BY <1>1, <1>2, <1>5, <1>6, <1>7

\* Which handlers run a statement.
LEMMA LineKinds ==
    ASSUME RaceTypeOK, NEW r \in Request
    PROVE  /\ pc[r] \in {"check", "room", "assign", "conflicts", "lease"}
                => input[r].kind \in {"claim", "drag"}
           /\ pc[r] \in {"row", "flag", "move"} => input[r].kind \in {"claim", "drag", "finish", "update"}
           /\ pc[r] \in {"free", "count", "close", "view"} => input[r].kind \in {"finish", "update"}
           /\ pc[r] \in {"freeAgain", "early", "earlyClose", "final"} => input[r].kind = "update"
           /\ pc[r] = "beat" => input[r].kind = "heartbeat"
           /\ pc[r] \in {"select", "drop"} => input[r].kind = "cron"
<1>1. input[r].kind \in Kinds /\ pc[r] \in Lines(input[r].kind)
  BY InputTyped
<1> QED
  BY <1>1, LinesAre DEF Kinds

\* Fresh leases stay fresh, but for those of a task that the request finishes.
Spares(r, T, S) ==
    \A x \in Task : Beaten(T, x) => Beaten(S, x) \/ (Finishes(r) /\ input[r].task = x)

\* Leases that are not touched stay fresh.
LEMMA SparesSame ==
    ASSUME NEW r, NEW T, NEW S, \A x \in Task : SameLeases(T, S, x)
    PROVE  Spares(r, T, S)
BY LeasedSame DEF Spares

\* A flag that is written leaves the leases alone.
LEMMA FlagSpares ==
    ASSUME NEW T, IsTables(T), NEW t \in Task, NEW b \in BOOLEAN
    PROVE  \A x \in Task : SameLeases(T, Over(T, FlagRow(t, b)), x)
<1>1. /\ IsPart(FlagRow(t, b)) /\ IsTables(Over(T, FlagRow(t, b)))
      /\ SamePlaces(T, Over(T, FlagRow(t, b))) /\ SameOwners(T, Over(T, FlagRow(t, b)))
      /\ \A x \in Task : SameLeases(T, Over(T, FlagRow(t, b)), x)
      /\ \A x \in Task : Over(T, FlagRow(t, b))[Done(x)] <=> IF x = t THEN b ELSE T[Done(x)]
  BY FlagWritten
<1> QED
  BY <1>1

\* What every statement does on SQLite.
Carries(r) ==
    /\ Open(r)' /\ DraftOK(r)'
    /\ Apiece(r) /\ UNCHANGED <<engine, limit, input, db, snapshot, behind>>
    /\ Reads(r) \/ \E g : Writes(r, g)
    /\ Spares(r, Draft(r), Draft(r)')

\* It does, where it makes of its tables what it should.
LEMMA CarriesOn ==
    ASSUME RaceTypeOK, NEW r \in Request, Open(r), NEW l,
           NEW f \in Places, NEW j \in BOOLEAN, NEW h \in User, NEW n \in SUBSET Task,
           Does(r, l, f, j, h, n), l \notin {"begin", "committed", "refused"},
           NEW S, Makes(r, Draft(r), S), DraftIn(input[r], l, f, j, n, S, limit),
           input[r].kind = "heartbeat" /\ n # {} => own'[r] # NoRows,
           Spares(r, Draft(r), S)
    PROVE  Carries(r)
<1>1. /\ Open(r)' /\ DraftOK(r)' /\ Draft(r)' = S
      /\ Apiece(r) /\ UNCHANGED <<engine, limit, input, db, snapshot, behind>>
      /\ Reads(r) \/ \E g : Writes(r, g)
  BY DraftAfter
<1> QED
  BY <1>1 DEF Carries

\* The same where the tables are only read.
LEMMA ReadsOn ==
    ASSUME RaceTypeOK, NEW r \in Request, Open(r), NEW l,
           NEW f \in Places, NEW j \in BOOLEAN, NEW h \in User, NEW n \in SUBSET Task,
           Does(r, l, f, j, h, n), l \notin {"begin", "committed", "refused"}, Reads(r),
           DraftIn(input[r], l, f, j, n, Draft(r), limit),
           input[r].kind # "heartbeat"
    PROVE  Carries(r)
<1>1. Makes(r, Draft(r), Draft(r))
  BY DEF Makes
<1>2. Spares(r, Draft(r), Draft(r))
  BY DEF Spares
<1> QED
  BY <1>1, <1>2, CarriesOn

\* What is known of a request before a statement.
LEMMA InHand ==
    ASSUME RaceTypeOK, engine = "sqlite", NEW r \in Request, Open(r), DraftOK(r)
    PROVE  /\ DraftIn(input[r], pc[r], found[r], joins[r], noted[r], Draft(r), limit)
           /\ IsTables(Draft(r)) /\ Sees(r) = Draft(r)
           /\ input[r] \in Input /\ limit \in Nat
           /\ found[r] \in Places /\ joins[r] \in BOOLEAN /\ holder[r] \in User
           /\ noted[r] \in SUBSET Task
BY SeesTyped, InputTyped DEF DraftOK, RaceTypeOK

\* A claim that pins its row keeps the bucket it found.
LEMMA PinCarries ==
    ASSUME RaceTypeOK, engine = "sqlite", NEW r \in Request, DraftOK(r), PinRow(r)
    PROVE  Carries(r)
<1>1. Open(r) /\ pc[r] = "row" /\ input[r].kind = "claim" /\ Reads(r)
  BY PinDoes
<1>2. PICK b \in Places : /\ Does(r, "check", b, joins[r], holder[r], noted[r])
                          /\ engine = "sqlite" => b = Draft(r)[Bucket(input[r].task)]
  BY PinDoes
<1>3. /\ DraftIn(input[r], pc[r], found[r], joins[r], noted[r], Draft(r), limit)
      /\ IsTables(Draft(r)) /\ Sees(r) = Draft(r)
      /\ input[r] \in Input /\ limit \in Nat
      /\ found[r] \in Places /\ joins[r] \in BOOLEAN /\ holder[r] \in User
      /\ noted[r] \in SUBSET Task
  BY <1>1, InHand
<1>4. DraftIn(input[r], "check", b, joins[r], noted[r], Draft(r), limit)
  BY <1>1, <1>2, <1>3, PinLocal
<1> QED
  BY <1>1, <1>2, <1>3, <1>4, ReadsOn

\* A request that reads its row keeps the bucket it found.
LEMMA RowCarries ==
    ASSUME RaceTypeOK, engine = "sqlite", NEW r \in Request, DraftOK(r), ReadRow(r)
    PROVE  Carries(r)
<1>1. Open(r) /\ pc[r] = "row" /\ input[r].kind # "claim" /\ Reads(r)
  BY RowDoes
<1>2. input[r].kind \in {"drag", "finish", "update"}
  BY <1>1, LineKinds
<1>3. /\ DraftIn(input[r], pc[r], found[r], joins[r], noted[r], Draft(r), limit)
      /\ IsTables(Draft(r)) /\ Sees(r) = Draft(r)
      /\ input[r] \in Input /\ limit \in Nat
      /\ found[r] \in Places /\ joins[r] \in BOOLEAN /\ holder[r] \in User
      /\ noted[r] \in SUBSET Task
  BY <1>1, InHand
<1>8. PICK b \in Places : \E l :
         /\ Does(r, l, b, joins[r], holder[r], noted[r])
         /\ b = Sees(r)[Bucket(input[r].task)]
         /\ IF b = (IF input[r].kind = "drag" THEN "doing" ELSE "done")
            THEN l = IF input[r].kind = "update" THEN "final" ELSE "commit"
            ELSE IF input[r].kind # "drag" /\ Sees(r)[Done(input[r].task)] THEN l = "move"
            ELSE l = Order[input[r].kind]["row"]
  BY RowDoes
<1>4. PICK l :
         /\ Does(r, l, b, joins[r], holder[r], noted[r])
         /\ b = Sees(r)[Bucket(input[r].task)]
         /\ IF b = (IF input[r].kind = "drag" THEN "doing" ELSE "done")
            THEN l = IF input[r].kind = "update" THEN "final" ELSE "commit"
            ELSE IF input[r].kind # "drag" /\ Sees(r)[Done(input[r].task)] THEN l = "move"
            ELSE l = Order[input[r].kind]["row"]
  BY <1>8
<1>5. DraftIn(input[r], l, b, joins[r], noted[r], Draft(r), limit)
  BY <1>1, <1>2, <1>3, <1>4, RowLocal
<1>6. Order[input[r].kind]["row"] \notin {"begin", "committed", "refused"}
  BY <1>1, NextIsOpen
<1>7. l \notin {"begin", "committed", "refused"}
  BY <1>4, <1>6
<1> QED
  BY <1>1, <1>2, <1>3, <1>4, <1>5, <1>7, ReadsOn

\* Whoever passes the check of the assignees knows that nobody else has
\* the task.
LEMMA CheckCarries ==
    ASSUME RaceTypeOK, engine = "sqlite", NEW r \in Request, DraftOK(r), CheckAssignees(r), ~Refuse(r)
    PROVE  Carries(r)
<1>1. /\ Open(r) /\ pc[r] = "check"
      /\ Acceptable(r, Who(Sees(r), input[r].task)) /\ Reads(r)
      /\ \E j \in BOOLEAN, h \in User :
            /\ Does(r, Order[input[r].kind]["check"], found[r], j, h, noted[r])
            /\ j <=> Who(Sees(r), input[r].task) = {}
  BY CheckDoes
<1>2. input[r].kind \in {"claim", "drag"}
  BY <1>1, LineKinds
<1>3. /\ DraftIn(input[r], pc[r], found[r], joins[r], noted[r], Draft(r), limit)
      /\ IsTables(Draft(r)) /\ Sees(r) = Draft(r)
      /\ input[r] \in Input /\ limit \in Nat
      /\ found[r] \in Places /\ joins[r] \in BOOLEAN /\ holder[r] \in User
      /\ noted[r] \in SUBSET Task
  BY <1>1, InHand
<1>4. PICK j \in BOOLEAN, h \in User :
         /\ Does(r, Order[input[r].kind]["check"], found[r], j, h, noted[r])
         /\ j <=> Who(Sees(r), input[r].task) = {}
  BY <1>1
<1>5. input[r].kind = "claim" => Who(Draft(r), input[r].task) \subseteq {input[r].user}
  BY <1>1, <1>3 DEF Acceptable
<1>6. DraftIn(input[r], Order[input[r].kind]["check"], found[r], j, noted[r], Draft(r), limit)
  BY <1>1, <1>2, <1>3, <1>4, <1>5, CheckLocal
<1>7. Order[input[r].kind]["check"] \notin {"begin", "committed", "refused"}
  BY <1>1, NextIsOpen
<1> QED
  BY <1>1, <1>2, <1>3, <1>4, <1>6, <1>7, ReadsOn

\* Whoever passes the check of the limit knows that there is room.
LEMMA RoomCarries ==
    ASSUME RaceTypeOK, engine = "sqlite", IsFiniteSet(Task), NEW r \in Request, DraftOK(r),
           CheckRoom(r), ~Refuse(r)
    PROVE  Carries(r)
<1>1. /\ Open(r) /\ pc[r] = "room" /\ Reads(r)
      /\ \/ /\ found[r] = "doing"
            /\ Does(r, "assign", found[r], joins[r], holder[r], noted[r])
         \/ /\ found[r] # "doing"
            /\ limit > 0 => ~(Cardinality(InBucket(Sees(r), "doing")) >= limit)
            /\ Does(r, Order[input[r].kind]["room"], found[r], joins[r], holder[r], noted[r])
  BY RoomDoes
<1>2. input[r].kind \in {"claim", "drag"}
  BY <1>1, LineKinds
<1>3. /\ DraftIn(input[r], pc[r], found[r], joins[r], noted[r], Draft(r), limit)
      /\ IsTables(Draft(r)) /\ Sees(r) = Draft(r)
      /\ input[r] \in Input /\ limit \in Nat
      /\ found[r] \in Places /\ joins[r] \in BOOLEAN /\ holder[r] \in User
      /\ noted[r] \in SUBSET Task
  BY <1>1, InHand
<1>4. Order[input[r].kind]["room"] \notin {"begin", "committed", "refused"}
  BY <1>1, NextIsOpen
<1>5. PICK l : /\ Does(r, l, found[r], joins[r], holder[r], noted[r])
               /\ l \notin {"begin", "committed", "refused"}
               /\ \/ found[r] = "doing" /\ l = "assign"
                  \/ /\ found[r] # "doing" /\ l = Order[input[r].kind]["room"]
                     /\ limit > 0 => ~(Cardinality(InBucket(Draft(r), "doing")) >= limit)
  BY <1>1, <1>3, <1>4
<1>6. DraftIn(input[r], l, found[r], joins[r], noted[r], Draft(r), limit)
  BY <1>1, <1>2, <1>3, <1>5, RoomLocal
<1> QED
  BY <1>1, <1>2, <1>3, <1>5, <1>6, ReadsOn

\* Writing the done flag of the task at hand keeps what is known of the
\* tables.
LEMMA FlagCarries ==
    ASSUME RaceTypeOK, engine = "sqlite", NEW r \in Request, DraftOK(r), WriteFlag(r)
    PROVE  Carries(r)
<1>1. /\ Open(r) /\ pc[r] \in {"flag", "final"}
      /\ Does(r, Order[input[r].kind][pc[r]], found[r], joins[r], holder[r], noted[r])
      /\ \/ ~Finishes(r) /\ found[r] # "done" /\ Reads(r)
         \/ ~Finishes(r) /\ found[r] = "done" /\ Writes(r, FlagRow(input[r].task, FALSE))
         \/ Finishes(r) /\ Writes(r, FlagRow(input[r].task, TRUE))
  BY FlagDoes
<1>2. /\ pc[r] = "flag" => input[r].kind \in {"claim", "drag", "finish", "update"}
      /\ pc[r] = "final" => input[r].kind = "update"
  BY LineKinds
<1>3. /\ DraftIn(input[r], pc[r], found[r], joins[r], noted[r], Draft(r), limit)
      /\ IsTables(Draft(r)) /\ Sees(r) = Draft(r)
      /\ input[r] \in Input /\ limit \in Nat
      /\ found[r] \in Places /\ joins[r] \in BOOLEAN /\ holder[r] \in User
      /\ noted[r] \in SUBSET Task
  BY <1>1, InHand
<1>4. Order[input[r].kind][pc[r]] \notin {"begin", "committed", "refused"}
  BY <1>1, NextIsOpen
<1>5. input[r].kind # "heartbeat" /\ input[r].task \in Task
  BY <1>1, <1>2, InputTyped
<1>6. CASE ~Finishes(r)
  <2>1. input[r].kind \in {"claim", "drag"} /\ pc[r] = "flag"
    BY <1>1, <1>2, <1>6 DEF Finishes
  <2>2. PICK S : /\ Makes(r, Draft(r), S)
                 /\ \/ found[r] # "done" /\ S = Draft(r)
                    \/ found[r] = "done" /\ S = Over(Draft(r), FlagRow(input[r].task, FALSE))
    BY <1>1, <1>6 DEF Makes
  <2>3. DraftIn(input[r], Order[input[r].kind]["flag"], found[r], joins[r], noted[r], S, limit)
    BY <1>3, <2>1, <2>2, OpenLocal
  <2>4. \A x \in Task : SameLeases(Draft(r), S, x)
    <3>1. CASE S = Draft(r)
      BY <3>1 DEF SameLeases
    <3>2. CASE S = Over(Draft(r), FlagRow(input[r].task, FALSE))
      BY <1>3, <1>5, <3>2, FlagSpares
    <3> QED
      BY <2>2, <3>1, <3>2
  <2>5. Spares(r, Draft(r), S)
    BY <2>4, SparesSame
  <2> QED
    BY <1>1, <1>3, <1>4, <1>5, <2>1, <2>2, <2>3, <2>5, CarriesOn
<1>7. CASE Finishes(r)
  <2> DEFINE S == Over(Draft(r), FlagRow(input[r].task, TRUE))
  <2>1. /\ input[r].kind \in {"finish", "update"}
        /\ \/ input[r].kind \in {"finish", "update"} /\ pc[r] = "flag"
           \/ input[r].kind = "update" /\ pc[r] = "final"
    BY <1>1, <1>2, <1>7 DEF Finishes
  <2>2. Makes(r, Draft(r), S)
    BY <1>1, <1>7 DEF Makes
  <2>3. DraftIn(input[r], Order[input[r].kind][pc[r]], found[r], joins[r], noted[r], S, limit)
    BY <1>3, <2>1, DoneLocal
  <2>4. \A x \in Task : SameLeases(Draft(r), S, x)
    BY <1>3, <1>5, FlagSpares
  <2> HIDE DEF S
  <2>5. Spares(r, Draft(r), S)
    BY <2>4, SparesSame
  <2> QED
    BY <1>1, <1>3, <1>4, <1>5, <2>2, <2>3, <2>5, CarriesOn
<1> QED
  BY <1>6, <1>7

\* Moving the task at hand keeps what is known of the tables: into the
\* limited bucket there is room for one, and into the done bucket goes a
\* task that is done.
LEMMA MoveCarries ==
    ASSUME RaceTypeOK, engine = "sqlite", IsFiniteSet(Task), NEW r \in Request, DraftOK(r), MoveRow(r)
    PROVE  Carries(r)
<1> DEFINE b == IF Finishes(r) THEN "done" ELSE "doing"
           S == Over(Draft(r), PlaceRow(input[r].task, b))
<1>1. /\ Open(r) /\ pc[r] = "move"
      /\ Does(r, Order[input[r].kind]["move"], found[r], joins[r], holder[r], noted[r])
      /\ Writes(r, PlaceRow(input[r].task, IF Finishes(r) THEN "done" ELSE "doing"))
  BY MoveDoes
<1>2. input[r].kind \in {"claim", "drag", "finish", "update"}
  BY <1>1, LineKinds
<1>3. /\ DraftIn(input[r], pc[r], found[r], joins[r], noted[r], Draft(r), limit)
      /\ IsTables(Draft(r)) /\ Sees(r) = Draft(r)
      /\ input[r] \in Input /\ limit \in Nat
      /\ found[r] \in Places /\ joins[r] \in BOOLEAN /\ holder[r] \in User
      /\ noted[r] \in SUBSET Task
  BY <1>1, InHand
<1>4. Order[input[r].kind]["move"] \notin {"begin", "committed", "refused"}
  BY <1>1, NextIsOpen
<1>5. Makes(r, Draft(r), S)
  BY <1>1 DEF Makes
<1>6. b = (IF input[r].kind \in {"finish", "update"} THEN "done" ELSE "doing") /\ b \in Places
  BY DEF Finishes, Places
<1> HIDE DEF b
<1>7. DraftIn(input[r], Order[input[r].kind]["move"], found[r], joins[r], noted[r], S, limit)
  BY <1>1, <1>2, <1>3, <1>6, MoveLocal
<1>8. \A x \in Task : SameLeases(Draft(r), S, x)
  BY <1>3, <1>6, InputTyped, PlaceWritten
<1> HIDE DEF S
<1>9. Spares(r, Draft(r), S)
  BY <1>8, SparesSame
<1> QED
  BY <1>1, <1>2, <1>3, <1>4, <1>5, <1>7, <1>9, CarriesOn

\* Assigning the task at hand keeps what is known of the tables: nobody
\* else has it.
LEMMA AssignCarries ==
    ASSUME RaceTypeOK, engine = "sqlite", NEW r \in Request, DraftOK(r), Assign(r)
    PROVE  Carries(r)
<1>1. /\ Open(r) /\ pc[r] = "assign"
      /\ Does(r, Order[input[r].kind]["assign"], found[r], joins[r], holder[r], noted[r])
      /\ \/ ~joins[r] /\ Reads(r)
         \/ joins[r] /\ Writes(r, OwnerRow(input[r].task, input[r].user))
  BY AssignDoes
<1>2. input[r].kind \in {"claim", "drag"} /\ input[r].task \in Task /\ input[r].user \in User
  BY <1>1, LineKinds, InputTyped
<1>3. /\ DraftIn(input[r], pc[r], found[r], joins[r], noted[r], Draft(r), limit)
      /\ IsTables(Draft(r)) /\ Sees(r) = Draft(r)
      /\ input[r] \in Input /\ limit \in Nat
      /\ found[r] \in Places /\ joins[r] \in BOOLEAN /\ holder[r] \in User
      /\ noted[r] \in SUBSET Task
  BY <1>1, InHand
<1>4. Order[input[r].kind]["assign"] \notin {"begin", "committed", "refused"}
  BY <1>1, NextIsOpen
<1>5. PICK S : /\ Makes(r, Draft(r), S)
               /\ \/ ~joins[r] /\ S = Draft(r)
                  \/ joins[r] /\ S = Over(Draft(r), OwnerRow(input[r].task, input[r].user))
  BY <1>1 DEF Makes
<1>6. DraftIn(input[r], Order[input[r].kind]["assign"], found[r], joins[r], noted[r], S, limit)
  BY <1>1, <1>2, <1>3, <1>5, AssignLocal
<1>7. \A x \in Task : SameLeases(Draft(r), S, x)
  <2>1. CASE S = Draft(r)
    BY <2>1 DEF SameLeases
  <2>2. CASE S = Over(Draft(r), OwnerRow(input[r].task, input[r].user))
    BY <1>2, <1>3, <2>2, OwnerWritten
  <2> QED
    BY <1>5, <2>1, <2>2
<1>8. Spares(r, Draft(r), S)
  BY <1>7, SparesSame
<1> QED
  BY <1>1, <1>2, <1>3, <1>4, <1>5, <1>6, <1>8, CarriesOn

\* Whoever passes the check of the leases knows that nobody holds an
\* overlapping path.
LEMMA ConflictsCarries ==
    ASSUME RaceTypeOK, engine = "sqlite", NEW r \in Request, DraftOK(r), CheckLeases(r), ~Refuse(r)
    PROVE  Carries(r)
<1>1. /\ Open(r) /\ pc[r] = "conflicts"
      /\ Reads(r) /\ ~InTheWay(Sees(r), input[r].task)
      /\ Does(r, Order[input[r].kind]["conflicts"], found[r], joins[r], holder[r], noted[r])
  BY ConflictsDoes
<1>2. input[r].kind \in {"claim", "drag"}
  BY <1>1, LineKinds
<1>3. /\ DraftIn(input[r], pc[r], found[r], joins[r], noted[r], Draft(r), limit)
      /\ IsTables(Draft(r)) /\ Sees(r) = Draft(r)
      /\ input[r] \in Input /\ limit \in Nat
      /\ found[r] \in Places /\ joins[r] \in BOOLEAN /\ holder[r] \in User
      /\ noted[r] \in SUBSET Task
  BY <1>1, InHand
<1>4. Order[input[r].kind]["conflicts"] \notin {"begin", "committed", "refused"}
  BY <1>1, NextIsOpen
<1>5. DraftIn(input[r], Order[input[r].kind]["conflicts"], found[r], joins[r], noted[r], Draft(r), limit)
  BY <1>1, <1>2, <1>3, ConflictsLocal
<1> QED
  BY <1>1, <1>2, <1>3, <1>4, <1>5, ReadsOn

\* Taking the leases of a scope keeps them apart.
LEMMA LeaseCarries ==
    ASSUME RaceTypeOK, engine = "sqlite", OverlapMutual, SingleWriter,
           NEW r \in Request, DraftOK(r), TakeLeases(r)
    PROVE  Carries(r)
<1> DEFINE t == input[r].task
           fresh == {Lease(t, holder[r], p) : p \in ScopeOf[t]}
<1>1. /\ Open(r) /\ pc[r] = "lease"
      /\ Does(r, Order[input[r].kind]["lease"], found[r], joins[r], holder[r], noted[r])
      /\ \/ ScopeOf[t] = {} /\ Reads(r)
         \/ ScopeOf[t] # {} /\ Refills(r, t, fresh)
  BY LeaseDoes
<1>2. input[r].kind \in {"claim", "drag"} /\ t \in Task /\ holder[r] \in User
  BY <1>1, LineKinds, InputTyped
<1>3. /\ DraftIn(input[r], pc[r], found[r], joins[r], noted[r], Draft(r), limit)
      /\ IsTables(Draft(r)) /\ Sees(r) = Draft(r)
      /\ input[r] \in Input /\ limit \in Nat
      /\ found[r] \in Places /\ joins[r] \in BOOLEAN /\ holder[r] \in User
      /\ noted[r] \in SUBSET Task
  BY <1>1, InHand
<1>4. Order[input[r].kind]["lease"] \notin {"begin", "committed", "refused"}
  BY <1>1, NextIsOpen
<1>5. PICK S : /\ Makes(r, Draft(r), S)
               /\ \/ ScopeOf[t] = {} /\ S = Draft(r)
                  \/ ScopeOf[t] # {} /\ S = Over(Draft(r), Replaced(Leased(Draft(r), t), fresh))
  <2>1. CASE ScopeOf[t] = {} /\ Reads(r)
    BY <2>1 DEF Makes
  <2>2. CASE ScopeOf[t] # {} /\ Refills(r, t, fresh)
    <3>1. Writes(r, Replaced(Leased(Newest(r), t), fresh))
      BY <2>2 DEF Refills
    <3>2. Newest(r) = Draft(r)
      BY <1>1, <3>1, WriterIsUpToDate
    <3> QED
      BY <2>2, <3>1, <3>2 DEF Makes
  <2> QED
    BY <1>1, <2>1, <2>2
<1>6. DraftIn(input[r], Order[input[r].kind]["lease"], found[r], joins[r], noted[r], S, limit)
  BY <1>1, <1>2, <1>3, <1>5, LeaseLocal
<1>7. Spares(r, Draft(r), S)
  <2>1. CASE S = Draft(r)
    BY <2>1 DEF Spares
  <2>2. CASE ScopeOf[t] # {} /\ S = Over(Draft(r), Replaced(Leased(Draft(r), t), fresh))
    <3>1. fresh \in SUBSET LeaseRows(t) /\ fresh # {}
      <4>1. ScopeOf[t] \subseteq Pattern
        BY <1>2, RaceAssumption DEF RaceAssumption
      <4> QED
        BY <1>2, <2>2, <4>1 DEF LeaseRows
    <3> HIDE DEF fresh
    <3>2. /\ SamePlaces(Draft(r), S) /\ SameFlags(Draft(r), S) /\ SameOwners(Draft(r), S)
          /\ \A x \in Task \ {t} : SameLeases(Draft(r), S, x)
          /\ \A k \in LeaseRows(t) : S[k] = IF k \in fresh THEN "active" ELSE "none"
          /\ Leased(S, t) = fresh
      BY <1>2, <1>3, <2>2, <3>1, Refilled
    <3>3. Beaten(S, t)
      BY <3>1, <3>2 DEF Beaten
    <3>4. \A x \in Task \ {t} : Beaten(S, x) <=> Beaten(Draft(r), x)
      BY <3>2, LeasedSame
    <3> QED
      BY <3>3, <3>4 DEF Spares
  <2> QED
    BY <1>5, <2>1, <2>2
<1> QED
  BY <1>1, <1>2, <1>3, <1>4, <1>5, <1>6, <1>7, CarriesOn

\* Freeing the leases of the task at hand keeps what is known of the
\* tables.
LEMMA FreeCarries ==
    ASSUME RaceTypeOK, engine = "sqlite", SingleWriter, NEW r \in Request, DraftOK(r), FreeLeases(r)
    PROVE  Carries(r)
<1> DEFINE t == input[r].task
           S == Over(Draft(r), Replaced(Leased(Draft(r), t), {}))
<1>1. /\ Open(r) /\ pc[r] \in {"free", "freeAgain"}
      /\ Does(r, Order[input[r].kind][pc[r]], found[r], joins[r], holder[r], noted[r])
      /\ Refills(r, t, {})
  BY FreeDoes
<1>2. /\ t \in Task /\ input[r].kind \in {"finish", "update"}
      /\ \/ input[r].kind = "finish" /\ pc[r] = "free"
         \/ input[r].kind = "update" /\ pc[r] \in {"free", "freeAgain"}
  BY <1>1, LineKinds, InputTyped
<1>3. /\ DraftIn(input[r], pc[r], found[r], joins[r], noted[r], Draft(r), limit)
      /\ IsTables(Draft(r)) /\ Sees(r) = Draft(r)
      /\ input[r] \in Input /\ limit \in Nat
      /\ found[r] \in Places /\ joins[r] \in BOOLEAN /\ holder[r] \in User
      /\ noted[r] \in SUBSET Task
  BY <1>1, InHand
<1>4. Order[input[r].kind][pc[r]] \notin {"begin", "committed", "refused"}
  BY <1>1, NextIsOpen
<1>5. Makes(r, Draft(r), S)
  <2>1. Writes(r, Replaced(Leased(Newest(r), t), {}))
    BY <1>1 DEF Refills
  <2>2. Newest(r) = Draft(r)
    BY <1>1, <2>1, WriterIsUpToDate
  <2> QED
    BY <2>1, <2>2 DEF Makes
<1>6. DraftIn(input[r], Order[input[r].kind][pc[r]], found[r], joins[r], noted[r], S, limit)
  BY <1>2, <1>3, FreeLocal
<1>7. Spares(r, Draft(r), S)
  <2>1. LeasesIn(input[r], pc[r], Draft(r)) /\ pc[r] # "lease"
    BY <1>1, <1>3 DEF DraftIn
  <2>2. \A x \in Task \ {t} : SameLeases(Draft(r), S, x)
    BY <1>2, <1>3, <2>1, GoneLeases
  <2>3. Finishes(r)
    BY <1>2 DEF Finishes
  <2> HIDE DEF S
  <2>4. \A x \in Task \ {t} : Beaten(S, x) <=> Beaten(Draft(r), x)
    BY <2>2, LeasedSame
  <2> QED
    BY <2>3, <2>4 DEF Spares
<1> HIDE DEF S
<1> QED
  BY <1>1, <1>2, <1>3, <1>4, <1>5, <1>6, <1>7, CarriesOn

\* Counting what is left open of a parent keeps what is known of the
\* tables.
LEMMA CountCarries ==
    ASSUME RaceTypeOK, engine = "sqlite", NEW r \in Request, DraftOK(r), CountOpen(r)
    PROVE  Carries(r)
<1>1. Open(r) /\ pc[r] \in {"early", "count"} /\ Reads(r)
  BY CountDoes
<1>2. /\ \/ input[r].kind = "finish" /\ pc[r] = "count"
         \/ input[r].kind = "update" /\ pc[r] \in {"early", "count"}
  BY <1>1, LineKinds
<1>3. /\ DraftIn(input[r], pc[r], found[r], joins[r], noted[r], Draft(r), limit)
      /\ IsTables(Draft(r)) /\ Sees(r) = Draft(r)
      /\ input[r] \in Input /\ limit \in Nat
      /\ found[r] \in Places /\ joins[r] \in BOOLEAN /\ holder[r] \in User
      /\ noted[r] \in SUBSET Task
  BY <1>1, InHand
<1>4. Order[input[r].kind][pc[r]] \notin {"begin", "committed", "refused"}
  BY <1>1, NextIsOpen
<1>5. PICK n \in SUBSET Task :
         /\ Does(r, Order[input[r].kind][pc[r]], found[r], joins[r], holder[r], n)
         /\ \A q \in n : SubtasksOf[q] # {}
  BY CountDoes
<1>6. DraftIn(input[r], Order[input[r].kind][pc[r]], found[r], joins[r], n, Draft(r), limit)
  BY <1>2, <1>3, <1>5, CountLocal
<1> QED
  BY <1>1, <1>2, <1>3, <1>4, <1>5, <1>6, ReadsOn

\* Closing a parent keeps what is known of the tables: parents hold no
\* leases.
LEMMA CloseCarries ==
    ASSUME RaceTypeOK, engine = "sqlite", IsFiniteSet(Task), NEW r \in Request, DraftOK(r), CloseParent(r)
    PROVE  Carries(r)
<1>1. Open(r) /\ pc[r] \in {"earlyClose", "close"} /\ input[r].kind \in {"finish", "update"}
  BY CloseDoes
<1>2. \/ input[r].kind = "finish" /\ pc[r] = "close"
      \/ input[r].kind = "update" /\ pc[r] \in {"earlyClose", "close"}
  BY <1>1, LineKinds
<1>3. /\ DraftIn(input[r], pc[r], found[r], joins[r], noted[r], Draft(r), limit)
      /\ IsTables(Draft(r)) /\ Sees(r) = Draft(r)
      /\ input[r] \in Input /\ limit \in Nat
      /\ found[r] \in Places /\ joins[r] \in BOOLEAN /\ holder[r] \in User
      /\ noted[r] \in SUBSET Task
  BY <1>1, InHand
<1>4. PICK l : \E n \in SUBSET noted[r] :
         /\ Does(r, l, found[r], joins[r], holder[r], n)
         /\ \/ l \in {pc[r], Order[input[r].kind][pc[r]]}
            \/ l = "move" /\ input[r].kind = "finish"
         /\ Reads(r) \/ \E q \in noted[r] : Writes(r, ClosedRows(q))
  BY CloseDoes
<1>5. PICK n \in SUBSET noted[r] :
         /\ Does(r, l, found[r], joins[r], holder[r], n)
         /\ \/ l \in {pc[r], Order[input[r].kind][pc[r]]}
            \/ l = "move" /\ input[r].kind = "finish"
         /\ Reads(r) \/ \E q \in noted[r] : Writes(r, ClosedRows(q))
  BY <1>4
<1>6. \/ input[r].kind = "finish" /\ pc[r] = "close" /\ l \in {"close", "view", "move"}
      \/ input[r].kind = "update" /\ pc[r] = "earlyClose" /\ l \in {"earlyClose", "row"}
      \/ input[r].kind = "update" /\ pc[r] = "close" /\ l \in {"close", "move"}
  BY <1>2, <1>5, OrderIs
<1>7. PICK S : /\ Makes(r, Draft(r), S)
               /\ S = Draft(r) \/ \E q \in noted[r] : S = Over(Draft(r), ClosedRows(q))
  BY <1>5 DEF Makes
<1>8. DraftIn(input[r], l, found[r], joins[r], n, S, limit)
  BY <1>3, <1>6, <1>7, CloseLocal
<1>9. \A x \in Task : SameLeases(Draft(r), S, x)
  <2>1. CASE S = Draft(r)
    BY <2>1 DEF SameLeases
  <2>2. CASE \E q \in noted[r] : S = Over(Draft(r), ClosedRows(q))
    BY <1>3, <2>2, ClosedWritten
  <2> QED
    BY <1>7, <2>1, <2>2
<1>10. Spares(r, Draft(r), S)
  BY <1>9, SparesSame
<1>11. n \in SUBSET Task /\ l \notin {"begin", "committed", "refused"} /\ input[r].kind # "heartbeat"
  BY <1>3, <1>6
<1> QED
  BY <1>1, <1>3, <1>5, <1>7, <1>8, <1>10, <1>11, CarriesOn

\* Locking the view keeps what is known of the tables.
LEMMA ViewCarries ==
    ASSUME RaceTypeOK, engine = "sqlite", NEW r \in Request, DraftOK(r), LockView(r)
    PROVE  Carries(r)
<1>1. /\ Open(r) /\ pc[r] = "view" /\ Reads(r)
      /\ Does(r, Order[input[r].kind]["view"], found[r], joins[r], holder[r], noted[r])
  BY ViewDoes
<1>2. input[r].kind \in {"finish", "update"}
  BY <1>1, LineKinds
<1>3. /\ DraftIn(input[r], pc[r], found[r], joins[r], noted[r], Draft(r), limit)
      /\ IsTables(Draft(r)) /\ Sees(r) = Draft(r)
      /\ input[r] \in Input /\ limit \in Nat
      /\ found[r] \in Places /\ joins[r] \in BOOLEAN /\ holder[r] \in User
      /\ noted[r] \in SUBSET Task
  BY <1>1, InHand
<1>4. Order[input[r].kind]["view"] \notin {"begin", "committed", "refused"}
  BY <1>1, NextIsOpen
<1>5. DraftIn(input[r], Order[input[r].kind]["view"], found[r], joins[r], noted[r], Draft(r), limit)
  BY <1>1, <1>2, <1>3, ViewLocal
<1> QED
  BY <1>1, <1>2, <1>3, <1>4, <1>5, ReadsOn

\* A heartbeat leaves nothing of its task overdue.
LEMMA BeatCarries ==
    ASSUME RaceTypeOK, engine = "sqlite", SingleWriter, NEW r \in Request, DraftOK(r), Heartbeat(r)
    PROVE  Carries(r)
<1> DEFINE t == input[r].task
           there == Leased(Draft(r), t)
           n == IF there = {} THEN {} ELSE {t}
           S == Over(Draft(r), BeatRows(there))
<1>1. Open(r) /\ pc[r] = "beat"
  BY BeatDoes
<1>2. input[r].kind = "heartbeat" /\ t \in Task
  BY <1>1, LineKinds, InputTyped
<1>3. /\ DraftIn(input[r], pc[r], found[r], joins[r], noted[r], Draft(r), limit)
      /\ IsTables(Draft(r)) /\ Sees(r) = Draft(r)
      /\ input[r] \in Input /\ limit \in Nat
      /\ found[r] \in Places /\ joins[r] \in BOOLEAN /\ holder[r] \in User
      /\ noted[r] \in SUBSET Task
  BY <1>1, InHand
<1>4. Order[input[r].kind]["beat"] \notin {"begin", "committed", "refused"}
  BY <1>1, NextIsOpen
<1>5. /\ Does(r, Order[input[r].kind]["beat"], found[r], joins[r], holder[r], n)
      /\ Writes(r, BeatRows(there))
  <2>1. /\ Does(r, Order[input[r].kind]["beat"], found[r], joins[r], holder[r],
                IF Leased(Newest(r), t) = {} THEN {} ELSE {t})
        /\ Writes(r, BeatRows(Leased(Newest(r), t)))
    BY BeatDoes
  <2>2. Newest(r) = Draft(r)
    BY <1>1, <2>1, WriterIsUpToDate
  <2> QED
    BY <2>1, <2>2
<1>6. Makes(r, Draft(r), S)
  BY <1>5 DEF Makes
<1>7. DraftIn(input[r], Order[input[r].kind]["beat"], found[r], joins[r], n, S, limit)
  BY <1>1, <1>2, <1>3, BeatLocal
<1>8. n \in SUBSET Task
  BY <1>2
<1>9. n # {} => own'[r] # NoRows
  <2> SUFFICES ASSUME there # {} PROVE own'[r] # NoRows
    OBVIOUS
  <2>1. own'[r] = Over(own[r], BeatRows(there))
    BY <1>5 DEF Writes, RaceTypeOK
  <2>2. DOMAIN BeatRows(there) = there
    BY DEF BeatRows
  <2> HIDE DEF there
  <2>3. DOMAIN Over(own[r], BeatRows(there)) = DOMAIN own[r] \cup DOMAIN BeatRows(there)
    BY DEF Over
  <2>4. DOMAIN own'[r] # {}
    BY <2>1, <2>2, <2>3
  <2> QED
    BY <2>4, NothingWritten
<1>10. Spares(r, Draft(r), S)
  <2>1. DraftIn(input[r], "commit", found[r], joins[r], n, S, limit)
    BY <1>2, <1>7, OrderIs
  <2>2. Beaten(Draft(r), t) => Beaten(S, t)
    BY <1>2, <2>1 DEF DraftIn, NotesIn, Beaten
  <2>3. \A x \in Task \ {t} : SameLeases(Draft(r), S, x)
    <3> DEFINE g == BeatRows(there)
    <3>1. g = [k \in DOMAIN g |-> g[k]] /\ DOMAIN g = there /\ \A k \in DOMAIN g : g[k] = "active"
      BY DEF BeatRows
    <3>2. DOMAIN g \subseteq LeaseRows(t) /\ \A k \in DOMAIN g : g[k] \in {"none", "active"}
      BY <3>1 DEF Leased
    <3> HIDE DEF g
    <3>3. \A x \in Task \ {t} : SameLeases(Draft(r), Over(Draft(r), g), x)
      BY <1>2, <1>3, <3>1, <3>2, LeasesWritten
    <3> QED
      BY <3>3 DEF g
  <2> HIDE DEF S
  <2>4. \A x \in Task \ {t} : Beaten(S, x) <=> Beaten(Draft(r), x)
    BY <2>3, LeasedSame
  <2> QED
    BY <2>2, <2>4 DEF Spares
<1> HIDE DEF S, n
<1> QED
  BY <1>1, <1>3, <1>4, <1>5, <1>6, <1>7, <1>8, <1>9, <1>10, CarriesOn

\* The cron knows of every task it selects that a lease of it is overdue.
LEMMA SelectCarries ==
    ASSUME RaceTypeOK, engine = "sqlite", NEW r \in Request, DraftOK(r), SelectOverdue(r)
    PROVE  Carries(r)
<1>1. Open(r) /\ pc[r] = "select" /\ Reads(r)
  BY SelectDoes
<1>2. input[r].kind = "cron"
  BY <1>1, LineKinds
<1>3. /\ DraftIn(input[r], pc[r], found[r], joins[r], noted[r], Draft(r), limit)
      /\ IsTables(Draft(r)) /\ Sees(r) = Draft(r)
      /\ input[r] \in Input /\ limit \in Nat
      /\ found[r] \in Places /\ joins[r] \in BOOLEAN /\ holder[r] \in User
      /\ noted[r] \in SUBSET Task
  BY <1>1, InHand
<1>4. Order[input[r].kind]["select"] \notin {"begin", "committed", "refused"}
  BY <1>1, NextIsOpen
<1>5. PICK n \in SUBSET Task :
         /\ Does(r, Order[input[r].kind]["select"], found[r], joins[r], holder[r], n)
         /\ \A x \in n : \E k \in LeaseRows(x) : Sees(r)[k] = "overdue"
  BY SelectDoes
<1>6. DraftIn(input[r], Order[input[r].kind]["select"], found[r], joins[r], n, Draft(r), limit)
  BY <1>1, <1>2, <1>3, <1>5, SelectLocal
<1> QED
  BY <1>1, <1>2, <1>3, <1>4, <1>5, <1>6, ReadsOn

\* The cron drops only leases of tasks of which one is overdue, hence none
\* that a heartbeat has refreshed.
LEMMA DropCarries ==
    ASSUME RaceTypeOK, engine = "sqlite", SingleWriter, NEW r \in Request, DraftOK(r), DropOverdue(r)
    PROVE  Carries(r)
<1>1. /\ Open(r) /\ pc[r] = "drop"
      /\ \/ /\ Reads(r)
            /\ Does(r, Order[input[r].kind]["drop"], found[r], joins[r], holder[r], noted[r])
         \/ \E t \in noted[r] :
               /\ Refills(r, t, {})
               /\ Does(r, "drop", found[r], joins[r], holder[r], noted[r] \ {t})
  BY DropDoes
<1>2. input[r].kind = "cron"
  BY <1>1, LineKinds
<1>3. /\ DraftIn(input[r], pc[r], found[r], joins[r], noted[r], Draft(r), limit)
      /\ IsTables(Draft(r)) /\ Sees(r) = Draft(r)
      /\ input[r] \in Input /\ limit \in Nat
      /\ found[r] \in Places /\ joins[r] \in BOOLEAN /\ holder[r] \in User
      /\ noted[r] \in SUBSET Task
  BY <1>1, InHand
<1>4. CASE /\ Reads(r)
         /\ Does(r, Order[input[r].kind]["drop"], found[r], joins[r], holder[r], noted[r])
  <2>1. DraftIn(input[r], Order[input[r].kind]["drop"], found[r], joins[r], noted[r], Draft(r), limit)
    BY <1>1, <1>2, <1>3, DroppedLocal
  <2>2. Order[input[r].kind]["drop"] \notin {"begin", "committed", "refused"}
    BY <1>1, NextIsOpen
  <2> QED
    BY <1>1, <1>2, <1>3, <1>4, <2>1, <2>2, ReadsOn
<1>5. ASSUME NEW t \in noted[r], Refills(r, t, {}),
             Does(r, "drop", found[r], joins[r], holder[r], noted[r] \ {t})
      PROVE  Carries(r)
  <2> DEFINE S == Over(Draft(r), Replaced(Leased(Draft(r), t), {}))
  <2>0. t \in Task /\ noted[r] \ {t} \in SUBSET Task
    BY <1>3
  <2>1. Makes(r, Draft(r), S)
    <3>1. Writes(r, Replaced(Leased(Newest(r), t), {}))
      BY <1>5 DEF Refills
    <3>2. Newest(r) = Draft(r)
      BY <1>1, <3>1, WriterIsUpToDate
    <3> QED
      BY <3>1, <3>2 DEF Makes
  <2>2. DraftIn(input[r], "drop", found[r], joins[r], noted[r] \ {t}, S, limit)
    BY <1>1, <1>2, <1>3, DropLocal
  <2>3. Spares(r, Draft(r), S)
    <3>1. LeasesIn(input[r], "drop", Draft(r)) /\ \E k \in LeaseRows(t) : Draft(r)[k] = "overdue"
      BY <1>1, <1>2, <1>3 DEF DraftIn, NotesIn
    <3>2. ~Beaten(Draft(r), t)
      BY <3>1 DEF Beaten
    <3>3. \A x \in Task \ {t} : SameLeases(Draft(r), S, x)
      BY <1>3, <2>0, <3>1, GoneLeases
    <3> HIDE DEF S
    <3>4. \A x \in Task \ {t} : Beaten(S, x) <=> Beaten(Draft(r), x)
      BY <3>3, LeasedSame
    <3> QED
      BY <3>2, <3>4 DEF Spares
  <2> HIDE DEF S
  <2> QED
    BY <1>1, <1>2, <1>3, <1>5, <2>0, <2>1, <2>2, <2>3, CarriesOn
<1> QED
  BY <1>1, <1>4, <1>5

\* Every statement of a request that goes on.
LEMMA RunsCarries ==
    ASSUME RaceTypeOK, engine = "sqlite", OverlapMutual, IsFiniteSet(Task), SingleWriter,
           NEW r \in Request, Runs(r), ~Refuse(r), DraftOK(r)
    PROVE  Carries(r)
<1>1. CASE PinRow(r)
  BY <1>1, PinCarries
<1>2. CASE ReadRow(r)
  BY <1>2, RowCarries
<1>3. CASE CheckAssignees(r)
  BY <1>3, CheckCarries
<1>4. CASE CheckRoom(r)
  BY <1>4, RoomCarries
<1>5. CASE WriteFlag(r)
  BY <1>5, FlagCarries
<1>6. CASE MoveRow(r)
  BY <1>6, MoveCarries
<1>7. CASE Assign(r)
  BY <1>7, AssignCarries
<1>8. CASE CheckLeases(r)
  BY <1>8, ConflictsCarries
<1>9. CASE TakeLeases(r)
  BY <1>9, LeaseCarries
<1>10. CASE FreeLeases(r)
  BY <1>10, FreeCarries
<1>11. CASE CountOpen(r)
  BY <1>11, CountCarries
<1>12. CASE CloseParent(r)
  BY <1>12, CloseCarries
<1>13. CASE LockView(r)
  BY <1>13, ViewCarries
<1>14. CASE Heartbeat(r)
  BY <1>14, BeatCarries
<1>15. CASE SelectOverdue(r)
  BY <1>15, SelectCarries
<1>16. CASE DropOverdue(r)
  BY <1>16, DropCarries
<1> QED
  BY <1>1, <1>2, <1>3, <1>4, <1>5, <1>6, <1>7, <1>8, <1>9, <1>10, <1>11, <1>12, <1>13, <1>14,
     <1>15, <1>16 DEF Runs

\* What a request has changes only with what it is made of.
LEMMA OthersKeep ==
    ASSUME NEW q, UNCHANGED <<limit, input>>, pc'[q] = pc[q], found'[q] = found[q],
           joins'[q] = joins[q], noted'[q] = noted[q], own'[q] = own[q],
           snapshot'[q] = snapshot[q]
    PROVE  /\ Draft(q)' = Draft(q) /\ (DraftOK(q)' <=> DraftOK(q))
           /\ (Open(q)' <=> Open(q)) /\ (Untouched(q)' <=> Untouched(q))
<1>1. Draft(q)' = Draft(q)
  BY DEF Draft
<1>2. DraftOK(q)' <=> DraftOK(q)
  BY <1>1 DEF DraftOK
<1> QED
  BY <1>1, <1>2 DEF Open, Untouched

\* A statement that carries on keeps SQLite serial: nothing is committed.
LEMMA StatementSerial ==
    ASSUME RaceTypeOK, engine = "sqlite", Serial, NEW r \in Request, Open(r), Carries(r)
    PROVE  Serial'
<1>0. /\ SingleWriter /\ TablesOK(db, limit) /\ ClaimsStand /\ Growing /\ BeatsStand
      /\ \A q \in Request : Open(q) => DraftOK(q)
      /\ \A q \in Request : Untouched(q)
  BY DEF Serial
<1>1. /\ Open(r)' /\ DraftOK(r)'
      /\ Apiece(r) /\ UNCHANGED <<engine, limit, input, db, snapshot, behind>>
      /\ Reads(r) \/ \E g : Writes(r, g)
      /\ Spares(r, Draft(r), Draft(r)')
  BY DEF Carries
<1>2. \A q \in Request \ {r} : /\ Draft(q)' = Draft(q) /\ (DraftOK(q)' <=> DraftOK(q))
                               /\ (Open(q)' <=> Open(q)) /\ (Untouched(q)' <=> Untouched(q))
  BY <1>1, OthersKeep DEF Apiece
<1>3. \A q \in Request : Open(q)' <=> Open(q)
  BY <1>1, <1>2
<1>4. SingleWriter'
  BY <1>0, <1>1, StatementWriter
<1>5. TablesOK(db, limit)'
  BY <1>0, <1>1 DEF TablesOK
<1>6. \A q \in Request : Open(q)' => DraftOK(q)'
  BY <1>0, <1>1, <1>2
<1>7. \A q \in Request : Untouched(q)'
  BY <1>0, <1>1, <1>2 DEF Untouched, Open
<1>8. ClaimsStand'
  <2>1. \A q \in Request : pc'[q] = "committed" => pc[q] = "committed"
    BY <1>1 DEF Open, Apiece
  <2> QED
    BY <1>0, <1>1, <2>1 DEF ClaimsStand
<1>9. Growing'
  BY <1>0, <1>1, <1>3 DEF Growing
<1>10. BeatsStand'
  <2> SUFFICES ASSUME NEW p \in Request, pc'[p] = "committed", input'[p].kind = "heartbeat",
                      noted'[p] # {}, ~FinishedBy(input[p].task)'
               PROVE  /\ Beaten(db', input[p].task)
                      /\ \A q \in Request : (Open(q)' /\ q \notin behind') =>
                            \/ Beaten(Draft(q)', input[p].task)
                            \/ Finishes(q)' /\ input'[q].task = input[p].task
    BY <1>1 DEF BeatsStand, Finishes
  <2>1. p # r
    BY <1>1 DEF Open
  <2>2. pc[p] = "committed" /\ input[p].kind = "heartbeat" /\ noted[p] # {} /\ input[p].task \in Task
    BY <1>1, <2>1, InputTyped DEF Apiece
  <2>3. ~FinishedBy(input[p].task)
    BY <1>1 DEF FinishedBy, Finishes, Apiece, Open
  <2>4. /\ Beaten(db, input[p].task)
        /\ \A q \in Request : (Open(q) /\ q \notin behind) =>
              \/ Beaten(Draft(q), input[p].task)
              \/ Finishes(q) /\ input[q].task = input[p].task
    BY <1>0, <2>2, <2>3 DEF BeatsStand
  <2>5. Beaten(Draft(r), input[p].task) =>
           Beaten(Draft(r)', input[p].task) \/ (Finishes(r) /\ input[r].task = input[p].task)
    BY <1>1, <2>2 DEF Spares
  <2>6. \A q \in Request : Finishes(q)' <=> Finishes(q)
    BY <1>1 DEF Finishes
  <2> QED
    BY <1>1, <1>2, <1>3, <2>4, <2>5, <2>6
<1> QED
  BY <1>4, <1>5, <1>6, <1>7, <1>8, <1>9, <1>10 DEF Serial

\* A transaction begins with the committed tables.
LEMMA BeginLocal ==
    ASSUME NEW in \in Input, NEW f, NEW T, NEW m \in Nat, TablesOK(T, m)
    PROVE  DraftIn(in, Order[in.kind]["begin"], f, FALSE, {}, T, m)
<1> DEFINE l == Order[in.kind]["begin"]
<1>0. /\ in.task \in Task
      /\ \/ in.kind \in {"claim", "drag", "finish"} /\ l = "row"
         \/ in.kind = "update" /\ l = "view"
         \/ in.kind = "heartbeat" /\ l = "beat"
         \/ in.kind = "cron" /\ l = "select"
  BY OrderIs DEF Input, Kinds
<1> HIDE DEF l
<1>1. OwnersIn(in, l, FALSE, T)
  BY <1>0 DEF TablesOK, OwnersIn, Before
<1>2. PlacesIn(in, l, f, T, m)
  BY <1>0 DEF TablesOK, PlacesIn, Standing, Admitted
<1>3. FlagsIn(in, l, T)
  BY <1>0 DEF TablesOK, FlagsIn, Cleared
<1>4. LeasesIn(in, l, T)
  BY <1>0 DEF TablesOK, LeasesIn, Freed
<1>5. NotesIn(in, l, {}, T)
  BY <1>0 DEF NotesIn
<1>6. DraftIn(in, l, f, FALSE, {}, T, m)
  BY <1>1, <1>2, <1>3, <1>4, <1>5 DEF DraftIn
<1> QED
  BY <1>6 DEF l

\* A request that begins keeps SQLite serial.
LEMMA BeginSerial ==
    ASSUME RaceTypeOK, engine = "sqlite", Serial, NEW r \in Request, Begin(r)
    PROVE  Serial'
<1>0. /\ SingleWriter /\ TablesOK(db, limit) /\ ClaimsStand /\ Growing /\ BeatsStand
      /\ \A q \in Request : Open(q) => DraftOK(q)
      /\ \A q \in Request : Untouched(q)
  BY DEF Serial
<1>1. pc[r] = "begin" /\ UNCHANGED <<engine, limit, input, found, joins, holder, noted>>
  BY BeginDoes DEF request, reading
<1>2. ~Open(r) /\ own[r] = NoRows /\ Alone # r /\ ~joins[r] /\ noted[r] = {}
  BY <1>0, <1>1 DEF Open, SingleWriter, Untouched
<1>3. PICK l : Moved(r, l) /\ l \in {"committed", Order[input[r].kind]["begin"]}
  BY BeginDoes
<1>4. pc'[r] = l /\ \A q \in Request \ {r} : pc'[q] = pc[q]
  BY <1>3, MovedLines
<1>5. /\ UNCHANGED <<db, own, locks>> /\ \A q \in Request \ {r} : snapshot'[q] = snapshot[q]
      /\ \A q \in Request \ {r} : q \in behind' <=> q \in behind
      /\ \/ l = "committed" /\ input[r].kind = "update"
         \/ l = Order[input[r].kind]["begin"] /\ snapshot'[r] = db /\ r \notin behind'
  <2>1. Order[input[r].kind]["begin"] \notin {"begin", "committed", "refused"}
    <3>1. input[r].kind \in Kinds /\ "begin" \in DOMAIN Order[input[r].kind]
      BY InputTyped, StatementsAre DEF Kinds
    <3> QED
      BY <3>1, OrderStays
  <2>2. CASE input[r].kind = "update" /\ db[Done(input[r].task)]
    <3>1. Goto(r, "committed") /\ UNCHANGED database
      BY <2>2 DEF Begin
    <3>2. l = "committed"
      BY <1>1, <1>4, <3>1 DEF Goto, RaceTypeOK
    <3> QED
      BY <2>2, <3>1, <3>2 DEF database
  <2>3. CASE ~(input[r].kind = "update" /\ db[Done(input[r].task)])
    <3>1. Proceed(r) /\ BeginTransaction(r)
      BY <2>3 DEF Begin
    <3>2. l = Order[input[r].kind]["begin"]
      BY <1>1, <1>4, <3>1 DEF Goto, Proceed, RaceTypeOK
    <3>3. /\ UNCHANGED <<db, own, locks>> /\ behind' = behind \ {r}
          /\ snapshot' = [snapshot EXCEPT ![r] = db]
      BY <3>1 DEF BeginTransaction
    <3> QED
      BY <3>2, <3>3 DEF RaceTypeOK
  <2> QED
    BY <2>2, <2>3
<1>6. \A q \in Request \ {r} : /\ Draft(q)' = Draft(q) /\ (DraftOK(q)' <=> DraftOK(q))
                               /\ (Open(q)' <=> Open(q)) /\ (Untouched(q)' <=> Untouched(q))
  BY <1>1, <1>4, <1>5, OthersKeep
<1>7. Open(r)' => /\ l = Order[input[r].kind]["begin"] /\ snapshot'[r] = db /\ r \notin behind'
                  /\ Draft(r)' = db
  <2>1. Open(r)' => l = Order[input[r].kind]["begin"] /\ snapshot'[r] = db /\ r \notin behind'
    BY <1>4, <1>5 DEF Open
  <2>2. Over(db, NoRows) = db
    BY NothingWritten DEF RaceTypeOK
  <2>3. own'[r] = NoRows
    BY <1>2, <1>5
  <2> QED
    BY <2>1, <2>2, <2>3 DEF Draft
<1>8. SingleWriter'
  BY <1>0, <1>2, <1>5, <1>6, <1>7, BeginWriter
<1>9. TablesOK(db, limit)'
  BY <1>0, <1>1, <1>5 DEF TablesOK
<1>10. \A q \in Request : Open(q)' => DraftOK(q)'
  <2>1. ASSUME Open(r)'
        PROVE  DraftOK(r)'
    <3>1. DraftIn(input[r], Order[input[r].kind]["begin"], found[r], FALSE, {}, db, limit)
      BY <1>0, InputTyped, BeginLocal DEF RaceTypeOK
    <3>2. joins'[r] = FALSE /\ noted'[r] = {}
      BY <1>1, <1>2, InputTyped
    <3> QED
      BY <1>1, <1>4, <1>7, <2>1, <3>1, <3>2 DEF DraftOK
  <2> QED
    BY <1>0, <1>6, <2>1
<1>11. \A q \in Request : Untouched(q)'
  <2>1. Untouched(r)'
    BY <1>1, <1>2 DEF Untouched
  <2> QED
    BY <1>0, <1>6, <2>1
<1>12. ClaimsStand'
  <2>1. \A q \in Request : pc'[q] = "committed" /\ input[q].kind = "claim" => pc[q] = "committed"
    <3>1. pc'[r] = "committed" => input[r].kind # "claim"
      <4>1. input[r].kind = "claim" => Order[input[r].kind]["begin"] = "row"
        BY OrderIs
      <4> QED
        BY <1>4, <1>5, <4>1
    <3> QED
      BY <1>4, <3>1
  <2> QED
    BY <1>0, <1>1, <1>5, <2>1 DEF ClaimsStand
<1>13. Growing'
  <2>1. \A q \in Request \ {r} : Open(q)' => \A x \in Task : Who(snapshot'[q], x) \subseteq Who(db', x)
    BY <1>0, <1>5, <1>6 DEF Growing
  <2>2. Open(r)' => \A x \in Task : Who(snapshot'[r], x) \subseteq Who(db', x)
    BY <1>5, <1>7
  <2>3. \A q \in Request : Open(q)' => \A x \in Task : Who(snapshot'[q], x) \subseteq Who(db', x)
    BY <2>1, <2>2
  <2> QED
    BY <2>3 DEF Growing, Who
<1>14. BeatsStand'
  <2> SUFFICES ASSUME NEW p \in Request, pc'[p] = "committed", input'[p].kind = "heartbeat",
                      noted'[p] # {}, ~FinishedBy(input[p].task)'
               PROVE  /\ Beaten(db', input[p].task)
                      /\ \A q \in Request : (Open(q)' /\ q \notin behind') =>
                            \/ Beaten(Draft(q)', input[p].task)
                            \/ Finishes(q)' /\ input'[q].task = input[p].task
    BY <1>1 DEF BeatsStand, Finishes
  <2>1. p # r
    BY <1>1, <1>2
  <2>2. pc[p] = "committed" /\ input[p].kind = "heartbeat" /\ noted[p] # {}
    BY <1>1, <1>4, <2>1
  <2>3. ~FinishedBy(input[p].task)
    BY <1>1, <1>4 DEF FinishedBy, Finishes
  <2>4. /\ Beaten(db, input[p].task)
        /\ \A q \in Request : (Open(q) /\ q \notin behind) =>
              \/ Beaten(Draft(q), input[p].task)
              \/ Finishes(q) /\ input[q].task = input[p].task
    BY <1>0, <2>2, <2>3 DEF BeatsStand
  <2>5. \A q \in Request : Finishes(q)' <=> Finishes(q)
    BY <1>1 DEF Finishes
  <2>6. Open(r)' => Beaten(Draft(r)', input[p].task)
    BY <1>7, <2>4
  <2> QED
    BY <1>1, <1>5, <1>6, <2>4, <2>5, <2>6
<1> QED
  BY <1>8, <1>9, <1>10, <1>11, <1>12, <1>13, <1>14 DEF Serial

\* So does one that is turned away.
LEMMA RefuseSerial ==
    ASSUME RaceTypeOK, engine = "sqlite", Serial, NEW r \in Request, Open(r), Refuse(r)
    PROVE  Serial'
<1>0. /\ SingleWriter /\ TablesOK(db, limit) /\ ClaimsStand /\ Growing /\ BeatsStand
      /\ \A q \in Request : Open(q) => DraftOK(q)
      /\ \A q \in Request : Untouched(q)
  BY DEF Serial
<1>1. /\ pc' = [pc EXCEPT ![r] = "refused"]
      /\ own' = [own EXCEPT ![r] = NoRows] /\ snapshot' = [snapshot EXCEPT ![r] = NoRows]
      /\ locks' = [k \in DOMAIN locks |-> IF locks[k] = r THEN Nobody ELSE locks[k]]
      /\ UNCHANGED <<db, behind>> /\ UNCHANGED <<engine, limit, input, found, joins, holder, noted>>
  BY DEF Refuse, Goto, Rollback, Unlocked, request, reading
<1>2. /\ pc'[r] = "refused" /\ own'[r] = NoRows
      /\ \A q \in Request \ {r} : pc'[q] = pc[q] /\ own'[q] = own[q] /\ snapshot'[q] = snapshot[q]
  BY <1>1 DEF RaceTypeOK
<1>3. \A q \in Request \ {r} : /\ Draft(q)' = Draft(q) /\ (DraftOK(q)' <=> DraftOK(q))
                               /\ (Open(q)' <=> Open(q)) /\ (Untouched(q)' <=> Untouched(q))
  BY <1>1, <1>2, OthersKeep
<1>4. ~Open(r)' /\ Untouched(r)'
  BY <1>2 DEF Open, Untouched
<1>5. SingleWriter'
  BY <1>0, <1>1, <1>2, <1>3, <1>4, EndWriter DEF Unlocked
<1>6. TablesOK(db, limit)'
  BY <1>0, <1>1 DEF TablesOK
<1>7. \A q \in Request : Open(q)' => DraftOK(q)'
  BY <1>0, <1>3, <1>4
<1>8. \A q \in Request : Untouched(q)'
  BY <1>0, <1>3, <1>4
<1>9. ClaimsStand'
  <2>1. \A q \in Request : pc'[q] = "committed" => pc[q] = "committed"
    BY <1>2
  <2> QED
    BY <1>0, <1>1, <2>1 DEF ClaimsStand
<1>10. Growing'
  <2>1. \A q \in Request : Open(q)' => \A x \in Task : Who(snapshot'[q], x) \subseteq Who(db', x)
    BY <1>0, <1>1, <1>2, <1>3, <1>4 DEF Growing
  <2> QED
    BY <2>1 DEF Growing, Who
<1>11. BeatsStand'
  <2> SUFFICES ASSUME NEW p \in Request, pc'[p] = "committed", input'[p].kind = "heartbeat",
                      noted'[p] # {}, ~FinishedBy(input[p].task)'
               PROVE  /\ Beaten(db', input[p].task)
                      /\ \A q \in Request : (Open(q)' /\ q \notin behind') =>
                            \/ Beaten(Draft(q)', input[p].task)
                            \/ Finishes(q)' /\ input'[q].task = input[p].task
    BY <1>1 DEF BeatsStand, Finishes
  <2>1. pc[p] = "committed" /\ input[p].kind = "heartbeat" /\ noted[p] # {}
    BY <1>1, <1>2
  <2>2. ~FinishedBy(input[p].task)
    BY <1>1, <1>2 DEF FinishedBy, Finishes, Open
  <2>3. /\ Beaten(db, input[p].task)
        /\ \A q \in Request : (Open(q) /\ q \notin behind) =>
              \/ Beaten(Draft(q), input[p].task)
              \/ Finishes(q) /\ input[q].task = input[p].task
    BY <1>0, <2>1, <2>2 DEF BeatsStand
  <2>4. \A q \in Request : Finishes(q)' <=> Finishes(q)
    BY <1>1 DEF Finishes
  <2> QED
    BY <1>1, <1>3, <1>4, <2>3, <2>4
<1> QED
  BY <1>5, <1>6, <1>7, <1>8, <1>9, <1>10, <1>11 DEF Serial

\* At its commit a request has tables that may be everybody's.
LEMMA CommitLocal ==
    ASSUME NEW in \in Input, NEW f, NEW j \in BOOLEAN, NEW n, NEW T, NEW m,
           DraftIn(in, "commit", f, j, n, T, m)
    PROVE  /\ TablesOK(T, m)
           /\ in.kind = "claim" => in.user \in Who(T, in.task)
           /\ in.kind = "heartbeat" /\ n # {} => Beaten(T, in.task)
<1>1. OneOwner(T) /\ (in.kind = "claim" => in.user \in Who(T, in.task))
  BY DEF DraftIn, OwnersIn
<1>2. Fits(T, m)
  BY DEF DraftIn, PlacesIn
<1>3. \A x \in Task : T[Done(x)] => T[Bucket(x)] = "done" /\ Leased(T, x) = {}
  BY DEF DraftIn, FlagsIn, Entering, LeasesIn, Freeing
<1>4. Apart(T) /\ \A q \in Task : SubtasksOf[q] # {} => Leased(T, q) = {}
  BY DEF DraftIn, LeasesIn
<1>5. in.kind = "heartbeat" /\ n # {} => Beaten(T, in.task)
  BY DEF DraftIn, NotesIn
<1> QED
  BY <1>1, <1>2, <1>3, <1>4, <1>5 DEF TablesOK

\* Nobody is ever unassigned.
LEMMA OwnersStay ==
    ASSUME NEW T, IsTables(T), NEW g, IsPart(g), NEW x \in Task
    PROVE  Who(T, x) \subseteq Who(Over(T, g), x)
<1>0. \A k \in DOMAIN T \cup DOMAIN g : Over(T, g)[k] = IF k \in DOMAIN g THEN g[k] ELSE T[k]
  BY OverRows
<1> SUFFICES ASSUME NEW u \in User, T[Assigned(x, u)]
             PROVE  Over(T, g)[Assigned(x, u)]
  BY DEF Who
<1>1. Assigned(x, u) \in DOMAIN T
  BY RowsAre DEF IsTables
<1>2. Over(T, g)[Assigned(x, u)] =
         IF Assigned(x, u) \in DOMAIN g THEN g[Assigned(x, u)] ELSE T[Assigned(x, u)]
  BY <1>0, <1>1
<1>3. Assigned(x, u) \in DOMAIN g => g[Assigned(x, u)] = TRUE
  BY DEF IsPart
<1>4. T[Assigned(x, u)] = TRUE
  BY DEF IsTables
<1>5. Over(T, g)[Assigned(x, u)] = TRUE
  BY <1>2, <1>3, <1>4
<1> QED
  BY <1>5

\* A commit keeps SQLite serial: the tables are those of the request, and
\* everybody else falls behind.
LEMMA EndSerial ==
    ASSUME RaceTypeOK, engine = "sqlite", Serial, NEW r \in Request, End(r)
    PROVE  Serial'
<1>0. /\ SingleWriter /\ TablesOK(db, limit) /\ ClaimsStand /\ Growing /\ BeatsStand
      /\ \A q \in Request : Open(q) => DraftOK(q)
      /\ \A q \in Request : Untouched(q)
  BY DEF Serial
<1>1. /\ pc[r] = "commit" /\ pc' = [pc EXCEPT ![r] = "committed"]
      /\ UNCHANGED <<engine, limit, input, found, joins, holder, noted>>
      /\ db' = Newest(r)
      /\ own' = [own EXCEPT ![r] = NoRows] /\ snapshot' = [snapshot EXCEPT ![r] = NoRows]
      /\ locks' = [k \in DOMAIN locks |-> IF locks[k] = r THEN Nobody ELSE locks[k]]
      /\ behind' = IF own[r] = NoRows THEN behind ELSE Request \ {r}
  BY DEF End, Goto, Commit, Unlocked, request, reading
<1>2. /\ pc'[r] = "committed" /\ own'[r] = NoRows
      /\ \A q \in Request \ {r} : pc'[q] = pc[q] /\ own'[q] = own[q] /\ snapshot'[q] = snapshot[q]
  BY <1>1 DEF RaceTypeOK
<1>3. \A q \in Request \ {r} : /\ Draft(q)' = Draft(q) /\ (DraftOK(q)' <=> DraftOK(q))
                               /\ (Open(q)' <=> Open(q)) /\ (Untouched(q)' <=> Untouched(q))
  BY <1>1, <1>2, OthersKeep
<1>4. ~Open(r)' /\ Untouched(r)' /\ Open(r)
  BY <1>1, <1>2 DEF Open, Untouched
<1>5. /\ DraftIn(input[r], "commit", found[r], joins[r], noted[r], Draft(r), limit)
      /\ input[r].kind = "heartbeat" /\ noted[r] # {} => own[r] # NoRows
  BY <1>0, <1>1, <1>4 DEF DraftOK
<1>6. /\ TablesOK(Draft(r), limit)
      /\ input[r].kind = "claim" => input[r].user \in Who(Draft(r), input[r].task)
      /\ input[r].kind = "heartbeat" /\ noted[r] # {} => Beaten(Draft(r), input[r].task)
  BY <1>5, InputTyped, CommitLocal
<1>7. own[r] = NoRows => db' = db /\ behind' = behind
  BY <1>1, NothingWritten DEF Newest, RaceTypeOK
<1>8. own[r] # NoRows => /\ Alone = r /\ r \notin behind /\ snapshot[r] = db /\ db' = Draft(r)
                         /\ \A q \in Request \ {r} : q \in behind'
  BY <1>0, <1>1 DEF SingleWriter, Newest, Draft
<1>9. \A x \in Task : Who(db, x) \subseteq Who(db', x)
  BY <1>1, InputTyped, OwnersStay DEF Newest, RaceTypeOK
<1>10. SingleWriter'
  BY <1>0, <1>1, <1>2, <1>3, <1>4, <1>7, <1>8, EndWriter DEF Unlocked
<1>11. TablesOK(db, limit)'
  <2>1. TablesOK(db', limit)
    BY <1>0, <1>6, <1>7, <1>8
  <2> QED
    BY <1>1, <2>1 DEF TablesOK
<1>12. \A q \in Request : Open(q)' => DraftOK(q)'
  BY <1>0, <1>3, <1>4
<1>13. \A q \in Request : Untouched(q)'
  BY <1>0, <1>3, <1>4
<1>14. ClaimsStand'
  <2>1. \A q \in Request \ {r} : pc'[q] = "committed" /\ input[q].kind = "claim"
                                    => input[q].user \in Who(db', input[q].task)
    BY <1>0, <1>2, <1>9, InputTyped DEF ClaimsStand
  <2>2. input[r].kind = "claim" => input[r].user \in Who(db', input[r].task)
    <3>1. CASE own[r] = NoRows
      <4>1. Draft(r) = snapshot[r]
        BY <1>4, <3>1, SeesTyped, NothingWritten DEF Draft
      <4>2. \A x \in Task : Who(snapshot[r], x) \subseteq Who(db, x)
        BY <1>0, <1>4 DEF Growing
      <4> QED
        BY <1>6, <1>9, <4>1, <4>2, InputTyped
    <3>2. CASE own[r] # NoRows
      BY <1>6, <1>8, <3>2
    <3> QED
      BY <3>1, <3>2
  <2>3. \A q \in Request : pc'[q] = "committed" /\ input'[q].kind = "claim"
                              => input'[q].user \in Who(db', input'[q].task)
    BY <1>1, <2>1, <2>2
  <2> QED
    BY <2>3 DEF ClaimsStand, Who
<1>15. Growing'
  <2>1. \A q \in Request : Open(q)' => \A x \in Task : Who(snapshot'[q], x) \subseteq Who(db', x)
    BY <1>0, <1>2, <1>3, <1>4, <1>9 DEF Growing
  <2> QED
    BY <2>1 DEF Growing, Who
<1>16. BeatsStand'
  <2> SUFFICES ASSUME NEW p \in Request, pc'[p] = "committed", input'[p].kind = "heartbeat",
                      noted'[p] # {}, ~FinishedBy(input[p].task)'
               PROVE  /\ Beaten(db', input[p].task)
                      /\ \A q \in Request : (Open(q)' /\ q \notin behind') =>
                            \/ Beaten(Draft(q)', input[p].task)
                            \/ Finishes(q)' /\ input'[q].task = input[p].task
    BY <1>1 DEF BeatsStand, Finishes
  <2>1. input[p].kind = "heartbeat" /\ noted[p] # {}
    BY <1>1
  <2>2. ~FinishedBy(input[p].task) /\ ~(Finishes(r) /\ input[r].task = input[p].task)
    BY <1>1, <1>2 DEF FinishedBy, Finishes
  <2>3. \A q \in Request : Finishes(q)' <=> Finishes(q)
    BY <1>1 DEF Finishes
  <2>4. CASE p = r
    <3>1. own[r] # NoRows /\ Beaten(Draft(r), input[p].task)
      BY <1>5, <1>6, <2>1, <2>4
    <3> QED
      BY <1>4, <1>8, <3>1
  <2>5. CASE p # r
    <3>1. /\ Beaten(db, input[p].task)
          /\ \A q \in Request : (Open(q) /\ q \notin behind) =>
                \/ Beaten(Draft(q), input[p].task)
                \/ Finishes(q) /\ input[q].task = input[p].task
      BY <1>0, <1>2, <2>1, <2>2, <2>5 DEF BeatsStand
    <3>2. CASE own[r] = NoRows
      BY <1>1, <1>3, <1>4, <1>7, <2>3, <3>1, <3>2
    <3>3. CASE own[r] # NoRows
      <4>1. Beaten(db', input[p].task)
        BY <1>4, <1>8, <2>2, <3>1, <3>3
      <4> QED
        BY <1>4, <1>8, <3>3, <4>1
    <3> QED
      BY <3>2, <3>3
  <2> QED
    BY <2>4, <2>5
<1> QED
  BY <1>10, <1>11, <1>12, <1>13, <1>14, <1>15, <1>16 DEF Serial

\* A request that the engine aborts was open.
LEMMA AbortIsOpen ==
    ASSUME NEW r \in Request, Abort(r)
    PROVE  Open(r) /\ Refuse(r)
<1>1. Wanted(r) # {} /\ Refuse(r)
  <2>1. Refuse(r) /\ (Wanted(r) # {} \/ InCircle(r, Waiting))
    BY DEF Abort
  <2>2. ASSUME InCircle(r, Waiting) PROVE Wanted(r) # {}
    <3>1. PICK q \in Request : <<r, q>> \in Waiting
      BY <2>2 DEF InCircle
    <3>2. \E k \in Wanted(r) : locks[LockFor(k)] = q
      BY <3>1 DEF Waiting
    <3> QED
      BY <3>2
  <2> QED
    BY <2>1, <2>2
<1>2. CASE pc[r] \in {"begin", "committed", "refused"}
  <2>1. Wanted(r) = {}
    BY <1>2 DEF Wanted
  <2> QED
    BY <1>1, <2>1
<1> QED
  BY <1>1, <1>2 DEF Open

\* The engine stays what it is, and the requests what they ask for.
LEMMA EngineStays ==
    ASSUME RaceTypeOK, NEW r \in Request, Step(r)
    PROVE  UNCHANGED <<engine, input>>
<1>1. CASE Begin(r)
  BY <1>1, BeginDoes DEF request
<1>2. CASE End(r)
  BY <1>2 DEF End, request
<1>3. CASE Refuse(r)
  BY <1>3 DEF Refuse, request
<1>4. CASE Runs(r) /\ ~Refuse(r)
  BY <1>4, RunsDoes DEF Does, request
<1> QED
  BY <1>1, <1>2, <1>3, <1>4 DEF Step, Abort, Runs

\* SQLite starts with tables that the checks would have passed.
StartsChecked ==
    \A s \in Scenarios : s.engine = "sqlite" => \A d \in s.tables : TablesOK(d, s.limit)

\* On SQLite requests that overlap are as good as one after the other.
LEMMA StaysSerial ==
    ASSUME OverlapMutual, StartsChecked, IsFiniteSet(Task)
    PROVE  Spec => [](RaceTypeOK /\ (engine = "sqlite" => Serial))
<1>1. Init => (engine = "sqlite" => Serial)
  <2> SUFFICES ASSUME Init, engine = "sqlite" PROVE Serial
    OBVIOUS
  <2>1. PICK s \in Scenarios : engine = s.engine /\ limit = s.limit /\ db \in s.tables
    BY DEF Init
  <2>2. TablesOK(db, limit)
    BY <2>1 DEF StartsChecked
  <2>3. \A r \in Request : pc[r] = "begin" /\ own[r] = NoRows /\ ~joins[r] /\ noted[r] = {} /\ ~Open(r)
    BY DEF Init, Open
  <2>4. Alone = Nobody /\ Nobody \notin Request
    BY RaceAssumption DEF Init, Alone, Lockable, RaceAssumption
  <2>5. SingleWriter
    BY <2>3, <2>4 DEF SingleWriter
  <2>6. ClaimsStand /\ Growing /\ BeatsStand
    BY <2>3 DEF ClaimsStand, Growing, BeatsStand
  <2> QED
    BY <2>2, <2>3, <2>5, <2>6 DEF Serial, Untouched
<1>2. RaceTypeOK /\ (engine = "sqlite" => Serial) /\ [Next]_vars => (engine = "sqlite" => Serial)'
  <2> SUFFICES ASSUME RaceTypeOK, engine = "sqlite" => Serial, [Next]_vars
               PROVE  (engine = "sqlite" => Serial)'
    OBVIOUS
  <2>1. ASSUME NEW r \in Request, Step(r)
        PROVE  (engine = "sqlite" => Serial)'
    <3>1. engine' = engine
      BY <2>1, EngineStays
    <3> SUFFICES ASSUME engine = "sqlite", Serial PROVE Serial'
      BY <3>1
    <3>2. CASE Begin(r)
      BY <3>2, BeginSerial
    <3>3. CASE End(r)
      BY <3>3, EndSerial
    <3>4. CASE Abort(r)
      BY <3>4, AbortIsOpen, RefuseSerial
    <3>5. CASE Runs(r) /\ Refuse(r)
      BY <3>5, RunsDoes, RefuseSerial
    <3>6. CASE Runs(r) /\ ~Refuse(r)
      <4>1. Open(r)
        BY <3>6, RunsDoes
      <4>2. SingleWriter /\ DraftOK(r)
        BY <4>1 DEF Serial
      <4>3. Carries(r)
        BY <3>6, <4>2, RunsCarries
      <4> QED
        BY <4>1, <4>3, StatementSerial
    <3> QED
      BY <2>1, <3>2, <3>3, <3>4, <3>5, <3>6 DEF Step, Runs
  <2>2. CASE UNCHANGED vars
    <3>1. UNCHANGED <<db, snapshot, behind, own, locks, engine, input, limit, pc, found, joins, holder, noted>>
      BY <2>2 DEF vars, database, request, reading
    <3> SUFFICES ASSUME engine = "sqlite", Serial PROVE Serial'
      BY <3>1
    <3>2. \A q \in Request : /\ Draft(q)' = Draft(q) /\ (DraftOK(q)' <=> DraftOK(q))
                             /\ (Open(q)' <=> Open(q)) /\ (Untouched(q)' <=> Untouched(q))
      BY <3>1, OthersKeep
    <3>3. SingleWriter' /\ TablesOK(db, limit)'
      BY <3>1, <3>2 DEF Serial, SingleWriter, Alone, TablesOK
    <3>4. (\A q \in Request : Open(q)' => DraftOK(q)') /\ \A q \in Request : Untouched(q)'
      BY <3>2 DEF Serial
    <3>5. ClaimsStand' /\ Growing'
      BY <3>1, <3>2 DEF Serial, ClaimsStand, Growing
    <3>6. BeatsStand'
      <4>1. \A q \in Request : Finishes(q)' <=> Finishes(q)
        BY <3>1 DEF Finishes
      <4>2. \A t : FinishedBy(t)' <=> FinishedBy(t)
        BY <3>1, <4>1 DEF FinishedBy
      <4> QED
        BY <3>1, <3>2, <4>1, <4>2 DEF Serial, BeatsStand
    <3> QED
      BY <3>3, <3>4, <3>5, <3>6 DEF Serial
  <2> QED
    BY <2>1, <2>2 DEF Next
<1> QED
  BY <1>1, <1>2, RaceTypeCorrect, PTL DEF Spec

(***************************************************************************)
(* On SQLite what the code checks without a lock is still so when it       *)
(* commits: whatever the requests, and however many overlap.               *)
(***************************************************************************)
THEOREM ChecksHold ==
    ASSUME OverlapMutual, StartsChecked, IsFiniteSet(Task)
    PROVE  Spec => []ChecksStillHold
<1>1. RaceTypeOK /\ (engine = "sqlite" => Serial) => ChecksStillHold
  <2> SUFFICES ASSUME RaceTypeOK, engine = "sqlite", Serial
               PROVE  OneAssignee /\ LastPlace /\ DoneHasNoLease /\ BeatKeeps
    BY DEF ChecksStillHold
  <2>1. TablesOK(db, limit) /\ BeatsStand
    BY DEF Serial
  <2>2. OneAssignee
    <3> SUFFICES ASSUME NEW t \in Task PROVE Cardinality(Who(db, t)) <= 1
      BY DEF OneAssignee
    <3>1. \A a, b \in Who(db, t) : a = b
      BY <2>1 DEF TablesOK, OneOwner
    <3> DEFINE W == Who(db, t)
    <3> HIDE DEF W
    <3>2. CASE W = {}
      BY <3>2, FS_EmptySet DEF W
    <3>3. CASE W # {}
      <4>1. PICK a \in W : W = {a}
        BY <3>1, <3>3 DEF W
      <4>2. Cardinality({a}) = 1
        BY FS_Singleton
      <4> QED
        BY <4>1, <4>2 DEF W
    <3> QED
      BY <3>2, <3>3
  <2>3. LastPlace
    BY <2>1 DEF TablesOK, Fits, LastPlace
  <2>4. DoneHasNoLease
    BY <2>1 DEF TablesOK, DoneHasNoLease
  <2>5. BeatKeeps
    BY <2>1 DEF BeatsStand, FinishedBy, BeatKeeps, Beaten
  <2> QED
    BY <2>2, <2>3, <2>4, <2>5
<1> QED
  BY <1>1, StaysSerial, PTL

(***************************************************************************)
(* On SQLite no race leaves a task or a file to two people.                *)
(***************************************************************************)
THEOREM SerialWinnersApart ==
    ASSUME OverlapMutual, StartsChecked, IsFiniteSet(Task)
    PROVE  Spec => [](engine = "sqlite" => WinnersApart)
<1>1. RaceTypeOK /\ (engine = "sqlite" => Serial) => (engine = "sqlite" => WinnersApart)
  <2> SUFFICES ASSUME RaceTypeOK, engine = "sqlite", Serial
               PROVE  OneWinner /\ WinnersExclusive
    BY DEF WinnersApart
  <2>1. TablesOK(db, limit) /\ ClaimsStand
    BY DEF Serial
  <2>2. OneWinner
    BY <2>1, InputTyped DEF TablesOK, OneOwner, ClaimsStand, OneWinner
  <2>3. WinnersExclusive
    <3>1. Apart(db)
      BY <2>1 DEF TablesOK
    <3>2. \A t, o \in Task : Collide(t, o) => Clash(db, t, o)
      BY DEF Collide, Clash
    <3> QED
      BY <3>1, <3>2 DEF Apart, WinnersExclusive
  <2> QED
    BY <2>2, <2>3
<1> QED
  BY <1>1, StaysSerial, PTL

-----------------------------------------------------------------------------
(* The row a claim pins on PostgreSQL.                                     *)

\* What is locked stays so.
KeepsLocks == \A k \in DOMAIN locks : locks[k] # Nobody => locks'[k] = locks[k]

\* Locking, writing and replacing leases take no lock from anybody.
LEMMA LocksKeep ==
    ASSUME NEW r
    PROVE  /\ UNCHANGED locks => KeepsLocks
           /\ \A row : LockOnly(r, row) => KeepsLocks
           /\ \A row, g : Write(r, row, g) => KeepsLocks
           /\ \A ts, g : ReplaceLeases(r, ts, g) => KeepsLocks
<1>1. UNCHANGED locks => KeepsLocks
  BY DEF KeepsLocks
<1>2. ASSUME NEW row, CanLock(r, row), Lock(r, row)
      PROVE  KeepsLocks
  <2>1. \A k \in DOMAIN locks : k # LockFor(row) => locks'[k] = locks[k]
    BY <1>2 DEF Lock
  <2>2. LockFor(row) \in DOMAIN locks => locks'[LockFor(row)] = r
    BY <1>2 DEF Lock
  <2>3. locks[LockFor(row)] \in {Nobody, r}
    BY <1>2 DEF CanLock
  <2> QED
    BY <2>1, <2>2, <2>3 DEF KeepsLocks
<1>3. \A row : LockOnly(r, row) => KeepsLocks
  BY <1>1, <1>2 DEF LockOnly, database
<1>4. \A row, g : Write(r, row, g) => KeepsLocks
  BY <1>2 DEF Write
<1>5. \A ts, g : ReplaceLeases(r, ts, g) => KeepsLocks
  <2> SUFFICES ASSUME NEW ts, NEW g, ReplaceLeases(r, ts, g) PROVE KeepsLocks
    OBVIOUS
  <2>1. \/ \E t \in ts : \E h : Write(r, <<"leases", t>>, h)
        \/ UNCHANGED locks
    BY DEF ReplaceLeases
  <2> QED
    BY <1>1, <1>4, <2>1
<1> QED
  BY <1>1, <1>3, <1>4, <1>5

\* No statement takes a lock from anybody, its own request included.
LEMMA RunsLocks ==
    ASSUME NEW r \in Request, Runs(r), ~Refuse(r)
    PROVE  KeepsLocks
<1>1. CASE PinRow(r)
  BY <1>1, LocksKeep DEF PinRow
<1>2. CASE ReadRow(r) \/ CheckAssignees(r) \/ CheckRoom(r) \/ CheckLeases(r) \/ CountOpen(r)
           \/ SelectOverdue(r)
  <2>1. UNCHANGED locks
    <3>1. CASE ReadRow(r)
      BY <3>1 DEF ReadRow, database
    <3>2. CASE CheckAssignees(r)
      BY <3>2 DEF CheckAssignees, database
    <3>3. CASE CheckRoom(r)
      BY <3>3 DEF CheckRoom, database
    <3>4. CASE CheckLeases(r)
      BY <3>4 DEF CheckLeases, database
    <3>5. CASE CountOpen(r) \/ SelectOverdue(r)
      BY <3>5 DEF CountOpen, SelectOverdue, database
    <3> QED
      BY <1>2, <3>1, <3>2, <3>3, <3>4, <3>5
  <2> QED
    BY <2>1, LocksKeep
<1>3. CASE WriteFlag(r)
  <2>1. (\E row : \E g : Write(r, row, g)) \/ UNCHANGED locks
    BY <1>3, Zenon DEF WriteFlag, database
  <2> QED
    BY <2>1, LocksKeep
<1>4. CASE MoveRow(r)
  BY <1>4, LocksKeep DEF MoveRow
<1>5. CASE Assign(r)
  <2>1. (\E row : \E g : Write(r, row, g)) \/ UNCHANGED locks
    BY <1>5, Zenon DEF Assign, database
  <2> QED
    BY <2>1, LocksKeep
<1>6. CASE TakeLeases(r)
  <2>1. (\E ts : \E g : ReplaceLeases(r, ts, g)) \/ UNCHANGED locks
    BY <1>6, Zenon DEF TakeLeases, database
  <2> QED
    BY <2>1, LocksKeep
<1>7. CASE FreeLeases(r)
  BY <1>7, LocksKeep DEF FreeLeases
<1>8. CASE CloseParent(r)
  <2>1. (\E row : \E g : Write(r, row, g)) \/ UNCHANGED locks
    BY <1>8, Zenon DEF CloseParent, database
  <2> QED
    BY <2>1, LocksKeep
<1>9. CASE LockView(r)
  BY <1>9, LocksKeep DEF LockView
<1>10. CASE Heartbeat(r)
  <2>1. (\E row : \E g : Write(r, row, g)) \/ UNCHANGED locks
    BY <1>10, Zenon DEF Heartbeat, database
  <2> QED
    BY <2>1, LocksKeep
<1>11. CASE DropOverdue(r)
  <2>1. (\E ts : \E g : ReplaceLeases(r, ts, g)) \/ UNCHANGED locks
    BY <1>11, Zenon DEF DropOverdue, database
  <2> QED
    BY <2>1, LocksKeep
<1> QED
  BY <1>1, <1>2, <1>3, <1>4, <1>5, <1>6, <1>7, <1>8, <1>9, <1>10, <1>11 DEF Runs

\* A claim that has checked the assignees, and one that has its row.
Settled == {"room", "flag", "move", "assign", "conflicts", "lease", "commit"}
IsClaim(r) == input[r].kind = "claim"

\* The statements of a claim, in their order.
LEMMA ClaimGoes ==
    ASSUME RaceTypeOK, NEW r \in Request, IsClaim(r), Runs(r), ~Refuse(r)
    PROVE  \/ pc[r] = "row" /\ PinRow(r) /\ pc'[r] = "check"
           \/ /\ pc[r] = "check" /\ pc'[r] = "room" /\ Reads(r)
              /\ Who(Sees(r), input[r].task) \subseteq {input[r].user}
              /\ joins'[r] <=> Who(Sees(r), input[r].task) = {}
           \/ /\ pc[r] \in {"room", "flag", "move"} /\ pc'[r] \in {"flag", "move", "assign"}
              /\ joins'[r] = joins[r]
           \/ /\ pc[r] = "assign" /\ pc'[r] = "conflicts" /\ joins'[r] = joins[r]
              /\ joins[r] => Writes(r, OwnerRow(input[r].task, input[r].user))
           \/ /\ pc[r] \in {"conflicts", "lease"} /\ pc'[r] \in {"lease", "commit"}
              /\ joins'[r] = joins[r]
<1>0. input[r].kind = "claim" /\ pc[r] \in Lines("claim")
  BY InputTyped DEF IsClaim
<1>1. \A l, f, j, h, n : Does(r, l, f, j, h, n) => pc'[r] = l /\ joins'[r] = j
  BY DEF Does, Moved, Goto, RaceTypeOK
<1>2. CASE PinRow(r)
  BY <1>1, <1>2, PinDoes
<1>3. CASE CheckAssignees(r)
  <2>1. PICK j \in BOOLEAN, h \in User :
           /\ pc[r] = "check" /\ Acceptable(r, Who(Sees(r), input[r].task)) /\ Reads(r)
           /\ Does(r, Order[input[r].kind]["check"], found[r], j, h, noted[r])
           /\ j <=> Who(Sees(r), input[r].task) = {}
    BY <1>3, CheckDoes
  <2>2. pc'[r] = "room" /\ (joins'[r] <=> j)
    BY <1>0, <1>1, <2>1, OrderIs
  <2>3. Who(Sees(r), input[r].task) \subseteq {input[r].user}
    BY <1>0, <2>1 DEF Acceptable
  <2> QED
    BY <2>1, <2>2, <2>3
<1>4. CASE CheckRoom(r)
  <2>1. /\ pc[r] = "room"
        /\ \/ Does(r, "assign", found[r], joins[r], holder[r], noted[r])
           \/ Does(r, Order[input[r].kind]["room"], found[r], joins[r], holder[r], noted[r])
    BY <1>4, RoomDoes
  <2> QED
    BY <1>0, <1>1, <2>1, OrderIs
<1>5. CASE WriteFlag(r)
  <2>1. /\ pc[r] \in {"flag", "final"}
        /\ Does(r, Order[input[r].kind][pc[r]], found[r], joins[r], holder[r], noted[r])
    BY <1>5, FlagDoes
  <2>2. pc[r] = "flag"
    BY <1>0, <2>1, LineKinds
  <2> QED
    BY <1>0, <1>1, <2>1, <2>2, OrderIs
<1>6. CASE MoveRow(r)
  <2>1. /\ pc[r] = "move"
        /\ Does(r, Order[input[r].kind]["move"], found[r], joins[r], holder[r], noted[r])
    BY <1>6, MoveDoes
  <2> QED
    BY <1>0, <1>1, <2>1, OrderIs
<1>7. CASE Assign(r)
  <2>1. /\ pc[r] = "assign"
        /\ Does(r, Order[input[r].kind]["assign"], found[r], joins[r], holder[r], noted[r])
        /\ joins[r] => Writes(r, OwnerRow(input[r].task, input[r].user))
    BY <1>7, AssignDoes
  <2> QED
    BY <1>0, <1>1, <2>1, OrderIs
<1>8. CASE CheckLeases(r)
  <2>1. /\ pc[r] = "conflicts"
        /\ Does(r, Order[input[r].kind]["conflicts"], found[r], joins[r], holder[r], noted[r])
    BY <1>8, ConflictsDoes
  <2> QED
    BY <1>0, <1>1, <2>1, OrderIs
<1>9. CASE TakeLeases(r)
  <2>1. /\ pc[r] = "lease"
        /\ Does(r, Order[input[r].kind]["lease"], found[r], joins[r], holder[r], noted[r])
    BY <1>9, LeaseDoes
  <2> QED
    BY <1>0, <1>1, <2>1, OrderIs
<1>10. ~ReadRow(r)
  BY <1>0, RowDoes
<1>11. ~FreeLeases(r) /\ ~CountOpen(r) /\ ~CloseParent(r) /\ ~LockView(r)
  BY <1>0, LineKinds DEF FreeLeases, CountOpen, CloseParent, LockView
<1>12. ~Heartbeat(r) /\ ~SelectOverdue(r) /\ ~DropOverdue(r)
  BY <1>0, LineKinds DEF Heartbeat, SelectOverdue, DropOverdue
<1> QED
  BY <1>2, <1>3, <1>4, <1>5, <1>6, <1>7, <1>8, <1>9, <1>10, <1>11, <1>12 DEF Runs

\* Whoever is assigned in the tables a request would commit stays so,
\* whoever writes or commits.
LEMMA AssigneesStay ==
    ASSUME NEW T, IsTables(T), NEW g, IsPart(g), NEW h, IsPart(h), NEW x \in Task
    PROVE  /\ Who(T, x) \subseteq Who(Over(T, g), x)
           /\ Who(Over(T, h), x) \subseteq Who(Over(Over(T, g), h), x)
           /\ Who(Over(T, h), x) \subseteq Who(Over(T, Over(h, g)), x)
<1>1. Who(T, x) \subseteq Who(Over(T, g), x)
  BY OwnersStay
<1>2. IsTables(Over(T, h)) /\ IsTables(Over(T, g))
  BY OverTables
<1>3. Who(Over(T, h), x) \subseteq Who(Over(Over(T, h), g), x)
  BY <1>2, OwnersStay
<1>4. Over(Over(T, h), g) = Over(T, Over(h, g))
  BY OverTwice
<1>5. Who(Over(T, h), x) \subseteq Who(Over(Over(T, g), h), x)
  <2> SUFFICES ASSUME NEW u \in User, Over(T, h)[Assigned(x, u)]
               PROVE  Over(Over(T, g), h)[Assigned(x, u)]
    BY DEF Who
  <2> DEFINE k == Assigned(x, u)  S == Over(T, g)
  <2>1. k \in DOMAIN T /\ k \in DOMAIN S
    BY <1>2, RowsAre DEF IsTables
  <2>2. T[k] => S[k]
    BY <1>1 DEF Who
  <2> HIDE DEF k, S
  <2>3. Over(T, h)[k] = IF k \in DOMAIN h THEN h[k] ELSE T[k]
    BY ONLY <2>1 DEF Over
  <2>4. Over(S, h)[k] = IF k \in DOMAIN h THEN h[k] ELSE S[k]
    BY ONLY <2>1 DEF Over
  <2>5. Over(S, h)[k]
    BY <2>2, <2>3, <2>4 DEF k
  <2> QED
    BY <2>5 DEF k, S
<1> QED
  BY <1>1, <1>3, <1>4, <1>5

(***************************************************************************)
(* What holds on PostgreSQL of the claims of one task, whatever the tables *)
(* are at the start and whoever drags it meanwhile.                        *)
(***************************************************************************)
\* A claim has the row of its task locked, from reading it to the end.
Pinned(r) ==
    IsClaim(r) /\ pc[r] \in {"check"} \cup Settled => locks[Bucket(input[r].task)] = r

\* It will have the task, or has it.
Assured(r) ==
    IsClaim(r) /\ pc[r] \in Settled =>
       \/ joins[r] /\ pc[r] \in {"room", "flag", "move", "assign"}
       \/ input[r].user \in Who(Newest(r), input[r].task)

Rivals(r, q) == IsClaim(r) /\ IsClaim(q) /\ input[r].task = input[q].task

\* Nobody else has won it.
Undisputed(r) ==
    pc[r] \in Settled => \A q \in Request :
       Rivals(r, q) /\ pc[q] = "committed" => input[r].user = input[q].user

Pins ==
    /\ \A r \in Request : Pinned(r) /\ Assured(r) /\ Undisputed(r)
    /\ ClaimsStand /\ OneWinner

\* What a step of r does not do to the others.
Beyond(r) ==
    /\ UNCHANGED <<engine, input>>
    /\ \A q \in Request \ {r} :
          /\ pc'[q] = pc[q] /\ joins'[q] = joins[q]
          /\ \A k \in Lockable : locks[k] = q => locks'[k] = q
          /\ \A x \in Task : Who(Newest(q), x) \subseteq Who(Newest(q)', x)
    /\ \A x \in Task : Who(db, x) \subseteq Who(db', x)

\* What a step of r has to see to.
Within(r) ==
    /\ Pinned(r)' /\ Assured(r)'
    /\ IsClaim(r) /\ pc'[r] \in Settled =>
          pc[r] \in Settled \/ Who(Newest(r), input[r].task) \subseteq {input[r].user}
    /\ IsClaim(r) /\ pc'[r] = "committed" =>
          pc[r] = "commit" /\ input[r].user \in Who(db', input[r].task)

\* Then the pins hold: of two claims only one can be past its check, and
\* whoever comes to the check later finds the winner assigned.
LEMMA PinsStay ==
    ASSUME RaceTypeOK, Pins, NEW r \in Request, pc[r] \notin {"committed", "refused"},
           Beyond(r), Within(r)
    PROVE  Pins'
<1>0. /\ \A q \in Request : Pinned(q) /\ Assured(q) /\ Undisputed(q)
      /\ ClaimsStand /\ OneWinner
      /\ \A q \in Request : input[q].task \in Task /\ Bucket(input[q].task) \in Lockable
  <2>1. \A q \in Request : input[q].task \in Task
    BY InputTyped
  <2>2. \A t \in Task : Bucket(t) \in Lockable
    BY DEF Bucket, Lockable
  <2> QED
    BY <2>1, <2>2 DEF Pins
<1>1. \A q \in Request \ {r} : /\ pc'[q] = pc[q] /\ (joins'[q] <=> joins[q])
                               /\ input'[q] = input[q] /\ (IsClaim(q)' <=> IsClaim(q))
                               /\ \A k \in Lockable : locks[k] = q => locks'[k] = q
                               /\ \A x \in Task : Who(Newest(q), x) \subseteq Who(Newest(q)', x)
  BY DEF Beyond, IsClaim
<1>2. /\ input' = input /\ (IsClaim(r)' <=> IsClaim(r))
      /\ \A q, p : Rivals(q, p)' <=> Rivals(q, p)
      /\ \A x \in Task : Who(db, x) \subseteq Who(db', x)
  BY DEF Beyond, IsClaim, Rivals
<1>3. \A q \in Request : Pinned(q)'
  <2>1. ASSUME NEW q \in Request \ {r} PROVE Pinned(q)'
    BY <1>0, <1>1, <1>2 DEF Pinned
  <2> QED
    BY <2>1 DEF Within
<1>4. \A q \in Request : Assured(q)'
  <2>1. ASSUME NEW q \in Request \ {r}, IsClaim(q), pc[q] \in Settled
        PROVE  \/ joins'[q] /\ pc'[q] \in {"room", "flag", "move", "assign"}
               \/ input'[q].user \in Who(Newest(q)', input'[q].task)
    <3>1. \/ joins[q] /\ pc[q] \in {"room", "flag", "move", "assign"}
          \/ input[q].user \in Who(Newest(q), input[q].task)
      BY <1>0, <2>1 DEF Assured
    <3> QED
      BY <1>0, <1>1, <1>2, <3>1
  <2>2. ASSUME NEW q \in Request \ {r} PROVE Assured(q)'
    BY <1>1, <1>2, <2>1 DEF Assured
  <2> QED
    BY <2>2 DEF Within
<1>5. ClaimsStand'
  <2> SUFFICES ASSUME NEW q \in Request, pc'[q] = "committed", IsClaim(q)
               PROVE  input[q].user \in Who(db', input[q].task)
    BY <1>1, <1>2 DEF ClaimsStand, IsClaim
  <2>1. CASE q = r
    BY <2>1 DEF Within
  <2>2. CASE q # r
    <3>1. pc[q] = "committed"
      BY <1>1, <2>2
    <3>2. input[q].user \in Who(db, input[q].task)
      BY <1>0, <3>1 DEF ClaimsStand, IsClaim
    <3> QED
      BY <1>0, <1>2, <3>2
  <2> QED
    BY <2>1, <2>2
<1>6. ASSUME NEW q \in Request, NEW p \in Request, Rivals(q, p), pc'[q] \in Settled, pc'[p] = "committed"
      PROVE  input[q].user = input[p].user
  <2>0. q # p /\ IsClaim(q) /\ IsClaim(p) /\ input[q].task = input[p].task
    BY <1>6 DEF Settled, Rivals
  <2>1. CASE q = r /\ pc[r] \in Settled
    BY <1>0, <1>1, <1>6, <2>0, <2>1 DEF Undisputed
  <2>2. CASE q = r /\ pc[r] \notin Settled
    <3>1. Who(Newest(r), input[r].task) \subseteq {input[r].user}
      BY <1>6, <2>0, <2>2 DEF Within
    <3>2. input[p].user \in Who(db, input[p].task)
      BY <1>0, <1>1, <1>6, <2>0, <2>2 DEF ClaimsStand, IsClaim
    <3>3. Who(db, input[r].task) \subseteq Who(Newest(r), input[r].task)
      <4>1. IsTables(db) /\ IsPart(own[r])
        BY DEF RaceTypeOK
      <4> QED
        BY <1>0, <4>1, OwnersStay DEF Newest
    <3> QED
      BY <2>0, <2>2, <3>1, <3>2, <3>3
  <2>3. CASE p = r
    <3>1. pc[r] = "commit"
      BY <1>6, <2>0, <2>3 DEF Within
    <3>2. locks[Bucket(input[r].task)] = r
      BY <1>0, <2>0, <2>3, <3>1 DEF Pinned, Settled
    <3>3. locks[Bucket(input[q].task)] = q
      BY <1>0, <1>1, <1>6, <2>0, <2>3 DEF Pinned
    <3> QED
      BY <2>0, <2>3, <3>2, <3>3
  <2>4. CASE q # r /\ p # r
    BY <1>0, <1>1, <1>6, <2>4 DEF Undisputed
  <2> QED
    BY <2>1, <2>2, <2>3, <2>4
<1>7. \A q \in Request : Undisputed(q)'
  BY <1>2, <1>6 DEF Undisputed
<1>8. OneWinner'
  <2> SUFFICES ASSUME NEW q \in Request, NEW p \in Request, Rivals(q, p),
                      pc'[q] = "committed", pc'[p] = "committed"
               PROVE  input[q].user = input[p].user
    BY <1>2 DEF OneWinner, Rivals, IsClaim
  <2>0. IsClaim(q) /\ IsClaim(p) /\ input[q].task = input[p].task
    BY DEF Rivals
  <2>1. ASSUME NEW a \in Request \ {r}, IsClaim(r), Rivals(r, a), pc'[r] = "committed",
               pc'[a] = "committed"
        PROVE  input[r].user = input[a].user
    <3>1. pc[r] \in Settled
      BY <2>1 DEF Within, Settled
    <3> QED
      BY <1>0, <1>1, <2>1, <3>1 DEF Undisputed
  <2>2. Rivals(p, q)
    BY DEF Rivals
  <2>3. CASE q = r /\ p # r
    BY <2>0, <2>1, <2>3
  <2>4. CASE q # r /\ p = r
    BY <2>0, <2>1, <2>2, <2>4
  <2>5. CASE q # r /\ p # r
    BY <1>0, <1>1, <2>0, <2>5 DEF OneWinner, IsClaim
  <2> QED
    BY <2>3, <2>4, <2>5
<1> QED
  BY <1>3, <1>4, <1>5, <1>7, <1>8 DEF Pins

\* Statements leave what others have locked and whom they have assigned.
LEMMA RunsBeyond ==
    ASSUME RaceTypeOK, NEW r \in Request, Runs(r), ~Refuse(r)
    PROVE  Beyond(r) /\ RaceTypeOK' /\ UNCHANGED db
<1>1. PICK l : \E f \in Places, j \in BOOLEAN, h \in User, n \in SUBSET Task :
         Open(r) /\ Does(r, l, f, j, h, n) /\ (Reads(r) \/ \E g : Writes(r, g))
  BY RunsDoes
<1>2. /\ RaceTypeOK' /\ Apiece(r) /\ UNCHANGED <<engine, limit, input, db, snapshot, behind>>
  BY <1>1, DoesTyped
<1>3. \A q \in Request \ {r} : Newest(q)' = Newest(q)
  BY <1>2 DEF Apiece, Newest
<1>4. \A q \in Request \ {r} : \A k \in Lockable : locks[k] = q => locks'[k] = q
  <2>1. KeepsLocks
    BY RunsLocks
  <2>2. DOMAIN locks = Lockable /\ Nobody \notin Request
    BY RaceAssumption DEF RaceTypeOK, RaceAssumption
  <2> QED
    BY <2>1, <2>2 DEF KeepsLocks
<1> QED
  BY <1>2, <1>3, <1>4 DEF Beyond, Apiece

\* A statement does not unassign anybody in the tables of its request.
LEMMA RunsAssigns ==
    ASSUME RaceTypeOK, NEW r \in Request, Runs(r), ~Refuse(r), NEW x \in Task
    PROVE  /\ Who(Newest(r), x) \subseteq Who(Newest(r)', x)
           /\ Reads(r) => Newest(r)' = Newest(r)
<1>1. UNCHANGED db /\ IsTables(db) /\ IsPart(own[r]) /\ DOMAIN own = Request
  BY RunsBeyond DEF RaceTypeOK
<1>2. CASE Reads(r)
  BY <1>1, <1>2 DEF Reads, Newest
<1>3. ASSUME NEW g, Writes(r, g) PROVE Who(Newest(r), x) \subseteq Who(Newest(r)', x)
  <2>1. IsPart(g) /\ own'[r] = Over(own[r], g)
    BY <1>1, <1>3 DEF Writes
  <2>2. Who(Over(db, own[r]), x) \subseteq Who(Over(db, Over(own[r], g)), x)
    BY <1>1, <2>1, AssigneesStay
  <2> QED
    BY <1>1, <2>1, <2>2 DEF Newest
<1>4. Reads(r) \/ \E g : Writes(r, g)
  BY RunsDoes
<1> QED
  BY <1>2, <1>3, <1>4

\* Every statement of a claim sees to its lock and its assignee.
LEMMA RunsWithin ==
    ASSUME RaceTypeOK, engine = "postgres", NEW r \in Request, Runs(r), ~Refuse(r),
           Pinned(r), Assured(r)
    PROVE  Within(r)
<1> DEFINE t == input[r].task
           u == input[r].user
<1>0. /\ Beyond(r) /\ RaceTypeOK' /\ UNCHANGED <<db, input>> /\ (IsClaim(r)' <=> IsClaim(r))
      /\ t \in Task /\ u \in User /\ Bucket(t) \in Lockable
      /\ DOMAIN locks = Lockable /\ Nobody \notin Request
  BY RunsBeyond, InputTyped, RaceAssumption
     DEF Beyond, IsClaim, RaceTypeOK, RaceAssumption, Bucket, Lockable
<1> HIDE DEF t, u
<1>1. CASE ~IsClaim(r)
  BY <1>0, <1>1 DEF Within, Pinned, Assured
<1>2. CASE IsClaim(r)
  <2>1. /\ KeepsLocks /\ Who(Newest(r), t) \subseteq Who(Newest(r)', t)
        /\ Reads(r) => Newest(r)' = Newest(r)
    BY <1>0, RunsLocks, RunsAssigns
  <2>2. CASE pc[r] = "row" /\ PinRow(r) /\ pc'[r] = "check"
    <3>1. Lock(r, Bucket(t))
      BY <2>2 DEF PinRow, LockOnly, t
    <3>2. locks'[Bucket(t)] = r
      BY <1>0, <3>1 DEF Lock, LockFor
    <3> QED
      BY <1>0, <2>2, <3>2 DEF Within, Pinned, Assured, Settled, t
  <2>3. CASE /\ pc[r] = "check" /\ pc'[r] = "room" /\ Reads(r)
             /\ Who(Sees(r), input[r].task) \subseteq {input[r].user}
             /\ joins'[r] <=> Who(Sees(r), input[r].task) = {}
    <3>1. locks'[Bucket(t)] = r
      BY <1>0, <1>2, <2>1, <2>3 DEF KeepsLocks, Pinned, t
    <3>2. /\ Who(Newest(r), t) \subseteq {u}
          /\ joins'[r] <=> Who(Newest(r), t) = {}
      BY <2>3 DEF Sees, t, u
    <3>3. joins'[r] \/ u \in Who(Newest(r)', t)
      BY <2>1, <2>3, <3>2
    <3> QED
      BY <1>0, <2>3, <3>1, <3>2, <3>3 DEF Within, Pinned, Assured, Settled, t, u
  <2>4. ASSUME pc[r] \in Settled, pc'[r] \in Settled,
               \/ joins'[r] /\ pc'[r] \in {"room", "flag", "move", "assign"}
               \/ u \in Who(Newest(r)', t)
        PROVE  Within(r)
    <3>1. locks'[Bucket(t)] = r
      BY <1>0, <1>2, <2>1, <2>4 DEF KeepsLocks, Pinned, t
    <3> QED
      BY <1>0, <2>4, <3>1 DEF Within, Pinned, Assured, Settled, t, u
  <2>5. CASE /\ pc[r] \in {"room", "flag", "move"} /\ pc'[r] \in {"flag", "move", "assign"}
             /\ joins'[r] = joins[r]
    <3>1. joins[r] \/ u \in Who(Newest(r), t)
      BY <1>2, <2>5 DEF Assured, Settled, t, u
    <3> QED
      BY <2>1, <2>4, <2>5, <3>1 DEF Settled
  <2>6. CASE /\ pc[r] = "assign" /\ pc'[r] = "conflicts" /\ joins'[r] = joins[r]
             /\ joins[r] => Writes(r, OwnerRow(input[r].task, input[r].user))
    <3>1. joins[r] \/ u \in Who(Newest(r), t)
      BY <1>2, <2>6 DEF Assured, Settled, t, u
    <3>2. CASE joins[r]
      <4>1. own'[r] = Over(own[r], OwnerRow(t, u))
        BY <2>6, <3>2 DEF Writes, RaceTypeOK, t, u
      <4>2. Newest(r)' = Over(Newest(r), OwnerRow(t, u))
        BY <1>0, <4>1, OverTwice DEF Newest
      <4>3. IsTables(Newest(r))
        BY SeesTyped
      <4>4. Who(Over(Newest(r), OwnerRow(t, u)), t) = Who(Newest(r), t) \cup {u}
        BY <1>0, <4>3, OwnerWritten
      <4> QED
        BY <2>4, <2>6, <4>2, <4>4 DEF Settled
    <3> QED
      BY <2>1, <2>4, <2>6, <3>1, <3>2 DEF Settled
  <2>7. CASE /\ pc[r] \in {"conflicts", "lease"} /\ pc'[r] \in {"lease", "commit"}
             /\ joins'[r] = joins[r]
    <3>1. u \in Who(Newest(r), t)
      BY <1>2, <2>7 DEF Assured, Settled, t, u
    <3> QED
      BY <2>1, <2>4, <2>7, <3>1 DEF Settled
  <2> QED
    BY <1>2, <2>2, <2>3, <2>5, <2>6, <2>7, ClaimGoes
<1> QED
  BY <1>1, <1>2

\* A request that ends, either way, lets its locks go and no others.
LEMMA UnlockedKeeps ==
    ASSUME RaceTypeOK, NEW r \in Request, locks' = Unlocked(r)
    PROVE  \A q \in Request \ {r} : \A k \in Lockable : locks[k] = q => locks'[k] = q
BY DEF Unlocked, RaceTypeOK

\* Beginning keeps the pins.
LEMMA BeginPins ==
    ASSUME RaceTypeOK, Pins, NEW r \in Request, Begin(r)
    PROVE  Pins'
<1>1. pc[r] = "begin" /\ UNCHANGED <<engine, input, joins, db, own, locks>>
  BY BeginDoes DEF request, reading, BeginTransaction, database
<1>2. PICK l : Moved(r, l) /\ (l = "committed" \/ l = Order[input[r].kind]["begin"])
  BY BeginDoes
<1>3. pc'[r] = l /\ \A q \in Request \ {r} : pc'[q] = pc[q]
  BY <1>2, MovedLines
<1>4. \A q \in Request : Newest(q)' = Newest(q)
  BY <1>1 DEF Newest
<1>5. Beyond(r)
  BY <1>1, <1>3, <1>4 DEF Beyond
<1>6. IsClaim(r) => pc'[r] = "row"
  <2>1. IsClaim(r) => ~Goto(r, "committed")
    <3> SUFFICES ASSUME IsClaim(r), Goto(r, "committed") PROVE FALSE
      OBVIOUS
    <3>1. Proceed(r)
      BY DEF Begin, IsClaim
    <3>2. Goto(r, "row")
      BY <1>1, <3>1, OrderIs DEF Proceed, IsClaim
    <3> QED
      BY <3>2 DEF Goto, RaceTypeOK
  <2> QED
    BY <1>2, <1>3, <2>1, OrderIs DEF IsClaim, Moved
<1>7. Within(r)
  BY <1>1, <1>6 DEF Within, Pinned, Assured, IsClaim, Settled
<1> QED
  BY <1>1, <1>5, <1>7, PinsStay

\* So does turning a request away.
LEMMA RefusePins ==
    ASSUME RaceTypeOK, Pins, NEW r \in Request, Open(r), Refuse(r)
    PROVE  Pins'
<1>1. /\ pc' = [pc EXCEPT ![r] = "refused"] /\ own' = [own EXCEPT ![r] = NoRows]
      /\ locks' = Unlocked(r) /\ UNCHANGED <<db, engine, input, joins>>
  BY DEF Refuse, Goto, Rollback, request, reading
<1>2. /\ pc'[r] = "refused"
      /\ \A q \in Request \ {r} : pc'[q] = pc[q] /\ Newest(q)' = Newest(q)
  BY <1>1 DEF RaceTypeOK, Newest
<1>3. Beyond(r)
  BY <1>1, <1>2, UnlockedKeeps DEF Beyond
<1>4. Within(r)
  BY <1>2 DEF Within, Pinned, Assured, Settled
<1> QED
  BY <1>3, <1>4, PinsStay DEF Open

\* A commit keeps the pins, and brings the assignee with it.
LEMMA EndPins ==
    ASSUME RaceTypeOK, Pins, NEW r \in Request, End(r)
    PROVE  Pins'
<1>1. /\ pc[r] = "commit" /\ pc' = [pc EXCEPT ![r] = "committed"]
      /\ own' = [own EXCEPT ![r] = NoRows] /\ db' = Newest(r)
      /\ locks' = Unlocked(r) /\ UNCHANGED <<engine, input, joins>>
  BY DEF End, Goto, Commit, request, reading
<1>2. /\ pc'[r] = "committed"
      /\ \A q \in Request \ {r} : pc'[q] = pc[q] /\ own'[q] = own[q]
  BY <1>1 DEF RaceTypeOK
<1>3. IsTables(db) /\ \A q \in Request : IsPart(own[q])
  BY DEF RaceTypeOK
<1>4. ASSUME NEW x \in Task PROVE Who(db, x) \subseteq Who(db', x)
  <2>1. Who(db, x) \subseteq Who(Over(db, own[r]), x)
    BY <1>3, OwnersStay
  <2> QED
    BY <1>1, <2>1 DEF Newest
<1>5. ASSUME NEW q \in Request \ {r}, NEW x \in Task
      PROVE  Who(Newest(q), x) \subseteq Who(Newest(q)', x)
  <2>1. Who(Over(db, own[q]), x) \subseteq Who(Over(Over(db, own[r]), own[q]), x)
    BY <1>3, AssigneesStay
  <2> QED
    BY <1>1, <1>2, <2>1 DEF Newest
<1>6. Beyond(r)
  BY <1>1, <1>2, <1>4, <1>5, UnlockedKeeps DEF Beyond
<1>7. IsClaim(r) => input[r].user \in Who(db', input[r].task)
  BY <1>1 DEF Pins, Assured, Settled
<1>8. Within(r)
  BY <1>1, <1>2, <1>7 DEF Within, Pinned, Assured, Settled, IsClaim
<1> QED
  BY <1>1, <1>6, <1>8, PinsStay

(***************************************************************************)
(* On PostgreSQL a task has one winner, whatever the tables are at the     *)
(* start, however many claim it and whoever drags it meanwhile: the row    *)
(* that PinRow locks is locked until the claim ends, and what a claim      *)
(* reads after it is what the winner before it committed.                  *)
(***************************************************************************)
THEOREM PinnedOneWinner == Spec => [](engine = "postgres" => OneWinner)
<1>1. Init => Pins
  <2>1. Init => \A r \in Request : pc[r] = "begin"
    BY DEF Init
  <2> QED
    BY <2>1 DEF Pins, Pinned, Assured, Undisputed, Settled, ClaimsStand, OneWinner
<1>2. RaceTypeOK /\ (engine = "postgres" => Pins) /\ [Next]_vars => (engine = "postgres" => Pins)'
  <2> SUFFICES ASSUME RaceTypeOK, engine = "postgres" => Pins, [Next]_vars
               PROVE  (engine = "postgres" => Pins)'
    OBVIOUS
  <2>1. ASSUME NEW r \in Request, Step(r)
        PROVE  (engine = "postgres" => Pins)'
    <3>1. engine' = engine
      BY <2>1, EngineStays
    <3> SUFFICES ASSUME engine = "postgres", Pins PROVE Pins'
      BY <3>1
    <3>2. CASE Begin(r)
      BY <3>2, BeginPins
    <3>3. CASE End(r)
      BY <3>3, EndPins
    <3>4. CASE Abort(r)
      BY <3>4, AbortIsOpen, RefusePins
    <3>5. CASE Runs(r) /\ Refuse(r)
      BY <3>5, RunsDoes, RefusePins
    <3>6. CASE Runs(r) /\ ~Refuse(r)
      <4>1. Pinned(r) /\ Assured(r)
        BY DEF Pins
      <4>2. Beyond(r) /\ Within(r)
        BY <3>6, <4>1, RunsBeyond, RunsWithin
      <4>3. Open(r)
        BY <3>6, RunsDoes
      <4> QED
        BY <4>2, <4>3, PinsStay DEF Open
    <3> QED
      BY <2>1, <3>2, <3>3, <3>4, <3>5, <3>6 DEF Step, Runs
  <2>2. CASE UNCHANGED vars
    <3>1. UNCHANGED <<db, own, locks, engine, input, pc, joins>>
      BY <2>2 DEF vars, database, request, reading
    <3> SUFFICES ASSUME engine = "postgres", Pins PROVE Pins'
      BY <3>1
    <3>2. \A q \in Request : Newest(q)' = Newest(q) /\ (IsClaim(q)' <=> IsClaim(q))
      BY <3>1 DEF Newest, IsClaim
    <3>3. \A q \in Request : /\ Pinned(q)' <=> Pinned(q)
                             /\ Assured(q)' <=> Assured(q)
                             /\ Undisputed(q)' <=> Undisputed(q)
      BY <3>1, <3>2 DEF Pinned, Assured, Undisputed, Rivals
    <3>4. ClaimsStand' /\ OneWinner'
      BY <3>1 DEF Pins, ClaimsStand, OneWinner
    <3> QED
      BY <3>3, <3>4 DEF Pins
  <2> QED
    BY <2>1, <2>2 DEF Next
<1>3. Pins => OneWinner
  BY DEF Pins
<1> QED
  BY <1>1, <1>2, <1>3, RaceTypeCorrect, PTL DEF Spec

-----------------------------------------------------------------------------
(* A race has a winner.                                                    *)

\* At the start somebody has a task, or nothing is in progress or leased, and claims that
\* say so find their task in "todo".
StartsOpen ==
    \A s \in Scenarios : \A d \in s.tables :
       \/ \E t \in Task : Who(d, t) # {}
       \/ /\ InBucket(d, "doing") = {} /\ \A t \in Task : Leased(d, t) = {}
          /\ \A in \in s.inputs :
                in.kind = "claim" /\ in.expectsTodo => d[Bucket(in.task)] = "todo"

\* As long as nothing is committed, everybody sees the tables of the start.
Untold == \A r \in Request : pc[r] # "committed"

Opening ==
    Untold =>
       /\ behind = {}
       /\ \E s \in Scenarios :
             limit = s.limit /\ db \in s.tables /\ \A r \in Request : input[r] \in s.inputs
       /\ \A r \in Request : Open(r) /\ engine # "postgres" => snapshot[r] = db
       /\ \A r \in Request : IsClaim(r) /\ pc[r] = "check" => found[r] = db[Bucket(input[r].task)]

\* What a claim or a drag has not written yet.
Working(r) == input[r].kind \in {"claim", "drag"}

Looking == {"begin", "row", "check", "room"}

Unleasing(kind, l) ==
    \/ l \in Looking \cup {"assign", "conflicts"}
    \/ kind = "claim" /\ l \in {"flag", "move"}

Spotless(r) ==
    /\ Working(r) /\ pc[r] \in Looking => own[r] = NoRows
    /\ Working(r) /\ Unleasing(input[r].kind, pc[r]) =>
          \A x \in Task : LeaseRows(x) \cap DOMAIN own[r] = {}

Racing == Opening /\ SomebodyWins /\ \A r \in Request : Spotless(r)

\* The statements of claims and drags: none turns a request away but the
\* three that check, the first three only read, and nobody takes leases
\* before nobody is known to be in the way.
LEMMA WorkGoes ==
    ASSUME RaceTypeOK, NEW r \in Request, Working(r), Runs(r),
           CheckAssignees(r) \/ CheckRoom(r) \/ CheckLeases(r) => ~Refuse(r)
    PROVE  /\ pc'[r] \notin {"begin", "committed", "refused"}
           /\ IsClaim(r) /\ pc'[r] = "check" => PinRow(r)
           /\ \/ pc[r] \in Looking /\ Reads(r)
              \/ /\ pc'[r] \notin Looking
                 /\ \/ ~Unleasing(input[r].kind, pc'[r])
                    \/ /\ Unleasing(input[r].kind, pc[r])
                       /\ \/ Reads(r)
                          \/ \E g : Writes(r, g) /\ \A x \in Task : LeaseRows(x) \cap DOMAIN g = {}
<1>0. /\ input[r].kind \in {"claim", "drag"} /\ input[r].task \in Task /\ input[r].user \in User
      /\ pc[r] \in Lines(input[r].kind)
  BY InputTyped DEF Working
<1>1. \A l, f, j, h, n : Does(r, l, f, j, h, n) => pc'[r] = l
  BY DEF Does, Moved, Goto, RaceTypeOK
<1>2. CASE PinRow(r)
  <2>1. pc[r] = "row" /\ Reads(r) /\ pc'[r] = "check"
    BY <1>1, <1>2, PinDoes
  <2> QED
    BY <1>2, <2>1 DEF Looking
<1>3. CASE ReadRow(r)
  <2>1. pc[r] = "row" /\ input[r].kind # "claim" /\ Reads(r)
    BY <1>3, RowDoes
  <2>2. pc'[r] \in {"commit", "final", "move", Order[input[r].kind]["row"]}
    BY <1>1, <1>3, RowDoes
  <2> QED
    BY <1>0, <2>1, <2>2, OrderIs DEF Looking, IsClaim
<1>4. CASE CheckAssignees(r) /\ ~Refuse(r)
  <2>1. pc[r] = "check" /\ Reads(r) /\ pc'[r] = Order[input[r].kind]["check"]
    BY <1>1, <1>4, CheckDoes
  <2> QED
    BY <1>0, <2>1, OrderIs DEF Looking, IsClaim
<1>5. CASE CheckRoom(r) /\ ~Refuse(r)
  <2>1. pc[r] = "room" /\ Reads(r) /\ pc'[r] \in {"assign", Order[input[r].kind]["room"]}
    BY <1>1, <1>5, RoomDoes
  <2> QED
    BY <1>0, <2>1, OrderIs DEF Looking, IsClaim
<1>6. CASE WriteFlag(r)
  <2> DEFINE g == FlagRow(input[r].task, FALSE)
  <2>1. /\ pc[r] \in {"flag", "final"} /\ pc'[r] = Order[input[r].kind][pc[r]]
        /\ Reads(r) \/ Writes(r, g)
    BY <1>0, <1>1, <1>6, FlagDoes DEF Finishes
  <2>2. pc[r] = "flag"
    BY <1>0, <2>1, LineKinds
  <2>3. \A x \in Task : LeaseRows(x) \cap DOMAIN g = {}
    BY LeaseRowsApart DEF FlagRow
  <2> HIDE DEF g
  <2> QED
    BY <1>0, <2>1, <2>2, <2>3, OrderIs DEF Looking, Unleasing, IsClaim
<1>7. CASE MoveRow(r)
  <2> DEFINE g == PlaceRow(input[r].task, "doing")
  <2>1. /\ pc[r] = "move" /\ pc'[r] = Order[input[r].kind]["move"] /\ Writes(r, g)
    BY <1>0, <1>1, <1>7, MoveDoes DEF Finishes
  <2>3. \A x \in Task : LeaseRows(x) \cap DOMAIN g = {}
    BY LeaseRowsApart DEF PlaceRow
  <2> HIDE DEF g
  <2> QED
    BY <1>0, <2>1, <2>3, OrderIs DEF Looking, Unleasing, IsClaim
<1>8. CASE Assign(r)
  <2> DEFINE g == OwnerRow(input[r].task, input[r].user)
  <2>1. /\ pc[r] = "assign" /\ pc'[r] = Order[input[r].kind]["assign"]
        /\ Reads(r) \/ Writes(r, g)
    BY <1>1, <1>8, AssignDoes
  <2>3. \A x \in Task : LeaseRows(x) \cap DOMAIN g = {}
    BY LeaseRowsApart DEF OwnerRow
  <2> HIDE DEF g
  <2> QED
    BY <1>0, <2>1, <2>3, OrderIs DEF Looking, Unleasing, IsClaim
<1>9. CASE CheckLeases(r) /\ ~Refuse(r)
  <2>1. pc[r] = "conflicts" /\ Reads(r) /\ pc'[r] = Order[input[r].kind]["conflicts"]
    BY <1>1, <1>9, ConflictsDoes
  <2> QED
    BY <1>0, <2>1, OrderIs DEF Looking, Unleasing, IsClaim
<1>10. CASE TakeLeases(r)
  <2>1. pc[r] = "lease" /\ pc'[r] = Order[input[r].kind]["lease"]
    BY <1>1, <1>10, LeaseDoes
  <2> QED
    BY <1>0, <2>1, OrderIs DEF Looking, Unleasing, IsClaim
<1>11. ~FreeLeases(r) /\ ~CountOpen(r) /\ ~CloseParent(r) /\ ~LockView(r)
  BY <1>0, LineKinds DEF FreeLeases, CountOpen, CloseParent, LockView
<1>12. ~Heartbeat(r) /\ ~SelectOverdue(r) /\ ~DropOverdue(r)
  BY <1>0, LineKinds DEF Heartbeat, SelectOverdue, DropOverdue
<1> QED
  BY <1>2, <1>3, <1>4, <1>5, <1>6, <1>7, <1>8, <1>9, <1>10, <1>11, <1>12 DEF Runs

\* As long as nothing is committed, what a request reads is the start with
\* its own rows over it.
LEMMA SeesTheStart ==
    ASSUME RaceTypeOK, Opening, Untold, NEW r \in Request, Open(r), Spotless(r), Working(r)
    PROVE  /\ Sees(r) = Over(db, own[r])
           /\ pc[r] \in Looking => Sees(r) = db
           /\ Unleasing(input[r].kind, pc[r]) => \A x \in Task : SameLeases(db, Sees(r), x)
<1>1. IsTables(db)
  BY DEF RaceTypeOK
<1>2. Sees(r) = Over(db, own[r])
  BY DEF Sees, Newest, Opening
<1>3. pc[r] \in Looking => Sees(r) = db
  BY <1>1, <1>2, NothingWritten DEF Spotless
<1>4. ASSUME Unleasing(input[r].kind, pc[r]), NEW x \in Task
      PROVE  SameLeases(db, Sees(r), x)
  <2>1. LeaseRows(x) \cap DOMAIN own[r] = {}
    BY <1>4 DEF Spotless
  <2> QED
    BY <1>1, <1>2, <2>1, Unwritten
<1> QED
  BY <1>2, <1>3, <1>4

\* Nobody has a task, nothing is in progress or leased, and r does not expect otherwise.
Quiet(r) ==
    /\ \A t \in Task : Who(db, t) = {} /\ Leased(db, t) = {}
    /\ InBucket(db, "doing") = {}
    /\ IsClaim(r) /\ input[r].expectsTodo => db[Bucket(input[r].task)] = "todo"

\* Where it is quiet no check turns a claim or a drag away.
LEMMA QuietPasses ==
    ASSUME RaceTypeOK, Opening, Untold, NEW r \in Request, Open(r), Spotless(r), Working(r), Quiet(r),
           CheckAssignees(r) \/ CheckRoom(r) \/ CheckLeases(r)
    PROVE  ~Refuse(r)
<1>0. /\ input[r].kind \in {"claim", "drag"} /\ input[r].task \in Task
      /\ limit \in Nat /\ DOMAIN pc = Request
  BY InputTyped DEF Working, RaceTypeOK
<1>1. \A l : l # "refused" /\ Goto(r, l) => ~Refuse(r)
  BY <1>0 DEF Refuse, Goto
<1>2. Cardinality({}) = 0
  BY FS_EmptySet
<1>3. CASE CheckAssignees(r)
  <2>1. pc[r] = "check"
    BY <1>3 DEF CheckAssignees
  <2>2. Sees(r) = db
    BY <2>1, SeesTheStart DEF Looking
  <2>3. Who(Sees(r), input[r].task) = {}
    BY <1>0, <2>2 DEF Quiet
  <2>4. IsClaim(r) /\ input[r].expectsTodo => found[r] = "todo"
    BY <2>1 DEF Opening, Quiet
  <2>5. Acceptable(r, {})
    BY <1>2, <2>4 DEF Acceptable, IsClaim
  <2>6. Proceed(r)
    BY <1>3, <2>3, <2>5 DEF CheckAssignees
  <2> QED
    BY <1>0, <1>1, <2>1, <2>6, OrderIs DEF Proceed
<1>4. CASE CheckRoom(r)
  <2>1. pc[r] = "room"
    BY <1>4 DEF CheckRoom
  <2>2. Sees(r) = db
    BY <2>1, SeesTheStart DEF Looking
  <2>3. ~(limit > 0 /\ Cardinality(InBucket(Sees(r), "doing")) >= limit)
    BY <1>0, <1>2, <2>2 DEF Quiet
  <2>4. Goto(r, "assign") \/ Proceed(r)
    BY <1>4, <2>3 DEF CheckRoom
  <2> QED
    BY <1>0, <1>1, <2>1, <2>4, OrderIs DEF Proceed
<1>5. CASE CheckLeases(r)
  <2>1. pc[r] = "conflicts"
    BY <1>5 DEF CheckLeases
  <2>2. \A x \in Task : SameLeases(db, Sees(r), x)
    BY <2>1, SeesTheStart DEF Unleasing
  <2>3. \A x \in Task : \A k \in LeaseRows(x) : Sees(r)[k] = "none"
    BY <2>2 DEF SameLeases, Quiet, Leased
  <2>4. \A o \in Task, u \in User, p \in Pattern : Sees(r)[Lease(o, u, p)] = "none"
    BY <2>3, RowsAre
  <2>5. Proceed(r)
    BY <1>5, <2>4 DEF CheckLeases
  <2> QED
    BY <1>0, <1>1, <2>1, <2>5, OrderIs DEF Proceed
<1> QED
  BY <1>3, <1>4, <1>5

\* The last claim or drag to be turned away, with all others turned away
\* before it, had somebody in its way from the start: there is no newer
\* commit to abort it and nobody to wait for.
LEMMA LastRefusal ==
    ASSUME RaceTypeOK, StartsOpen, Opening, NEW r \in Request, Spotless(r), Working(r),
           Abort(r) \/ Runs(r), Refuse(r), \A q \in Request \ {r} : pc[q] = "refused"
    PROVE  \E t \in Task : Who(db, t) # {}
<1>1. Open(r)
  BY AbortIsOpen, RunsDoes
<1>2. Untold
  BY <1>1 DEF Untold, Open
<1>3. pc'[r] = "refused"
  BY DEF Refuse, Goto, RaceTypeOK
<1>4. ~Abort(r)
  <2> SUFFICES ASSUME Abort(r) PROVE FALSE
    OBVIOUS
  <2>1. r \notin behind
    BY <1>2 DEF Opening
  <2>2. InCircle(r, Waiting)
    BY <2>1 DEF Abort, IsBusy
  <2>3. PICK q \in Request \ {r} : <<q, r>> \in Waiting
    BY <2>2 DEF InCircle
  <2>4. Wanted(q) # {}
    BY <2>3 DEF Waiting
  <2>5. pc[q] = "refused"
    BY <2>3
  <2>6. Wanted(q) = {}
    BY <2>5 DEF Wanted
  <2> QED
    BY <2>4, <2>6
<1>5. PICK s \in Scenarios : db \in s.tables /\ \A q \in Request : input[q] \in s.inputs
  BY <1>2 DEF Opening
<1>6. \/ \E t \in Task : Who(db, t) # {}
      \/ Quiet(r)
  BY <1>5 DEF StartsOpen, Quiet, IsClaim
<1>7. ~Quiet(r)
  <2> SUFFICES ASSUME Quiet(r) PROVE FALSE
    OBVIOUS
  <2>1. CheckAssignees(r) \/ CheckRoom(r) \/ CheckLeases(r) => ~Refuse(r)
    BY <1>1, <1>2, QuietPasses
  <2>2. pc'[r] # "refused"
    BY <1>4, <2>1, WorkGoes
  <2> QED
    BY <1>3, <2>2
<1> QED
  BY <1>6, <1>7

\* A step that commits nothing leaves the start as it is.
LEMMA OpeningStays ==
    ASSUME Opening, NEW r \in Request, pc[r] # "committed",
           UNCHANGED <<engine, limit, input, db>>, behind' \subseteq behind,
           \A q \in Request \ {r} : pc'[q] = pc[q] /\ found'[q] = found[q] /\ snapshot'[q] = snapshot[q],
           Untold => /\ Open(r)' /\ engine # "postgres" => snapshot'[r] = db
                     /\ IsClaim(r) /\ pc'[r] = "check" => found'[r] = db[Bucket(input[r].task)]
    PROVE  Opening'
<1> SUFFICES ASSUME Untold' PROVE Opening'
  BY DEF Opening
<1>1. Untold
  BY DEF Untold
<1>2. behind' = {}
  BY <1>1 DEF Opening
<1>3. \E s \in Scenarios : limit' = s.limit /\ db' \in s.tables /\ \A q \in Request : input'[q] \in s.inputs
  BY <1>1 DEF Opening
<1>4. ASSUME NEW q \in Request
      PROVE  /\ Open(q)' /\ engine' # "postgres" => snapshot'[q] = db'
             /\ IsClaim(q)' /\ pc'[q] = "check" => found'[q] = db'[Bucket(input'[q].task)]
  <2>1. CASE q = r
    BY <1>1, <2>1 DEF IsClaim
  <2>2. CASE q # r
    BY <1>1, <2>2 DEF Opening, Open, IsClaim
  <2> QED
    BY <2>1, <2>2
<1> QED
  BY <1>2, <1>3, <1>4 DEF Opening

\* The rows of other requests are theirs.
LEMMA OthersSpotless ==
    ASSUME UNCHANGED input, NEW q \in Request, Spotless(q), pc'[q] = pc[q], own'[q] = own[q]
    PROVE  Spotless(q)'
BY DEF Spotless, Working

\* A statement keeps the start, its request spotless, and does not turn
\* away a claim or a drag.
LEMMA RunsRacing ==
    ASSUME RaceTypeOK, Racing, NEW r \in Request, Runs(r), ~Refuse(r)
    PROVE  /\ Opening' /\ Spotless(r)' /\ Apiece(r) /\ UNCHANGED input
           /\ Working(r) => pc'[r] # "refused"
<1>1. PICK l : \E f \in Places, j \in BOOLEAN, h \in User, n \in SUBSET Task :
         Open(r) /\ Does(r, l, f, j, h, n) /\ (Reads(r) \/ \E g : Writes(r, g))
  BY RunsDoes
<1>2. /\ RaceTypeOK' /\ Apiece(r) /\ UNCHANGED <<engine, limit, input, db, snapshot, behind>>
  BY <1>1, DoesTyped
<1>3. /\ Opening /\ Spotless(r) /\ DOMAIN own = Request /\ IsTables(db)
  BY DEF Racing, RaceTypeOK
<1>4. IsClaim(r) => Working(r)
  BY DEF IsClaim, Working
<1>5. ASSUME Working(r)
      PROVE  /\ pc'[r] \notin {"begin", "committed", "refused"}
             /\ IsClaim(r) /\ pc'[r] = "check" => PinRow(r)
             /\ \/ pc[r] \in Looking /\ Reads(r)
                \/ /\ pc'[r] \notin Looking
                   /\ \/ ~Unleasing(input[r].kind, pc'[r])
                      \/ /\ Unleasing(input[r].kind, pc[r])
                         /\ \/ Reads(r)
                            \/ \E g : Writes(r, g) /\ \A x \in Task : LeaseRows(x) \cap DOMAIN g = {}
  BY <1>5, WorkGoes
<1>6. Opening'
  <2>1. Untold /\ Open(r)' /\ engine # "postgres" => snapshot'[r] = db
    BY <1>1, <1>2, <1>3 DEF Opening
  <2>2. ASSUME Untold, IsClaim(r), pc'[r] = "check"
        PROVE  found'[r] = db[Bucket(input[r].task)]
    <3>1. PinRow(r)
      BY <1>4, <1>5, <2>2
    <3>2. own[r] = NoRows
      BY <1>3, <1>4, <2>2, <3>1 DEF PinRow, Spotless, Looking
    <3>3. Newest(r) = db
      BY <1>3, <3>2, NothingWritten DEF Newest
    <3>4. engine = "sqlite" => Sees(r) = db
      BY <1>1, <1>3, <1>4, <2>2, <3>1, SeesTheStart DEF PinRow, Looking
    <3>5. found' = [found EXCEPT ![r] = db[Bucket(input[r].task)]]
      BY <3>1, <3>3, <3>4 DEF PinRow
    <3> QED
      BY <3>5 DEF RaceTypeOK
  <2>3. pc[r] # "committed"
    BY <1>1 DEF Open
  <2>4. \A q \in Request \ {r} : pc'[q] = pc[q] /\ found'[q] = found[q] /\ snapshot'[q] = snapshot[q]
    BY <1>2 DEF Apiece
  <2> QED
    BY <1>2, <1>3, <2>1, <2>2, <2>3, <2>4, OpeningStays
<1>7. Spotless(r)'
  <2>0. Working(r)' <=> Working(r)
    BY <1>2 DEF Working
  <2>1. CASE ~Working(r)
    BY <2>0, <2>1 DEF Spotless
  <2>2. CASE Working(r) /\ pc[r] \in Looking /\ Reads(r)
    <3>1. own'[r] = NoRows
      BY <1>3, <2>2 DEF Spotless, Reads
    <3> QED
      BY <3>1, NothingWritten DEF Spotless
  <2>3. CASE Working(r) /\ pc'[r] \notin Looking /\ ~Unleasing(input[r].kind, pc'[r])
    BY <1>2, <2>3 DEF Spotless
  <2>4. CASE /\ Working(r) /\ pc'[r] \notin Looking /\ Unleasing(input[r].kind, pc[r])
             /\ \/ Reads(r)
                \/ \E g : Writes(r, g) /\ \A x \in Task : LeaseRows(x) \cap DOMAIN g = {}
    <3>1. \A x \in Task : LeaseRows(x) \cap DOMAIN own[r] = {}
      BY <1>3, <2>4 DEF Spotless
    <3>2. CASE Reads(r)
      BY <2>4, <3>1, <3>2 DEF Spotless, Reads
    <3>3. ASSUME NEW g, Writes(r, g), \A x \in Task : LeaseRows(x) \cap DOMAIN g = {}
          PROVE  Spotless(r)'
      <4>1. own'[r] = Over(own[r], g)
        BY <1>3, <3>3 DEF Writes
      <4>2. DOMAIN own'[r] = DOMAIN own[r] \cup DOMAIN g
        BY ONLY <4>1 DEF Over
      <4>3. \A x \in Task : LeaseRows(x) \cap DOMAIN own'[r] = {}
        BY <3>1, <3>3, <4>2
      <4> QED
        BY <2>4, <4>3 DEF Spotless
    <3> QED
      BY <2>4, <3>2, <3>3
  <2> QED
    BY <1>5, <2>1, <2>2, <2>3, <2>4
<1> QED
  BY <1>2, <1>5, <1>6, <1>7

\* Beginning reads the start.
LEMMA BeginRacing ==
    ASSUME RaceTypeOK, Racing, NEW r \in Request, Begin(r)
    PROVE  Racing'
<1>0. Opening /\ (\A q \in Request : Spotless(q)) /\ DOMAIN snapshot = Request
  BY DEF Racing, RaceTypeOK
<1>1. /\ pc[r] = "begin" /\ UNCHANGED <<engine, limit, input, found, own, db>>
      /\ behind' \subseteq behind
      /\ \A q \in Request \ {r} : snapshot'[q] = snapshot[q]
  BY <1>0, BeginDoes DEF request, reading, BeginTransaction, database
<1>2. PICK l : /\ Moved(r, l)
               /\ \/ l = "committed" /\ UNCHANGED database
                  \/ l = Order[input[r].kind]["begin"] /\ BeginTransaction(r)
  BY BeginDoes
<1>3. pc'[r] = l /\ \A q \in Request \ {r} : pc'[q] = pc[q]
  BY <1>2, MovedLines
<1>4. Order[input[r].kind]["begin"] \notin {"refused", "check"}
  BY InputTyped, OrderIs DEF Kinds
<1>5. Opening'
  <2>1. Open(r)' /\ engine # "postgres" => snapshot'[r] = db
    BY <1>0, <1>2, <1>3 DEF Open, BeginTransaction
  <2> QED
    BY <1>0, <1>1, <1>2, <1>3, <1>4, <2>1, OpeningStays
<1>6. Spotless(r)'
  <2>1. Working(r) => own'[r] = NoRows
    BY <1>0, <1>1 DEF Spotless, Looking
  <2> QED
    BY <1>1, <2>1, NothingWritten DEF Spotless, Working
<1>7. \A q \in Request : Spotless(q)'
  BY <1>0, <1>1, <1>3, <1>6, OthersSpotless
<1>8. SomebodyWins'
  BY <1>2, <1>3, <1>4 DEF SomebodyWins
<1> QED
  BY <1>5, <1>7, <1>8 DEF Racing

\* Turning a request away: it was not the last one, or it had somebody in
\* its way.
LEMMA RefuseRacing ==
    ASSUME RaceTypeOK, StartsOpen, Racing, NEW r \in Request, Abort(r) \/ Runs(r), Refuse(r)
    PROVE  Racing'
<1>0. Opening /\ (\A q \in Request : Spotless(q)) /\ Open(r)
  BY AbortIsOpen, RunsDoes DEF Racing
<1>1. /\ pc' = [pc EXCEPT ![r] = "refused"] /\ own' = [own EXCEPT ![r] = NoRows]
      /\ snapshot' = [snapshot EXCEPT ![r] = NoRows]
      /\ UNCHANGED <<db, behind, engine, limit, input, found>>
  BY DEF Refuse, Goto, Rollback, request, reading
<1>2. /\ pc'[r] = "refused" /\ own'[r] = NoRows
      /\ \A q \in Request \ {r} : pc'[q] = pc[q] /\ own'[q] = own[q] /\ snapshot'[q] = snapshot[q]
  BY <1>1 DEF RaceTypeOK
<1>3. Opening'
  BY <1>0, <1>1, <1>2, OpeningStays DEF Open
<1>4. \A q \in Request : Spotless(q)'
  <2>1. Spotless(r)'
    BY <1>2, NothingWritten DEF Spotless
  <2> QED
    BY <1>0, <1>1, <1>2, <2>1, OthersSpotless
<1>5. SomebodyWins'
  <2> SUFFICES ASSUME \A q \in Request : pc'[q] = "refused" /\ input'[q].kind \in {"claim", "drag"}
               PROVE  \E t \in Task : Who(db', t) # {}
    BY DEF SomebodyWins
  <2>1. Working(r) /\ \A q \in Request \ {r} : pc[q] = "refused"
    BY <1>1, <1>2 DEF Working
  <2>2. \E t \in Task : Who(db, t) # {}
    BY <1>0, <2>1, LastRefusal
  <2> QED
    BY <1>1, <2>2
<1> QED
  BY <1>3, <1>4, <1>5 DEF Racing

\* A commit ends the start, and is no refusal.
LEMMA EndRacing ==
    ASSUME RaceTypeOK, Racing, NEW r \in Request, End(r)
    PROVE  Racing'
<1>1. /\ pc' = [pc EXCEPT ![r] = "committed"] /\ own' = [own EXCEPT ![r] = NoRows]
      /\ UNCHANGED input
  BY DEF End, Goto, Commit, request
<1>2. /\ pc'[r] = "committed" /\ own'[r] = NoRows
      /\ \A q \in Request \ {r} : pc'[q] = pc[q] /\ own'[q] = own[q]
  BY <1>1 DEF RaceTypeOK
<1>3. ~Untold' /\ SomebodyWins'
  BY <1>2 DEF Untold, SomebodyWins
<1>4. Spotless(r)'
  BY <1>2, NothingWritten DEF Spotless
<1>5. \A q \in Request : Spotless(q)'
  BY <1>1, <1>2, <1>4, OthersSpotless DEF Racing
<1> QED
  BY <1>3, <1>5 DEF Racing, Opening

(***************************************************************************)
(* A race has a winner (SomebodyWins), on every engine, however many claim *)
(* and drag: the requests that are turned away can only all be so if       *)
(* somebody had a task at the start.                                       *)
(***************************************************************************)
THEOREM RaceHasWinner ==
    ASSUME StartsOpen
    PROVE  Spec => []SomebodyWins
<1>1. Init => Racing
  <2> SUFFICES ASSUME Init PROVE Racing
    OBVIOUS
  <2>1. \A r \in Request : pc[r] = "begin" /\ own[r] = NoRows
    BY DEF Init
  <2>2. PICK s \in Scenarios : limit = s.limit /\ input \in [Request -> s.inputs] /\ db \in s.tables
    BY DEF Init
  <2>3. Opening
    BY <2>1, <2>2 DEF Init, Opening, Open
  <2>4. SomebodyWins
    BY <2>1 DEF SomebodyWins
  <2>5. \A r \in Request : Spotless(r)
    BY <2>1, NothingWritten DEF Spotless
  <2> QED
    BY <2>3, <2>4, <2>5 DEF Racing
<1>2. RaceTypeOK /\ Racing /\ [Next]_vars => Racing'
  <2> SUFFICES ASSUME RaceTypeOK, Racing, [Next]_vars PROVE Racing'
    OBVIOUS
  <2>1. ASSUME NEW r \in Request, Step(r) PROVE Racing'
    <3>1. CASE Begin(r)
      BY <3>1, BeginRacing
    <3>2. CASE End(r)
      BY <3>2, EndRacing
    <3>3. CASE (Abort(r) \/ Runs(r)) /\ Refuse(r)
      BY <3>3, RefuseRacing
    <3>4. CASE Runs(r) /\ ~Refuse(r)
      <4>1. /\ Opening' /\ Spotless(r)' /\ Apiece(r) /\ UNCHANGED input
            /\ Working(r) => pc'[r] # "refused"
        BY <3>4, RunsRacing
      <4>2. \A q \in Request : Spotless(q)'
        BY <4>1, OthersSpotless DEF Apiece, Racing
      <4>3. SomebodyWins'
        <5> SUFFICES ASSUME \A q \in Request : pc'[q] = "refused" /\ input'[q].kind \in {"claim", "drag"}
                     PROVE  FALSE
          BY DEF SomebodyWins
        <5> QED
          BY <4>1 DEF Working
      <4> QED
        BY <4>1, <4>2, <4>3 DEF Racing
    <3> QED
      BY <2>1, <3>1, <3>2, <3>3, <3>4, AbortIsOpen DEF Step, Runs
  <2>2. CASE UNCHANGED vars
    <3>1. UNCHANGED <<db, own, snapshot, behind, engine, limit, input, pc, found>>
      BY <2>2 DEF vars, database, request, reading
    <3>2. Untold' <=> Untold
      BY <3>1 DEF Untold
    <3>3. Opening'
      BY <3>1, <3>2 DEF Racing, Opening, Open, IsClaim
    <3>4. SomebodyWins'
      BY <3>1 DEF Racing, SomebodyWins
    <3>5. \A q \in Request : Spotless(q)'
      BY <3>1, OthersSpotless DEF Racing
    <3> QED
      BY <3>3, <3>4, <3>5 DEF Racing
  <2> QED
    BY <2>1, <2>2 DEF Next
<1>3. Racing => SomebodyWins
  BY DEF Racing
<1> QED
  BY <1>1, <1>2, <1>3, RaceTypeCorrect, PTL DEF Spec

-----------------------------------------------------------------------------
(* Siblings close their parent.                                            *)

\* Tasks with subtasks.
Families == {q \in Task : SubtasksOf[q] # {}}

\* A subtask is open.
Unfinished(q, T) == \E x \in SubtasksOf[q] : ~T[Done(x)]

\* Nobody claims or drags it, and nobody finishes a subtask of it.
Unclaimed(q) == \A r \in Request : Working(r) => input[r].task # q
LeftOpen(q) == \A r \in Request : Finishes(r) => input[r].task \notin SubtasksOf[q]

\* Tasks in the done bucket are done, parents without an open subtask are done, and of a
\* parent either nobody claims it, to take it up again, or nobody finishes its subtasks
\* and one of them is open.
FamiliesStart ==
    \A s \in Scenarios : s.engine # "mysql" => \A d \in s.tables :
       /\ \A x \in Task : d[Bucket(x)] = "done" => d[Done(x)]
       /\ \A q \in Families :
             \/ /\ \A in \in s.inputs : in.kind \in {"claim", "drag"} => in.task # q
                /\ Unfinished(q, d) \/ d[Done(q)]
             \/ /\ \A in \in s.inputs : in.kind \in {"finish", "update"} => in.task \notin SubtasksOf[q]
                /\ Unfinished(q, d)

Sided == \A q \in Families : Unclaimed(q) \/ LeftOpen(q)

\* A parent is as it should be.
KeptIn(q, T) == Unfinished(q, T) \/ (Unclaimed(q) /\ T[Done(q)])

\* Tables between requests.
FamilyOK(T) ==
    /\ \A x \in Task : T[Bucket(x)] = "done" => T[Done(x)]
    /\ \A q \in Families : KeptIn(q, T)

\* A request to done is about to count the open subtasks; it has written its flag.
Counting(in, l) == l \in {"freeAgain", "count"} \/ (in.kind = "finish" /\ l = "free")

Flagged(in, l) ==
    /\ in.kind \in {"finish", "update"}
    /\ \/ Counting(in, l) \/ l \in {"close", "move", "final"}
       \/ in.kind = "finish" /\ l = "view"

\* It will find the parent, or has found it.
Pending(q, in, l, n) ==
    /\ in.kind \in {"finish", "update"}
    /\ \/ Counting(in, l) /\ in.task \in SubtasksOf[q]
       \/ l = "close" /\ q \in n

\* Tables of a request at l that has noted n.
FamilyIn(in, l, n, T) ==
    /\ \A x \in Task : T[Bucket(x)] = "done" => T[Done(x)] \/ (x = in.task /\ l = "move")
    /\ Flagged(in, l) => T[Done(in.task)]
    /\ in.kind \in {"finish", "update"} => n \subseteq Families
    /\ \A q \in Families : KeptIn(q, T) \/ (Unclaimed(q) /\ Pending(q, in, l, n))

\* A statement leaves places and flags alone.
Calm(r) == SamePlaces(Sees(r), Sees(r)') /\ SameFlags(Sees(r), Sees(r)')

\* What a statement writes is over what its request saw.
LEMMA SeesGoes ==
    ASSUME RaceTypeOK, NEW r \in Request, engine' = engine
    PROVE  /\ Reads(r) => Sees(r)' = Sees(r)
           /\ \A g : Writes(r, g) => Sees(r)' = Over(Sees(r), g)
<1>1. Reads(r) => Sees(r)' = Sees(r)
  BY DEF Reads, Sees, Newest
<1>2. ASSUME NEW g, Writes(r, g) PROVE Sees(r)' = Over(Sees(r), g)
  <2>1. own'[r] = Over(own[r], g) /\ UNCHANGED <<db, snapshot>>
    BY <1>2 DEF Writes, RaceTypeOK
  <2>2. \A f : Over(f, Over(own[r], g)) = Over(Over(f, own[r]), g)
    BY OverTwice
  <2>3. CASE engine = "postgres"
    <3>1. Sees(r)' = Over(db, Over(own[r], g)) /\ Sees(r) = Over(db, own[r])
      BY <2>1, <2>3 DEF Sees, Newest
    <3> QED
      BY <2>2, <3>1
  <2>4. CASE engine # "postgres"
    <3>1. Sees(r)' = Over(snapshot[r], Over(own[r], g)) /\ Sees(r) = Over(snapshot[r], own[r])
      BY <2>1, <2>4 DEF Sees
    <3> QED
      BY <2>2, <3>1
  <2> QED
    BY <2>3, <2>4
<1> QED
  BY <1>1, <1>2

\* Reading is calm, and so is writing other rows.
LEMMA OtherRowsCalm ==
    ASSUME RaceTypeOK, NEW r \in Request, Open(r), engine' = engine
    PROVE  /\ Reads(r) => Calm(r)
           /\ \A g : (/\ Writes(r, g)
                      /\ \A x \in Task : Bucket(x) \notin DOMAIN g /\ Done(x) \notin DOMAIN g)
                        => Calm(r)
<1>1. IsTables(Sees(r))
  BY SeesTyped
<1>2. Reads(r) => Calm(r)
  BY SeesGoes DEF Calm, SamePlaces, SameFlags
<1>3. ASSUME NEW g, Writes(r, g),
             \A x \in Task : Bucket(x) \notin DOMAIN g /\ Done(x) \notin DOMAIN g
      PROVE  Calm(r)
  <2>1. Sees(r)' = Over(Sees(r), g)
    BY <1>3, SeesGoes
  <2>2. SamePlaces(Sees(r), Over(Sees(r), g)) /\ SameFlags(Sees(r), Over(Sees(r), g))
    BY <1>1, <1>3, Unwritten
  <2> QED
    BY <2>1, <2>2 DEF Calm
<1> QED
  BY <1>2, <1>3

\* So is writing leases.
LEMMA LeasesCalm ==
    ASSUME RaceTypeOK, NEW r \in Request, Open(r), engine' = engine, NEW t \in Task
    PROVE  /\ \A fresh \in SUBSET LeaseRows(t) : Refills(r, t, fresh) => Calm(r)
           /\ Writes(r, BeatRows(Leased(Newest(r), t))) => Calm(r)
<1>1. \A k \in LeaseRows(t) : \A x \in Task : k # Bucket(x) /\ k # Done(x)
  BY LeaseRowsApart
<1>2. Leased(Newest(r), t) \subseteq LeaseRows(t)
  BY DEF Leased
<1>3. ASSUME NEW fresh \in SUBSET LeaseRows(t), Refills(r, t, fresh) PROVE Calm(r)
  <2> DEFINE g == Replaced(Leased(Newest(r), t), fresh)
  <2>1. DOMAIN g = Leased(Newest(r), t) \cup fresh
    BY ReplacedRows
  <2>2. Writes(r, g)
    BY <1>3 DEF Refills
  <2> HIDE DEF g
  <2> QED
    BY <1>1, <1>2, <2>1, <2>2, OtherRowsCalm
<1>4. ASSUME Writes(r, BeatRows(Leased(Newest(r), t))) PROVE Calm(r)
  <2> DEFINE g == BeatRows(Leased(Newest(r), t))
  <2>1. DOMAIN g = Leased(Newest(r), t)
    BY DEF BeatRows
  <2>2. Writes(r, g)
    BY <1>4
  <2> HIDE DEF g
  <2> QED
    BY <1>1, <1>2, <2>1, <2>2, OtherRowsCalm
<1> QED
  BY <1>3, <1>4

\* Where places and flags stay, a parent is closed unless it is pending.
LEMMA FamilySame ==
    ASSUME NEW in \in Input, NEW l, l # "move", NEW n, NEW T, NEW S, SamePlaces(T, S), SameFlags(T, S),
           FamilyIn(in, l, n, T), NEW k, NEW m,
           Flagged(in, k) => T[Done(in.task)],
           in.kind \in {"finish", "update"} => m \subseteq Families,
           \A q \in Families : Unclaimed(q) /\ Pending(q, in, l, n) => KeptIn(q, T) \/ Pending(q, in, k, m)
    PROVE  FamilyIn(in, k, m, S)
<1>1. in.task \in Task /\ \A x \in Task : S[Bucket(x)] = T[Bucket(x)] /\ S[Done(x)] = T[Done(x)]
  BY DEF Input, SamePlaces, SameFlags
<1>2. \A q \in Families : q \in Task /\ SubtasksOf[q] \subseteq Task
  BY RaceAssumption DEF RaceAssumption, Families
<1>3. \A q \in Families : KeptIn(q, T) => KeptIn(q, S)
  BY <1>1, <1>2 DEF KeptIn, Unfinished
<1> QED
  BY <1>1, <1>3 DEF FamilyIn

\* Claims, drags, heartbeats and the cron are calm but for the flag and
\* the place of their task.
LEMMA QuietStatements ==
    ASSUME RaceTypeOK, NEW r \in Request, ~Refuse(r), engine' = engine,
           \/ PinRow(r) \/ CheckAssignees(r) \/ CheckRoom(r) \/ Assign(r) \/ CheckLeases(r)
           \/ TakeLeases(r) \/ Heartbeat(r) \/ SelectOverdue(r) \/ DropOverdue(r)
    PROVE  Calm(r) /\ ~Finishes(r) /\ pc[r] # "move"
<1>0. input[r].task \in Task /\ input[r].user \in User /\ holder[r] \in User /\ noted[r] \subseteq Task
  BY InputTyped
<1>1. CASE PinRow(r)
  BY <1>1, PinDoes, OtherRowsCalm DEF Finishes
<1>2. CASE CheckAssignees(r)
  BY <1>2, CheckDoes, LineKinds, OtherRowsCalm DEF Finishes
<1>3. CASE CheckRoom(r)
  BY <1>3, RoomDoes, LineKinds, OtherRowsCalm DEF Finishes
<1>4. CASE Assign(r)
  <2> DEFINE g == OwnerRow(input[r].task, input[r].user)
  <2>1. Open(r) /\ pc[r] = "assign" /\ (Reads(r) \/ Writes(r, g))
    BY <1>4, AssignDoes
  <2>2. \A x \in Task : Bucket(x) \notin DOMAIN g /\ Done(x) \notin DOMAIN g
    BY RowsApart DEF OwnerRow
  <2> HIDE DEF g
  <2> QED
    BY <2>1, <2>2, LineKinds, OtherRowsCalm DEF Finishes
<1>5. CASE CheckLeases(r)
  BY <1>5, ConflictsDoes, LineKinds, OtherRowsCalm DEF Finishes
<1>6. CASE TakeLeases(r)
  <2> DEFINE fresh == {Lease(input[r].task, holder[r], p) : p \in ScopeOf[input[r].task]}
  <2>1. Open(r) /\ pc[r] = "lease" /\ (Reads(r) \/ Refills(r, input[r].task, fresh))
    BY <1>6, LeaseDoes
  <2>2. fresh \in SUBSET LeaseRows(input[r].task)
    BY <1>0, RaceAssumption DEF LeaseRows, RaceAssumption
  <2> HIDE DEF fresh
  <2> QED
    BY <1>0, <2>1, <2>2, LineKinds, OtherRowsCalm, LeasesCalm DEF Finishes
<1>7. CASE Heartbeat(r)
  <2>1. /\ Open(r) /\ pc[r] = "beat"
        /\ Reads(r) \/ Writes(r, BeatRows(Leased(Newest(r), input[r].task)))
    BY <1>7, BeatDoes
  <2> QED
    BY <1>0, <2>1, LineKinds, OtherRowsCalm, LeasesCalm DEF Finishes
<1>8. CASE SelectOverdue(r)
  BY <1>8, SelectDoes, LineKinds, OtherRowsCalm DEF Finishes
<1>9. CASE DropOverdue(r)
  <2>1. Open(r) /\ pc[r] = "drop" /\ (Reads(r) \/ \E t \in noted[r] : Refills(r, t, {}))
    BY <1>9, DropDoes
  <2>2. \A t \in noted[r] : Refills(r, t, {}) => Calm(r)
    BY <1>0, <2>1, LeasesCalm
  <2> QED
    BY <2>1, <2>2, LineKinds, OtherRowsCalm DEF Finishes
<1> QED
  BY <1>1, <1>2, <1>3, <1>4, <1>5, <1>6, <1>7, <1>8, <1>9

\* A statement leaves its request with tables as they should be.
FamilyGoes(r) == FamilyIn(input[r], pc'[r], noted'[r], Sees(r)')

\* Reading the row: who finds its task done has nothing to count.
LEMMA RowFamily ==
    ASSUME RaceTypeOK, NEW r \in Request, ReadRow(r), engine' = engine,
           FamilyIn(input[r], pc[r], noted[r], Sees(r))
    PROVE  FamilyGoes(r)
<1> DEFINE in == input[r]
           T == Sees(r)
<1>0. in \in Input /\ in.task \in Task /\ in.kind \in Kinds
  BY InputTyped
<1>1. PICK b \in Places : \E l :
         /\ Open(r) /\ pc[r] = "row" /\ in.kind # "claim" /\ Reads(r)
         /\ Does(r, l, b, joins[r], holder[r], noted[r])
         /\ b = T[Bucket(in.task)]
         /\ IF b = (IF in.kind = "drag" THEN "doing" ELSE "done")
            THEN l = IF in.kind = "update" THEN "final" ELSE "commit"
            ELSE IF in.kind # "drag" /\ T[Done(in.task)] THEN l = "move"
            ELSE l = Order[in.kind]["row"]
  BY <1>0, RowDoes DEF Places
<1>2. PICK l :
         /\ Open(r) /\ pc[r] = "row" /\ in.kind # "claim" /\ Reads(r)
         /\ Does(r, l, b, joins[r], holder[r], noted[r])
         /\ b = T[Bucket(in.task)]
         /\ IF b = (IF in.kind = "drag" THEN "doing" ELSE "done")
            THEN l = IF in.kind = "update" THEN "final" ELSE "commit"
            ELSE IF in.kind # "drag" /\ T[Done(in.task)] THEN l = "move"
            ELSE l = Order[in.kind]["row"]
  BY <1>1
<1>3. pc'[r] = l /\ noted'[r] = noted[r] /\ SamePlaces(T, T') /\ SameFlags(T, T')
  BY <1>2, OtherRowsCalm DEF Calm, Does, Moved, Goto, RaceTypeOK
<1> HIDE DEF in, T
<1>4. FamilyIn(in, "row", noted[r], T)
  BY <1>2 DEF in, T
<1>5. Flagged(in, l) => T[Done(in.task)]
  <2> SUFFICES ASSUME Flagged(in, l) PROVE T[Done(in.task)]
    OBVIOUS
  <2>1. in.kind \in {"finish", "update"}
    BY DEF Flagged
  <2>2. T[Bucket(in.task)] = "done" => T[Done(in.task)]
    BY <1>0, <1>4 DEF FamilyIn
  <2>3. l \notin {"flag", "commit"}
    BY DEF Flagged, Counting
  <2> QED
    BY <1>2, <2>1, <2>2, <2>3, OrderIs
<1>6. \A q \in Families : ~Pending(q, in, "row", noted[r])
  BY DEF Pending, Counting
<1>7. in.kind \in {"finish", "update"} => noted[r] \subseteq Families
  BY <1>4 DEF FamilyIn
<1>8. FamilyIn(in, l, noted[r], T')
  BY <1>0, <1>3, <1>4, <1>5, <1>6, <1>7, FamilySame
<1> QED
  BY <1>3, <1>8 DEF FamilyGoes, in, T

\* Freeing leases and locking the view lead to the count, or come before
\* the flag.
LEMMA FreeFamily ==
    ASSUME RaceTypeOK, NEW r \in Request, FreeLeases(r) \/ LockView(r), engine' = engine,
           FamilyIn(input[r], pc[r], noted[r], Sees(r))
    PROVE  FamilyGoes(r)
<1> DEFINE in == input[r]
           T == Sees(r)
<1>0. in \in Input /\ in.task \in Task /\ in.kind \in Kinds
  BY InputTyped
<1>1. /\ Open(r) /\ pc[r] \in {"free", "freeAgain", "view"} /\ Calm(r)
      /\ Does(r, Order[in.kind][pc[r]], found[r], joins[r], holder[r], noted[r])
  <2>1. CASE FreeLeases(r)
    BY <1>0, <2>1, FreeDoes, LeasesCalm
  <2>2. CASE LockView(r)
    BY <2>2, ViewDoes, OtherRowsCalm
  <2> QED
    BY <2>1, <2>2
<1>2. pc'[r] = Order[in.kind][pc[r]] /\ noted'[r] = noted[r] /\ SamePlaces(T, T') /\ SameFlags(T, T')
  BY <1>1 DEF Calm, Does, Moved, Goto, RaceTypeOK
<1>3. \/ in.kind = "finish" /\ pc[r] = "free" /\ pc'[r] = "count"
      \/ in.kind = "finish" /\ pc[r] = "view" /\ pc'[r] = "move"
      \/ in.kind = "update" /\ pc[r] = "view" /\ pc'[r] = "free"
      \/ in.kind = "update" /\ pc[r] = "free" /\ pc'[r] = "early"
      \/ in.kind = "update" /\ pc[r] = "freeAgain" /\ pc'[r] = "count"
  BY <1>1, <1>2, LineKinds, OrderIs
<1>4. FamilyIn(in, pc[r], noted[r], T)
  OBVIOUS
<1> HIDE DEF in, T
<1>5. Flagged(in, pc'[r]) => T[Done(in.task)]
  <2>1. Flagged(in, pc'[r]) => Flagged(in, pc[r])
    BY <1>3 DEF Flagged, Counting
  <2> QED
    BY <1>4, <2>1 DEF FamilyIn
<1>6. \A q \in Families : Pending(q, in, pc[r], noted[r]) => Pending(q, in, pc'[r], noted[r])
  BY <1>3 DEF Pending, Counting
<1>7. in.kind \in {"finish", "update"} => noted[r] \subseteq Families
  BY <1>4 DEF FamilyIn
<1>8. pc[r] # "move"
  BY <1>1
<1>9. FamilyIn(in, pc'[r], noted[r], T')
  BY <1>0, <1>2, <1>4, <1>5, <1>6, <1>7, <1>8, FamilySame
<1> QED
  BY <1>2, <1>9 DEF FamilyGoes, in, T

\* The count finds the parent whose last open subtask this was.
LEMMA CountFamily ==
    ASSUME RaceTypeOK, NEW r \in Request, CountOpen(r), engine' = engine,
           FamilyIn(input[r], pc[r], noted[r], Sees(r))
    PROVE  FamilyGoes(r)
<1> DEFINE in == input[r]
           T == Sees(r)
           n == Closable(T, in.task)
<1>0. in \in Input /\ in.task \in Task /\ in.kind \in Kinds
  BY InputTyped
<1>1. Open(r) /\ pc[r] \in {"early", "count"} /\ Calm(r)
  BY CountDoes, OtherRowsCalm
<1>2. pc'[r] = Order[in.kind][pc[r]] /\ noted'[r] = n
  BY DEF CountOpen, Proceed, Goto, RaceTypeOK
<1>3. SamePlaces(T, T') /\ SameFlags(T, T')
  BY <1>1 DEF Calm
<1>4. \/ in.kind = "update" /\ pc[r] = "early" /\ pc'[r] = "earlyClose"
      \/ in.kind \in {"finish", "update"} /\ pc[r] = "count" /\ pc'[r] = "close"
  BY <1>1, <1>2, LineKinds, OrderIs
<1>5. FamilyIn(in, pc[r], noted[r], T)
  OBVIOUS
<1>6. n \subseteq Families
  BY DEF Closable, Parents, Families
<1>7. ASSUME NEW q \in Families, Unclaimed(q), Pending(q, in, pc[r], noted[r])
      PROVE  KeptIn(q, T) \/ Pending(q, in, pc'[r], n)
  <2>1. pc[r] = "count" /\ pc'[r] = "close" /\ in.task \in SubtasksOf[q]
    BY <1>4, <1>7 DEF Pending, Counting
  <2>2. CASE KeptIn(q, T)
    BY <2>2
  <2>3. CASE ~KeptIn(q, T)
    <3>1. ~T[Done(q)] /\ \A x \in SubtasksOf[q] : T[Done(x)]
      BY <1>7, <2>3 DEF KeptIn, Unfinished
    <3>2. q \in n
      BY <2>1, <3>1 DEF Closable, Parents, Families
    <3> QED
      BY <1>4, <2>1, <3>2 DEF Pending
  <2> QED
    BY <2>2, <2>3
<1> HIDE DEF in, T, n
<1>8. Flagged(in, pc'[r]) => T[Done(in.task)]
  <2>1. Flagged(in, pc'[r]) => Flagged(in, pc[r])
    BY <1>4 DEF Flagged, Counting
  <2> QED
    BY <1>5, <2>1 DEF FamilyIn
<1>9. pc[r] # "move"
  BY <1>1
<1>10. FamilyIn(in, pc'[r], n, T')
  BY <1>0, <1>3, <1>5, <1>6, <1>7, <1>8, <1>9, FamilySame
<1> QED
  BY <1>2, <1>10 DEF FamilyGoes, in, T

\* Closing what was found.
LEMMA CloseFamily ==
    ASSUME RaceTypeOK, NEW r \in Request, CloseParent(r), engine' = engine,
           FamilyIn(input[r], pc[r], noted[r], Sees(r))
    PROVE  FamilyGoes(r)
<1> DEFINE in == input[r]
           T == Sees(r)
           n == noted[r]
<1>0. in \in Input /\ in.task \in Task /\ in.kind \in Kinds /\ n \subseteq Task
  BY InputTyped
<1>1. /\ Open(r) /\ pc[r] \in {"earlyClose", "close"}
      /\ in.kind \in {"finish", "update"} /\ (pc[r] = "earlyClose" => in.kind = "update")
  BY CloseDoes, LineKinds
<1>2. FamilyIn(in, pc[r], n, T) /\ IsTables(T)
  BY <1>1, SeesTyped
<1>3. CASE n = {}
  <2>1. /\ UNCHANGED <<database, noted>>
        /\ Goto(r, IF in.kind = "finish" THEN "move" ELSE Order["update"][pc[r]])
    BY <1>3 DEF CloseParent
  <2>2. noted'[r] = n /\ Calm(r)
    BY <1>1, <2>1, IdleReads, OtherRowsCalm
  <2>3. \/ pc[r] = "close" /\ pc'[r] = "move"
        \/ pc[r] = "earlyClose" /\ pc'[r] = "row"
    BY <1>1, <2>1, OrderIs DEF Goto, RaceTypeOK
  <2>4. SamePlaces(T, T') /\ SameFlags(T, T')
    BY <2>2 DEF Calm
  <2> HIDE DEF in, T, n
  <2>5. Flagged(in, pc'[r]) => T[Done(in.task)]
    <3>1. Flagged(in, pc'[r]) => Flagged(in, pc[r])
      BY <2>3 DEF Flagged, Counting
    <3> QED
      BY <1>2, <3>1 DEF FamilyIn
  <2>6. \A q \in Families : ~Pending(q, in, pc[r], n)
    BY <1>1, <1>3 DEF Pending, Counting
  <2>7. pc[r] # "move" /\ n \subseteq Families
    BY <1>1, <1>3
  <2>8. FamilyIn(in, pc'[r], n, T')
    BY <1>0, <1>2, <2>4, <2>5, <2>6, <2>7, FamilySame
  <2> QED
    BY <2>2, <2>8 DEF FamilyGoes, in, T
<1>4. CASE n # {}
  <2>1. PICK p \in n : /\ Write(r, <<"task", p>>, ClosedRows(p))
                       /\ noted' = [noted EXCEPT ![r] = @ \ {p}]
                       /\ IF n = {p} THEN Proceed(r) ELSE UNCHANGED pc
    BY <1>4 DEF CloseParent, ClosedRows
  <2> DEFINE S == Over(T, ClosedRows(p))
  <2>2. p \in Task /\ p \in Families /\ noted'[r] = n \ {p}
    BY <1>0, <1>1, <1>2, <2>1 DEF FamilyIn, RaceTypeOK
  <2>3. T' = S
    <3>1. Writes(r, ClosedRows(p))
      BY <2>1, <2>2, Parts, WriteWrites
    <3> QED
      BY <3>1, SeesGoes
  <2>4. /\ \A x \in Task : S[Done(x)] <=> T[Done(x)] \/ x = p
        /\ \A x \in Task : S[Bucket(x)] = IF x = p THEN "done" ELSE T[Bucket(x)]
    BY <1>2, <2>2, ClosedWritten
  <2>5. /\ n # {p} => pc'[r] = pc[r]
        /\ pc'[r] = pc[r] \/ (pc[r] = "close" /\ pc'[r] \in {"view", "move"})
                          \/ (pc[r] = "earlyClose" /\ pc'[r] = "row")
        /\ pc'[r] = "view" => in.kind = "finish"
    BY <1>1, <2>1, OrderIs DEF Proceed, Goto, RaceTypeOK
  <2> HIDE DEF in, T, n, S
  <2>6. \A x \in Task : S[Bucket(x)] = "done" => S[Done(x)]
    BY <1>1, <1>2, <2>4 DEF FamilyIn
  <2>7. Flagged(in, pc'[r]) => S[Done(in.task)]
    <3>1. Flagged(in, pc'[r]) => Flagged(in, pc[r])
      BY <1>1, <2>5 DEF Flagged, Counting
    <3> QED
      BY <1>0, <1>2, <2>4, <3>1 DEF FamilyIn
  <2>8. ASSUME NEW q \in Families
        PROVE  KeptIn(q, S) \/ (Unclaimed(q) /\ Pending(q, in, pc'[r], n \ {p}))
    <3>1. q \in Task /\ SubtasksOf[q] \subseteq Task /\ p \notin SubtasksOf[q]
      BY <2>2, RaceAssumption DEF RaceAssumption, Families
    <3>2. Unfinished(q, T) => Unfinished(q, S)
      BY <2>4, <3>1 DEF Unfinished
    <3>3. KeptIn(q, T) => KeptIn(q, S)
      BY <2>4, <3>1, <3>2 DEF KeptIn
    <3>4. ASSUME Unclaimed(q), Pending(q, in, pc[r], n)
          PROVE  KeptIn(q, S) \/ Pending(q, in, pc'[r], n \ {p})
      <4>1. pc[r] = "close" /\ q \in n
        BY <1>1, <3>4 DEF Pending, Counting
      <4>2. CASE q = p
        BY <2>4, <3>1, <3>4, <4>2 DEF KeptIn
      <4>3. CASE q # p
        BY <1>1, <2>5, <4>1, <4>3 DEF Pending
      <4> QED
        BY <4>2, <4>3
    <3> QED
      BY <1>2, <3>3, <3>4 DEF FamilyIn
  <2>9. n \ {p} \subseteq Families
    BY <1>1, <1>2 DEF FamilyIn
  <2>10. FamilyIn(in, pc'[r], n \ {p}, S)
    BY <2>6, <2>7, <2>8, <2>9 DEF FamilyIn
  <2> QED
    BY <2>2, <2>3, <2>10 DEF FamilyGoes, in, T
<1> QED
  BY <1>3, <1>4

\* Writing the flag: a subtask that is finished leaves its parent pending,
\* and nobody takes up a parent that matters again.
LEMMA FlagFamily ==
    ASSUME RaceTypeOK, Sided, NEW r \in Request, WriteFlag(r), engine' = engine,
           FamilyIn(input[r], pc[r], noted[r], Sees(r))
    PROVE  FamilyGoes(r)
<1> DEFINE in == input[r]
           T == Sees(r)
           n == noted[r]
           S == T'
<1>0. in \in Input /\ in.task \in Task /\ in.kind \in Kinds
  BY InputTyped
<1>1. /\ Open(r) /\ pc[r] \in {"flag", "final"}
      /\ Does(r, Order[in.kind][pc[r]], found[r], joins[r], holder[r], n)
      /\ \/ ~Finishes(r) /\ Reads(r)
         \/ ~Finishes(r) /\ Writes(r, FlagRow(in.task, FALSE))
         \/ Finishes(r) /\ Writes(r, FlagRow(in.task, TRUE))
  BY FlagDoes
<1>2. pc'[r] = Order[in.kind][pc[r]] /\ noted'[r] = n
  BY <1>1 DEF Does, Moved, Goto, RaceTypeOK
<1>3. FamilyIn(in, pc[r], n, T) /\ IsTables(T)
  BY <1>1, SeesTyped
<1>4. Finishes(r) <=> in.kind \in {"finish", "update"}
  BY DEF Finishes
<1>5. \/ in.kind \in {"claim", "drag"} /\ pc[r] = "flag" /\ pc'[r] = "move"
      \/ in.kind = "finish" /\ pc[r] = "flag" /\ pc'[r] = "free"
      \/ in.kind = "update" /\ pc[r] = "flag" /\ pc'[r] = "freeAgain"
      \/ in.kind = "update" /\ pc[r] = "final" /\ pc'[r] = "commit"
  BY <1>1, <1>2, LineKinds, OrderIs
<1>6. \A b \in BOOLEAN :
         /\ SamePlaces(T, Over(T, FlagRow(in.task, b)))
         /\ \A x \in Task : Over(T, FlagRow(in.task, b))[Done(x)] <=> IF x = in.task THEN b ELSE T[Done(x)]
  BY <1>0, <1>3, FlagWritten
<1>7. \A b \in BOOLEAN : Writes(r, FlagRow(in.task, b)) => S = Over(T, FlagRow(in.task, b))
  BY SeesGoes
<1>8. CASE ~Finishes(r) /\ Reads(r)
  <2>1. SamePlaces(T, S) /\ SameFlags(T, S)
    BY <1>1, <1>8, OtherRowsCalm DEF Calm
  <2> HIDE DEF in, T, n, S
  <2>2. ~Flagged(in, pc'[r]) /\ pc[r] # "move" /\ \A q \in Families : ~Pending(q, in, pc[r], n)
    BY <1>1, <1>4, <1>8 DEF Flagged, Pending
  <2>3. FamilyIn(in, pc'[r], n, S)
    BY <1>0, <1>3, <1>4, <1>8, <2>1, <2>2, FamilySame
  <2> QED
    BY <1>2, <2>3 DEF FamilyGoes, in, T, S
<1>9. CASE ~Finishes(r) /\ Writes(r, FlagRow(in.task, FALSE))
  <2>1. SamePlaces(T, S) /\ \A x \in Task : S[Done(x)] <=> (x # in.task /\ T[Done(x)])
    BY <1>6, <1>7, <1>9
  <2>2. \A q \in Families : Unclaimed(q) => q # in.task
    BY <1>4, <1>5, <1>9 DEF Unclaimed, Working
  <2> HIDE DEF in, T, n, S
  <2>3. pc'[r] = "move" /\ pc[r] = "flag"
    BY <1>4, <1>5, <1>9
  <2>4. \A x \in Task : S[Bucket(x)] = "done" => S[Done(x)] \/ (x = in.task /\ pc'[r] = "move")
    BY <1>3, <2>1, <2>3 DEF FamilyIn, SamePlaces
  <2>5. ~Flagged(in, pc'[r]) /\ ~(in.kind \in {"finish", "update"})
    BY <1>4, <1>9 DEF Flagged
  <2>6. ASSUME NEW q \in Families PROVE KeptIn(q, S)
    <3>1. q \in Task /\ SubtasksOf[q] \subseteq Task
      BY RaceAssumption DEF RaceAssumption, Families
    <3>2. KeptIn(q, T)
      BY <1>3, <2>5 DEF FamilyIn, Pending
    <3> QED
      BY <2>1, <2>2, <3>1, <3>2 DEF KeptIn, Unfinished
  <2>7. FamilyIn(in, pc'[r], n, S)
    BY <2>4, <2>5, <2>6 DEF FamilyIn
  <2> QED
    BY <1>2, <2>7 DEF FamilyGoes, in, T, S
<1>10. CASE Finishes(r) /\ Writes(r, FlagRow(in.task, TRUE))
  <2>1. SamePlaces(T, S) /\ \A x \in Task : S[Done(x)] <=> (x = in.task \/ T[Done(x)])
    BY <1>6, <1>7, <1>10
  <2>2. \A q \in Families : in.task \in SubtasksOf[q] => Unclaimed(q)
    BY <1>10 DEF Sided, LeftOpen
  <2> HIDE DEF in, T, n, S
  <2>3. \A x \in Task : S[Bucket(x)] = "done" => S[Done(x)]
    BY <1>1, <1>3, <2>1 DEF FamilyIn, SamePlaces
  <2>4. n \subseteq Families /\ S[Done(in.task)]
    BY <1>0, <1>3, <1>4, <1>10, <2>1 DEF FamilyIn
  <2>5. ASSUME NEW q \in Families
        PROVE  KeptIn(q, S) \/ (Unclaimed(q) /\ Pending(q, in, pc'[r], n))
    <3>1. q \in Task /\ SubtasksOf[q] \subseteq Task
      BY RaceAssumption DEF RaceAssumption, Families
    <3>2. KeptIn(q, T)
      BY <1>1, <1>3 DEF FamilyIn, Pending, Counting
    <3>3. CASE pc[r] = "final"
      <4>1. T[Done(in.task)]
        BY <1>3, <1>4, <1>10, <3>3 DEF FamilyIn, Flagged
      <4> QED
        BY <2>1, <3>1, <3>2, <4>1 DEF KeptIn, Unfinished
    <3>4. CASE pc[r] = "flag" /\ in.task \notin SubtasksOf[q]
      BY <2>1, <3>1, <3>2, <3>4 DEF KeptIn, Unfinished
    <3>5. CASE pc[r] = "flag" /\ in.task \in SubtasksOf[q]
      BY <1>4, <1>5, <1>10, <2>2, <3>5 DEF Pending, Counting
    <3> QED
      BY <1>1, <3>3, <3>4, <3>5
  <2>6. FamilyIn(in, pc'[r], n, S)
    BY <2>3, <2>4, <2>5 DEF FamilyIn
  <2> QED
    BY <1>2, <2>6 DEF FamilyGoes, in, T, S
<1> QED
  BY <1>1, <1>8, <1>9, <1>10

\* Moving the card: into the done bucket only what is done.
LEMMA MoveFamily ==
    ASSUME RaceTypeOK, NEW r \in Request, MoveRow(r), engine' = engine,
           FamilyIn(input[r], pc[r], noted[r], Sees(r))
    PROVE  FamilyGoes(r)
<1> DEFINE in == input[r]
           T == Sees(r)
           n == noted[r]
           S == T'
           b == IF Finishes(r) THEN "done" ELSE "doing"
<1>0. in \in Input /\ in.task \in Task /\ in.kind \in Kinds /\ b \in Places
  BY InputTyped DEF Places
<1>1. /\ Open(r) /\ pc[r] = "move" /\ Writes(r, PlaceRow(in.task, b))
      /\ Does(r, Order[in.kind]["move"], found[r], joins[r], holder[r], n)
  BY MoveDoes
<1>2. pc'[r] = Order[in.kind]["move"] /\ noted'[r] = n
  BY <1>1 DEF Does, Moved, Goto, RaceTypeOK
<1>3. FamilyIn(in, "move", n, T) /\ IsTables(T)
  BY <1>1, SeesTyped
<1>4. Finishes(r) <=> in.kind \in {"finish", "update"}
  BY DEF Finishes
<1>5. /\ SameFlags(T, Over(T, PlaceRow(in.task, b)))
      /\ \A x \in Task : Over(T, PlaceRow(in.task, b))[Bucket(x)] = IF x = in.task THEN b ELSE T[Bucket(x)]
  BY <1>0, <1>3, PlaceWritten
<1>6. SameFlags(T, S) /\ \A x \in Task : S[Bucket(x)] = IF x = in.task THEN b ELSE T[Bucket(x)]
  BY <1>1, <1>5, SeesGoes
<1>7. Finishes(r) => T[Done(in.task)]
  BY <1>3, <1>4 DEF FamilyIn, Flagged
<1>8. \A x \in Task : S[Done(x)] = T[Done(x)]
  BY <1>6 DEF SameFlags
<1> HIDE DEF in, T, n, S
<1>9. \A x \in Task : S[Bucket(x)] = "done" => S[Done(x)]
  <2>1. CASE Finishes(r)
    BY <1>3, <1>6, <1>7, <1>8, <2>1 DEF FamilyIn
  <2>2. CASE ~Finishes(r)
    BY <1>3, <1>6, <1>8, <2>2 DEF FamilyIn
  <2> QED
    BY <2>1, <2>2
<1>10. Flagged(in, pc'[r]) => S[Done(in.task)]
  BY <1>0, <1>4, <1>7, <1>8 DEF Flagged
<1>11. in.kind \in {"finish", "update"} => n \subseteq Families
  BY <1>3 DEF FamilyIn
<1>12. ASSUME NEW q \in Families PROVE KeptIn(q, S)
  <2>1. q \in Task /\ SubtasksOf[q] \subseteq Task
    BY RaceAssumption DEF RaceAssumption, Families
  <2>2. KeptIn(q, T)
    BY <1>3 DEF FamilyIn, Pending, Counting
  <2> QED
    BY <1>8, <2>1, <2>2 DEF KeptIn, Unfinished
<1>13. FamilyIn(in, pc'[r], n, S)
  BY <1>9, <1>10, <1>11, <1>12 DEF FamilyIn
<1> QED
  BY <1>2, <1>13 DEF FamilyGoes, in, T, S

\* Every statement leaves its request with tables as they should be.
LEMMA RunsFamily ==
    ASSUME RaceTypeOK, Sided, NEW r \in Request, Runs(r), ~Refuse(r), engine' = engine,
           FamilyIn(input[r], pc[r], noted[r], Sees(r))
    PROVE  FamilyGoes(r)
<1>1. CASE \/ PinRow(r) \/ CheckAssignees(r) \/ CheckRoom(r) \/ Assign(r) \/ CheckLeases(r)
           \/ TakeLeases(r) \/ Heartbeat(r) \/ SelectOverdue(r) \/ DropOverdue(r)
  <2> DEFINE in == input[r]
             T == Sees(r)
  <2>1. Calm(r) /\ ~Finishes(r) /\ pc[r] # "move"
    BY <1>1, QuietStatements
  <2>2. ~(in.kind \in {"finish", "update"}) /\ SamePlaces(T, T') /\ SameFlags(T, T') /\ in \in Input
    BY <2>1, InputTyped DEF Calm, Finishes
  <2>3. FamilyIn(in, pc[r], noted[r], T)
    OBVIOUS
  <2> HIDE DEF in, T
  <2>4. ~Flagged(in, pc'[r]) /\ \A q \in Families : ~Pending(q, in, pc[r], noted[r])
    BY <2>2 DEF Flagged, Pending
  <2>5. FamilyIn(in, pc'[r], noted'[r], T')
    BY <2>1, <2>2, <2>3, <2>4, FamilySame
  <2> QED
    BY <2>5 DEF FamilyGoes, in, T
<1>2. CASE ReadRow(r)
  BY <1>2, RowFamily
<1>3. CASE WriteFlag(r)
  BY <1>3, FlagFamily
<1>4. CASE MoveRow(r)
  BY <1>4, MoveFamily
<1>5. CASE FreeLeases(r) \/ LockView(r)
  BY <1>5, FreeFamily
<1>6. CASE CountOpen(r)
  BY <1>6, CountFamily
<1>7. CASE CloseParent(r)
  BY <1>7, CloseFamily
<1> QED
  BY <1>1, <1>2, <1>3, <1>4, <1>5, <1>6, <1>7 DEF Runs

\* The statements of an update: the first locks the view, and none leads
\* back to it.
LEMMA UpdateGoes ==
    ASSUME RaceTypeOK, NEW r \in Request, input[r].kind = "update", Runs(r), ~Refuse(r)
    PROVE  pc'[r] \notin {"begin", "view", "committed", "refused"} /\ (pc[r] = "view" => LockView(r))
<1>1. \A l, f, j, h, n : Does(r, l, f, j, h, n) => pc'[r] = l
  BY DEF Does, Moved, Goto, RaceTypeOK
<1>2. CASE ReadRow(r)
  BY <1>1, <1>2, RowDoes, OrderIs
<1>3. CASE WriteFlag(r)
  <2>1. /\ pc[r] \in {"flag", "final"}
        /\ Does(r, Order[input[r].kind][pc[r]], found[r], joins[r], holder[r], noted[r])
    BY <1>3, FlagDoes
  <2>2. pc'[r] = Order["update"][pc[r]]
    BY <1>1, <2>1
  <2> QED
    BY <2>1, <2>2, OrderIs
<1>4. CASE MoveRow(r)
  BY <1>1, <1>4, MoveDoes, OrderIs
<1>5. CASE FreeLeases(r)
  BY <1>1, <1>5, FreeDoes, OrderIs
<1>6. CASE CountOpen(r)
  BY <1>1, <1>6, CountDoes, OrderIs
<1>7. CASE CloseParent(r)
  BY <1>1, <1>7, CloseDoes, OrderIs
<1>8. CASE LockView(r)
  BY <1>1, <1>8, ViewDoes, OrderIs
<1>9. ~PinRow(r) /\ ~CheckAssignees(r) /\ ~CheckRoom(r) /\ ~Assign(r) /\ ~CheckLeases(r) /\ ~TakeLeases(r)
  BY LineKinds DEF PinRow, CheckAssignees, CheckRoom, Assign, CheckLeases, TakeLeases
<1>10. ~Heartbeat(r) /\ ~SelectOverdue(r) /\ ~DropOverdue(r)
  BY LineKinds DEF Heartbeat, SelectOverdue, DropOverdue
<1> QED
  BY <1>2, <1>3, <1>4, <1>5, <1>6, <1>7, <1>8, <1>9, <1>10 DEF Runs

\* Whose parents are closed: everybody's on SQLite, those of updates on PostgreSQL.
Engaged ==
    \/ engine = "sqlite"
    \/ engine = "postgres" /\ \A r \in Request : input[r].kind = "update"

\* A request that has not read its tables, or, an update, not locked the view.
Early(r) == pc[r] = "begin" \/ (pc[r] = "view" /\ input[r].kind = "update")

\* A request has tables as they should be.
Tended(r) == Open(r) => FamilyIn(input[r], pc[r], noted[r], Sees(r))

\* An update on PostgreSQL that has passed the lock of the view has it.
Viewing(r) == engine = "postgres" /\ Open(r) /\ pc[r] # "view" => locks[<<"view">>] = r

Siblings ==
    /\ Sided /\ FamilyOK(db)
    /\ \A r \in Request : Tended(r) /\ (Early(r) => own[r] = NoRows /\ noted[r] = {})
    /\ engine = "sqlite" => SingleWriter
    /\ \A r \in Request : Viewing(r)

\* Who claims and finishes what does not change.
LEMMA SidesStay ==
    ASSUME UNCHANGED input
    PROVE  /\ Sided' <=> Sided
           /\ \A q \in Families : Unclaimed(q)' <=> Unclaimed(q)
<1>1. \A r \in Request : (Working(r)' <=> Working(r)) /\ (Finishes(r)' <=> Finishes(r))
  BY DEF Working, Finishes
<1>2. \A q \in Families : (Unclaimed(q)' <=> Unclaimed(q)) /\ (LeftOpen(q)' <=> LeftOpen(q))
  BY <1>1 DEF Unclaimed, LeftOpen
<1> QED
  BY <1>2 DEF Sided

\* What is known of the tables of a request, and of those committed, after
\* a step.
LEMMA TendedAfter ==
    ASSUME UNCHANGED input
    PROVE  /\ \A r \in Request : FamilyGoes(r) => Tended(r)'
           /\ FamilyOK(db') => FamilyOK(db)'
<1>1. \A q \in Families : Unclaimed(q)' <=> Unclaimed(q)
  BY SidesStay
<1>2. \A q \in Families : \A T : KeptIn(q, T) <=> (Unfinished(q, T) \/ (Unclaimed(q)' /\ T[Done(q)]))
  BY <1>1 DEF KeptIn
<1>3. ASSUME NEW r \in Request, FamilyGoes(r) PROVE Tended(r)'
  <2> DEFINE in == input[r]
             l == pc'[r]
             n == noted'[r]
             S == Sees(r)'
  <2>1. FamilyIn(in, l, n, S)
    BY <1>3 DEF FamilyGoes
  <2> HIDE DEF in, l, n, S
  <2>2. /\ \A x \in Task : S[Bucket(x)] = "done" => S[Done(x)] \/ (x = in.task /\ l = "move")
        /\ Flagged(in, l) => S[Done(in.task)]
        /\ in.kind \in {"finish", "update"} => n \subseteq Families
        /\ \A q \in Families : \/ Unfinished(q, S) \/ (Unclaimed(q)' /\ S[Done(q)])
                               \/ Unclaimed(q)' /\ Pending(q, in, l, n)
    BY <1>1, <1>2, <2>1 DEF FamilyIn
  <2>3. FamilyIn(input[r], pc[r], noted[r], Sees(r))'
    BY <2>2 DEF FamilyIn, KeptIn, Unfinished, Flagged, Counting, Pending, in, l, n, S
  <2> QED
    BY <2>3 DEF Tended
<1>4. FamilyOK(db') => FamilyOK(db)'
  BY <1>2 DEF FamilyOK, KeptIn, Unfinished
<1> QED
  BY <1>3, <1>4

\* Tables between requests are as they should be for one that begins.
LEMMA FreshIn ==
    ASSUME NEW in \in Input, NEW l, l \in {"view", Order[in.kind]["begin"]},
           in.kind = "finish" => l = "row", NEW T, FamilyOK(T)
    PROVE  FamilyIn(in, l, {}, T)
<1>1. ~Flagged(in, l)
  BY OrderIs DEF Flagged, Counting, Input, Kinds
<1> QED
  BY <1>1 DEF FamilyOK, FamilyIn

\* And those of a request are at its commit.
LEMMA CommitIn ==
    ASSUME NEW in, NEW n, NEW T, FamilyIn(in, "commit", n, T)
    PROVE  FamilyOK(T)
<1>1. \A q \in Families : ~Pending(q, in, "commit", n)
  BY DEF Pending, Counting
<1> QED
  BY <1>1 DEF FamilyIn, FamilyOK

\* A step of one request keeps the others' tables as they should be, if it
\* sees to its own and to what it commits.
LEMMA SiblingsAfter ==
    ASSUME RaceTypeOK, RaceTypeOK', Siblings, NEW r \in Request, UNCHANGED <<engine, input>>,
           \A q \in Request \ {r} :
              /\ pc'[q] = pc[q] /\ noted'[q] = noted[q] /\ own'[q] = own[q] /\ snapshot'[q] = snapshot[q]
              /\ locks[<<"view">>] = q => locks'[<<"view">>] = q,
           FamilyOK(db'),
           engine = "postgres" =>
              db' = db \/ \A q \in Request \ {r} : Open(q) => pc[q] = "view" /\ Early(q),
           engine = "sqlite" => SingleWriter',
           Tended(r)', Viewing(r)', Early(r)' => own'[r] = NoRows /\ noted'[r] = {}
    PROVE  Siblings'
<1>0. /\ Sided /\ \A q \in Request : Tended(q) /\ Viewing(q)
      /\ \A q \in Request : Early(q) => own[q] = NoRows /\ noted[q] = {}
  BY DEF Siblings
<1>1. Sided' /\ FamilyOK(db)'
  BY <1>0, SidesStay, TendedAfter
<1>2. ASSUME NEW q \in Request \ {r} PROVE Tended(q)'
  <2>1. Open(q)' <=> Open(q)
    BY DEF Open
  <2> SUFFICES ASSUME Open(q) PROVE FamilyGoes(q)
    BY <2>1, TendedAfter DEF Tended
  <2>2. FamilyIn(input[q], pc[q], noted[q], Sees(q))
    BY <1>0 DEF Tended
  <2>3. CASE engine # "postgres" \/ db' = db
    <3>1. Sees(q)' = Sees(q)
      BY <2>3 DEF Sees, Newest
    <3> QED
      BY <2>2, <3>1 DEF FamilyGoes
  <2>4. CASE engine = "postgres" /\ pc[q] = "view" /\ Early(q)
    <3>1. own'[q] = NoRows /\ noted'[q] = {} /\ input[q].kind = "update"
      BY <1>0, <2>4 DEF Early
    <3>2. Over(db', NoRows) = db'
      BY NothingWritten DEF RaceTypeOK
    <3>3. Sees(q)' = db'
      BY <2>4, <3>1, <3>2 DEF Sees, Newest
    <3>4. FamilyIn(input[q], "view", {}, db')
      BY <3>1, InputTyped, FreshIn
    <3> QED
      BY <2>4, <3>1, <3>3, <3>4 DEF FamilyGoes
  <2> QED
    BY <2>3, <2>4
<1>3. ASSUME NEW q \in Request \ {r} PROVE Viewing(q)' /\ (Early(q)' => own'[q] = NoRows /\ noted'[q] = {})
  BY <1>0 DEF Viewing, Early, Open
<1> QED
  BY <1>1, <1>2, <1>3 DEF Siblings

\* A request that begins.
LEMMA BeginSiblings ==
    ASSUME RaceTypeOK, Engaged, Siblings, NEW r \in Request, Begin(r)
    PROVE  Siblings'
<1>0. /\ FamilyOK(db) /\ own[r] = NoRows /\ noted[r] = {} /\ pc[r] = "begin"
      /\ engine = "sqlite" => SingleWriter
  BY BeginDoes DEF Siblings, Early
<1>1. RaceTypeOK' /\ UNCHANGED <<engine, limit, input, found, joins, holder, noted>>
  BY BeginTyped, BeginDoes DEF request, reading
<1>2. PICK l : /\ Moved(r, l)
               /\ \/ l = "committed" /\ UNCHANGED database
                  \/ l = Order[input[r].kind]["begin"] /\ BeginTransaction(r)
  BY BeginDoes
<1>3. pc'[r] = l /\ \A q \in Request \ {r} : pc'[q] = pc[q]
  BY <1>2, MovedLines
<1>4. /\ UNCHANGED <<db, own, locks>> /\ \A q \in Request \ {r} : snapshot'[q] = snapshot[q]
      /\ \A q \in Request \ {r} : q \in behind' <=> q \in behind
      /\ \/ l = "committed"
         \/ /\ l = Order[input[r].kind]["begin"]
            /\ engine # "postgres" => snapshot'[r] = db /\ r \notin behind'
  BY <1>2 DEF BeginTransaction, database, RaceTypeOK
<1>5. /\ Order[input[r].kind]["begin"] \in {"row", "view", "beat", "select"}
      /\ input[r].kind = "finish" => Order[input[r].kind]["begin"] = "row"
      /\ input[r].kind = "update" => Order[input[r].kind]["begin"] = "view"
  BY InputTyped, OrderIs DEF Kinds
<1>6. Open(r)' => l = Order[input[r].kind]["begin"]
  BY <1>3, <1>4 DEF Open
<1>7. Tended(r)'
  <2> SUFFICES ASSUME Open(r)' PROVE FamilyGoes(r)
    BY <1>1, TendedAfter DEF Tended
  <2>1. Over(db, NoRows) = db
    BY NothingWritten DEF RaceTypeOK
  <2>2. Sees(r)' = db
    <3>1. CASE engine = "postgres"
      BY <1>0, <1>1, <1>4, <2>1, <3>1 DEF Sees, Newest
    <3>2. CASE engine # "postgres"
      <4>1. snapshot'[r] = db /\ own'[r] = NoRows /\ engine' # "postgres"
        BY <1>0, <1>1, <1>3, <1>4, <1>6, <3>2 DEF Open
      <4> QED
        BY <2>1, <4>1 DEF Sees
    <3> QED
      BY <3>1, <3>2
  <2>3. FamilyIn(input[r], l, {}, db)
    BY <1>0, <1>5, <1>6, InputTyped, FreshIn
  <2> QED
    BY <1>0, <1>1, <1>3, <2>2, <2>3 DEF FamilyGoes
<1>8. Viewing(r)'
  BY <1>1, <1>3, <1>5, <1>6 DEF Viewing, Engaged
<1>9. engine = "sqlite" => SingleWriter'
  <2> SUFFICES ASSUME engine = "sqlite" PROVE SingleWriter'
    OBVIOUS
  <2>1. \A q \in Request \ {r} : Open(q)' <=> Open(q)
    BY <1>3 DEF Open
  <2>2. Open(r)' => snapshot'[r] = db /\ r \notin behind'
    BY <1>3, <1>4 DEF Open
  <2>3. ~Open(r)
    BY <1>0 DEF Open
  <2> QED
    BY <1>0, <1>4, <2>1, <2>2, <2>3, BeginWriter
<1> QED
  BY <1>0, <1>1, <1>3, <1>4, <1>7, <1>8, <1>9, SiblingsAfter

\* A request that is turned away.
LEMMA RefuseSiblings ==
    ASSUME RaceTypeOK, RaceTypeOK', Siblings, NEW r \in Request, Open(r), Refuse(r)
    PROVE  Siblings'
<1>0. FamilyOK(db) /\ (engine = "sqlite" => SingleWriter)
  BY DEF Siblings
<1>1. /\ pc' = [pc EXCEPT ![r] = "refused"]
      /\ own' = [own EXCEPT ![r] = NoRows] /\ snapshot' = [snapshot EXCEPT ![r] = NoRows]
      /\ locks' = Unlocked(r)
      /\ UNCHANGED <<db, behind>> /\ UNCHANGED <<engine, limit, input, found, joins, holder, noted>>
  BY DEF Refuse, Goto, Rollback, request, reading
<1>2. /\ pc'[r] = "refused" /\ own'[r] = NoRows
      /\ \A q \in Request \ {r} : pc'[q] = pc[q] /\ own'[q] = own[q] /\ snapshot'[q] = snapshot[q]
  BY <1>1 DEF RaceTypeOK
<1>3. \A q \in Request \ {r} : locks[<<"view">>] = q => locks'[<<"view">>] = q
  BY <1>1, UnlockedKeeps DEF Lockable
<1>4. Tended(r)' /\ Viewing(r)' /\ ~Early(r)' /\ ~Open(r)'
  BY <1>2 DEF Tended, Viewing, Early, Open
<1>5. engine = "sqlite" => SingleWriter'
  <2>1. \A q \in Request \ {r} : Open(q)' <=> Open(q)
    BY <1>2 DEF Open
  <2> QED
    BY <1>0, <1>1, <1>2, <1>4, <2>1, EndWriter
<1> QED
  BY <1>0, <1>1, <1>2, <1>3, <1>4, <1>5, SiblingsAfter

\* A commit: on SQLite the tables are those of the request, on PostgreSQL
\* the other updates have not got past the view.
LEMMA EndSiblings ==
    ASSUME RaceTypeOK, RaceTypeOK', Engaged, Siblings, NEW r \in Request, End(r)
    PROVE  Siblings'
<1>0. /\ FamilyOK(db) /\ (engine = "sqlite" => SingleWriter)
      /\ Tended(r) /\ \A q \in Request : Viewing(q)
  BY DEF Siblings
<1>1. /\ pc[r] = "commit" /\ pc' = [pc EXCEPT ![r] = "committed"]
      /\ UNCHANGED <<engine, limit, input, found, joins, holder, noted>>
      /\ db' = Newest(r)
      /\ own' = [own EXCEPT ![r] = NoRows] /\ snapshot' = [snapshot EXCEPT ![r] = NoRows]
      /\ locks' = Unlocked(r)
      /\ behind' = IF own[r] = NoRows THEN behind ELSE Request \ {r}
  BY DEF End, Goto, Commit, request, reading
<1>2. /\ pc'[r] = "committed" /\ own'[r] = NoRows
      /\ \A q \in Request \ {r} : pc'[q] = pc[q] /\ own'[q] = own[q] /\ snapshot'[q] = snapshot[q]
  BY <1>1 DEF RaceTypeOK
<1>3. \A q \in Request \ {r} : locks[<<"view">>] = q => locks'[<<"view">>] = q
  BY <1>1, UnlockedKeeps DEF Lockable
<1>4. Tended(r)' /\ Viewing(r)' /\ ~Early(r)' /\ ~Open(r)' /\ Open(r)
  BY <1>1, <1>2 DEF Tended, Viewing, Early, Open
<1>5. FamilyOK(Sees(r))
  BY <1>0, <1>1, <1>4, CommitIn DEF Tended
<1>6. own[r] = NoRows => db' = db /\ behind' = behind
  BY <1>1, NothingWritten DEF Newest, RaceTypeOK
<1>7. FamilyOK(db')
  <2>1. CASE engine = "postgres"
    BY <1>1, <1>5, <2>1 DEF Sees
  <2>2. CASE engine = "sqlite" /\ own[r] # NoRows
    <3>1. snapshot[r] = db
      BY <1>0, <2>2 DEF SingleWriter
    <3>2. Sees(r) = db'
      BY <1>1, <2>2, <3>1 DEF Sees, Newest
    <3> QED
      BY <1>5, <3>2
  <2>3. CASE own[r] = NoRows
    BY <1>0, <1>6, <2>3
  <2> QED
    BY <2>1, <2>2, <2>3 DEF Engaged
<1>8. engine = "postgres" => \A q \in Request \ {r} : Open(q) => pc[q] = "view" /\ Early(q)
  BY <1>0, <1>1, <1>4 DEF Viewing, Engaged, Early
<1>9. engine = "sqlite" => SingleWriter'
  <2>1. \A q \in Request \ {r} : Open(q)' <=> Open(q)
    BY <1>2 DEF Open
  <2>2. \/ UNCHANGED <<db, behind>>
        \/ own[r] # NoRows /\ \A q \in Request \ {r} : q \in behind'
    BY <1>1, <1>6
  <2> QED
    BY <1>0, <1>1, <1>2, <1>4, <2>1, <2>2, EndWriter
<1> QED
  BY <1>1, <1>2, <1>3, <1>4, <1>7, <1>8, <1>9, SiblingsAfter

\* A statement that does not turn its request away leaves it open.
LEMMA RunsGoOn ==
    ASSUME RaceTypeOK, NEW r \in Request, Runs(r), ~Refuse(r)
    PROVE  pc'[r] \notin {"begin", "committed", "refused"}
<1>1. Open(r)
  BY RunsDoes
<1>2. UNCHANGED pc \/ (\E l \in {"final", "commit", "move", "assign"} : Goto(r, l))
        => pc'[r] \notin {"begin", "committed", "refused"}
  BY <1>1 DEF Goto, Open, RaceTypeOK
<1>3. Proceed(r) /\ pc[r] # "commit" => pc'[r] \notin {"begin", "committed", "refused"}
  BY <1>1, NextIsOpen DEF Proceed, Goto, RaceTypeOK
<1>4. CASE PinRow(r) \/ ReadRow(r)
  <2>1. pc[r] = "row"
    BY <1>4 DEF PinRow, ReadRow
  <2>2. \/ Proceed(r) \/ Goto(r, "final") \/ Goto(r, "commit") \/ Goto(r, "move")
    BY <1>4, Zenon DEF PinRow, ReadRow
  <2> QED
    BY <1>2, <1>3, <2>1, <2>2
<1>5. CASE CheckAssignees(r) \/ CheckRoom(r) \/ CheckLeases(r)
  <2>1. pc[r] \in {"check", "room", "conflicts"}
    BY <1>5 DEF CheckAssignees, CheckRoom, CheckLeases
  <2>2. Proceed(r) \/ Goto(r, "assign")
    BY <1>5, Zenon DEF CheckAssignees, CheckRoom, CheckLeases
  <2> QED
    BY <1>2, <1>3, <2>1, <2>2
<1>6. CASE WriteFlag(r) \/ MoveRow(r) \/ Assign(r) \/ TakeLeases(r) \/ FreeLeases(r)
           \/ CountOpen(r) \/ LockView(r) \/ Heartbeat(r) \/ SelectOverdue(r)
  <2>1. Proceed(r)
    BY <1>6, Zenon DEF WriteFlag, MoveRow, Assign, TakeLeases, FreeLeases, CountOpen, LockView,
                       Heartbeat, SelectOverdue
  <2>2. pc[r] # "commit"
    BY <1>6 DEF WriteFlag, MoveRow, Assign, TakeLeases, FreeLeases, CountOpen, LockView,
                Heartbeat, SelectOverdue
  <2> QED
    BY <1>3, <2>1, <2>2
<1>7. CASE CloseParent(r)
  <2>1. /\ pc[r] \in {"earlyClose", "close"} /\ input[r].kind \in {"finish", "update"}
        /\ \E l : /\ pc'[r] = l
                  /\ l \in {pc[r], Order[input[r].kind][pc[r]]} \/ l = "move"
    <3>1. \A l, f, j, h, n : Does(r, l, f, j, h, n) => pc'[r] = l
      BY DEF Does, Moved, Goto, RaceTypeOK
    <3> QED
      BY <1>7, <3>1, CloseDoes
  <2>2. Order[input[r].kind][pc[r]] \notin {"begin", "committed", "refused"}
    BY <1>1, <2>1, NextIsOpen
  <2> QED
    BY <2>1, <2>2
<1>8. CASE DropOverdue(r)
  <2>1. pc[r] = "drop" /\ (Proceed(r) \/ UNCHANGED pc)
    BY <1>8 DEF DropOverdue
  <2> QED
    BY <1>2, <1>3, <2>1
<1> QED
  BY <1>4, <1>5, <1>6, <1>7, <1>8 DEF Runs

\* A statement.  On PostgreSQL an update takes the lock of the view with
\* its first one and keeps it.
LEMMA RunsSiblings ==
    ASSUME RaceTypeOK, Engaged, Siblings, NEW r \in Request, Runs(r), ~Refuse(r)
    PROVE  Siblings'
<1>0. /\ FamilyOK(db) /\ (engine = "sqlite" => SingleWriter) /\ Sided
      /\ Tended(r) /\ Viewing(r)
  BY DEF Siblings
<1>1. PICK l : \E f \in Places, j \in BOOLEAN, h \in User, n \in SUBSET Task :
         Open(r) /\ Does(r, l, f, j, h, n) /\ (Reads(r) \/ \E g : Writes(r, g))
  BY RunsDoes
<1>2. /\ RaceTypeOK' /\ Apiece(r) /\ UNCHANGED <<engine, limit, input, db, snapshot, behind>>
  BY <1>1, DoesTyped
<1>3. KeepsLocks /\ <<"view">> \in DOMAIN locks /\ Nobody \notin Request
  BY RunsLocks, RaceAssumption DEF RaceTypeOK, Lockable, RaceAssumption
<1>4. \A q \in Request \ {r} : locks[<<"view">>] = q => locks'[<<"view">>] = q
  BY <1>3 DEF KeepsLocks
<1>5. Tended(r)'
  <2>1. FamilyIn(input[r], pc[r], noted[r], Sees(r))
    BY <1>0, <1>1 DEF Tended
  <2>2. FamilyGoes(r)
    BY <1>0, <1>2, <2>1, RunsFamily
  <2> QED
    BY <1>2, <2>2, TendedAfter
<1>6. input[r].kind = "update" =>
         /\ pc'[r] \notin {"begin", "view", "committed", "refused"}
         /\ pc[r] = "view" => LockView(r)
  BY UpdateGoes
<1>7. pc'[r] \notin {"begin", "committed", "refused"}
  BY RunsGoOn
<1>8. ~Early(r)'
  BY <1>2, <1>6, <1>7 DEF Early
<1>9. Viewing(r)'
  <2> SUFFICES ASSUME engine = "postgres" PROVE locks'[<<"view">>] = r
    BY <1>2 DEF Viewing
  <2>1. input[r].kind = "update"
    BY DEF Engaged
  <2>2. CASE pc[r] = "view"
    <3>1. Lock(r, <<"view">>)
      BY <1>6, <2>1, <2>2 DEF LockView, LockOnly
    <3> QED
      BY <1>3, <3>1 DEF Lock, LockFor
  <2>3. CASE pc[r] # "view"
    <3>1. locks[<<"view">>] = r
      BY <1>0, <1>1, <2>3 DEF Viewing
    <3> QED
      BY <1>3, <3>1 DEF KeepsLocks
  <2> QED
    BY <2>2, <2>3
<1>10. engine = "sqlite" => SingleWriter'
  <2>1. Open(r)'
    BY <1>7 DEF Open
  <2> QED
    BY <1>0, <1>1, <1>2, <2>1, StatementWriter
<1>11. \A q \in Request \ {r} : /\ pc'[q] = pc[q] /\ noted'[q] = noted[q] /\ own'[q] = own[q]
                                /\ snapshot'[q] = snapshot[q]
  BY <1>2 DEF Apiece
<1> QED
  BY <1>0, <1>2, <1>4, <1>5, <1>8, <1>9, <1>10, <1>11, SiblingsAfter

(***************************************************************************)
(* Two subtasks finished at once close their parent (SiblingsCloseParent), *)
(* however many finish and whatever else runs: on SQLite because whoever   *)
(* counts and writes has the newest tables, on PostgreSQL, where all of    *)
(* them are updates, because they hold the row of the view from before     *)
(* they count until they commit.                                           *)
(***************************************************************************)
THEOREM FamiliesClose ==
    ASSUME FamiliesStart
    PROVE  Spec => []SiblingsCloseParent
<1>1. Init => (Engaged => Siblings)
  <2> SUFFICES ASSUME Init, Engaged PROVE Siblings
    OBVIOUS
  <2>1. PICK s \in Scenarios : /\ engine = s.engine /\ db \in s.tables
                               /\ input \in [Request -> s.inputs]
    BY DEF Init
  <2>2. /\ \A x \in Task : db[Bucket(x)] = "done" => db[Done(x)]
        /\ \A q \in Families :
              \/ /\ \A in \in s.inputs : in.kind \in {"claim", "drag"} => in.task # q
                 /\ Unfinished(q, db) \/ db[Done(q)]
              \/ /\ \A in \in s.inputs : in.kind \in {"finish", "update"} => in.task \notin SubtasksOf[q]
                 /\ Unfinished(q, db)
    BY <2>1 DEF FamiliesStart, Engaged
  <2>3. \A r \in Request : input[r] \in s.inputs
    BY <2>1
  <2>4. \A q \in Families : \/ Unclaimed(q) /\ (Unfinished(q, db) \/ db[Done(q)])
                            \/ LeftOpen(q) /\ Unfinished(q, db)
    BY <2>2, <2>3 DEF Unclaimed, LeftOpen, Working, Finishes
  <2>5. Sided /\ FamilyOK(db)
    BY <2>2, <2>4 DEF Sided, FamilyOK, KeptIn
  <2>6. \A r \in Request : pc[r] = "begin" /\ own[r] = NoRows /\ noted[r] = {} /\ ~Open(r)
    BY DEF Init, Open
  <2>7. SingleWriter
    <3>1. Alone = Nobody /\ Nobody \notin Request
      BY RaceAssumption DEF Init, Alone, Lockable, RaceAssumption
    <3> QED
      BY <2>6, <3>1 DEF SingleWriter
  <2> QED
    BY <2>5, <2>6, <2>7 DEF Siblings, Tended, Viewing
<1>2. RaceTypeOK /\ RaceTypeOK' /\ (Engaged => Siblings) /\ [Next]_vars => (Engaged => Siblings)'
  <2> SUFFICES ASSUME RaceTypeOK, RaceTypeOK', Engaged => Siblings, [Next]_vars
               PROVE  (Engaged => Siblings)'
    OBVIOUS
  <2>1. ASSUME NEW r \in Request, Step(r)
        PROVE  (Engaged => Siblings)'
    <3>1. UNCHANGED <<engine, input>>
      BY <2>1, EngineStays
    <3> SUFFICES ASSUME Engaged, Siblings PROVE Siblings'
      BY <3>1 DEF Engaged
    <3>2. CASE Begin(r)
      BY <3>2, BeginSiblings
    <3>3. CASE End(r)
      BY <3>3, EndSiblings
    <3>4. CASE Abort(r)
      BY <3>4, AbortIsOpen, RefuseSiblings
    <3>5. CASE Runs(r) /\ Refuse(r)
      BY <3>5, RunsDoes, RefuseSiblings
    <3>6. CASE Runs(r) /\ ~Refuse(r)
      BY <3>6, RunsSiblings
    <3> QED
      BY <2>1, <3>2, <3>3, <3>4, <3>5, <3>6 DEF Step, Runs
  <2>2. CASE UNCHANGED vars
    <3>1. UNCHANGED <<db, snapshot, behind, own, locks, engine, input, pc, noted>>
      BY <2>2 DEF vars, database, request, reading
    <3> SUFFICES ASSUME Engaged, Siblings PROVE Siblings'
      BY <3>1 DEF Engaged
    <3>2. Sided' /\ FamilyOK(db)'
      BY <3>1, SidesStay, TendedAfter DEF Siblings
    <3>3. ASSUME NEW q \in Request
          PROVE  /\ Tended(q)' /\ (Viewing(q)' <=> Viewing(q)) /\ (Early(q)' <=> Early(q))
                 /\ Open(q)' <=> Open(q)
      <4>1. Sees(q)' = Sees(q) /\ (Open(q)' <=> Open(q))
        BY <3>1 DEF Sees, Newest, Open
      <4>2. Open(q) => FamilyGoes(q)
        BY <3>1, <4>1 DEF Siblings, Tended, FamilyGoes
      <4>3. Tended(q)'
        BY <3>1, <4>1, <4>2, TendedAfter DEF Tended
      <4> QED
        BY <3>1, <4>1, <4>3 DEF Viewing, Early
    <3>4. engine = "sqlite" => SingleWriter'
      BY <3>1, <3>3 DEF Siblings, SingleWriter, Alone
    <3> QED
      BY <3>1, <3>2, <3>3, <3>4 DEF Siblings
  <2> QED
    BY <2>1, <2>2 DEF Next
<1>3. (Engaged => Siblings) => SiblingsCloseParent
  <2> SUFFICES ASSUME Siblings, NEW q \in Task, SubtasksOf[q] # {},
                      \A x \in SubtasksOf[q] : db[Done(x)]
               PROVE  db[Done(q)]
    BY DEF Engaged, SiblingsCloseParent
  <2>1. KeptIn(q, db)
    BY DEF Siblings, FamilyOK, Families
  <2> QED
    BY <2>1 DEF KeptIn, Unfinished
<1> QED
  BY <1>1, <1>2, <1>3, RaceTypeCorrect, PTL DEF Spec

-----------------------------------------------------------------------------
(* Files that are won on PostgreSQL.                                       *)

\* Somebody found the task free and set out to take it.
Won(t) == \E r \in Request : joins[r] /\ input[r].task = t

\* Somebody has it.
Held(t) == Who(db, t) # {}

\* A claim or a drag between its check of the assignees and its leases.
Taking(r) ==
    /\ Working(r)
    /\ \/ IsClaim(r) /\ pc[r] \in Settled \ {"commit"}
       \/ ~IsClaim(r) /\ pc[r] \in {"assign", "conflicts", "lease"}

\* It has assigned the caller, found nobody in the way, taken the leases.
Assigning(r) ==
    /\ joins[r]
    /\ pc[r] \in {"conflicts", "lease", "commit"} \/ (~IsClaim(r) /\ pc[r] \in {"flag", "move"})
Unhindered(r) == Assigning(r) /\ pc[r] # "conflicts"
Leasing(r) == Unhindered(r) /\ pc[r] # "lease"

\* Leases that are those of the scope of the task.
Fitting(g, t) ==
    /\ \A p \in ScopeOf[t] : \E u \in User : Lease(t, u, p) \in DOMAIN g /\ g[Lease(t, u, p)] # "none"
    /\ \A u \in User, p \in Pattern :
          Lease(t, u, p) \in DOMAIN g /\ g[Lease(t, u, p)] # "none" => p \in ScopeOf[t]

OwnLeases(r, t) == LeaseRows(t) \cap DOMAIN own[r]

\* Two tasks want different files.
Disjoint(t, o) == \A p \in ScopeOf[t], q \in ScopeOf[o] : <<p, q>> \notin Overlap

\* What r has written: an assignee of its task, under the lock of the project, and
\* leases of tasks that somebody has.
OwnFits(r) ==
    /\ \A x \in Task, u \in User : Assigned(x, u) \in DOMAIN own[r] =>
          x = input[r].task /\ joins[r] /\ locks[<<"project">>] = r
    /\ \A x \in Task : OwnLeases(r, x) # {} =>
          /\ Who(Newest(r), x) # {}
          /\ Won(x) \/ Working(r) => Fitting(own[r], x)
          /\ Working(r) => x = input[r].task

\* What r knows at its statement.
Progress(r) ==
    /\ joins[r] => /\ Working(r) /\ pc[r] \notin {"begin", "row", "check"}
                   /\ pc[r] = "room" => IsClaim(r)
    /\ pc[r] = "room" /\ ~IsClaim(r) => found[r] # "doing"
    /\ pc[r] \in {"begin", "beat", "select"} => own[r] = NoRows
    /\ Taking(r) /\ ~joins[r] => Held(input[r].task)
    /\ Assigning(r) => Assigned(input[r].task, input[r].user) \in DOMAIN own[r]
    /\ Unhindered(r) =>
          \A o \in Task \ {input[r].task} : Won(o) /\ Held(o) => Disjoint(input[r].task, o)
    /\ Leasing(r) /\ ScopeOf[input[r].task] # {} => OwnLeases(r, input[r].task) # {}
    /\ input[r].kind = "cron" => \A x \in noted[r] : Held(x) /\ ~Won(x)

\* Who holds files has the task, and whoever has won a task holds its files.
Holding(x) ==
    /\ Leased(db, x) # {} => Held(x)
    /\ Won(x) => \A k \in LeaseRows(x) : db[k] # "overdue"
    /\ Won(x) /\ Held(x) => Fitting(db, x)

Excluding ==
    /\ \A r \in Request : ~Finishes(r) /\ OwnFits(r) /\ Progress(r)
    /\ \A x \in Task : Holding(x)
    /\ \A t, o \in Task : t # o /\ Won(t) /\ Won(o) /\ Held(t) /\ Held(o) => Disjoint(t, o)

\* Rows that are found in tables with somebody's rows written over them:
\* an assignee there was, or one that was written; a lease as written, or
\* as it was.
LEMMA WrittenOver ==
    ASSUME NEW T, IsTables(T), NEW g, IsPart(g), NEW x \in Task
    PROVE  /\ \A u \in Who(Over(T, g), x) : u \in Who(T, x) \/ Assigned(x, u) \in DOMAIN g
           /\ \A u \in User : Assigned(x, u) \in DOMAIN g => u \in Who(Over(T, g), x)
           /\ \A k \in LeaseRows(x) : Over(T, g)[k] = IF k \in DOMAIN g THEN g[k] ELSE T[k]
<1>0. \A k \in DOMAIN T \cup DOMAIN g : Over(T, g)[k] = IF k \in DOMAIN g THEN g[k] ELSE T[k]
  BY OverRows
<1>1. /\ DOMAIN T = Rows /\ LeaseRows(x) \subseteq Rows
      /\ \A u \in User : Assigned(x, u) \in Rows
  BY RowsAre DEF IsTables
<1>2. \A k \in LeaseRows(x) : Over(T, g)[k] = IF k \in DOMAIN g THEN g[k] ELSE T[k]
  BY <1>0, <1>1
<1>3. ASSUME NEW u \in User, Assigned(x, u) \in DOMAIN g
      PROVE  u \in Who(Over(T, g), x)
  <2>1. Over(T, g)[Assigned(x, u)] = g[Assigned(x, u)]
    BY <1>0, <1>3
  <2>2. g[Assigned(x, u)] = TRUE
    BY <1>3 DEF IsPart
  <2>3. Over(T, g)[Assigned(x, u)] = TRUE
    BY <2>1, <2>2
  <2> QED
    BY <2>3 DEF Who
<1>4. ASSUME NEW u \in Who(Over(T, g), x), Assigned(x, u) \notin DOMAIN g
      PROVE  u \in Who(T, x)
  <2>1. u \in User /\ Over(T, g)[Assigned(x, u)]
    BY <1>4 DEF Who
  <2>2. Over(T, g)[Assigned(x, u)] = T[Assigned(x, u)]
    BY <1>0, <1>1, <1>4, <2>1
  <2>3. T[Assigned(x, u)]
    BY <2>1, <2>2
  <2> QED
    BY <2>1, <2>3 DEF Who
<1> QED
  BY <1>2, <1>3, <1>4

\* What r has written of assignees and leases stays.
SameOwn(r) ==
    \A x \in Task :
       /\ OwnLeases(r, x)' = OwnLeases(r, x)
       /\ \A k \in OwnLeases(r, x) : own'[r][k] = own[r][k]
       /\ \A u \in User : Assigned(x, u) \in DOMAIN own'[r] <=> Assigned(x, u) \in DOMAIN own[r]

\* A task is newly won only while nobody has it.
WonFreely == \A x \in Task : Won(x)' => Won(x) \/ ~Held(x)

\* A request that writes neither assignees nor leases is as before.
LEMMA OwnSame ==
    ASSUME RaceTypeOK, NEW r \in Request
    PROVE  /\ own'[r] = own[r] => SameOwn(r)
           /\ \A g : Writes(r, g) /\ (\A x \in Task : /\ LeaseRows(x) \cap DOMAIN g = {}
                                                      /\ \A u \in User : Assigned(x, u) \notin DOMAIN g)
                => SameOwn(r)
<1>1. own'[r] = own[r] => SameOwn(r)
  BY DEF SameOwn, OwnLeases
<1>2. ASSUME NEW g, Writes(r, g),
             \A x \in Task : /\ LeaseRows(x) \cap DOMAIN g = {}
                             /\ \A u \in User : Assigned(x, u) \notin DOMAIN g
      PROVE  SameOwn(r)
  <2>1. own'[r] = Over(own[r], g)
    BY <1>2 DEF Writes, RaceTypeOK
  <2>2. /\ DOMAIN own'[r] = DOMAIN own[r] \cup DOMAIN g
        /\ \A k \in DOMAIN own[r] : k \notin DOMAIN g => own'[r][k] = own[r][k]
    BY ONLY <2>1 DEF Over
  <2> QED
    BY <1>2, <2>2 DEF SameOwn, OwnLeases
<1> QED
  BY <1>1, <1>2

\* Rows that fit go on fitting: a task won anew is one that nobody had, so
\* whoever holds its leases in what it is yet to commit is taking it.
LEMMA FitsOn ==
    ASSUME RaceTypeOK, NEW q \in Request, OwnFits(q), joins[q] => Working(q),
           UNCHANGED input, SameOwn(q), WonFreely,
           \A x \in Task : Who(Newest(q), x) \subseteq Who(Newest(q)', x),
           (\E x \in Task, u \in User : Assigned(x, u) \in DOMAIN own[q])
              => joins'[q] /\ (locks[<<"project">>] = q => locks'[<<"project">>] = q)
    PROVE  OwnFits(q)'
<1>0. (Working(q)' <=> Working(q)) /\ IsTables(db) /\ IsPart(own[q])
  BY DEF Working, RaceTypeOK
<1>1. ASSUME NEW x \in Task, NEW u \in User, Assigned(x, u) \in DOMAIN own'[q]
      PROVE  x = input'[q].task /\ joins'[q] /\ locks'[<<"project">>] = q
  BY <1>1 DEF OwnFits, SameOwn
<1>2. ASSUME NEW x \in Task, OwnLeases(q, x)' # {}
      PROVE  /\ Who(Newest(q)', x) # {}
             /\ Won(x)' \/ Working(q) => Fitting(own'[q], x)
             /\ Working(q) => x = input'[q].task
  <2>1. /\ OwnLeases(q, x) # {} /\ Who(Newest(q), x) # {}
        /\ Won(x) \/ Working(q) => Fitting(own[q], x)
        /\ Working(q) => x = input[q].task
    BY <1>2 DEF OwnFits, SameOwn
  <2>2. Fitting(own[q], x) => Fitting(own'[q], x)
    <3>1. \A u \in User, p \in Pattern :
             /\ Lease(x, u, p) \in DOMAIN own[q] <=> Lease(x, u, p) \in DOMAIN own'[q]
             /\ Lease(x, u, p) \in DOMAIN own[q] => own'[q][Lease(x, u, p)] = own[q][Lease(x, u, p)]
      <4>1. \A u \in User, p \in Pattern : Lease(x, u, p) \in LeaseRows(x)
        BY DEF LeaseRows
      <4> QED
        BY <4>1 DEF SameOwn, OwnLeases
    <3>2. ScopeOf[x] \subseteq Pattern
      BY RaceAssumption DEF RaceAssumption
    <3> QED
      BY <3>1, <3>2 DEF Fitting
  <2>3. ASSUME Won(x)', ~Won(x) PROVE Working(q)
    <3>1. Who(db, x) = {}
      BY <2>3 DEF WonFreely, Held
    <3>2. PICK u : u \in Who(Over(db, own[q]), x)
      BY <2>1 DEF Newest
    <3>3. Assigned(x, u) \in DOMAIN own[q] /\ u \in User
      BY <1>0, <3>1, <3>2, WrittenOver DEF Who
    <3> QED
      BY <3>3 DEF OwnFits
  <2> QED
    BY <2>1, <2>2, <2>3
<1> QED
  BY <1>0, <1>1, <1>2 DEF OwnFits

\* Others go on knowing what they know: somebody else's commit gives a
\* task to somebody only under the lock of the project, which whoever has
\* assigned keeps to its end.
LEMMA ProgressOn ==
    ASSUME RaceTypeOK, NEW q \in Request, OwnFits(q), Progress(q), UNCHANGED input, WonFreely,
           own'[q] = own[q], pc'[q] = pc[q], joins'[q] = joins[q], found'[q] = found[q],
           noted'[q] = noted[q],
           \A x \in Task : Held(x) => Held(x)',
           \A x \in Task : Held(x)' => Held(x) \/ locks[<<"project">>] # q
    PROVE  Progress(q)'
<1>0. /\ (Working(q)' <=> Working(q)) /\ (IsClaim(q)' <=> IsClaim(q))
      /\ input[q].task \in Task /\ input[q].user \in User /\ noted[q] \subseteq Task
  BY InputTyped DEF Working, IsClaim
<1>1. /\ Taking(q)' <=> Taking(q)
      /\ Assigning(q)' <=> Assigning(q)
      /\ Unhindered(q)' <=> Unhindered(q)
      /\ Leasing(q)' <=> Leasing(q)
      /\ \A x : OwnLeases(q, x)' = OwnLeases(q, x)
  BY <1>0 DEF Taking, Assigning, Unhindered, Leasing, OwnLeases
<1>2. ASSUME Unhindered(q), NEW o \in Task \ {input[q].task}, Won(o)', Held(o)'
      PROVE  Disjoint(input[q].task, o)
  <2>1. locks[<<"project">>] = q
    BY <1>0, <1>2 DEF Unhindered, Progress, OwnFits
  <2>2. Held(o) /\ Won(o)
    BY <1>2, <2>1 DEF WonFreely
  <2> QED
    BY <1>2, <2>2 DEF Progress
<1>3. ASSUME input[q].kind = "cron", NEW x \in noted[q]
      PROVE  Held(x)' /\ ~Won(x)'
  BY <1>0, <1>3 DEF Progress, WonFreely
<1> QED
  BY <1>0, <1>1, <1>2, <1>3 DEF Progress, Disjoint

\* A step that commits nothing keeps what excludes, if it keeps what its
\* request has written and knows.
LEMMA QuietStep ==
    ASSUME RaceTypeOK, Excluding, NEW r \in Request, UNCHANGED <<db, input>>,
           \A q \in Request \ {r} :
              /\ own'[q] = own[q] /\ pc'[q] = pc[q] /\ joins'[q] = joins[q]
              /\ found'[q] = found[q] /\ noted'[q] = noted[q]
              /\ locks[<<"project">>] = q => locks'[<<"project">>] = q,
           WonFreely, OwnFits(r)', Progress(r)'
    PROVE  Excluding'
<1>0. \A q \in Request : ~Finishes(q) /\ ~Finishes(q)' /\ OwnFits(q) /\ Progress(q)
  BY DEF Excluding, Finishes
<1>1. \A x : (Held(x)' <=> Held(x)) /\ (Leased(db, x)' = Leased(db, x))
  BY DEF Held
<1>2. \A q \in Request \ {r} : OwnFits(q)' /\ Progress(q)'
  <2> TAKE q \in Request \ {r}
  <2>1. SameOwn(q)
    BY OwnSame
  <2>2. Newest(q)' = Newest(q)
    BY DEF Newest
  <2>3. (\E x \in Task, u \in User : Assigned(x, u) \in DOMAIN own[q]) => joins'[q]
    BY <1>0 DEF OwnFits
  <2>4. joins[q] => Working(q)
    BY <1>0 DEF Progress
  <2>5. OwnFits(q)'
    BY <1>0, <2>1, <2>2, <2>3, <2>4, FitsOn
  <2>6. Progress(q)'
    BY <1>0, <1>1, ProgressOn
  <2> QED
    BY <2>5, <2>6
<1>3. \A x \in Task : Holding(x)'
  <2> TAKE x \in Task
  <2>1. Holding(x) /\ (Won(x)' => Won(x) \/ ~Held(x))
    BY DEF Excluding, WonFreely
  <2>2. Fitting(db, x)' <=> Fitting(db, x)
    BY DEF Fitting
  <2>3. ~Held(x) => \A k \in LeaseRows(x) : db[k] # "overdue"
    BY <2>1 DEF Holding, Leased
  <2> QED
    BY <1>1, <2>1, <2>2, <2>3 DEF Holding
<1>4. ASSUME NEW t \in Task, NEW o \in Task, t # o, Won(t)', Won(o)', Held(t)', Held(o)'
      PROVE  Disjoint(t, o)
  BY <1>1, <1>4 DEF Excluding, WonFreely
<1> QED
  BY <1>0, <1>2, <1>3, <1>4 DEF Excluding, Disjoint

\* A commit keeps what excludes: a task that somebody newly has is that of
\* the request, which has found nobody else in the way and brings the
\* leases along.
LEMMA EndExcludes ==
    ASSUME OverlapMutual, RaceTypeOK, Excluding, NEW r \in Request, End(r)
    PROVE  Excluding'
<1> DEFINE t == input[r].task
<1>1. /\ pc[r] = "commit" /\ pc' = [pc EXCEPT ![r] = "committed"]
      /\ own' = [own EXCEPT ![r] = NoRows] /\ db' = Newest(r)
      /\ locks' = Unlocked(r) /\ UNCHANGED <<engine, input, joins, found, noted>>
  BY DEF End, Goto, Commit, request, reading
<1>2. /\ pc'[r] = "committed" /\ own'[r] = NoRows
      /\ \A q \in Request \ {r} : pc'[q] = pc[q] /\ own'[q] = own[q]
  BY <1>1 DEF RaceTypeOK
<1>3. /\ IsTables(db) /\ (\A q \in Request : IsPart(own[q])) /\ db' = Over(db, own[r])
      /\ t \in Task /\ t' = t /\ <<"project">> \in Lockable
  BY <1>1, InputTyped DEF RaceTypeOK, Newest, Lockable
<1> HIDE DEF t
<1>4. /\ \A q \in Request : ~Finishes(q) /\ ~Finishes(q)' /\ OwnFits(q) /\ Progress(q)
      /\ \A x \in Task : Holding(x)
  BY <1>1 DEF Excluding, Finishes
<1>5. \A x : Won(x)' <=> Won(x)
  BY <1>1 DEF Won
<1>6. ASSUME NEW x \in Task
      PROVE  /\ Held(x) => Held(x)'
             /\ Held(x)' /\ ~Held(x) => /\ x = t /\ joins[r] /\ Leasing(r)
                                        /\ locks[<<"project">>] = r
  <2>1. Held(x) => Held(x)'
    BY <1>3, OwnersStay DEF Held
  <2>2. ASSUME Held(x)', ~Held(x)
        PROVE  x = t /\ joins[r] /\ locks[<<"project">>] = r
    <3>1. PICK u : u \in Who(Over(db, own[r]), x)
      BY <1>3, <2>2 DEF Held
    <3>2. Assigned(x, u) \in DOMAIN own[r] /\ u \in User
      BY <1>3, <2>2, <3>1, WrittenOver DEF Held, Who
    <3> QED
      BY <1>4, <3>2 DEF OwnFits, t
  <2> QED
    BY <1>1, <2>1, <2>2 DEF Leasing, Unhindered, Assigning
<1>7. \A q \in Request \ {r} : OwnFits(q)' /\ Progress(q)'
  <2> TAKE q \in Request \ {r}
  <2>1. SameOwn(q) /\ WonFreely
    BY <1>2, <1>5, OwnSame DEF WonFreely
  <2>2. \A x \in Task : Who(Newest(q), x) \subseteq Who(Newest(q)', x)
    BY <1>2, <1>3, AssigneesStay DEF Newest
  <2>3. (\E x \in Task, u \in User : Assigned(x, u) \in DOMAIN own[q]) => joins'[q]
    BY <1>1, <1>4 DEF OwnFits
  <2>4. joins[q] => Working(q)
    BY <1>4 DEF Progress
  <2>5. locks[<<"project">>] = q => locks'[<<"project">>] = q
    BY <1>1, <1>3, UnlockedKeeps
  <2>6. OwnFits(q)'
    BY <1>1, <1>4, <2>1, <2>2, <2>3, <2>4, <2>5, FitsOn
  <2>7. \A x \in Task : Held(x)' => Held(x) \/ locks[<<"project">>] # q
    BY <1>6
  <2>8. Progress(q)'
    BY <1>1, <1>2, <1>4, <1>6, <2>1, <2>7, ProgressOn
  <2> QED
    BY <2>6, <2>8
<1>8. OwnFits(r)'
  BY <1>2, NothingWritten DEF OwnFits, OwnLeases
<1>9. Progress(r)'
  <2>1. joins[r] => Working(r)
    BY <1>4 DEF Progress
  <2>2. ~Taking(r)' /\ ~Assigning(r)' /\ ~Unhindered(r)' /\ ~Leasing(r)'
    BY <1>2 DEF Taking, Assigning, Unhindered, Leasing, Settled
  <2>3. input[r].kind = "cron" => \A x \in noted[r] : Held(x)' /\ ~Won(x)'
    <3>1. noted[r] \subseteq Task
      BY InputTyped
    <3> QED
      BY <1>4, <1>5, <1>6, <3>1 DEF Progress
  <2> QED
    BY <1>1, <1>2, <2>1, <2>2, <2>3 DEF Progress, Working
<1>10. \A x \in Task : Holding(x)'
  <2> TAKE x \in Task
  <2>0. /\ Holding(x) /\ OwnFits(r)
        /\ \A k \in LeaseRows(x) : db'[k] = IF k \in DOMAIN own[r] THEN own[r][k] ELSE db[k]
        /\ \A u \in User, p \in Pattern : Lease(x, u, p) \in LeaseRows(x)
        /\ \A k \in LeaseRows(x) : \E u \in User, p \in Pattern : k = Lease(x, u, p)
        /\ LeaseRows(x) \subseteq DOMAIN db /\ LeaseRows(x) \subseteq DOMAIN db'
        /\ ScopeOf[x] \subseteq Pattern
    <3>1. \A k \in LeaseRows(x) : db'[k] = IF k \in DOMAIN own[r] THEN own[r][k] ELSE db[k]
      BY <1>3, WrittenOver
    <3>2. IsTables(db')
      BY <1>3, OverTables
    <3>3. LeaseRows(x) \subseteq DOMAIN db /\ LeaseRows(x) \subseteq DOMAIN db'
      BY <1>3, <3>2, RowsAre DEF IsTables
    <3> QED
      BY <1>4, <3>1, <3>3, RaceAssumption DEF LeaseRows, RaceAssumption
  <2>1. Leased(db', x) # {} => Held(x)'
    <3> SUFFICES ASSUME NEW k \in LeaseRows(x), db'[k] # "none"
                 PROVE  Held(x)'
      BY DEF Leased
    <3>1. CASE k \in DOMAIN own[r]
      <4>1. OwnLeases(r, x) # {}
        BY <3>1 DEF OwnLeases
      <4> QED
        BY <1>1, <2>0, <4>1 DEF OwnFits, Held
    <3>2. CASE k \notin DOMAIN own[r]
      <4>1. db[k] # "none"
        BY <2>0, <3>2
      <4> QED
        BY <1>6, <2>0, <4>1 DEF Holding, Leased
    <3> QED
      BY <3>1, <3>2
  <2>2. Won(x) => \A k \in LeaseRows(x) : db'[k] # "overdue"
    <3>1. \A k \in LeaseRows(x) \cap DOMAIN own[r] : own[r][k] \in {"none", "active"}
      BY <1>3 DEF IsPart
    <3> QED
      BY <2>0, <3>1 DEF Holding
  <2>3. ASSUME Won(x), Held(x)' PROVE Fitting(db', x)
    <3>1. ASSUME NEW u \in User, NEW p \in Pattern, db[Lease(x, u, p)] # "none"
          PROVE  p \in ScopeOf[x]
      <4>1. Leased(db, x) # {}
        BY <2>0, <3>1 DEF Leased
      <4>2. Fitting(db, x)
        BY <2>0, <2>3, <4>1 DEF Holding
      <4> QED
        BY <2>0, <3>1, <4>2 DEF Fitting
    <3>2. CASE OwnLeases(r, x) # {}
      <4>1. Fitting(own[r], x)
        BY <2>0, <2>3, <3>2 DEF OwnFits
      <4>2. ASSUME NEW u \in User, NEW p \in Pattern, db'[Lease(x, u, p)] # "none"
            PROVE  p \in ScopeOf[x]
        BY <2>0, <3>1, <4>1, <4>2 DEF Fitting
      <4>3. ASSUME NEW p \in ScopeOf[x]
            PROVE  \E u \in User : Lease(x, u, p) \in DOMAIN db' /\ db'[Lease(x, u, p)] # "none"
        <5>1. PICK u \in User : Lease(x, u, p) \in DOMAIN own[r] /\ own[r][Lease(x, u, p)] # "none"
          BY <4>1 DEF Fitting
        <5>2. Lease(x, u, p) \in LeaseRows(x)
          BY <2>0
        <5> QED
          BY <2>0, <5>1, <5>2
      <4> QED
        BY <4>2, <4>3 DEF Fitting
    <3>3. CASE OwnLeases(r, x) = {}
      <4>1. \A k \in LeaseRows(x) : db'[k] = db[k]
        BY <2>0, <3>3 DEF OwnLeases
      <4>2. CASE Held(x)
        <5>1. Fitting(db, x)
          BY <2>0, <2>3, <4>2 DEF Holding
        <5>2. \A u \in User, p \in Pattern : db'[Lease(x, u, p)] # "none" => p \in ScopeOf[x]
          BY <2>0, <3>1, <4>1
        <5>3. ASSUME NEW p \in ScopeOf[x]
              PROVE  \E u \in User : Lease(x, u, p) \in DOMAIN db' /\ db'[Lease(x, u, p)] # "none"
          <6>1. PICK u \in User : db[Lease(x, u, p)] # "none"
            BY <5>1 DEF Fitting
          <6>2. Lease(x, u, p) \in LeaseRows(x)
            BY <2>0
          <6> QED
            BY <2>0, <4>1, <6>1, <6>2
        <5> QED
          BY <5>2, <5>3 DEF Fitting
      <4>3. CASE ~Held(x)
        <5>1. x = t /\ Leasing(r)
          BY <1>6, <2>3, <4>3
        <5>2. ScopeOf[x] = {}
          BY <1>4, <3>3, <5>1 DEF Progress, t
        <5>3. Leased(db, x) = {}
          BY <2>0, <4>3 DEF Holding
        <5>4. \A u \in User, p \in Pattern : db'[Lease(x, u, p)] = "none"
          BY <2>0, <4>1, <5>3 DEF Leased
        <5> QED
          BY <5>2, <5>4 DEF Fitting
      <4> QED
        BY <4>2, <4>3
    <3> QED
      BY <3>2, <3>3
  <2> QED
    BY <1>5, <2>1, <2>2, <2>3 DEF Holding
<1>11. ASSUME NEW x \in Task, NEW o \in Task, x # o, Won(x), Won(o), Held(x)', Held(o)'
       PROVE  Disjoint(x, o)
  <2>1. CASE Held(x) /\ Held(o)
    BY <1>11, <2>1 DEF Excluding
  <2>2. ASSUME NEW y \in Task, ~Held(t), y # t, Won(y), Held(y)', Held(t)'
        PROVE  Disjoint(t, y) /\ Disjoint(y, t)
    <3>1. Held(y) /\ Unhindered(r)
      BY <1>3, <1>6, <2>2 DEF Leasing
    <3>2. Disjoint(t, y)
      BY <1>4, <2>2, <3>1 DEF Progress, t
    <3>3. ScopeOf[t] \subseteq Pattern /\ ScopeOf[y] \subseteq Pattern
      BY <1>3, RaceAssumption DEF RaceAssumption
    <3> QED
      BY <3>2, <3>3 DEF Disjoint, OverlapMutual
  <2>3. CASE ~Held(x)
    BY <1>3, <1>6, <1>11, <2>2, <2>3
  <2>4. CASE ~Held(o)
    BY <1>3, <1>6, <1>11, <2>2, <2>4
  <2> QED
    BY <2>1, <2>3, <2>4
<1>12. \A q \in Request : ~Finishes(q)' /\ OwnFits(q)' /\ Progress(q)'
  BY <1>4, <1>7, <1>8, <1>9
<1> QED
  BY <1>5, <1>10, <1>11, <1>12 DEF Excluding, Disjoint

\* So does turning a request away.
LEMMA RefuseExcludes ==
    ASSUME RaceTypeOK, Excluding, NEW r \in Request, Refuse(r)
    PROVE  Excluding'
<1>1. /\ pc' = [pc EXCEPT ![r] = "refused"] /\ own' = [own EXCEPT ![r] = NoRows]
      /\ locks' = Unlocked(r) /\ UNCHANGED <<db, engine, input, joins, found, noted>>
  BY DEF Refuse, Goto, Rollback, request, reading
<1>2. /\ pc'[r] = "refused" /\ own'[r] = NoRows
      /\ \A q \in Request \ {r} : pc'[q] = pc[q] /\ own'[q] = own[q]
  BY <1>1 DEF RaceTypeOK
<1>3. \A q \in Request \ {r} : locks[<<"project">>] = q => locks'[<<"project">>] = q
  BY <1>1, UnlockedKeeps DEF Lockable
<1>4. (\A x : (Won(x)' <=> Won(x)) /\ (Held(x)' <=> Held(x))) /\ WonFreely
  BY <1>1 DEF Won, Held, WonFreely
<1>5. OwnFits(r)'
  BY <1>2, NothingWritten DEF OwnFits, OwnLeases
<1>6. Progress(r)'
  <2>1. Progress(r)
    BY DEF Excluding
  <2>2. ~Taking(r)' /\ ~Assigning(r)' /\ ~Unhindered(r)' /\ ~Leasing(r)'
    BY <1>2 DEF Taking, Assigning, Unhindered, Leasing, Settled
  <2> QED
    BY <1>1, <1>2, <1>4, <2>1, <2>2 DEF Progress, Working
<1> QED
  BY <1>1, <1>2, <1>3, <1>4, <1>5, <1>6, QuietStep

\* And beginning.
LEMMA BeginExcludes ==
    ASSUME RaceTypeOK, Excluding, NEW r \in Request, Begin(r)
    PROVE  Excluding'
<1>1. pc[r] = "begin" /\ UNCHANGED <<engine, input, joins, found, noted, db, own, locks>>
  BY BeginDoes DEF request, reading, BeginTransaction, database
<1>2. PICK l : Moved(r, l) /\ (l = "committed" \/ l = Order[input[r].kind]["begin"])
  BY BeginDoes
<1>3. pc'[r] = l /\ \A q \in Request \ {r} : pc'[q] = pc[q]
  BY <1>2, MovedLines
<1>4. /\ \A x : (Won(x)' <=> Won(x)) /\ (Held(x)' <=> Held(x)) /\ (OwnLeases(r, x)' = OwnLeases(r, x))
      /\ WonFreely
  BY <1>1 DEF Won, Held, WonFreely, OwnLeases
<1>5. OwnFits(r) /\ Progress(r) /\ ~Finishes(r)
  BY DEF Excluding
<1>6. OwnFits(r)'
  <2>1. own[r] = NoRows
    BY <1>1, <1>5 DEF Progress
  <2> QED
    BY <1>1, <2>1, NothingWritten DEF OwnFits, OwnLeases
<1>7. Progress(r)'
  <2>1. ~joins[r] /\ own[r] = NoRows
    BY <1>1, <1>5 DEF Progress
  <2>2. l \in {"committed", "row", "beat", "select"}
    <3>1. input[r].kind \in {"claim", "drag", "heartbeat", "cron"}
      BY <1>5, InputTyped DEF Kinds, Finishes
    <3> QED
      BY <1>2, <3>1, OrderIs
  <2>3. ~Taking(r)' /\ ~Assigning(r)' /\ ~Unhindered(r)' /\ ~Leasing(r)'
    BY <1>1, <1>3, <2>1, <2>2 DEF Taking, Assigning, Unhindered, Leasing, Settled
  <2> QED
    BY <1>1, <1>3, <1>4, <1>5, <2>1, <2>2, <2>3 DEF Progress, Working
<1> QED
  BY <1>1, <1>3, <1>4, <1>6, <1>7, QuietStep

\* A statement of a claim or a drag.
Advances(r) ==
    \/ /\ pc[r] = "row" /\ Reads(r) /\ joins'[r] = joins[r]
       /\ IF IsClaim(r) THEN PinRow(r) /\ pc'[r] = "check"
          ELSE pc'[r] = "commit" \/ (pc'[r] = "room" /\ found'[r] # "doing")
    \/ /\ pc[r] = "check" /\ Reads(r) /\ found'[r] = found[r]
       /\ pc'[r] = IF IsClaim(r) THEN "room" ELSE "assign"
       /\ Acceptable(r, Who(Sees(r), input[r].task))
       /\ joins'[r] <=> Who(Sees(r), input[r].task) = {}
    \/ /\ pc[r] = "room" /\ Reads(r) /\ joins'[r] = joins[r] /\ found'[r] = found[r]
       /\ IF IsClaim(r) THEN pc'[r] = "flag" \/ (pc'[r] = "assign" /\ found[r] = "doing")
          ELSE pc'[r] = "check" \/ found[r] = "doing"
    \/ /\ pc[r] = "flag" /\ pc'[r] = "move" /\ joins'[r] = joins[r] /\ found'[r] = found[r]
       /\ Reads(r) \/ Writes(r, FlagRow(input[r].task, FALSE))
    \/ /\ pc[r] = "move" /\ joins'[r] = joins[r] /\ found'[r] = found[r]
       /\ pc'[r] = IF IsClaim(r) THEN "assign" ELSE "commit"
       /\ Writes(r, PlaceRow(input[r].task, "doing")) /\ Lock(r, Bucket(input[r].task))
    \/ /\ pc[r] = "assign" /\ pc'[r] = "conflicts" /\ joins'[r] = joins[r] /\ found'[r] = found[r]
       /\ IF joins[r] THEN /\ Writes(r, OwnerRow(input[r].task, input[r].user))
                           /\ Lock(r, <<"project">>)
          ELSE Reads(r)
    \/ /\ pc[r] = "conflicts" /\ pc'[r] = "lease" /\ joins'[r] = joins[r] /\ found'[r] = found[r]
       /\ Reads(r) /\ ~InTheWay(Sees(r), input[r].task)
    \/ /\ pc[r] = "lease" /\ joins'[r] = joins[r] /\ found'[r] = found[r]
       /\ pc'[r] = (IF IsClaim(r) THEN "commit" ELSE "flag")
       /\ \/ ScopeOf[input[r].task] = {} /\ Reads(r)
          \/ Refills(r, input[r].task,
                 {Lease(input[r].task, holder[r], p) : p \in ScopeOf[input[r].task]})

\* The statements of claims and drags, in their order.
LEMMA TakeGoes ==
    ASSUME RaceTypeOK, NEW r \in Request, Working(r), Runs(r), ~Refuse(r)
    PROVE  Advances(r)
<1>0. /\ input[r].kind \in {"claim", "drag"} /\ input[r].task \in Task /\ input[r].user \in User
      /\ pc[r] \in Lines(input[r].kind) /\ joins[r] \in BOOLEAN
      /\ IsClaim(r) <=> input[r].kind = "claim"
  BY InputTyped DEF Working, IsClaim
<1>1. \A l, f, j, h, n : Does(r, l, f, j, h, n) => pc'[r] = l /\ found'[r] = f /\ joins'[r] = j
  BY DEF Does, Moved, Goto, RaceTypeOK
<1>2. CASE PinRow(r)
  BY <1>0, <1>1, <1>2, PinDoes DEF Advances
<1>3. CASE ReadRow(r)
  <2>1. /\ pc[r] = "row" /\ input[r].kind = "drag" /\ Reads(r)
        /\ \E b \in Places : \E l :
              /\ Does(r, l, b, joins[r], holder[r], noted[r])
              /\ IF b = "doing" THEN l = "commit" ELSE l = Order["drag"]["row"]
    BY <1>0, <1>3, RowDoes
  <2> QED
    BY <1>0, <1>1, <2>1, OrderIs DEF Advances
<1>4. CASE CheckAssignees(r)
  <2>1. PICK j \in BOOLEAN, h \in User :
           /\ pc[r] = "check" /\ Reads(r) /\ Acceptable(r, Who(Sees(r), input[r].task))
           /\ Does(r, Order[input[r].kind]["check"], found[r], j, h, noted[r])
           /\ j <=> Who(Sees(r), input[r].task) = {}
    BY <1>4, CheckDoes
  <2>2. pc'[r] = Order[input[r].kind]["check"] /\ joins'[r] = j /\ found'[r] = found[r]
    BY <1>1, <2>1
  <2>3. pc'[r] = IF IsClaim(r) THEN "room" ELSE "assign"
    BY <1>0, <2>2, OrderIs
  <2>4. joins'[r] <=> Who(Sees(r), input[r].task) = {}
    BY <1>0, <2>1, <2>2
  <2> QED
    BY <2>1, <2>2, <2>3, <2>4 DEF Advances
<1>5. CASE CheckRoom(r)
  <2>1. /\ pc[r] = "room" /\ Reads(r)
        /\ \/ found[r] = "doing" /\ Does(r, "assign", found[r], joins[r], holder[r], noted[r])
           \/ Does(r, Order[input[r].kind]["room"], found[r], joins[r], holder[r], noted[r])
    BY <1>5, RoomDoes
  <2> QED
    BY <1>0, <1>1, <2>1, OrderIs DEF Advances
<1>6. CASE WriteFlag(r)
  <2>1. /\ pc[r] \in {"flag", "final"}
        /\ Does(r, Order[input[r].kind][pc[r]], found[r], joins[r], holder[r], noted[r])
        /\ Reads(r) \/ Writes(r, FlagRow(input[r].task, FALSE))
    BY <1>0, <1>6, FlagDoes DEF Finishes
  <2>2. pc[r] = "flag"
    BY <1>0, <2>1, LineKinds
  <2>3. pc'[r] = "move" /\ joins'[r] = joins[r] /\ found'[r] = found[r]
    BY <1>0, <1>1, <2>1, <2>2, OrderIs
  <2> QED
    BY <2>1, <2>2, <2>3 DEF Advances
<1>7. CASE MoveRow(r)
  <2>1. /\ pc[r] = "move"
        /\ Does(r, Order[input[r].kind]["move"], found[r], joins[r], holder[r], noted[r])
        /\ Writes(r, PlaceRow(input[r].task, "doing"))
    BY <1>0, <1>7, MoveDoes DEF Finishes
  <2>2. /\ pc'[r] = (IF IsClaim(r) THEN "assign" ELSE "commit") /\ joins'[r] = joins[r]
        /\ found'[r] = found[r]
    BY <1>0, <1>1, <2>1, OrderIs
  <2>3. Lock(r, Bucket(input[r].task))
    BY <1>7 DEF MoveRow, Write
  <2> QED
    BY <2>1, <2>2, <2>3 DEF Advances
<1>8. CASE Assign(r)
  <2>1. /\ pc[r] = "assign"
        /\ Does(r, Order[input[r].kind]["assign"], found[r], joins[r], holder[r], noted[r])
        /\ \/ ~joins[r] /\ Reads(r)
           \/ joins[r] /\ Writes(r, OwnerRow(input[r].task, input[r].user))
    BY <1>8, AssignDoes
  <2>2. joins[r] => Lock(r, <<"project">>)
    BY <1>8 DEF Assign, Write
  <2>3. pc'[r] = "conflicts" /\ joins'[r] = joins[r] /\ found'[r] = found[r]
    BY <1>0, <1>1, <2>1, OrderIs
  <2> QED
    BY <2>1, <2>2, <2>3 DEF Advances
<1>9. CASE CheckLeases(r)
  <2>1. /\ pc[r] = "conflicts" /\ Reads(r) /\ ~InTheWay(Sees(r), input[r].task)
        /\ Does(r, Order[input[r].kind]["conflicts"], found[r], joins[r], holder[r], noted[r])
    BY <1>0, <1>9, ConflictsDoes
  <2>2. pc'[r] = "lease" /\ joins'[r] = joins[r] /\ found'[r] = found[r]
    BY <1>0, <1>1, <2>1, OrderIs
  <2> QED
    BY <2>1, <2>2 DEF Advances
<1>10. CASE TakeLeases(r)
  <2>1. /\ pc[r] = "lease"
        /\ Does(r, Order[input[r].kind]["lease"], found[r], joins[r], holder[r], noted[r])
        /\ \/ ScopeOf[input[r].task] = {} /\ Reads(r)
           \/ Refills(r, input[r].task, {Lease(input[r].task, holder[r], p) : p \in ScopeOf[input[r].task]})
    BY <1>10, LeaseDoes
  <2>2. /\ pc'[r] = (IF IsClaim(r) THEN "commit" ELSE "flag") /\ joins'[r] = joins[r]
        /\ found'[r] = found[r]
    BY <1>0, <1>1, <2>1, OrderIs
  <2> QED
    BY <2>1, <2>2 DEF Advances
<1>11. ~FreeLeases(r) /\ ~CountOpen(r) /\ ~CloseParent(r) /\ ~LockView(r)
  BY <1>0, LineKinds DEF FreeLeases, CountOpen, CloseParent, LockView
<1>12. ~Heartbeat(r) /\ ~SelectOverdue(r) /\ ~DropOverdue(r)
  BY <1>0, LineKinds DEF Heartbeat, SelectOverdue, DropOverdue
<1> QED
  BY <1>2, <1>3, <1>4, <1>5, <1>6, <1>7, <1>8, <1>9, <1>10, <1>11, <1>12 DEF Runs

\* Leases newly taken are those of the scope.
LEMMA Refitted ==
    ASSUME RaceTypeOK, NEW r \in Request, NEW t \in Task, NEW h \in User,
           Refills(r, t, {Lease(t, h, p) : p \in ScopeOf[t]})
    PROVE  /\ Fitting(own'[r], t)
           /\ ScopeOf[t] # {} => OwnLeases(r, t)' # {}
<1> DEFINE there == Leased(Newest(r), t)
           fresh == {Lease(t, h, p) : p \in ScopeOf[t]}
           g == Replaced(there, fresh)
<1>1. own'[r] = Over(own[r], g)
  BY DEF Refills, Writes, RaceTypeOK
<1>a. \A S, F : /\ DOMAIN Replaced(S, F) = S \cup F
                /\ \A k \in S \cup F : Replaced(S, F)[k] = IF k \in F THEN "active" ELSE "none"
  BY ReplacedRows
<1>2. /\ DOMAIN g = there \cup fresh
      /\ \A k \in there \cup fresh : g[k] = IF k \in fresh THEN "active" ELSE "none"
  BY ONLY <1>a
<1>3. /\ ScopeOf[t] \subseteq Pattern /\ IsTables(db) /\ IsPart(own[r])
      /\ \A u \in User, p \in Pattern : Lease(t, u, p) \in LeaseRows(t)
  BY RaceAssumption DEF RaceAssumption, RaceTypeOK, LeaseRows
<1>4. ASSUME NEW u \in User, NEW p \in Pattern, Lease(t, u, p) \in DOMAIN own[r],
             own[r][Lease(t, u, p)] # "none"
      PROVE  Lease(t, u, p) \in there
  BY <1>3, <1>4, WrittenOver DEF Leased, Newest
<1>5. \A u \in User, p \in Pattern : Lease(t, u, p) \in fresh => p \in ScopeOf[t]
  BY RowsApart
<1> HIDE DEF g, there, fresh
<1>6. /\ DOMAIN own'[r] = DOMAIN own[r] \cup there \cup fresh
      /\ \A k \in DOMAIN own'[r] : own'[r][k] = IF k \in fresh THEN "active"
                                             ELSE IF k \in there THEN "none" ELSE own[r][k]
  BY <1>1, <1>2 DEF Over
<1>7. \A p \in ScopeOf[t] : Lease(t, h, p) \in fresh /\ Lease(t, h, p) \in LeaseRows(t)
  BY <1>3 DEF fresh
<1>8. Fitting(own'[r], t)
  <2>1. ASSUME NEW p \in ScopeOf[t]
        PROVE  \E u \in User : Lease(t, u, p) \in DOMAIN own'[r] /\ own'[r][Lease(t, u, p)] # "none"
    BY <1>6, <1>7
  <2>2. ASSUME NEW u \in User, NEW p \in Pattern, Lease(t, u, p) \in DOMAIN own'[r],
               own'[r][Lease(t, u, p)] # "none"
        PROVE  p \in ScopeOf[t]
    BY <1>4, <1>5, <1>6, <2>2
  <2> QED
    BY <2>1, <2>2 DEF Fitting
<1>9. ScopeOf[t] # {} => OwnLeases(r, t)' # {}
  BY <1>6, <1>7 DEF OwnLeases
<1> QED
  BY <1>8, <1>9

\* What a statement leaves alone, and what wins a task anew.
LEMMA RunsFrame ==
    ASSUME RaceTypeOK, NEW r \in Request, Runs(r), ~Refuse(r)
    PROVE  /\ Open(r) /\ UNCHANGED <<db, input>> /\ Apiece(r) /\ RaceTypeOK'
           /\ \A q \in Request : locks[<<"project">>] = q => locks'[<<"project">>] = q
           /\ \A x \in Task : Who(Newest(r), x) \subseteq Who(Newest(r)', x)
           /\ (joins'[r] => joins[r] \/ ~Held(input[r].task)) => WonFreely
<1>1. PICK l : \E f \in Places, j \in BOOLEAN, h \in User, n \in SUBSET Task :
         Open(r) /\ Does(r, l, f, j, h, n) /\ (Reads(r) \/ \E g : Writes(r, g))
  BY RunsDoes
<1>2. RaceTypeOK' /\ Apiece(r) /\ UNCHANGED <<input, db>>
  BY <1>1, DoesTyped
<1>3. \A q \in Request : locks[<<"project">>] = q => locks'[<<"project">>] = q
  <2>1. <<"project">> \in DOMAIN locks /\ Nobody \notin Request
    BY RaceAssumption DEF RaceTypeOK, Lockable, RaceAssumption
  <2> QED
    BY <2>1, RunsLocks DEF KeepsLocks
<1>4. ASSUME joins'[r] => joins[r] \/ ~Held(input[r].task)
      PROVE  WonFreely
  BY <1>2, <1>4 DEF WonFreely, Won, Apiece
<1> QED
  BY <1>1, <1>2, <1>3, <1>4, RunsAssigns

\* What a statement sees to.
Abides(r) == OwnFits(r)' /\ Progress(r)' /\ WonFreely

\* Whoever has not assigned finds in its tables whom it finds in those
\* that are committed.
LEMMA FoundHeld ==
    ASSUME RaceTypeOK, NEW r \in Request, OwnFits(r), ~joins[r], NEW x \in Task
    PROVE  Who(Newest(r), x) = Who(db, x)
<1>1. \A y \in Task, u \in User : Assigned(y, u) \notin DOMAIN own[r]
  BY DEF OwnFits
<1>2. IsTables(db)
  BY DEF RaceTypeOK
<1> QED
  BY <1>1, <1>2, Unwritten DEF SameOwners, Newest

\* Replacing the leases of a task writes no other rows.
LEMMA ReplacesOnly ==
    ASSUME NEW T, NEW x, NEW F, F \subseteq LeaseRows(x)
    PROVE  DOMAIN Replaced(Leased(T, x), F) \subseteq LeaseRows(x)
<1> DEFINE S == Leased(T, x)
<1>1. S \subseteq LeaseRows(x)
  BY DEF Leased
<1> HIDE DEF S
<1>2. DOMAIN Replaced(S, F) = S \cup F
  BY ReplacedRows
<1>3. DOMAIN Replaced(S, F) \subseteq LeaseRows(x)
  BY <1>1, <1>2
<1> QED
  BY <1>3 DEF S

\* Claims and drags see to it.
LEMMA TakeAbides ==
    ASSUME RaceTypeOK, engine = "postgres", NEW r \in Request, Working(r), Runs(r), ~Refuse(r),
           OwnFits(r), Progress(r), \A x \in Task : Holding(x)
    PROVE  Abides(r)
<1> DEFINE t == input[r].task
           u == input[r].user
<1>0. /\ t \in Task /\ u \in User /\ holder[r] \in User /\ joins[r] \in BOOLEAN
      /\ UNCHANGED <<db, input>> /\ (Working(r)' <=> Working(r)) /\ (IsClaim(r)' <=> IsClaim(r))
      /\ input[r].kind # "cron"
      /\ locks[<<"project">>] = r => locks'[<<"project">>] = r
      /\ \A x \in Task : Who(Newest(r), x) \subseteq Who(Newest(r)', x)
      /\ (joins'[r] => joins[r] \/ ~Held(input[r].task)) => WonFreely
      /\ \A x : (Held(x)' <=> Held(x)) /\ (Disjoint(t, x)' <=> Disjoint(t, x))
  BY InputTyped, RunsFrame DEF Working, IsClaim, Held, Disjoint
<1>1. ASSUME joins'[r] = joins[r], SameOwn(r)
      PROVE  OwnFits(r)' /\ WonFreely
  <2>1. WonFreely
    BY <1>0, <1>1
  <2>2. (\E x \in Task, w \in User : Assigned(x, w) \in DOMAIN own[r]) => joins[r]
    BY DEF OwnFits
  <2> QED
    BY <1>0, <1>1, <2>1, <2>2, FitsOn
<1>2. Reads(r) => SameOwn(r)
  BY OwnSame DEF Reads
<1>3. Advances(r) /\ Sees(r) = Newest(r)
  BY TakeGoes DEF Sees
<1> HIDE DEF t, u
<1>4. CASE /\ pc[r] = "row" /\ Reads(r) /\ joins'[r] = joins[r]
           /\ IF IsClaim(r) THEN pc'[r] = "check"
              ELSE pc'[r] = "commit" \/ (pc'[r] = "room" /\ found'[r] # "doing")
  <2>1. ~joins'[r]
    BY <1>4 DEF Progress
  <2>2. ~Taking(r)' /\ ~Assigning(r)' /\ ~Unhindered(r)' /\ ~Leasing(r)'
    BY <1>0, <1>4, <2>1 DEF Taking, Assigning, Unhindered, Leasing, Settled
  <2>3. Progress(r)'
    BY <1>0, <1>4, <2>1, <2>2 DEF Progress
  <2> QED
    BY <1>1, <1>2, <1>4, <2>3 DEF Abides
<1>5. CASE /\ pc[r] = "check" /\ Reads(r)
           /\ pc'[r] = IF IsClaim(r) THEN "room" ELSE "assign"
           /\ joins'[r] <=> Who(Sees(r), input[r].task) = {}
  <2>1. ~joins[r] /\ \A x \in Task, w \in User : Assigned(x, w) \notin DOMAIN own[r]
    BY <1>5 DEF Progress, OwnFits
  <2>2. joins'[r] <=> ~Held(t)
    BY <1>0, <1>3, <1>5, <2>1, FoundHeld DEF Held, t
  <2>3. WonFreely
    BY <1>0, <2>2 DEF t
  <2>4. OwnFits(r)'
    BY <1>0, <1>2, <1>5, <2>1, <2>3, FitsOn
  <2>5. ~Assigning(r)' /\ ~Unhindered(r)' /\ ~Leasing(r)'
    BY <1>5 DEF Assigning, Unhindered, Leasing
  <2>6. Progress(r)'
    BY <1>0, <1>5, <2>2, <2>5 DEF Progress, t
  <2> QED
    BY <2>3, <2>4, <2>6 DEF Abides
<1>6. CASE /\ pc[r] = "room" /\ Reads(r) /\ joins'[r] = joins[r]
           /\ IF IsClaim(r) THEN pc'[r] \in {"flag", "assign"}
              ELSE pc'[r] = "check" \/ found[r] = "doing"
  <2>1. IsClaim(r) \/ (pc'[r] = "check" /\ ~joins[r])
    BY <1>6 DEF Progress
  <2>2. ~Assigning(r)' /\ ~Unhindered(r)' /\ ~Leasing(r)'
    BY <1>0, <1>6, <2>1 DEF Assigning, Unhindered, Leasing
  <2>3. Taking(r)' => Taking(r)
    BY <1>0, <1>6, <2>1 DEF Taking, Settled
  <2>4. Progress(r)'
    BY <1>0, <1>6, <2>1, <2>2, <2>3 DEF Progress, t
  <2> QED
    BY <1>1, <1>2, <1>6, <2>4 DEF Abides
<1>7. CASE /\ pc[r] \in {"flag", "move"} /\ joins'[r] = joins[r]
           /\ pc'[r] = IF pc[r] = "flag" THEN "move" ELSE IF IsClaim(r) THEN "assign" ELSE "commit"
           /\ \/ Reads(r) \/ Writes(r, FlagRow(input[r].task, FALSE))
              \/ Writes(r, PlaceRow(input[r].task, "doing"))
  <2>1. SameOwn(r)
    <3> DEFINE f == FlagRow(t, FALSE)
               p == PlaceRow(t, "doing")
    <3>1. \A x \in Task : /\ LeaseRows(x) \cap DOMAIN f = {} /\ LeaseRows(x) \cap DOMAIN p = {}
                         /\ \A w \in User : Assigned(x, w) \notin DOMAIN f /\ Assigned(x, w) \notin DOMAIN p
      BY LeaseRowsApart, RowsApart DEF FlagRow, PlaceRow
    <3>2. Reads(r) \/ Writes(r, f) \/ Writes(r, p)
      BY <1>7 DEF t
    <3> HIDE DEF f, p
    <3> QED
      BY <1>2, <3>1, <3>2, OwnSame
  <2>2. /\ Assigning(r)' => Assigning(r)
        /\ Unhindered(r)' => Unhindered(r)
        /\ Leasing(r)' => Leasing(r)
        /\ Taking(r)' => Taking(r)
    BY <1>0, <1>7 DEF Taking, Assigning, Unhindered, Leasing, Settled
  <2>3. OwnFits(r)' /\ WonFreely
    BY <1>1, <1>7, <2>1
  <2>4. Progress(r)'
    <3>1. Assigned(t, u) \in DOMAIN own[r] => Assigned(t, u) \in DOMAIN own'[r]
      BY <1>0, <2>1 DEF SameOwn
    <3>2. OwnLeases(r, t)' = OwnLeases(r, t)
      <4>1. t' = t
        BY <1>0 DEF t
      <4> QED
        BY <1>0, <2>1, <4>1 DEF SameOwn, OwnLeases
    <3>3. joins[r] => Working(r)
      OBVIOUS
    <3>4. pc'[r] \notin {"begin", "row", "check", "room", "beat", "select"}
      BY <1>7
    <3>5. Taking(r)' /\ ~joins'[r] => Held(t)
      BY <1>7, <2>2 DEF Progress, t
    <3>6. Assigning(r)' => Assigned(t, u) \in DOMAIN own'[r]
      BY <2>2, <3>1 DEF Progress, t, u
    <3>7. Unhindered(r)' => \A o \in Task \ {t} : Won(o)' /\ Held(o) => Disjoint(t, o)
      BY <2>2, <2>3 DEF Progress, WonFreely, t
    <3>8. Leasing(r)' /\ ScopeOf[t] # {} => OwnLeases(r, t)' # {}
      BY <2>2, <3>2 DEF Progress, t
    <3> QED
      BY <1>0, <1>7, <3>4, <3>5, <3>6, <3>7, <3>8 DEF Progress, OwnLeases, t, u
  <2> QED
    BY <2>3, <2>4 DEF Abides
<1>8. CASE /\ pc[r] = "assign" /\ pc'[r] = "conflicts" /\ joins'[r] = joins[r]
           /\ IF joins[r] THEN /\ Writes(r, OwnerRow(input[r].task, input[r].user))
                               /\ Lock(r, <<"project">>)
              ELSE Reads(r)
  <2>1. WonFreely
    BY <1>0, <1>8
  <2>2. ~Unhindered(r)' /\ ~Leasing(r)'
    BY <1>8 DEF Unhindered, Leasing
  <2>3. Taking(r)' /\ ~joins'[r] => Held(t)
    <3>1. Taking(r)
      BY <1>8 DEF Taking, Settled
    <3> QED
      BY <1>8, <3>1 DEF Progress, t
  <2>4. CASE ~joins[r]
    <3>1. ~Assigning(r)'
      BY <1>8, <2>4 DEF Assigning
    <3>2. Progress(r)'
      BY <1>0, <1>8, <2>2, <2>3, <2>4, <3>1 DEF Progress, t
    <3> QED
      BY <1>1, <1>2, <1>8, <2>4, <3>2 DEF Abides
  <2>5. CASE joins[r]
    <3> DEFINE g == OwnerRow(t, u)
    <3>1. own'[r] = Over(own[r], g)
      BY <1>8, <2>5 DEF Writes, RaceTypeOK, t, u
    <3>2. /\ DOMAIN g = {Assigned(t, u)}
          /\ \A x \in Task : Assigned(t, u) \notin LeaseRows(x)
      BY LeaseRowsApart DEF OwnerRow
    <3> HIDE DEF g
    <3>3. /\ DOMAIN own'[r] = DOMAIN own[r] \cup {Assigned(t, u)}
          /\ \A k \in DOMAIN own[r] : k # Assigned(t, u) => own'[r][k] = own[r][k]
      BY <3>1, <3>2 DEF Over
    <3>4. \A x \in Task : /\ OwnLeases(r, x)' = OwnLeases(r, x)
                         /\ \A k \in OwnLeases(r, x) : own'[r][k] = own[r][k]
      BY <3>2, <3>3 DEF OwnLeases
    <3>5. locks'[<<"project">>] = r
      BY <1>8, <2>5 DEF RaceTypeOK, Lockable, Lock, LockFor
    <3>6. OwnFits(r)'
      <4>1. ASSUME NEW x \in Task, NEW w \in User, Assigned(x, w) \in DOMAIN own'[r]
            PROVE  x = t /\ joins'[r] /\ locks'[<<"project">>] = r
        <5>1. CASE Assigned(x, w) = Assigned(t, u)
          BY <1>8, <2>5, <3>5, <5>1, RowsApart
        <5>2. CASE Assigned(x, w) # Assigned(t, u)
          <6>1. Assigned(x, w) \in DOMAIN own[r]
            BY <3>3, <4>1, <5>2
          <6> QED
            BY <1>8, <2>5, <3>5, <6>1 DEF OwnFits, t
        <5> QED
          BY <5>1, <5>2
      <4>2. ASSUME NEW x \in Task, OwnLeases(r, x) # {}
            PROVE  /\ Who(Newest(r)', x) # {} /\ x = t
                   /\ Fitting(own'[r], x)
        <5>1. Fitting(own[r], x) /\ x = t /\ Who(Newest(r), x) # {}
          BY <4>2 DEF OwnFits, t
        <5>2. \A w \in User, p \in Pattern :
                 /\ Lease(x, w, p) \in DOMAIN own[r] <=> Lease(x, w, p) \in DOMAIN own'[r]
                 /\ Lease(x, w, p) \in DOMAIN own[r] => own'[r][Lease(x, w, p)] = own[r][Lease(x, w, p)]
          <6>1. \A w \in User, p \in Pattern : Lease(x, w, p) \in LeaseRows(x)
            BY DEF LeaseRows
          <6> QED
            BY <3>4, <6>1 DEF OwnLeases
        <5>3. ScopeOf[x] \subseteq Pattern
          BY RaceAssumption DEF RaceAssumption
        <5> QED
          BY <1>0, <5>1, <5>2, <5>3 DEF Fitting
      <4> QED
        BY <1>0, <3>4, <4>1, <4>2 DEF OwnFits, t
    <3>7. Progress(r)'
      <4>1. Assigned(t, u) \in DOMAIN own'[r]
        BY <3>3
      <4> QED
        BY <1>0, <1>8, <2>2, <2>5, <4>1 DEF Progress, t, u
    <3> QED
      BY <2>1, <3>6, <3>7 DEF Abides
  <2> QED
    BY <1>0, <2>4, <2>5
<1>9. CASE /\ pc[r] = "conflicts" /\ pc'[r] = "lease" /\ joins'[r] = joins[r]
           /\ Reads(r) /\ ~InTheWay(Sees(r), input[r].task)
  <2>1. OwnFits(r)' /\ WonFreely
    BY <1>1, <1>2, <1>9
  <2>2. ~Leasing(r)' /\ (Taking(r)' => Taking(r)) /\ (Assigning(r)' => Assigning(r))
    BY <1>0, <1>9 DEF Leasing, Taking, Assigning, Settled
  <2>3. ASSUME NEW o \in Task \ {t}, Won(o), Held(o)
        PROVE  Disjoint(t, o)
    <3> SUFFICES ASSUME NEW a \in ScopeOf[t], NEW p \in ScopeOf[o], <<a, p>> \in Overlap
                 PROVE  FALSE
      BY DEF Disjoint
    <3>1. Fitting(db, o) /\ p \in Pattern
      BY <2>3, RaceAssumption DEF Holding, RaceAssumption
    <3>2. PICK w \in User : db[Lease(o, w, p)] # "none"
      BY <3>1 DEF Fitting
    <3>3. OwnLeases(r, o) = {}
      BY <2>3 DEF OwnFits, t
    <3>4. Lease(o, w, p) \in LeaseRows(o)
      BY <3>1 DEF LeaseRows
    <3>5. Newest(r)[Lease(o, w, p)] = db[Lease(o, w, p)]
      BY <3>3, <3>4, WrittenOver DEF OwnLeases, Newest, RaceTypeOK
    <3> QED
      BY <1>3, <1>9, <3>1, <3>2, <3>5 DEF InTheWay, t
  <2>4. Progress(r)'
    <3>1. Taking(r)' /\ ~joins'[r] => Held(t)
      BY <1>9, <2>2 DEF Progress, t
    <3>2. Assigning(r)' => Assigned(t, u) \in DOMAIN own'[r]
      BY <1>9, <2>2 DEF Progress, Reads, t, u
    <3>3. \A o \in Task \ {t} : Won(o)' /\ Held(o) => Disjoint(t, o)
      BY <2>1, <2>3 DEF WonFreely
    <3> QED
      BY <1>0, <1>9, <2>2, <3>1, <3>2, <3>3 DEF Progress, t, u
  <2> QED
    BY <2>1, <2>4 DEF Abides
<1>10. CASE /\ pc[r] = "lease" /\ pc'[r] = (IF IsClaim(r) THEN "commit" ELSE "flag") /\ joins'[r] = joins[r]
            /\ \/ ScopeOf[input[r].task] = {} /\ Reads(r)
               \/ Refills(r, input[r].task,
                      {Lease(input[r].task, holder[r], p) : p \in ScopeOf[input[r].task]})
  <2>1. /\ ~Taking(r)' /\ Taking(r)
        /\ Assigning(r)' => Assigning(r)
        /\ Unhindered(r)' => Unhindered(r)
    BY <1>0, <1>10 DEF Taking, Assigning, Unhindered, Settled
  <2>2. WonFreely
    BY <1>0, <1>10
  <2>3. \A x \in Task, w \in User :
           Assigned(x, w) \in DOMAIN own'[r] <=> Assigned(x, w) \in DOMAIN own[r]
    <3>1. CASE Reads(r)
      BY <3>1 DEF Reads
    <3>2. ASSUME NEW g, Writes(r, g), \A x \in Task, w \in User : Assigned(x, w) \notin DOMAIN g
          PROVE  \A x \in Task, w \in User :
                    Assigned(x, w) \in DOMAIN own'[r] <=> Assigned(x, w) \in DOMAIN own[r]
      <4>1. own'[r] = Over(own[r], g)
        BY <3>2 DEF Writes, RaceTypeOK
      <4>2. DOMAIN own'[r] = DOMAIN own[r] \cup DOMAIN g
        BY ONLY <4>1 DEF Over
      <4> QED
        BY <3>2, <4>2
    <3>3. ASSUME NEW F, F \subseteq LeaseRows(t), Refills(r, t, F)
          PROVE  \A x \in Task, w \in User :
                    Assigned(x, w) \in DOMAIN own'[r] <=> Assigned(x, w) \in DOMAIN own[r]
      <4>1. DOMAIN Replaced(Leased(Newest(r), t), F) \subseteq LeaseRows(t)
        BY <3>3, ReplacesOnly
      <4>2. \A x \in Task, w \in User : Assigned(x, w) \notin LeaseRows(t)
        BY LeaseRowsApart
      <4> QED
        BY <3>2, <3>3, <4>1, <4>2 DEF Refills
    <3>4. {Lease(t, holder[r], p) : p \in ScopeOf[t]} \subseteq LeaseRows(t)
      BY <1>0, RaceAssumption DEF LeaseRows, RaceAssumption
    <3> QED
      BY <1>10, <3>1, <3>3, <3>4 DEF t
  <2>4. \A x \in Task \ {t} : OwnLeases(r, x)' = {}
    <3>0. \A x \in Task \ {t} : OwnLeases(r, x) = {}
      BY DEF OwnFits, t
    <3>1. CASE Reads(r)
      BY <3>0, <3>1 DEF OwnLeases, Reads
    <3>2. ASSUME NEW F, F \subseteq LeaseRows(t), Refills(r, t, F)
          PROVE  \A x \in Task \ {t} : OwnLeases(r, x)' = {}
      <4> DEFINE g == Replaced(Leased(Newest(r), t), F)
      <4>1. DOMAIN g \subseteq LeaseRows(t)
        BY <3>2, ReplacesOnly
      <4>2. own'[r] = Over(own[r], g)
        BY <3>2 DEF Refills, Writes, RaceTypeOK
      <4> HIDE DEF g
      <4>3. DOMAIN own'[r] = DOMAIN own[r] \cup DOMAIN g
        BY ONLY <4>2 DEF Over
      <4>4. \A x \in Task \ {t} : LeaseRows(x) \cap LeaseRows(t) = {}
        BY LeaseRowsApart
      <4> QED
        BY <3>0, <4>1, <4>3, <4>4 DEF OwnLeases
    <3>3. {Lease(t, holder[r], p) : p \in ScopeOf[t]} \subseteq LeaseRows(t)
      BY <1>0, RaceAssumption DEF LeaseRows, RaceAssumption
    <3> QED
      BY <1>10, <3>1, <3>2, <3>3 DEF t
  <2>5. Who(Newest(r)', t) # {}
    <3>1. CASE joins[r]
      <4>1. Assigned(t, u) \in DOMAIN own[r]
        BY <1>10, <3>1 DEF Progress, Assigning, t, u
      <4>2. u \in Who(Newest(r), t)
        BY <1>0, <4>1, WrittenOver DEF Newest, RaceTypeOK
      <4> QED
        BY <1>0, <4>2
    <3>2. CASE ~joins[r]
      BY <1>0, <2>1, <3>2, FoundHeld DEF Progress, Held, t
    <3> QED
      BY <1>0, <3>1, <3>2
  <2>6. /\ OwnLeases(r, t)' # {} => Fitting(own'[r], t)
        /\ ScopeOf[t] # {} => OwnLeases(r, t)' # {}
    <3>1. CASE ScopeOf[t] = {} /\ Reads(r)
      <4>1. own'[r] = own[r]
        BY <3>1 DEF Reads
      <4>2. OwnLeases(r, t)' # {} => Fitting(own[r], t)
        BY <1>0, <4>1 DEF OwnFits, OwnLeases, t
      <4> QED
        BY <3>1, <4>1, <4>2
    <3>2. CASE Refills(r, t, {Lease(t, holder[r], p) : p \in ScopeOf[t]})
      <4>1. PICK h \in User : h = holder[r]
        BY <1>0
      <4>2. /\ Fitting(own'[r], t)
            /\ ScopeOf[t] # {} => LeaseRows(t) \cap DOMAIN own'[r] # {}
        BY <1>0, <3>2, <4>1, Refitted DEF OwnLeases
      <4>3. t' = t
        BY <1>0 DEF t
      <4> QED
        BY <4>2, <4>3 DEF OwnLeases
    <3> QED
      BY <1>10, <3>1, <3>2 DEF t
  <2>7. OwnFits(r)'
    <3>1. ASSUME NEW x \in Task, NEW w \in User, Assigned(x, w) \in DOMAIN own'[r]
          PROVE  x = t /\ joins'[r] /\ locks'[<<"project">>] = r
      BY <1>0, <1>10, <2>3, <3>1 DEF OwnFits, t
    <3> QED
      BY <1>0, <2>4, <2>5, <2>6, <3>1 DEF OwnFits, t
  <2>8. Progress(r)'
    <3>1. Assigning(r)' => Assigned(t, u) \in DOMAIN own'[r]
      BY <1>0, <2>1, <2>3 DEF Progress, t, u
    <3>2. Unhindered(r)' => \A o \in Task \ {t} : Won(o)' /\ Held(o) => Disjoint(t, o)
      BY <2>1, <2>2 DEF Progress, WonFreely, t
    <3> QED
      BY <1>0, <1>10, <2>1, <2>6, <3>1, <3>2 DEF Progress, OwnLeases, t, u
  <2> QED
    BY <2>2, <2>7, <2>8 DEF Abides
<1> QED
  BY <1>3, <1>4, <1>5, <1>6, <1>7, <1>8, <1>9, <1>10 DEF Advances

\* Whoever takes nothing has won nothing, and has assigned nobody.
LEMMA TakesNothing ==
    ASSUME RaceTypeOK, NEW r \in Request, ~Working(r), OwnFits(r), Progress(r), UNCHANGED input,
           joins'[r] = joins[r], pc'[r] \notin {"begin", "beat", "select"},
           pc'[r] = "room" => found'[r] # "doing",
           input[r].kind = "cron" => \A x \in noted'[r] : Held(x)' /\ ~Won(x)'
    PROVE  /\ \A x \in Task, u \in User : Assigned(x, u) \notin DOMAIN own[r]
           /\ Progress(r)'
<1>1. ~joins[r] /\ ~joins'[r] /\ ~Working(r)'
  BY DEF Progress, Working
<1>2. ~Taking(r)' /\ ~Assigning(r)' /\ ~Unhindered(r)' /\ ~Leasing(r)'
  BY <1>1 DEF Taking, Assigning, Unhindered, Leasing
<1> QED
  BY <1>1, <1>2 DEF Progress, OwnFits

\* Heartbeats see to it: the leases they write are those there are.
LEMMA BeatAbides ==
    ASSUME RaceTypeOK, engine = "postgres", NEW r \in Request, Heartbeat(r), Runs(r), ~Refuse(r),
           OwnFits(r), Progress(r), \A x \in Task : Holding(x)
    PROVE  Abides(r)
<1> DEFINE t == input[r].task
           there == Leased(Newest(r), t)
           g == BeatRows(there)
<1>1. /\ pc[r] = "beat" /\ t \in Task
      /\ \E n : Does(r, Order[input[r].kind]["beat"], found[r], joins[r], holder[r], n)
      /\ Reads(r) \/ Writes(r, g)
  BY BeatDoes, InputTyped
<1>2. /\ pc'[r] = Order[input[r].kind]["beat"] /\ joins'[r] = joins[r]
  BY <1>1 DEF Does, Moved, Goto, RaceTypeOK
<1>3. input[r].kind = "heartbeat" /\ ~Working(r)
  BY <1>1, LineKinds DEF Working
<1>4. pc'[r] = "commit" /\ own[r] = NoRows
  BY <1>1, <1>2, <1>3, OrderIs DEF Progress
<1>5. UNCHANGED <<db, input>> /\ WonFreely /\ (Working(r)' <=> Working(r))
  BY <1>2, RunsFrame DEF Working
<1>6. Progress(r)' /\ \A x \in Task, u \in User : Assigned(x, u) \notin DOMAIN own[r]
  BY <1>2, <1>3, <1>4, <1>5, TakesNothing
<1>7. Newest(r) = db
  BY <1>4, NothingWritten DEF RaceTypeOK, Newest
<1>8. DOMAIN own'[r] \subseteq LeaseRows(t) /\ \A k \in DOMAIN own'[r] : k \in there /\ own'[r][k] = "active"
  <2>1. there \subseteq LeaseRows(t) /\ DOMAIN NoRows = {}
    BY NothingWritten DEF Leased
  <2> HIDE DEF there
  <2>2. DOMAIN g = there /\ \A k \in there : g[k] = "active"
    BY DEF BeatRows
  <2>3. CASE Reads(r)
    BY <1>4, <2>1, <2>3 DEF Reads
  <2>4. CASE Writes(r, g)
    <3>1. own'[r] = Over(NoRows, g)
      BY <1>4, <2>4 DEF Writes, RaceTypeOK
    <3> HIDE DEF g
    <3> QED
      BY <2>1, <2>2, <3>1 DEF Over
  <2> QED
    BY <1>1, <2>3, <2>4
<1>9. DOMAIN own'[r] # {} => there \subseteq DOMAIN own'[r]
  <2>1. DOMAIN NoRows = {}
    BY NothingWritten
  <2>2. CASE Reads(r)
    BY <1>4, <2>1, <2>2 DEF Reads
  <2>3. CASE Writes(r, g)
    <3>1. own'[r] = Over(NoRows, g)
      BY <1>4, <2>3 DEF Writes, RaceTypeOK
    <3> HIDE DEF there
    <3>2. DOMAIN g = there
      BY DEF BeatRows
    <3> HIDE DEF g
    <3> QED
      BY <3>1, <3>2 DEF Over
  <2> QED
    BY <1>1, <2>2, <2>3
<1>10. \A x \in Task, u \in User : Assigned(x, u) \notin DOMAIN own'[r]
  BY <1>8, LeaseRowsApart
<1>11. ASSUME NEW x \in Task, OwnLeases(r, x)' # {}
       PROVE  /\ Who(Newest(r)', x) # {}
              /\ Won(x)' => Fitting(own'[r], x)
  <2>1. PICK k \in LeaseRows(x) : k \in DOMAIN own'[r]
    BY <1>11 DEF OwnLeases
  <2>2. x = t /\ k \in there
    BY <1>8, <2>1, LeaseRowsApart
  <2>3. Leased(db, x) # {}
    BY <1>7, <2>2
  <2>4. Held(x)
    BY <2>3 DEF Holding
  <2>5. Who(Newest(r)', x) # {}
    <3>1. Who(Newest(r), x) \subseteq Who(Newest(r)', x)
      BY RunsFrame
    <3> QED
      BY <1>7, <2>4, <3>1 DEF Held
  <2>6. ASSUME Won(x)' PROVE Fitting(own'[r], x)
    <3>1. Won(x)
      BY <2>4, <2>6, <1>5 DEF WonFreely
    <3>2. Fitting(db, x)
      BY <2>4, <3>1 DEF Holding
    <3>3. \A u \in User, p \in Pattern : Lease(x, u, p) \in LeaseRows(x)
      BY DEF LeaseRows
    <3>4. ScopeOf[x] \subseteq Pattern
      BY RaceAssumption DEF RaceAssumption
    <3>5. \A j \in LeaseRows(x) : db[j] # "none" <=> j \in there
      BY <1>7, <2>2 DEF Leased
    <3>6. there \subseteq DOMAIN own'[r] /\ there \subseteq LeaseRows(x) /\ LeaseRows(x) \subseteq DOMAIN db
      <4>1. LeaseRows(x) \subseteq DOMAIN db
        BY RowsAre DEF RaceTypeOK, IsTables
      <4> QED
        BY <1>9, <2>1, <2>2, <4>1 DEF Leased
    <3> HIDE DEF there
    <3>7. ASSUME NEW p \in ScopeOf[x]
          PROVE  \E u \in User : Lease(x, u, p) \in DOMAIN own'[r] /\ own'[r][Lease(x, u, p)] # "none"
      <4>1. PICK u \in User : db[Lease(x, u, p)] # "none"
        BY <3>2 DEF Fitting
      <4> QED
        BY <1>8, <3>3, <3>4, <3>5, <3>6, <4>1
    <3>8. ASSUME NEW u \in User, NEW p \in Pattern, Lease(x, u, p) \in DOMAIN own'[r]
          PROVE  p \in ScopeOf[x]
      BY <1>8, <3>2, <3>3, <3>5, <3>6, <3>8 DEF Fitting
    <3> QED
      BY <3>7, <3>8 DEF Fitting
  <2> QED
    BY <2>5, <2>6
<1> QED
  BY <1>3, <1>5, <1>6, <1>10, <1>11 DEF Abides, OwnFits

\* The cron sees to it: it selects what is overdue, so nobody has won it,
\* and drops leases of what it selected.
LEMMA CronAbides ==
    ASSUME RaceTypeOK, engine = "postgres", NEW r \in Request, SelectOverdue(r) \/ DropOverdue(r),
           Runs(r), ~Refuse(r), OwnFits(r), Progress(r), \A x \in Task : Holding(x)
    PROVE  Abides(r)
<1>1. input[r].kind = "cron" /\ ~Working(r) /\ ~joins[r]
  <2>1. pc[r] \in {"select", "drop"}
    BY DEF SelectOverdue, DropOverdue
  <2> QED
    BY <2>1, LineKinds DEF Working, Progress
<1>2. /\ UNCHANGED <<db, input>> /\ (Working(r)' <=> Working(r)) /\ noted[r] \subseteq Task
      /\ (joins'[r] = joins[r] => WonFreely)
      /\ \A x \in Task : Who(Newest(r), x) \subseteq Who(Newest(r)', x)
  BY RunsFrame, InputTyped DEF Working
<1>3. \A x : Held(x)' <=> Held(x)
  BY <1>2 DEF Held
<1>4. ASSUME WonFreely, NEW x \in Task, Held(x), ~Won(x)
      PROVE  ~Won(x)'
  BY <1>4 DEF WonFreely
<1>5. \A l, f, j, h, n : Does(r, l, f, j, h, n) => pc'[r] = l /\ joins'[r] = j /\ noted'[r] = n
  BY DEF Does, Moved, Goto, RaceTypeOK
<1>6. CASE SelectOverdue(r)
  <2>1. PICK n \in SUBSET Task :
           /\ pc[r] = "select" /\ Reads(r)
           /\ Does(r, Order[input[r].kind]["select"], found[r], joins[r], holder[r], n)
           /\ \A x \in n : \E k \in LeaseRows(x) : Sees(r)[k] = "overdue"
    BY <1>6, SelectDoes
  <2>2. pc'[r] = "drop" /\ joins'[r] = joins[r] /\ noted'[r] = n
    BY <1>1, <1>5, <2>1, OrderIs
  <2>3. own[r] = NoRows /\ own'[r] = NoRows
    BY <2>1 DEF Progress, Reads
  <2>4. Sees(r) = db
    BY <2>3, NothingWritten DEF Sees, Newest, RaceTypeOK
  <2>5. ASSUME NEW x \in n PROVE Held(x) /\ ~Won(x)
    <3>1. PICK k \in LeaseRows(x) : db[k] = "overdue"
      BY <2>1, <2>4
    <3>2. Holding(x) /\ Leased(db, x) # {}
      BY <3>1 DEF Leased
    <3> QED
      BY <3>1, <3>2 DEF Holding
  <2>6. WonFreely
    BY <1>2, <2>2
  <2>7. \A x \in noted'[r] : Held(x)' /\ ~Won(x)'
    BY <1>3, <1>4, <2>2, <2>5, <2>6
  <2>8. Progress(r)'
    BY <1>1, <1>2, <2>2, <2>7, TakesNothing
  <2>9. OwnFits(r)'
    BY <2>3, NothingWritten DEF OwnFits, OwnLeases
  <2> QED
    BY <2>6, <2>8, <2>9 DEF Abides
<1>7. CASE DropOverdue(r)
  <2>1. /\ pc[r] = "drop"
        /\ \/ /\ Reads(r)
              /\ Does(r, Order[input[r].kind]["drop"], found[r], joins[r], holder[r], noted[r])
           \/ \E x \in noted[r] :
                 /\ Refills(r, x, {})
                 /\ Does(r, "drop", found[r], joins[r], holder[r], noted[r] \ {x})
    BY <1>7, DropDoes
  <2>2. /\ pc'[r] \in {"drop", "commit"} /\ joins'[r] = joins[r] /\ noted'[r] \subseteq noted[r]
        /\ own'[r] = own[r] \/ \E x \in noted[r] : Refills(r, x, {})
    <3>1. CASE Reads(r) /\ Does(r, Order[input[r].kind]["drop"], found[r], joins[r], holder[r], noted[r])
      <4>1. pc'[r] = "commit" /\ joins'[r] = joins[r] /\ noted'[r] = noted[r]
        BY <1>1, <1>5, <3>1, OrderIs
      <4> QED
        BY <3>1, <4>1 DEF Reads
    <3>2. ASSUME NEW x \in noted[r], Refills(r, x, {}),
                 Does(r, "drop", found[r], joins[r], holder[r], noted[r] \ {x})
          PROVE  /\ pc'[r] = "drop" /\ joins'[r] = joins[r] /\ noted'[r] \subseteq noted[r]
                 /\ Refills(r, x, {})
      <4>1. noted'[r] = noted[r] \ {x}
        BY <1>5, <3>2
      <4> QED
        BY <1>5, <3>2, <4>1
    <3> QED
      BY <2>1, <3>1, <3>2
  <2>3. WonFreely /\ \A x \in noted[r] : Held(x) /\ ~Won(x) /\ Held(x)' /\ ~Won(x)'
    BY <1>1, <1>2, <1>3, <1>4, <2>2 DEF Progress
  <2>4. /\ Progress(r)'
        /\ \A x \in Task, u \in User : Assigned(x, u) \notin DOMAIN own[r]
    <3>1. /\ \A x \in noted'[r] : Held(x)' /\ ~Won(x)'
          /\ pc'[r] \notin {"begin", "beat", "select", "room"}
      BY <2>2, <2>3
    <3> QED
      BY <1>1, <1>2, <2>2, <3>1, TakesNothing
  <2>5. CASE own'[r] = own[r]
    <3>1. SameOwn(r)
      BY <2>5, OwnSame
    <3>2. OwnFits(r)'
      BY <1>1, <1>2, <2>3, <2>4, <3>1, FitsOn
    <3> QED
      BY <2>3, <2>4, <3>2 DEF Abides
  <2>6. ASSUME NEW x \in noted[r], Refills(r, x, {})
        PROVE  Abides(r)
    <3> DEFINE g == Replaced(Leased(Newest(r), x), {})
    <3>1. own'[r] = Over(own[r], g) /\ x \in Task
      BY <1>2, <2>6 DEF Refills, Writes, RaceTypeOK
    <3>2. DOMAIN g \subseteq LeaseRows(x)
      BY ReplacesOnly
    <3> HIDE DEF g
    <3>3. /\ DOMAIN own'[r] = DOMAIN own[r] \cup DOMAIN g
          /\ \A k \in DOMAIN own[r] : k \notin DOMAIN g => own'[r][k] = own[r][k]
      BY ONLY <3>1 DEF Over
    <3>4. \A y \in Task, u \in User : Assigned(y, u) \notin DOMAIN own'[r]
      BY <2>4, <3>2, <3>3, LeaseRowsApart
    <3>5. ASSUME NEW y \in Task \ {x}
          PROVE  /\ OwnLeases(r, y)' = OwnLeases(r, y)
                 /\ \A k \in OwnLeases(r, y) : own'[r][k] = own[r][k]
      <4>1. LeaseRows(y) \cap LeaseRows(x) = {}
        BY LeaseRowsApart
      <4> QED
        BY <3>2, <3>3, <4>1 DEF OwnLeases
    <3>6. ASSUME NEW y \in Task, OwnLeases(r, y)' # {}
          PROVE  /\ Who(Newest(r)', y) # {}
                 /\ Won(y)' => Fitting(own'[r], y)
      <4>1. CASE y = x
        <5>1. Who(Newest(r), x) # {}
          BY <1>1, <2>3, <3>1, FoundHeld DEF Held
        <5> QED
          BY <1>2, <2>3, <3>1, <4>1, <5>1
      <4>2. CASE y # x
        <5>1. Who(Newest(r), y) # {} /\ (Won(y) => Fitting(own[r], y))
          BY <3>5, <3>6, <4>2 DEF OwnFits
        <5>2. Who(Newest(r)', y) # {}
          BY <1>2, <5>1
        <5>3. ASSUME Won(y)' PROVE Fitting(own'[r], y)
          <6>1. Won(y)
            <7>1. Held(y)
              BY <1>1, <5>1, FoundHeld DEF Held
            <7> QED
              BY <2>3, <5>3, <7>1 DEF WonFreely
          <6>2. \A w \in User, p \in Pattern :
                   /\ Lease(y, w, p) \in DOMAIN own[r] <=> Lease(y, w, p) \in DOMAIN own'[r]
                   /\ Lease(y, w, p) \in DOMAIN own[r] => own'[r][Lease(y, w, p)] = own[r][Lease(y, w, p)]
            <7>1. \A w \in User, p \in Pattern : Lease(y, w, p) \in LeaseRows(y)
              BY DEF LeaseRows
            <7> QED
              BY <3>5, <4>2, <7>1 DEF OwnLeases
          <6>3. ScopeOf[y] \subseteq Pattern
            BY RaceAssumption DEF RaceAssumption
          <6> QED
            BY <5>1, <6>1, <6>2, <6>3 DEF Fitting
        <5> QED
          BY <5>2, <5>3
      <4> QED
        BY <4>1, <4>2
    <3>7. OwnFits(r)'
      BY <1>1, <1>2, <3>4, <3>6 DEF OwnFits
    <3> QED
      BY <2>3, <2>4, <3>7 DEF Abides
  <2> QED
    BY <2>2, <2>5, <2>6
<1> QED
  BY <1>6, <1>7

\* Every statement keeps what excludes.
LEMMA RunsExcludes ==
    ASSUME RaceTypeOK, engine = "postgres", Excluding, NEW r \in Request, Runs(r), ~Refuse(r)
    PROVE  Excluding'
<1>1. ~Finishes(r) /\ OwnFits(r) /\ Progress(r) /\ \A x \in Task : Holding(x)
  BY DEF Excluding
<1>2. Abides(r)
  <2>1. CASE Working(r)
    BY <1>1, <2>1, TakeAbides
  <2>2. CASE ~Working(r)
    <3>1. pc[r] \notin {"row", "check", "room", "flag", "move", "assign", "conflicts", "lease",
                        "free", "freeAgain", "early", "earlyClose", "count", "close", "view", "final"}
      BY <1>1, <2>2, LineKinds DEF Working, Finishes
    <3>2. ~(PinRow(r) \/ ReadRow(r) \/ CheckAssignees(r) \/ CheckRoom(r) \/ WriteFlag(r) \/ MoveRow(r))
      BY <3>1 DEF PinRow, ReadRow, CheckAssignees, CheckRoom, WriteFlag, MoveRow
    <3>3. ~(Assign(r) \/ CheckLeases(r) \/ TakeLeases(r) \/ FreeLeases(r) \/ CountOpen(r)
              \/ CloseParent(r) \/ LockView(r))
      BY <3>1 DEF Assign, CheckLeases, TakeLeases, FreeLeases, CountOpen, CloseParent, LockView
    <3>4. Heartbeat(r) \/ SelectOverdue(r) \/ DropOverdue(r)
      BY <3>2, <3>3 DEF Runs
    <3> QED
      BY <1>1, <3>4, BeatAbides, CronAbides
  <2> QED
    BY <2>1, <2>2
<1>3. /\ UNCHANGED <<db, input>> /\ Apiece(r)
      /\ \A q \in Request : locks[<<"project">>] = q => locks'[<<"project">>] = q
  BY RunsFrame
<1> QED
  BY <1>2, <1>3, QuietStep DEF Abides, Apiece

\* At the start whoever holds files has the task.
StartsHeld == \A s \in Scenarios : \A d \in s.tables : \A t \in Task : Leased(d, t) # {} => Who(d, t) # {}

\* Nobody is finishing a task.
NobodyFinishes == \A r \in Request : ~Finishes(r)

(***************************************************************************)
(* On PostgreSQL no race of claims and drags leaves a task or a file to    *)
(* two people, however many there are and whatever heartbeats and the cron *)
(* do meanwhile, as long as nobody finishes a task: whoever has assigned   *)
(* locks the project before it looks for leases in its way, so it finds    *)
(* those of whoever won before.                                            *)
(***************************************************************************)
THEOREM LockedWinnersApart ==
    ASSUME OverlapMutual, StartsHeld
    PROVE  Spec => [](engine = "postgres" /\ NobodyFinishes => WinnersApart)
<1> DEFINE Going == engine = "postgres" /\ NobodyFinishes
<1>1. Init => (Going => Excluding)
  <2> SUFFICES ASSUME Init, NobodyFinishes PROVE Excluding
    OBVIOUS
  <2>1. \A r \in Request : /\ pc[r] = "begin" /\ joins[r] = FALSE /\ own[r] = NoRows /\ noted[r] = {}
    BY DEF Init
  <2>2. \A x : ~Won(x)
    BY <2>1 DEF Won
  <2>3. \A x \in Task : Leased(db, x) # {} => Held(x)
    BY DEF Init, StartsHeld, Held
  <2>4. \A r \in Request : OwnFits(r)
    BY <2>1, NothingWritten DEF OwnFits, OwnLeases
  <2>5. \A r \in Request : Progress(r)
    <3>1. \A r \in Request : ~Taking(r) /\ ~Assigning(r) /\ ~Unhindered(r) /\ ~Leasing(r)
      BY <2>1 DEF Taking, Assigning, Unhindered, Leasing, Settled
    <3> QED
      BY <2>1, <3>1 DEF Progress
  <2>6. \A x \in Task : Holding(x)
    BY <2>2, <2>3 DEF Holding
  <2> QED
    BY <2>2, <2>4, <2>5, <2>6 DEF Excluding, NobodyFinishes
<1>2. RaceTypeOK /\ (Going => Excluding) /\ [Next]_vars => (Going => Excluding)'
  <2> SUFFICES ASSUME RaceTypeOK, Going => Excluding, [Next]_vars
               PROVE  (Going => Excluding)'
    OBVIOUS
  <2>1. ASSUME NEW r \in Request, Step(r)
        PROVE  (Going => Excluding)'
    <3>1. engine' = engine /\ (NobodyFinishes' <=> NobodyFinishes)
      BY <2>1, EngineStays DEF NobodyFinishes, Finishes
    <3> SUFFICES ASSUME engine = "postgres", Excluding PROVE Excluding'
      BY <3>1
    <3>2. CASE Begin(r)
      BY <3>2, BeginExcludes
    <3>3. CASE End(r)
      BY <3>3, EndExcludes
    <3>4. CASE Abort(r)
      BY <3>4, AbortIsOpen, RefuseExcludes
    <3>5. CASE Runs(r) /\ Refuse(r)
      BY <3>5, RefuseExcludes
    <3>6. CASE Runs(r) /\ ~Refuse(r)
      BY <3>6, RunsExcludes
    <3> QED
      BY <2>1, <3>2, <3>3, <3>4, <3>5, <3>6 DEF Step, Runs
  <2>2. CASE UNCHANGED vars
    <3>1. UNCHANGED <<db, snapshot, behind, own, locks, engine, input, limit, pc, found, joins, holder, noted>>
      BY <2>2 DEF vars, database, request, reading
    <3>2. (Going' <=> Going)
      BY <3>1 DEF NobodyFinishes, Finishes
    <3> SUFFICES ASSUME Excluding PROVE Excluding'
      BY <3>2
    <3>3. CASE Request = {}
      BY <3>1, <3>3 DEF Excluding, Holding, Won, Held, Fitting, Disjoint
    <3>4. ASSUME NEW r \in Request PROVE Excluding'
      <4>1. WonFreely
        BY <3>1 DEF WonFreely, Won
      <4>2. SameOwn(r) /\ OwnFits(r) /\ Progress(r) /\ Newest(r)' = Newest(r)
        BY <3>1, OwnSame DEF Excluding, Newest
      <4>3. OwnFits(r)'
        BY <3>1, <4>1, <4>2, FitsOn DEF Progress, OwnFits
      <4>4. Progress(r)'
        <5>1. \A x \in Task : Held(x)' <=> Held(x)
          BY <3>1 DEF Held
        <5> QED
          BY <3>1, <4>1, <4>2, <5>1, ProgressOn
      <4> QED
        BY <3>1, <4>1, <4>3, <4>4, QuietStep
    <3> QED
      BY <3>3, <3>4
  <2> QED
    BY <2>1, <2>2 DEF Next
<1>3. RaceTypeOK /\ (Going => Excluding) /\ (engine = "postgres" => OneWinner) => (Going => WinnersApart)
  <2> SUFFICES ASSUME RaceTypeOK, Excluding, engine = "postgres", OneWinner PROVE WinnersExclusive
    BY DEF WinnersApart
  <2> SUFFICES ASSUME NEW t \in Task, NEW o \in Task, t # o, Won(t), Won(o), Collide(t, o)
               PROVE  FALSE
    BY DEF WinnersExclusive, Won
  <2>1. PICK u \in User, v \in User, p \in Pattern, q \in Pattern :
           /\ db[Lease(t, u, p)] # "none" /\ db[Lease(o, v, q)] # "none"
           /\ <<p, q>> \in Overlap
    BY DEF Collide
  <2>2. Lease(t, u, p) \in LeaseRows(t) /\ Lease(o, v, q) \in LeaseRows(o)
    BY DEF LeaseRows
  <2>3. Held(t) /\ Held(o) /\ Fitting(db, t) /\ Fitting(db, o)
    BY <2>1, <2>2 DEF Excluding, Holding, Leased
  <2>4. p \in ScopeOf[t] /\ q \in ScopeOf[o]
    <3>1. Lease(t, u, p) \in DOMAIN db /\ Lease(o, v, q) \in DOMAIN db
      BY <2>2, RowsAre DEF RaceTypeOK, IsTables
    <3> QED
      BY <2>1, <2>3, <3>1 DEF Fitting
  <2>5. Disjoint(t, o)
    BY <2>3 DEF Excluding
  <2> QED
    BY <2>1, <2>4, <2>5 DEF Disjoint
<1> QED
  BY <1>1, <1>2, <1>3, RaceTypeCorrect, PinnedOneWinner, PTL DEF Spec

-----------------------------------------------------------------------------
(* The snapshots of MySQL.                                                 *)

\* Every claim says that it expects its task in "todo".
NamesBucket == \A r \in Request : IsClaim(r) => input[r].expectsTodo

\* Whom a request saw assigned when it began.
Saw(r, x) == Who(snapshot[r], x)

\* Where a request can be that has assigned its caller.
Past(r) == pc[r] \in {"conflicts", "lease", "commit"} \/ (~IsClaim(r) /\ pc[r] \in {"flag", "move"})

\* What it has written: no card back into "todo", assignees of its task only, and by
\* its commit the place of a card it has assigned, whose row it has locked.
Tidy(r) ==
    /\ Working(r) /\ pc[r] \in Looking => own[r] = NoRows
    /\ Working(r) /\ ~IsClaim(r) /\ pc[r] = "room" => found[r] # "doing"
    /\ \A x \in Task : Bucket(x) \in DOMAIN own[r] => own[r][Bucket(x)] # "todo"
    /\ \A x \in Task, u \in User : Assigned(x, u) \in DOMAIN own[r] =>
          /\ x = input[r].task /\ Working(r) /\ Past(r)
          /\ ~IsClaim(r) /\ pc[r] = "commit" =>
                Bucket(x) \in DOMAIN own[r] /\ locks[Bucket(x)] = r

\* What a claim has of its row and of the assignees.
Claiming(r) ==
    IsClaim(r) =>
       LET t == input[r].task
           u == input[r].user
       IN  /\ Pinned(r)
           /\ pc[r] \in {"check"} \cup Settled /\ found[r] # "todo" => db[Bucket(t)] # "todo"
           /\ pc[r] \in Settled => /\ Saw(r, t) \subseteq {u}
                                   /\ u \in Saw(r, t) \/ (joins[r] /\ found[r] = "todo")
           /\ pc[r] \in {"assign", "conflicts", "lease", "commit"} /\ found[r] = "todo"
                 => Bucket(t) \in DOMAIN own[r]
           /\ pc[r] \in {"conflicts", "lease", "commit"} /\ joins[r]
                 => Assigned(t, u) \in DOMAIN own[r]

\* Nobody has been assigned to a task it found in "todo" since anybody began.
Fresh(r) ==
    IsClaim(r) /\ pc[r] \in {"check"} \cup Settled /\ found[r] = "todo" =>
       \A q \in Request : Open(q) => Saw(q, input[r].task) = Who(db, input[r].task)

\* Nobody is unassigned, and what is in "todo" has been there all along.
Sighting(q) ==
    Open(q) => \A x \in Task : /\ Saw(q, x) \subseteq Who(db, x)
                               /\ db[Bucket(x)] = "todo" => Saw(q, x) = Who(db, x)

\* Of two snapshots one is the older.
Ordered(q, p) ==
    Open(q) /\ Open(p) => \A x \in Task : Saw(q, x) \subseteq Saw(p, x) \/ Saw(p, x) \subseteq Saw(q, x)

\* Who began before a claim won saw nobody else.
Winning(w) ==
    IsClaim(w) /\ pc[w] = "committed" =>
       LET t == input[w].task
           u == input[w].user
       IN  /\ u \in Who(db, t)
           /\ \A q \in Request : Open(q) => u \in Saw(q, t) \/ Saw(q, t) \subseteq {u}

Recalling ==
    /\ \A r \in Request : Tidy(r) /\ Claiming(r) /\ Fresh(r) /\ Sighting(r) /\ Winning(r)
    /\ \A q, p \in Request : Ordered(q, p)
    /\ OneWinner

\* What statements write: no card goes back into "todo", and only Assign
\* assigns.
LEMMA StatementWrites ==
    ASSUME RaceTypeOK, NEW r \in Request, Runs(r), ~Refuse(r)
    PROVE  \/ Reads(r)
           \/ \E g : /\ Writes(r, g)
                     /\ \A x \in Task : Bucket(x) \in DOMAIN g => g[Bucket(x)] # "todo"
                     /\ \A x \in Task, u \in User : Assigned(x, u) \in DOMAIN g =>
                           pc[r] = "assign" /\ joins[r] /\ x = input[r].task
<1> DEFINE t == input[r].task
           Proper(g) == /\ \A x \in Task : Bucket(x) \in DOMAIN g => g[Bucket(x)] # "todo"
                        /\ \A x \in Task, u \in User : Assigned(x, u) \in DOMAIN g =>
                              pc[r] = "assign" /\ joins[r] /\ x = input[r].task
<1> HIDE DEF t
<1>1. CASE PinRow(r)
  BY <1>1, PinDoes
<1>2. CASE ReadRow(r)
  BY <1>2, RowDoes
<1>3. CASE CheckAssignees(r)
  BY <1>3, CheckDoes
<1>4. CASE CheckRoom(r)
  BY <1>4, RoomDoes
<1>5. CASE WriteFlag(r)
  <2>1. \A b : Proper(FlagRow(t, b))
    BY RowsApart DEF FlagRow
  <2>2. Reads(r) \/ \E b : Writes(r, FlagRow(t, b))
    BY <1>5, FlagDoes DEF t
  <2> QED
    BY <2>1, <2>2
<1>6. CASE MoveRow(r)
  <2>1. \A b : b # "todo" => Proper(PlaceRow(t, b))
    BY RowsApart DEF PlaceRow
  <2>2. \E b : b # "todo" /\ Writes(r, PlaceRow(t, b))
    BY <1>6, MoveDoes DEF t
  <2> QED
    BY <2>1, <2>2
<1>7. CASE Assign(r)
  <2>1. ASSUME pc[r] = "assign", joins[r], NEW w PROVE Proper(OwnerRow(t, w))
    <3> DEFINE g == OwnerRow(t, w)
    <3>1. \A x : Bucket(x) \notin DOMAIN g
      BY RowsApart DEF OwnerRow
    <3>2. \A x, u : Assigned(x, u) \in DOMAIN g => x = t
      BY RowsApart DEF OwnerRow
    <3> HIDE DEF g
    <3>3. Proper(g)
      BY <2>1, <3>1, <3>2 DEF t
    <3> QED
      BY <3>3 DEF g
  <2>2. \/ Reads(r)
        \/ pc[r] = "assign" /\ joins[r] /\ Writes(r, OwnerRow(t, input[r].user))
    BY <1>7, AssignDoes DEF t
  <2> QED
    BY <2>1, <2>2
<1>8. CASE CheckLeases(r)
  BY <1>8, ConflictsDoes
<1>9. ASSUME NEW x \in Task, NEW F, F \subseteq LeaseRows(x), Refills(r, x, F)
      PROVE  \E g : Writes(r, g) /\ Proper(g)
  <2> DEFINE g == Replaced(Leased(Newest(r), x), F)
  <2>1. DOMAIN g \subseteq LeaseRows(x)
    BY <1>9, ReplacesOnly
  <2>2. Writes(r, g)
    BY <1>9 DEF Refills
  <2> HIDE DEF g
  <2>3. Proper(g)
    BY <2>1, LeaseRowsApart
  <2> QED
    BY <2>2, <2>3
<1>10. CASE TakeLeases(r)
  <2>1. \/ Reads(r)
        \/ Refills(r, t, {Lease(t, holder[r], p) : p \in ScopeOf[t]})
    BY <1>10, LeaseDoes DEF t
  <2>2. {Lease(t, holder[r], p) : p \in ScopeOf[t]} \subseteq LeaseRows(t) /\ t \in Task
    BY InputTyped, RaceAssumption DEF LeaseRows, RaceAssumption, t
  <2> QED
    BY <1>9, <2>1, <2>2
<1>11. CASE FreeLeases(r)
  <2>1. Refills(r, t, {}) /\ t \in Task
    BY <1>11, FreeDoes, InputTyped DEF t
  <2> QED
    BY <1>9, <2>1
<1>12. CASE CountOpen(r)
  BY <1>12, CountDoes
<1>13. CASE CloseParent(r)
  <2>1. \A q \in Task : Proper(ClosedRows(q))
    BY RowsApart DEF ClosedRows
  <2>2. Reads(r) \/ \E q \in Task : Writes(r, ClosedRows(q))
    BY <1>13, CloseDoes, InputTyped
  <2> QED
    BY <2>1, <2>2
<1>14. CASE LockView(r)
  BY <1>14, ViewDoes
<1>15. CASE Heartbeat(r)
  <2> DEFINE there == Leased(Newest(r), t)
  <2>1. Reads(r) \/ Writes(r, BeatRows(there))
    BY <1>15, BeatDoes DEF t
  <2>2. there \subseteq LeaseRows(t)
    BY DEF Leased
  <2> HIDE DEF there
  <2>3. Proper(BeatRows(there))
    BY <2>2, LeaseRowsApart DEF BeatRows
  <2> QED
    BY <2>1, <2>3
<1>16. CASE SelectOverdue(r)
  BY <1>16, SelectDoes
<1>17. CASE DropOverdue(r)
  <2>1. Reads(r) \/ \E x \in Task : Refills(r, x, {})
    BY <1>17, DropDoes, InputTyped
  <2> QED
    BY <1>9, <2>1
<1> QED
  BY <1>1, <1>2, <1>3, <1>4, <1>5, <1>6, <1>7, <1>8, <1>10, <1>11, <1>12, <1>13, <1>14, <1>15,
     <1>16, <1>17 DEF Runs

\* Before it has assigned, a request sees the assignees of its snapshot.
LEMMA SeesSaw ==
    ASSUME RaceTypeOK, engine = "mysql", NEW r \in Request, Open(r), Tidy(r), ~Past(r), NEW x \in Task
    PROVE  Who(Sees(r), x) = Saw(r, x)
<1>1. \A y \in Task, u \in User : Assigned(y, u) \notin DOMAIN own[r]
  BY DEF Tidy
<1>2. IsTables(snapshot[r]) /\ Sees(r) = Over(snapshot[r], own[r])
  BY DEF RaceTypeOK, Sees
<1> QED
  BY <1>1, <1>2, Unwritten DEF SameOwners, Saw

\* Others go on as they are.
LEMMA OthersRecall ==
    ASSUME RaceTypeOK, NEW q \in Request, Tidy(q), Claiming(q), UNCHANGED input,
           own'[q] = own[q], pc'[q] = pc[q], joins'[q] = joins[q], found'[q] = found[q],
           snapshot'[q] = snapshot[q],
           \A k \in Lockable : locks[k] = q => locks'[k] = q,
           \A x \in Task : db[Bucket(x)] # "todo" => db'[Bucket(x)] # "todo"
    PROVE  Tidy(q)' /\ Claiming(q)'
<1>0. /\ (Working(q)' <=> Working(q)) /\ (IsClaim(q)' <=> IsClaim(q)) /\ (Past(q)' <=> Past(q))
      /\ \A x \in Task : Bucket(x) \in Lockable
      /\ input[q].task \in Task /\ input[q].user \in User
  BY InputTyped DEF Working, IsClaim, Past, Lockable, Bucket
<1>1. Tidy(q)'
  BY <1>0 DEF Tidy
<1>2. ASSUME IsClaim(q) PROVE Pinned(q)'
  BY <1>0, <1>2 DEF Claiming, Pinned
<1>3. \A x : Saw(q, x)' = Saw(q, x)
  BY DEF Saw
<1>4. Claiming(q)'
  BY <1>0, <1>2, <1>3 DEF Claiming, Saw
<1> QED
  BY <1>1, <1>4

\* A step that commits nothing keeps what is recalled, if it keeps what
\* its request has.
LEMMA QuietRecall ==
    ASSUME RaceTypeOK, Recalling, NEW r \in Request, UNCHANGED <<db, input>>,
           \A q \in Request \ {r} :
              /\ own'[q] = own[q] /\ pc'[q] = pc[q] /\ joins'[q] = joins[q]
              /\ found'[q] = found[q] /\ snapshot'[q] = snapshot[q]
              /\ \A k \in Lockable : locks[k] = q => locks'[k] = q,
           Open(r)' => (Open(r) /\ snapshot'[r] = snapshot[r]) \/ snapshot'[r] = db,
           IsClaim(r) /\ pc'[r] = "committed" => pc[r] = "committed",
           Tidy(r)', Claiming(r)', Fresh(r)'
    PROVE  Recalling'
<1>0. /\ \A q \in Request : IsClaim(q)' <=> IsClaim(q)
      /\ \A q \in Request \ {r} : Open(q)' <=> Open(q)
      /\ \A q \in Request : Open(q)' => \/ Open(q) /\ (\A x : Saw(q, x)' = Saw(q, x))
                                        \/ \A x : Saw(q, x)' = Who(db, x)
      /\ \A q \in Request : input[q].task \in Task /\ input[q].user \in User
      /\ \A q \in Request : Tidy(q) /\ Claiming(q) /\ Fresh(q) /\ Sighting(q) /\ Winning(q)
  BY InputTyped DEF IsClaim, Open, Saw, Recalling
<1>1. \A q \in Request \ {r} : Tidy(q)' /\ Claiming(q)'
  BY <1>0, OthersRecall
<1>2. \A q \in Request \ {r} : Fresh(q)'
  <2> SUFFICES ASSUME NEW q \in Request \ {r}, IsClaim(q)', pc'[q] \in {"check"} \cup Settled,
                      found'[q] = "todo", NEW p \in Request, Open(p)'
               PROVE  Saw(p, input[q].task)' = Who(db, input[q].task)
    BY DEF Fresh
  <2>1. Open(p) => Saw(p, input[q].task) = Who(db, input[q].task)
    BY <1>0 DEF Fresh
  <2> QED
    BY <1>0, <2>1
<1>3. \A q \in Request : Sighting(q)'
  <2> SUFFICES ASSUME NEW q \in Request, Open(q)', NEW x \in Task
               PROVE  /\ Saw(q, x)' \subseteq Who(db, x)
                      /\ db[Bucket(x)] = "todo" => Saw(q, x)' = Who(db, x)
    BY DEF Sighting
  <2> QED
    BY <1>0 DEF Sighting
<1>4. \A q, p \in Request : Ordered(q, p)'
  <2> SUFFICES ASSUME NEW q \in Request, NEW p \in Request, Open(q)', Open(p)', NEW x \in Task
               PROVE  Saw(q, x)' \subseteq Saw(p, x)' \/ Saw(p, x)' \subseteq Saw(q, x)'
    BY DEF Ordered
  <2>1. Open(q) /\ Open(p) => Saw(q, x) \subseteq Saw(p, x) \/ Saw(p, x) \subseteq Saw(q, x)
    BY DEF Recalling, Ordered
  <2>2. /\ Open(q) => Saw(q, x) \subseteq Who(db, x)
        /\ Open(p) => Saw(p, x) \subseteq Who(db, x)
    BY <1>0 DEF Sighting
  <2> QED
    BY <1>0, <2>1, <2>2
<1>5. \A w \in Request : Winning(w)'
  <2> SUFFICES ASSUME NEW w \in Request, IsClaim(w), pc'[w] = "committed"
               PROVE  /\ input[w].user \in Who(db, input[w].task)
                      /\ \A q \in Request : Open(q)' =>
                            \/ input[w].user \in Saw(q, input[w].task)'
                            \/ Saw(q, input[w].task)' \subseteq {input[w].user}
    BY <1>0 DEF Winning
  <2>1. pc[w] = "committed"
    OBVIOUS
  <2>2. /\ input[w].user \in Who(db, input[w].task)
        /\ \A q \in Request : Open(q) => \/ input[w].user \in Saw(q, input[w].task)
                                         \/ Saw(q, input[w].task) \subseteq {input[w].user}
    BY <1>0, <2>1 DEF Winning
  <2> QED
    BY <1>0, <2>2
<1>6. OneWinner'
  <2>1. OneWinner
    BY DEF Recalling
  <2> QED
    BY <1>0, <2>1 DEF OneWinner, IsClaim
<1> QED
  BY <1>1, <1>2, <1>3, <1>4, <1>5, <1>6 DEF Recalling

\* What statements write is tidy, and what has been written stays there.
LEMMA RunsTidy ==
    ASSUME RaceTypeOK, engine = "mysql", NEW r \in Request, Runs(r), ~Refuse(r), Tidy(r)
    PROVE  /\ DOMAIN own[r] \subseteq DOMAIN own'[r]
           /\ Tidy(r)'
<1>0. /\ UNCHANGED input /\ (Working(r)' <=> Working(r)) /\ (IsClaim(r)' <=> IsClaim(r))
      /\ input[r].task \in Task /\ Bucket(input[r].task) \in Lockable /\ DOMAIN locks = Lockable
  BY RunsFrame, InputTyped DEF Working, IsClaim, Lockable, Bucket, RaceTypeOK
<1>1. /\ DOMAIN own[r] \subseteq DOMAIN own'[r]
      /\ \A x \in Task : Bucket(x) \in DOMAIN own'[r] => own'[r][Bucket(x)] # "todo"
      /\ \A x \in Task, u \in User : Assigned(x, u) \in DOMAIN own'[r] =>
            \/ Assigned(x, u) \in DOMAIN own[r]
            \/ pc[r] = "assign" /\ x = input[r].task
  <2>1. CASE Reads(r)
    BY <2>1 DEF Reads, Tidy
  <2>2. ASSUME NEW g, Writes(r, g),
               \A x \in Task : Bucket(x) \in DOMAIN g => g[Bucket(x)] # "todo",
               \A x \in Task, u \in User : Assigned(x, u) \in DOMAIN g =>
                  pc[r] = "assign" /\ joins[r] /\ x = input[r].task
        PROVE  /\ DOMAIN own[r] \subseteq DOMAIN own'[r]
               /\ \A x \in Task : Bucket(x) \in DOMAIN own'[r] => own'[r][Bucket(x)] # "todo"
               /\ \A x \in Task, u \in User : Assigned(x, u) \in DOMAIN own'[r] =>
                     \/ Assigned(x, u) \in DOMAIN own[r]
                     \/ pc[r] = "assign" /\ x = input[r].task
    <3>1. own'[r] = Over(own[r], g)
      BY <2>2 DEF Writes, RaceTypeOK
    <3>2. /\ DOMAIN own'[r] = DOMAIN own[r] \cup DOMAIN g
          /\ \A k \in DOMAIN own'[r] : own'[r][k] = IF k \in DOMAIN g THEN g[k] ELSE own[r][k]
      BY ONLY <3>1 DEF Over
    <3>3. \A x \in Task : Bucket(x) \in DOMAIN own[r] => own[r][Bucket(x)] # "todo"
      BY DEF Tidy
    <3>4. ASSUME NEW x \in Task, Bucket(x) \in DOMAIN own'[r]
          PROVE  own'[r][Bucket(x)] # "todo"
      BY <2>2, <3>2, <3>3, <3>4
    <3>5. ASSUME NEW x \in Task, NEW u \in User, Assigned(x, u) \in DOMAIN own'[r]
          PROVE  \/ Assigned(x, u) \in DOMAIN own[r]
                 \/ pc[r] = "assign" /\ x = input[r].task
      BY <2>2, <3>2, <3>5
    <3>6. DOMAIN own[r] \subseteq DOMAIN own'[r]
      BY <3>2
    <3> QED
      BY ONLY <3>4, <3>5, <3>6
  <2> QED
    BY <2>1, <2>2, StatementWrites
<1>2. CASE ~Working(r)
  <2>1. \A x \in Task, u \in User : Assigned(x, u) \notin DOMAIN own'[r]
    BY <1>1, <1>2, LineKinds DEF Tidy, Working
  <2> QED
    BY <1>0, <1>1, <1>2, <2>1 DEF Tidy
<1>3. CASE Working(r)
  <2>0. Advances(r)
    BY <1>3, TakeGoes
  <2>1. pc'[r] \in Looking => pc[r] \in Looking /\ Reads(r)
    BY <2>0 DEF Advances, Looking
  <2>2. Past(r) \/ pc[r] = "assign" => Past(r)'
    BY <1>0, <2>0 DEF Advances, Past
  <2>3. ASSUME ~IsClaim(r), pc'[r] = "commit"
        PROVE  \/ own'[r] = NoRows
               \/ Bucket(input[r].task) \in DOMAIN own'[r] /\ locks'[Bucket(input[r].task)] = r
    <3>1. CASE pc[r] = "row" /\ Reads(r)
      <4>1. own[r] = NoRows
        BY <1>3, <3>1 DEF Tidy, Looking
      <4> QED
        BY <3>1, <4>1 DEF Reads
    <3>2. CASE Writes(r, PlaceRow(input[r].task, "doing")) /\ Lock(r, Bucket(input[r].task))
      <4>1. own'[r] = Over(own[r], PlaceRow(input[r].task, "doing"))
        BY <3>2 DEF Writes, RaceTypeOK
      <4>2. Bucket(input[r].task) \in DOMAIN own'[r]
        BY ONLY <4>1 DEF Over, PlaceRow
      <4>3. locks'[Bucket(input[r].task)] = r
        BY <1>0, <3>2 DEF Lock, LockFor
      <4> QED
        BY <4>2, <4>3
    <3>3. pc[r] # "room"
      BY <1>3, <2>0, <2>3 DEF Advances, Tidy
    <3> QED
      BY <2>0, <2>3, <3>1, <3>2, <3>3 DEF Advances
  <2>4. pc'[r] \in Looking => own'[r] = NoRows
    BY <1>3, <2>1 DEF Tidy, Reads
  <2>6. ~IsClaim(r) /\ pc'[r] = "room" => found'[r] # "doing"
    BY <1>3, <2>0 DEF Advances, Tidy
  <2>5. ASSUME NEW x \in Task, NEW u \in User, Assigned(x, u) \in DOMAIN own'[r]
        PROVE  /\ x = input[r].task /\ Past(r)'
               /\ ~IsClaim(r) /\ pc'[r] = "commit" =>
                     Bucket(x) \in DOMAIN own'[r] /\ locks'[Bucket(x)] = r
    <3>1. x = input[r].task /\ Past(r)'
      BY <1>1, <2>2, <2>5 DEF Tidy
    <3>2. own'[r] # NoRows
      BY <2>5, NothingWritten
    <3> QED
      BY <2>3, <3>1, <3>2
  <2> QED
    BY <1>0, <1>1, <1>3, <2>4, <2>5, <2>6 DEF Tidy
<1> QED
  BY <1>1, <1>2, <1>3

\* A claim sees to its lock, its place and its assignee, and knows from
\* its row whether anybody has been assigned.
LEMMA ClaimRecalls ==
    ASSUME RaceTypeOK, engine = "mysql", NamesBucket, Recalling, NEW r \in Request, IsClaim(r),
           Runs(r), ~Refuse(r)
    PROVE  Claiming(r)' /\ Fresh(r)' /\ pc'[r] # "committed"
<1> DEFINE t == input[r].task
           u == input[r].user
<1>0. /\ Open(r) /\ UNCHANGED <<db, input>> /\ Apiece(r) /\ Working(r) /\ IsClaim(r)'
      /\ t \in Task /\ u \in User /\ Bucket(t) \in Lockable /\ DOMAIN locks = Lockable
      /\ Nobody \notin Request /\ joins[r] \in BOOLEAN /\ IsTables(db)
      /\ input[r].expectsTodo = TRUE
  BY RunsFrame, InputTyped, RaceAssumption
     DEF Working, IsClaim, Lockable, Bucket, RaceTypeOK, RaceAssumption, NamesBucket
<1>1. /\ KeepsLocks /\ DOMAIN own[r] \subseteq DOMAIN own'[r] /\ Tidy(r) /\ Claiming(r) /\ Fresh(r)
      /\ \A q \in Request : Sighting(q)
  BY RunsLocks, RunsTidy DEF Recalling
<1>2. Advances(r)
  BY <1>0, TakeGoes
<1>3. /\ snapshot'[r] = snapshot[r] /\ snapshot' = snapshot
      /\ \A q, x : Saw(q, x)' = Saw(q, x)
      /\ \A q \in Request \ {r} : pc'[q] = pc[q]
  <2>1. snapshot' = snapshot
    BY RunsDoes DEF Reads, Writes
  <2> QED
    BY <1>0, <2>1 DEF Saw, Apiece
<1>4. pc[r] \in {"check"} \cup Settled => locks'[Bucket(t)] = r
  BY <1>0, <1>1 DEF KeepsLocks, Claiming, Pinned, t
<1> HIDE DEF t, u
<1>5. Fresh(r)' /\ (pc'[r] # "begin" /\ pc'[r] \notin Ended)
  <2>0. pc'[r] # "begin" /\ pc'[r] \notin Ended
    BY <1>0, <1>2 DEF Advances, Ended
  <2>1. \A q \in Request : Open(q)' <=> Open(q)
    BY <1>0, <1>3, <2>0 DEF Open, Ended
  <2>2. CASE pc[r] = "row"
    <3>1. PinRow(r) /\ own[r] = NoRows
      BY <1>0, <1>1, <1>2, <2>2 DEF Advances, Tidy, Looking
    <3>2. found'[r] = Newest(r)[Bucket(t)]
      BY <3>1, <1>0 DEF PinRow, RaceTypeOK, t
    <3>3. Newest(r) = db
      BY <1>0, <3>1, NothingWritten DEF Newest
    <3>4. found'[r] = "todo" => \A q \in Request : Open(q) => Saw(q, t) = Who(db, t)
      BY <1>0, <1>1, <3>2, <3>3 DEF Sighting
    <3> QED
      BY <1>0, <1>3, <2>0, <2>1, <3>4 DEF Fresh, t
  <2>3. CASE pc[r] # "row"
    <3>1. pc[r] \in {"check"} \cup Settled /\ found'[r] = found[r]
      BY <1>0, <1>2, <2>3 DEF Advances, Settled
    <3> QED
      BY <1>0, <1>1, <1>3, <2>0, <2>1, <3>1 DEF Fresh
  <2> QED
    BY <2>2, <2>3
<1>6. ASSUME locks'[Bucket(t)] = r,
             pc'[r] \in {"check"} \cup Settled /\ found'[r] # "todo" => db[Bucket(t)] # "todo",
             pc'[r] \in Settled => /\ Saw(r, t) \subseteq {u}
                                   /\ u \in Saw(r, t) \/ (joins'[r] /\ found'[r] = "todo"),
             pc'[r] \in {"assign", "conflicts", "lease", "commit"} /\ found'[r] = "todo"
                => Bucket(t) \in DOMAIN own'[r],
             pc'[r] \in {"conflicts", "lease", "commit"} /\ joins'[r]
                => Assigned(t, u) \in DOMAIN own'[r]
      PROVE  Claiming(r)'
  <2>1. Pinned(r)'
    BY <1>0, <1>6 DEF Pinned, t
  <2>2. input'[r].task = t /\ input'[r].user = u
    BY <1>0 DEF t, u
  <2>3. (pc[r] \in {"check"} \cup Settled /\ found[r] # "todo" => db[Bucket(input[r].task)] # "todo")'
    BY <1>0, <1>6, <2>2
  <2>4. (pc[r] \in Settled => Saw(r, input[r].task) \subseteq {input[r].user})'
    BY <1>3, <1>6, <2>2 DEF Saw
  <2>5. (pc[r] \in Settled => \/ input[r].user \in Saw(r, input[r].task)
                              \/ joins[r] /\ found[r] = "todo")'
    BY <1>3, <1>6, <2>2 DEF Saw
  <2>6. (pc[r] \in {"assign", "conflicts", "lease", "commit"} /\ found[r] = "todo"
                => Bucket(input[r].task) \in DOMAIN own[r])'
    BY <1>6, <2>2
  <2>7. (pc[r] \in {"conflicts", "lease", "commit"} /\ joins[r]
                => Assigned(input[r].task, input[r].user) \in DOMAIN own[r])'
    BY <1>6, <2>2
  <2> QED
    BY ONLY <2>1, <2>3, <2>4, <2>5, <2>6, <2>7 DEF Claiming
<1>7. Claiming(r)'
  <2>1. CASE pc[r] = "row"
    <3>1. PinRow(r) /\ own[r] = NoRows /\ pc'[r] = "check"
      BY <1>0, <1>1, <1>2, <2>1 DEF Advances, Tidy, Looking
    <3>2. found'[r] = Newest(r)[Bucket(t)]
      BY <3>1, <1>0 DEF PinRow, RaceTypeOK, t
    <3>3. Newest(r) = db
      BY <1>0, <3>1, NothingWritten DEF Newest
    <3>4. locks'[Bucket(t)] = r
      <4>1. Lock(r, Bucket(t))
        BY <3>1 DEF PinRow, LockOnly, t
      <4> QED
        BY <1>0, <4>1 DEF Lock, LockFor
    <3> QED
      BY <1>6, <3>1, <3>2, <3>3, <3>4 DEF Settled
  <2>2. CASE pc[r] = "check"
    <3>1. /\ pc'[r] = "room" /\ found'[r] = found[r] /\ Acceptable(r, Who(Sees(r), t))
          /\ joins'[r] <=> Who(Sees(r), t) = {}
      BY <1>0, <1>2, <2>2 DEF Advances, t
    <3>2. Who(Sees(r), t) = Saw(r, t)
      BY <1>0, <1>1, <2>2, SeesSaw DEF Past
    <3>3. /\ Saw(r, t) \subseteq {u}
          /\ u \notin Saw(r, t) => found[r] = "todo"
      BY <1>0, <3>1, <3>2 DEF Acceptable, IsClaim, u
    <3>4. u \in Saw(r, t) \/ (joins'[r] /\ found'[r] = "todo")
      BY <3>1, <3>2, <3>3
    <3>5. found'[r] # "todo" => db[Bucket(t)] # "todo"
      BY <1>0, <1>1, <2>2, <3>1 DEF Claiming, t
    <3> QED
      BY <1>4, <1>6, <2>2, <3>1, <3>3, <3>4, <3>5
  <2>3. CASE pc[r] \in Settled
    <3>1. /\ found'[r] = found[r] /\ joins'[r] = joins[r]
          /\ \/ /\ pc[r] = "room" /\ (pc'[r] = "flag" \/ (pc'[r] = "assign" /\ found[r] = "doing"))
             \/ pc[r] = "flag" /\ pc'[r] = "move"
             \/ pc[r] = "move" /\ pc'[r] = "assign" /\ Writes(r, PlaceRow(t, "doing"))
             \/ /\ pc[r] = "assign" /\ pc'[r] = "conflicts"
                /\ joins[r] => Writes(r, OwnerRow(t, u))
             \/ pc[r] = "conflicts" /\ pc'[r] = "lease"
             \/ pc[r] = "lease" /\ pc'[r] = "commit"
      BY <1>0, <1>2, <2>3 DEF Advances, Settled, t, u
    <3>2. pc'[r] \in Settled
      BY <3>1 DEF Settled
    <3>3. \A g : Writes(r, g) => DOMAIN g \subseteq DOMAIN own'[r]
      <4> SUFFICES ASSUME NEW g, Writes(r, g) PROVE DOMAIN g \subseteq DOMAIN own'[r]
        OBVIOUS
      <4>1. own'[r] = Over(own[r], g)
        BY DEF Writes, RaceTypeOK
      <4> QED
        BY ONLY <4>1 DEF Over
    <3>4. pc'[r] \in {"assign", "conflicts", "lease", "commit"} /\ found'[r] = "todo"
             => Bucket(t) \in DOMAIN own'[r]
      <4>1. CASE pc[r] = "move"
        <5>1. Bucket(t) \in DOMAIN PlaceRow(t, "doing")
          BY DEF PlaceRow
        <5> QED
          BY <3>1, <3>3, <4>1, <5>1
      <4>2. CASE pc[r] # "move"
        BY <1>0, <1>1, <3>1, <4>2 DEF Claiming, t
      <4> QED
        BY <4>1, <4>2
    <3>5. pc'[r] \in {"conflicts", "lease", "commit"} /\ joins'[r]
             => Assigned(t, u) \in DOMAIN own'[r]
      <4>1. CASE pc[r] = "assign"
        <5>1. Assigned(t, u) \in DOMAIN OwnerRow(t, u)
          BY DEF OwnerRow
        <5> QED
          BY <3>1, <3>3, <4>1, <5>1
      <4>2. CASE pc[r] # "assign"
        BY <1>0, <1>1, <3>1, <4>2 DEF Claiming, t, u
      <4> QED
        BY <4>1, <4>2
    <3>6. /\ found[r] # "todo" => db[Bucket(t)] # "todo"
          /\ Saw(r, t) \subseteq {u}
          /\ u \in Saw(r, t) \/ (joins[r] /\ found[r] = "todo")
      BY <1>0, <1>1, <2>3 DEF Claiming, t, u
    <3> QED
      BY <1>4, <1>6, <2>3, <3>1, <3>4, <3>5, <3>6
  <2> QED
    BY <1>2, <2>1, <2>2, <2>3 DEF Advances, Settled
<1> QED
  BY <1>5, <1>7 DEF Ended

\* Every statement keeps what is recalled.
LEMMA RunsRecalls ==
    ASSUME RaceTypeOK, engine = "mysql", NamesBucket, Recalling, NEW r \in Request, Runs(r), ~Refuse(r)
    PROVE  Recalling'
<1>1. /\ Open(r) /\ UNCHANGED <<db, input>> /\ Apiece(r) /\ (IsClaim(r)' <=> IsClaim(r))
  BY RunsFrame DEF IsClaim
<1>2. snapshot'[r] = snapshot[r]
  BY RunsDoes DEF Reads, Writes
<1>3. Tidy(r)'
  BY RunsTidy DEF Recalling
<1>4. Claiming(r)' /\ Fresh(r)' /\ (IsClaim(r) => pc'[r] # "committed")
  <2>1. CASE IsClaim(r)
    BY <2>1, ClaimRecalls
  <2>2. CASE ~IsClaim(r)
    BY <1>1, <2>2 DEF Claiming, Fresh
  <2> QED
    BY <2>1, <2>2
<1>5. \A q \in Request \ {r} : \A k \in Lockable : locks[k] = q => locks'[k] = q
  BY RunsBeyond DEF Beyond
<1> QED
  BY <1>1, <1>2, <1>3, <1>4, <1>5, QuietRecall DEF Apiece

\* So does turning a request away.
LEMMA RefuseRecalls ==
    ASSUME RaceTypeOK, Recalling, NEW r \in Request, Refuse(r)
    PROVE  Recalling'
<1>1. /\ pc' = [pc EXCEPT ![r] = "refused"] /\ own' = [own EXCEPT ![r] = NoRows]
      /\ snapshot' = [snapshot EXCEPT ![r] = NoRows]
      /\ locks' = Unlocked(r) /\ UNCHANGED <<db, input, joins, found>>
  BY DEF Refuse, Goto, Rollback, request, reading
<1>2. /\ pc'[r] = "refused" /\ own'[r] = NoRows
      /\ \A q \in Request \ {r} : pc'[q] = pc[q] /\ own'[q] = own[q] /\ snapshot'[q] = snapshot[q]
  BY <1>1 DEF RaceTypeOK
<1>3. Tidy(r)' /\ Claiming(r)' /\ Fresh(r)'
  BY <1>2, NothingWritten DEF Tidy, Claiming, Fresh, Pinned, Settled, Looking
<1>4. \A q \in Request \ {r} : \A k \in Lockable : locks[k] = q => locks'[k] = q
  BY <1>1, UnlockedKeeps
<1> QED
  BY <1>1, <1>2, <1>3, <1>4, QuietRecall DEF Open

\* And beginning: whoever begins sees what is committed.
LEMMA BeginRecalls ==
    ASSUME RaceTypeOK, engine = "mysql", Recalling, NEW r \in Request, Begin(r)
    PROVE  Recalling'
<1>1. pc[r] = "begin" /\ UNCHANGED <<input, joins, found, db, own, locks>>
  BY BeginDoes DEF request, reading, BeginTransaction, database
<1>2. PICK l : Moved(r, l) /\ (l = "committed" \/ l = Order[input[r].kind]["begin"])
  BY BeginDoes
<1>3. pc'[r] = l /\ \A q \in Request \ {r} : pc'[q] = pc[q]
  BY <1>2, MovedLines
<1>4. /\ \A q \in Request \ {r} : snapshot'[q] = snapshot[q]
      /\ Open(r)' => snapshot'[r] = db
  <2>1. CASE Moved(r, "committed") /\ UNCHANGED database
    <3>1. ~Open(r)'
      BY <2>1, MovedLines DEF Open
    <3> QED
      BY <2>1, <3>1 DEF database, RaceTypeOK
  <2>2. CASE BeginTransaction(r)
    BY <2>2 DEF BeginTransaction, RaceTypeOK
  <2> QED
    BY <2>1, <2>2, BeginDoes
<1>5. IsClaim(r) \/ Working(r) => pc'[r] = "row"
  <2>1. IsClaim(r) \/ Working(r) => ~Goto(r, "committed")
    <3> SUFFICES ASSUME Working(r) \/ IsClaim(r), Goto(r, "committed") PROVE FALSE
      OBVIOUS
    <3>1. Proceed(r) /\ input[r].kind \in {"claim", "drag"}
      BY DEF Begin, IsClaim, Working
    <3>2. Goto(r, "row")
      BY <1>1, <3>1, OrderIs DEF Proceed
    <3> QED
      BY <3>2 DEF Goto, RaceTypeOK
  <2> QED
    BY <1>2, <1>3, <2>1, OrderIs DEF IsClaim, Working, Moved
<1>6. Tidy(r)' /\ Claiming(r)' /\ Fresh(r)'
  <2>1. Tidy(r) /\ (IsClaim(r)' <=> IsClaim(r)) /\ (Working(r)' <=> Working(r))
    BY <1>1 DEF Recalling, IsClaim, Working
  <2>2. \A x \in Task, u \in User : Assigned(x, u) \notin DOMAIN own[r]
    BY <1>1, <2>1 DEF Tidy, Past
  <2>3. Tidy(r)'
    BY <1>1, <1>5, <2>1, <2>2 DEF Tidy, Looking
  <2> QED
    BY <1>5, <2>1, <2>3 DEF Claiming, Fresh, Pinned, Settled
<1> QED
  BY <1>1, <1>3, <1>4, <1>5, <1>6, QuietRecall DEF Open

\* So is committing.  Whoever has assigned has the row of the task locked,
\* and takes the card out of "todo" with it: nobody who has found the card
\* there is overtaken.  And the winner before is seen by whoever commits,
\* or it would not have found the task acceptable.
LEMMA EndRecalls ==
    ASSUME RaceTypeOK, Recalling, NEW r \in Request, End(r)
    PROVE  Recalling'
<1> DEFINE t == input[r].task
           u == input[r].user
<1>1. /\ pc[r] = "commit" /\ pc' = [pc EXCEPT ![r] = "committed"]
      /\ own' = [own EXCEPT ![r] = NoRows] /\ snapshot' = [snapshot EXCEPT ![r] = NoRows]
      /\ db' = Over(db, own[r]) /\ locks' = Unlocked(r) /\ UNCHANGED <<input, joins, found>>
  BY DEF End, Goto, Commit, Newest, request, reading
<1>2. /\ pc'[r] = "committed" /\ own'[r] = NoRows
      /\ \A q \in Request \ {r} : pc'[q] = pc[q] /\ own'[q] = own[q] /\ snapshot'[q] = snapshot[q]
  BY <1>1 DEF RaceTypeOK
<1>3. /\ IsTables(db) /\ IsPart(own[r]) /\ t \in Task /\ u \in User /\ Open(r)
      /\ \A q \in Request : /\ Tidy(q) /\ Claiming(q) /\ Fresh(q) /\ Sighting(q) /\ Winning(q)
                            /\ input[q].task \in Task /\ input[q].user \in User
      /\ \A q, p \in Request : Ordered(q, p)
      /\ OneWinner
  BY <1>1, InputTyped DEF RaceTypeOK, Open, Recalling
<1>4. /\ \A q \in Request : IsClaim(q)' <=> IsClaim(q)
      /\ ~Open(r)' /\ \A q \in Request \ {r} : Open(q)' <=> Open(q)
      /\ \A q \in Request \ {r} : \A x : Saw(q, x)' = Saw(q, x)
  BY <1>1, <1>2 DEF IsClaim, Open, Saw
<1>5. IsClaim(r) =>
         /\ locks[Bucket(t)] = r
         /\ found[r] # "todo" => db[Bucket(t)] # "todo"
         /\ Saw(r, t) \subseteq {u}
         /\ u \in Saw(r, t) \/ (joins[r] /\ found[r] = "todo")
         /\ found[r] = "todo" => Bucket(t) \in DOMAIN own[r]
         /\ joins[r] => Assigned(t, u) \in DOMAIN own[r]
  BY <1>1, <1>3 DEF Claiming, Pinned, Settled
<1> HIDE DEF t, u
<1>6. \A x \in Task : /\ Who(db, x) \subseteq Who(db', x)
                      /\ (\A w \in User : Assigned(x, w) \notin DOMAIN own[r]) => Who(db', x) = Who(db, x)
  <2> TAKE x \in Task
  <2>1. Who(db, x) \subseteq Who(db', x)
    BY <1>1, <1>3, OwnersStay
  <2>2. \A w \in Who(db', x) : w \in User /\ (w \in Who(db, x) \/ Assigned(x, w) \in DOMAIN own[r])
    BY <1>1, <1>3, WrittenOver DEF Who
  <2> QED
    BY <2>1, <2>2
<1>7. ASSUME NEW x \in Task, NEW w \in User, Assigned(x, w) \in DOMAIN own[r]
      PROVE  /\ x = t /\ locks[Bucket(x)] = r
             /\ Bucket(x) \in DOMAIN own[r] \/ db[Bucket(x)] # "todo"
  <2>1. x = t
    BY <1>3, <1>7 DEF Tidy, t
  <2>2. CASE IsClaim(r)
    BY <1>5, <2>1, <2>2
  <2>3. CASE ~IsClaim(r)
    <3>1. Tidy(r) /\ pc[r] = "commit"
      BY <1>1, <1>3
    <3>2. Bucket(x) \in DOMAIN own[r] /\ locks[Bucket(x)] = r
      BY ONLY <1>7, <2>3, <3>1 DEF Tidy
    <3> QED
      BY <2>1, <3>2
  <2> QED
    BY <2>1, <2>2, <2>3
<1>8. ASSUME NEW x \in Task
      PROVE  /\ db[Bucket(x)] # "todo" => db'[Bucket(x)] # "todo"
             /\ Bucket(x) \in DOMAIN own[r] => db'[Bucket(x)] # "todo"
  <2>1. Bucket(x) \in DOMAIN db
    BY <1>3, RowsAre DEF IsTables
  <2>2. db'[Bucket(x)] = IF Bucket(x) \in DOMAIN own[r] THEN own[r][Bucket(x)] ELSE db[Bucket(x)]
    <3>1. \A k \in DOMAIN db \cup DOMAIN own[r] :
             Over(db, own[r])[k] = IF k \in DOMAIN own[r] THEN own[r][k] ELSE db[k]
      BY OverRows
    <3> QED
      BY <1>1, <2>1, <3>1
  <2>3. Bucket(x) \in DOMAIN own[r] => own[r][Bucket(x)] # "todo"
    BY <1>3 DEF Tidy
  <2> QED
    BY <2>2, <2>3
<1>9. ASSUME NEW x \in Task, db'[Bucket(x)] = "todo"
      PROVE  db[Bucket(x)] = "todo" /\ Who(db', x) = Who(db, x)
  <2>1. db[Bucket(x)] = "todo" /\ Bucket(x) \notin DOMAIN own[r]
    BY <1>8, <1>9
  <2> QED
    BY <1>6, <1>7, <2>1
<1>10. ASSUME NEW q \in Request
       PROVE  Tidy(q)' /\ Claiming(q)'
  <2>1. CASE q = r
    BY <1>2, <2>1, NothingWritten DEF Tidy, Claiming, Pinned, Settled, Looking
  <2>2. CASE q # r
    <3>1. \A k \in Lockable : locks[k] = q => locks'[k] = q
      BY <1>1, <2>2, UnlockedKeeps
    <3> QED
      BY <1>1, <1>2, <1>3, <1>8, <2>2, <3>1, OthersRecall
  <2> QED
    BY <2>1, <2>2
<1>11. \A q \in Request : Fresh(q)'
  <2> SUFFICES ASSUME NEW q \in Request, IsClaim(q), pc'[q] \in {"check"} \cup Settled,
                      found'[q] = "todo", NEW p \in Request, Open(p)'
               PROVE  Saw(p, input[q].task)' = Who(db', input[q].task)
    BY <1>1, <1>4 DEF Fresh
  <2> DEFINE x == input[q].task
  <2>1. q # r /\ p # r /\ Open(p)
    BY <1>2, <1>4 DEF Settled
  <2>2. pc[q] \in {"check"} \cup Settled /\ found[q] = "todo"
    BY <1>1, <1>2, <2>1
  <2>3. Saw(p, x) = Who(db, x) /\ locks[Bucket(x)] = q /\ x \in Task
    BY <1>3, <2>1, <2>2 DEF Fresh, Claiming, Pinned
  <2>4. Saw(p, x)' = Saw(p, x)
    BY <1>1, <1>4, <2>1
  <2> HIDE DEF x
  <2>5. Who(db', x) = Who(db, x)
    BY <1>6, <1>7, <2>1, <2>3
  <2> QED
    BY <2>3, <2>4, <2>5 DEF x
<1>12. \A q \in Request : Sighting(q)'
  <2> SUFFICES ASSUME NEW q \in Request, Open(q)', NEW x \in Task
               PROVE  /\ Saw(q, x)' \subseteq Who(db', x)
                      /\ db'[Bucket(x)] = "todo" => Saw(q, x)' = Who(db', x)
    BY DEF Sighting
  <2>1. q # r /\ Open(q) /\ Saw(q, x)' = Saw(q, x)
    BY <1>4
  <2>2. Saw(q, x) \subseteq Who(db, x) /\ (db[Bucket(x)] = "todo" => Saw(q, x) = Who(db, x))
    BY <1>3, <2>1 DEF Sighting
  <2> QED
    BY <1>6, <1>9, <2>1, <2>2
<1>13. \A q, p \in Request : Ordered(q, p)'
  <2> SUFFICES ASSUME NEW q \in Request, NEW p \in Request, Open(q)', Open(p)', NEW x \in Task
               PROVE  Saw(q, x)' \subseteq Saw(p, x)' \/ Saw(p, x)' \subseteq Saw(q, x)'
    BY DEF Ordered
  <2>1. q # r /\ p # r /\ Open(q) /\ Open(p)
    BY <1>4
  <2>2. Saw(q, x) \subseteq Saw(p, x) \/ Saw(p, x) \subseteq Saw(q, x)
    BY <1>3, <2>1 DEF Ordered
  <2> QED
    BY <1>4, <2>1, <2>2
<1>14. IsClaim(r) => \A q \in Request : Open(q) => u \in Saw(q, t) \/ Saw(q, t) \subseteq {u}
  <2> SUFFICES ASSUME IsClaim(r), NEW q \in Request, Open(q)
               PROVE  u \in Saw(q, t) \/ Saw(q, t) \subseteq {u}
    OBVIOUS
  <2>1. CASE found[r] = "todo"
    <3>1. Saw(q, t) = Who(db, t) /\ Saw(r, t) = Who(db, t)
      BY <1>1, <1>3, <2>1 DEF Fresh, Settled, t
    <3> QED
      BY <1>5, <3>1
  <2>2. CASE found[r] # "todo"
    <3>1. u \in Saw(r, t) /\ Saw(r, t) \subseteq {u}
      BY <1>5, <2>2
    <3>2. Saw(q, t) \subseteq Saw(r, t) \/ Saw(r, t) \subseteq Saw(q, t)
      BY <1>3 DEF Ordered
    <3> QED
      BY <3>1, <3>2
  <2> QED
    BY <2>1, <2>2
<1>15. IsClaim(r) => u \in Who(db', t)
  <2>1. Saw(r, t) \subseteq Who(db, t)
    BY <1>3 DEF Sighting
  <2>2. Assigned(t, u) \in DOMAIN own[r] => u \in Who(db', t)
    BY <1>1, <1>3, WrittenOver
  <2> QED
    BY <1>3, <1>5, <1>6, <2>1, <2>2
<1>16. \A w \in Request : Winning(w)'
  <2> SUFFICES ASSUME NEW w \in Request, IsClaim(w), pc'[w] = "committed"
               PROVE  /\ input[w].user \in Who(db', input[w].task)
                      /\ \A q \in Request : Open(q)' =>
                            \/ input[w].user \in Saw(q, input[w].task)'
                            \/ Saw(q, input[w].task)' \subseteq {input[w].user}
    BY <1>1, <1>4 DEF Winning
  <2> DEFINE x == input[w].task
             a == input[w].user
  <2>1. a \in Who(db', x) /\ \A q \in Request : Open(q) => a \in Saw(q, x) \/ Saw(q, x) \subseteq {a}
    <3>1. CASE w = r
      BY <1>14, <1>15, <3>1 DEF t, u
    <3>2. CASE w # r
      <4>1. pc[w] = "committed"
        BY <1>2, <3>2
      <4>2. a \in Who(db, x) /\ \A q \in Request : Open(q) => a \in Saw(q, x) \/ Saw(q, x) \subseteq {a}
        BY <1>3, <4>1 DEF Winning
      <4> QED
        BY <1>3, <1>6, <4>2
    <3> QED
      BY <3>1, <3>2
  <2>2. \A q \in Request : Open(q)' => Open(q) /\ Saw(q, x)' = Saw(q, x)
    BY <1>1, <1>4
  <2> QED
    BY <2>1, <2>2
<1>17. ASSUME NEW w \in Request, IsClaim(r), IsClaim(w), pc[w] = "committed", input[w].task = t
       PROVE  input[w].user = u
  <2>1. /\ input[w].user \in Who(db, t)
        /\ input[w].user \in Saw(r, t) \/ Saw(r, t) \subseteq {input[w].user}
    BY <1>3, <1>17 DEF Winning
  <2>2. found[r] = "todo" => Saw(r, t) = Who(db, t)
    BY <1>1, <1>3, <1>17 DEF Fresh, Settled, t
  <2> QED
    BY <1>5, <1>17, <2>1, <2>2
<1>18. OneWinner'
  <2> SUFFICES ASSUME NEW q \in Request, NEW p \in Request, pc'[q] = "committed",
                      pc'[p] = "committed", IsClaim(q), IsClaim(p), input[q].task = input[p].task
               PROVE  input[q].user = input[p].user
    BY <1>1 DEF OneWinner, IsClaim
  <2>1. CASE q # r /\ p # r
    BY <1>2, <1>3, <2>1 DEF OneWinner, IsClaim
  <2>2. CASE q = r /\ p # r
    BY <1>2, <1>17, <2>2 DEF t, u
  <2>3. CASE q # r /\ p = r
    BY <1>2, <1>17, <2>3 DEF t, u
  <2> QED
    BY <2>1, <2>2, <2>3
<1> QED
  BY <1>10, <1>11, <1>12, <1>13, <1>16, <1>18 DEF Recalling

(***************************************************************************)
(* On MySQL a task has one winner too where claims name the bucket they    *)
(* expect it in, whatever the tables are at the start and whoever drags,   *)
(* updates or finishes it meanwhile.  A claim reads the assignees from a   *)
(* snapshot that may be older than the row it has locked, but the card of  *)
(* a task that was won meanwhile is no longer in "todo".                   *)
(***************************************************************************)
THEOREM NamedOneWinner == Spec => [](engine = "mysql" /\ NamesBucket => OneWinner)
<1> DEFINE Going == engine = "mysql" /\ NamesBucket
<1>1. Init => (Going => Recalling)
  <2> SUFFICES ASSUME Init PROVE Recalling
    OBVIOUS
  <2>1. \A r \in Request : pc[r] = "begin" /\ own[r] = NoRows
    BY DEF Init
  <2>2. \A r \in Request : Tidy(r)
    BY <2>1, NothingWritten DEF Tidy
  <2>3. \A r \in Request : Claiming(r) /\ Fresh(r) /\ Winning(r)
    BY <2>1 DEF Claiming, Fresh, Winning, Pinned, Settled
  <2>4. \A q, p \in Request : Sighting(q) /\ Ordered(q, p)
    BY <2>1 DEF Sighting, Ordered, Open
  <2> QED
    BY <2>1, <2>2, <2>3, <2>4 DEF Recalling, OneWinner
<1>2. RaceTypeOK /\ (Going => Recalling) /\ [Next]_vars => (Going => Recalling)'
  <2> SUFFICES ASSUME RaceTypeOK, Going => Recalling, [Next]_vars
               PROVE  (Going => Recalling)'
    OBVIOUS
  <2>1. ASSUME NEW r \in Request, Step(r)
        PROVE  (Going => Recalling)'
    <3>1. engine' = engine /\ (NamesBucket' <=> NamesBucket)
      BY <2>1, EngineStays DEF NamesBucket, IsClaim
    <3> SUFFICES ASSUME engine = "mysql", NamesBucket, Recalling PROVE Recalling'
      BY <3>1
    <3>2. CASE Begin(r)
      BY <3>2, BeginRecalls
    <3>3. CASE End(r)
      BY <3>3, EndRecalls
    <3>4. CASE Abort(r)
      BY <3>4, AbortIsOpen, RefuseRecalls
    <3>5. CASE Runs(r) /\ Refuse(r)
      BY <3>5, RefuseRecalls
    <3>6. CASE Runs(r) /\ ~Refuse(r)
      BY <3>6, RunsRecalls
    <3> QED
      BY <2>1, <3>2, <3>3, <3>4, <3>5, <3>6 DEF Step, Runs
  <2>2. CASE UNCHANGED vars
    <3>1. UNCHANGED <<db, snapshot, behind, own, locks, engine, input, limit, pc, found, joins, holder, noted>>
      BY <2>2 DEF vars, database, request, reading
    <3>2. Going' <=> Going
      BY <3>1 DEF NamesBucket, IsClaim
    <3> SUFFICES ASSUME Recalling PROVE Recalling'
      BY <3>2
    <3>3. CASE Request = {}
      BY <3>3 DEF Recalling, OneWinner
    <3>4. ASSUME NEW r \in Request PROVE Recalling'
      <4>1. /\ Tidy(r) /\ Claiming(r) /\ Fresh(r)
            /\ Tidy(r)' /\ Claiming(r)'
        BY <3>1, OthersRecall DEF Recalling
      <4>2. Fresh(r)'
        BY <3>1, <4>1 DEF Fresh, IsClaim, Open, Saw
      <4> QED
        BY <3>1, <4>1, <4>2, QuietRecall DEF Open
    <3> QED
      BY <3>3, <3>4
  <2> QED
    BY <2>1, <2>2 DEF Next
<1>3. Recalling => OneWinner
  BY DEF Recalling
<1> QED
  BY <1>1, <1>2, <1>3, RaceTypeCorrect, PTL DEF Spec

=============================================================================
