--------------------------- MODULE MCRequestRace ---------------------------
(***************************************************************************)
(* Two requests for two tasks whose scopes overlap, the subtasks of a      *)
(* third, on each of the engines.                                          *)
(***************************************************************************)
EXTENDS RequestRace, TLC

CONSTANTS t1, t2, parent, alice, bob, srcs, file

Overlapping == Pattern \X Pattern

Scopes == t1 :> {file} @@ t2 :> {srcs} @@ parent :> {}

Family == t1 :> {} @@ t2 :> {} @@ parent :> {t1, t2}

Inputs(kinds, tasks, expects) ==
    [kind : kinds, task : tasks, user : User, expectsTodo : expects]

\* Every task in "todo", with these assignees and leases.
Tables(assigned, leases) ==
    [k \in Rows |->
        CASE k[1] = "bucket"   -> "todo"
          [] k[1] = "done"     -> FALSE
          [] k[1] = "assigned" -> k \in assigned
          [] k[1] = "lease"    -> IF k \in leases THEN "overdue" ELSE "none"]

Unowned == {Tables({}, {})}

\* Somebody may have t1 and somebody t2, without leases of them.
MaybeOwned ==
    {Tables(one \cup two, {}) :
        one \in {{}} \cup {{Assigned(t1, u)} : u \in User},
        two \in {{}} \cup {{Assigned(t2, u)} : u \in User}}

\* alice has t1 and its leases, and has been silent for too long.
Silent == {Tables({Assigned(t1, alice)}, {Lease(t1, alice, file)})}

Scenario(e, inputs, most, tables) ==
    [engine |-> e, inputs |-> inputs, limit |-> most, tables |-> tables]

Claims(expects) == Inputs({"claim"}, {t1, t2}, expects)
Drags == Inputs({"drag"}, {t1, t2}, {FALSE})
ByAlice(kinds, tasks) == [kind : kinds, task : tasks, user : {alice}, expectsTodo : {FALSE}]

\* Claims and drags of tasks that may be assigned; on MySQL of one task, the claims by
\* callers who say which bucket they expect it in.  On SQLite, the last place of a
\* bucket, for tasks of disjoint files.  Siblings that are finished, a claim against a finish, and the
\* cron against heartbeats.
Everyday ==
    {Scenario("sqlite", Claims({FALSE}) \cup Drags, 0, MaybeOwned),
     Scenario("postgres", Claims({FALSE}) \cup Drags, 0, MaybeOwned),
     Scenario("mysql", Inputs({"claim", "drag"}, {t1}, {TRUE}), 0, MaybeOwned),
     Scenario("sqlite", Inputs({"claim", "drag"}, {t1, parent}, {FALSE}), 1, Unowned),
     Scenario("sqlite", ByAlice({"finish", "update", "claim", "drag"}, {t1, t2}), 0, Silent),
     Scenario("postgres", ByAlice({"finish", "update", "claim", "drag"}, {t1, t2}), 0, Silent),
     Scenario("sqlite", ByAlice({"heartbeat", "cron"}, {t1}), 0, Silent),
     Scenario("postgres", ByAlice({"heartbeat", "cron"}, {t1}), 0, Silent)}

\* On PostgreSQL, claims of tasks that may be the caller's already.
Reclaims == {Scenario("postgres", Claims({FALSE}), 0, MaybeOwned)}
=============================================================================
