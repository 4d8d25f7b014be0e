---------------------------- MODULE Departments ----------------------------
(***************************************************************************)
(* The groups of a tenant under requests that overlap (DepartmentsService  *)
(* over Postgres).  A move reads the group, reads its new parent, lists    *)
(* all groups to walk up from that parent, and updates: four queries.  The *)
(* walk is synchronous and has no bound: on a cycle that does not hold the *)
(* group it moves it never ends, and the process serves nothing more.      *)
(***************************************************************************)
EXTENDS Naturals

CONSTANTS
    Units,      \* ids of groups, never reused
    Requests,
    MaxMove,    \* bound: requests made
    None

VARIABLES
    parent,     \* id -> "free", "gone", None (a root) or the parent's id
    req,        \* request -> what it does and how far it is
    made,       \* requests made so far
    hung,       \* the walk does not end
    lapped      \* two moves have been under way at once

vars == <<parent, req, made, hung, lapped>>

Ids == {u \in Units : parent[u] \notin {"free", "gone"}}

TypeOK ==
    /\ parent \in [Units -> Units \cup {"free", "gone", None}]
    /\ req \in [Requests -> [step : {"idle", "unit", "parent", "walk", "write", "insert"},
                             unit : Units \cup {None}, to : Units \cup {None}]]
    /\ made \in 0..MaxMove
    /\ hung \in BOOLEAN /\ lapped \in BOOLEAN

Idle == [step |-> "idle", unit |-> None, to |-> None]

Init ==
    /\ parent = [u \in Units |-> "free"]
    /\ req = [r \in Requests |-> Idle]
    /\ made = 0
    /\ hung = FALSE /\ lapped = FALSE

\* The groups met by walking up from u, itself included: any set that holds u and,
\* with a group, the one above it, holds them.
Rising(S) == \A v \in S : parent[v] \in Ids => parent[v] \in S
Chain(u) == {v \in Ids : u \in Ids /\ \A S \in SUBSET Ids : u \in S /\ Rising(S) => v \in S}

OnCycle(u) == u \in Chain(parent[u])
Forest == \A u \in Ids : ~OnCycle(u)

\* ON DELETE CASCADE.
Subtree(u) == {v \in Ids : u \in Chain(v)}

Moving(r) == req[r].step \in {"unit", "parent", "walk", "write"}

Goes(r, step) == req' = [req EXCEPT ![r].step = step]
Ends(r) == req' = [req EXCEPT ![r] = Idle]

-----------------------------------------------------------------------------
\* POST and PATCH /departments.  A request names groups the caller has seen.
Begin(r, u, to, step) ==
    /\ ~hung /\ req[r] = Idle /\ made < MaxMove
    /\ req' = [req EXCEPT ![r] = [step |-> step, unit |-> u, to |-> to]]
    /\ made' = made + 1
    /\ lapped' = (lapped \/ (step = "unit" /\ \E q \in Requests : Moving(q)))
    /\ UNCHANGED <<parent, hung>>

Create(r, u, to) == parent[u] = "free" /\ to \in Ids \cup {None} /\ Begin(r, u, to, "insert")

Move(r, u, to) == u \in Ids /\ to \in (Ids \ {u}) \cup {None} /\ Begin(r, u, to, "unit")

\* The parent was found, or is not needed; another request may have taken the
\* group's place in the bound on ids meanwhile.  The foreign key refuses a parent
\* that has gone.
Insert(r) ==
    /\ ~hung /\ req[r].step = "insert"
    /\ parent' = IF req[r].to \in Ids \cup {None} /\ parent[req[r].unit] = "free"
                 THEN [parent EXCEPT ![req[r].unit] = req[r].to] ELSE parent
    /\ Ends(r)
    /\ UNCHANGED <<made, hung, lapped>>

FindUnit(r) ==
    /\ ~hung /\ req[r].step = "unit"
    /\ IF req[r].unit \notin Ids THEN Ends(r)
       ELSE Goes(r, IF req[r].to = None THEN "write" ELSE "parent")
    /\ UNCHANGED <<parent, made, hung, lapped>>

FindParent(r) ==
    /\ ~hung /\ req[r].step = "parent"
    /\ IF req[r].to \notin Ids THEN Ends(r) ELSE Goes(r, "walk")
    /\ UNCHANGED <<parent, made, hung, lapped>>

Walk_Why(r) ==
    /\ ~hung /\ req[r].step = "walk"
    /\ IF parent[req[r].to] = req[r].unit THEN Ends(r) ELSE Goes(r, "write")
    /\ UNCHANGED <<parent, made, hung, lapped>>

\* The walk over the list as it is now.
Walk(r) ==
    /\ ~hung /\ req[r].step = "walk"
    /\ IF req[r].unit \in Chain(req[r].to) THEN Ends(r) /\ UNCHANGED hung
       ELSE IF \E v \in Chain(req[r].to) : OnCycle(v)
            THEN hung' = TRUE /\ UNCHANGED req
            ELSE Goes(r, "write") /\ UNCHANGED hung
    /\ UNCHANGED <<parent, made, lapped>>

\* UPDATE: no row if the group has gone, an error if the parent has.
Write(r) ==
    /\ ~hung /\ req[r].step = "write"
    /\ parent' = IF req[r].unit \in Ids /\ req[r].to \in Ids \cup {None}
                 THEN [parent EXCEPT ![req[r].unit] = req[r].to] ELSE parent
    /\ Ends(r)
    /\ UNCHANGED <<made, hung, lapped>>

\* DELETE is one statement.
Remove(u) ==
    /\ ~hung /\ u \in Ids /\ made < MaxMove
    /\ parent' = [v \in Units |-> IF v \in Subtree(u) THEN "gone" ELSE parent[v]]
    /\ made' = made + 1
    /\ UNCHANGED <<req, hung, lapped>>

Step(r) == Insert(r) \/ FindUnit(r) \/ FindParent(r) \/ Walk(r) \/ Write(r)

Next ==
    \/ \E r \in Requests, u \in Units, to \in Units \cup {None} : Create(r, u, to) \/ Move(r, u, to)
    \/ \E r \in Requests : Step(r)
    \/ \E u \in Units : Remove(u)

Spec == Init /\ [][Next]_vars

-----------------------------------------------------------------------------
\* As long as moves come one after the other, the groups form a forest and every
\* walk ends, whatever creations and removals come between their queries.
LoneMovesKeepForest == lapped \/ (Forest /\ ~hung)

\* What org.ts says of a tenant's groups.
DepartmentsFormAForest == Forest

=============================================================================
