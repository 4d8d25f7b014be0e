----------------------------- MODULE Migrations -----------------------------
(***************************************************************************)
(* migrate.ts: every deploy applies the migration files that are not yet   *)
(* recorded, in order, each in a transaction of its own.  The first file   *)
(* creates its tables outright; the others say IF NOT EXISTS.  A database  *)
(* may have got files from docker-compose's init directory, which records  *)
(* nothing.  Runners may overlap, stop between files, or lose the          *)
(* connection; a transaction that waited for another's runs after it.      *)
(***************************************************************************)
EXTENDS Naturals, FiniteSets

CONSTANTS
    MaxFile,    \* bound: migration files
    Runners,    \* processes that deploy
    MaxStart,   \* bound: deployments
    MaxFault    \* bound: lost connections and killed runners

File == 1..MaxFile

VARIABLES
    objects,    \* files whose tables, columns and indexes are in the database
    recorded,   \* schema_migrations
    runner,     \* runner -> what it read and which file it is at
    starts, faults

vars == <<objects, recorded, runner, starts, faults>>

Off == [step |-> "off", applied |-> {}, file |-> 1]

TypeOK ==
    /\ objects \subseteq File /\ recorded \subseteq File
    /\ runner \in [Runners -> [step : {"off", "apply", "mark", "done", "aborted"},
                               applied : SUBSET File, file : 1..(MaxFile + 1)]]
    /\ starts \in 0..MaxStart /\ faults \in 0..MaxFault

\* A new database, or one that was initialised with the files of some release.
Init ==
    /\ objects \in {1..n : n \in 0..MaxFile}
    /\ recorded = {}
    /\ runner = [r \in Runners |-> Off]
    /\ starts = 0 /\ faults = 0

Start(r) ==
    /\ runner[r].step \in {"off", "done", "aborted"} /\ starts < MaxStart
    /\ runner' = [runner EXCEPT ![r] = [step |-> "apply", applied |-> recorded, file |-> 1]]
    /\ starts' = starts + 1
    /\ UNCHANGED <<objects, recorded, faults>>

At(r, step) == runner[r].step = step /\ runner[r].file \in File
Goes(r, step) == runner' = [runner EXCEPT ![r].step = step]
NextFile(r) == runner' = [runner EXCEPT ![r].file = @ + 1, ![r].step = "apply"]

Skip(r) ==
    /\ At(r, "apply") /\ runner[r].file \in runner[r].applied
    /\ NextFile(r)
    /\ UNCHANGED <<objects, recorded, starts, faults>>

\* CREATE TABLE without IF NOT EXISTS.
AlreadyExists(f) == f = 1 /\ f \in objects

\* BEGIN, the file, the record, COMMIT.
Apply(r) ==
    /\ At(r, "apply") /\ runner[r].file \notin runner[r].applied
    /\ ~AlreadyExists(runner[r].file) /\ runner[r].file \notin recorded
    /\ objects' = objects \cup {runner[r].file}
    /\ recorded' = recorded \cup {runner[r].file}
    /\ NextFile(r)
    /\ UNCHANGED <<starts, faults>>

\* The transaction fails and is rolled back.  What fails it decides what follows:
\* objects that exist already are recorded; anything else (another runner got
\* there first: a duplicate key, of the record or of the catalogue; or the
\* connection) aborts the run.
Refused(r, error) ==
    /\ At(r, "apply") /\ runner[r].file \notin runner[r].applied
    /\ CASE error = "already exists" -> AlreadyExists(runner[r].file)
         [] error = "duplicate key" -> runner[r].file \in recorded
         [] error = "connection" -> faults < MaxFault

MayMark_Why(error) == TRUE

MayMark(error) == error = "already exists"

RollBack(r, error) ==
    /\ Refused(r, error)
    /\ faults' = IF error = "connection" THEN faults + 1 ELSE faults
    /\ Goes(r, IF MayMark(error) THEN "mark" ELSE "aborted")
    /\ UNCHANGED <<objects, recorded, starts>>

\* INSERT ... ON CONFLICT DO NOTHING, after the rollback.
Mark(r) ==
    /\ At(r, "mark")
    /\ recorded' = recorded \cup {runner[r].file}
    /\ NextFile(r)
    /\ UNCHANGED <<objects, starts, faults>>

Finish(r) ==
    /\ runner[r].step = "apply" /\ runner[r].file > MaxFile
    /\ Goes(r, "done")
    /\ UNCHANGED <<objects, recorded, starts, faults>>

Killed(r) ==
    /\ runner[r].step \in {"apply", "mark"} /\ faults < MaxFault
    /\ faults' = faults + 1
    /\ Goes(r, "aborted")
    /\ UNCHANGED <<objects, recorded, starts>>

Next == \E r \in Runners :
    \/ Start(r) \/ Skip(r) \/ Apply(r) \/ Mark(r) \/ Finish(r) \/ Killed(r)
    \/ \E e \in {"already exists", "duplicate key", "connection"} : RollBack(r, e)

Spec == Init /\ [][Next]_vars

-----------------------------------------------------------------------------
\* "Safe to run on every deploy": whatever overlaps and stops, nothing is recorded
\* whose objects are missing, and a run that finishes leaves every file applied.
\* (It holds because a database has all of a file or none of it: were the first
\* file's tables there in part, it would be recorded and the rest never created.)
DeploysAreSafe ==
    /\ recorded \subseteq objects
    /\ (\E r \in Runners : runner[r].step = "done") => recorded = File

=============================================================================
