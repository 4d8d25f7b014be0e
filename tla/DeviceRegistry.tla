--------------------------- MODULE DeviceRegistry ---------------------------
(***************************************************************************)
(* The control plane's device table and the allow-list it publishes        *)
(* (devices.service.ts, allowlist.bootstrap.ts, billing.ts): provisioning,  *)
(* status changes, soft deletion, restoring, and the resync at boot.       *)
(*                                                                         *)
(* The table is in Postgres, the allow-list a set in Redis.  Each request  *)
(* reads the table, writes it, and then writes the set, with an await at   *)
(* every call; two replicas serve requests side by side, and one may be    *)
(* killed, or Redis reject, between the two writes.                        *)
(*                                                                         *)
(* There is one tenant; the department scope of the caller is left out (it *)
(* only narrows which rows a request may name).  A status is reduced to    *)
(* whether it is one of SENDING_STATUSES.                                  *)
(*                                                                         *)
(* A definition X_Why before a definition X is a mistake one could make in *)
(* X.  Nothing uses it: put in X's place, it breaks a property below.      *)
(***************************************************************************)
EXTENDS Naturals, FiniteSets

CONSTANTS
    Imeis,      \* the trackers
    Rows,       \* bound: rows of the device table, deleted ones included
    Requests,   \* bound: requests under way at once, in all replicas
    Quota,      \* the plan's limit on devices
    MaxAborts,  \* bound: requests cut short
    None        \* no row, no IMEI, nothing

\* A row of the table; sends: its status is one of SENDING_STATUSES.
Device == [imei : Imeis, sends : BOOLEAN, live : BOOLEAN]

ASSUME RegistryAssumption ==
    /\ {Quota, MaxAborts} \subseteq Nat
    /\ None \notin Imeis \cup Rows \cup Device

VARIABLES
    table,   \* row -> None or the device
    allow,   \* the set ingest:allowed_imeis in Redis
    req,     \* request -> what it does and how far it is
    done,    \* history: the request that ended in the latest step, or None
    aborts

vars == <<table, allow, req, done, aborts>>

Op == {"provision", "status", "remove", "restore", "resync"}
Step == {"idle", "quota", "insert", "update", "delete", "undelete", "reread",
         "add", "remove", "replace"}

Request == [op : Op, step : Step, row : Rows \cup {None}, imei : Imeis \cup {None},
            sends : BOOLEAN, found : SUBSET Imeis, alone : BOOLEAN]

TypeOK ==
    /\ table \in [Rows -> Device \cup {None}]
    /\ allow \subseteq Imeis
    /\ req \in [Requests -> Request]
    /\ done = None \/ done \in [op : Op, imei : Imeis \cup {None}, alone : BOOLEAN]
    /\ aborts \in 0..MaxAborts

\* found: the IMEIs a resync has read.  alone: history, no other request on
\* the same IMEI has been under way at the same time.
Idle == [op |-> "resync", step |-> "idle", row |-> None, imei |-> None,
         sends |-> FALSE, found |-> {}, alone |-> TRUE]

\* An empty system: no devices, no IMEI allowed.
Init ==
    /\ table = [r \in Rows |-> None]
    /\ allow = {}
    /\ req = [g \in Requests |-> Idle]
    /\ done = None
    /\ aborts = 0

-----------------------------------------------------------------------------
(***************************************************************************)
(* The table.                                                              *)
(***************************************************************************)
LiveRow(r) == table[r] # None /\ table[r].live

Live(i) == {r \in Rows : LiveRow(r) /\ table[r].imei = i}

\* devices.count, which assertCanAddDevice compares with the plan's limit.
OverQuota_AtLimit == Cardinality({r \in Rows : LiveRow(r)}) > Quota
OverQuota == Cardinality({r \in Rows : LiveRow(r)}) >= Quota

\* The partial unique index on live IMEIs.
Taken_NoIndex(i) == FALSE
Taken(i) == Live(i) # {}

activeImeis_Ids == {r \in Rows : LiveRow(r) /\ table[r].sends}
activeImeis == {i \in Imeis : \E r \in Live(i) : table[r].sends}

-----------------------------------------------------------------------------
(***************************************************************************)
(* Requests.  Those on one IMEI, or a resync and any other, touch.         *)
(***************************************************************************)
Busy(g) == req[g].step # "idle"

Touches(g, i) == Busy(g) /\ (req[g].imei = i \/ req[g].imei = None \/ i = None)

Begin(g, op, step, r, i, sends, found) ==
    /\ ~Busy(g)
    /\ LET others == {h \in Requests : Touches(h, i)}
       IN req' = [h \in Requests |->
              IF h = g
              THEN [op |-> op, step |-> step, row |-> r, imei |-> i,
                    sends |-> sends, found |-> found, alone |-> others = {}]
              ELSE IF h \in others THEN [req[h] EXCEPT !.alone = FALSE] ELSE req[h]]
    /\ done' = None
    /\ UNCHANGED <<table, allow, aborts>>

Advance(g, step) == req' = [req EXCEPT ![g].step = step] /\ done' = None

\* The request ends, with a refusal or an error; nothing more is written.
End(g) == req' = [req EXCEPT ![g] = Idle] /\ done' = None

\* The request ends, having done all it had to.
Succeed(g) ==
    /\ req' = [req EXCEPT ![g] = Idle]
    /\ done' = [op |-> req[g].op, imei |-> req[g].imei, alone |-> req[g].alone]

-----------------------------------------------------------------------------
\* provision(): 409 unless findByImei finds no live row.
Provision(g, i) == Live(i) = {} /\ Begin(g, "provision", "quota", None, i, TRUE, {})

\* setStatus(), remove(): get() finds a live row, or 404.
SetStatus(g, r, sends) ==
    LiveRow(r) /\ Begin(g, "status", "update", r, table[r].imei, sends, {})

Remove(g, r) ==
    LiveRow(r) /\ Begin(g, "remove", "delete", r, table[r].imei, FALSE, {})

\* restore(): the row is there and deleted, or 404.
Restore(g, r) ==
    /\ table[r] # None
    /\ ~table[r].live
    /\ Begin(g, "restore", "quota", r, table[r].imei, FALSE, {})

\* assertCanAddDevice(): 402 at the limit.
CheckQuota(g) ==
    /\ req[g].step = "quota"
    /\ IF OverQuota THEN End(g)
       ELSE Advance(g, IF req[g].op = "provision" THEN "insert" ELSE "undelete")
    /\ UNCHANGED <<table, allow, aborts>>

\* devices.create: the index may reject the row.
Insert(g) ==
    /\ req[g].step = "insert"
    /\ LET i == req[g].imei IN
       IF Taken(i) THEN End(g) /\ UNCHANGED table
       ELSE \E r \in Rows :
              /\ table[r] = None
              /\ table' = [table EXCEPT ![r] =
                              [imei |-> i, sends |-> TRUE, live |-> TRUE]]
              /\ Advance(g, "add")
    /\ UNCHANGED <<allow, aborts>>

Publication_AlwaysAdd(sends) == "add"
Publication(sends) == IF sends THEN "add" ELSE "remove"

\* devices.update: 404 if the row has been deleted since.
Update(g) ==
    /\ req[g].step = "update"
    /\ LET r == req[g].row IN
       IF LiveRow(r)
       THEN /\ table' = [table EXCEPT ![r].sends = req[g].sends]
            /\ Advance(g, Publication(req[g].sends))
       ELSE End(g) /\ UNCHANGED table
    /\ UNCHANGED <<allow, aborts>>

\* devices.softDelete: whether it found a live row is not looked at.
Delete(g) ==
    /\ req[g].step = "delete"
    /\ table' = [table EXCEPT ![req[g].row].live = FALSE]
    /\ Advance(g, "remove")
    /\ UNCHANGED <<allow, aborts>>

\* devices.restore: 409 if the index rejects it, or nothing was deleted.
Undelete(g) ==
    /\ req[g].step = "undelete"
    /\ LET r == req[g].row IN
       IF LiveRow(r) \/ Taken(table[r].imei)
       THEN End(g) /\ UNCHANGED table
       ELSE table' = [table EXCEPT ![r].live = TRUE] /\ Advance(g, "reread")
    /\ UNCHANGED <<allow, aborts>>

\* The row is read again for its status; if it is gone, the code stumbles.
Reread(g) ==
    /\ req[g].step = "reread"
    /\ LET r == req[g].row IN
       IF ~LiveRow(r) THEN End(g)
       ELSE IF table[r].sends THEN Advance(g, "add") ELSE Succeed(g)
    /\ UNCHANGED <<table, allow, aborts>>

\* allowList.add, allowList.remove.
Publish(g) ==
    /\ req[g].step \in {"add", "remove"}
    /\ allow' = IF req[g].step = "add" THEN allow \cup {req[g].imei}
                ELSE allow \ {req[g].imei}
    /\ Succeed(g)
    /\ UNCHANGED <<table, aborts>>

-----------------------------------------------------------------------------
\* AllowListBootstrap of a replica that starts: read, then replace.
Resync(g) == Begin(g, "resync", "replace", None, None, FALSE, activeImeis)

Replace(g) ==
    /\ req[g].step = "replace"
    /\ allow' = req[g].found
    /\ Succeed(g)
    /\ UNCHANGED <<table, aborts>>

\* The replica is killed, or a call to the database or to Redis is rejected.
Abort(g) ==
    /\ Busy(g)
    /\ aborts < MaxAborts
    /\ aborts' = aborts + 1
    /\ End(g)
    /\ UNCHANGED <<table, allow>>

Next ==
    \E g \in Requests :
        \/ \E i \in Imeis : Provision(g, i)
        \/ \E r \in Rows :
              \/ Remove(g, r) \/ Restore(g, r)
              \/ \E s \in BOOLEAN : SetStatus(g, r, s)
        \/ CheckQuota(g) \/ Insert(g) \/ Update(g) \/ Delete(g)
        \/ Undelete(g) \/ Reread(g) \/ Publish(g)
        \/ Resync(g) \/ Replace(g) \/ Abort(g)

Spec == Init /\ [][Next]_vars

-----------------------------------------------------------------------------
(***************************************************************************)
(* Properties.                                                             *)
(***************************************************************************)

\* The allow-list tells the truth about an IMEI.
Agrees(i) == i \in allow <=> i \in activeImeis

\* devices.service.ts: a device may send data only while provisioned or active.
\* Requests that overlap can leave the list wrong.  An operation that nothing else
\* on its IMEI overlaps leaves it right for that IMEI, whatever killed replicas and
\* races had made of it before, and a lone resync rights it all.  The exception is
\* the restoring of a device that may not send: it leaves the list alone.
LoneOperationHeals ==
    done # None /\ done.alone =>
        /\ done.op = "resync" => \A i \in Imeis : Agrees(i)
        /\ done.op \in {"provision", "status", "remove"} => Agrees(done.imei)
        /\ done.op = "restore" /\ done.imei \in activeImeis => Agrees(done.imei)

\* However requests race, an IMEI has one live row at most: telemetry is never
\* credited to one of two devices by chance.
OneLiveRowPerImei == \A i \in Imeis : Cardinality(Live(i)) <= 1

\* billing.ts: requests that pass the quota check side by side may exceed the
\* plan's limit, by fewer than there are requests; one at a time they do not.
QuotaNearlyHolds ==
    Cardinality({r \in Rows : LiveRow(r)}) < Quota + Cardinality(Requests)

\* Allow-list and quota survive requests that race: the next lone operation rights
\* the list, and the quota is exceeded by fewer than there are requests.
RegistrySurvivesRaces == LoneOperationHeals /\ QuotaNearlyHolds

=============================================================================
