--------------------------- MODULE PgRepositories ---------------------------
(***************************************************************************)
(* The control plane's Postgres repositories as the services use them: the *)
(* groups, users and devices of the tenants, the positions of devices, the *)
(* alerts, and one row of settings per tenant.  One action is one call of  *)
(* a service that runs alone; what overlapping calls do to these tables is *)
(* in DeviceRegistry and Departments.                                      *)
(*                                                                         *)
(* This is what the tests' in-memory repositories stand in for: see        *)
(* InMemoryRepositories, which implements this module.                     *)
(***************************************************************************)
EXTENDS Naturals, Sequences, FiniteSets

CONSTANTS
    Tenants, Units, Users, Devices,   \* rows: their ids are random and never reused
    Imeis, Emails,
    Times,      \* timestamps
    Values,     \* what a position or a settings row says
    Types,      \* alert types
    MaxOp,      \* bound: calls that write
    MaxRows,    \* bound: positions (alerts) inserted
    None

VARIABLES
    unit,      \* org_unit: id -> row
    user,      \* app_user: id -> row
    device,    \* device: id -> row
    position,  \* <<device, ts>> -> value, for the rows there are
    alert,     \* alert_event, in order of insertion
    settings,  \* tenant -> its alert, notification or subscription row
    answer,    \* what the last call returned
    ops        \* calls so far

vars == <<unit, user, device, position, alert, settings, answer, ops>>

Free == [st |-> "free"]
Gone == [st |-> "gone"]

\* What a call answers: done, refused (an error, false or null), or a number.
Done == [ok |-> TRUE]
Refused == [ok |-> FALSE]

Live(t, u) == unit[u].st = "live" /\ unit[u].tenant = t

Rising(parentOf, S) == \A v \in S : parentOf[v] # None => parentOf[v] \in S

\* The groups above u, itself included: DepartmentsService.update walks them.
Chain(parentOf, u) ==
    {v \in Units : \A S \in SUBSET Units : u \in S /\ Rising(parentOf, S) => v \in S}

Parents(table) == [u \in Units |-> IF table[u].st = "live" THEN table[u].parent ELSE None]

\* org_unit.parent_id REFERENCES org_unit ON DELETE CASCADE.
Subtree(table, u) == {v \in Units : table[v].st = "live" /\ u \in Chain(Parents(table), v)}

May == ops < MaxOp /\ ops' = ops + 1

Init ==
    /\ unit = [u \in Units |-> Free]
    /\ user = [x \in Users |-> Free]
    /\ device = [d \in Devices |-> Free]
    /\ position = <<>>
    /\ alert = <<>>
    /\ settings = [t \in Tenants |-> None]
    /\ answer = Done
    /\ ops = 0

-----------------------------------------------------------------------------
(* Groups                                                                  *)

CreateUnit(t, u, p) ==
    /\ May /\ unit[u] = Free /\ (p # None => Live(t, p))
    /\ unit' = [unit EXCEPT ![u] = [st |-> "live", tenant |-> t, parent |-> p]]
    /\ answer' = Done
    /\ UNCHANGED <<user, device, position, alert, settings>>

MoveUnit(t, u, p) ==
    /\ May /\ Live(t, u) /\ (p # None => Live(t, p))
    /\ IF p # None /\ u \in Chain(Parents(unit), p)
       THEN answer' = Refused /\ UNCHANGED unit
       ELSE answer' = Done /\ unit' = [unit EXCEPT ![u].parent = p]
    /\ UNCHANGED <<user, device, position, alert, settings>>

\* device.department_id and app_user.department_id are ON DELETE SET NULL.
Ungroup(table, units) ==
    [k \in DOMAIN table |-> IF table[k] # Free /\ table[k].dept \in units
                            THEN [table[k] EXCEPT !.dept = None] ELSE table[k]]

RemoveUnit(t, u) ==
    /\ May /\ Live(t, u)
    /\ LET doomed == Subtree(unit, u) IN
       /\ unit' = [v \in Units |-> IF v \in doomed THEN Gone ELSE unit[v]]
       /\ device' = Ungroup(device, doomed)
       /\ user' = Ungroup(user, doomed)
    /\ answer' = Done
    /\ UNCHANGED <<position, alert, settings>>

-----------------------------------------------------------------------------
(* Users and devices                                                       *)

CreateUser(t, x, mail, dept) ==
    /\ May /\ user[x] = Free /\ (dept # None => Live(t, dept))
    /\ IF \E y \in Users : user[y] # Free /\ user[y].email = mail
       THEN answer' = Refused /\ UNCHANGED user
       ELSE /\ answer' = Done
            /\ user' = [user EXCEPT ![x] =
                         [st |-> "live", tenant |-> t, email |-> mail, dept |-> dept]]
    /\ UNCHANGED <<unit, device, position, alert, settings>>

\* findByImei, and the partial unique index on the IMEI of live rows.
Taken(imei) == \E d \in Devices : device[d].st = "live" /\ device[d].imei = imei

Has(t, d, st) == device[d].st = st /\ device[d].tenant = t

Provision(t, d, imei, dept) ==
    /\ May /\ device[d] = Free /\ (dept # None => Live(t, dept))
    /\ IF Taken(imei) THEN answer' = Refused /\ UNCHANGED device
       ELSE /\ answer' = Done
            /\ device' = [device EXCEPT ![d] = [st |-> "live", tenant |-> t, imei |-> imei,
                                                dept |-> dept, sends |-> TRUE]]
    /\ UNCHANGED <<unit, user, position, alert, settings>>

Assign(t, d, dept) ==
    /\ May /\ Has(t, d, "live") /\ (dept # None => Live(t, dept))
    /\ device' = [device EXCEPT ![d].dept = dept]
    /\ answer' = Done
    /\ UNCHANGED <<unit, user, position, alert, settings>>

SetStatus(t, d, sends) ==
    /\ May /\ Has(t, d, "live") /\ device[d].sends # sends
    /\ device' = [device EXCEPT ![d].sends = sends]
    /\ answer' = Done
    /\ UNCHANGED <<unit, user, position, alert, settings>>

SoftDelete(t, d) ==
    /\ May /\ Has(t, d, "live")
    /\ device' = [device EXCEPT ![d].st = "deleted"]
    /\ answer' = Done
    /\ UNCHANGED <<unit, user, position, alert, settings>>

Restore(t, d) ==
    /\ May /\ Has(t, d, "deleted")
    /\ IF Taken(device[d].imei) THEN answer' = Refused /\ UNCHANGED device
       ELSE answer' = Done /\ device' = [device EXCEPT ![d].st = "live"]
    /\ UNCHANGED <<unit, user, position, alert, settings>>

\* What a caller sees: the devices of the tenant, those of a caller's group and
\* the groups under it only, the deleted ones, and what ingestion may accept.
Scope(x) ==
    IF user[x].dept = None THEN Units \cup {None} ELSE Subtree(unit, user[x].dept)

List(x, st) ==
    {d \in Devices : Has(user[x].tenant, d, st) /\ device[d].dept \in Scope(x)}

Active == {device[d].imei : d \in {e \in Devices : device[e].st = "live" /\ device[e].sends}}

-----------------------------------------------------------------------------
(* Positions, alerts and settings                                          *)

\* ON CONFLICT (device_id, ts) DO NOTHING, within the statement too.
InsertPositions(rows) ==
    /\ May
    /\ LET new == {<<rows[i].dev, rows[i].ts>> : i \in DOMAIN rows}
           first(k) == rows[CHOOSE i \in DOMAIN rows :
                         /\ <<rows[i].dev, rows[i].ts>> = k
                         /\ \A j \in 1..(i - 1) : <<rows[j].dev, rows[j].ts>> # k].val
       IN  /\ Cardinality(DOMAIN position \cup new) <= MaxRows
           /\ position' = [k \in DOMAIN position \cup new |->
                             IF k \in DOMAIN position THEN position[k] ELSE first(k)]
    /\ answer' = Done
    /\ UNCHANGED <<unit, user, device, alert, settings>>

Instants(d) == {ts \in Times : <<d, ts>> \in DOMAIN position}

\* ORDER BY ts DESC LIMIT 1.
Latest(d) ==
    {[ts |-> ts, val |-> position[<<d, ts>>]] :
       ts \in {s \in Instants(d) : \A r \in Instants(d) : r <= s}}

\* ts BETWEEN from AND to ORDER BY ts ASC.  The limit is left out.
History(d, from, to) ==
    {[ts |-> ts, val |-> position[<<d, ts>>]] : ts \in {s \in Instants(d) : from <= s /\ s <= to}}

InsertAlert(t, d, type, ts) ==
    /\ May /\ Len(alert) < MaxRows
    /\ alert' = Append(alert, [tenant |-> t, dev |-> d, type |-> type, ts |-> ts])
    /\ answer' = Done
    /\ UNCHANGED <<unit, user, device, position, settings>>

Matching(t, dev, types) ==
    {a \in {alert[i] : i \in DOMAIN alert} :
       /\ a.tenant = t
       /\ dev # None => a.dev = dev
       /\ types # {} => a.type \in types}

\* DELETE with the filters that were given; the answer is the number of rows.
ClearAlerts(t, dev, types) ==
    LET kept == SelectSeq(alert, LAMBDA a : a \notin Matching(t, dev, types)) IN
    /\ May /\ kept # alert
    /\ alert' = kept /\ answer' = [count |-> Len(alert) - Len(kept)]
    /\ UNCHANGED <<unit, user, device, position, settings>>

\* INSERT ... ON CONFLICT (tenant_id) DO UPDATE.
SetSettings(t, v) ==
    /\ May
    /\ settings' = [settings EXCEPT ![t] = v] /\ answer' = [settings |-> v]
    /\ UNCHANGED <<unit, user, device, position, alert>>

Row == [dev : Devices, ts : Times, val : Values]

UnitOp(t, u) ==
    \/ \E p \in Units \cup {None} : CreateUnit(t, u, p) \/ MoveUnit(t, u, p)
    \/ RemoveUnit(t, u)

DeviceOp(t, d) ==
    \/ \E i \in Imeis, dept \in Units \cup {None} : Provision(t, d, i, dept)
    \/ \E dept \in Units \cup {None} : Assign(t, d, dept)
    \/ \E sends \in BOOLEAN : SetStatus(t, d, sends)
    \/ SoftDelete(t, d) \/ Restore(t, d)

OtherOp(t) ==
    \/ \E d \in Devices, y \in Types, ts \in Times : InsertAlert(t, d, y, ts)
    \/ \E d \in Devices \cup {None}, y \in SUBSET Types : ClearAlerts(t, d, y)
    \/ \E v \in Values : SetSettings(t, v)

Next ==
    \/ \E t \in Tenants, u \in Units : UnitOp(t, u)
    \/ \E t \in Tenants, x \in Users, m \in Emails, dept \in Units \cup {None} :
         CreateUser(t, x, m, dept)
    \/ \E t \in Tenants, d \in Devices : DeviceOp(t, d)
    \/ \E r \in Row : InsertPositions(<<r>>)
    \/ \E r, s \in Row : InsertPositions(<<r, s>>)
    \/ \E t \in Tenants : OtherOp(t)

\* What reading every table returns, to the users X and for every device.
Reads(X) ==
    [lists |-> [x \in X |-> List(x, "live")], deleted |-> [x \in X |-> List(x, "deleted")],
     active |-> Active,
     latest |-> [d \in Devices |-> Latest(d)],
     history |-> [d \in Devices |-> [w \in Times \X Times |-> History(d, w[1], w[2])]]]

Spec == Init /\ [][Next]_vars

=============================================================================
