------------------------ MODULE InMemoryRepositories ------------------------
(***************************************************************************)
(* The repositories the control plane's tests and its development server   *)
(* run on: maps and arrays that must behave as the Postgres tables do.     *)
(* Every action here is to be an action of PgRepositories with the same    *)
(* answer, once two things are read as Postgres would have them: a         *)
(* reference to a group that is gone as no reference, and of several       *)
(* positions of one device and instant the first.                          *)
(***************************************************************************)
EXTENDS Naturals, Sequences, FiniteSets

CONSTANTS
    Tenants, Units, Users, Devices, Imeis, Emails, Times, Values, Types,
    MaxOp, MaxRows, None

\* A row of the array of positions.
Row == [dev : Devices, ts : Times, val : Values]

VARIABLES unit, user, device, rows, alert, settings, answer, ops

vars == <<unit, user, device, rows, alert, settings, answer, ops>>

Free == [st |-> "free"]
Gone == [st |-> "gone"]

\* What a call answers: done, refused (an error, false or null), or a number.
Done == [ok |-> TRUE]
Refused == [ok |-> FALSE]

Live(t, u) == unit[u].st = "live" /\ unit[u].tenant = t
May == ops < MaxOp /\ ops' = ops + 1

Init ==
    /\ unit = [u \in Units |-> Free]
    /\ user = [x \in Users |-> Free]
    /\ device = [d \in Devices |-> Free]
    /\ rows = <<>> /\ alert = <<>>
    /\ settings = [t \in Tenants |-> None]
    /\ answer = Done
    /\ ops = 0

-----------------------------------------------------------------------------
(* Groups                                                                  *)

CreateUnit(t, u, p) ==
    /\ May /\ unit[u] = Free /\ (p # None => Live(t, p))
    /\ unit' = [unit EXCEPT ![u] = [st |-> "live", tenant |-> t, parent |-> p]]
    /\ answer' = Done
    /\ UNCHANGED <<user, device, rows, alert, settings>>

HasChildren(S) == \A v \in Units : unit[v].st = "live" /\ unit[v].parent \in S => v \in S

\* remove() and descendantIds(): the list of doomed groups grows by the
\* children of its members.
Below(u) == {v \in Units : \A S \in SUBSET Units : u \in S /\ HasChildren(S) => v \in S}

\* DepartmentsService.update: reaching u from p by parents is p being below u.
MoveUnit(t, u, p) ==
    /\ May /\ Live(t, u) /\ (p # None => Live(t, p))
    /\ IF p \in Below(u) THEN answer' = Refused /\ UNCHANGED unit
       ELSE answer' = Done /\ unit' = [unit EXCEPT ![u].parent = p]
    /\ UNCHANGED <<user, device, rows, alert, settings>>

RemoveUnit_Why(t, u) ==
    /\ May /\ Live(t, u)
    /\ unit' = [unit EXCEPT ![u] = Gone]
    /\ answer' = Done
    /\ UNCHANGED <<user, device, rows, alert, settings>>

\* The devices and users of the groups are left as they are.
RemoveUnit(t, u) ==
    /\ May /\ Live(t, u)
    /\ unit' = [v \in Units |-> IF v \in Below(u) THEN Gone ELSE unit[v]]
    /\ answer' = Done
    /\ UNCHANGED <<user, device, rows, alert, settings>>

-----------------------------------------------------------------------------
(* Users and devices                                                       *)

CreateUser(t, x, mail, dept) ==
    /\ May /\ user[x] = Free /\ (dept # None => Live(t, dept))
    /\ IF \E y \in Users : user[y] # Free /\ user[y].email = mail
       THEN answer' = Refused /\ UNCHANGED user
       ELSE /\ answer' = Done
            /\ user' = [user EXCEPT ![x] =
                         [st |-> "live", tenant |-> t, email |-> mail, dept |-> dept]]
    /\ UNCHANGED <<unit, device, rows, alert, settings>>

\* findById with and without includeDeleted, findByImei.
Has(t, d, st) == device[d].st = st /\ device[d].tenant = t
ByImei(imei) == {d \in Devices : device[d].st = "live" /\ device[d].imei = imei}

Provision(t, d, imei, dept) ==
    /\ May /\ device[d] = Free /\ (dept # None => Live(t, dept))
    /\ IF ByImei(imei) # {} THEN answer' = Refused /\ UNCHANGED device
       ELSE /\ answer' = Done
            /\ device' = [device EXCEPT ![d] = [st |-> "live", tenant |-> t, imei |-> imei,
                                                dept |-> dept, sends |-> TRUE]]
    /\ UNCHANGED <<unit, user, rows, alert, settings>>

\* update() with a department or with a status.
Update(t, d, patched) ==
    /\ May /\ Has(t, d, "live")
    /\ device' = [device EXCEPT ![d] = patched]
    /\ answer' = Done
    /\ UNCHANGED <<unit, user, rows, alert, settings>>

Assign(t, d, dept) ==
    (dept # None => Live(t, dept)) /\ Update(t, d, [device[d] EXCEPT !.dept = dept])

SetStatus(t, d, sends) ==
    device[d].sends # sends /\ Update(t, d, [device[d] EXCEPT !.sends = sends])

SoftDelete(t, d) == Update(t, d, [device[d] EXCEPT !.st = "deleted"])

\* "Mirror the Postgres partial unique index".
Restore(t, d) ==
    /\ May /\ Has(t, d, "deleted")
    /\ IF ByImei(device[d].imei) # {} THEN answer' = Refused /\ UNCHANGED device
       ELSE answer' = Done /\ device' = [device EXCEPT ![d].st = "live"]
    /\ UNCHANGED <<unit, user, rows, alert, settings>>

\* The filter of list() and listDeleted(), and scopeFor before it.
InScope(x, d) == user[x].dept = None \/ device[d].dept \in Below(user[x].dept)
List(x, st) == {d \in Devices : Has(user[x].tenant, d, st) /\ InScope(x, d)}

Active == {device[d].imei : d \in {e \in Devices : device[e].st = "live" /\ device[e].sends}}

-----------------------------------------------------------------------------
(* Positions, alerts and settings                                          *)

InsertPositions(new) ==
    /\ May /\ Len(rows) + Len(new) <= MaxRows
    /\ rows' = rows \o new
    /\ answer' = Done
    /\ UNCHANGED <<unit, user, device, alert, settings>>

Newest_Why(best, p) == IF best = None \/ p.ts >= best.ts THEN p ELSE best

Newest(best, p) == IF best = None \/ p.ts > best.ts THEN p ELSE best

\* latest() scans all rows and keeps the newest so far.
Latest(d) ==
    LET best[i \in 0..Len(rows)] ==
          IF i = 0 THEN None
          ELSE IF rows[i].dev = d THEN Newest(best[i - 1], rows[i]) ELSE best[i - 1]
        last == best[Len(rows)]
    IN  IF last = None THEN {} ELSE {[ts |-> last.ts, val |-> last.val]}

\* history() returns every row, all those of one instant too: which they are by
\* their place in the array.  The limit is left out.
History(d, from, to) ==
    [i \in {k \in DOMAIN rows :
              rows[k].dev = d /\ from <= rows[k].ts /\ rows[k].ts <= to}
       |-> [ts |-> rows[i].ts, val |-> rows[i].val]]

InsertAlert(t, d, type, ts) ==
    /\ May /\ Len(alert) < MaxRows
    /\ alert' = Append(alert, [tenant |-> t, dev |-> d, type |-> type, ts |-> ts])
    /\ answer' = Done
    /\ UNCHANGED <<unit, user, device, rows, settings>>

Cleared(t, dev, types) ==
    {a \in {alert[i] : i \in DOMAIN alert} :
       a.tenant = t /\ (dev = None \/ a.dev = dev) /\ (types = {} \/ a.type \in types)}

\* The answer is by how much the array got shorter.
ClearAlerts(t, dev, types) ==
    /\ May
    /\ alert' = SelectSeq(alert, LAMBDA a : a \notin Cleared(t, dev, types))
    /\ alert' # alert
    /\ answer' = [count |-> Len(alert) - Len(alert')]
    /\ UNCHANGED <<unit, user, device, rows, settings>>

SetSettings(t, v) ==
    /\ May
    /\ settings' = [settings EXCEPT ![t] = v] /\ answer' = [settings |-> v]
    /\ UNCHANGED <<unit, user, device, rows, alert>>

UnitOp(t, u) ==
    \/ \E p \in Units \cup {None} : CreateUnit(t, u, p) \/ MoveUnit(t, u, p)
    \/ RemoveUnit(t, u)

DeviceOp(t, d) ==
    \/ \E i \in Imeis, dept \in Units \cup {None} : Provision(t, d, i, dept)
    \/ Restore(t, d)
    \/ /\ Has(t, d, "live")
       /\ \/ \E dept \in Units \cup {None} : Assign(t, d, dept)
          \/ \E sends \in BOOLEAN : SetStatus(t, d, sends)
          \/ SoftDelete(t, d)

OtherOp(t) ==
    \/ \E d \in Devices, y \in Types, ts \in Times : InsertAlert(t, d, y, ts)
    \/ \E d \in Devices \cup {None}, y \in SUBSET Types : ClearAlerts(t, d, y)
    \/ \E v \in Values : SetSettings(t, v)

Next ==
    \/ \E t \in Tenants, u \in Units : UnitOp(t, u)
    \/ \E t \in Tenants, x \in Users, m \in Emails, dept \in Units \cup {None} :
         CreateUser(t, x, m, dept)
    \/ \E t \in Tenants, d \in Devices : DeviceOp(t, d)
    \/ \E r \in Row : InsertPositions(<<r>>)
    \/ \E r, s \in Row : InsertPositions(<<r, s>>)
    \/ \E t \in Tenants : OtherOp(t)


Spec == Init /\ [][Next]_vars

-----------------------------------------------------------------------------
(* The Postgres state that a state of the maps stands for.                 *)

Grouped(table) ==
    [k \in DOMAIN table |->
       IF table[k] # Free /\ table[k].dept # None /\ unit[table[k].dept] = Gone
       THEN [table[k] EXCEPT !.dept = None] ELSE table[k]]

\* The first row of an instant.
First(i) == \A j \in 1..(i - 1) : <<rows[j].dev, rows[j].ts>> # <<rows[i].dev, rows[i].ts>>

Table ==
    [k \in {<<rows[i].dev, rows[i].ts>> : i \in DOMAIN rows} |->
       rows[CHOOSE i \in DOMAIN rows : First(i) /\ <<rows[i].dev, rows[i].ts>> = k].val]

Pg == INSTANCE PgRepositories WITH
        user <- Grouped(user), device <- Grouped(device), position <- Table

Listing(X) == {x \in X : user[x] # Free}

\* Users whose own group is gone: in memory they see the devices that still name
\* it, in Postgres they have become users of the whole tenant.
Stranded == {x \in Listing(Users) :
               user[x].dept # None /\ unit[user[x].dept] = Gone}

PgStep == UNCHANGED Pg!vars \/ Pg!Next

\* A history without the later rows of an instant it has already.
Once(h) == {h[i] : i \in {k \in DOMAIN h : \A j \in DOMAIN h : j < k => h[j].ts # h[k].ts}}

Reads(X) ==
    [lists |-> [x \in X |-> List(x, "live")], deleted |-> [x \in X |-> List(x, "deleted")],
     active |-> Active,
     latest |-> [d \in Devices |-> Latest(d)],
     history |-> [d \in Devices |-> [w \in Times \X Times |-> Once(History(d, w[1], w[2]))]]]

\* A read returns what it would from the tables, to users whose group is there and
\* but for the repeats in a history.
ReadsAgree == LET X == Listing(Users) \ Stranded IN Reads(X) = Pg!Reads(X)

\* What the tests rely on: after any calls, the maps are the tables; a call is
\* answered and a read returns as it would from them (to users whose group is still
\* there).  One read does not: a history has the tables' row of each instant, and
\* after it those the tables refused, so it is theirs only where no instant was
\* reported twice.
MirrorsPostgres == Pg!Init /\ [][PgStep]_vars /\ []ReadsAgree

=============================================================================
