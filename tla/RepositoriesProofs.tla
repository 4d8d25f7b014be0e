------------------------- MODULE RepositoriesProofs -------------------------
(***************************************************************************)
(* Proof that the in-memory repositories implement the Postgres ones,      *)
(* whatever the tenants, groups, users, devices, positions and bounds:     *)
(* every call is one of PgRepositories with the same answer, and every     *)
(* read returns what it would there.                                       *)
(***************************************************************************)
EXTENDS MCControlPlane, Integers, FiniteSetTheorems, SequenceTheorems,
        WellFoundedInduction, TLAPS

Maybe == Units \cup {None}
UnitRow == [st : {"live"}, tenant : Tenants, parent : Maybe]
UserRow == [st : {"live"}, tenant : Tenants, email : Emails, dept : Maybe]
DeviceRow == [st : {"live", "deleted"}, tenant : Tenants, imei : Imeis, dept : Maybe,
              sends : BOOLEAN]
\* Alerts and settings are written alike in both, whatever they hold.
Typed ==
    /\ unit \in [Units -> {Repos!Free, Repos!Gone} \cup UnitRow]
    /\ user \in [Users -> {Repos!Free} \cup UserRow]
    /\ device \in [Devices -> {Repos!Free} \cup DeviceRow]
    /\ rows \in Seq(Repos!Row)

\* A group that a row names has been created.
Named == \A x \in Users : user[x] # Repos!Free /\ user[x].dept # None => unit[user[x].dept] # Repos!Free

MirrorInv == Typed /\ Named /\ Len(rows) <= MaxRows

-----------------------------------------------------------------------------
(* Groups                                                                  *)

\* The walk up and the list of the doomed find each other's ends.
LEMMA WalksMeet ==
  ASSUME Typed, NEW u \in Units, NEW v \in Units
  PROVE  v \in Repos!Below(u) <=> u \in Repos!Pg!Chain(Repos!Pg!Parents(unit), v)
<1> DEFINE Above(x) == Repos!Pg!Chain(Repos!Pg!Parents(unit), x)
<1>1. \A x \in Units : unit[x].st = "live" =>
        /\ unit[x] \in UnitRow
        /\ Repos!Pg!Parents(unit)[x] = unit[x].parent
        /\ unit[x].parent \in Maybe
  BY DEF Typed, Repos!Pg!Parents, UnitRow, Repos!Free, Repos!Gone
<1>2. \A x \in Units : unit[x].st # "live" => Repos!Pg!Parents(unit)[x] = None
  BY DEF Repos!Pg!Parents
<1>3. ASSUME v \in Repos!Below(u)
      PROVE  u \in Above(v)
  <2> DEFINE S == {x \in Units : u \in Above(x)}
  <2>1. S \in SUBSET Units /\ u \in S
    BY DEF Repos!Pg!Chain
  <2>2. Repos!HasChildren(S)
    <3> SUFFICES ASSUME NEW y \in Units, unit[y].st = "live", unit[y].parent \in S
                 PROVE  u \in Above(y)
      BY DEF Repos!HasChildren
    <3>1. u \in Above(unit[y].parent) /\ unit[y].parent \in Units
      OBVIOUS
    <3>2. \A T \in SUBSET Units : y \in T /\ Repos!Pg!Rising(Repos!Pg!Parents(unit), T) =>
            unit[y].parent \in T \/ unit[y].parent = None
      BY <1>1 DEF Repos!Pg!Rising
    <3>4. unit[y].parent # None
      BY RepositoriesAssumption
    <3> QED
      BY <3>1, <3>2, <3>4 DEF Repos!Pg!Chain
  <2> QED
    BY <1>3, <2>1, <2>2 DEF Repos!Below
<1>4. ASSUME u \in Above(v)
      PROVE  v \in Repos!Below(u)
  <2> DEFINE T == {y \in Units : v \in Repos!Below(y)}
  <2>1. T \in SUBSET Units /\ v \in T
    BY DEF Repos!Below
  <2>2. Repos!Pg!Rising(Repos!Pg!Parents(unit), T)
    <3> SUFFICES ASSUME NEW y \in T, Repos!Pg!Parents(unit)[y] # None
                 PROVE  Repos!Pg!Parents(unit)[y] \in T
      BY DEF Repos!Pg!Rising
    <3>1. unit[y].st = "live" /\ Repos!Pg!Parents(unit)[y] = unit[y].parent /\ unit[y].parent \in Units
      BY <1>1, <1>2 DEF Maybe
    <3>2. \A S \in SUBSET Units : unit[y].parent \in S /\ Repos!HasChildren(S) => y \in S
      BY <3>1 DEF Repos!HasChildren
    <3>3. v \in Repos!Below(unit[y].parent)
      BY <3>2 DEF Repos!Below
    <3> QED
      BY <3>1, <3>3
  <2> QED
    BY <1>4, <2>1, <2>2 DEF Repos!Pg!Chain
<1> QED
  BY <1>3, <1>4

LEMMA DoomedAreLive ==
  ASSUME Typed, NEW u \in Units, unit[u].st = "live", NEW v \in Repos!Below(u)
  PROVE  v \in Units /\ unit[v].st = "live"
<1> DEFINE S == {x \in Units : unit[x].st = "live"}
<1>1. S \in SUBSET Units /\ u \in S /\ Repos!HasChildren(S)
  BY DEF Repos!HasChildren
<1> QED
  BY <1>1 DEF Repos!Below

\* What the cascade of the foreign key removes.
LEMMA DoomedAgree ==
  ASSUME Typed, NEW u \in Units, unit[u].st = "live"
  PROVE  Repos!Pg!Subtree(unit, u) = Repos!Below(u)
<1>1. \A v : v \in Repos!Pg!Subtree(unit, u) <=> v \in Repos!Below(u)
  <2> SUFFICES ASSUME NEW v
               PROVE  v \in Repos!Pg!Subtree(unit, u) <=> v \in Repos!Below(u)
    OBVIOUS
  <2>1. v \in Repos!Below(u) => v \in Units /\ unit[v].st = "live"
    BY DoomedAreLive
  <2>2. v \in Units => (v \in Repos!Below(u) <=> u \in Repos!Pg!Chain(Repos!Pg!Parents(unit), v))
    BY WalksMeet
  <2> QED
    BY <2>1, <2>2 DEF Repos!Pg!Subtree
<1> QED
  BY <1>1

-----------------------------------------------------------------------------
(* References to groups that are gone                                      *)

\* A row as Postgres has it, when the groups are un.
Seen(un, row) ==
    IF row # Repos!Free /\ row.dept # None /\ un[row.dept] = Repos!Gone
    THEN [row EXCEPT !.dept = None] ELSE row

Folded(un, tab) == [k \in DOMAIN tab |-> Seen(un, tab[k])]

LEMMA GroupedIs == \A tab : Repos!Grouped(tab) = Folded(unit, tab)
  BY DEF Repos!Grouped, Folded, Seen

LEMMA GroupedWillBe ==
  /\ Repos!Grouped(user)' = Folded(unit', user')
  /\ Repos!Grouped(device)' = Folded(unit', device')
  BY DEF Repos!Grouped, Folded, Seen

LEMMA SeenUser ==
  ASSUME NEW un, NEW row \in {Repos!Free} \cup UserRow
  PROVE  /\ Seen(un, row) \in {Repos!Free} \cup UserRow
         /\ Seen(un, row) = Repos!Free <=> row = Repos!Free
         /\ row # Repos!Free =>
              /\ Seen(un, row).st = row.st /\ Seen(un, row).tenant = row.tenant
              /\ Seen(un, row).email = row.email
              /\ row.dept = None \/ un[row.dept] = Repos!Gone => Seen(un, row).dept = None
              /\ ~(row.dept # None /\ un[row.dept] = Repos!Gone) => Seen(un, row) = row
<1>1. CASE row = Repos!Free
  BY <1>1 DEF Seen
<1>2. CASE row # Repos!Free
  <2>1. row \in UserRow
    BY <1>2
  <2>2. PICK new : new = [row EXCEPT !.dept = None]
    OBVIOUS
  <2>3. /\ new \in UserRow /\ new.dept = None
        /\ new.st = row.st /\ new.tenant = row.tenant /\ new.email = row.email
    BY <2>1, <2>2 DEF UserRow, Maybe
  <2>4. new # Repos!Free /\ row # Repos!Free
    BY <2>1, <2>3 DEF UserRow, Repos!Free
  <2>5. Seen(un, row) = IF row.dept # None /\ un[row.dept] = Repos!Gone THEN new ELSE row
    BY <1>2, <2>2 DEF Seen
  <2> QED
    BY <1>2, <2>1, <2>3, <2>4, <2>5
<1> QED
  BY <1>1, <1>2

LEMMA SeenDevice ==
  ASSUME NEW un, NEW row \in {Repos!Free} \cup DeviceRow
  PROVE  /\ Seen(un, row) \in {Repos!Free} \cup DeviceRow
         /\ Seen(un, row) = Repos!Free <=> row = Repos!Free
         /\ row # Repos!Free =>
              /\ Seen(un, row).st = row.st /\ Seen(un, row).tenant = row.tenant
              /\ Seen(un, row).imei = row.imei /\ Seen(un, row).sends = row.sends
              /\ row.dept = None \/ un[row.dept] = Repos!Gone => Seen(un, row).dept = None
              /\ ~(row.dept # None /\ un[row.dept] = Repos!Gone) => Seen(un, row) = row
<1>1. CASE row = Repos!Free
  BY <1>1 DEF Seen
<1>2. CASE row # Repos!Free
  <2>1. row \in DeviceRow
    BY <1>2
  <2>2. PICK new : new = [row EXCEPT !.dept = None]
    OBVIOUS
  <2>3. /\ new \in DeviceRow /\ new.dept = None
        /\ new.st = row.st /\ new.tenant = row.tenant
        /\ new.imei = row.imei /\ new.sends = row.sends
    BY <2>1, <2>2 DEF DeviceRow, Maybe
  <2>4. new # Repos!Free /\ row # Repos!Free
    BY <2>1, <2>3 DEF DeviceRow, Repos!Free
  <2>5. Seen(un, row) = IF row.dept # None /\ un[row.dept] = Repos!Gone THEN new ELSE row
    BY <1>2, <2>2 DEF Seen
  <2> QED
    BY <1>2, <2>1, <2>3, <2>4, <2>5
<1> QED
  BY <1>1, <1>2

LEMMA FoldsStay ==
  ASSUME Typed, NEW un, \A v \in Units : un[v] = Repos!Gone <=> unit[v] = Repos!Gone
  PROVE  Folded(un, user) = Folded(unit, user) /\ Folded(un, device) = Folded(unit, device)
<1>1. \A x \in Users : Seen(un, user[x]) = Seen(unit, user[x])
  BY DEF Typed, Seen, UserRow, Maybe
<1>2. \A d \in Devices : Seen(un, device[d]) = Seen(unit, device[d])
  BY DEF Typed, Seen, DeviceRow, Maybe
<1> QED
  BY <1>1, <1>2 DEF Typed, Folded

LEMMA TableStays ==
  ASSUME rows' = rows
  PROVE  Repos!Table' = Repos!Table
  BY DEF Repos!Table, Repos!First

-----------------------------------------------------------------------------
(* Calls about groups                                                      *)

LEMMA CreateUnitMirrors ==
  ASSUME MirrorInv, NEW t \in Tenants, NEW u \in Units, NEW p \in Maybe,
         Repos!CreateUnit(t, u, p)
  PROVE  Repos!Pg!CreateUnit(t, u, p)
<1>1. \A v \in Units : unit'[v] = Repos!Gone <=> unit[v] = Repos!Gone
  BY DEF Repos!CreateUnit, MirrorInv, Typed, Repos!Free, Repos!Gone
<1>2. Repos!Grouped(user)' = Repos!Grouped(user) /\ Repos!Grouped(device)' = Repos!Grouped(device)
  BY <1>1, FoldsStay, GroupedIs, GroupedWillBe DEF MirrorInv, Repos!CreateUnit
<1>3. Repos!Table' = Repos!Table
  BY TableStays DEF Repos!CreateUnit
<1> QED
  BY <1>2, <1>3 DEF Repos!CreateUnit, Repos!Pg!CreateUnit, Repos!May, Repos!Pg!May,
     Repos!Live, Repos!Pg!Live, Repos!Free, Repos!Pg!Free, Repos!Done, Repos!Pg!Done

LEMMA MoveUnitMirrors ==
  ASSUME MirrorInv, NEW t \in Tenants, NEW u \in Units, NEW p \in Maybe,
         Repos!MoveUnit(t, u, p)
  PROVE  Repos!Pg!MoveUnit(t, u, p)
<1>1. unit[u].st = "live" /\ unit[u] \in UnitRow
  BY DEF Repos!MoveUnit, Repos!Live, MirrorInv, Typed, Repos!Free, Repos!Gone
<1>2. \A v \in Units : unit'[v] = Repos!Gone <=> unit[v] = Repos!Gone
  <2>1. CASE unit' = unit
    BY <2>1
  <2>2. CASE unit' = [unit EXCEPT ![u].parent = p]
    <3>1. PICK new : new = [unit[u] EXCEPT !.parent = p]
      OBVIOUS
    <3>2. new.st = "live"
      BY <1>1, <3>1 DEF UnitRow
    <3>3. unit' = [unit EXCEPT ![u] = new]
      BY <2>2, <3>1
    <3> QED
      BY <1>1, <3>2, <3>3 DEF MirrorInv, Typed, Repos!Gone
  <2> QED
    BY <2>1, <2>2 DEF Repos!MoveUnit
<1>3. Repos!Grouped(user)' = Repos!Grouped(user) /\ Repos!Grouped(device)' = Repos!Grouped(device)
  BY <1>2, FoldsStay, GroupedIs, GroupedWillBe DEF MirrorInv, Repos!MoveUnit
<1>4. Repos!Table' = Repos!Table
  BY TableStays DEF Repos!MoveUnit
<1>5. p \in Repos!Below(u) <=> p # None /\ u \in Repos!Pg!Chain(Repos!Pg!Parents(unit), p)
  <2>1. CASE p = None
    BY <2>1, RepositoriesAssumption DEF Repos!Below
  <2>2. CASE p \in Units
    BY <2>2, WalksMeet, RepositoriesAssumption DEF MirrorInv
  <2> QED
    BY <2>1, <2>2 DEF Maybe
<1> QED
  BY <1>3, <1>4, <1>5 DEF Repos!MoveUnit, Repos!Pg!MoveUnit, Repos!May, Repos!Pg!May,
     Repos!Live, Repos!Pg!Live, Repos!Done, Repos!Pg!Done, Repos!Refused,
     Repos!Pg!Refused

\* Removal of the groups doomed, seen in a row.
LEMMA SeenAfterRemoval ==
  ASSUME NEW doomed \in SUBSET Units, NEW row, NEW un, NEW un2,
         un2 = [v \in Units |-> IF v \in doomed THEN Repos!Gone ELSE un[v]],
         Seen(un, row) = Repos!Free <=> row = Repos!Free,
         row # Repos!Free =>
           /\ row.dept \in Maybe
           /\ row.dept = None \/ un[row.dept] = Repos!Gone => Seen(un, row).dept = None
           /\ ~(row.dept # None /\ un[row.dept] = Repos!Gone) => Seen(un, row) = row
  PROVE  Seen(un2, row) =
           LET seen == Seen(un, row)
           IN  IF seen # Repos!Pg!Free /\ seen.dept \in doomed
               THEN [seen EXCEPT !.dept = None] ELSE seen
<1>1. Repos!Pg!Free = Repos!Free
  BY DEF Repos!Pg!Free, Repos!Free
<1>2. CASE row = Repos!Free
  BY <1>1, <1>2 DEF Seen
<1>3. CASE row # Repos!Free /\ (row.dept = None \/ un[row.dept] = Repos!Gone)
  <2>1. None \notin doomed
    BY RepositoriesAssumption
  <2>2. row.dept # None => row.dept \in Units /\ un2[row.dept] = Repos!Gone
    BY <1>3 DEF Maybe
  <2>3. Seen(un2, row) = Seen(un, row)
    BY <1>3, <2>2 DEF Seen
  <2> QED
    BY <1>3, <2>1, <2>3
<1>4. CASE row # Repos!Free /\ row.dept # None /\ un[row.dept] # Repos!Gone
  <2>1. row.dept \in Units
    BY <1>4 DEF Maybe
  <2>2. un2[row.dept] = Repos!Gone <=> row.dept \in doomed
    BY <1>4, <2>1
  <2>3. Seen(un, row) = row
    BY <1>4
  <2>4. Seen(un2, row) = IF row.dept \in doomed THEN [row EXCEPT !.dept = None] ELSE row
    BY <1>4, <2>2 DEF Seen
  <2> QED
    BY <1>1, <1>4, <2>3, <2>4
<1> QED
  BY <1>2, <1>3, <1>4

LEMMA RemoveUnitMirrors ==
  ASSUME MirrorInv, NEW t \in Tenants, NEW u \in Units, Repos!RemoveUnit(t, u)
  PROVE  Repos!Pg!RemoveUnit(t, u)
<1>1. unit[u].st = "live"
  BY DEF Repos!RemoveUnit, Repos!Live
<1>2. PICK doomed : doomed = Repos!Below(u) /\ doomed = Repos!Pg!Subtree(unit, u)
  BY <1>1, DoomedAgree DEF MirrorInv
<1>3. /\ unit' = [v \in Units |-> IF v \in doomed THEN Repos!Gone ELSE unit[v]]
      /\ user' = user /\ device' = device
      /\ doomed \in SUBSET Units
  BY <1>2 DEF Repos!RemoveUnit, Repos!Below
<1>4. Repos!Grouped(user)' = Repos!Pg!Ungroup(Repos!Grouped(user), doomed)
  <2>1. ASSUME NEW x \in Users
        PROVE  Seen(unit', user[x]) =
                 LET seen == Seen(unit, user[x])
                 IN  IF seen # Repos!Pg!Free /\ seen.dept \in doomed
                     THEN [seen EXCEPT !.dept = None] ELSE seen
    <3>1. user[x] \in {Repos!Free} \cup UserRow /\ (user[x] # Repos!Free => user[x].dept \in Maybe)
      BY DEF MirrorInv, Typed, UserRow
    <3>2. PICK row : row = user[x]
      OBVIOUS
    <3>3. Seen(unit, row) = Repos!Free <=> row = Repos!Free
      BY <3>1, <3>2, SeenUser
    <3>4. row # Repos!Free =>
            /\ row.dept \in Maybe
            /\ row.dept = None \/ unit[row.dept] = Repos!Gone => Seen(unit, row).dept = None
            /\ ~(row.dept # None /\ unit[row.dept] = Repos!Gone) => Seen(unit, row) = row
      BY <3>1, <3>2, SeenUser
    <3>5. PICK un2 : un2 = unit'
      OBVIOUS
    <3>6. un2 = [v \in Units |-> IF v \in doomed THEN Repos!Gone ELSE unit[v]]
      BY <1>3, <3>5
    <3>7. Seen(un2, row) =
            LET seen == Seen(unit, row)
            IN  IF seen # Repos!Pg!Free /\ seen.dept \in doomed
                THEN [seen EXCEPT !.dept = None] ELSE seen
      BY <1>3, <3>3, <3>4, <3>6, SeenAfterRemoval
    <3> QED
      BY <3>2, <3>5, <3>7
  <2>2. Repos!Grouped(user)' = [x \in Users |-> Seen(unit', user[x])]
    BY <1>3, GroupedWillBe DEF Folded, MirrorInv, Typed
  <2>3. Repos!Grouped(user) = [x \in Users |-> Seen(unit, user[x])]
    BY GroupedIs DEF Folded, MirrorInv, Typed
  <2> QED
    BY <2>1, <2>2, <2>3 DEF Repos!Pg!Ungroup
<1>5. Repos!Grouped(device)' = Repos!Pg!Ungroup(Repos!Grouped(device), doomed)
  <2>1. ASSUME NEW d \in Devices
        PROVE  Seen(unit', device[d]) =
                 LET seen == Seen(unit, device[d])
                 IN  IF seen # Repos!Pg!Free /\ seen.dept \in doomed
                     THEN [seen EXCEPT !.dept = None] ELSE seen
    <3>1. device[d] \in {Repos!Free} \cup DeviceRow /\ (device[d] # Repos!Free => device[d].dept \in Maybe)
      BY DEF MirrorInv, Typed, DeviceRow
    <3>2. PICK row : row = device[d]
      OBVIOUS
    <3>3. Seen(unit, row) = Repos!Free <=> row = Repos!Free
      BY <3>1, <3>2, SeenDevice
    <3>4. row # Repos!Free =>
            /\ row.dept \in Maybe
            /\ row.dept = None \/ unit[row.dept] = Repos!Gone => Seen(unit, row).dept = None
            /\ ~(row.dept # None /\ unit[row.dept] = Repos!Gone) => Seen(unit, row) = row
      BY <3>1, <3>2, SeenDevice
    <3>5. PICK un2 : un2 = unit'
      OBVIOUS
    <3>6. un2 = [v \in Units |-> IF v \in doomed THEN Repos!Gone ELSE unit[v]]
      BY <1>3, <3>5
    <3>7. Seen(un2, row) =
            LET seen == Seen(unit, row)
            IN  IF seen # Repos!Pg!Free /\ seen.dept \in doomed
                THEN [seen EXCEPT !.dept = None] ELSE seen
      BY <1>3, <3>3, <3>4, <3>6, SeenAfterRemoval
    <3> QED
      BY <3>2, <3>5, <3>7
  <2>2. Repos!Grouped(device)' = [d \in Devices |-> Seen(unit', device[d])]
    BY <1>3, GroupedWillBe DEF Folded, MirrorInv, Typed
  <2>3. Repos!Grouped(device) = [d \in Devices |-> Seen(unit, device[d])]
    BY GroupedIs DEF Folded, MirrorInv, Typed
  <2> QED
    BY <2>1, <2>2, <2>3 DEF Repos!Pg!Ungroup
<1>6. Repos!Table' = Repos!Table
  BY TableStays DEF Repos!RemoveUnit
<1> QED
  BY <1>2, <1>4, <1>5, <1>6 DEF Repos!RemoveUnit, Repos!Pg!RemoveUnit, Repos!May,
     Repos!Pg!May, Repos!Live, Repos!Pg!Live, Repos!Done, Repos!Pg!Done, Repos!Gone,
     Repos!Pg!Gone

-----------------------------------------------------------------------------
(* Calls about users and devices                                           *)

LEMMA UsersAgree ==
  ASSUME Typed, NEW x \in Users
  PROVE  /\ Repos!Grouped(user)[x] = Repos!Free <=> user[x] = Repos!Free
         /\ user[x] # Repos!Free => /\ Repos!Grouped(user)[x].tenant = user[x].tenant
                                    /\ Repos!Grouped(user)[x].email = user[x].email
<1>1. Repos!Grouped(user)[x] = Seen(unit, user[x]) /\ user[x] \in {Repos!Free} \cup UserRow
  BY GroupedIs DEF Folded, Typed
<1> QED
  BY <1>1, SeenUser

LEMMA DevicesAgree ==
  ASSUME Typed, NEW d \in Devices
  PROVE  /\ Repos!Grouped(device)[d] = Seen(unit, device[d])
         /\ Repos!Grouped(device)[d] = Repos!Free <=> device[d] = Repos!Free
         /\ Repos!Grouped(device)[d].st = device[d].st
         /\ device[d] # Repos!Free => /\ device[d] \in DeviceRow
                                      /\ Repos!Grouped(device)[d].tenant = device[d].tenant
                                      /\ Repos!Grouped(device)[d].imei = device[d].imei
                                      /\ Repos!Grouped(device)[d].sends = device[d].sends
                                      /\ Repos!Grouped(device)[d] \in DeviceRow
<1>1. Repos!Grouped(device)[d] = Seen(unit, device[d]) /\ device[d] \in {Repos!Free} \cup DeviceRow
  BY GroupedIs DEF Folded, Typed
<1> QED
  BY <1>1, SeenDevice

LEMMA UserWritten ==
  ASSUME Typed, NEW x \in Users, NEW row, unit' = unit, user' = [user EXCEPT ![x] = row]
  PROVE  Repos!Grouped(user)' = [Repos!Grouped(user) EXCEPT ![x] = Seen(unit, row)]
<1>1. PICK written : written = [user EXCEPT ![x] = row]
  OBVIOUS
<1>2. Folded(unit, written) = [Folded(unit, user) EXCEPT ![x] = Seen(unit, row)]
  BY <1>1 DEF Folded, Typed
<1> QED
  BY <1>1, <1>2, GroupedIs, GroupedWillBe

LEMMA DeviceWritten ==
  ASSUME Typed, NEW d \in Devices, NEW row, unit' = unit, device' = [device EXCEPT ![d] = row]
  PROVE  Repos!Grouped(device)' = [Repos!Grouped(device) EXCEPT ![d] = Seen(unit, row)]
<1>1. PICK written : written = [device EXCEPT ![d] = row]
  OBVIOUS
<1>2. Folded(unit, written) = [Folded(unit, device) EXCEPT ![d] = Seen(unit, row)]
  BY <1>1 DEF Folded, Typed
<1> QED
  BY <1>1, <1>2, GroupedIs, GroupedWillBe

\* Tables that no call wrote are the same under Postgres too.
LEMMA TablesStay ==
  ASSUME unit' = unit
  PROVE  /\ user' = user => Repos!Grouped(user)' = Repos!Grouped(user)
         /\ device' = device => Repos!Grouped(device)' = Repos!Grouped(device)
  BY GroupedIs, GroupedWillBe

LEMMA CreateUserMirrors ==
  ASSUME MirrorInv, NEW t \in Tenants, NEW x \in Users, NEW mail \in Emails,
         NEW dept \in Maybe, Repos!CreateUser(t, x, mail, dept)
  PROVE  Repos!Pg!CreateUser(t, x, mail, dept)
<1>1. Typed /\ unit' = unit /\ device' = device /\ rows' = rows
  BY DEF MirrorInv, Repos!CreateUser
<1>2. Repos!Grouped(device)' = Repos!Grouped(device) /\ Repos!Table' = Repos!Table
  BY <1>1, TablesStay, TableStays
<1>3. (\E y \in Users : user[y] # Repos!Free /\ user[y].email = mail) <=>
      (\E y \in Users : Repos!Grouped(user)[y] # Repos!Free /\ Repos!Grouped(user)[y].email = mail)
  BY <1>1, UsersAgree
<1>4. Repos!Grouped(user)[x] = Repos!Free
  BY <1>1, UsersAgree DEF Repos!CreateUser
<1>5. PICK row : row = [st |-> "live", tenant |-> t, email |-> mail, dept |-> dept]
  OBVIOUS
<1>6. row.dept = dept /\ (dept # None => unit[dept] # Repos!Gone)
  BY <1>5 DEF Repos!CreateUser, Repos!Live, Repos!Gone
<1>7. Seen(unit, row) = row
  BY <1>6 DEF Seen
<1>8. ASSUME user' = [user EXCEPT ![x] = row]
      PROVE  Repos!Grouped(user)' = [Repos!Grouped(user) EXCEPT ![x] = row]
  <2>1. Repos!Grouped(user)' = [Repos!Grouped(user) EXCEPT ![x] = Seen(unit, row)]
    BY <1>1, <1>8, UserWritten
  <2> QED
    BY <1>7, <2>1
<1>9. user' = user => Repos!Grouped(user)' = Repos!Grouped(user)
  BY <1>1, TablesStay
<1>10. IF \E y \in Users : Repos!Grouped(user)[y] # Repos!Free /\ Repos!Grouped(user)[y].email = mail
       THEN answer' = Repos!Refused /\ Repos!Grouped(user)' = Repos!Grouped(user)
       ELSE answer' = Repos!Done /\ Repos!Grouped(user)' = [Repos!Grouped(user) EXCEPT ![x] = row]
  BY <1>3, <1>5, <1>8, <1>9 DEF Repos!CreateUser
<1>11. /\ Repos!Pg!May /\ (dept # None => Repos!Pg!Live(t, dept)) /\ Repos!Pg!Free = Repos!Free
       /\ Repos!Pg!Done = Repos!Done /\ Repos!Pg!Refused = Repos!Refused
       /\ UNCHANGED <<unit, alert, settings>>
  BY DEF Repos!CreateUser, Repos!May, Repos!Pg!May, Repos!Live, Repos!Pg!Live,
     Repos!Free, Repos!Pg!Free, Repos!Done, Repos!Pg!Done, Repos!Refused,
     Repos!Pg!Refused
<1> QED
  BY <1>2, <1>4, <1>5, <1>10, <1>11 DEF Repos!Pg!CreateUser

LEMMA TakenAgree ==
  ASSUME Typed, NEW imei
  PROVE  Repos!ByImei(imei) # {} <=> Repos!Pg!Taken(imei)
<1>1. \A d \in Devices : device[d].st = "live" => device[d] # Repos!Free
  BY DEF Repos!Free
<1>2. \A d \in Devices : (device[d].st = "live" /\ device[d].imei = imei) <=>
        (Repos!Grouped(device)[d].st = "live" /\ Repos!Grouped(device)[d].imei = imei)
  BY <1>1, DevicesAgree
<1> QED
  BY <1>2 DEF Repos!ByImei, Repos!Pg!Taken

LEMMA ProvisionMirrors ==
  ASSUME MirrorInv, NEW t \in Tenants, NEW d \in Devices, NEW imei \in Imeis,
         NEW dept \in Maybe, Repos!Provision(t, d, imei, dept)
  PROVE  Repos!Pg!Provision(t, d, imei, dept)
<1>1. Typed /\ unit' = unit /\ user' = user /\ rows' = rows
  BY DEF MirrorInv, Repos!Provision
<1>2. Repos!Grouped(user)' = Repos!Grouped(user) /\ Repos!Table' = Repos!Table
  BY <1>1, TablesStay, TableStays
<1>3. Repos!ByImei(imei) # {} <=> Repos!Pg!Taken(imei)
  BY <1>1, TakenAgree
<1>4. Repos!Grouped(device)[d] = Repos!Free
  BY <1>1, DevicesAgree DEF Repos!Provision
<1>5. PICK row : row = [st |-> "live", tenant |-> t, imei |-> imei, dept |-> dept,
                        sends |-> TRUE]
  OBVIOUS
<1>6. row.dept = dept /\ (dept # None => unit[dept] # Repos!Gone)
  BY <1>5 DEF Repos!Provision, Repos!Live, Repos!Gone
<1>7. Seen(unit, row) = row
  BY <1>6 DEF Seen
<1>8. ASSUME device' = [device EXCEPT ![d] = row]
      PROVE  Repos!Grouped(device)' = [Repos!Grouped(device) EXCEPT ![d] = row]
  <2>1. Repos!Grouped(device)' = [Repos!Grouped(device) EXCEPT ![d] = Seen(unit, row)]
    BY <1>1, <1>8, DeviceWritten
  <2> QED
    BY <1>7, <2>1
<1>9. device' = device => Repos!Grouped(device)' = Repos!Grouped(device)
  BY <1>1, TablesStay
<1>10. IF Repos!Pg!Taken(imei)
       THEN answer' = Repos!Refused /\ Repos!Grouped(device)' = Repos!Grouped(device)
       ELSE answer' = Repos!Done /\ Repos!Grouped(device)' = [Repos!Grouped(device) EXCEPT ![d] = row]
  BY <1>3, <1>5, <1>8, <1>9 DEF Repos!Provision
<1>11. /\ Repos!Pg!May /\ (dept # None => Repos!Pg!Live(t, dept)) /\ Repos!Pg!Free = Repos!Free
       /\ Repos!Pg!Done = Repos!Done /\ Repos!Pg!Refused = Repos!Refused
       /\ UNCHANGED <<unit, alert, settings>>
  BY DEF Repos!Provision, Repos!May, Repos!Pg!May, Repos!Live, Repos!Pg!Live,
     Repos!Free, Repos!Pg!Free, Repos!Done, Repos!Pg!Done, Repos!Refused,
     Repos!Pg!Refused
<1> QED
  BY <1>2, <1>4, <1>5, <1>10, <1>11 DEF Repos!Pg!Provision

\* A field that is written and a reference that is cleared are written in either
\* order.
LEMMA SeenAssigned ==
  ASSUME NEW un, NEW row \in DeviceRow, NEW dept \in Maybe, dept = None \/ un[dept] # Repos!Gone
  PROVE  Seen(un, [row EXCEPT !.dept = dept]) = [Seen(un, row) EXCEPT !.dept = dept]
<1>1. PICK new : new = [row EXCEPT !.dept = dept]
  OBVIOUS
<1>2. PICK loose : loose = [row EXCEPT !.dept = None]
  OBVIOUS
<1>3. new.dept = dept /\ new \in DeviceRow /\ row # Repos!Free /\ loose \in DeviceRow
  BY <1>1, <1>2 DEF DeviceRow, Maybe, Repos!Free
<1>6. [loose EXCEPT !.dept = dept] = new
  <2>1. PICK other : other = [loose EXCEPT !.dept = dept]
    OBVIOUS
  <2>2. other \in DeviceRow
    BY <1>3, <2>1 DEF DeviceRow
  <2>3. /\ other.st = new.st /\ other.tenant = new.tenant /\ other.imei = new.imei
        /\ other.dept = new.dept /\ other.sends = new.sends
    BY <1>1, <1>2, <1>3, <2>1 DEF DeviceRow
  <2> QED
    BY <1>3, <2>1, <2>2, <2>3 DEF DeviceRow
<1>4. Seen(un, new) = new
  BY <1>3 DEF Seen
<1>5. Seen(un, row) = row \/ Seen(un, row) = loose
  BY <1>2 DEF Seen
<1> QED
  BY <1>1, <1>4, <1>5, <1>6

LEMMA SeenSwitched ==
  ASSUME NEW un, NEW row \in DeviceRow, NEW sends \in BOOLEAN
  PROVE  Seen(un, [row EXCEPT !.sends = sends]) = [Seen(un, row) EXCEPT !.sends = sends]
<1>1. PICK new : new = [row EXCEPT !.sends = sends]
  OBVIOUS
<1>2. PICK loose : loose = [row EXCEPT !.dept = None]
  OBVIOUS
<1>3. /\ new \in DeviceRow /\ new.dept = row.dept /\ row # Repos!Free /\ new # Repos!Free
      /\ loose \in DeviceRow
  BY <1>1, <1>2 DEF DeviceRow, Maybe, Repos!Free
<1>6. [loose EXCEPT !.sends = sends] = [new EXCEPT !.dept = None]
  <2>1. PICK one : one = [loose EXCEPT !.sends = sends]
    OBVIOUS
  <2>2. PICK other : other = [new EXCEPT !.dept = None]
    OBVIOUS
  <2>3. one \in DeviceRow /\ other \in DeviceRow
    BY <1>3, <2>1, <2>2 DEF DeviceRow, Maybe
  <2>4. /\ other.st = one.st /\ other.tenant = one.tenant /\ other.imei = one.imei
        /\ other.dept = one.dept /\ other.sends = one.sends
    BY <1>1, <1>2, <1>3, <2>1, <2>2 DEF DeviceRow
  <2> QED
    BY <2>1, <2>2, <2>3, <2>4 DEF DeviceRow
<1>4. CASE row.dept # None /\ un[row.dept] = Repos!Gone
  <2>1. Seen(un, new) = [new EXCEPT !.dept = None] /\ Seen(un, row) = loose
    BY <1>2, <1>3, <1>4 DEF Seen
  <2> QED
    BY <1>1, <1>6, <2>1
<1>5. CASE ~(row.dept # None /\ un[row.dept] = Repos!Gone)
  <2>1. Seen(un, new) = new /\ Seen(un, row) = row
    BY <1>3, <1>5 DEF Seen
  <2> QED
    BY <1>1, <2>1
<1> QED
  BY <1>4, <1>5

LEMMA SeenKept ==
  ASSUME NEW un, NEW row \in DeviceRow, NEW st \in {"live", "deleted"}
  PROVE  Seen(un, [row EXCEPT !.st = st]) = [Seen(un, row) EXCEPT !.st = st]
<1>1. PICK new : new = [row EXCEPT !.st = st]
  OBVIOUS
<1>2. PICK loose : loose = [row EXCEPT !.dept = None]
  OBVIOUS
<1>3. /\ new \in DeviceRow /\ new.dept = row.dept /\ row # Repos!Free /\ new # Repos!Free
      /\ loose \in DeviceRow
  BY <1>1, <1>2 DEF DeviceRow, Maybe, Repos!Free
<1>6. [loose EXCEPT !.st = st] = [new EXCEPT !.dept = None]
  <2>1. PICK one : one = [loose EXCEPT !.st = st]
    OBVIOUS
  <2>2. PICK other : other = [new EXCEPT !.dept = None]
    OBVIOUS
  <2>3. one \in DeviceRow /\ other \in DeviceRow
    BY <1>3, <2>1, <2>2 DEF DeviceRow, Maybe
  <2>4. /\ other.st = one.st /\ other.tenant = one.tenant /\ other.imei = one.imei
        /\ other.dept = one.dept /\ other.sends = one.sends
    BY <1>1, <1>2, <1>3, <2>1, <2>2 DEF DeviceRow
  <2> QED
    BY <2>1, <2>2, <2>3, <2>4 DEF DeviceRow
<1>4. CASE row.dept # None /\ un[row.dept] = Repos!Gone
  <2>1. Seen(un, new) = [new EXCEPT !.dept = None] /\ Seen(un, row) = loose
    BY <1>2, <1>3, <1>4 DEF Seen
  <2> QED
    BY <1>1, <1>6, <2>1
<1>5. CASE ~(row.dept # None /\ un[row.dept] = Repos!Gone)
  <2>1. Seen(un, new) = new /\ Seen(un, row) = row
    BY <1>3, <1>5 DEF Seen
  <2> QED
    BY <1>1, <2>1
<1> QED
  BY <1>4, <1>5

LEMMA HasAgree ==
  ASSUME Typed, NEW t, NEW d \in Devices, NEW st \in {"live", "deleted"}, Repos!Has(t, d, st)
  PROVE  Repos!Pg!Has(t, d, st) /\ device[d] \in DeviceRow
<1>1. device[d] # Repos!Free
  BY DEF Repos!Has, Repos!Free
<1> QED
  BY <1>1, DevicesAgree DEF Repos!Has, Repos!Pg!Has

\* What every patch of a live device leaves alone.
LEMMA UpdateMirrors ==
  ASSUME MirrorInv, NEW t, NEW d \in Devices, NEW patched, Repos!Update(t, d, patched)
  PROVE  /\ Repos!Pg!May /\ Repos!Has(t, d, "live") /\ Repos!Pg!Has(t, d, "live") /\ device[d] \in DeviceRow
         /\ Repos!Grouped(device)' = [Repos!Grouped(device) EXCEPT ![d] = Seen(unit, patched)]
         /\ Repos!Grouped(device)[d] = Seen(unit, device[d])
         /\ answer' = Repos!Pg!Done
         /\ UNCHANGED <<unit, alert, settings>>
         /\ Repos!Grouped(user)' = Repos!Grouped(user) /\ Repos!Table' = Repos!Table
<1>1. /\ Typed /\ unit' = unit /\ user' = user /\ rows' = rows
      /\ device' = [device EXCEPT ![d] = patched] /\ Repos!Has(t, d, "live")
  BY DEF MirrorInv, Repos!Update
<1>2. Repos!Grouped(user)' = Repos!Grouped(user) /\ Repos!Table' = Repos!Table
  BY <1>1, TablesStay, TableStays
<1>3. Repos!Grouped(device)' = [Repos!Grouped(device) EXCEPT ![d] = Seen(unit, patched)]
  BY <1>1, DeviceWritten
<1>4. Repos!Pg!Has(t, d, "live") /\ device[d] \in DeviceRow
  BY <1>1, HasAgree
<1>5. Repos!Grouped(device)[d] = Seen(unit, device[d])
  BY <1>1, DevicesAgree
<1> QED
  BY <1>1, <1>2, <1>3, <1>4, <1>5 DEF Repos!Update, Repos!May, Repos!Pg!May, Repos!Done,
     Repos!Pg!Done

LEMMA AssignMirrors ==
  ASSUME MirrorInv, NEW t, NEW d \in Devices, NEW dept \in Maybe, Repos!Assign(t, d, dept)
  PROVE  Repos!Pg!Assign(t, d, dept)
<1>1. PICK patched : patched = [device[d] EXCEPT !.dept = dept]
  OBVIOUS
<1>2. Repos!Update(t, d, patched)
  BY <1>1 DEF Repos!Assign
<1>3. dept = None \/ unit[dept] # Repos!Gone
  BY DEF Repos!Assign, Repos!Live, Repos!Gone
<1>4. device[d] \in DeviceRow /\ Repos!Grouped(device)[d] = Seen(unit, device[d])
  BY <1>2, UpdateMirrors
<1>5. Seen(unit, patched) = [Repos!Grouped(device)[d] EXCEPT !.dept = dept]
  BY <1>1, <1>3, <1>4, SeenAssigned
<1>6. Repos!Grouped(device)' = [Repos!Grouped(device) EXCEPT ![d].dept = dept]
  BY <1>2, <1>5, UpdateMirrors
<1>7. dept # None => Repos!Pg!Live(t, dept)
  BY DEF Repos!Assign, Repos!Live, Repos!Pg!Live
<1> QED
  BY <1>2, <1>6, <1>7, UpdateMirrors DEF Repos!Pg!Assign

LEMMA SetStatusMirrors ==
  ASSUME MirrorInv, NEW t, NEW d \in Devices, NEW sends \in BOOLEAN, Repos!SetStatus(t, d, sends)
  PROVE  Repos!Pg!SetStatus(t, d, sends)
<1>1. PICK patched : patched = [device[d] EXCEPT !.sends = sends]
  OBVIOUS
<1>2. Repos!Update(t, d, patched)
  BY <1>1 DEF Repos!SetStatus
<1>3. device[d] \in DeviceRow /\ Repos!Grouped(device)[d] = Seen(unit, device[d])
  BY <1>2, UpdateMirrors
<1>4. Seen(unit, patched) = [Repos!Grouped(device)[d] EXCEPT !.sends = sends]
  BY <1>1, <1>3, SeenSwitched
<1>5. Repos!Grouped(device)' = [Repos!Grouped(device) EXCEPT ![d].sends = sends]
  BY <1>2, <1>4, UpdateMirrors
<1>6. Repos!Grouped(device)[d].sends # sends
  <2>1. device[d] # Repos!Free
    BY <1>3 DEF DeviceRow, Repos!Free
  <2> QED
    BY <2>1, DevicesAgree DEF Repos!SetStatus, MirrorInv
<1> QED
  BY <1>2, <1>5, <1>6, UpdateMirrors DEF Repos!Pg!SetStatus

LEMMA SoftDeleteMirrors ==
  ASSUME MirrorInv, NEW t, NEW d \in Devices, Repos!SoftDelete(t, d)
  PROVE  Repos!Pg!SoftDelete(t, d)
<1>1. PICK patched : patched = [device[d] EXCEPT !.st = "deleted"]
  OBVIOUS
<1>2. Repos!Update(t, d, patched)
  BY <1>1 DEF Repos!SoftDelete
<1>3. device[d] \in DeviceRow /\ Repos!Grouped(device)[d] = Seen(unit, device[d])
  BY <1>2, UpdateMirrors
<1>4. Seen(unit, patched) = [Repos!Grouped(device)[d] EXCEPT !.st = "deleted"]
  <2>1. \A st \in {"live", "deleted"} :
          Seen(unit, [device[d] EXCEPT !.st = st]) = [Seen(unit, device[d]) EXCEPT !.st = st]
    BY <1>3, SeenKept
  <2> QED
    BY <1>1, <1>3, <2>1
<1>5. Repos!Grouped(device)' = [Repos!Grouped(device) EXCEPT ![d].st = "deleted"]
  BY <1>2, <1>4, UpdateMirrors
<1> QED
  BY <1>2, <1>5, UpdateMirrors DEF Repos!Pg!SoftDelete

LEMMA RestoreMirrors ==
  ASSUME MirrorInv, NEW t, NEW d \in Devices, Repos!Restore(t, d)
  PROVE  Repos!Pg!Restore(t, d)
<1>1. /\ Typed /\ unit' = unit /\ user' = user /\ rows' = rows /\ Repos!Has(t, d, "deleted")
      /\ \/ answer' = Repos!Refused /\ device' = device /\ Repos!ByImei(device[d].imei) # {}
         \/ /\ answer' = Repos!Done /\ device' = [device EXCEPT ![d].st = "live"]
            /\ Repos!ByImei(device[d].imei) = {}
  BY DEF MirrorInv, Repos!Restore
<1>2. Repos!Grouped(user)' = Repos!Grouped(user) /\ Repos!Table' = Repos!Table
  BY <1>1, TablesStay, TableStays
<1>3. Repos!Pg!Has(t, d, "deleted") /\ device[d] \in DeviceRow
  BY <1>1, HasAgree
<1>4. Repos!Grouped(device)[d].imei = device[d].imei /\ Repos!Grouped(device)[d] = Seen(unit, device[d])
  <2>1. device[d] # Repos!Free
    BY <1>3 DEF DeviceRow, Repos!Free
  <2> QED
    BY <1>1, <2>1, DevicesAgree
<1>5. Repos!ByImei(device[d].imei) # {} <=> Repos!Pg!Taken(Repos!Grouped(device)[d].imei)
  BY <1>1, <1>4, TakenAgree
<1>6. ASSUME device' = [device EXCEPT ![d].st = "live"]
      PROVE  Repos!Grouped(device)' = [Repos!Grouped(device) EXCEPT ![d].st = "live"]
  <2>1. PICK patched : patched = [device[d] EXCEPT !.st = "live"]
    OBVIOUS
  <2>2. Repos!Grouped(device)' = [Repos!Grouped(device) EXCEPT ![d] = Seen(unit, patched)]
    <3>1. device' = [device EXCEPT ![d] = patched]
      BY <1>6, <2>1
    <3> QED
      BY <1>1, <3>1, DeviceWritten
  <2>3. Seen(unit, patched) = [Repos!Grouped(device)[d] EXCEPT !.st = "live"]
    <3>1. \A st \in {"live", "deleted"} :
            Seen(unit, [device[d] EXCEPT !.st = st]) = [Seen(unit, device[d]) EXCEPT !.st = st]
      BY <1>3, SeenKept
    <3> QED
      BY <1>4, <2>1, <3>1
  <2> QED
    BY <2>2, <2>3
<1>7. device' = device => Repos!Grouped(device)' = Repos!Grouped(device)
  BY <1>1, TablesStay
<1>8. IF Repos!Pg!Taken(Repos!Grouped(device)[d].imei)
      THEN answer' = Repos!Pg!Refused /\ Repos!Grouped(device)' = Repos!Grouped(device)
      ELSE answer' = Repos!Pg!Done /\ Repos!Grouped(device)' = [Repos!Grouped(device) EXCEPT ![d].st = "live"]
  BY <1>1, <1>5, <1>6, <1>7 DEF Repos!Done, Repos!Pg!Done, Repos!Refused, Repos!Pg!Refused
<1>9. Repos!Pg!May /\ UNCHANGED <<unit, alert, settings>>
  BY DEF Repos!Restore, Repos!May, Repos!Pg!May
<1> QED
  BY <1>2, <1>3, <1>8, <1>9 DEF Repos!Pg!Restore

-----------------------------------------------------------------------------
(* Positions                                                               *)

LEMMA Least ==
  ASSUME NEW T \in SUBSET Nat, T # {}
  PROVE  \E x \in T : \A y \in T : x <= y
<1>1. PICK R : R = OpToRel(<, Nat)
  OBVIOUS
<1>2. IsWellFoundedOn(R, Nat) /\ \A x, y \in Nat : <<y, x>> \in R <=> y < x
  BY <1>1, NatLessThanWellFounded DEF OpToRel
<1>3. PICK x \in T : \A y \in T : ~(<<y, x>> \in R)
  BY <1>2, WFMin
<1>4. ASSUME NEW y \in T
      PROVE  x <= y
  <2>1. x \in Nat /\ y \in Nat /\ <<y, x>> \notin R
    BY <1>3
  <2>2. ~(y < x)
    BY <1>2, <2>1
  <2> QED
    BY <2>1, <2>2
<1> QED
  BY <1>4

\* The instant of a row, the first row of an instant, and the table of an array.
At(s, i) == <<s[i].dev, s[i].ts>>
Keys(s) == {At(s, i) : i \in DOMAIN s}
FirstOf(s, i) == \A j \in 1..(i - 1) : At(s, j) # At(s, i)
TableOf(s) == [k \in Keys(s) |-> s[CHOOSE i \in DOMAIN s : FirstOf(s, i) /\ At(s, i) = k].val]

LEMMA TableIs ==
  /\ Repos!Table = TableOf(rows) /\ Repos!Table' = TableOf(rows')
  /\ \A i : Repos!First(i) <=> FirstOf(rows, i)
  BY DEF Repos!Table, TableOf, Repos!First, FirstOf, At, Keys

LEMMA FirstExists ==
  ASSUME NEW s \in Seq(Repos!Row), NEW k \in Keys(s)
  PROVE  \E i \in DOMAIN s : FirstOf(s, i) /\ At(s, i) = k
<1> DEFINE T == {i \in DOMAIN s : At(s, i) = k}
<1>1. T \in SUBSET Nat /\ T # {}
  BY DEF Keys
<1>2. PICK i \in T : \A j \in T : i <= j
  BY <1>1, Least
<1>3. i \in DOMAIN s /\ At(s, i) = k /\ i \in 1..Len(s) /\ DOMAIN s = 1..Len(s)
  OBVIOUS
<1>4. ASSUME NEW j \in 1..(i - 1), At(s, j) = k
      PROVE  FALSE
  <2>1. j \in DOMAIN s /\ ~(i <= j)
    BY <1>3
  <2> QED
    BY <1>2, <1>4, <2>1
<1> QED
  BY <1>3, <1>4 DEF FirstOf

LEMMA FirstIsOne ==
  ASSUME NEW s \in Seq(Repos!Row), NEW i \in DOMAIN s, NEW j \in DOMAIN s,
         FirstOf(s, i), FirstOf(s, j), At(s, i) = At(s, j)
  PROVE  i = j
<1>1. i \in Nat \ {0} /\ j \in Nat \ {0}
  OBVIOUS
<1>2. ~(i < j) /\ ~(j < i)
  BY <1>1 DEF FirstOf
<1> QED
  BY <1>1, <1>2

\* The table holds the first row of each instant.
LEMMA TableHolds ==
  ASSUME NEW s \in Seq(Repos!Row), NEW i \in DOMAIN s, FirstOf(s, i)
  PROVE  At(s, i) \in Keys(s) /\ TableOf(s)[At(s, i)] = s[i].val
<1>1. At(s, i) \in Keys(s)
  BY DEF Keys
<1>2. PICK c : c = CHOOSE j \in DOMAIN s : FirstOf(s, j) /\ At(s, j) = At(s, i)
  OBVIOUS
<1>3. c \in DOMAIN s /\ FirstOf(s, c) /\ At(s, c) = At(s, i)
  BY <1>2
<1>4. c = i
  BY <1>3, FirstIsOne
<1> QED
  BY <1>1, <1>2, <1>4 DEF TableOf

\* Rows that are appended add the instants that were not there.
LEMMA TableGrows ==
  ASSUME NEW s \in Seq(Repos!Row), NEW new \in Seq(Repos!Row)
  PROVE  /\ Keys(s \o new) = Keys(s) \cup Keys(new)
         /\ TableOf(s \o new) =
              [k \in Keys(s) \cup Keys(new) |->
                 IF k \in Keys(s) THEN TableOf(s)[k] ELSE TableOf(new)[k]]
<1>1. PICK joint : joint = s \o new
  OBVIOUS
<1>2. /\ joint \in Seq(Repos!Row) /\ DOMAIN joint = 1..(Len(s) + Len(new))
      /\ DOMAIN s = 1..Len(s) /\ DOMAIN new = 1..Len(new)
      /\ Len(s) \in Nat /\ Len(new) \in Nat
      /\ \A i \in DOMAIN s : joint[i] = s[i]
      /\ \A i \in DOMAIN new : joint[Len(s) + i] = new[i]
  BY <1>1, ConcatProperties
<1>3. /\ \A i \in DOMAIN s : i \in DOMAIN joint /\ At(joint, i) = At(s, i)
      /\ \A i \in DOMAIN new : Len(s) + i \in DOMAIN joint /\ At(joint, Len(s) + i) = At(new, i)
  BY <1>2 DEF At
<1>4. Keys(joint) = Keys(s) \cup Keys(new)
  <2>1. \A i \in DOMAIN joint : i \in DOMAIN s \/ \E j \in DOMAIN new : i = Len(s) + j
    <3> SUFFICES ASSUME NEW i \in DOMAIN joint, i \notin DOMAIN s
                 PROVE  \E j \in DOMAIN new : i = Len(s) + j
      OBVIOUS
    <3>1. i - Len(s) \in DOMAIN new /\ i = Len(s) + (i - Len(s))
      BY <1>2
    <3> QED
      BY <3>1
  <2> QED
    BY <1>3, <2>1 DEF Keys
<1>5. ASSUME NEW k \in Keys(s)
      PROVE  TableOf(joint)[k] = TableOf(s)[k]
  <2>1. PICK i \in DOMAIN s : FirstOf(s, i) /\ At(s, i) = k
    BY FirstExists
  <2>2. \A j \in 1..(i - 1) : j \in DOMAIN s
    BY <1>2
  <2>3. FirstOf(joint, i) /\ i \in DOMAIN joint /\ At(joint, i) = k
    BY <1>3, <2>1, <2>2 DEF FirstOf
  <2>4. TableOf(s)[k] = s[i].val
    BY <2>1, TableHolds
  <2>5. TableOf(joint)[k] = joint[i].val
    BY <1>2, <2>3, TableHolds
  <2> QED
    BY <1>2, <2>4, <2>5
<1>6. ASSUME NEW k \in Keys(new), k \notin Keys(s)
      PROVE  TableOf(joint)[k] = TableOf(new)[k]
  <2>1. PICK i \in DOMAIN new : FirstOf(new, i) /\ At(new, i) = k
    BY FirstExists
  <2>2. PICK n : n = Len(s) + i
    OBVIOUS
  <2>3. n \in DOMAIN joint /\ At(joint, n) = k /\ joint[n] = new[i]
    BY <1>2, <1>3, <2>1, <2>2
  <2>4. ASSUME NEW j \in 1..(n - 1)
        PROVE  At(joint, j) # k
    <3>1. CASE j \in DOMAIN s
      BY <1>3, <1>6, <3>1 DEF Keys
    <3>2. CASE j \notin DOMAIN s
      <4>1. PICK m : m = j - Len(s)
        OBVIOUS
      <4>2. m \in 1..(i - 1) /\ m \in DOMAIN new /\ j = Len(s) + m
        BY <1>2, <2>2, <3>2, <4>1
      <4> QED
        BY <1>3, <2>1, <4>2 DEF FirstOf
    <3> QED
      BY <3>1, <3>2
  <2>5. FirstOf(joint, n)
    BY <2>3, <2>4 DEF FirstOf
  <2>6. TableOf(new)[k] = new[i].val
    BY <2>1, TableHolds
  <2>7. TableOf(joint)[k] = joint[n].val
    BY <1>2, <2>3, <2>5, TableHolds
  <2> QED
    BY <2>3, <2>6, <2>7
<1>7. TableOf(joint) = [k \in Keys(s) \cup Keys(new) |-> TableOf(joint)[k]]
  BY <1>4 DEF TableOf
<1> QED
  BY <1>1, <1>4, <1>5, <1>6, <1>7

\* There are no more instants than rows.
LEMMA KeysAreFew ==
  ASSUME NEW s \in Seq(Repos!Row)
  PROVE  Cardinality(Keys(s)) <= Len(s)
<1>1. PICK f : f = [i \in 1..Len(s) |-> At(s, i)]
  OBVIOUS
<1>2. f \in Surjection(1..Len(s), Keys(s))
  BY <1>1 DEF Surjection, Keys
<1>3. ExistsSurjection(1..Len(s), Keys(s))
  BY <1>2 DEF ExistsSurjection
<1> QED
  BY <1>3, FS_SurjCardinalityBound

LEMMA InsertPositionsMirrors ==
  ASSUME MirrorInv, NEW new \in Seq(Repos!Row), Repos!InsertPositions(new)
  PROVE  Repos!Pg!InsertPositions(new)
<1>1. /\ Typed /\ unit' = unit /\ user' = user /\ device' = device
      /\ rows \in Seq(Repos!Row) /\ rows' = rows \o new /\ Len(rows) + Len(new) <= MaxRows
  BY DEF MirrorInv, Typed, Repos!InsertPositions
<1>2. Repos!Grouped(user)' = Repos!Grouped(user) /\ Repos!Grouped(device)' = Repos!Grouped(device)
  BY <1>1, TablesStay
<1>3. DOMAIN Repos!Table = Keys(rows) /\ Keys(new) = {<<new[i].dev, new[i].ts>> : i \in DOMAIN new}
  BY TableIs DEF TableOf, Keys, At
<1>4. Cardinality(Keys(rows) \cup Keys(new)) <= MaxRows
  <2>1. PICK joint \in Seq(Repos!Row) : joint = rows \o new /\ Len(joint) = Len(rows) + Len(new)
    BY <1>1, ConcatProperties
  <2>2. Keys(joint) = Keys(rows) \cup Keys(new)
    BY <1>1, <2>1, TableGrows
  <2>3. Cardinality(Keys(joint)) <= Len(joint)
    BY KeysAreFew
  <2>4. /\ Len(joint) \in Nat /\ Len(joint) <= MaxRows /\ MaxRows \in Nat
    BY <1>1, <2>1, RepositoriesAssumption
  <2>5. Cardinality(Keys(joint)) \in Nat
    <3>1. PICK f : f = [i \in 1..Len(joint) |-> At(joint, i)]
      OBVIOUS
    <3>2. f \in Surjection(1..Len(joint), Keys(joint))
      <4>1. DOMAIN joint = 1..Len(joint)
        BY <2>1
      <4>2. f \in [1..Len(joint) -> Keys(joint)]
        BY <3>1, <4>1 DEF Keys
      <4>3. \A k \in Keys(joint) : \E i \in 1..Len(joint) : f[i] = k
        BY <3>1, <4>1 DEF Keys
      <4> QED
        BY <4>2, <4>3 DEF Surjection
    <3>3. IsFiniteSet(1..Len(joint))
      BY <2>4, FS_Interval
    <3>4. IsFiniteSet(Keys(joint))
      BY <3>2, <3>3, FS_Surjection
    <3> QED
      BY <3>4, FS_CardinalityType
  <2> QED
    BY <2>2, <2>3, <2>4, <2>5
<1>5. ASSUME NEW k \in Keys(new)
      PROVE  TableOf(new)[k] =
               new[CHOOSE i \in DOMAIN new :
                     /\ <<new[i].dev, new[i].ts>> = k
                     /\ \A j \in 1..(i - 1) : <<new[j].dev, new[j].ts>> # k].val
  <2>1. PICK i \in DOMAIN new : FirstOf(new, i) /\ At(new, i) = k
    BY FirstExists
  <2>2. PICK c : c = CHOOSE j \in DOMAIN new :
                       /\ <<new[j].dev, new[j].ts>> = k
                       /\ \A l \in 1..(j - 1) : <<new[l].dev, new[l].ts>> # k
    OBVIOUS
  <2>3. /\ <<new[i].dev, new[i].ts>> = k
        /\ \A l \in 1..(i - 1) : <<new[l].dev, new[l].ts>> # k
    BY <2>1 DEF FirstOf, At
  <2>4. /\ c \in DOMAIN new /\ <<new[c].dev, new[c].ts>> = k
        /\ \A l \in 1..(c - 1) : <<new[l].dev, new[l].ts>> # k
    BY <2>2, <2>3
  <2>5. FirstOf(new, c) /\ At(new, c) = k
    BY <2>4 DEF FirstOf, At
  <2>6. c = i
    BY <2>1, <2>4, <2>5, FirstIsOne
  <2> QED
    BY <2>1, <2>2, <2>6, TableHolds
<1>6. Repos!Table' = [k \in Keys(rows) \cup Keys(new) |->
                        IF k \in Keys(rows) THEN Repos!Table[k] ELSE TableOf(new)[k]]
  <2>1. TableOf(rows \o new) =
          [k \in Keys(rows) \cup Keys(new) |->
             IF k \in Keys(rows) THEN TableOf(rows)[k] ELSE TableOf(new)[k]]
    BY <1>1, TableGrows
  <2>2. Repos!Table = TableOf(rows) /\ Repos!Table' = TableOf(rows \o new)
    BY <1>1, TableIs
  <2> QED
    BY <2>1, <2>2
<1>7. Repos!Pg!May /\ answer' = Repos!Pg!Done /\ UNCHANGED <<unit, alert, settings>>
  BY DEF Repos!InsertPositions, Repos!May, Repos!Pg!May, Repos!Done, Repos!Pg!Done
<1>8. Repos!Table' = [k \in DOMAIN Repos!Table \cup Keys(new) |->
                        IF k \in DOMAIN Repos!Table THEN Repos!Table[k] ELSE TableOf(new)[k]]
  BY <1>3, <1>6
<1>9. Repos!Table' = [k \in DOMAIN Repos!Table \cup Keys(new) |->
                        IF k \in DOMAIN Repos!Table THEN Repos!Table[k]
                        ELSE new[CHOOSE i \in DOMAIN new :
                                   /\ <<new[i].dev, new[i].ts>> = k
                                   /\ \A j \in 1..(i - 1) : <<new[j].dev, new[j].ts>> # k].val]
  BY <1>5, <1>8
<1>10. Repos!Pg!Cardinality(DOMAIN Repos!Table \cup Keys(new)) <= MaxRows
  BY <1>3, <1>4 DEF Cardinality, Repos!Pg!Cardinality
<1> QED
  BY <1>2, <1>7, <1>9, <1>10, Zenon DEF Repos!Pg!InsertPositions, Keys, At

-----------------------------------------------------------------------------
(* Calls about alerts and settings                                         *)

LEMMA OtherTablesStay ==
  ASSUME UNCHANGED <<unit, user, device, rows>>
  PROVE  UNCHANGED <<unit, Repos!Grouped(user), Repos!Grouped(device), Repos!Table>>
  BY TablesStay, TableStays

LEMMA InsertAlertMirrors ==
  ASSUME NEW t, NEW d, NEW type, NEW ts, Repos!InsertAlert(t, d, type, ts)
  PROVE  Repos!Pg!InsertAlert(t, d, type, ts)
<1>1. UNCHANGED <<unit, Repos!Grouped(user), Repos!Grouped(device), Repos!Table>>
  BY OtherTablesStay DEF Repos!InsertAlert
<1> QED
  BY <1>1 DEF Repos!InsertAlert, Repos!Pg!InsertAlert, Repos!May, Repos!Pg!May,
     Repos!Done, Repos!Pg!Done

LEMMA ClearAlertsMirrors ==
  ASSUME NEW t, NEW dev, NEW types, Repos!ClearAlerts(t, dev, types)
  PROVE  Repos!Pg!ClearAlerts(t, dev, types)
<1>1. UNCHANGED <<unit, Repos!Grouped(user), Repos!Grouped(device), Repos!Table>>
  BY OtherTablesStay DEF Repos!ClearAlerts
<1>2. Repos!Cleared(t, dev, types) = Repos!Pg!Matching(t, dev, types)
  BY DEF Repos!Cleared, Repos!Pg!Matching
<1>3. PICK cleared : cleared = Repos!Cleared(t, dev, types)
  OBVIOUS
<1>4. PICK kept : kept = SelectSeq(alert, LAMBDA a : a \notin cleared)
  OBVIOUS
<1>5. /\ Repos!May /\ alert' = kept /\ kept # alert
      /\ answer' = [count |-> Len(alert) - Len(kept)] /\ settings' = settings
  BY <1>3, <1>4 DEF Repos!ClearAlerts
<1>6. cleared = Repos!Pg!Matching(t, dev, types)
  BY <1>2, <1>3
<1>7. kept = SelectSeq(alert, LAMBDA a : a \notin Repos!Pg!Matching(t, dev, types))
  BY <1>4, <1>6
<1> QED
  BY <1>1, <1>5, <1>7 DEF Repos!Pg!ClearAlerts, Repos!May, Repos!Pg!May

LEMMA SetSettingsMirrors ==
  ASSUME NEW t, NEW v, Repos!SetSettings(t, v)
  PROVE  Repos!Pg!SetSettings(t, v)
<1>1. UNCHANGED <<unit, Repos!Grouped(user), Repos!Grouped(device), Repos!Table>>
  BY OtherTablesStay DEF Repos!SetSettings
<1> QED
  BY <1>1 DEF Repos!SetSettings, Repos!Pg!SetSettings, Repos!May, Repos!Pg!May

-----------------------------------------------------------------------------
(* Every call                                                              *)

LEMMA CallsMirror ==
  ASSUME MirrorInv, Repos!Next
  PROVE  Repos!Pg!Next
<1>1. ASSUME NEW t \in Tenants, NEW u \in Units, Repos!UnitOp(t, u)
      PROVE  Repos!Pg!UnitOp(t, u)
  <2>1. CASE \E p \in Maybe : Repos!CreateUnit(t, u, p)
    BY <2>1, CreateUnitMirrors DEF Repos!Pg!UnitOp, Maybe
  <2>2. CASE \E p \in Maybe : Repos!MoveUnit(t, u, p)
    BY <2>2, MoveUnitMirrors DEF Repos!Pg!UnitOp, Maybe
  <2>3. CASE Repos!RemoveUnit(t, u)
    BY <2>3, RemoveUnitMirrors DEF Repos!Pg!UnitOp
  <2> QED
    BY <1>1, <2>1, <2>2, <2>3 DEF Repos!UnitOp, Maybe
<1>2. ASSUME NEW t \in Tenants, NEW d \in Devices, Repos!DeviceOp(t, d)
      PROVE  Repos!Pg!DeviceOp(t, d)
  <2>1. CASE \E i \in Imeis, dept \in Maybe : Repos!Provision(t, d, i, dept)
    BY <2>1, ProvisionMirrors DEF Repos!Pg!DeviceOp, Maybe
  <2>2. CASE \E dept \in Maybe : Repos!Assign(t, d, dept)
    BY <2>2, AssignMirrors DEF Repos!Pg!DeviceOp, Maybe
  <2>3. CASE \E sends \in BOOLEAN : Repos!SetStatus(t, d, sends)
    BY <2>3, SetStatusMirrors DEF Repos!Pg!DeviceOp
  <2>4. CASE Repos!SoftDelete(t, d)
    BY <2>4, SoftDeleteMirrors DEF Repos!Pg!DeviceOp
  <2>5. CASE Repos!Restore(t, d)
    BY <2>5, RestoreMirrors DEF Repos!Pg!DeviceOp
  <2> QED
    BY <1>2, <2>1, <2>2, <2>3, <2>4, <2>5 DEF Repos!DeviceOp, Maybe
<1>3. ASSUME NEW t \in Tenants, Repos!OtherOp(t)
      PROVE  Repos!Pg!OtherOp(t)
  <2>1. CASE \E d \in Devices, y \in Types, ts \in Times : Repos!InsertAlert(t, d, y, ts)
    BY <2>1, InsertAlertMirrors DEF Repos!Pg!OtherOp
  <2>2. CASE \E d \in Devices \cup {None}, y \in SUBSET Types : Repos!ClearAlerts(t, d, y)
    BY <2>2, ClearAlertsMirrors DEF Repos!Pg!OtherOp
  <2>3. CASE \E v \in Values : Repos!SetSettings(t, v)
    BY <2>3, SetSettingsMirrors DEF Repos!Pg!OtherOp
  <2> QED
    BY <1>3, <2>1, <2>2, <2>3 DEF Repos!OtherOp
<1>4. CASE \E t \in Tenants, u \in Units : Repos!UnitOp(t, u)
  BY <1>1, <1>4 DEF Repos!Pg!Next
<1>5. CASE \E t \in Tenants, x \in Users, m \in Emails, dept \in Maybe : Repos!CreateUser(t, x, m, dept)
  BY <1>5, CreateUserMirrors DEF Repos!Pg!Next, Maybe
<1>6. CASE \E t \in Tenants, d \in Devices : Repos!DeviceOp(t, d)
  BY <1>2, <1>6 DEF Repos!Pg!Next
<1>7. CASE \E r \in Repos!Row : Repos!InsertPositions(<<r>>)
  <2>1. PICK r \in Repos!Row : Repos!InsertPositions(<<r>>)
    BY <1>7
  <2>2. <<r>> \in Seq(Repos!Row)
    OBVIOUS
  <2>3. Repos!Pg!InsertPositions(<<r>>)
    BY <2>1, <2>2, InsertPositionsMirrors
  <2> QED
    BY <2>3 DEF Repos!Pg!Next, Repos!Pg!Row, Repos!Row
<1>8. CASE \E r, s \in Repos!Row : Repos!InsertPositions(<<r, s>>)
  <2>1. PICK r \in Repos!Row, s \in Repos!Row : Repos!InsertPositions(<<r, s>>)
    BY <1>8
  <2>2. <<r, s>> \in Seq(Repos!Row)
    OBVIOUS
  <2>3. Repos!Pg!InsertPositions(<<r, s>>)
    BY <2>1, <2>2, InsertPositionsMirrors
  <2> QED
    BY <2>3 DEF Repos!Pg!Next, Repos!Pg!Row, Repos!Row
<1>9. CASE \E t \in Tenants : Repos!OtherOp(t)
  BY <1>3, <1>9 DEF Repos!Pg!Next
<1> QED
  BY <1>4, <1>5, <1>6, <1>7, <1>8, <1>9 DEF Repos!Next, Maybe

-----------------------------------------------------------------------------
(* The invariant                                                           *)

LEMMA UnitsKept ==
  ASSUME MirrorInv, NEW t \in Tenants, NEW u \in Units, Repos!UnitOp(t, u)
  PROVE  /\ unit' \in [Units -> {Repos!Free, Repos!Gone} \cup UnitRow]
         /\ \A v \in Units : unit[v] # Repos!Free => unit'[v] # Repos!Free
<1>1. unit \in [Units -> {Repos!Free, Repos!Gone} \cup UnitRow]
  BY DEF MirrorInv, Typed
<1>2. Repos!Free # Repos!Gone /\ \A row \in UnitRow : row # Repos!Free /\ row # Repos!Gone
  BY DEF Repos!Free, Repos!Gone, UnitRow
<1>3. CASE \E p \in Maybe : Repos!CreateUnit(t, u, p)
  <2>1. PICK p \in Maybe : Repos!CreateUnit(t, u, p)
    BY <1>3
  <2>2. PICK row : row = [st |-> "live", tenant |-> t, parent |-> p]
    OBVIOUS
  <2>3. row \in UnitRow /\ unit' = [unit EXCEPT ![u] = row]
    BY <2>1, <2>2 DEF Repos!CreateUnit, UnitRow
  <2> QED
    BY <1>1, <1>2, <2>3
<1>4. CASE \E p \in Maybe : Repos!MoveUnit(t, u, p)
  <2>1. PICK p \in Maybe : Repos!MoveUnit(t, u, p)
    BY <1>4
  <2>2. CASE unit' = unit
    BY <1>1, <2>2
  <2>3. CASE unit' = [unit EXCEPT ![u].parent = p]
    <3>1. unit[u] \in UnitRow
      BY <1>1, <2>1 DEF Repos!MoveUnit, Repos!Live, Repos!Free, Repos!Gone
    <3>2. PICK row : row = [unit[u] EXCEPT !.parent = p]
      OBVIOUS
    <3>3. row \in UnitRow /\ unit' = [unit EXCEPT ![u] = row]
      BY <2>3, <3>1, <3>2 DEF UnitRow
    <3> QED
      BY <1>1, <1>2, <3>3
  <2> QED
    BY <2>1, <2>2, <2>3 DEF Repos!MoveUnit
<1>5. CASE Repos!RemoveUnit(t, u)
  <2>1. PICK doomed : doomed = Repos!Below(u)
    OBVIOUS
  <2>2. unit' = [v \in Units |-> IF v \in doomed THEN Repos!Gone ELSE unit[v]]
    BY <1>5, <2>1 DEF Repos!RemoveUnit
  <2> QED
    BY <1>1, <1>2, <2>2
<1> QED
  BY <1>3, <1>4, <1>5 DEF Repos!UnitOp, Maybe

LEMMA UsersKept ==
  ASSUME MirrorInv, NEW t \in Tenants, NEW x \in Users, NEW m \in Emails, NEW dept \in Maybe,
         Repos!CreateUser(t, x, m, dept)
  PROVE  user' \in [Users -> {Repos!Free} \cup UserRow] /\ Named'
<1>1. user \in [Users -> {Repos!Free} \cup UserRow] /\ unit' = unit /\ Named
  BY DEF MirrorInv, Typed, Repos!CreateUser
<1>2. CASE user' = user
  BY <1>1, <1>2 DEF Named
<1>3. CASE user' = [user EXCEPT ![x] = [st |-> "live", tenant |-> t, email |-> m, dept |-> dept]]
  <2>1. PICK row : row = [st |-> "live", tenant |-> t, email |-> m, dept |-> dept]
    OBVIOUS
  <2>2. row \in UserRow /\ row.dept = dept /\ user' = [user EXCEPT ![x] = row]
    BY <1>3, <2>1 DEF UserRow
  <2>3. dept # None => unit[dept] # Repos!Free
    BY DEF Repos!CreateUser, Repos!Live, Repos!Free
  <2> QED
    BY <1>1, <2>2, <2>3 DEF Named
<1> QED
  BY <1>2, <1>3 DEF Repos!CreateUser

LEMMA DevicesKept ==
  ASSUME MirrorInv, NEW t \in Tenants, NEW d \in Devices, Repos!DeviceOp(t, d)
  PROVE  device' \in [Devices -> {Repos!Free} \cup DeviceRow]
<1>1. device \in [Devices -> {Repos!Free} \cup DeviceRow]
  BY DEF MirrorInv, Typed
<1>2. CASE \E i \in Imeis, dept \in Maybe : Repos!Provision(t, d, i, dept)
  <2>1. PICK i \in Imeis, dept \in Maybe : Repos!Provision(t, d, i, dept)
    BY <1>2
  <2>2. PICK row : row = [st |-> "live", tenant |-> t, imei |-> i, dept |-> dept,
                          sends |-> TRUE]
    OBVIOUS
  <2>3. row \in DeviceRow
    BY <2>2 DEF DeviceRow
  <2>4. device' = device \/ device' = [device EXCEPT ![d] = row]
    BY <2>1, <2>2 DEF Repos!Provision
  <2> QED
    BY <1>1, <2>3, <2>4
<1>3. ASSUME NEW patched, Repos!Update(t, d, patched), device[d] \in DeviceRow => patched \in DeviceRow
      PROVE  device' \in [Devices -> {Repos!Free} \cup DeviceRow]
  <2>1. device[d] \in DeviceRow
    BY <1>1, <1>3 DEF Repos!Update, Repos!Has, Repos!Free
  <2> QED
    BY <1>1, <1>3, <2>1 DEF Repos!Update
<1>4. CASE \E dept \in Maybe : Repos!Assign(t, d, dept)
  <2>1. PICK dept \in Maybe : Repos!Assign(t, d, dept)
    BY <1>4
  <2>2. PICK patched : patched = [device[d] EXCEPT !.dept = dept]
    OBVIOUS
  <2> QED
    BY <1>3, <2>1, <2>2 DEF Repos!Assign, DeviceRow
<1>5. CASE \E sends \in BOOLEAN : Repos!SetStatus(t, d, sends)
  <2>1. PICK sends \in BOOLEAN : Repos!SetStatus(t, d, sends)
    BY <1>5
  <2>2. PICK patched : patched = [device[d] EXCEPT !.sends = sends]
    OBVIOUS
  <2> QED
    BY <1>3, <2>1, <2>2 DEF Repos!SetStatus, DeviceRow
<1>6. CASE Repos!SoftDelete(t, d)
  <2>1. PICK patched : patched = [device[d] EXCEPT !.st = "deleted"]
    OBVIOUS
  <2> QED
    BY <1>3, <1>6, <2>1 DEF Repos!SoftDelete, DeviceRow
<1>7. CASE Repos!Restore(t, d)
  <2>1. PICK patched : patched = [device[d] EXCEPT !.st = "live"]
    OBVIOUS
  <2>2. device[d] \in DeviceRow
    BY <1>1, <1>7 DEF Repos!Restore, Repos!Has, Repos!Free
  <2>3. patched \in DeviceRow
    BY <2>1, <2>2 DEF DeviceRow
  <2>4. device' = device \/ device' = [device EXCEPT ![d] = patched]
    BY <1>7, <2>1 DEF Repos!Restore
  <2> QED
    BY <1>1, <2>3, <2>4
<1> QED
  BY <1>2, <1>4, <1>5, <1>6, <1>7 DEF Repos!DeviceOp, Maybe

LEMMA RowsKept ==
  ASSUME MirrorInv, NEW new \in Seq(Repos!Row), Repos!InsertPositions(new)
  PROVE  rows' \in Seq(Repos!Row) /\ Len(rows') <= MaxRows
  BY ConcatProperties DEF Repos!InsertPositions, MirrorInv, Typed

LEMMA MirrorInit ==
  ASSUME Repos!Init
  PROVE  MirrorInv
<1>1. Typed
  BY DEF Repos!Init, Typed, Repos!Free
<1>2. Named
  BY DEF Repos!Init, Named
<1>3. Len(rows) <= MaxRows
  BY RepositoriesAssumption DEF Repos!Init
<1> QED
  BY <1>1, <1>2, <1>3 DEF MirrorInv

LEMMA MirrorKept ==
  ASSUME MirrorInv, [Repos!Next]_(Repos!vars)
  PROVE  MirrorInv'
<1>1. ASSUME NEW t \in Tenants, NEW u \in Units, Repos!UnitOp(t, u)
      PROVE  MirrorInv'
  <2>1. user' = user /\ device' = device /\ rows' = rows
    BY <1>1 DEF Repos!UnitOp, Repos!CreateUnit, Repos!MoveUnit, Repos!RemoveUnit
  <2>2. /\ unit' \in [Units -> {Repos!Free, Repos!Gone} \cup UnitRow]
        /\ \A v \in Units : unit[v] # Repos!Free => unit'[v] # Repos!Free
    BY <1>1, UnitsKept
  <2>3. \A x \in Users : user[x] # Repos!Free => user[x].dept \in Maybe
    BY DEF MirrorInv, Typed, UserRow
  <2>4. Named'
    BY <2>1, <2>2, <2>3 DEF MirrorInv, Named, Maybe
  <2> QED
    BY <2>1, <2>2, <2>4 DEF MirrorInv, Typed
<1>2. ASSUME NEW t \in Tenants, NEW x \in Users, NEW m \in Emails, NEW dept \in Maybe,
             Repos!CreateUser(t, x, m, dept)
      PROVE  MirrorInv'
  <2>1. unit' = unit /\ device' = device /\ rows' = rows
    BY <1>2 DEF Repos!CreateUser
  <2>2. user' \in [Users -> {Repos!Free} \cup UserRow] /\ Named'
    BY <1>2, UsersKept
  <2> QED
    BY <2>1, <2>2 DEF MirrorInv, Typed
<1>3. ASSUME NEW t \in Tenants, NEW d \in Devices, Repos!DeviceOp(t, d)
      PROVE  MirrorInv'
  <2>1. unit' = unit /\ user' = user /\ rows' = rows
    BY <1>3 DEF Repos!DeviceOp, Repos!Provision, Repos!Assign, Repos!SetStatus,
       Repos!SoftDelete, Repos!Update, Repos!Restore
  <2>2. device' \in [Devices -> {Repos!Free} \cup DeviceRow]
    BY <1>3, DevicesKept
  <2> QED
    BY <2>1, <2>2 DEF MirrorInv, Typed, Named
<1>4. ASSUME NEW new \in Seq(Repos!Row), Repos!InsertPositions(new)
      PROVE  MirrorInv'
  <2>1. unit' = unit /\ user' = user /\ device' = device
    BY <1>4 DEF Repos!InsertPositions
  <2> QED
    BY <1>4, <2>1, RowsKept DEF MirrorInv, Typed, Named
<1>5. ASSUME UNCHANGED <<unit, user, device, rows>>
      PROVE  MirrorInv'
  BY <1>5 DEF MirrorInv, Typed, Named
<1>6. ASSUME NEW t \in Tenants, Repos!OtherOp(t)
      PROVE  MirrorInv'
  BY <1>5, <1>6 DEF Repos!OtherOp, Repos!InsertAlert, Repos!ClearAlerts, Repos!SetSettings
<1>7. CASE UNCHANGED Repos!vars
  BY <1>5, <1>7 DEF Repos!vars
<1>8. CASE Repos!Next
  <2>1. \A r, s \in Repos!Row : <<r>> \in Seq(Repos!Row) /\ <<r, s>> \in Seq(Repos!Row)
    OBVIOUS
  <2> QED
    BY <1>1, <1>2, <1>3, <1>4, <1>6, <1>8, <2>1 DEF Repos!Next, Maybe
<1> QED
  BY <1>7, <1>8

-----------------------------------------------------------------------------
(* Reads                                                                   *)

LEMMA ListsAgree ==
  ASSUME MirrorInv, NEW x \in Repos!Listing(Users) \ Repos!Stranded,
         NEW st \in {"live", "deleted"}
  PROVE  Repos!List(x, st) = Repos!Pg!List(x, st)
<1>1. Typed /\ x \in Users /\ user[x] # Repos!Free /\ user[x] \in UserRow /\ user[x].dept \in Maybe
  BY DEF MirrorInv, Typed, Repos!Listing, UserRow
<1>2. user[x].dept # None =>
        user[x].dept \in Units /\ unit[user[x].dept].st = "live"
  <2> SUFFICES ASSUME user[x].dept # None
               PROVE  user[x].dept \in Units /\ unit[user[x].dept].st = "live"
    OBVIOUS
  <2>1. unit[user[x].dept] # Repos!Free /\ unit[user[x].dept] # Repos!Gone /\ user[x].dept \in Units
    BY <1>1 DEF MirrorInv, Named, Repos!Stranded, Repos!Listing, Maybe
  <2> QED
    BY <1>1, <2>1 DEF Typed, UnitRow
<1>3. Repos!Grouped(user)[x] = user[x]
  <2>1. ~(user[x].dept # None /\ unit[user[x].dept] = Repos!Gone)
    BY <1>2 DEF Repos!Gone
  <2> QED
    BY <1>1, <2>1 DEF Typed, Repos!Grouped
<1>4. ASSUME NEW d \in Devices
      PROVE  Repos!Has(user[x].tenant, d, st) /\ Repos!InScope(x, d) <=>
               Repos!Pg!Has(user[x].tenant, d, st) /\ Repos!Grouped(device)[d].dept \in Repos!Pg!Scope(x)
  <2>1. device[d].st = st => device[d] # Repos!Free
    <3>1. Repos!Free.st = "free" /\ st # "free"
      BY DEF Repos!Free
    <3> QED
      BY <3>1
  <2>2. Repos!Has(user[x].tenant, d, st) <=> Repos!Pg!Has(user[x].tenant, d, st)
    BY <1>1, <2>1, DevicesAgree DEF Repos!Has, Repos!Pg!Has
  <2> SUFFICES ASSUME Repos!Has(user[x].tenant, d, st)
               PROVE  Repos!InScope(x, d) <=> Repos!Grouped(device)[d].dept \in Repos!Pg!Scope(x)
    BY <2>2
  <2>3. device[d] # Repos!Free
    BY <2>1 DEF Repos!Has
  <2>4. /\ device[d] \in DeviceRow /\ Repos!Grouped(device)[d] \in DeviceRow
        /\ Repos!Grouped(device)[d] = Seen(unit, device[d])
    BY <1>1, <2>3, DevicesAgree
  <2>5. CASE user[x].dept = None
    BY <1>3, <2>4, <2>5 DEF Repos!InScope, Repos!Pg!Scope, DeviceRow, Maybe
  <2>6. CASE user[x].dept # None
    <3>1. PICK u \in Units : u = user[x].dept /\ unit[u].st = "live"
      BY <1>2, <2>6
    <3>2. Repos!Pg!Scope(x) = Repos!Below(u)
      BY <1>1, <1>3, <2>6, <3>1, DoomedAgree DEF Repos!Pg!Scope
    <3>3. device[d].dept \in Repos!Below(u) <=> Repos!Grouped(device)[d].dept \in Repos!Below(u)
      <4>1. CASE device[d].dept # None /\ unit[device[d].dept] = Repos!Gone
        <5>1. Repos!Grouped(device)[d].dept = None
          BY <2>3, <2>4, <4>1, SeenDevice
        <5>2. None \notin Repos!Below(u)
          BY RepositoriesAssumption DEF Repos!Below
        <5>3. device[d].dept \notin Repos!Below(u)
          BY <1>1, <3>1, <4>1, DoomedAreLive DEF Repos!Gone
        <5> QED
          BY <5>1, <5>2, <5>3
      <4>2. CASE ~(device[d].dept # None /\ unit[device[d].dept] = Repos!Gone)
        BY <2>4, <4>2 DEF Seen
      <4> QED
        BY <4>1, <4>2
    <3> QED
      BY <2>6, <3>1, <3>2, <3>3 DEF Repos!InScope
  <2> QED
    BY <2>5, <2>6
<1>5. \A d : d \in Repos!List(x, st) <=> d \in Repos!Pg!List(x, st)
  BY <1>3, <1>4 DEF Repos!List, Repos!Pg!List
<1> QED
  BY <1>5

LEMMA ActiveAgree ==
  ASSUME Typed
  PROVE  Repos!Active = Repos!Pg!Active
<1>1. ASSUME NEW d \in Devices
      PROVE  /\ (device[d].st = "live" /\ device[d].sends) <=>
                  (Repos!Grouped(device)[d].st = "live" /\ Repos!Grouped(device)[d].sends)
             /\ device[d].st = "live" => Repos!Grouped(device)[d].imei = device[d].imei
  <2>1. device[d].st = "live" => device[d] # Repos!Free
    BY DEF Repos!Free
  <2> QED
    BY <2>1, DevicesAgree
<1> QED
  BY <1>1 DEF Repos!Active, Repos!Pg!Active

\* The instants of a device, in the array and in the table.
LEMMA InstantsAgree ==
  ASSUME Typed, NEW d \in Devices
  PROVE  /\ \A i \in DOMAIN rows : rows[i].dev = d => rows[i].ts \in Repos!Pg!Instants(d)
         /\ \A ts \in Repos!Pg!Instants(d) :
              \E i \in DOMAIN rows : Repos!First(i) /\ rows[i].dev = d /\ rows[i].ts = ts
         /\ \A i \in DOMAIN rows :
              Repos!First(i) /\ rows[i].dev = d => Repos!Table[<<d, rows[i].ts>>] = rows[i].val
<1>1. rows \in Seq(Repos!Row) /\ DOMAIN Repos!Table = Keys(rows)
  BY TableIs DEF Typed, TableOf
<1>2. ASSUME NEW i \in DOMAIN rows, rows[i].dev = d
      PROVE  rows[i].ts \in Repos!Pg!Instants(d)
  <2>1. rows[i].ts \in Times
    <3>1. rows[i] \in Repos!Row
      BY <1>1
    <3> QED
      BY <3>1 DEF Repos!Row
  <2>2. <<d, rows[i].ts>> \in Keys(rows)
    BY <1>2 DEF Keys, At
  <2> QED
    BY <1>1, <2>1, <2>2 DEF Repos!Pg!Instants
<1>3. ASSUME NEW ts \in Repos!Pg!Instants(d)
      PROVE  \E i \in DOMAIN rows : Repos!First(i) /\ rows[i].dev = d /\ rows[i].ts = ts
  <2>1. <<d, ts>> \in Keys(rows)
    BY <1>1 DEF Repos!Pg!Instants
  <2>2. PICK i \in DOMAIN rows : FirstOf(rows, i) /\ At(rows, i) = <<d, ts>>
    BY <1>1, <2>1, FirstExists
  <2> QED
    BY <2>2, TableIs DEF At
<1>4. ASSUME NEW i \in DOMAIN rows, Repos!First(i), rows[i].dev = d
      PROVE  Repos!Table[<<d, rows[i].ts>>] = rows[i].val
  <2>1. FirstOf(rows, i) /\ At(rows, i) = <<d, rows[i].ts>>
    BY <1>4, TableIs DEF At
  <2>2. TableOf(rows)[At(rows, i)] = rows[i].val
    BY <1>1, <2>1, TableHolds
  <2> QED
    BY <2>1, <2>2, TableIs
<1> QED
  BY <1>2, <1>3, <1>4

\* The rows of a history that repeat no instant are the first rows of an instant.
LEMMA OnceIsFirst ==
  ASSUME Typed, NEW d \in Devices, NEW from \in Times, NEW to \in Times
  PROVE  Repos!Once(Repos!History(d, from, to)) =
            {[ts |-> rows[i].ts, val |-> rows[i].val] : i \in {k \in DOMAIN rows :
               Repos!First(k) /\ rows[k].dev = d /\ from <= rows[k].ts /\ rows[k].ts <= to}}
<1> DEFINE W == {k \in DOMAIN rows :
                   rows[k].dev = d /\ from <= rows[k].ts /\ rows[k].ts <= to}
<1>1. PICK h : h = Repos!History(d, from, to)
  OBVIOUS
<1>2. /\ DOMAIN h = W
      /\ \A i \in W : h[i] = [ts |-> rows[i].ts, val |-> rows[i].val]
  BY <1>1 DEF Repos!History
<1>3. ASSUME NEW i \in W
      PROVE  h[i].ts = rows[i].ts
  <2>1. h[i] = [ts |-> rows[i].ts, val |-> rows[i].val]
    BY <1>2
  <2> HIDE DEF W
  <2> QED
    BY <2>1
<1>4. ASSUME NEW k \in W
      PROVE  (\A j \in W : j < k => h[j].ts # h[k].ts) <=> Repos!First(k)
  <2>1. \A j \in 1..(k - 1) : j \in DOMAIN rows /\ j < k
    BY DEF Typed
  <2>2. \A j \in DOMAIN rows : j < k => j \in 1..(k - 1)
    BY DEF Typed
  <2>3. ASSUME Repos!First(k), NEW j \in W, j < k
        PROVE  h[j].ts # h[k].ts
    <3>1. <<rows[j].dev, rows[j].ts>> # <<rows[k].dev, rows[k].ts>>
      BY <2>2, <2>3 DEF Repos!First
    <3> QED
      BY <1>3, <2>3, <3>1
  <2>4. ASSUME \A j \in W : j < k => h[j].ts # h[k].ts
        PROVE  Repos!First(k)
    <3> SUFFICES ASSUME NEW j \in 1..(k - 1), rows[j].dev = rows[k].dev,
                        rows[j].ts = rows[k].ts
                 PROVE  FALSE
      BY DEF Repos!First
    <3>1. j \in W /\ j < k
      BY <2>1
    <3> QED
      BY <1>3, <2>4, <3>1
  <2> QED
    BY <2>3, <2>4
<1>5. Repos!Once(h) = {h[i] : i \in {k \in W : Repos!First(k)}}
  BY <1>2, <1>4 DEF Repos!Once
<1> QED
  BY <1>1, <1>2, <1>5

LEMMA HistoryAgrees ==
  ASSUME Typed, NEW d \in Devices, NEW from \in Times, NEW to \in Times
  PROVE  Repos!Once(Repos!History(d, from, to)) = Repos!Pg!History(d, from, to)
<1>1. ASSUME NEW p \in Repos!Once(Repos!History(d, from, to))
      PROVE  p \in Repos!Pg!History(d, from, to)
  <2>1. PICK i \in DOMAIN rows : /\ Repos!First(i) /\ rows[i].dev = d
                                 /\ from <= rows[i].ts /\ rows[i].ts <= to
                                 /\ p = [ts |-> rows[i].ts, val |-> rows[i].val]
    BY OnceIsFirst
  <2>2. rows[i].ts \in Repos!Pg!Instants(d) /\ Repos!Table[<<d, rows[i].ts>>] = rows[i].val
    BY <2>1, InstantsAgree
  <2> QED
    BY <2>1, <2>2 DEF Repos!Pg!History
<1>2. ASSUME NEW p \in Repos!Pg!History(d, from, to)
      PROVE  p \in Repos!Once(Repos!History(d, from, to))
  <2>1. PICK ts \in Repos!Pg!Instants(d) : /\ from <= ts /\ ts <= to
                                           /\ p = [ts |-> ts, val |-> Repos!Table[<<d, ts>>]]
    BY DEF Repos!Pg!History
  <2>2. PICK i \in DOMAIN rows : Repos!First(i) /\ rows[i].dev = d /\ rows[i].ts = ts
    BY InstantsAgree
  <2>3. Repos!Table[<<d, ts>>] = rows[i].val
    BY <2>2, InstantsAgree
  <2> QED
    BY <2>1, <2>2, <2>3, OnceIsFirst
<1> QED
  BY <1>1, <1>2

\* The scan of latest() as far as the rows 1..n have been seen.
Kept(d, i, b) == IF rows[i].dev = d THEN Repos!Newest(b, rows[i]) ELSE b

IsScan(d, n, g) == g = [i \in 0..n |-> IF i = 0 THEN None ELSE Kept(d, i, g[i - 1])]

LEMMA ScanExists ==
  ASSUME NEW d, NEW n \in Nat
  PROVE  \E g : IsScan(d, n, g)
<1> DEFINE T == {m \in Nat : ~ \E g : IsScan(d, m, g)}
<1> SUFFICES ASSUME T # {}
             PROVE  FALSE
  OBVIOUS
<1>1. PICK m \in T : \A k \in T : m <= k
  BY Least
<1>2. m # 0
  <2>1. PICK g : g = [i \in 0..0 |-> None]
    OBVIOUS
  <2>2. IsScan(d, 0, g)
    BY <2>1 DEF IsScan
  <2> QED
    BY <2>2
<1>3. PICK k \in Nat : m = k + 1
  <2>1. m \in Nat /\ m - 1 \in Nat /\ m = (m - 1) + 1
    BY <1>2
  <2> QED
    BY <2>1
<1>4. PICK g : IsScan(d, k, g)
  <2>1. k \notin T
    BY <1>1, <1>3
  <2> QED
    BY <2>1
<1>5. PICK h : h = [i \in 0..m |-> IF i <= k THEN g[i] ELSE Kept(d, m, g[k])]
  OBVIOUS
<1>6. ASSUME NEW i \in 0..m
      PROVE  h[i] = IF i = 0 THEN None ELSE Kept(d, i, h[i - 1])
  <2>1. CASE i = 0
    BY <1>3, <1>4, <1>5, <2>1 DEF IsScan
  <2>2. CASE i # 0 /\ i <= k
    <3>1. i \in 0..k /\ i - 1 \in 0..m /\ i - 1 <= k
      BY <1>3, <2>2
    <3>2. h[i] = g[i] /\ h[i - 1] = g[i - 1]
      BY <1>5, <2>2, <3>1
    <3>3. g[i] = Kept(d, i, g[i - 1])
      BY <1>4, <2>2, <3>1 DEF IsScan
    <3> QED
      BY <2>2, <3>2, <3>3
  <2>3. CASE i = m
    <3>1. m - 1 = k /\ k \in 0..m /\ m # 0 /\ ~(m <= k) /\ m \in 0..m
      BY <1>3
    <3>2. h[m] = Kept(d, m, g[k]) /\ h[k] = g[k]
      BY <1>5, <3>1
    <3> QED
      BY <2>3, <3>1, <3>2
  <2> QED
    BY <1>3, <2>1, <2>2, <2>3
<1>7. IsScan(d, m, h)
  BY <1>5, <1>6 DEF IsScan
<1> QED
  BY <1>7

\* The row j is the first of the newest of device d among the rows 1..i.
Peak(d, i, j) ==
    /\ j \in DOMAIN rows /\ j <= i /\ rows[j].dev = d
    /\ \A k \in DOMAIN rows : k <= i /\ rows[k].dev = d =>
         rows[k].ts < rows[j].ts \/ (rows[k].ts = rows[j].ts /\ j <= k)

NoRow(d, i) == \A k \in DOMAIN rows : k <= i => rows[k].dev # d

\* What the scan holds after the rows 1..i.
Holds(d, i, b) ==
    \/ b = None /\ NoRow(d, i)
    \/ \E j \in DOMAIN rows : b = rows[j] /\ Peak(d, i, j)

LEMMA StepHolds ==
  ASSUME Typed, NEW d, NEW i \in DOMAIN rows, NEW b, Holds(d, i - 1, b)
  PROVE  Holds(d, i, Kept(d, i, b))
<1>1. /\ \A k \in DOMAIN rows : rows[k] \in Repos!Row /\ rows[k].ts \in Nat /\ k \in Nat \ {0}
      /\ \A k \in DOMAIN rows : rows[k] # None
  <2>1. rows \in Seq(Repos!Row)
    BY DEF Typed
  <2>2. \A k \in DOMAIN rows : rows[k] \in Repos!Row /\ k \in Nat \ {0}
    BY <2>1
  <2> QED
    BY <2>2, RepositoriesAssumption DEF Repos!Row
<1>2. \A k \in DOMAIN rows : k <= i <=> k <= i - 1 \/ k = i
  BY <1>1
<1>3. CASE rows[i].dev # d
  <2>1. Kept(d, i, b) = b
    BY <1>3 DEF Kept
  <2>2. NoRow(d, i - 1) => NoRow(d, i)
    BY <1>2, <1>3 DEF NoRow
  <2>3. \A j : Peak(d, i - 1, j) => Peak(d, i, j)
    BY <1>2, <1>3 DEF Peak
  <2> QED
    BY <2>1, <2>2, <2>3 DEF Holds
<1>4. CASE rows[i].dev = d /\ b = None /\ NoRow(d, i - 1)
  <2>1. Kept(d, i, b) = rows[i]
    BY <1>4 DEF Kept, Repos!Newest
  <2>2. \A k \in DOMAIN rows : k <= i /\ rows[k].dev = d => k = i
    BY <1>2, <1>4 DEF NoRow
  <2>3. Peak(d, i, i)
    BY <1>1, <1>4, <2>2 DEF Peak
  <2> QED
    BY <2>1, <2>3 DEF Holds
<1>5. CASE rows[i].dev = d /\ \E j \in DOMAIN rows : b = rows[j] /\ Peak(d, i - 1, j)
  <2>1. PICK j \in DOMAIN rows : b = rows[j] /\ Peak(d, i - 1, j)
    BY <1>5
  <2>2. b # None /\ b.ts = rows[j].ts
    BY <1>1, <2>1
  <2>3. CASE rows[i].ts > rows[j].ts
    <3>1. Kept(d, i, b) = rows[i]
      BY <1>5, <2>2, <2>3 DEF Kept, Repos!Newest
    <3>2. ASSUME NEW k \in DOMAIN rows, k <= i, rows[k].dev = d
          PROVE  rows[k].ts < rows[i].ts \/ (rows[k].ts = rows[i].ts /\ i <= k)
      <4>1. CASE k = i
        BY <1>1, <4>1
      <4>2. CASE k <= i - 1
        <5>1. rows[k].ts < rows[j].ts \/ rows[k].ts = rows[j].ts
          BY <2>1, <3>2, <4>2 DEF Peak
        <5> QED
          BY <1>1, <2>3, <5>1
      <4> QED
        BY <1>2, <3>2, <4>1, <4>2
    <3>3. Peak(d, i, i)
      BY <1>1, <1>5, <3>2 DEF Peak
    <3> QED
      BY <3>1, <3>3 DEF Holds
  <2>4. CASE ~(rows[i].ts > rows[j].ts)
    <3>1. Kept(d, i, b) = b
      BY <1>5, <2>2, <2>4 DEF Kept, Repos!Newest
    <3>2. j <= i - 1 /\ j <= i
      BY <1>1, <2>1 DEF Peak
    <3>3. rows[i].ts < rows[j].ts \/ (rows[i].ts = rows[j].ts /\ j <= i)
      BY <1>1, <2>4, <3>2
    <3>4. Peak(d, i, j)
      BY <1>2, <2>1, <3>2, <3>3 DEF Peak
    <3> QED
      BY <2>1, <3>1, <3>4 DEF Holds
  <2> QED
    BY <2>3, <2>4
<1> QED
  BY <1>3, <1>4, <1>5 DEF Holds

LEMMA ScanHolds ==
  ASSUME Typed, NEW d, NEW g, IsScan(d, Len(rows), g)
  PROVE  Holds(d, Len(rows), g[Len(rows)])
<1> DEFINE T == {i \in 0..Len(rows) : ~Holds(d, i, g[i])}
<1>1. Len(rows) \in Nat /\ DOMAIN rows = 1..Len(rows)
  BY DEF Typed
<1> SUFFICES ASSUME T # {}
             PROVE  FALSE
  BY <1>1
<1>2. T \in SUBSET Nat
  OBVIOUS
<1>3. PICK i \in T : \A k \in T : i <= k
  BY <1>2, Least
<1>4. i # 0
  <2>1. g[0] = None
    BY <1>1 DEF IsScan
  <2>2. NoRow(d, 0)
    BY <1>1 DEF NoRow
  <2> QED
    BY <2>1, <2>2 DEF Holds
<1>5. i \in DOMAIN rows /\ i - 1 \in 0..Len(rows) /\ ~(i <= i - 1)
  BY <1>1, <1>4
<1>6. Holds(d, i - 1, g[i - 1])
  BY <1>3, <1>5
<1>7. g[i] = Kept(d, i, g[i - 1])
  BY <1>1, <1>4, <1>5 DEF IsScan
<1>8. Holds(d, i, Kept(d, i, g[i - 1]))
  BY <1>5, <1>6, StepHolds
<1> QED
  BY <1>7, <1>8

LEMMA LatestIs ==
  ASSUME NEW d, rows \in Seq(Repos!Row)
  PROVE  \E g : /\ IsScan(d, Len(rows), g)
                /\ Repos!Latest(d) = LET last == g[Len(rows)]
                                     IN  IF last = None THEN {}
                                         ELSE {[ts |-> last.ts, val |-> last.val]}
<1>1. PICK best : best = CHOOSE g : g = [i \in 0..Len(rows) |->
                           IF i = 0 THEN None
                           ELSE IF rows[i].dev = d THEN Repos!Newest(g[i - 1], rows[i]) ELSE g[i - 1]]
  OBVIOUS
<1>2. \E g : g = [i \in 0..Len(rows) |->
                    IF i = 0 THEN None
                    ELSE IF rows[i].dev = d THEN Repos!Newest(g[i - 1], rows[i]) ELSE g[i - 1]]
  <2>1. PICK g : IsScan(d, Len(rows), g)
    BY ScanExists
  <2> QED
    BY <2>1, Zenon DEF IsScan, Kept
<1>3. best = [i \in 0..Len(rows) |->
                IF i = 0 THEN None
                ELSE IF rows[i].dev = d THEN Repos!Newest(best[i - 1], rows[i]) ELSE best[i - 1]]
  BY <1>1, <1>2, Zenon
<1>4. IsScan(d, Len(rows), best)
  BY <1>3 DEF IsScan, Kept
<1>5. Repos!Latest(d) = LET last == best[Len(rows)]
                        IN  IF last = None THEN {} ELSE {[ts |-> last.ts, val |-> last.val]}
  BY <1>1 DEF Repos!Latest
<1> QED
  BY <1>4, <1>5

LEMMA LatestAgrees ==
  ASSUME Typed, NEW d \in Devices
  PROVE  Repos!Latest(d) = Repos!Pg!Latest(d)
<1>1. rows \in Seq(Repos!Row) /\ \A k \in DOMAIN rows : rows[k] \in Repos!Row /\ k \in 1..Len(rows)
  BY DEF Typed
<1>2. \A k \in DOMAIN rows : rows[k].ts \in Nat /\ rows[k] # None /\ k \in Nat /\ k <= Len(rows)
  <2>1. \A row \in Repos!Row : row.ts \in Nat /\ row # None
    BY RepositoriesAssumption DEF Repos!Row
  <2> QED
    BY <1>1, <2>1
<1>3. PICK g : /\ IsScan(d, Len(rows), g)
               /\ Repos!Latest(d) = LET last == g[Len(rows)]
                                    IN  IF last = None THEN {}
                                        ELSE {[ts |-> last.ts, val |-> last.val]}
  BY <1>1, LatestIs
<1>4. PICK last : last = g[Len(rows)] /\ Holds(d, Len(rows), last)
  BY <1>3, ScanHolds
<1>5. Repos!Latest(d) = IF last = None THEN {} ELSE {[ts |-> last.ts, val |-> last.val]}
  BY <1>3, <1>4
<1>6. \A ts \in Repos!Pg!Instants(d) : \E i \in DOMAIN rows : rows[i].dev = d /\ rows[i].ts = ts
  BY InstantsAgree
<1>7. CASE last = None /\ NoRow(d, Len(rows))
  <2>1. Repos!Pg!Instants(d) = {}
    BY <1>2, <1>6, <1>7 DEF NoRow
  <2>2. Repos!Pg!Latest(d) = {}
    BY <2>1 DEF Repos!Pg!Latest
  <2> QED
    BY <1>5, <1>7, <2>2
<1>8. CASE \E j \in DOMAIN rows : last = rows[j] /\ Peak(d, Len(rows), j)
  <2>1. PICK j \in DOMAIN rows : last = rows[j] /\ Peak(d, Len(rows), j)
    BY <1>8
  <2>2. PICK n \in Nat : n = rows[j].ts
    BY <1>2
  <2>3. rows[j].dev = d /\ n \in Repos!Pg!Instants(d)
    BY <2>1, <2>2, InstantsAgree DEF Peak
  <2>4. \A k \in DOMAIN rows : rows[k].dev = d => rows[k].ts <= n
    BY <1>2, <2>1, <2>2 DEF Peak
  <2>5. \A k \in DOMAIN rows : rows[k].dev = d /\ rows[k].ts = n => j <= k
    BY <1>2, <2>1, <2>2 DEF Peak
  <2>6. \A ts \in Repos!Pg!Instants(d) : ts \in Nat /\ ts <= n
    BY <1>2, <1>6, <2>4
  <2>7. \A s \in Repos!Pg!Instants(d) : (\A r \in Repos!Pg!Instants(d) : r <= s) <=> s = n
    BY <2>2, <2>3, <2>6
  <2>8. Repos!First(j)
    <3> SUFFICES ASSUME NEW k \in 1..(j - 1),
                        <<rows[k].dev, rows[k].ts>> = <<rows[j].dev, rows[j].ts>>
                 PROVE  FALSE
      BY DEF Repos!First
    <3>1. k \in DOMAIN rows /\ ~(j <= k)
      BY <1>1, <1>2
    <3> QED
      BY <2>2, <2>3, <2>5, <3>1
  <2>9. Repos!Table[<<d, n>>] = rows[j].val
    BY <2>2, <2>3, <2>8, InstantsAgree
  <2>10. {s \in Repos!Pg!Instants(d) : \A r \in Repos!Pg!Instants(d) : r <= s} = {n}
    BY <2>3, <2>7
  <2>11. Repos!Pg!Latest(d) = {[ts |-> n, val |-> Repos!Table[<<d, n>>]]}
    BY <2>10, Zenon DEF Repos!Pg!Latest
  <2>12. last # None /\ last.ts = n /\ last.val = rows[j].val
    BY <1>2, <2>1, <2>2
  <2> QED
    BY <1>5, <2>9, <2>11, <2>12
<1> QED
  BY <1>4, <1>7, <1>8 DEF Holds

LEMMA AllReadsAgree ==
  ASSUME MirrorInv
  PROVE  Repos!ReadsAgree
<1>1. Typed
  BY DEF MirrorInv
<1>2. PICK X : X = Repos!Listing(Users) \ Repos!Stranded
  OBVIOUS
<1>3. [x \in X |-> Repos!List(x, "live")] = [x \in X |-> Repos!Pg!List(x, "live")]
  BY <1>2, ListsAgree
<1>4. [x \in X |-> Repos!List(x, "deleted")] = [x \in X |-> Repos!Pg!List(x, "deleted")]
  BY <1>2, ListsAgree
<1>5. Repos!Active = Repos!Pg!Active
  BY <1>1, ActiveAgree
<1>6. [d \in Devices |-> Repos!Latest(d)] = [d \in Devices |-> Repos!Pg!Latest(d)]
  BY <1>1, LatestAgrees
<1>7. [d \in Devices |-> [w \in Times \X Times |-> Repos!Once(Repos!History(d, w[1], w[2]))]] =
      [d \in Devices |-> [w \in Times \X Times |-> Repos!Pg!History(d, w[1], w[2])]]
  BY <1>1, HistoryAgrees
<1>8. Repos!Reads(X) = Repos!Pg!Reads(X)
  BY <1>3, <1>4, <1>5, <1>6, <1>7 DEF Repos!Reads, Repos!Pg!Reads
<1> QED
  BY <1>2, <1>8 DEF Repos!ReadsAgree

LEMMA InitMirrors ==
  ASSUME Repos!Init
  PROVE  Repos!Pg!Init
<1>1. Repos!Grouped(user) = [x \in Users |-> Repos!Pg!Free]
  BY DEF Repos!Init, Repos!Grouped, Repos!Free, Repos!Pg!Free
<1>2. Repos!Grouped(device) = [d \in Devices |-> Repos!Pg!Free]
  BY DEF Repos!Init, Repos!Grouped, Repos!Free, Repos!Pg!Free
<1>3. Repos!Table = <<>>
  <2>1. DOMAIN Repos!Table = {}
    BY DEF Repos!Init, Repos!Table
  <2> QED
    BY <2>1 DEF Repos!Table
<1> QED
  BY <1>1, <1>2, <1>3 DEF Repos!Init, Repos!Pg!Init, Repos!Free, Repos!Pg!Free,
     Repos!Done, Repos!Pg!Done

\* The in-memory repositories implement the Postgres ones: after any calls they
\* keep and answer what the tables would (InMemory*Repository of
\* in-memory.repository.ts, Pg*Repository of pg.repository.ts).
THEOREM MapsAreTheTables == Repos!Spec => MirrorsPostgres
<1>1. Repos!Init => MirrorInv /\ Repos!Pg!Init
  BY MirrorInit, InitMirrors
<1>2. MirrorInv /\ [Repos!Next]_(Repos!vars) => MirrorInv'
  BY MirrorKept
<1>3. MirrorInv /\ [Repos!Next]_(Repos!vars) => [Repos!PgStep]_(Repos!vars)
  <2>1. MirrorInv /\ Repos!Next => Repos!PgStep
    BY CallsMirror DEF Repos!PgStep
  <2> QED
    BY <2>1
<1>4. MirrorInv => Repos!ReadsAgree
  BY AllReadsAgree
<1> QED
  BY <1>1, <1>2, <1>3, <1>4, PTL DEF Repos!Spec, MirrorsPostgres, Repos!MirrorsPostgres

=============================================================================
