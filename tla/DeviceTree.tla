----------------------------- MODULE DeviceTree -----------------------------
(***************************************************************************)
(* The sidebar: devices under their groups, dragged, checked and moved in  *)
(* bulk, groups created, re-parented and deleted.  The page holds two      *)
(* lists, read at different instants, and what it allows it decides on     *)
(* them; a bulk move is one request per device, and a page's request ends  *)
(* in a toast.  The server's checks are one step here (Departments has     *)
(* their interleavings); ids of groups are not used again.                 *)
(***************************************************************************)
EXTENDS Naturals

CONSTANTS
    Devices, Groups,
    MaxRequest, MaxOther    \* bounds: the page's requests, other admins' writes

None == "none"      \* no group: the top level, or Ungrouped
Absent == "absent"
Id == 1..MaxRequest

VARIABLES
    parent,    \* group -> its parent, None or Absent, on the server
    group,     \* device -> its group, None, or Absent once removed
    depts, rows,    \* the two lists as the page holds them
    hidden,    \* devices the search or the status filter leaves out
    checked,
    drag,      \* what is dragged: [ids, of], one of them empty
    requests, sent, others

server == <<parent, group>>
lists == <<depts, rows>>
hand == <<hidden, checked, drag>>
vars == <<server, lists, hand, requests, sent, others>>

Nobody == [ids |-> {}, of |-> None]
Idle == [op |-> "move", ids |-> {}, left |-> {}, of |-> None, to |-> None,
         phase |-> "idle", lone |-> TRUE, fresh |-> FALSE]

TypeOK ==
    /\ {parent, depts} \subseteq [Groups -> Groups \cup {None, Absent}]
    /\ {group, rows} \subseteq [Devices -> Groups \cup {None, Absent}]
    /\ hidden \subseteq Devices /\ checked \subseteq Devices
    /\ drag \in [ids : SUBSET Devices, of : Groups \cup {None}]
    /\ requests \in [Id -> [op : {"move", "reparent", "delete", "create"},
                            ids : SUBSET Devices, left : SUBSET Devices,
                            of : Groups \cup {None}, to : Groups \cup {None},
                            phase : {"idle", "sent", "refused", "listing"},
                            lone : BOOLEAN, fresh : BOOLEAN]]
    /\ sent \in 0..MaxRequest /\ others \in 0..MaxOther

-----------------------------------------------------------------------------
(* Forests                                                                 *)

In(up) == {g \in Groups : up[g] # Absent}

\* g and the groups above it, in any set that holds g and, with a group, the one
\* above it; one whose parent is not listed is a root.
Rising(up, S) == \A h \in S : up[h] \in In(up) => up[h] \in S
Above(up, g) ==
    {h \in In(up) : /\ g \in In(up)
                    /\ \A S \in SUBSET In(up) : g \in S /\ Rising(up, S) => h \in S}
Acyclic(up) == \A g \in In(up) : up[g] \notin In(up) \/ g \notin Above(up, up[g])

Init ==
    /\ parent \in {up \in [Groups -> Groups \cup {None, Absent}] :
                     Acyclic(up) /\ \A g \in Groups : up[g] \in In(up) \cup {None, Absent}}
    /\ group \in [Devices -> In(parent) \cup {None}]
    /\ depts = [g \in Groups |-> Absent] /\ rows = [d \in Devices |-> Absent]
    /\ hidden = {} /\ checked = {} /\ drag = Nobody
    /\ requests = [i \in Id |-> Idle] /\ sent = 0 /\ others = 0

-----------------------------------------------------------------------------
(* The tree                                                                *)

Shown == {d \in Devices : rows[d] # Absent} \ hidden

\* Where a device is put: under its group if the page knows it.
Known_Why(d) == rows[d]
Known(d) == IF rows[d] \in In(depts) THEN rows[d] ELSE None

\* Groups are built from the roots down: those on a cycle are in no tree.
Roots == {g \in In(depts) : depts[g] \notin In(depts)}
Tree == {g \in In(depts) : Above(depts, g) \cap Roots # {}}
Rows == {d \in Shown : Known(d) \in Tree \cup {None}}

\* A group may not be dropped on itself or on a group of its subtree.
CanDropGroup_Why(g, target) == g # target
CanDropGroup(g, target) == g # target /\ ~(g \in Tree /\ g \in Above(depts, target))

-----------------------------------------------------------------------------
(* The user                                                                *)

Filter(h) ==
    /\ h # hidden /\ hidden' = h
    /\ UNCHANGED <<server, lists, checked, drag, requests, sent, others>>

\* One device, or all that are shown under a group, are checked or not.
Check(ids, on) ==
    /\ checked' = (IF on THEN checked \cup ids ELSE checked \ ids)
    /\ checked' # checked
    /\ UNCHANGED <<server, lists, hidden, drag, requests, sent, others>>
Subtree(g) == {d \in Rows : Known(d) # None /\ g \in Above(depts, Known(d))}

\* A device that is checked drags all that are.
DragDevice(d) ==
    /\ drag = Nobody /\ d \in Rows
    /\ drag' = [ids |-> IF d \in checked THEN checked ELSE {d}, of |-> None]
    /\ UNCHANGED <<server, lists, hidden, checked, requests, sent, others>>
DragGroup(g) ==
    /\ drag = Nobody /\ g \in Tree
    /\ drag' = [ids |-> {}, of |-> g]
    /\ UNCHANGED <<server, lists, hidden, checked, requests, sent, others>>

\* Another request of the page is under way, or another admin writes.
Lapped(r) == [r EXCEPT !.lone = FALSE]
Start(op, ids, g, to) ==
    /\ sent < MaxRequest /\ sent' = sent + 1
    /\ LET alone == \A i \in Id : requests[i].phase = "idle"
       IN  requests' = [i \in Id |->
              IF i # sent' THEN Lapped(requests[i])
              ELSE [op |-> op, ids |-> ids, left |-> ids, of |-> g, to |-> to,
                    phase |-> "sent", lone |-> alone, fresh |-> (depts = parent /\ g \in Tree)]]
    /\ UNCHANGED <<server, lists, hidden, checked, others>>

EndDrag == drag # Nobody /\ drag' = Nobody /\ UNCHANGED <<server, lists, hidden, checked, requests, sent, others>>

Drop(target) ==
    /\ drag # Nobody /\ drag' = Nobody
    /\ \/ drag.of = None /\ Start("move", drag.ids, None, target)
       \/ /\ drag.of # None
          /\ target = None \/ CanDropGroup(drag.of, target)
          /\ Start("reparent", {}, drag.of, target)

\* The bulk bar sends all that is checked, whether it is shown or not; the
\* menus of a row send one device to the top, a group to the top, or delete it.
BulkMove(target) == checked # {} /\ Start("move", checked, None, target) /\ UNCHANGED drag
Ungroup(d) == d \in Rows /\ rows[d] # None /\ Start("move", {d}, None, None) /\ UNCHANGED drag
ToTop(g) == g \in Tree /\ Start("reparent", {}, g, None) /\ UNCHANGED drag
DeleteGroup(g) == g \in Tree /\ Start("delete", {}, g, None) /\ UNCHANGED drag
\* A new group has an id that neither side knows.
Unused(g) ==
    /\ parent[g] = Absent /\ depts[g] = Absent /\ \A d \in Devices : rows[d] # g
    /\ \A i \in Id : requests[i].of # g /\ requests[i].to # g
CreateGroup(g, to) ==
    /\ Unused(g) /\ to \in Tree \cup {None}
    /\ Start("create", {}, g, to) /\ UNCHANGED drag

-----------------------------------------------------------------------------
(* The server                                                              *)

Exists(to) == to \in In(parent) \cup {None}

\* Deleting a group deletes those under it; their devices lose their group.
Doomed(g) == {h \in In(parent) : g \in Above(parent, h)}
Remove(g) ==
    /\ parent' = [h \in Groups |-> IF h \in Doomed(g) THEN Absent ELSE parent[h]]
    /\ group' = [d \in Devices |-> IF group[d] \in Doomed(g) THEN None ELSE group[d]]

Legal(r) ==
    CASE r.op = "reparent" ->
           /\ r.of \in In(parent) /\ Exists(r.to)
           /\ r.to = None \/ r.of \notin Above(parent, r.to)
      [] r.op = "delete" -> r.of \in In(parent)
      [] r.op = "create" -> Exists(r.to)

ServeGroup(i) ==
    LET r == requests[i] IN
    /\ r.phase = "sent" /\ r.op # "move"
    /\ \/ /\ Legal(r)
          /\ \/ r.op = "delete" /\ Remove(r.of)
             \/ r.op # "delete" /\ parent' = [parent EXCEPT ![r.of] = r.to] /\ UNCHANGED group
          /\ requests' = [j \in Id |-> [requests[j] EXCEPT !.fresh = FALSE,
                             !.phase = IF j = i THEN "listing" ELSE @]]
       \/ /\ ~Legal(r) /\ UNCHANGED server
          /\ requests' = [requests EXCEPT ![i].phase = "refused"]
    /\ UNCHANGED <<lists, hand, sent, others>>

\* The devices of a move are assigned one after the other, until one is
\* refused: those before it have moved.
OnRefusal_Why(r, d) == [r EXCEPT !.left = @ \ {d}]
OnRefusal(r, d) == [r EXCEPT !.phase = "refused"]
Assign(i) ==
    LET r == requests[i] IN
    /\ r.phase = "sent" /\ r.op = "move"
    /\ \E d \in r.left :
        IF group[d] # Absent /\ Exists(r.to)
        THEN /\ group' = [group EXCEPT ![d] = r.to]
             /\ requests' = [requests EXCEPT ![i].left = @ \ {d}]
        ELSE requests' = [requests EXCEPT ![i] = OnRefusal(r, d)] /\ UNCHANGED group
    /\ UNCHANGED <<parent, lists, hand, sent, others>>

-----------------------------------------------------------------------------
(* What comes back                                                         *)

\* Ids that left the list leave the selection.
List(newDepts, newRows) ==
    /\ depts' = newDepts /\ rows' = newRows
    /\ checked' = {d \in checked : newRows[d] # Absent}

Assigned(r) == r.op = "move" /\ r.left = {} /\ r.phase = "sent"

\* The lists are read again (a read that fails leaves the old one), then the
\* toast says that it is done.  A move clears the selection, whatever is in it.
Done(i) ==
    LET r == requests[i] IN
    /\ r.phase = "listing" \/ Assigned(r)
    /\ \E newDepts \in {depts, parent}, newRows \in {rows, group} :
        /\ r.op = "move" => newDepts = depts
        /\ r.op \in {"create", "reparent"} => newRows = rows
        /\ depts' = newDepts /\ rows' = newRows
        /\ checked' = IF r.op = "move" THEN {} ELSE {d \in checked : newRows[d] # Absent}
    /\ requests' = [requests EXCEPT ![i] = Idle]
    /\ UNCHANGED <<server, hidden, drag, sent, others>>

\* Refused, or no answer: the toast says why, no list is read, and a move
\* clears the selection all the same.
Failed(i) ==
    /\ requests[i].phase \in {"sent", "refused"}
    /\ checked' = IF requests[i].op = "move" THEN {} ELSE checked
    /\ requests' = [requests EXCEPT ![i] = Idle]
    /\ UNCHANGED <<server, lists, hidden, drag, sent, others>>

\* When the window comes to the fore either list may be read again.
ReadGroups ==
    /\ depts # parent /\ List(parent, rows)
    /\ UNCHANGED <<server, hidden, drag, requests, sent, others>>
ReadDevices ==
    /\ rows # group /\ List(depts, group)
    /\ UNCHANGED <<server, hidden, drag, requests, sent, others>>

\* Another admin deletes a group, or removes a device.
Other(g, d) ==
    /\ others < MaxOther /\ others' = others + 1
    /\ \/ g \in In(parent) /\ Remove(g)
       \/ group' = [group EXCEPT ![d] = Absent] /\ UNCHANGED parent
    /\ requests' = [i \in Id |-> [Lapped(requests[i]) EXCEPT !.fresh = FALSE]]
    /\ UNCHANGED <<lists, hand, sent>>

-----------------------------------------------------------------------------
Next ==
    \/ \E h \in SUBSET Devices : Filter(h)
    \/ \E on \in BOOLEAN, g \in Groups : Check(Subtree(g), on)
    \/ \E on \in BOOLEAN, d \in Devices : d \in Rows /\ Check({d}, on)
    \/ \E d \in Devices : DragDevice(d) \/ Ungroup(d)
    \/ \E g \in Groups : DragGroup(g) \/ ToTop(g) \/ DeleteGroup(g)
    \/ EndDrag
    \/ \E to \in In(depts) \cup {None} :
        Drop(to) \/ BulkMove(to) \/ \E g \in Groups : CreateGroup(g, to)
    \/ \E i \in Id : ServeGroup(i) \/ Assign(i) \/ Done(i) \/ Failed(i)
    \/ ReadGroups \/ ReadDevices
    \/ \E g \in Groups, d \in Devices : Other(g, d)

Spec == Init /\ [][Next]_vars

-----------------------------------------------------------------------------
(* Properties                                                              *)

\* "a group whose parent vanished is shown at the root rather than lost"
\* (DeviceTree.tsx:170), and so is a device whose group did: every device that
\* passes the filters has a row, at whatever instants the lists were read.
EveryDeviceHasARow == Rows = Shown

\* What the page lets be dropped the server accepts, unless its groups have
\* changed since the page read them, or the group vanished under the drag: the
\* two checks agree (DeviceTree.tsx:245-262, departments.ts:36-48).
AllowedDropsAreLegal ==
    \A i \in Id : requests[i].op = "reparent" /\ requests[i].phase = "refused" =>
        ~requests[i].fresh

\* When the last device of a move has been answered for, and the toast is to
\* say that they moved, all are in the group they were sent to, if nobody
\* wrote meanwhile (dashboard/page.tsx:202-210).
LoneMoveIsTrue ==
    \A i \in Id : LET r == requests[i] IN
        Assigned(r) /\ r.lone => \A d \in r.ids : group[d] = r.to

=============================================================================
