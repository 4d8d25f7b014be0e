----------------------------- MODULE Dashboard -----------------------------
(***************************************************************************)
(* The dashboard page: which device is selected, which one the camera      *)
(* follows, the route and the playback dot of the selected one, geofences  *)
(* drawn, named and saved, devices added, edited, removed and restored.    *)
(* Everything the user starts ends after a request, and what its end does  *)
(* to the page it does whatever the user has done meanwhile.  Other admins *)
(* remove and restore devices too, and this page is told nothing of it.    *)
(*                                                                         *)
(* A shape is its number among the shapes drawn, a position its number     *)
(* among those of its device.  The map is loaded.                          *)
(***************************************************************************)
EXTENDS Naturals, FiniteSets

CONSTANTS
    Devices, New,                \* New: those not registered at first
    MaxRequest, MaxShape, MaxMove    \* bounds

None == "none"
Id == 1..MaxRequest
Shape == 1..MaxShape
Op == {"add", "edit", "delete", "restore", "save", "unfence"}
OnFences == {"save", "unfence"}

VARIABLES
    live,       \* devices of the tenant, as the server lists them
    fences,     \* shapes the server keeps as geofences
    devices, geofences,    \* the two lists, as the page holds them
    requests,   \* id -> what the user started, with the selection of then
    sent,
    dialog,     \* the add-device dialog: "closed", "open" or "saving"
    selected, follow,      \* a device, or None
    asking, routes,        \* devices whose history is asked for; held
    dot,        \* the device whose route the playback dot is on, or None
    at,         \* device -> its newest position; 0 before the first
    camera,     \* the position the camera was last sent to, or Free
    panel,      \* the geofence panel is open
    draw, clicks,    \* draw mode; points of the shape under way
    pending,    \* the shape that waits for a name; 0
    drawn, flat,     \* shapes drawn so far; those the server refuses
    strayed,    \* history: the user moved the camera since the last fix
    crossed,    \* history: the selection was made over a removal, or of a device that
                \* was gone; or it went unseen: its answer was lost, or others did it
    kept, dropped, overlapped  \* history: shapes saved once; discarded; drawn over a save

server == <<live, fences>>
lists == <<devices, geofences>>
calls == <<requests, sent>>
view == <<selected, follow, asking, routes, at, camera, strayed, crossed>>
sketch == <<draw, clicks, pending, drawn, flat, kept, dropped, overlapped>>
vars == <<server, lists, calls, dialog, view, dot, panel, sketch>>

Free == [of |-> None, n |-> 0]
Idle == [op |-> "edit", of |-> None, shape |-> 0, was |-> None, phase |-> "idle"]

TypeOK ==
    /\ UNION {live, devices, asking, routes} \subseteq Devices
    /\ UNION {fences, geofences, flat, kept, dropped, overlapped} \subseteq Shape
    /\ requests \in [Id -> [op : Op, of : Devices \cup {None}, shape : Shape \cup {0},
                            was : Devices \cup {None},
                            phase : {"idle", "sent", "answered", "listing"}]]
    /\ sent \in 0..MaxRequest /\ dialog \in {"closed", "open", "saving"}
    /\ {selected, follow, dot} \subseteq Devices \cup {None}
    /\ at \in [Devices -> 0..MaxMove]
    /\ camera \in [of : Devices \cup {None}, n : 0..MaxMove]
    /\ panel \in BOOLEAN
    /\ draw \in {"none", "circle", "polygon"} /\ clicks \in 0..2
    /\ pending \in Shape \cup {0} /\ drawn \in 0..MaxShape
    /\ strayed \in BOOLEAN /\ crossed \in BOOLEAN

\* Overview links here with a device to select, which may have been removed.
Init ==
    /\ live \in SUBSET (Devices \ New) /\ fences = {}
    /\ devices = {} /\ geofences = {}
    /\ requests = [i \in Id |-> Idle] /\ sent = 0 /\ dialog = "closed"
    /\ selected \in (Devices \ New) \cup {None} /\ follow = None
    /\ asking = {selected} \ {None} /\ routes = {} /\ dot = None
    /\ at = [d \in Devices |-> 0] /\ camera = Free
    /\ panel = FALSE /\ draw = "none" /\ clicks = 0 /\ pending = 0
    /\ drawn = 0 /\ flat = {} /\ kept = {} /\ dropped = {} /\ overlapped = {}
    /\ strayed = FALSE /\ crossed = (selected \notin live \cup {None})

-----------------------------------------------------------------------------
(* What is on the screen                                                   *)

CardShown == selected \in devices /\ draw = "none" /\ pending = 0
PlaybackShown == selected # None /\ draw = "none" /\ pending = 0

\* Playback starts again at the head of the route whenever that changes; once
\* it is off the screen nothing moves its dot.
Rendered ==
    dot' = IF ~PlaybackShown' THEN dot
           ELSE IF selected' \in routes' THEN selected' ELSE None

InFlight(op) == {i \in Id : requests[i].phase # "idle" /\ requests[i].op = op}

-----------------------------------------------------------------------------
(* Selection and camera                                                    *)

PanTo(d) == camera' = IF at[d] = 0 THEN camera ELSE [of |-> d, n |-> at[d]]

\* A selection ends the following of any other device, and reads its history.
Choose(d) ==
    /\ selected' = d
    /\ follow' = IF follow = d THEN d ELSE None
    /\ asking' = asking \cup {d}
    /\ crossed' = (d \notin live \/ InFlight("delete") # {})

\* A click on a row of the tree or on a marker: the camera goes there.
SelectDevice(d) ==
    /\ d \in devices
    /\ Choose(d) /\ PanTo(d)
    /\ strayed' = (strayed /\ at[d] = 0)
    /\ UNCHANGED <<server, lists, calls, dialog, routes, at, panel, sketch>>

CloseCard ==
    /\ CardShown
    /\ selected' = None /\ follow' = None
    /\ crossed' = (InFlight("delete") # {})
    /\ UNCHANGED <<server, lists, calls, dialog, asking, routes, at, camera, strayed,
                   panel, sketch>>

Centre ==
    /\ CardShown /\ at[selected] # 0
    /\ PanTo(selected) /\ strayed' = (strayed /\ follow # selected)
    /\ UNCHANGED <<server, lists, calls, dialog, selected, follow, asking, routes, at,
                   crossed, panel, sketch>>

ToggleFollow ==
    /\ CardShown /\ at[selected] # 0
    /\ \/ follow = selected /\ follow' = None /\ UNCHANGED <<camera, strayed>>
       \/ follow # selected /\ follow' = selected /\ PanTo(selected) /\ strayed' = FALSE
    /\ UNCHANGED <<server, lists, calls, dialog, selected, asking, routes, at, crossed,
                   panel, sketch>>

\* A position comes; the camera keeps to the device it follows.
Move(d) ==
    /\ at[d] < MaxMove
    /\ at' = [at EXCEPT ![d] = @ + 1]
    /\ IF follow = d
       THEN camera' = [of |-> d, n |-> at'[d]] /\ strayed' = FALSE
       ELSE UNCHANGED <<camera, strayed>>
    /\ UNCHANGED <<server, lists, calls, dialog, selected, follow, asking, routes,
                   crossed, panel, sketch>>

\* The user drags the map, or fits all vehicles in it.
Stray ==
    /\ \E d \in Devices : at[d] # 0
    /\ camera' = Free /\ strayed' = TRUE
    /\ UNCHANGED <<server, lists, calls, dialog, selected, follow, asking, routes, at,
                   crossed, panel, sketch>>

\* The route of the selected device is drawn, and the camera fitted to it.
MayFit_Why == TRUE
MayFit == follow = None
HistoryComes(d) ==
    /\ d \in asking /\ asking' = asking \ {d}
    /\ routes' = routes \cup {d}
    /\ camera' = IF d = selected /\ MayFit THEN Free ELSE camera
    /\ UNCHANGED <<server, lists, calls, dialog, selected, follow, at, strayed, crossed,
                   panel, sketch>>

-----------------------------------------------------------------------------
(* Drawing                                                                 *)

\* The geofence panel is opened, or closed, or gives way to the alerts.
TogglePanel ==
    /\ panel \/ drawn < MaxShape   \* a bound
    /\ panel' = ~panel
    /\ UNCHANGED <<server, lists, calls, dialog, view, sketch>>

\* Starting, or giving up, drops the points placed.
Draw(mode) ==
    /\ panel /\ drawn < MaxShape /\ pending = 0 /\ (draw = "none") # (mode = "none")
    /\ draw' = mode /\ clicks' = 0
    /\ UNCHANGED <<server, lists, calls, dialog, view, panel, pending, drawn, flat,
                   kept, dropped, overlapped>>

Drawn(isFlat) ==
    /\ drawn < MaxShape /\ drawn' = drawn + 1
    /\ pending' = drawn' /\ draw' = "none" /\ clicks' = 0
    /\ flat' = IF isFlat THEN flat \cup {drawn'} ELSE flat
    /\ overlapped' = IF InFlight("save") = {} THEN overlapped ELSE overlapped \cup {drawn'}
    /\ UNCHANGED <<kept, dropped>>

\* The first click of a circle is its centre, the second its edge; one of no
\* radius is handed on, and the server refuses it.  A polygon takes a point.
Click ==
    /\ draw # "none"
    /\ \/ /\ clicks < (IF draw = "circle" THEN 1 ELSE 2)
          /\ clicks' = clicks + 1
          /\ UNCHANGED <<draw, pending, drawn, flat, kept, dropped, overlapped>>
       \/ draw = "circle" /\ clicks = 1 /\ \E isFlat \in BOOLEAN : Drawn(isFlat)
    /\ UNCHANGED <<server, lists, calls, dialog, view, panel>>

\* A double click, at the last point or at a new one, ends a polygon of three
\* different points or more; of a shorter one the points are dropped.
DoubleClick ==
    /\ draw = "polygon"
    /\ \/ clicks = 2 /\ Drawn(FALSE)
       \/ clicks' = 0 /\ UNCHANGED <<draw, pending, drawn, flat, kept, dropped, overlapped>>
    /\ UNCHANGED <<server, lists, calls, dialog, view, panel>>

Discard ==
    /\ panel /\ pending # 0
    /\ pending' = 0 /\ dropped' = dropped \cup {pending}
    /\ UNCHANGED <<server, lists, calls, dialog, view, panel, draw, clicks, drawn, flat,
                   kept, overlapped>>

-----------------------------------------------------------------------------
(* Requests                                                                *)

Start(op, d, s) ==
    /\ sent < MaxRequest /\ sent' = sent + 1
    /\ requests' = [requests EXCEPT ![sent'] =
          [op |-> op, of |-> d, shape |-> s, was |-> selected, phase |-> "sent"]]
    /\ UNCHANGED <<server, lists, view, panel, sketch>>

\* Nothing keeps a shape from being saved again before the first answer.
SaveGeofence == panel /\ pending # 0 /\ Start("save", None, pending) /\ UNCHANGED dialog
DeleteGeofence(s) == panel /\ s \in geofences /\ Start("unfence", None, s) /\ UNCHANGED dialog
DeleteDevice(d) == d \in devices /\ Start("delete", d, 0) /\ UNCHANGED dialog
RestoreDevice(d) == d \in Devices \ (devices \cup New) /\ Start("restore", d, 0) /\ UNCHANGED dialog
EditDevice(d) == d \in devices /\ Start("edit", d, 0) /\ UNCHANGED dialog

\* Opening the dialog resets it, a create under way included.
OpenDialog ==
    /\ dialog = "closed" /\ dialog' = "open"
    /\ UNCHANGED <<server, lists, calls, view, panel, sketch>>
CloseDialog ==
    /\ dialog # "closed" /\ dialog' = "closed"
    /\ UNCHANGED <<server, lists, calls, view, panel, sketch>>
Submit(d) == d \in New \ devices /\ dialog = "open" /\ Start("add", d, 0) /\ dialog' = "saving"

Phase(i, phase) == requests' = [requests EXCEPT ![i].phase = phase]
Finish(i) == requests' = [requests EXCEPT ![i] = Idle]

\* What the server does for each.
Applies(r) ==
    \/ r.op = "delete" /\ r.of \in live /\ live' = live \ {r.of} /\ UNCHANGED <<fences, kept>>
    \/ r.op \in {"add", "restore"} /\ r.of \notin live /\ live' = live \cup {r.of}
       /\ UNCHANGED <<fences, kept>>
    \/ r.op = "edit" /\ r.of \in live /\ UNCHANGED <<live, fences, kept>>
    \/ r.op = "save" /\ r.shape \notin flat /\ fences' = fences \cup {r.shape}
       /\ kept' = kept \cup {r.shape} /\ UNCHANGED live
    \/ r.op = "unfence" /\ r.shape \in fences /\ fences' = fences \ {r.shape}
       /\ UNCHANGED <<live, kept>>

Serve(i) ==
    /\ requests[i].phase = "sent" /\ Applies(requests[i]) /\ Phase(i, "answered")
    /\ UNCHANGED <<lists, sent, dialog, view, panel, draw, clicks, pending, drawn, flat,
                   dropped, overlapped>>

\* Another admin removes a device, or restores one.
Elsewhere(d) ==
    /\ \/ d \in live /\ live' = live \ {d}
       \/ d \notin live \cup New /\ live' = live \cup {d}
    /\ crossed' = (crossed \/ d = selected)
    /\ UNCHANGED <<fences, lists, calls, dialog, selected, follow, asking, routes, at,
                   camera, strayed, panel, sketch>>

\* A request that fails, its effect applied or not, ends in a toast only.
AfterFailure_Why(i) == pending' = IF requests[i].op = "save" THEN 0 ELSE pending
AfterFailure(i) == UNCHANGED pending
Fail(i) ==
    /\ requests[i].phase = "sent" /\ Finish(i)
    /\ Applies(requests[i]) \/ UNCHANGED <<live, fences, kept>>
    /\ AfterFailure(i)
    /\ dialog' = IF requests[i].op = "add" /\ dialog = "saving" THEN "open" ELSE dialog
    /\ crossed' = (crossed \/ live' # live)
    /\ UNCHANGED <<lists, sent, selected, follow, asking, routes, at, camera, strayed,
                   panel, draw, clicks, drawn, flat, dropped, overlapped>>

\* The answer comes: a removal clears the selection if the device was the one
\* selected when the removal was started, a save the shape that is pending.
WasSelected_Why(r) == FALSE
WasSelected(r) == r.of = r.was
Answer(i) ==
    LET r == requests[i] IN
    /\ r.phase = "answered" /\ Phase(i, "listing")
    /\ pending' = IF r.op = "save" THEN 0 ELSE pending
    /\ IF r.op = "delete" /\ WasSelected(r)
       THEN selected' = None /\ follow' = None
       ELSE UNCHANGED <<selected, follow>>
    /\ UNCHANGED <<server, lists, sent, dialog, asking, routes, at, camera, strayed,
                   crossed, panel, draw, clicks, drawn, flat, kept, dropped, overlapped>>

\* The list is read again, or that fails, and nobody is told.  A device added
\* is then selected, and the dialog closed, even one opened since.
Relist(i) ==
    LET r == requests[i] IN
    /\ r.phase = "listing" /\ Finish(i)
    /\ \/ /\ r.op \in OnFences
          /\ geofences' \in {fences, geofences} /\ UNCHANGED devices
       \/ /\ r.op \notin OnFences
          /\ devices' \in {live, devices} /\ UNCHANGED geofences
    /\ IF r.op = "add"
       THEN Choose(r.of) /\ dialog' = "closed"
       ELSE UNCHANGED <<selected, follow, asking, dialog, crossed>>
    /\ UNCHANGED <<server, sent, routes, at, camera, strayed, panel, sketch>>

\* The lists are read when the page mounts and, once stale, when its window
\* comes to the fore again; so is the route.
Refocus ==
    /\ devices' = live /\ geofences' = fences
    /\ asking' = asking \cup ({selected} \ {None})
    /\ UNCHANGED <<server, calls, dialog, selected, follow, routes, at, camera, strayed,
                   crossed, panel, sketch>>

-----------------------------------------------------------------------------
Step ==
    \/ \E d \in Devices :
        \/ SelectDevice(d) \/ Move(d) \/ HistoryComes(d) \/ Elsewhere(d)
        \/ DeleteDevice(d) \/ RestoreDevice(d) \/ EditDevice(d) \/ Submit(d)
    \/ CloseCard \/ Centre \/ ToggleFollow \/ Stray
    \/ TogglePanel
    \/ \E mode \in {"none", "circle", "polygon"} : Draw(mode)
    \/ Click \/ DoubleClick \/ Discard
    \/ SaveGeofence \/ \E s \in Shape : DeleteGeofence(s)
    \/ OpenDialog \/ CloseDialog \/ Refocus
    \/ \E i \in Id : Serve(i) \/ Fail(i) \/ Answer(i) \/ Relist(i)

Next == Step /\ Rendered
Spec == Init /\ [][Next]_vars

-----------------------------------------------------------------------------
(* Properties                                                              *)

\* MapView.tsx:258: "Don't yank the camera away from a device the user is
\* following".  The camera is on the newest position of the device followed,
\* whatever route comes late, unless the user has moved it since.
FollowKeepsCamera ==
    follow # None /\ at[follow] # 0 /\ ~strayed =>
        camera = [of |-> follow, n |-> at[follow]]

\* A shape drawn is saved, or still waits for its name, or was discarded; the
\* end of a save clears the shape that is pending and asks not which it is
\* (dashboard/page.tsx:146-147), so one drawn over a save may be lost.
DrawnIsKept ==
    \A s \in 1..drawn : s \in kept \cup dropped \cup overlapped \cup {pending}

\* Once nothing is under way the device selected is one of the list, unless
\* it was selected over a removal (whose end knows the selection of its start,
\* dashboard/page.tsx:248) or after its own (an add selects what it added,
\* whenever it ends, a link what it names), or it was removed by others or in a
\* request whose answer was lost: a list that is read again clears nothing.
SelectedIsListed ==
    devices = live /\ ~crossed /\ requests = [i \in Id |-> Idle] =>
        selected \in devices \cup {None}

=============================================================================
