------------------------------ MODULE MapView ------------------------------
(***************************************************************************)
(* What the dashboard draws: a dot on the map for every position it holds, *)
(* by motion state, and the geofences.  A vehicle turns inactive with time *)
(* alone.                                                                  *)
(*                                                                         *)
(* The dots take three steps: the features handed to the map's source, the *)
(* tiles the map's worker makes of them (the map library, external), and   *)
(* the markers, rendered from the tiles when the map says something        *)
(* changed.  Vehicles the worker merges into a cluster share one marker,   *)
(* which counts them by state: here every vehicle keeps its own.           *)
(***************************************************************************)
EXTENDS Naturals

CONSTANTS
    Devices,
    InactiveAfter,                      \* INACTIVE_AFTER_SEC
    MaxReport, MaxList, MaxToggle, MaxFence, MaxTime   \* bounds

Reported == {"moving", "stopped", "parked"}   \* what speed and ignition say
Motion == Reported \cup {"inactive"}
Row == {"active", "suspended", "absent"}
Nothing == [at |-> 0, says |-> "nothing"]
Time == 0..MaxTime

VARIABLES
    ready,      \* the map's load event has come
    devices,    \* device -> its row in the list the page holds
    positions,  \* device -> the report the page holds, or Nothing
    filter,     \* the motion states shown; none means all
    now,
    drawnAt,    \* when the features were computed
    features,   \* vehicles and their states, as handed to the source
    tiles,      \* as the map's worker has them
    cut,        \* the worker has cut tiles, and the source has not said so
    markers,    \* as rendered
    fences,     \* version of the geofences the page holds; 0 before they come
    drawn,      \* version the map shows
    early,      \* the geofences the page holds came before the map was ready
    reports, lists, toggles   \* counters of the bounds

data == <<devices, positions, filter, fences>>
drawing == <<drawnAt, features, tiles, cut, markers>>
fencing == <<fences, drawn, early>>
counters == <<reports, lists, toggles>>
vars == <<ready, data, now, drawing, drawn, early, counters>>

TypeOK ==
    /\ {ready, cut, early} \subseteq BOOLEAN
    /\ devices \in [Devices -> Row]
    /\ positions \in [Devices -> {Nothing} \cup [at : Time, says : Reported]]
    /\ filter \subseteq Motion
    /\ {now, drawnAt} \subseteq Time
    /\ UNION {features, tiles, markers} \subseteq Devices \X Motion
    /\ {fences, drawn} \subseteq 0..MaxFence
    /\ reports \in 0..MaxReport /\ lists \in 0..MaxList /\ toggles \in 0..MaxToggle

Init ==
    /\ ready = FALSE
    /\ devices = [d \in Devices |-> "absent"]
    /\ positions = [d \in Devices |-> Nothing]
    /\ filter = {} /\ now = 0
    /\ drawnAt = 0
    /\ features = {} /\ tiles = {} /\ cut = FALSE /\ markers = {}
    /\ fences = 0 /\ drawn = 0 /\ early = FALSE
    /\ reports = 0 /\ lists = 0 /\ toggles = 0

-----------------------------------------------------------------------------
(* The classifier, and what is computed with it                            *)

MotionState(row, pos, at) ==
    IF row = "suspended" \/ pos = Nothing \/ at - pos.at > InactiveAfter
    THEN "inactive" ELSE pos.says

\* A position whose device is not in the list is drawn as an active vehicle.
VehicleFeatures(rows, poss, shown, at) ==
    {v \in Devices \X Motion :
        /\ poss[v[1]] # Nothing
        /\ v[2] = MotionState(rows[v[1]], poss[v[1]], at)
        /\ shown = {} \/ v[2] \in shown}

\* The features are computed again; the effect that renders the markers runs
\* at once, with the tiles the map still has.
Draw ==
    /\ features' = VehicleFeatures(devices', positions', filter', now)
    /\ drawnAt' = now
    /\ markers' = IF ready THEN tiles ELSE markers
    /\ UNCHANGED <<tiles, cut>>

-----------------------------------------------------------------------------
(* What reaches the page                                                   *)

Report(d, s) ==
    /\ reports < MaxReport /\ reports' = reports + 1
    /\ positions' = [positions EXCEPT ![d] = [at |-> now, says |-> s]]
    /\ UNCHANGED <<devices, filter>> /\ Draw
    /\ UNCHANGED <<ready, now, fencing, lists, toggles>>

ListDevices(rows) ==
    /\ lists < MaxList /\ lists' = lists + 1
    /\ rows # devices /\ devices' = rows
    /\ UNCHANGED <<positions, filter>> /\ Draw
    /\ UNCHANGED <<ready, now, fencing, reports, toggles>>

\* The effect that draws geofences runs when they change, and gives up when
\* the map is not ready.
ListGeofences ==
    /\ fences < MaxFence /\ fences' = fences + 1
    /\ drawn' = IF ready THEN fences' ELSE drawn
    /\ early' = ~ready
    /\ UNCHANGED <<ready, devices, positions, filter, now, drawing, counters>>

-----------------------------------------------------------------------------
(* The user, the clocks and the map                                        *)

\* A tile of the fleet's status, or Clear.
SetFilter(shown) ==
    /\ toggles < MaxToggle /\ toggles' = toggles + 1
    /\ filter' = shown /\ UNCHANGED <<devices, positions>> /\ Draw
    /\ UNCHANGED <<ready, now, fencing, reports, lists>>

ToggleStatus == \E s \in Motion :
    SetFilter(IF s \in filter THEN filter \ {s} ELSE filter \cup {s})
ClearStatus == filter # {} /\ SetFilter({})

Tick ==
    /\ now < MaxTime /\ now' = now + 1
    /\ UNCHANGED <<ready, data, drawing, drawn, early, counters>>

\* The map's ticker, every 30 seconds.
Clock ==
    /\ drawnAt # now
    /\ UNCHANGED <<devices, positions, filter>> /\ Draw
    /\ UNCHANGED <<ready, now, fencing, counters>>

\* load: the sources exist from here on.  What was waiting is applied, and
\* the markers wait for the tiles.
Load ==
    /\ ~ready /\ ready' = TRUE
    /\ UNCHANGED <<data, now, drawing, drawn, early, counters>>

\* The worker has cut tiles of the features it was handed last, and the
\* source is about to say so.
Cut ==
    /\ ready /\ tiles # features
    /\ tiles' = features /\ cut' = TRUE
    /\ UNCHANGED <<ready, data, now, drawnAt, features, markers, drawn, early, counters>>

\* The events on which the page renders the markers: the source's, and the
\* end of the user's moving or zooming the map.
OnSourceData_Why == UNCHANGED markers
OnSourceData == markers' = tiles
SourceData ==
    /\ cut /\ cut' = FALSE /\ OnSourceData
    /\ UNCHANGED <<ready, data, now, drawnAt, features, tiles, drawn, early, counters>>

MoveEnd ==
    /\ ready /\ markers # tiles /\ markers' = tiles
    /\ UNCHANGED <<ready, data, now, drawnAt, features, tiles, cut, drawn, early, counters>>

Next ==
    \/ \E d \in Devices, s \in Reported : Report(d, s)
    \/ \E rows \in [Devices -> Row] : ListDevices(rows)
    \/ ListGeofences \/ ToggleStatus \/ ClearStatus \/ Tick \/ Clock
    \/ Load \/ Cut \/ SourceData \/ MoveEnd

Spec == Init /\ [][Next]_vars

\* The map loads, its worker cuts what it is handed, its source says so.
Fairness == WF_vars(Load) /\ WF_vars(Cut) /\ WF_vars(SourceData)
FairSpec == Spec /\ Fairness

-----------------------------------------------------------------------------
(* Properties                                                              *)

\* Once nothing changes any more, the markers on the map are the vehicles and
\* states last computed, though they are rendered once too early whenever
\* those change (MapView.tsx:236-242).
MarkersCatchUp == <>[](markers = features)

=============================================================================
