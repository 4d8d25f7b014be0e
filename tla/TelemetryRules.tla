--------------------------- MODULE TelemetryRules ---------------------------
(***************************************************************************)
(* What the control plane concludes from the positions of one device, in   *)
(* the order in which a replica handles them: the alert engine (alerts.ts) *)
(* with its offline sweep, and the trip detector (trips.ts).               *)
(*                                                                         *)
(* Both keep a few fields per device in memory, from which they tell what  *)
(* is new.  Positions may be handled late, and the tenant's settings,      *)
(* cached for a while by the consumer, may be others at each position.  A  *)
(* behaviour is the life of one process; what it held is lost with it.     *)
(*                                                                         *)
(* A definition X_Why before a definition X is a mistake one could make in *)
(* X.  Nothing uses it: put in X's place, it breaks a property below.      *)
(***************************************************************************)
EXTENDS Integers, SequencesExt, FiniteSets

CONSTANTS
    Fences,        \* the tenant's geofences
    Inputs,        \* positions, each with the settings it is judged by
    MoveSpeed,     \* moveSpeedKph
    StopSpeed,     \* stopSpeedKph
    StopMin,       \* stopMinSec, in the unit of the timestamps
    MaxPosition,   \* bound: positions handled
    None           \* no limit, ignition not reported, no state

\* dt: by how much the timestamp differs from the one handled before; where: the
\* fences around the position; limit, ignitions, fences: AlertConfig and
\* geofences (no fences: geofence alerts are off, or there are none).
Input == [dt : Int, speed : Nat, ignition : BOOLEAN \cup {None},
          where : SUBSET Fences, limit : Nat \cup {None},
          ignitions : BOOLEAN, fences : SUBSET Fences]

VARIABLES
    state,   \* DeviceAlertState, or None before the first position
    trip,    \* TripState, or None
    silent,  \* the last position is older than the offline threshold
    log,     \* history: the positions handled, with their timestamps
    flagged, \* history: device_offline has been raised in this silence
    raised,  \* history: the other alerts, with the position they were raised at
    trips    \* history: the trips recorded, with the positions they were made of

vars == <<state, trip, silent, log, flagged, raised, trips>>

Ts(i) == log[i].ts
Pos(i) == log[i].pos

Kind == ({"overspeed", "ignition_on", "ignition_off"} \X {None})
            \cup ({"geofence_enter", "geofence_exit"} \X Fences)

DeviceAlertState ==
    [lastIgnition : BOOLEAN \cup {None}, overspeedActive : BOOLEAN,
     insideGeofences : SUBSET Fences, offlineAlerted : BOOLEAN]

TripState == [mode : {"idle", "moving"}, start : Int, maxSpeed : Nat,
              points : 0..MaxPosition, stoppedSince : Int \cup {None}]

TypeOK ==
    /\ state \in DeviceAlertState \cup {None}
    /\ trip \in TripState \cup {None}
    /\ {silent, flagged} \subseteq BOOLEAN
    /\ Len(log) \in 0..MaxPosition
    /\ raised \subseteq [at : 1..MaxPosition, kind : Kind]
    /\ trips \subseteq [from : Int, to : Int, points : 1..MaxPosition,
                        maxSpeed : Nat, at : 1..MaxPosition]

Init ==
    /\ state = None
    /\ trip = None
    /\ silent = FALSE
    /\ flagged = FALSE
    /\ log = <<>>
    /\ raised = {}
    /\ trips = {}

-----------------------------------------------------------------------------
(***************************************************************************)
(* AlertEngine.                                                            *)
(***************************************************************************)

\* get(): the state of a device not seen before.
Fresh == [lastIgnition |-> None, overspeedActive |-> FALSE,
          insideGeofences |-> {}, offlineAlerted |-> FALSE]

st == IF state = None THEN Fresh ELSE state

Over(p) == p.limit # None /\ p.speed > p.limit

Speeding_EveryPacket(p) == IF Over(p) THEN {<<"overspeed", None>>} ELSE {}
Speeding(p) == IF Over(p) /\ ~st.overspeedActive THEN {<<"overspeed", None>>} ELSE {}

Ignition(p) ==
    IF p.ignitions /\ p.ignition # None /\ st.lastIgnition # None
       /\ p.ignition # st.lastIgnition
    THEN {<<IF p.ignition THEN "ignition_on" ELSE "ignition_off", None>>} ELSE {}

\* geofencesContaining(geofences, pos)
nowInside(p) == p.where \cap p.fences

Crossing(p) ==
    IF p.fences = {} THEN {}
    ELSE ({"geofence_enter"} \X (nowInside(p) \ st.insideGeofences))
         \cup ({"geofence_exit"} \X (st.insideGeofences \ nowInside(p)))

Judged_StillOffline(p) ==
    [lastIgnition |-> IF p.ignitions /\ p.ignition # None THEN p.ignition
                      ELSE st.lastIgnition,
     overspeedActive |-> IF p.limit # None THEN Over(p) ELSE st.overspeedActive,
     insideGeofences |-> IF p.fences # {} THEN nowInside(p) ELSE st.insideGeofences,
     offlineAlerted |-> st.offlineAlerted]

\* What is kept for the next position; a rule that is off keeps what it had.
Judged(p) ==
    [lastIgnition |-> IF p.ignitions /\ p.ignition # None THEN p.ignition
                      ELSE st.lastIgnition,
     overspeedActive |-> IF p.limit # None THEN Over(p) ELSE st.overspeedActive,
     insideGeofences |-> IF p.fences # {} THEN nowInside(p) ELSE st.insideGeofences,
     offlineAlerted |-> FALSE]

-----------------------------------------------------------------------------
(***************************************************************************)
(* TripDetector.update.                                                    *)
(***************************************************************************)
Still(ts) == [mode |-> "idle", start |-> ts, maxSpeed |-> 0, points |-> 0,
              stoppedSince |-> None]
Departed(p, ts) == [mode |-> "moving", start |-> ts, maxSpeed |-> p.speed,
                    points |-> 1, stoppedSince |-> None]

Stopped(p) == p.speed <= StopSpeed
Moving(p) == p.speed >= MoveSpeed
Under(p) == trip # None /\ trip.mode = "moving"

\* A stop that has lasted stopMinSec.
Arrives(p, ts) ==
    /\ Under(p)
    /\ Stopped(p)
    /\ trip.stoppedSince # None
    /\ ts - trip.stoppedSince >= StopMin

Higher(a, b) == IF a < b THEN b ELSE a

StoppedSince_Kept(p, ts) == IF trip.stoppedSince = None /\ Stopped(p) THEN ts
                            ELSE trip.stoppedSince
StoppedSince(p, ts) == IF ~Stopped(p) THEN None
                       ELSE IF trip.stoppedSince = None THEN ts
                       ELSE trip.stoppedSince

Extended(p, ts) ==
    [trip EXCEPT !.maxSpeed = Higher(@, p.speed),
                 !.points = @ + 1,
                 !.stoppedSince = StoppedSince(p, ts)]

\* The trip recorded when position n ends it.
Recorded(p, ts, n) ==
    [from |-> trip.start, to |-> ts, points |-> trip.points + 1,
     maxSpeed |-> Higher(trip.maxSpeed, p.speed), at |-> n]

Updated(p, ts) ==
    IF Arrives(p, ts) THEN Still(ts)
    ELSE IF Under(p) THEN Extended(p, ts)
    ELSE IF Moving(p) THEN Departed(p, ts)
    ELSE IF trip = None THEN Still(ts) ELSE trip

-----------------------------------------------------------------------------
\* toPosition: the timestamp is the device's.
Stamp(p) == p.dt + IF log = <<>> THEN 0 ELSE Ts(Len(log))

\* One position of TelemetryConsumer.process: alerts, then trips.
Process(p) ==
    LET n  == Len(log) + 1
        ts == Stamp(p)
    IN  /\ n <= MaxPosition
        /\ log' = Append(log, [pos |-> p, ts |-> ts])
        /\ raised' = raised \cup
              {[at |-> n, kind |-> k] : k \in Speeding(p) \cup Ignition(p) \cup Crossing(p)}
        /\ state' = Judged(p)
        /\ trips' = IF Arrives(p, ts) THEN trips \cup {Recorded(p, ts, n)} ELSE trips
        /\ trip' = Updated(p, ts)
        /\ silent' = FALSE
        /\ flagged' = FALSE

\* Time passes without a position.
Silence ==
    /\ log # <<>>
    /\ ~silent
    /\ silent' = TRUE
    /\ UNCHANGED <<state, trip, log, flagged, raised, trips>>

Overdue == state # None /\ silent /\ ~state.offlineAlerted

\* sweepOffline, on a timer.
SweepOffline ==
    /\ Overdue
    /\ state' = [state EXCEPT !.offlineAlerted = TRUE]
    /\ flagged' = TRUE
    /\ UNCHANGED <<trip, silent, log, raised, trips>>

Next == Silence \/ SweepOffline \/ \E p \in Inputs : Process(p)

Spec == Init /\ [][Next]_vars

\* The timer ticks on; positions are owed by nobody.
Fairness == WF_vars(SweepOffline)

FairSpec == Spec /\ Fairness

-----------------------------------------------------------------------------
(***************************************************************************)
(* Properties.                                                             *)
(***************************************************************************)

\* The last of some positions before the i-th, 0 if there is none.
Before(S, i) == IF \E j \in S : j < i
                THEN CHOOSE j \in S : j < i /\ \A k \in S : k < i => k <= j
                ELSE 0

At(i, k, f) == [at |-> i, kind |-> <<k, f>>] \in raised

Limited == {i \in DOMAIN log : Pos(i).limit # None}
Ignited == {i \in DOMAIN log : Pos(i).ignitions /\ Pos(i).ignition # None}
Fenced  == {i \in DOMAIN log : Pos(i).fences # {}}

WasOver(j) == j # 0 /\ Over(Pos(j))
WasInside(j) == IF j = 0 THEN {} ELSE nowInside(Pos(j))

\* alerts.ts: alerts are raised on transitions, not on every packet.  Each alert
\* marks a difference between its position and the last one judged by the same
\* rule, however long the rule was off and whatever came between; and no such
\* difference goes unmarked.
AlertsAreEdges ==
    \A i \in DOMAIN log :
        LET p == Pos(i)
            s == Before(Limited, i)
            g == Before(Ignited, i)
            within == WasInside(Before(Fenced, i))
        IN
        /\ At(i, "overspeed", None) <=> i \in Limited /\ Over(p) /\ ~WasOver(s)
        /\ At(i, "ignition_on", None) <=>
              i \in Ignited /\ p.ignition = TRUE /\ g # 0 /\ Pos(g).ignition = FALSE
        /\ At(i, "ignition_off", None) <=>
              i \in Ignited /\ p.ignition = FALSE /\ g # 0 /\ Pos(g).ignition = TRUE
        /\ \A f \in Fences :
              /\ At(i, "geofence_enter", f) <=> i \in Fenced /\ f \in nowInside(p) \ within
              /\ At(i, "geofence_exit", f) <=> i \in Fenced /\ f \in within \ nowInside(p)

Ordered == \A i, j \in DOMAIN log : i <= j => Ts(i) <= Ts(j)

\* From k to j the vehicle stood still, long enough.
Stop(k, j) ==
    /\ Ts(j) - Ts(k) >= StopMin
    /\ \A m \in k..j : Stopped(Pos(m))

\* From i on the vehicle was under way, until a stop that counts ended at j.
Journey(i, j) ==
    /\ Moving(Pos(i))
    /\ \E k \in (i + 1)..(j - 1) : Stop(k, j)
    /\ \A m \in (i + 1)..(j - 1) : \A k \in (i + 1)..(m - 1) : ~Stop(k, m)

Start(t) == t.at - t.points + 1

\* trips.ts: a trip is a period of continuous movement that ends once the vehicle
\* has been stationary for stopMinSec.  If positions are handled in the order of
\* their timestamps, the trips recorded are such periods, from end to end, they do
\* not overlap, and none is missing.
TripsAreJourneys ==
    Ordered =>
        /\ \A t \in trips :
              /\ Journey(Start(t), t.at)
              /\ t.from = Ts(Start(t)) /\ t.to = Ts(t.at)
              /\ \A i \in Start(t)..t.at : Pos(i).speed <= t.maxSpeed
              /\ \E i \in Start(t)..t.at : Pos(i).speed = t.maxSpeed
        /\ \A t, u \in trips : t # u => t.at < Start(u) \/ u.at < Start(t)
        /\ \A i, j \in DOMAIN log :
              Journey(i, j) => \E t \in trips : i \in Start(t)..t.at

\* alerts.ts: sweepOffline flags devices that stopped reporting: each silence is
\* flagged, unless the device reports again first.
OfflineIsFlagged ==
    \A n \in 1..MaxPosition :
        silent /\ Len(log) = n ~> flagged \/ Len(log) # n

=============================================================================
