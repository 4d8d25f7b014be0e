---------------------------- MODULE MCTelemetry ----------------------------
(***************************************************************************)
(* Small instances, for TLC, of three stages of the way of a position: the *)
(* UDP server (UdpIngest), the consumer group that writes to the table and *)
(* the hot state (StreamConsumer) and the rules it runs (TelemetryRules,   *)
(* given a few positions that differ in everything the rules look at, each *)
(* with settings of its own).  They share no state: a behaviour belongs to *)
(* one part, and the variables of the others keep their initial values.    *)
(***************************************************************************)
EXTENDS StreamConsumer, Integers

CONSTANTS
    f1, f2,                                                  \* two geofences
    Fences, Inputs,                                          \* TelemetryRules
    MoveSpeed, StopSpeed, StopMin, MaxPosition,
    Handlers, MaxRecord, MaxPacket, MaxId, MaxSwitch, MaxFaults,  \* UdpIngest
    BackendMayFail, NodeMayExit, SharedDeduper

ASSUME UdpAssumption ==
    /\ {MaxRecord, MaxPacket, MaxId, MaxSwitch, MaxFaults} \subseteq Nat
    /\ {BackendMayFail, NodeMayExit, SharedDeduper} \subseteq BOOLEAN
    /\ IsFiniteSet(Devices)

VARIABLES
    part,
    state, trip, silent, log, flagged, raised, trips,
    captured, flash, lastPacket, current, sent, acks, allowed, switches, pc, msg,
    todo, fresh, seen, stored, abandoned, swallowed, faults

P(dt, speed, ignition, where, limit, ignitions, fences) ==
    [dt |-> dt, speed |-> speed, ignition |-> ignition, where |-> where,
     limit |-> limit, ignitions |-> ignitions, fences |-> fences]

MCInputs == {
    P(1, 100, TRUE, {f1}, 90, TRUE, {f1}),
    P(1, 60, TRUE, {}, 50, TRUE, {f1}),
    P(1, 60, None, {}, 90, TRUE, {}),
    P(1, 4, TRUE, {f1}, None, TRUE, {f1}),
    P(1, 0, FALSE, {f1}, 90, TRUE, {f1, f2}),
    P(2, 0, FALSE, {f1, f2}, 90, FALSE, {f2}),
    P(1, 0, None, {}, None, FALSE, {}),
    P(-1, 0, FALSE, {}, 50, TRUE, {f1}),
    P(-1, 60, TRUE, {f1}, 90, TRUE, {f1, f2})}

Rules == INSTANCE TelemetryRules

\* Speeds in km/h and times in seconds, and a mark that is none of the values it
\* stands in for.
ASSUME RulesAssumption ==
    /\ Inputs \subseteq Rules!Input
    /\ {MoveSpeed, StopSpeed, StopMin, MaxPosition} \subseteq Nat
    /\ None \notin Int \cup BOOLEAN
    /\ None \notin Rules!DeviceAlertState /\ None \notin Rules!TripState

Udp == INSTANCE UdpIngest WITH lastId <- lastPacket

streamVars == vars
rulesVars == <<state, trip, silent, log, flagged, raised, trips>>
udpVars == <<captured, flash, lastPacket, current, sent, acks, allowed, switches,
             pc, msg, todo, fresh, seen, stored, abandoned, swallowed,
             faults>>

PartInit ==
    /\ part \in {"stream", "rules", "udp"}
    /\ Init /\ Rules!Init /\ Udp!Init

PartNext ==
    \/ part = "stream" /\ Next /\ UNCHANGED <<part, rulesVars, udpVars>>
    \/ part = "rules" /\ Rules!Next /\ UNCHANGED <<part, streamVars, udpVars>>
    \/ part = "udp" /\ Udp!Next /\ UNCHANGED <<part, streamVars, rulesVars>>

\* Each part runs under the fairness of its module.
PartSpec ==
    /\ PartInit /\ [][PartNext]_<<part, streamVars, rulesVars, udpVars>>
    /\ \/ part = "stream" /\ Fairness
       \/ part = "rules" /\ Rules!Fairness
       \/ part = "udp" /\ Udp!Fairness

-----------------------------------------------------------------------------
\* handleBatch acks what it stored or passed over: every entry comes to the position
\* table, is passed over, or stays pending for a replica that ended.
StreamEventuallyStored == part = "stream" => EventuallyStored

\* alert.engine.ts raises an alert where the log of positions has an edge.
AlertsAreEdges == Rules!AlertsAreEdges

\* trip.detector.ts records the journeys of the log, and nothing else.
TripsAreJourneys == Rules!TripsAreJourneys

\* The sweep flags a vehicle that falls silent.
OfflineIsFlagged == part = "rules" => Rules!OfflineIsFlagged

\* A record a device deletes on a UDP ack is stored, in a handler's hands, was
\* abandoned by a handler that failed, or is one whose XADD failed in a pipeline that
\* resolved all the same; and no record is stored twice.
UdpStoresOnce == Udp!AckedIsAccounted /\ Udp!StoredOnce

\* The flash of a device that sends by UDP and stays allowed empties.
UdpEventuallyFreed == part = "udp" => Udp!EventuallyFreed

=============================================================================
