------------------------------ MODULE LiveMap ------------------------------
(***************************************************************************)
(* The dashboard's live map: the /rt socket of the control plane, the hook *)
(* that keeps the newest report per device and the latest alerts, the REST *)
(* reads that seed both whenever the device list changes.  A report is its *)
(* number among the reports of its device, an alert its number.  The waits *)
(* between attempts to connect take any time.  The control plane may run   *)
(* in two replicas, which share the stream and not their sockets.  Reports *)
(* and alerts share the socket and nothing else: a behaviour has one kind  *)
(* (a bound).                                                              *)
(***************************************************************************)
EXTENDS Naturals, Sequences

CONSTANTS
    Devices,
    Kept,            \* alerts the panel keeps (100 in the code)
    MaxReport, MaxAlert, MaxDrop, MaxList   \* bounds

\* A message of the feed names a device, or says that it is an alert.
ASSUME MapAssumption == MaxReport \in Nat /\ "alert" \notin Devices

Report == 1..MaxReport
None == 0

VARIABLES
    listed,    \* the tenant's devices, as the server has them
    latest,    \* device -> its newest report in the hot state; None
    stored,    \* the alerts the server keeps, newest first
    raised,    \* alerts raised so far
    valid,     \* the token the page captured when it mounted still verifies
    conn,      \* the socket: "closed", "connecting" or "open"
    feed,      \* messages sent to the socket and not handled yet
    drops,
    loads,     \* device lists that have come
    devices,   \* devicesQuery.data
    seeds,     \* one per list: device -> what its read found; "idle" when done
    asked,     \* the answers of listAlerts under way
    clearing,  \* clearAlerts has deleted and has not returned
    positions, \* device -> the report the map holds; None
    alerts,    \* the alerts the panel holds
    excused    \* history: devices whose newest report the page could not know

server == <<listed, latest, stored, raised>>
socket == <<valid, conn, feed, drops>>
reads == <<loads, devices, seeds, asked, clearing>>
shown == <<positions, alerts>>
vars == <<server, socket, reads, shown, excused>>

Unread == MaxReport + 1
Idle == [d \in Devices |-> None]
Loads == 1..MaxList

TypeOK ==
    /\ listed \subseteq Devices /\ devices \subseteq Devices
    /\ latest \in [Devices -> Report \cup {None}]
    /\ positions \in [Devices -> Report \cup {None}]
    /\ stored \in Seq(1..MaxAlert) /\ alerts \in Seq(1..MaxAlert)
    /\ valid \in BOOLEAN /\ conn \in {"closed", "connecting", "open"}
    /\ seeds \in [Loads -> [Devices -> 0..Unread]]
    /\ asked \subseteq Seq(1..MaxAlert) /\ clearing \in BOOLEAN
    /\ loads \in 0..MaxList /\ drops \in 0..MaxDrop /\ raised \in 0..MaxAlert
    /\ excused \subseteq Devices

Init ==
    /\ listed = Devices /\ latest = [d \in Devices |-> None]
    /\ stored = <<>> /\ raised = 0
    /\ valid = TRUE /\ conn = "connecting" /\ feed = <<>> /\ drops = 0
    /\ loads = 0 /\ devices = {} /\ seeds = [i \in Loads |-> Idle]
    /\ asked = {} /\ clearing = FALSE
    /\ positions = [d \in Devices |-> None] /\ alerts = <<>>
    /\ excused = {}

-----------------------------------------------------------------------------
(* The server                                                              *)

\* A broadcast reaches the sockets that are open at the replica that consumed the
\* message, and no other ever.
Reaches(here) == here /\ conn = "open"
Broadcast(m, here) == feed' = IF Reaches(here) THEN Append(feed, m) ELSE feed

Publish(d, here) ==
    /\ d \in listed /\ latest[d] < MaxReport /\ raised = 0
    /\ latest' = [latest EXCEPT ![d] = @ + 1]
    /\ Broadcast([of |-> d, n |-> latest'[d]], here)
    /\ excused' = IF Reaches(here) THEN excused ELSE excused \cup {d}
    /\ UNCHANGED <<listed, stored, raised, valid, conn, drops, reads, shown>>

PublishAlert(here) ==
    /\ raised < MaxAlert /\ \A d \in Devices : latest[d] = None
    /\ raised' = raised + 1
    /\ stored' = <<raised'>> \o stored
    /\ Broadcast([of |-> "alert", n |-> raised'], here)
    /\ UNCHANGED <<listed, latest, valid, conn, drops, reads, shown, excused>>

-----------------------------------------------------------------------------
(* The socket                                                              *)

\* handleConnection: a token that does not verify is refused with 1008, and
\* the page treats that close as any other.
Connect ==
    /\ conn = "connecting"
    /\ conn' = IF valid THEN "open" ELSE "closed"
    /\ UNCHANGED <<server, valid, feed, drops, reads, shown, excused>>

\* The connection breaks; what was under way is lost.
Drop ==
    /\ conn = "open" /\ drops < MaxDrop
    /\ conn' = "closed" /\ feed' = <<>> /\ drops' = drops + 1
    /\ excused' = excused \cup {d \in Devices : \E i \in DOMAIN feed : feed[i].of = d}
    /\ UNCHANGED <<server, valid, reads, shown>>

Retry ==
    /\ conn = "closed" /\ conn' = "connecting"
    /\ UNCHANGED <<server, valid, feed, drops, reads, shown, excused>>

\* The token expires; a refresh stores another, which this page never reads.
Expire ==
    /\ valid /\ valid' = FALSE
    /\ UNCHANGED <<server, conn, feed, drops, reads, shown, excused>>

\* A report that is older than what is shown leaves its device behind, unless a
\* newer one follows.
Arrives(d, r) ==
    IF r = latest[d] THEN excused \ {d}
    ELSE IF r < positions[d] THEN excused \cup {d} ELSE excused

\* The hook keeps the last report to come, of any device of the tenant.
Hold_Why(m) == IF m.of \in devices THEN [positions EXCEPT ![m.of] = m.n] ELSE positions
Hold(m) == [positions EXCEPT ![m.of] = m.n]

Receive ==
    /\ feed # <<>> /\ feed' = Tail(feed)
    /\ LET m == Head(feed) IN
       \/ /\ m.of \in Devices
          /\ positions' = Hold(m)
          /\ excused' = Arrives(m.of, m.n)
          /\ UNCHANGED alerts
       \/ /\ m.of = "alert"
          /\ LET all == <<m.n>> \o alerts
             IN  alerts' = SubSeq(all, 1, IF Len(all) < Kept THEN Len(all) ELSE Kept)
          /\ UNCHANGED <<positions, excused>>
    /\ UNCHANGED <<server, valid, conn, drops, reads>>

-----------------------------------------------------------------------------
(* The reads that seed the map                                             *)

\* The device list comes; if it differs, every device in it is read.
ListDevices ==
    /\ loads < MaxList /\ devices # listed
    /\ loads' = loads + 1 /\ devices' = listed
    /\ seeds' = [seeds EXCEPT ![loads'] =
                    [d \in Devices |-> IF d \in listed THEN Unread ELSE None]]
    /\ asked' = IF listed = {} THEN asked ELSE asked \cup {stored}
    /\ UNCHANGED <<server, socket, clearing, shown, excused>>

\* api.latest answers, or fails, which stands for no position.
ReadLatest(i, d) ==
    /\ seeds[i][d] = Unread
    /\ \E r \in {latest[d], None} : seeds' = [seeds EXCEPT ![i][d] = r]
    /\ UNCHANGED <<server, socket, loads, devices, asked, clearing, shown, excused>>

Merge(list) ==
    [d \in Devices |-> IF list[d] = None THEN positions[d] ELSE list[d]]

\* All of them have: what was found is laid over what is shown.
Seed(i) ==
    /\ seeds[i] # Idle /\ \A d \in Devices : seeds[i][d] # Unread
    /\ positions' = Merge(seeds[i])
    /\ seeds' = [seeds EXCEPT ![i] = Idle]
    /\ excused' = {d \in Devices :
                     \/ d \in excused /\ seeds[i][d] # latest[d]
                     \/ seeds[i][d] # None /\ seeds[i][d] < positions[d]}
    /\ UNCHANGED <<server, socket, loads, devices, asked, clearing, alerts>>

SeedAlerts(list) ==
    /\ list \in asked /\ asked' = asked \ {list}
    /\ alerts' = list
    /\ UNCHANGED <<server, socket, loads, devices, seeds, clearing, positions, excused>>

-----------------------------------------------------------------------------
(* The user                                                                *)

ClearAlerts ==
    /\ ~clearing /\ alerts # <<>>
    /\ clearing' = TRUE /\ stored' = <<>>
    /\ UNCHANGED <<listed, latest, raised, socket, loads, devices, seeds,
                   asked, shown, excused>>

ClearReturns ==
    /\ clearing /\ clearing' = FALSE /\ alerts' = <<>>
    /\ UNCHANGED <<server, socket, loads, devices, seeds, asked, positions, excused>>

DeleteDevice(d) ==
    /\ d \in devices \cap listed
    /\ listed' = listed \ {d}
    /\ UNCHANGED <<latest, stored, raised, socket, reads, shown, excused>>

-----------------------------------------------------------------------------
Next ==
    \/ \E here \in BOOLEAN : PublishAlert(here) \/ \E d \in Devices : Publish(d, here)
    \/ \E d \in Devices : DeleteDevice(d)
    \/ Connect \/ Drop \/ Retry \/ Expire \/ Receive
    \/ ListDevices
    \/ \E i \in Loads : Seed(i) \/ \E d \in Devices : ReadLatest(i, d)
    \/ \E list \in asked : SeedAlerts(list)
    \/ ClearAlerts \/ ClearReturns

Spec == Init /\ [][Next]_vars

-----------------------------------------------------------------------------
(* Properties                                                              *)

\* With the socket open and every message handled, the map is behind the
\* server for no other reason than these: a report that the other replica
\* consumed, that was broadcast while the socket was down or lost with it; a
\* seed that was read before a report and landed after it, or a report that
\* landed after a newer seed, the newest having gone elsewhere
\* (useLivePositions.ts:35-42, 68-75, realtime.gateway.ts:18-19).
BehindIsExcused ==
    conn = "open" /\ feed = <<>> =>
        \A d \in Devices : positions[d] < latest[d] => d \in excused

=============================================================================
