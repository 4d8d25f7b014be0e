--------------------------- MODULE StreamConsumer ---------------------------
(***************************************************************************)
(* From the telemetry stream to the position table and the live map: the   *)
(* Redis consumer group (RedisStreamBus in redis.ts), the handling of a    *)
(* batch (TelemetryConsumer.process) and the hot state it and the read API *)
(* (positions.controller.ts) keep.                                         *)
(*                                                                         *)
(* The replicas of the control plane share one group: each XREADGROUP with *)
(* '>' hands the next entries to one of them.  A batch is worked off with  *)
(* an await at every call to Postgres or Redis; if one rejects, the loop's *)
(* promise rejects with nobody to catch it and the process ends.           *)
(*                                                                         *)
(* A definition X_Why before a definition X is a mistake one could make in *)
(* X.  Nothing uses it: put in X's place, it breaks a property below.      *)
(***************************************************************************)
EXTENDS Naturals, Sequences, FiniteSets

CONSTANTS
    Devices,     \* the trackers (IMEIs)
    Replicas,    \* the control-plane processes
    Count,       \* COUNT of XREADGROUP
    MaxEntries,  \* bound: entries of the stream
    MaxTs,       \* bound: timestamps of positions, 1..MaxTs
    MaxUpsets,   \* bound: replicas that end, by a rejected call or a kill, losses
                 \* of the hot state, and changes of what resolveDevice answers
    MayWarm,     \* TRUE: the live map asks for positions that are not hot
    None         \* no position: in the hot state, or in a payload

ASSUME StreamAssumption ==
    /\ {Count, MaxTs} \subseteq Nat \ {0}
    /\ {MaxEntries, MaxUpsets} \subseteq Nat
    /\ MayWarm \in BOOLEAN
    /\ None \notin Nat

Id == 1..MaxEntries
Position == [dev : Devices, ts : 1..MaxTs]

\* An entry of the stream: a position, or a payload that is no JSON.
TelemetryMessage == [dev : Devices, ts : 1..MaxTs \cup {None}]

VARIABLES
    stream,     \* entries of the stream; an entry's id is its place
    start,      \* entries already there when the group was made, or None
    lastId,     \* last-delivered-id of the group
    pel,        \* the group's pending entries
    step,       \* replica -> "down", "idle", "rules", "insert", "hot" or "ack"
    batch,      \* replica -> ids of the batch in hand
    left,       \* replica -> ids still to be evaluated
    latest,     \* replica -> positions still to be written to the hot state
    known,      \* replica -> the IMEIs its resolveDevice finds a device for
    evaluated,  \* id -> times the rules engine has been run on it
    skipped,    \* history: ids that process() passed over
    positions,  \* the position table
    hot,        \* device -> timestamp of its last known position, or None
    warm,       \* device -> what a GET latest read from the table, or None
    upsets      \* of the kinds MaxUpsets names, so far

busVars  == <<stream, start, lastId, pel>>
workVars == <<step, batch, left, latest>>
entryVars == <<evaluated, skipped>>
vars == <<busVars, workVars, known, entryVars, positions, hot, warm, upsets>>

TypeOK ==
    /\ stream \in Seq(TelemetryMessage) /\ Len(stream) <= MaxEntries
    /\ start \in 0..MaxEntries \cup {None}
    /\ lastId \in 0..MaxEntries
    /\ pel \subseteq Id
    /\ step \in [Replicas -> {"down", "idle", "rules", "insert", "hot", "ack"}]
    /\ batch \in [Replicas -> SUBSET Id]
    /\ left \in [Replicas -> SUBSET Id]
    /\ latest \in [Replicas -> SUBSET Position]
    /\ known \in [Replicas -> SUBSET Devices]
    /\ evaluated \in [Id -> Nat]
    /\ skipped \subseteq Id
    /\ positions \subseteq Position
    /\ hot \in [Devices -> 1..MaxTs \cup {None}]
    /\ warm \in [Devices -> 1..MaxTs \cup {None}]
    /\ upsets \in 0..MaxUpsets

Init ==
    /\ stream = <<>>
    /\ start = None
    /\ lastId = 0
    /\ pel = {}
    /\ step = [c \in Replicas |-> "down"]
    /\ batch = [c \in Replicas |-> {}]
    /\ left = [c \in Replicas |-> {}]
    /\ latest = [c \in Replicas |-> {}]
    /\ known = [c \in Replicas |-> Devices]
    /\ evaluated = [id \in Id |-> 0]
    /\ skipped = {}
    /\ positions = {}
    /\ hot = [d \in Devices |-> None]
    /\ warm = [d \in Devices |-> None]
    /\ upsets = 0

-----------------------------------------------------------------------------
Upset == upsets < MaxUpsets /\ upsets' = upsets + 1

\* Ingestion appends an entry.  A tracker that was out of coverage sends old
\* records late, and one that never got its ack sends a record twice.
Append1(p) ==
    /\ Len(stream) < MaxEntries
    /\ stream' = Append(stream, p)
    /\ UNCHANGED <<start, lastId, pel, workVars, known, entryVars, positions, hot, warm,
                   upsets>>

\* XGROUP CREATE ... $: what is in the stream already is not delivered.  A group
\* that exists is left as it is (BUSYGROUP).
GroupAt_Again == Len(stream)
GroupAt == IF start = None THEN Len(stream) ELSE lastId

Boot(c) ==
    /\ step[c] = "down"
    /\ step' = [step EXCEPT ![c] = "idle"]
    /\ lastId' = GroupAt
    /\ start' = IF start = None THEN Len(stream) ELSE start
    /\ UNCHANGED <<stream, pel, batch, left, latest, known, entryVars, positions, hot,
                   warm, upsets>>

\* XREADGROUP ... '>': entries never delivered to any consumer, Count at most.
Unread_Pending == {id \in DOMAIN stream : id > lastId \/ id \in pel}
Unread == {id \in DOMAIN stream : id > lastId}

Claimed_NoAck(ids) == pel
Claimed(ids) == pel \cup ids

Read(c) ==
    /\ step[c] = "idle"
    /\ Unread # {}
    /\ LET ids == {id \in Unread : Cardinality({j \in Unread : j < id}) < Count}
       IN /\ batch' = [batch EXCEPT ![c] = ids]
          /\ left' = [left EXCEPT ![c] = ids]
          /\ pel' = Claimed(ids)
          /\ lastId' = IF \E id \in ids : id > lastId
                       THEN CHOOSE id \in ids : \A j \in ids : j <= id ELSE lastId
    /\ step' = [step EXCEPT ![c] = "rules"]
    /\ UNCHANGED <<stream, start, latest, known, entryVars, positions, hot, warm, upsets>>

\* A device is provisioned, deleted or restored, or an entry of the cache of a
\* replica runs out or is dropped: DeviceLookup says when the answer is how old.
Learn(c, d) ==
    /\ Upset
    /\ known' = [known EXCEPT ![c] = IF d \in @ THEN @ \ {d} ELSE @ \cup {d}]
    /\ UNCHANGED <<busVars, workVars, entryVars, positions, hot, warm>>

\* resolveDevice finds a device and JSON.parse a position.
Resolves(c, id) == stream[id].dev \in known[c] /\ stream[id].ts # None

\* One turn of the loop of process(): the rules engine sees the position, its
\* alerts and trips are inserted; or the entry is passed over with a warning.
Evaluate(c) ==
    /\ step[c] = "rules"
    /\ \E id \in left[c] :
          /\ \A j \in left[c] : id <= j
          /\ left' = [left EXCEPT ![c] = @ \ {id}]
          /\ step' = [step EXCEPT ![c] = IF left[c] = {id} THEN "insert" ELSE @]
          /\ \/ /\ Resolves(c, id)
                /\ evaluated' = [evaluated EXCEPT ![id] = @ + 1]
                /\ UNCHANGED skipped
             \/ /\ ~Resolves(c, id)
                /\ skipped' = skipped \cup {id}
                /\ UNCHANGED evaluated
    /\ UNCHANGED <<busVars, batch, latest, known, positions, hot, warm, upsets>>

\* toInsert: what of the batch was not passed over.
Batch(c) == {stream[id] : id \in batch[c] \ skipped}

\* latestPerDevice: of each device in the batch, the position with the highest
\* timestamp.
LatestPerDevice_Untimed(c) == {[dev |-> p.dev] : p \in Batch(c)}
LatestPerDevice(c) ==
    {p \in Batch(c) : \A q \in Batch(c) : q.dev = p.dev => q.ts <= p.ts}

\* positions.insertMany, ON CONFLICT (device_id, ts) DO NOTHING.
Inserted_AllOrNone(ps) == IF ps \cap positions = {} THEN positions \cup ps ELSE positions
Inserted(ps) == positions \cup ps

Insert(c) ==
    /\ step[c] = "insert"
    /\ positions' = Inserted(Batch(c))
    /\ latest' = [latest EXCEPT ![c] = LatestPerDevice(c)]
    /\ step' = [step EXCEPT ![c] = IF Batch(c) = {} THEN "ack" ELSE "hot"]
    /\ UNCHANGED <<busVars, batch, left, known, entryVars, hot, warm, upsets>>

\* hot.setLast: the position replaces whatever is there.
SetLast(c) ==
    /\ step[c] = "hot"
    /\ \E p \in latest[c] :
          /\ hot' = [hot EXCEPT ![p.dev] = p.ts]
          /\ latest' = [latest EXCEPT ![c] = @ \ {p}]
          /\ step' = [step EXCEPT ![c] = IF latest[c] = {p} THEN "ack" ELSE @]
    /\ UNCHANGED <<busVars, batch, left, known, entryVars, positions, warm, upsets>>

Ack(c) ==
    /\ step[c] = "ack"
    /\ pel' = pel \ batch[c]
    /\ batch' = [batch EXCEPT ![c] = {}]
    /\ step' = [step EXCEPT ![c] = "idle"]
    /\ UNCHANGED <<stream, start, lastId, left, latest, known, entryVars, positions, hot,
                   warm, upsets>>

\* A call to Postgres or Redis is rejected, or the process is killed.
Fail(c) ==
    /\ step[c] # "down"
    /\ Upset
    /\ step' = [step EXCEPT ![c] = "down"]
    /\ batch' = [batch EXCEPT ![c] = {}]
    /\ left' = [left EXCEPT ![c] = {}]
    /\ latest' = [latest EXCEPT ![c] = {}]
    /\ UNCHANGED <<busVars, known, entryVars, positions, hot, warm>>

-----------------------------------------------------------------------------
\* The hot state is lost: Redis restarts empty, or the key's TTL ends.
Flush ==
    /\ Upset
    /\ hot' = [d \in Devices |-> None]
    /\ UNCHANGED <<busVars, workVars, known, entryVars, positions, warm>>

\* GET latest finds nothing hot and reads the newest row of the table ...
ReadTable(d) ==
    /\ MayWarm
    /\ hot[d] = None
    /\ warm[d] = None
    /\ \E p \in positions :
          /\ p.dev = d
          /\ \A q \in positions : q.dev = d => q.ts <= p.ts
          /\ warm' = [warm EXCEPT ![d] = p.ts]
    /\ UNCHANGED <<busVars, workVars, known, entryVars, positions, hot, upsets>>

\* ... and warms the cache with it.
Rewarm(d) ==
    /\ warm[d] # None
    /\ hot' = [hot EXCEPT ![d] = warm[d]]
    /\ warm' = [warm EXCEPT ![d] = None]
    /\ UNCHANGED <<busVars, workVars, known, entryVars, positions, upsets>>

-----------------------------------------------------------------------------
Process(c) == Evaluate(c) \/ Insert(c) \/ SetLast(c) \/ Ack(c)

Next ==
    \/ \E p \in TelemetryMessage : Append1(p)
    \/ \E c \in Replicas :
          \/ Boot(c) \/ Read(c) \/ Process(c) \/ Fail(c)
          \/ \E d \in Devices : Learn(c, d)
    \/ \E d \in Devices : ReadTable(d) \/ Rewarm(d)
    \/ Flush

Spec == Init /\ [][Next]_vars

\* Processes are started again and work on; entries, failures and requests are
\* owed by nobody.
Fairness ==
    \A c \in Replicas : WF_vars(Boot(c)) /\ WF_vars(Read(c)) /\ WF_vars(Process(c))

FairSpec == Spec /\ Fairness

-----------------------------------------------------------------------------
(***************************************************************************)
(* Properties.                                                             *)
(***************************************************************************)
Delivered == {id \in Id : start # None /\ start < id /\ id <= lastId}

Stored(id) == stream[id] \in positions

\* An entry is acknowledged to the group only when its position is in the table, or
\* it had none, or its IMEI was no device's in the eyes of the replica that had it
\* in hand.  What the rules have seen is never among the latter.
AckedIsStored ==
    /\ \A id \in Delivered \ pel : Stored(id) \/ id \in skipped
    /\ \A id \in skipped : evaluated[id] = 0

\* No entry goes to two replicas, or twice to one: no alert is raised twice, no
\* trip counted twice.
EvaluatedOnce == \A id \in Id : evaluated[id] <= 1

\* redis.ts: batches are acked after they are handled, at least once.  An entry
\* that is pending is in the hands of a replica that runs.
Stranded(id) == id \in pel /\ \A c \in Replicas : id \notin batch[c]

NothingStranded == \A id \in Id : ~Stranded(id)

\* Every entry appended since the group was made gets to the table, is passed over
\* for want of a device or a position, or is left pending by a replica that ended:
\* none is for ever put off, and a replica none of whose batch is kept goes on.
EventuallyStored ==
    \A id \in Id :
        (start # None /\ start < id /\ id \in DOMAIN stream) ~>
        (id \in DOMAIN stream /\ (Stored(id) \/ Stranded(id) \/ id \in skipped))

\* What the live map shows of a device is in its history, whoever wrote it: a
\* replica that works, one that has ended since, or a GET that warmed the cache.
HotIsStored ==
    \A d \in Devices : hot[d] # None => [dev |-> d, ts |-> hot[d]] \in positions

\* What is acked was passed over or is in the position table, and what the hot state
\* shows is there too.
StoredBeforeShown == AckedIsStored /\ HotIsStored

=============================================================================
