------------------------------ MODULE UdpIngest ------------------------------
(***************************************************************************)
(* The UDP uplink (udp-server.ts).  There is no connection and no order:   *)
(* every datagram that arrives starts an onMessage of its own, which checks *)
(* the allow-list, shows each record to the deduper, writes the new ones   *)
(* and echoes the packet id with the record count.  onMessage is not       *)
(* serialised, so copies of one datagram - the network's or the device's   *)
(* own retransmissions - are handled side by side.                         *)
(*                                                                         *)
(* A definition X_Why before a definition X is a mistake one could make in *)
(* X.  Nothing uses it: put in X's place, it breaks a property below.      *)
(***************************************************************************)
EXTENDS Integers, FiniteSets

CONSTANTS
    Devices,         \* the trackers (IMEIs)
    Handlers,        \* bound: onMessage invocations under way at once
    MaxRecord,       \* bound: records a device captures
    MaxPacket,       \* bound: records in one datagram
    MaxId,           \* bound: packet ids a device uses up (no wrap-around)
    MaxSwitch,       \* bound: changes of the allow-list
    MaxFaults,       \* bound: rejected backend calls
    BackendMayFail,  \* TRUE: a sink write or a Redis SET may be rejected
    NodeMayExit,     \* TRUE: the ingest process may be killed or redeployed
    SharedDeduper    \* TRUE: RedisDeduper; FALSE: an InMemoryDeduper

Rec == Devices \X (1..MaxRecord)
Datagram == [dev : Devices, id : 1..MaxId, recs : SUBSET Rec]
Ack == [dev : Devices, id : 1..MaxId, count : Nat]
NoDatagram == [dev |-> "none"]

VARIABLES
    captured,   \* device -> number of records captured so far
    flash,      \* records still in the flash memory of their device
    lastId,     \* device -> id of the latest packet (0: none yet)
    current,    \* device -> records of the packet it awaits an ack for
    sent,       \* datagrams sent: each may arrive never, once or many times
    acks,       \* acks sent: the same
    allowed,    \* what isAllowed answers
    switches,   \* changes of the allow-list so far
    pc,         \* handler -> "free", "auth", "dedupe" or "write"
    msg,        \* handler -> the datagram it was started with
    todo,       \* handler -> records not yet shown to the deduper
    fresh,      \* handler -> records the deduper called new
    seen,       \* records whose dedupe key is set
    stored,     \* record -> copies durably held
    abandoned,  \* history: claimed records whose handler gave up on them
    swallowed,  \* history: records a sink failed to take and nobody was told of
    faults      \* faults so far

deviceVars  == <<captured, flash, lastId, current>>
handlerVars == <<pc, msg, todo, fresh>>
listVars    == <<allowed, switches>>
historyVars == <<abandoned, swallowed>>
vars == <<deviceVars, sent, acks, listVars, handlerVars, seen, stored,
          historyVars, faults>>

TypeOK ==
    /\ captured \in [Devices -> 0..MaxRecord]
    /\ flash \in SUBSET Rec
    /\ lastId \in [Devices -> 0..MaxId]
    /\ current \in [Devices -> SUBSET Rec]
    /\ sent \subseteq Datagram
    /\ acks \subseteq Ack
    /\ allowed \subseteq Devices
    /\ switches \in 0..MaxSwitch
    /\ pc \in [Handlers -> {"free", "auth", "dedupe", "write"}]
    /\ msg \in [Handlers -> Datagram \cup {NoDatagram}]
    /\ \A h \in Handlers : pc[h] # "free" => msg[h] \in Datagram
    /\ todo \in [Handlers -> SUBSET Rec]
    /\ fresh \in [Handlers -> SUBSET Rec]
    /\ seen \subseteq Rec
    /\ stored \in [Rec -> Nat]
    /\ abandoned \subseteq Rec
    /\ swallowed \subseteq Rec
    /\ faults \in 0..MaxFaults

Init ==
    /\ captured = [d \in Devices |-> 0]
    /\ flash = {}
    /\ lastId = [d \in Devices |-> 0]
    /\ current = [d \in Devices |-> {}]
    /\ sent = {}
    /\ acks = {}
    /\ allowed = Devices
    /\ switches = 0
    /\ pc = [h \in Handlers |-> "free"]
    /\ msg = [h \in Handlers |-> NoDatagram]
    /\ todo = [h \in Handlers |-> {}]
    /\ fresh = [h \in Handlers |-> {}]
    /\ seen = {}
    /\ stored = [r \in Rec |-> 0]
    /\ abandoned = {}
    /\ swallowed = {}
    /\ faults = 0

-----------------------------------------------------------------------------
(***************************************************************************)
(* The device, modelled from what udp-server.ts and udp.ts say of it: it   *)
(* sends its oldest records under a new packet id, sends the datagram again *)
(* until an ack echoes that id with the count, and then deletes them.      *)
(* Retransmission and duplication by the network are the same thing here:  *)
(* a datagram in sent can arrive any number of times.                      *)
(***************************************************************************)
Capture(d) ==
    /\ captured[d] < MaxRecord
    /\ captured' = [captured EXCEPT ![d] = @ + 1]
    /\ flash' = flash \cup {<<d, captured[d] + 1>>}
    /\ UNCHANGED <<lastId, current, sent, acks, listVars, handlerVars, seen,
                   stored, historyVars, faults>>

Mine(d) == {r \in flash : r[1] = d}

Send(d) ==
    /\ current[d] = {}
    /\ lastId[d] < MaxId
    /\ \E p \in SUBSET Mine(d) :
          /\ p # {}
          /\ Cardinality(p) <= MaxPacket
          /\ \A r \in p, q \in Mine(d) : q[2] < r[2] => q \in p
          /\ current' = [current EXCEPT ![d] = p]
          /\ sent' = sent \cup {[dev |-> d, id |-> lastId[d] + 1, recs |-> p]}
    /\ lastId' = [lastId EXCEPT ![d] = @ + 1]
    /\ UNCHANGED <<captured, flash, acks, listVars, handlerVars, seen, stored,
                   historyVars, faults>>

ReceiveAck(d) ==
    /\ current[d] # {}
    /\ [dev |-> d, id |-> lastId[d], count |-> Cardinality(current[d])] \in acks
    /\ flash' = flash \ current[d]
    /\ current' = [current EXCEPT ![d] = {}]
    /\ UNCHANGED <<captured, lastId, sent, acks, listVars, handlerVars, seen,
                   stored, historyVars, faults>>

\* The control plane provisions or revokes the device.
SwitchAllowed(d) ==
    /\ switches < MaxSwitch
    /\ switches' = switches + 1
    /\ allowed' = IF d \in allowed THEN allowed \ {d} ELSE allowed \cup {d}
    /\ UNCHANGED <<deviceVars, sent, acks, handlerVars, seen, stored, historyVars,
                   faults>>

-----------------------------------------------------------------------------
(***************************************************************************)
(* onMessage.                                                              *)
(***************************************************************************)
Arrive(h, m) ==
    /\ pc[h] = "free"
    /\ m \in sent
    /\ pc' = [pc EXCEPT ![h] = "auth"]
    /\ msg' = [msg EXCEPT ![h] = m]
    /\ UNCHANGED <<deviceVars, sent, acks, listVars, todo, fresh, seen, stored,
                   historyVars, faults>>

\* isAllowed answers; a datagram of an unknown device is dropped in silence.
Authorise(h) ==
    /\ pc[h] = "auth"
    /\ IF msg[h].dev \in allowed
       THEN /\ pc' = [pc EXCEPT ![h] = "dedupe"]
            /\ todo' = [todo EXCEPT ![h] = msg[h].recs]
            /\ UNCHANGED msg
       ELSE /\ pc' = [pc EXCEPT ![h] = "free"]
            /\ msg' = [msg EXCEPT ![h] = NoDatagram]
            /\ UNCHANGED todo
    /\ UNCHANGED <<deviceVars, sent, acks, listVars, fresh, seen, stored,
                   historyVars, faults>>

IsNew_Always(r) == TRUE
IsNew(r) == r \notin seen

CheckAndSet(h) ==
    /\ pc[h] = "dedupe"
    /\ \E r \in todo[h] :
          /\ \A q \in todo[h] : r[2] <= q[2]
          /\ todo' = [todo EXCEPT ![h] = @ \ {r}]
          /\ fresh' = [fresh EXCEPT ![h] = IF IsNew(r) THEN @ \cup {r} ELSE @]
          /\ seen' = seen \cup {r}
    /\ UNCHANGED <<deviceVars, sent, acks, listVars, pc, msg, stored, historyVars,
                   faults>>

StartWrite(h) ==
    /\ pc[h] = "dedupe"
    /\ todo[h] = {}
    /\ pc' = [pc EXCEPT ![h] = "write"]
    /\ UNCHANGED <<deviceVars, sent, acks, listVars, msg, todo, fresh, seen,
                   stored, historyVars, faults>>

\* The invocation is over.
Finish(h) ==
    /\ pc' = [pc EXCEPT ![h] = "free"]
    /\ msg' = [msg EXCEPT ![h] = NoDatagram]
    /\ todo' = [todo EXCEPT ![h] = {}]
    /\ fresh' = [fresh EXCEPT ![h] = {}]

\* What the sink stores, and what the ack says it has accepted: duplicates count.
Batch_SkipOne(h) == IF Cardinality(fresh[h]) <= 1 THEN {} ELSE fresh[h]
Batch(h) == fresh[h]

AckCount_FreshOnly(h) == Cardinality(fresh[h])
AckCount_LessDuplicates(h) == 2 * Cardinality(fresh[h]) - Cardinality(msg[h].recs)
AckCount(h) == Cardinality(msg[h].recs)

\* The sink has taken the write, with the records of S stored, and the ack for the
\* whole datagram goes out in the same turn.
Settle(h, S) ==
    /\ pc[h] = "write"
    /\ Finish(h)
    /\ stored' = [r \in Rec |-> IF r \in S THEN stored[r] + 1 ELSE stored[r]]
    /\ acks' = acks \cup {[dev |-> msg[h].dev, id |-> msg[h].id,
                           count |-> AckCount(h)]}
    /\ UNCHANGED <<deviceVars, sent, listVars, seen, abandoned>>

WriteAndAck(h) ==
    /\ Settle(h, Batch(h))
    /\ UNCHANGED <<swallowed, faults>>

\* Some XADDs of the pipeline failed; its exec() resolves all the same (main.ts),
\* and what failed is acknowledged with the rest.
WriteIsSwallowed(h) ==
    /\ BackendMayFail
    /\ faults < MaxFaults
    /\ faults' = faults + 1
    /\ \E lost \in SUBSET fresh[h] :
          /\ lost # {}
          /\ Settle(h, Batch(h) \ lost)
          /\ swallowed' = swallowed \cup lost

\* A Redis SET or the sink rejects: the catch block logs and sends no ack.  An
\* empty batch is not written, so it cannot be rejected.
Reject(h) ==
    /\ BackendMayFail
    /\ faults < MaxFaults
    /\ faults' = faults + 1
    /\ \/ pc[h] = "dedupe" /\ todo[h] # {}
       \/ pc[h] = "write" /\ fresh[h] # {}
    /\ Finish(h)
    /\ abandoned' = abandoned \cup fresh[h]
    /\ UNCHANGED <<deviceVars, sent, acks, listVars, seen, stored, swallowed>>

\* The process ends in the midst of its handlers, and another takes its place.
NodeExit ==
    /\ NodeMayExit
    /\ faults < MaxFaults
    /\ faults' = faults + 1
    /\ pc' = [h \in Handlers |-> "free"]
    /\ msg' = [h \in Handlers |-> NoDatagram]
    /\ todo' = [h \in Handlers |-> {}]
    /\ fresh' = [h \in Handlers |-> {}]
    /\ abandoned' = abandoned \cup UNION {fresh[h] : h \in Handlers}
    /\ seen' = IF SharedDeduper THEN seen ELSE {}
    /\ UNCHANGED <<deviceVars, sent, acks, listVars, stored, swallowed>>

Handle(h) ==
    Authorise(h) \/ CheckAndSet(h) \/ StartWrite(h) \/ WriteAndAck(h)

Next ==
    \/ \E d \in Devices :
          Capture(d) \/ Send(d) \/ ReceiveAck(d) \/ SwitchAllowed(d)
    \/ \E h \in Handlers :
          \/ Handle(h) \/ Reject(h) \/ WriteIsSwallowed(h)
          \/ \E m \in sent : Arrive(h, m)
    \/ NodeExit

Spec == Init /\ [][Next]_vars

\* What the device sends again while it waits: the datagram under its latest id.
Latest(d) == {m \in sent : m.dev = d /\ m.id = lastId[d] /\ current[d] # {}}

\* Promises run on; a device that waits retransmits until a copy gets through
\* to a free handler and an ack gets back.  Arrival needs strong fairness: the
\* handler slots of the model may all be busy for a while.
Fairness ==
    /\ \A h \in Handlers :
          /\ WF_vars(Authorise(h)) /\ WF_vars(CheckAndSet(h))
          /\ WF_vars(StartWrite(h)) /\ WF_vars(WriteAndAck(h))
    /\ \A d \in Devices :
          /\ WF_vars(Send(d)) /\ WF_vars(ReceiveAck(d))
          /\ SF_vars(\E h \in Handlers, m \in Latest(d) : Arrive(h, m))

FairSpec == Spec /\ Fairness

-----------------------------------------------------------------------------
(***************************************************************************)
(* Properties.                                                             *)
(***************************************************************************)
Acked == {r \in Rec : r[2] <= captured[r[1]]} \ flash

Durable(r) == stored[r] > 0

InHand(r) == \E h \in Handlers : r \in fresh[h]

\* A deleted record is stored or about to be, however many copies of its datagram
\* are handled side by side; what is neither was claimed by a handler that gave
\* up on it, because the backend rejected a call or the process ended, or failed
\* in a write that resolved all the same.
AckedIsAccounted ==
    \A r \in Acked :
        Durable(r) \/ InHand(r) \/ r \in abandoned \/ r \in swallowed

\* No record is stored twice, and no two handlers mean to store it.
StoredOnce ==
    /\ \A r \in Rec : stored[r] <= 1 /\ (Durable(r) => ~InHand(r))
    /\ \A g, h \in Handlers : g # h => fresh[g] \cap fresh[h] = {}

\* A device whose IMEI stays on the allow-list gets every record off its flash:
\* an all-duplicate retransmission is acked like a new datagram.
EventuallyFreed ==
    \A r \in Rec : r \in flash ~> (r \notin flash \/ r[1] \notin allowed)

=============================================================================
