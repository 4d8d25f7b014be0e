----------------------------- MODULE AvlSession -----------------------------
(***************************************************************************)
(* The TCP uplink of the ingestion service: what happens to an AVL record  *)
(* between a tracker's flash memory and the durable sinks.                 *)
(*                                                                         *)
(* One Session object (session.ts) serves one accepted TCP connection.  It *)
(* takes the framed packets out of its receive buffer one at a time, asks  *)
(* the deduper about each record of the packet (an await per record), hands*)
(* the new ones to the sink (WAL, stream bus, or both through              *)
(* CompositeSink), and acknowledges the packet once the sink's promise has *)
(* resolved.  Every await is a point where other sessions, the other       *)
(* ingest nodes, the network and the devices may run, so each is the end   *)
(* of an action here.                                                      *)
(*                                                                         *)
(* The login is modelled by TcpServer: a connection of this module starts  *)
(* when its IMEI has been accepted.                                        *)
(*                                                                         *)
(* A definition X_Why before a definition X is a mistake one could make in *)
(* X.  Nothing uses it: put in X's place, it breaks a property below.      *)
(***************************************************************************)
EXTENDS Integers, Sequences, FiniteSets

CONSTANTS
    Devices,         \* the trackers (IMEIs)
    Nodes,           \* the ingest processes
    Conns,           \* the identities TCP connections are drawn from
    Targets,         \* the durable sinks behind sink.write: WAL, stream bus
    Pipelined,       \* those whose write() resolves even if entries of it fail:
                     \* the bus, whose XADDs are one pipeline (main.ts)
    MaxRecord,       \* bound: records a device captures
    MaxPacket,       \* bound: records in one AVL packet
    Window,          \* bound: packets a device sends ahead of its acks
    MaxFaults,       \* bound: dropped links, sink errors and node exits
    SharedDeduper,   \* TRUE: RedisDeduper; FALSE: one InMemoryDeduper per node
    LinksMayDrop,    \* TRUE: connections may be lost, frames may be damaged
    BackendMayFail,  \* TRUE: a sink write or a Redis SET may be rejected
    NodesMayExit,    \* TRUE: an ingest process may be killed or redeployed
    TtlMayLapse,     \* TRUE: dedupe keys may reach the end of their TTL
    None             \* no device, no node

ASSUME BoundsAssumption ==
    /\ MaxRecord \in Nat
    /\ MaxPacket \in Nat \ {0}
    /\ Window \in Nat \ {0}
    /\ MaxFaults \in Nat

ASSUME SwitchAssumption ==
    {SharedDeduper, LinksMayDrop, BackendMayFail, NodesMayExit, TtlMayLapse}
        \subseteq BOOLEAN

ASSUME SinkAssumption == Pipelined \subseteq Targets

ASSUME NoneAssumption == None \notin Devices \cup Nodes

ASSUME FleetAssumption == IsFiniteSet(Devices)

\* A record is known by its device and its place in the capture order.  The
\* dedupe key is a hash of everything in the record, so distinct records have
\* distinct keys here (hash collisions are left out).
Rec == Devices \X (1..MaxRecord)

\* A packet carries records of one device, oldest first.
Packet == SUBSET Rec

\* The maps of seen keys: one shared by all nodes, or one in each node.
Shared == "redis"
Scopes == Nodes \cup {Shared}

Scope_OneEach(n) == n
Scope(n) == IF SharedDeduper THEN Shared ELSE n

\* The map in Redis is none of the maps in the nodes: it outlives them.
ASSUME ScopeAssumption == Shared \notin Nodes

VARIABLES
    captured,     \* device -> number of records captured so far
    flash,        \* records still in the flash memory of their device
    outstanding,  \* connection -> packets the device awaits an ack for
    link,         \* connection -> "up" or "down" (socket destroyed, or unused)
    dev,          \* connection -> the IMEI its session logged in with
    node,         \* connection -> the process that accepted it
    inbox,        \* connection -> packets on the wire or in this.buffer
    acks,         \* connection -> acks on their way to the device
    pc,           \* connection -> where the session's promise chain stands
    frame,        \* connection -> the packet handleAvl is working on
    todo,         \* connection -> its records not yet shown to the deduper
    fresh,        \* connection -> its records the deduper called new
    pending,      \* connection -> sinks whose write() has not settled
    orphans,      \* <<sink, record, node>>: writes Promise.all no longer waits for
    seen,         \* scope -> records whose key is in the dedupe map
    stored,       \* sink -> record -> copies durably held
    abandoned,    \* history: claimed records whose session gave up on them
    swallowed,    \* history: <<sink, record>>: failed, and nobody was told
    faults        \* faults so far

deviceVars  == <<captured, flash, outstanding>>
linkVars    == <<link, dev, node>>
wireVars    == <<inbox, acks>>
sessionVars == <<pc, frame, todo, fresh, pending>>
historyVars == <<abandoned, swallowed>>
vars == <<deviceVars, linkVars, wireVars, sessionVars, orphans, seen, stored,
          historyVars, faults>>

-----------------------------------------------------------------------------
TypeOK ==
    /\ captured \in [Devices -> 0..MaxRecord]
    /\ flash \in SUBSET Rec
    /\ outstanding \in [Conns -> Seq(Packet)]
    /\ link \in [Conns -> {"up", "down"}]
    /\ dev \in [Conns -> Devices \cup {None}]
    /\ node \in [Conns -> Nodes \cup {None}]
    /\ inbox \in [Conns -> Seq(Packet)]
    /\ acks \in [Conns -> Seq(Nat)]
    /\ pc \in [Conns -> {"idle", "dedupe", "write"}]
    /\ frame \in [Conns -> Packet]
    /\ todo \in [Conns -> Packet]
    /\ fresh \in [Conns -> Packet]
    /\ pending \in [Conns -> SUBSET Targets]
    /\ orphans \in SUBSET (Targets \X Rec \X (Nodes \cup {None}))
    /\ seen \in [Scopes -> SUBSET Rec]
    /\ stored \in [Targets -> [Rec -> Nat]]
    /\ abandoned \in SUBSET Rec
    /\ swallowed \in SUBSET (Pipelined \X Rec)
    /\ faults \in Nat

Init ==
    /\ captured = [d \in Devices |-> 0]
    /\ flash = {}
    /\ outstanding = [c \in Conns |-> <<>>]
    /\ link = [c \in Conns |-> "down"]
    /\ dev = [c \in Conns |-> None]
    /\ node = [c \in Conns |-> None]
    /\ inbox = [c \in Conns |-> <<>>]
    /\ acks = [c \in Conns |-> <<>>]
    /\ pc = [c \in Conns |-> "idle"]
    /\ frame = [c \in Conns |-> {}]
    /\ todo = [c \in Conns |-> {}]
    /\ fresh = [c \in Conns |-> {}]
    /\ pending = [c \in Conns |-> {}]
    /\ orphans = {}
    /\ seen = [s \in Scopes |-> {}]
    /\ stored = [t \in Targets |-> [r \in Rec |-> 0]]
    /\ abandoned = {}
    /\ swallowed = {}
    /\ faults = 0

-----------------------------------------------------------------------------
(***************************************************************************)
(* The device.  It is not in this repository: it is modelled from what     *)
(* session.ts and sinks.ts say of it.  It keeps a record in flash until an *)
(* ack of the packet that carried it, sends oldest records first, may send *)
(* up to Window packets before the first ack, may hold several connections *)
(* at once (Duplicate secondary-server mode), and sends what was not       *)
(* acknowledged again on its next connection.                              *)
(***************************************************************************)
Capture(d) ==
    /\ captured[d] < MaxRecord
    /\ captured' = [captured EXCEPT ![d] = @ + 1]
    /\ flash' = flash \cup {<<d, captured[d] + 1>>}
    /\ UNCHANGED <<outstanding, linkVars, wireVars, sessionVars, orphans, seen,
                   stored, historyVars, faults>>

\* A session whose socket is destroyed, whose chain has run dry and whose
\* buffer holds no packet that a later drain() could find.
Finished(c) == link[c] = "down" /\ pc[c] = "idle" /\ inbox[c] = <<>>

Connect(c, d, n) ==
    /\ Finished(c)
    /\ link' = [link EXCEPT ![c] = "up"]
    /\ dev' = [dev EXCEPT ![c] = d]
    /\ node' = [node EXCEPT ![c] = n]
    /\ UNCHANGED <<deviceVars, wireVars, sessionVars, orphans, seen, stored,
                   historyVars, faults>>

InTransit(c) == UNION {outstanding[c][i] : i \in DOMAIN outstanding[c]}

Unsent(c) == {r \in flash : r[1] = dev[c]} \ InTransit(c)

OldestFirst(p, available) ==
    \A r \in p, q \in available : q[2] < r[2] => q \in p

Send(c) ==
    /\ link[c] = "up"
    /\ Len(outstanding[c]) < Window
    /\ \E p \in SUBSET Unsent(c) :
          /\ p # {}
          /\ Cardinality(p) <= MaxPacket
          /\ OldestFirst(p, Unsent(c))
          /\ outstanding' = [outstanding EXCEPT ![c] = Append(@, p)]
          /\ inbox' = [inbox EXCEPT ![c] = Append(@, p)]
    /\ UNCHANGED <<captured, flash, linkVars, acks, sessionVars, orphans, seen,
                   stored, historyVars, faults>>

\* The device frees the packet it has been waiting on longest when the count
\* in the ack is the count it sent.
ReceiveAck(c) ==
    /\ acks[c] # <<>>
    /\ outstanding[c] # <<>>
    /\ acks' = [acks EXCEPT ![c] = Tail(@)]
    /\ outstanding' = [outstanding EXCEPT ![c] = Tail(@)]
    /\ flash' = IF Head(acks[c]) = Cardinality(Head(outstanding[c]))
                THEN flash \ Head(outstanding[c]) ELSE flash
    /\ UNCHANGED <<captured, linkVars, inbox, sessionVars, orphans, seen,
                   stored, historyVars, faults>>

-----------------------------------------------------------------------------
(***************************************************************************)
(* The session.                                                            *)
(***************************************************************************)

\* handleAvl takes the next packet once the previous one is done with: the
\* promise chain and the await in drain() let no two packets overlap.
StartPacket(c) ==
    /\ pc[c] = "idle"
    /\ inbox[c] # <<>>
    /\ pc' = [pc EXCEPT ![c] = "dedupe"]
    /\ inbox' = [inbox EXCEPT ![c] = Tail(@)]
    /\ frame' = [frame EXCEPT ![c] = Head(inbox[c])]
    /\ todo' = [todo EXCEPT ![c] = Head(inbox[c])]
    /\ fresh' = [fresh EXCEPT ![c] = {}]
    /\ UNCHANGED <<deviceVars, linkVars, acks, pending, orphans, seen, stored,
                   historyVars, faults>>

\* One turn of the loop over pkt.records: checkAndSet marks the key as seen
\* before anything has been written.
CheckAndSet(c) ==
    /\ pc[c] = "dedupe"
    /\ \E r \in todo[c] :
          /\ \A q \in todo[c] : r[2] <= q[2]
          /\ todo' = [todo EXCEPT ![c] = @ \ {r}]
          /\ fresh' = [fresh EXCEPT ![c] =
                          IF r \in seen[Scope(node[c])] THEN @ ELSE @ \cup {r}]
          /\ seen' = [seen EXCEPT ![Scope(node[c])] = @ \cup {r}]
    /\ UNCHANGED <<deviceVars, linkVars, wireVars, pc, frame, pending, orphans,
                   stored, historyVars, faults>>

\* sink.write(fresh): every target is asked at once, none for an empty batch.
WriteTargets_SkipOne(c) == IF Cardinality(fresh[c]) <= 1 THEN {} ELSE Targets
WriteTargets(c) == IF fresh[c] = {} THEN {} ELSE Targets

StartWrite(c) ==
    /\ pc[c] = "dedupe"
    /\ todo[c] = {}
    /\ pc' = [pc EXCEPT ![c] = "write"]
    /\ pending' = [pending EXCEPT ![c] = WriteTargets(c)]
    /\ UNCHANGED <<deviceVars, linkVars, wireVars, frame, todo, fresh, orphans,
                   seen, stored, historyVars, faults>>

\* One more copy of each record of S in a sink.
Append1(copies, S) == [r \in Rec |-> IF r \in S THEN copies[r] + 1 ELSE copies[r]]

WriteLands(c, t) ==
    /\ t \in pending[c]
    /\ pending' = [pending EXCEPT ![c] = @ \ {t}]
    /\ stored' = [stored EXCEPT ![t] = Append1(@, fresh[c])]
    /\ UNCHANGED <<deviceVars, linkVars, wireVars, pc, frame, todo, fresh,
                   orphans, seen, historyVars, faults>>

\* What the ack says: all records of the packet, the duplicates included.
AckCount_FreshOnly(c) == Cardinality(fresh[c])
AckCount_LessDuplicates(c) == 2 * Cardinality(fresh[c]) - Cardinality(frame[c])
AckCount(c) == Cardinality(frame[c])

\* The write has resolved: transport.send(buildTcpAck(recordCount)), which a
\* destroyed socket ignores.
Acknowledge(c) ==
    /\ pc[c] = "write"
    /\ pending[c] = {}
    /\ pc' = [pc EXCEPT ![c] = "idle"]
    /\ acks' = IF link[c] = "up"
               THEN [acks EXCEPT ![c] = Append(@, AckCount(c))]
               ELSE acks
    /\ UNCHANGED <<deviceVars, linkVars, inbox, frame, todo, fresh, pending,
                   orphans, seen, stored, historyVars, faults>>

-----------------------------------------------------------------------------
(***************************************************************************)
(* Faults.                                                                 *)
(***************************************************************************)
Fault == faults < MaxFaults /\ faults' = faults + 1

\* What is left to a chain whose socket is gone: of the packets on their way,
\* those that had reached this.buffer.  The rest was on the wire.
Received(box) == {SubSeq(box, 1, k) : k \in 0..Len(box)}

\* Both ends forget what was under way between them.
Disconnect(c, box) ==
    /\ link' = [link EXCEPT ![c] = "down"]
    /\ acks' = [acks EXCEPT ![c] = <<>>]
    /\ outstanding' = [outstanding EXCEPT ![c] = <<>>]
    /\ \E rest \in Received(box) : inbox' = [inbox EXCEPT ![c] = rest]
    /\ UNCHANGED <<captured, flash, dev, node>>

\* The connection is lost; the packet in hand and those in the buffer are
\* still worked off.
Drop(c) ==
    /\ LinksMayDrop
    /\ link[c] = "up"
    /\ Fault
    /\ Disconnect(c, inbox[c])
    /\ UNCHANGED <<sessionVars, orphans, seen, stored, historyVars>>

\* decodeTcpPacket throws on a frame damaged in transit, before any record of
\* it has been shown to the deduper: session.fail() with nothing in hand.
DecodeFails(c) ==
    /\ LinksMayDrop
    /\ pc[c] = "idle"
    /\ inbox[c] # <<>>
    /\ Fault
    /\ Disconnect(c, Tail(inbox[c]))
    /\ UNCHANGED <<sessionVars, orphans, seen, stored, historyVars>>

\* session.fail(): no ack, the socket is destroyed, the frame is given up.  A
\* drain() queued by a later chunk still works through what the buffer holds;
\* packets that came in one chunk with the frame have no drain() left.
Fail(c) ==
    /\ Fault
    /\ Disconnect(c, inbox[c])
    /\ pc' = [pc EXCEPT ![c] = "idle"]
    /\ pending' = [pending EXCEPT ![c] = {}]
    /\ abandoned' = abandoned \cup fresh[c]
    /\ UNCHANGED <<frame, todo, fresh, seen, stored, swallowed>>

\* A Redis SET is rejected in the middle of the dedupe loop.
DedupeFails(c) ==
    /\ BackendMayFail
    /\ SharedDeduper
    /\ pc[c] = "dedupe"
    /\ todo[c] # {}
    /\ Fail(c)
    /\ UNCHANGED orphans

\* (As Promise.allSettled would have it: the failure goes unnoticed.)
WriteFails_Settled(c, t) ==
    /\ BackendMayFail
    /\ t \in pending[c] \ Pipelined
    /\ Fault
    /\ pending' = [pending EXCEPT ![c] = @ \ {t}]
    /\ UNCHANGED <<deviceVars, linkVars, wireVars, pc, frame, todo, fresh,
                   orphans, seen, stored, historyVars>>

\* One sink rejects, Promise.all rejects at once, the other sink's write goes
\* on without anyone waiting for it.
WriteFails(c, t) ==
    /\ BackendMayFail
    /\ t \in pending[c] \ Pipelined
    /\ Fail(c)
    /\ orphans' = orphans \cup ((pending[c] \ {t}) \X fresh[c] \X {node[c]})

\* pipe.exec() resolves with a pair [error, answer] for each XADD, and append() in
\* main.ts looks at none: what failed counts as written.
WriteIsSwallowed(c, t) ==
    /\ BackendMayFail
    /\ t \in pending[c] \cap Pipelined
    /\ Fault
    /\ pending' = [pending EXCEPT ![c] = @ \ {t}]
    /\ \E lost \in SUBSET fresh[c] :
          /\ lost # {}
          /\ stored' = [stored EXCEPT ![t] = Append1(@, fresh[c] \ lost)]
          /\ swallowed' = swallowed \cup ({t} \X lost)
    /\ UNCHANGED <<deviceVars, linkVars, wireVars, pc, frame, todo, fresh,
                   orphans, seen, abandoned>>

OrphanLands(t, r, n) ==
    /\ <<t, r, n>> \in orphans
    /\ orphans' = orphans \ {<<t, r, n>>}
    /\ stored' = [stored EXCEPT ![t] = Append1(@, {r})]
    /\ UNCHANGED <<deviceVars, linkVars, wireVars, sessionVars, seen, historyVars,
                   faults>>

\* The process ends, by a crash or by App.stop(), which destroys the sockets
\* and exits without waiting for the sessions' chains; its successor starts
\* with no sessions and, if the deduper is in memory, with an empty map.
NodeExit(n) ==
    /\ NodesMayExit
    /\ Fault
    /\ LET here(c) == node[c] = n
           busy == {c \in Conns : here(c) /\ pc[c] # "idle"}
       IN /\ link' = [c \in Conns |-> IF here(c) THEN "down" ELSE link[c]]
          /\ inbox' = [c \in Conns |-> IF here(c) THEN <<>> ELSE inbox[c]]
          /\ acks' = [c \in Conns |-> IF here(c) THEN <<>> ELSE acks[c]]
          /\ outstanding' =
                [c \in Conns |-> IF here(c) THEN <<>> ELSE outstanding[c]]
          /\ pc' = [c \in Conns |-> IF here(c) THEN "idle" ELSE pc[c]]
          /\ pending' = [c \in Conns |-> IF here(c) THEN {} ELSE pending[c]]
          /\ abandoned' = abandoned \cup UNION {fresh[c] : c \in busy}
    /\ orphans' = {o \in orphans : o[3] # n}
    /\ seen' = [seen EXCEPT ![n] = {}]
    /\ UNCHANGED <<captured, flash, dev, node, frame, todo, fresh, stored, swallowed>>

\* A dedupe key reaches the end of its TTL (or is evicted at maxEntries).
KeyLapses(s, r) ==
    /\ TtlMayLapse
    /\ r \in seen[s]
    /\ seen' = [seen EXCEPT ![s] = @ \ {r}]
    /\ UNCHANGED <<deviceVars, linkVars, wireVars, sessionVars, orphans, stored,
                   historyVars, faults>>

-----------------------------------------------------------------------------
Session(c) ==
    \/ StartPacket(c) \/ CheckAndSet(c) \/ StartWrite(c) \/ Acknowledge(c)
    \/ \E t \in Targets : WriteLands(c, t)

Environment(c) ==
    \/ Send(c) \/ ReceiveAck(c)
    \/ \E d \in Devices, n \in Nodes : Connect(c, d, n)

Failure ==
    \/ \E c \in Conns :
          \/ Drop(c) \/ DecodeFails(c) \/ DedupeFails(c)
          \/ \E t \in Targets : WriteFails(c, t) \/ WriteIsSwallowed(c, t)
    \/ \E n \in Nodes : NodeExit(n)
    \/ \E s \in Scopes, r \in Rec : KeyLapses(s, r)

Next ==
    \/ \E d \in Devices : Capture(d)
    \/ \E c \in Conns : Session(c) \/ Environment(c)
    \/ \E t \in Targets, r \in Rec, n \in Nodes : OrphanLands(t, r, n)
    \/ Failure

Spec == Init /\ [][Next]_vars

\* Promise chains and resolved promises always run on, the network delivers,
\* and a device with records and no connection dials in again.  Faults and new
\* records are never obliged to happen.
Fairness ==
    \A c \in Conns :
        /\ WF_vars(StartPacket(c)) /\ WF_vars(CheckAndSet(c))
        /\ WF_vars(StartWrite(c)) /\ WF_vars(Acknowledge(c))
        /\ \A t \in Targets : WF_vars(WriteLands(c, t))
        /\ WF_vars(Send(c)) /\ WF_vars(ReceiveAck(c))
        /\ WF_vars(\E d \in Devices, n \in Nodes : Connect(c, d, n))

FairSpec == Spec /\ Fairness

-----------------------------------------------------------------------------
(***************************************************************************)
(* Properties.                                                             *)
(***************************************************************************)
Acked == {r \in Rec : r[2] <= captured[r[1]]} \ flash

Durable(t, r) == stored[t][r] > 0

\* A live session still means to write r to t: it was called new there and the
\* write to t has not settled.
Holds(c, t, r) == r \in fresh[c] /\ (pc[c] = "dedupe" \/ t \in pending[c])

InHand(t, r) == \E c \in Conns : Holds(c, t, r)

\* session.ts and sinks.ts: nothing is acked that is not written.  A record the
\* device has deleted is in every sink, or at least on its way there in the hands
\* of a session.  So it is while no sink or Redis rejects and no process ends
\* (proved); a sink that rejects a write once breaks it.
AckedIsHeld == \A r \in Acked, t \in Targets : Durable(t, r) \/ InHand(t, r)

Accounted(r) ==
    \A t \in Targets :
        Durable(t, r) \/ InHand(t, r) \/ r \in abandoned \/ <<t, r>> \in swallowed

\* Under every fault: a deleted record that a sink neither has nor is about to
\* get is one whose key a session had claimed and then gave up on, because a sink
\* or Redis rejected or its process ended; or one that the bus, and no other sink,
\* failed to take without anyone being told.  Dropped links, reconnects, early
\* acks and lapsed keys alone lose nothing.
AckedIsAccounted == \A r \in Acked : Accounted(r)

\* The i-th ack on a live connection answers the i-th packet the device waits
\* for, also when reads coalesce several packets.
AcksMatchPackets ==
    \A c \in Conns : link[c] = "up" =>
        /\ Len(acks[c]) <= Len(outstanding[c])
        /\ \A i \in DOMAIN acks[c] :
              acks[c][i] = Cardinality(outstanding[c][i])

(***************************************************************************)
(* Why AckedIsAccounted and AcksMatchPackets hold (proved in               *)
(* AvlSessionProofs): a key in a dedupe map is accounted for from the      *)
(* moment it is set, so a record that has been shown to the deduper is,    *)
(* whichever answer it got; and the packets a device waits for on a live   *)
(* connection are, in order, those acknowledged, the one in hand, and      *)
(* those in the inbox.                                                     *)
(***************************************************************************)
SessionShape ==
    \A c \in Conns :
        /\ pc[c] # "write" => pending[c] = {}
        /\ pc[c] = "write" => todo[c] = {}
        /\ link[c] = "down" => acks[c] = <<>> /\ outstanding[c] = <<>>
        /\ link[c] = "up" \/ pc[c] # "idle" \/ inbox[c] # <<>>
              => node[c] \in Nodes

SeenIsAccounted == \A s \in Scopes : \A r \in seen[s] : Accounted(r)

ShownIsAccounted ==
    \A c \in Conns : pc[c] # "idle" =>
        \A r \in frame[c] \ todo[c] : Accounted(r)

InWork(c) == IF pc[c] = "idle" THEN 0 ELSE 1

\* out is n packets, then w = 0 or 1 packet p, then those of rest.
LinedUp(out, n, w, p, rest) ==
    /\ Len(out) = n + w + Len(rest)
    /\ w = 1 => out[n + 1] = p
    /\ \A i \in 1..Len(rest) : rest[i] = out[n + w + i]

Aligned(c) ==
    /\ LinedUp(outstanding[c], Len(acks[c]), InWork(c), frame[c], inbox[c])
    /\ \A i \in 1..Len(acks[c]) :
          /\ acks[c][i] = Cardinality(outstanding[c][i])
          /\ \A r \in outstanding[c][i] : Accounted(r)

AccountingInv ==
    /\ TypeOK
    /\ SessionShape
    /\ SeenIsAccounted
    /\ ShownIsAccounted
    /\ \A c \in Conns : link[c] = "up" => Aligned(c)
    /\ AckedIsAccounted

\* Duplicate mode and resends collapse: with one dedupe map and keys that do
\* not lapse, no record reaches a sink twice, and no two sessions hold it.
StoredOnce ==
    /\ \A t \in Targets, r \in Rec : stored[t][r] <= 1
    /\ \A t \in Targets, r \in Rec : Durable(t, r) => ~InHand(t, r)
    /\ \A b, c \in Conns :
          b # c /\ pc[b] # "idle" /\ pc[c] # "idle" => fresh[b] \cap fresh[c] = {}

\* Every captured record is in the end acknowledged, whatever failed on the
\* way: a device's flash does not fill up behind a packet that is never acked.
EventuallyFreed == \A r \in Rec : r \in flash ~> r \notin flash

\* Where no sink fails, every captured record is in the end in every sink,
\* however often its connection is lost or its process ends (the map of seen
\* keys ending with it).
EventuallyStored ==
    \A r \in Rec, t \in Targets : r \in flash ~> Durable(t, r)

\* What the pipeline promises the device when no two sessions of a device
\* overlap and no sink fails: see DurableHandoff.
Handoff == INSTANCE DurableHandoff WITH
    known <- {r \in Rec : r[2] <= captured[r[1]]},
    held  <- flash,
    kept  <- [t \in Targets |-> {r \in Rec : Durable(t, r)}]

HandsOver == Handoff!Spec

=============================================================================
