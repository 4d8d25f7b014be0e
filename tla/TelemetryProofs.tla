-------------------------- MODULE TelemetryProofs --------------------------
(***************************************************************************)
(* What the two ends of the way of a position promise for every number of  *)
(* devices, replicas, handlers and records: the consumer group that fills  *)
(* the position table and the hot state (StreamConsumer), and the UDP      *)
(* server (UdpIngest).                                                     *)
(***************************************************************************)
EXTENDS MCTelemetry, FiniteSetTheorems, WellFoundedInduction, TLAPS

-----------------------------------------------------------------------------
(***************************************************************************)
(* The consumer group.                                                     *)
(***************************************************************************)

\* The cursor of the group stands inside the stream, behind the place where the
\* group was made, and no replica works before it was made.
CursorShape ==
    /\ lastId <= Len(stream)
    /\ start # None => start <= lastId
    /\ start = None => lastId = 0 /\ pel = {}
    /\ \A c \in Replicas : step[c] # "down" => start # None

\* What a replica has in hand was delivered, is pending, and is in nobody else's
\* hands; the lists it works off are filled in their phase only, and what of them
\* the loop has not passed over is a position.
BatchShape ==
    /\ pel \subseteq 1..lastId
    /\ \A c \in Replicas :
          /\ batch[c] \subseteq pel
          /\ left[c] \subseteq batch[c]
          /\ step[c] \in {"down", "idle"} => batch[c] = {}
          /\ step[c] # "rules" => left[c] = {}
          /\ step[c] # "hot" => latest[c] = {}
          /\ \A id \in batch[c] : id \in left[c] \cup skipped \/ stream[id].ts # None
    /\ \A b, c \in Replicas : b # c => batch[b] \cap batch[c] = {}

\* The rules see an entry, or the loop passes it over, only between its delivery
\* and its batch's next phase.
EvaluationOrder ==
    /\ \A id \in Id : id > lastId => evaluated[id] = 0
    /\ \A c \in Replicas : \A id \in left[c] : evaluated[id] = 0 /\ id \notin skipped
    /\ skipped \subseteq 1..lastId

\* What of a batch was not passed over is in the table before any of it is shown or
\* acked; what a reader or a replica is about to show is in the table.
InsertedFirst ==
    /\ \A c \in Replicas :
          step[c] \in {"hot", "ack"} => \A id \in batch[c] \ skipped : Stored(id)
    /\ \A c \in Replicas : latest[c] \subseteq positions
    /\ \A d \in Devices : warm[d] # None => [dev |-> d, ts |-> warm[d]] \in positions

StreamInv ==
    /\ TypeOK /\ CursorShape /\ BatchShape
    /\ EvaluationOrder /\ EvaluatedOnce
    /\ InsertedFirst /\ AckedIsStored /\ HotIsStored

\* XREADGROUP hands out the entries right after the cursor, Count at most, and
\* leaves the cursor at the last of them.
LEMMA ReadTakesNext ==
    ASSUME TypeOK, CursorShape, Unread # {}
    PROVE  LET ids == {id \in Unread : Cardinality({j \in Unread : j < id}) < Count}
               last == IF lastId + Count <= Len(stream) THEN lastId + Count ELSE Len(stream)
           IN  /\ ids = (lastId + 1)..last
               /\ last > lastId /\ last <= Len(stream) /\ last \in Nat
               /\ (IF \E id \in ids : id > lastId
                   THEN CHOOSE id \in ids : \A j \in ids : j <= id ELSE lastId) = last
<1> DEFINE last == IF lastId + Count <= Len(stream) THEN lastId + Count ELSE Len(stream)
           ids == {id \in Unread : Cardinality({j \in Unread : j < id}) < Count}
<1>1. lastId \in Nat /\ Len(stream) \in Nat /\ Count \in Nat \ {0}
    BY StreamAssumption DEF TypeOK
<1>2. Unread = (lastId + 1)..Len(stream)
    BY <1>1 DEF Unread, TypeOK
<1>3. last > lastId /\ last <= Len(stream) /\ last \in Nat
    BY <1>1, <1>2
<1>4. ASSUME NEW id \in Unread PROVE Cardinality({j \in Unread : j < id}) = id - 1 - lastId
  <2>1. {j \in Unread : j < id} = (lastId + 1)..(id - 1)
    BY <1>1, <1>2
  <2>2. id - 1 \in Int /\ lastId + 1 \in Int /\ id - 1 >= lastId
    BY <1>1, <1>2
  <2>3. Cardinality((lastId + 1)..(id - 1)) =
          IF lastId + 1 > id - 1 THEN 0 ELSE (id - 1) - (lastId + 1) + 1
    BY <2>2, FS_Interval
  <2>4. Cardinality((lastId + 1)..(id - 1)) = id - 1 - lastId
    BY <1>1, <2>2, <2>3
  <2> QED
    BY <2>1, <2>4
<1>5. ids = (lastId + 1)..last
    BY <1>1, <1>2, <1>4
<1> HIDE DEF ids, last
<1>6. last \in ids /\ \A j \in ids : j <= last
    BY <1>1, <1>3, <1>5
<1>7. ASSUME NEW id \in ids, \A j \in ids : j <= id PROVE id = last
    BY <1>1, <1>3, <1>5, <1>6, <1>7
<1>8. (CHOOSE id \in ids : \A j \in ids : j <= id) = last
    BY <1>6, <1>7
<1> QED
    BY <1>3, <1>5, <1>6, <1>8 DEF ids, last

\* A replica that starts makes the group at the end of the stream, or joins it.
LEMMA BootKeeps == ASSUME StreamInv, NEW c \in Replicas, Boot(c) PROVE StreamInv'
<1> USE StreamAssumption DEF Boot, GroupAt, entryVars, StreamInv, TypeOK
<1>1. TypeOK' /\ CursorShape'
    BY SMTT(30) DEF CursorShape
<1>2. BatchShape'
    BY DEF BatchShape, CursorShape
<1>3. EvaluationOrder' /\ EvaluatedOnce'
    BY DEF EvaluationOrder, EvaluatedOnce, CursorShape, Id
<1>4. InsertedFirst' /\ HotIsStored'
    BY DEF InsertedFirst, HotIsStored, Stored
<1>5. AckedIsStored'
    BY DEF AckedIsStored, Delivered, Stored, CursorShape, Id
<1> QED
    BY <1>1, <1>2, <1>3, <1>4, <1>5

\* What is read next has been in nobody's hands and was never evaluated.
LEMMA ReadKeeps == ASSUME StreamInv, NEW c \in Replicas, Read(c) PROVE StreamInv'
<1>1. PICK last \in Nat :
        /\ lastId < last /\ last <= Len(stream)
        /\ batch' = [batch EXCEPT ![c] = (lastId + 1)..last]
        /\ left' = [left EXCEPT ![c] = (lastId + 1)..last]
        /\ pel' = pel \cup ((lastId + 1)..last)
        /\ lastId' = last
    BY ReadTakesNext DEF Read, Claimed, StreamInv
<1>8. /\ step[c] = "idle" /\ step' = [step EXCEPT ![c] = "rules"]
      /\ UNCHANGED <<stream, start, latest, known, evaluated, skipped, positions, hot,
                     warm, upsets>>
    BY DEF Read, entryVars
<1> USE StreamAssumption, <1>1, <1>8 DEF StreamInv, TypeOK
<1>2. TypeOK'
    BY SMTT(30) DEF CursorShape, Id
<1>7. CursorShape'
    BY DEF CursorShape, Id
<1>3. BatchShape'
    BY SMTT(30) DEF BatchShape
<1>4. EvaluationOrder' /\ EvaluatedOnce'
    BY SMTT(30) DEF EvaluationOrder, EvaluatedOnce, Id
<1>5. InsertedFirst' /\ HotIsStored'
    BY DEF InsertedFirst, HotIsStored, Stored
<1>6. AckedIsStored'
    BY DEF AckedIsStored, Delivered, Stored, Id
<1> QED
    BY <1>2, <1>3, <1>4, <1>5, <1>6, <1>7

\* The rules run once on an entry, or never: it leaves the list with the same step.
LEMMA EvaluateKeeps == ASSUME StreamInv, NEW c \in Replicas, Evaluate(c) PROVE StreamInv'
<1>1. PICK id \in left[c] :
        /\ left' = [left EXCEPT ![c] = @ \ {id}]
        /\ step' = [step EXCEPT ![c] = IF left[c] = {id} THEN "insert" ELSE @]
        /\ \/ /\ stream[id].ts # None
              /\ evaluated' = [evaluated EXCEPT ![id] = @ + 1]
              /\ skipped' = skipped
           \/ skipped' = skipped \cup {id} /\ evaluated' = evaluated
    BY DEF Evaluate, Resolves
<1>8. /\ step[c] = "rules"
      /\ UNCHANGED <<busVars, batch, latest, known, positions, hot, warm, upsets>>
    BY DEF Evaluate
<1> USE StreamAssumption, <1>1, <1>8 DEF StreamInv, TypeOK, busVars
<1>9. id \in batch[c] /\ id \in pel /\ id \in Id /\ id \in 1..lastId
    BY DEF BatchShape
<1>10. evaluated' \in [Id -> Nat] /\ left' \in [Replicas -> SUBSET Id] /\ skipped' \subseteq Id
  <2>1. left' \in [Replicas -> SUBSET Id] /\ skipped' \subseteq Id
    BY <1>9
  <2>2. ASSUME evaluated' = [evaluated EXCEPT ![id] = evaluated[id] + 1]
        PROVE  evaluated' \in [Id -> Nat]
    BY <1>9, <2>2
  <2>3. ASSUME evaluated' = evaluated PROVE evaluated' \in [Id -> Nat]
    BY <2>3
  <2> QED
    BY <2>1, <2>2, <2>3
<1>11. \A k \in Id : k # id => evaluated'[k] = evaluated[k] /\ (k \in skipped' <=> k \in skipped)
    BY <1>9
<1>12. /\ evaluated[id] = 0 /\ id \notin skipped
       /\ \/ stream[id].ts # None /\ evaluated'[id] = 1 /\ id \notin skipped'
          \/ id \in skipped' /\ evaluated'[id] = 0
    BY <1>9 DEF EvaluationOrder
<1>13. \A b \in Replicas : left'[b] = (IF b = c THEN left[c] \ {id} ELSE left[b])
    OBVIOUS
<1>14. ASSUME NEW b \in Replicas PROVE id \notin left'[b]
    BY <1>9, <1>13 DEF BatchShape
<1>2. TypeOK'
    BY <1>10
<1>7. CursorShape'
    BY DEF CursorShape, Id
<1>3. BatchShape'
    BY <1>9, <1>12, <1>13 DEF BatchShape
<1>4. EvaluationOrder'
  <2>1. \A k \in Id : k > lastId' => evaluated'[k] = 0
    BY <1>9, <1>11 DEF EvaluationOrder
  <2>2. ASSUME NEW b \in Replicas, NEW k \in left'[b] PROVE evaluated'[k] = 0 /\ k \notin skipped'
    BY <1>11, <1>13, <1>14, <2>2 DEF EvaluationOrder
  <2>3. skipped' \subseteq 1..lastId'
    BY <1>9 DEF EvaluationOrder
  <2> QED
    BY <2>1, <2>2, <2>3 DEF EvaluationOrder
<1>15. EvaluatedOnce'
    BY <1>11, <1>12 DEF EvaluatedOnce
<1>16. \A k \in Id : Stored(k)' <=> Stored(k)
    BY DEF Stored
<1>17. /\ batch' = batch /\ latest' = latest /\ positions' = positions /\ hot' = hot
       /\ warm' = warm /\ lastId' = lastId /\ pel' = pel /\ start' = start
       /\ \A b \in Replicas : step'[b] \in {"hot", "ack"} => step[b] \in {"hot", "ack"}
    OBVIOUS
<1>18. skipped \subseteq skipped'
    OBVIOUS
<1>5. InsertedFirst' /\ HotIsStored'
    BY <1>16, <1>17, <1>18, Zenon DEF InsertedFirst, HotIsStored, Stored
<1>6. AckedIsStored'
  <2>1. \A k \in Delivered' \ pel' : Stored(k)' \/ k \in skipped'
    BY <1>16, <1>17, <1>18 DEF AckedIsStored, Delivered
  <2>2. \A k \in skipped' : evaluated'[k] = 0
    BY <1>10, <1>11, <1>12 DEF AckedIsStored
  <2> QED
    BY <2>1, <2>2 DEF AckedIsStored
<1> QED
    BY <1>2, <1>3, <1>4, <1>5, <1>6, <1>7, <1>15

\* insertMany comes before the positions are shown: they are in the table then.
LEMMA InsertKeeps == ASSUME StreamInv, NEW c \in Replicas, Insert(c) PROVE StreamInv'
<1> USE StreamAssumption DEF Insert, Inserted, StreamInv, TypeOK, busVars, entryVars
<1>1. \A id \in batch[c] : id \in DOMAIN stream /\ stream[id] \in TelemetryMessage
    BY DEF BatchShape, CursorShape, Id
<1>9. \A id \in batch[c] \ skipped : stream[id].ts # None
    BY DEF BatchShape
<1>2. Batch(c) \subseteq Position
    BY <1>1, <1>9 DEF Batch, TelemetryMessage, Position
<1>3. LatestPerDevice(c) \subseteq Batch(c)
    BY DEF LatestPerDevice
<1>4. TypeOK'
    BY <1>2, <1>3
<1>10. Batch(c) = {} => LatestPerDevice(c) = {}
    BY <1>3
<1>11. CursorShape'
    BY DEF CursorShape
<1>5. BatchShape'
    BY <1>10 DEF BatchShape
<1>6. EvaluationOrder' /\ EvaluatedOnce'
    BY DEF EvaluationOrder, EvaluatedOnce
<1>7. InsertedFirst'
    BY <1>3 DEF InsertedFirst, Stored, Batch
<1>8. AckedIsStored' /\ HotIsStored'
    BY DEF AckedIsStored, HotIsStored, Delivered, Stored
<1> QED
    BY <1>4, <1>5, <1>6, <1>7, <1>8, <1>11

\* What a replica shows, it has put in the table before.
LEMMA SetLastKeeps == ASSUME StreamInv, NEW c \in Replicas, SetLast(c) PROVE StreamInv'
<1>1. PICK p \in latest[c] :
        /\ hot' = [hot EXCEPT ![p.dev] = p.ts]
        /\ latest' = [latest EXCEPT ![c] = @ \ {p}]
        /\ step' = [step EXCEPT ![c] = IF latest[c] = {p} THEN "ack" ELSE @]
    BY DEF SetLast
<1>2. /\ step[c] = "hot"
      /\ UNCHANGED <<busVars, batch, left, known, evaluated, skipped, positions, warm,
                     upsets>>
    BY DEF SetLast, entryVars
<1> USE StreamAssumption, <1>1, <1>2 DEF StreamInv, TypeOK, busVars
<1>3. p \in Position /\ p \in positions /\ p = [dev |-> p.dev, ts |-> p.ts]
    BY DEF InsertedFirst, Position
<1>4. p.dev \in Devices /\ p.ts \in 1..MaxTs
    BY <1>3 DEF Position
<1>5. TypeOK'
    BY <1>4
<1>6. CursorShape' /\ BatchShape'
    BY DEF CursorShape, BatchShape
<1>7. EvaluationOrder' /\ EvaluatedOnce' /\ InsertedFirst' /\ AckedIsStored'
    BY DEF EvaluationOrder, EvaluatedOnce, InsertedFirst, AckedIsStored, Delivered, Stored
<1>8. HotIsStored'
    BY <1>3, <1>4 DEF HotIsStored
<1> QED
    BY <1>5, <1>6, <1>7, <1>8

\* What is acked is in the table, or was passed over.
LEMMA AckKeeps == ASSUME StreamInv, NEW c \in Replicas, Ack(c) PROVE StreamInv'
<1> USE StreamAssumption DEF Ack, StreamInv, TypeOK, entryVars
<1>1. TypeOK' /\ CursorShape'
    BY DEF CursorShape
<1>2. BatchShape'
    BY DEF BatchShape
<1>3. EvaluationOrder' /\ EvaluatedOnce' /\ InsertedFirst' /\ HotIsStored'
    BY DEF EvaluationOrder, EvaluatedOnce, InsertedFirst, HotIsStored, Stored
<1>4. AckedIsStored'
    BY DEF AckedIsStored, Delivered, Stored, InsertedFirst
<1> QED
    BY <1>1, <1>2, <1>3, <1>4

\* A replica that ends leaves its entries pending.
LEMMA FailKeeps == ASSUME StreamInv, NEW c \in Replicas, Fail(c) PROVE StreamInv'
<1> USE StreamAssumption DEF Fail, Upset, StreamInv, TypeOK, busVars, entryVars
<1>1. TypeOK' /\ CursorShape'
    BY DEF CursorShape
<1>2. BatchShape'
    BY DEF BatchShape
<1>3. EvaluationOrder' /\ EvaluatedOnce' /\ InsertedFirst' /\ HotIsStored'
    BY DEF EvaluationOrder, EvaluatedOnce, InsertedFirst, HotIsStored, Stored
<1>4. AckedIsStored'
    BY DEF AckedIsStored, Delivered, Stored
<1> QED
    BY <1>1, <1>2, <1>3, <1>4

\* Whom a replica takes for a device is no part of the invariant.
LEMMA LearnKeeps ==
    ASSUME StreamInv, NEW c \in Replicas, NEW d \in Devices, Learn(c, d)
    PROVE  StreamInv'
<1> USE StreamAssumption DEF Learn, Upset, StreamInv, busVars, workVars, entryVars
<1>1. TypeOK'
    BY DEF TypeOK
<1>2. /\ CursorShape' /\ BatchShape' /\ EvaluationOrder' /\ EvaluatedOnce'
      /\ InsertedFirst' /\ AckedIsStored' /\ HotIsStored'
    BY DEF CursorShape, BatchShape, EvaluationOrder, EvaluatedOnce, InsertedFirst,
       AckedIsStored, HotIsStored, Delivered, Stored
<1> QED
    BY <1>1, <1>2

\* New entries come behind the cursor.
LEMMA AppendKeeps == ASSUME StreamInv, NEW p \in TelemetryMessage, Append1(p) PROVE StreamInv'
<1> USE StreamAssumption DEF Append1, StreamInv, TypeOK, workVars, entryVars
<1>1. /\ stream' \in Seq(TelemetryMessage) /\ Len(stream') = Len(stream) + 1
      /\ \A id \in 1..Len(stream) : stream'[id] = stream[id]
    OBVIOUS
<1>2. TypeOK' /\ CursorShape' /\ BatchShape'
    BY SMTT(30), <1>1 DEF CursorShape, BatchShape
<1>3. EvaluationOrder' /\ EvaluatedOnce' /\ HotIsStored'
    BY DEF EvaluationOrder, EvaluatedOnce, HotIsStored
<1>4. \A id \in 1..lastId : Stored(id)' <=> Stored(id)
    BY <1>1 DEF CursorShape, Stored
<1>5. InsertedFirst'
    BY <1>4 DEF InsertedFirst, BatchShape
<1>6. AckedIsStored'
    BY <1>4 DEF AckedIsStored, Delivered, Id
<1> QED
    BY <1>2, <1>3, <1>5, <1>6

\* What the hot state shows, a reader has found in the table.
LEMMA ReaderKeeps ==
    ASSUME StreamInv, NEW d \in Devices, ReadTable(d) \/ Rewarm(d)
    PROVE  StreamInv'
<1> USE StreamAssumption DEF StreamInv, TypeOK, busVars, workVars
<1>1. UNCHANGED <<busVars, workVars, known, evaluated, skipped, positions, upsets>>
    BY DEF ReadTable, Rewarm, entryVars
<1>2. ASSUME ReadTable(d) PROVE TypeOK' /\ InsertedFirst' /\ HotIsStored'
  <2>1. PICK p \in positions : p.dev = d /\ warm' = [warm EXCEPT ![d] = p.ts]
    BY <1>2 DEF ReadTable
  <2>2. p \in Position /\ p = [dev |-> d, ts |-> p.ts] /\ p.ts \in 1..MaxTs
    BY <2>1 DEF Position
  <2> QED
    BY <1>1, <1>2, <2>1, <2>2 DEF ReadTable, InsertedFirst, HotIsStored, Stored
<1>3. ASSUME Rewarm(d) PROVE TypeOK' /\ InsertedFirst' /\ HotIsStored'
    BY <1>1, <1>3 DEF Rewarm, InsertedFirst, HotIsStored, Stored
<1>4. CursorShape' /\ BatchShape'
    BY <1>1 DEF CursorShape, BatchShape
<1>5. EvaluationOrder' /\ EvaluatedOnce' /\ AckedIsStored'
    BY <1>1 DEF EvaluationOrder, EvaluatedOnce, AckedIsStored, Delivered, Stored
<1> QED
    BY <1>2, <1>3, <1>4, <1>5

\* A hot state that is lost shows nothing.
LEMMA FlushKeeps == ASSUME StreamInv, Flush PROVE StreamInv'
    BY SMTT(30), StreamAssumption DEF Flush, Upset, busVars, workVars, entryVars, StreamInv,
       TypeOK, CursorShape,
       BatchShape, EvaluationOrder, EvaluatedOnce, InsertedFirst, AckedIsStored,
       HotIsStored, Delivered, Stored

\* An empty stream without a group.
LEMMA StreamInit == Init => StreamInv
<1> SUFFICES ASSUME Init PROVE StreamInv
    OBVIOUS
<1> USE StreamAssumption DEF Init
<1>1. TypeOK
    BY DEF TypeOK, Id
<1>2. CursorShape /\ BatchShape
    BY DEF CursorShape, BatchShape
<1>3. EvaluationOrder /\ EvaluatedOnce /\ InsertedFirst /\ AckedIsStored /\ HotIsStored
    BY DEF EvaluationOrder, EvaluatedOnce, InsertedFirst, AckedIsStored, HotIsStored, Delivered
<1> QED
    BY <1>1, <1>2, <1>3 DEF StreamInv

\* Every step of the group, the readers and the stream.
LEMMA StreamStep == StreamInv /\ [Next]_streamVars => StreamInv'
<1> SUFFICES ASSUME StreamInv, [Next]_streamVars PROVE StreamInv'
    OBVIOUS
<1>1. CASE UNCHANGED streamVars
    BY <1>1 DEF streamVars, vars, busVars, workVars, entryVars, StreamInv, TypeOK, CursorShape,
       BatchShape, EvaluationOrder, EvaluatedOnce, InsertedFirst, AckedIsStored,
       HotIsStored, Delivered, Stored
<1> QED
    BY <1>1, BootKeeps, ReadKeeps, EvaluateKeeps, InsertKeeps, SetLastKeeps,
       AckKeeps, FailKeeps, LearnKeeps, AppendKeeps, ReaderKeeps, FlushKeeps DEF Next, Process

\* redis.ts and telemetry.consumer.ts: an entry is acked only when its position is
\* in the table or process() passed it over, unseen by the rules, for want of a
\* device or of a position; and the live map shows nothing that is not in the
\* history, however many replicas share the group, wherever they end, whatever they
\* take the devices to be meanwhile, and whoever warms the cache.
THEOREM StoredFirst == Spec => []StoredBeforeShown
<1>1. Init => StreamInv
    BY StreamInit
<1>2. StreamInv /\ [Next]_vars => StreamInv'
    BY StreamStep DEF streamVars
<1>3. StreamInv => StoredBeforeShown
    BY DEF StreamInv, StoredBeforeShown
<1> QED
    BY <1>1, <1>2, <1>3, PTL DEF Spec

\* No entry is shown to the rules twice, by one replica or by two.
THEOREM NothingTwice == Spec => []EvaluatedOnce
<1>1. Init => StreamInv
    BY StreamInit
<1>2. StreamInv /\ [Next]_vars => StreamInv'
    BY StreamStep DEF streamVars
<1>3. StreamInv => EvaluatedOnce
    BY DEF StreamInv
<1> QED
    BY <1>1, <1>2, <1>3, PTL DEF Spec

-----------------------------------------------------------------------------
(***************************************************************************)
(* The UDP server.                                                         *)
(***************************************************************************)
Accounted(r) ==
    Udp!Durable(r) \/ Udp!InHand(r) \/ r \in abandoned \/ r \in swallowed

\* A handler works on a datagram that was sent, and has claimed nothing before
\* the dedupe loop.
HandlerShape ==
    \A h \in Handlers :
        /\ pc[h] # "free" => msg[h] \in sent
        /\ pc[h] \in {"free", "auth"} => fresh[h] = {} /\ todo[h] = {}
        /\ pc[h] = "write" => todo[h] = {}

\* Packet ids are not used twice, and what a device waits for it has sent under
\* its latest id.
IdsDiffer ==
    /\ \A m, n \in sent : m.dev = n.dev /\ m.id = n.id => m = n
    /\ \A m \in sent : m.id <= lastPacket[m.dev]
    /\ \A d \in Devices : current[d] # {} =>
          [dev |-> d, id |-> lastPacket[d], recs |-> current[d]] \in sent

\* A key that is set is accounted for, and so is what a handler has looked up and
\* what an ack, still on its way or already received, has spoken of.
ClaimsAreAccounted ==
    /\ \A h \in Handlers : fresh[h] \subseteq seen
    /\ \A r \in seen : Accounted(r)
    /\ \A h \in Handlers : pc[h] \in {"dedupe", "write"} =>
          \A r \in msg[h].recs \ todo[h] : Accounted(r)
    /\ \A a \in acks : \E m \in sent :
          m.dev = a.dev /\ m.id = a.id /\ \A r \in m.recs : Accounted(r)

UdpInv ==
    /\ Udp!TypeOK /\ HandlerShape /\ IdsDiffer
    /\ ClaimsAreAccounted /\ Udp!AckedIsAccounted

\* Where the keys outlive a process, or no process ends: what is stored keeps its
\* key, so nobody claims it again.
OnceInv == Udp!StoredOnce /\ \A r \in Udp!Rec : Udp!Durable(r) => r \in seen

\* The records of the instance are finitely many, and so are those of a packet.
LEMMA RecordsAreCounted ==
    ASSUME NEW p \in SUBSET Udp!Rec
    PROVE  Udp!Cardinality(p) \in Nat
<1>1. IsFiniteSet(1..MaxRecord)
  <2>1. MaxRecord \in Int /\ 1 \in Int
    BY UdpAssumption
  <2> QED
    BY <2>1, FS_Interval
<1>2. IsFiniteSet(Udp!Rec)
    BY <1>1, UdpAssumption, FS_Product DEF Udp!Rec
<1>3. Cardinality(p) \in Nat
    BY <1>2, FS_Subset, FS_CardinalityType
<1> QED
    BY <1>3 DEF Cardinality, Udp!Cardinality

LEMMA UdpInit == Udp!Init => UdpInv /\ OnceInv
<1> SUFFICES ASSUME Udp!Init PROVE UdpInv /\ OnceInv
    OBVIOUS
<1> USE UdpAssumption DEF Udp!Init
<1>1. Udp!TypeOK
    BY DEF Udp!TypeOK
<1>2. HandlerShape /\ IdsDiffer /\ ClaimsAreAccounted
    BY DEF HandlerShape, IdsDiffer, ClaimsAreAccounted
<1>3. Udp!AckedIsAccounted
    BY DEF Udp!AckedIsAccounted, Udp!Acked, Udp!Rec
<1>4. OnceInv
    BY DEF OnceInv, Udp!StoredOnce, Udp!Durable, Udp!InHand
<1> QED
    BY <1>1, <1>2, <1>3, <1>4 DEF UdpInv

\* A new record is in the flash.
LEMMA CaptureKeeps ==
    ASSUME UdpInv, NEW d \in Devices, Udp!Capture(d)
    PROVE  UdpInv'
<1> USE UdpAssumption
<1>1. /\ captured[d] \in 0..MaxRecord /\ captured[d] < MaxRecord
      /\ captured' = [captured EXCEPT ![d] = @ + 1]
      /\ flash' = flash \cup {<<d, captured[d] + 1>>}
      /\ UNCHANGED <<lastPacket, current, sent, acks, allowed, switches, pc, msg,
                     todo, fresh, seen, stored, abandoned, swallowed, faults>>
    BY DEF UdpInv, Udp!TypeOK, Udp!Capture, Udp!listVars, Udp!historyVars, Udp!handlerVars
<1>2. <<d, captured[d] + 1>> \in Udp!Rec
    BY <1>1 DEF Udp!Rec
<1>3. Udp!TypeOK'
    BY <1>1, <1>2 DEF UdpInv, Udp!TypeOK
<1>4. (HandlerShape /\ IdsDiffer /\ ClaimsAreAccounted)'
    BY <1>1 DEF UdpInv, HandlerShape, IdsDiffer, ClaimsAreAccounted, Accounted,
       Udp!Durable, Udp!InHand
<1>5. ASSUME NEW r \in Udp!Acked' PROVE r \in Udp!Acked
  <2>1. r \in Udp!Rec /\ r[1] \in Devices /\ r[2] \in 1..MaxRecord /\ r = <<r[1], r[2]>>
      BY DEF Udp!Acked, Udp!Rec
  <2>2. captured \in [Devices -> 0..MaxRecord] /\ r[2] <= captured'[r[1]] /\ r \notin flash'
      BY DEF Udp!Acked, UdpInv, Udp!TypeOK
  <2>3. CASE r[1] = d
      BY <1>1, <2>1, <2>2, <2>3 DEF Udp!Acked
  <2>4. CASE r[1] # d
      BY <1>1, <2>1, <2>2, <2>4 DEF Udp!Acked
  <2> QED
      BY <2>3, <2>4
<1>6. Udp!AckedIsAccounted'
    BY <1>1, <1>5 DEF UdpInv, Udp!AckedIsAccounted, Udp!Durable, Udp!InHand
<1> QED
    BY <1>3, <1>4, <1>6 DEF UdpInv

\* A packet goes out under an id that no packet had.
LEMMA SendKeeps ==
    ASSUME UdpInv, NEW d \in Devices, Udp!Send(d)
    PROVE  UdpInv'
<1> USE UdpAssumption
<1>1. PICK p \in SUBSET Udp!Mine(d) :
          /\ current' = [current EXCEPT ![d] = p]
          /\ sent' = sent \cup {[dev |-> d, id |-> lastPacket[d] + 1, recs |-> p]}
    BY DEF Udp!Send
<1>2. /\ lastPacket[d] < MaxId
      /\ lastPacket' = [lastPacket EXCEPT ![d] = @ + 1]
      /\ UNCHANGED <<captured, flash, acks, allowed, switches, pc, msg, todo, fresh,
                     seen, stored, abandoned, swallowed, faults>>
    BY DEF Udp!Send, Udp!listVars, Udp!historyVars, Udp!handlerVars
<1> DEFINE new == [dev |-> d, id |-> lastPacket[d] + 1, recs |-> p]
<1>3. p \in SUBSET Udp!Rec /\ lastPacket[d] \in 0..MaxId /\ new \in Udp!Datagram
    BY <1>1, <1>2 DEF UdpInv, Udp!TypeOK, Udp!Mine, Udp!Datagram
<1>4. Udp!TypeOK'
    BY <1>1, <1>2, <1>3 DEF UdpInv, Udp!TypeOK
<1>5. HandlerShape' /\ ClaimsAreAccounted' /\ Udp!AckedIsAccounted'
    BY <1>1, <1>2 DEF UdpInv, HandlerShape, ClaimsAreAccounted, Accounted,
       Udp!AckedIsAccounted, Udp!Acked, Udp!Durable, Udp!InHand
<1>6. IdsDiffer'
  <2>1. /\ sent' = sent \cup {new} /\ new.dev = d /\ new.id = lastPacket[d] + 1
        /\ current' = [current EXCEPT ![d] = new.recs]
        /\ new = [dev |-> d, id |-> lastPacket[d] + 1, recs |-> new.recs]
      BY <1>1
  <2>2. /\ lastPacket \in [Devices -> 0..MaxId] /\ sent \subseteq Udp!Datagram
        /\ current \in [Devices -> SUBSET Udp!Rec]
      BY DEF UdpInv, Udp!TypeOK
  <2>3. \A m \in sent : m.dev \in Devices /\ m.id \in 1..MaxId
      BY <2>2 DEF Udp!Datagram
  <2> HIDE DEF new
  <2> QED
      BY <1>2, <1>3, <2>1, <2>2, <2>3 DEF UdpInv, IdsDiffer
<1> QED
    BY <1>4, <1>5, <1>6 DEF UdpInv

\* The device deletes the records of the one packet the ack can be about.
LEMMA ReceiveAckKeeps ==
    ASSUME UdpInv, NEW d \in Devices, Udp!ReceiveAck(d)
    PROVE  UdpInv'
<1>1. PICK a \in acks : a.dev = d /\ a.id = lastPacket[d]
    BY DEF Udp!ReceiveAck
<1>2. /\ current[d] # {}
      /\ flash' = flash \ current[d]
      /\ current' = [current EXCEPT ![d] = {}]
      /\ UNCHANGED <<captured, lastPacket, sent, acks, allowed, switches, pc, msg,
                     todo, fresh, seen, stored, abandoned, swallowed, faults>>
    BY DEF Udp!ReceiveAck, Udp!listVars, Udp!historyVars, Udp!handlerVars
<1>3. PICK m \in sent : m.dev = d /\ m.id = lastPacket[d] /\ \A r \in m.recs : Accounted(r)
    BY <1>1 DEF UdpInv, ClaimsAreAccounted
<1>4. [dev |-> d, id |-> lastPacket[d], recs |-> current[d]] \in sent
    BY <1>2 DEF UdpInv, IdsDiffer
<1>5. \A r \in current[d] : Accounted(r)
  <2>1. m = [dev |-> d, id |-> lastPacket[d], recs |-> current[d]]
      BY <1>3, <1>4 DEF UdpInv, IdsDiffer
  <2> QED
      BY <1>3, <2>1
<1>6. Udp!TypeOK'
    BY <1>2 DEF UdpInv, Udp!TypeOK
<1>7. HandlerShape' /\ ClaimsAreAccounted'
    BY <1>2 DEF UdpInv, HandlerShape, ClaimsAreAccounted, Accounted, Udp!Durable, Udp!InHand
<1>8. IdsDiffer'
    BY <1>2 DEF UdpInv, IdsDiffer, Udp!TypeOK
<1>9. Udp!AckedIsAccounted'
    BY <1>2, <1>5 DEF UdpInv, Udp!AckedIsAccounted, Udp!Acked, Accounted, Udp!Durable,
       Udp!InHand
<1> QED
    BY <1>6, <1>7, <1>8, <1>9 DEF UdpInv

\* What is accounted for stays so, when a step moves records only between hands,
\* table and given up; the device's side of the invariant follows.
LEMMA AccountedStays ==
    ASSUME UdpInv,
           UNCHANGED <<captured, flash, lastPacket, current, sent>>,
           \A r \in Udp!Rec : Accounted(r) => Accounted(r)'
    PROVE  IdsDiffer' /\ Udp!AckedIsAccounted'
<1>1. IdsDiffer'
    BY DEF UdpInv, IdsDiffer
<1>2. Udp!AckedIsAccounted'
    BY DEF UdpInv, Udp!AckedIsAccounted, Udp!Acked, Accounted, Udp!Rec
<1> QED
    BY <1>1, <1>2

\* A copy arrives, and isAllowed answers.
LEMMA ArriveKeeps ==
    ASSUME UdpInv, NEW h \in Handlers, NEW m \in sent, Udp!Arrive(h, m)
    PROVE  UdpInv'
<1>1. /\ pc[h] = "free"
      /\ pc' = [pc EXCEPT ![h] = "auth"]
      /\ msg' = [msg EXCEPT ![h] = m]
      /\ UNCHANGED <<captured, flash, lastPacket, current, sent, acks, allowed,
                     switches, todo, fresh, seen, stored, abandoned, swallowed, faults>>
    BY DEF Udp!Arrive, Udp!deviceVars, Udp!listVars, Udp!historyVars
<1>2. Udp!TypeOK'
    BY <1>1 DEF UdpInv, Udp!TypeOK
<1>3. HandlerShape' /\ ClaimsAreAccounted'
    BY <1>1 DEF UdpInv, Udp!TypeOK, HandlerShape, ClaimsAreAccounted, Accounted,
       Udp!Durable, Udp!InHand
<1>4. \A r \in Udp!Rec : Accounted(r) => Accounted(r)'
    BY <1>1 DEF Accounted, Udp!Durable, Udp!InHand
<1> QED
    BY <1>1, <1>2, <1>3, <1>4, AccountedStays DEF UdpInv

LEMMA AuthoriseKeeps ==
    ASSUME UdpInv, NEW h \in Handlers, Udp!Authorise(h)
    PROVE  UdpInv'
<1>1. /\ pc[h] = "auth"
      /\ \/ /\ pc' = [pc EXCEPT ![h] = "dedupe"]
            /\ todo' = [todo EXCEPT ![h] = msg[h].recs]
            /\ msg' = msg
         \/ /\ pc' = [pc EXCEPT ![h] = "free"]
            /\ msg' = [msg EXCEPT ![h] = Udp!NoDatagram]
            /\ todo' = todo
      /\ UNCHANGED <<captured, flash, lastPacket, current, sent, acks, allowed,
                     switches, fresh, seen, stored, abandoned, swallowed, faults>>
    BY DEF Udp!Authorise, Udp!deviceVars, Udp!listVars, Udp!historyVars
<1>2. msg[h] \in sent /\ msg[h].recs \in SUBSET Udp!Rec
    BY <1>1 DEF UdpInv, HandlerShape, Udp!TypeOK, Udp!Datagram
<1>3. Udp!TypeOK'
    BY <1>1, <1>2 DEF UdpInv, Udp!TypeOK
<1>4. HandlerShape' /\ ClaimsAreAccounted'
    BY <1>1, <1>2 DEF UdpInv, Udp!TypeOK, HandlerShape, ClaimsAreAccounted, Accounted,
       Udp!Durable, Udp!InHand
<1>5. \A r \in Udp!Rec : Accounted(r) => Accounted(r)'
    BY <1>1 DEF Accounted, Udp!Durable, Udp!InHand
<1> QED
    BY <1>1, <1>3, <1>4, <1>5, AccountedStays DEF UdpInv

\* A record whose key was not set is in the handler's hands; one whose key was
\* set was accounted for before.
LEMMA CheckAndSetKeeps ==
    ASSUME UdpInv, NEW h \in Handlers, Udp!CheckAndSet(h)
    PROVE  UdpInv'
<1>1. PICK r \in todo[h] :
          /\ todo' = [todo EXCEPT ![h] = @ \ {r}]
          /\ fresh' = [fresh EXCEPT ![h] = IF Udp!IsNew(r) THEN @ \cup {r} ELSE @]
          /\ seen' = seen \cup {r}
    BY DEF Udp!CheckAndSet
<1>2. /\ pc[h] = "dedupe"
      /\ UNCHANGED <<captured, flash, lastPacket, current, sent, acks, allowed,
                     switches, pc, msg, stored, abandoned, swallowed, faults>>
    BY DEF Udp!CheckAndSet, Udp!deviceVars, Udp!listVars, Udp!historyVars
<1>3. r \in Udp!Rec /\ todo' \in [Handlers -> SUBSET Udp!Rec]
      /\ fresh' \in [Handlers -> SUBSET Udp!Rec]
    BY <1>1 DEF UdpInv, Udp!TypeOK
<1>4. Udp!TypeOK'
    BY <1>1, <1>2, <1>3 DEF UdpInv, Udp!TypeOK
<1>5. \A g \in Handlers : fresh[g] \subseteq fresh'[g]
    BY <1>1 DEF UdpInv, Udp!TypeOK
<1>6. \A q : Accounted(q) => Accounted(q)'
    BY <1>2, <1>5 DEF Accounted, Udp!Durable, Udp!InHand
<1>7. Accounted(r)'
  <2>1. CASE r \in seen
      BY <1>6, <2>1 DEF UdpInv, ClaimsAreAccounted
  <2>2. CASE r \notin seen
    <3>1. r \in fresh'[h]
        BY <1>1, <2>2 DEF UdpInv, Udp!TypeOK, Udp!IsNew
    <3> QED
        BY <3>1 DEF Accounted, Udp!InHand
  <2> QED
      BY <2>1, <2>2
<1>8. HandlerShape'
    BY <1>1, <1>2 DEF UdpInv, Udp!TypeOK, HandlerShape
<1>9. ClaimsAreAccounted'
  <2>1. \A g \in Handlers : fresh'[g] \subseteq seen'
      BY <1>1 DEF UdpInv, Udp!TypeOK, ClaimsAreAccounted
  <2>2. \A q \in seen' : Accounted(q)'
      BY <1>1, <1>6, <1>7 DEF UdpInv, ClaimsAreAccounted
  <2>3. \A g \in Handlers : pc'[g] \in {"dedupe", "write"} =>
            \A q \in msg'[g].recs \ todo'[g] : Accounted(q)'
      BY <1>1, <1>2, <1>6, <1>7 DEF UdpInv, Udp!TypeOK, ClaimsAreAccounted
  <2>4. \A a \in acks' : \E m \in sent' :
            m.dev = a.dev /\ m.id = a.id /\ \A q \in m.recs : Accounted(q)'
      BY <1>2, <1>6 DEF UdpInv, ClaimsAreAccounted
  <2> QED
      BY <2>1, <2>2, <2>3, <2>4 DEF ClaimsAreAccounted
<1> QED
    BY <1>2, <1>4, <1>6, <1>8, <1>9, AccountedStays DEF UdpInv

LEMMA StartWriteKeeps ==
    ASSUME UdpInv, NEW h \in Handlers, Udp!StartWrite(h)
    PROVE  UdpInv'
<1>1. /\ pc[h] = "dedupe" /\ todo[h] = {}
      /\ pc' = [pc EXCEPT ![h] = "write"]
      /\ UNCHANGED <<captured, flash, lastPacket, current, sent, acks, allowed,
                     switches, msg, todo, fresh, seen, stored, abandoned, swallowed, faults>>
    BY DEF Udp!StartWrite, Udp!deviceVars, Udp!listVars, Udp!historyVars
<1>2. Udp!TypeOK'
    BY <1>1 DEF UdpInv, Udp!TypeOK
<1>3. HandlerShape' /\ ClaimsAreAccounted'
    BY <1>1 DEF UdpInv, Udp!TypeOK, HandlerShape, ClaimsAreAccounted, Accounted,
       Udp!Durable, Udp!InHand
<1>4. \A r \in Udp!Rec : Accounted(r) => Accounted(r)'
    BY <1>1 DEF Accounted, Udp!Durable, Udp!InHand
<1> QED
    BY <1>1, <1>2, <1>3, <1>4, AccountedStays DEF UdpInv

\* What was in the handler's hands is stored, and the ack speaks of a datagram all
\* of whose records the handler has looked up.
LEMMA SettleKeeps ==
    ASSUME UdpInv, NEW h \in Handlers, NEW S \in SUBSET fresh[h], Udp!Settle(h, S),
           \* what is not stored is noted
           fresh[h] \ S \subseteq swallowed',
           swallowed \subseteq swallowed', swallowed' \subseteq Udp!Rec,
           faults' \in 0..MaxFaults
    PROVE  UdpInv'
<1> DEFINE ack == [dev |-> msg[h].dev, id |-> msg[h].id, count |-> Udp!AckCount(h)]
<1>1. /\ pc[h] = "write"
      /\ pc' = [pc EXCEPT ![h] = "free"]
      /\ msg' = [msg EXCEPT ![h] = Udp!NoDatagram]
      /\ todo' = [todo EXCEPT ![h] = {}]
      /\ fresh' = [fresh EXCEPT ![h] = {}]
      /\ stored' = [r \in Udp!Rec |->
                       IF r \in S THEN stored[r] + 1 ELSE stored[r]]
      /\ acks' = acks \cup {ack}
      /\ UNCHANGED <<captured, flash, lastPacket, current, sent, allowed, switches,
                     seen, abandoned>>
    BY DEF Udp!Settle, Udp!Finish, Udp!deviceVars, Udp!listVars, Udp!historyVars
<1>2. /\ msg[h] \in sent /\ msg[h] \in Udp!Datagram /\ todo[h] = {}
      /\ fresh[h] \in SUBSET Udp!Rec
    BY <1>1 DEF UdpInv, HandlerShape, Udp!TypeOK
<1>3. ack.dev = msg[h].dev /\ ack.id = msg[h].id /\ ack \in Udp!Ack
  <2>1. Udp!Cardinality(msg[h].recs) \in Nat
      BY <1>2, RecordsAreCounted DEF Udp!Datagram
  <2>2. msg[h].dev \in Devices /\ msg[h].id \in 1..MaxId
      BY <1>2 DEF Udp!Datagram
  <2> QED
      BY <2>1, <2>2 DEF Udp!Ack, Udp!AckCount
<1> HIDE DEF ack
<1>4. Udp!TypeOK'
  <2>1. stored' \in [Udp!Rec -> Nat]
      BY <1>1, <1>2 DEF UdpInv, Udp!TypeOK
  <2>2. acks' \subseteq Udp!Ack
      BY <1>1, <1>3 DEF UdpInv, Udp!TypeOK
  <2> QED
      BY <1>1, <2>1, <2>2 DEF UdpInv, Udp!TypeOK
<1>5. HandlerShape'
    BY <1>1 DEF UdpInv, Udp!TypeOK, HandlerShape
<1>6. \A r \in Udp!Rec : Accounted(r) => Accounted(r)'
  <2> SUFFICES ASSUME NEW r \in Udp!Rec, Accounted(r) PROVE Accounted(r)'
      OBVIOUS
  <2>1. stored[r] \in Nat
      BY DEF UdpInv, Udp!TypeOK
  <2>2. CASE r \in S \/ Udp!Durable(r)
    <3>1. stored'[r] > 0
        BY <1>1, <2>1, <2>2 DEF Udp!Durable
    <3> QED
        BY <3>1 DEF Accounted, Udp!Durable
  <2>3. CASE r \in abandoned \/ r \in swallowed \/ r \in fresh[h] \ S
      BY <1>1, <2>3 DEF Accounted
  <2>4. CASE \E g \in Handlers \ {h} : r \in fresh[g]
      BY <1>1, <2>4 DEF UdpInv, Udp!TypeOK, Accounted, Udp!InHand
  <2> QED
      BY <2>2, <2>3, <2>4 DEF Accounted, Udp!InHand
<1>7. ClaimsAreAccounted'
  <2>1. \A g \in Handlers : fresh'[g] \subseteq seen'
      BY <1>1 DEF UdpInv, Udp!TypeOK, ClaimsAreAccounted
  <2>2. \A r \in seen' : Accounted(r)'
      BY <1>1, <1>6 DEF UdpInv, Udp!TypeOK, ClaimsAreAccounted
  <2>3. ASSUME NEW g \in Handlers, pc'[g] \in {"dedupe", "write"}
        PROVE  \A r \in msg'[g].recs \ todo'[g] : Accounted(r)'
    <3>1. g # h /\ pc[g] = pc'[g] /\ msg'[g] = msg[g] /\ todo'[g] = todo[g]
        BY <1>1, <2>3 DEF UdpInv, Udp!TypeOK
    <3>2. msg[g].recs \subseteq Udp!Rec
        BY <2>3, <3>1 DEF UdpInv, Udp!TypeOK, Udp!Datagram
    <3> QED
        BY <1>6, <2>3, <3>1, <3>2 DEF UdpInv, ClaimsAreAccounted
  <2>4. ASSUME NEW a \in acks'
        PROVE  \E m \in sent' :
                  m.dev = a.dev /\ m.id = a.id /\ \A r \in m.recs : Accounted(r)'
    <3>1. \A m \in sent : m.recs \subseteq Udp!Rec
        BY DEF UdpInv, Udp!TypeOK, Udp!Datagram
    <3>2. CASE a = ack
      <4>1. \A r \in msg[h].recs : Accounted(r)
          BY <1>1, <1>2 DEF UdpInv, ClaimsAreAccounted
      <4> QED
          BY <1>1, <1>2, <1>3, <1>6, <3>1, <3>2, <4>1
    <3>3. CASE a \in acks
        BY <1>1, <1>6, <3>1, <3>3 DEF UdpInv, ClaimsAreAccounted
    <3> QED
        BY <1>1, <2>4, <3>2, <3>3
  <2> QED
      BY <2>1, <2>2, <2>3, <2>4 DEF ClaimsAreAccounted
<1> QED
    BY <1>1, <1>4, <1>5, <1>6, <1>7, AccountedStays DEF UdpInv

LEMMA WriteAndAckKeeps ==
    ASSUME UdpInv, NEW h \in Handlers, Udp!WriteAndAck(h)
    PROVE  UdpInv'
<1>1. Udp!Settle(h, fresh[h]) /\ UNCHANGED <<swallowed, faults>>
    BY DEF Udp!WriteAndAck, Udp!Batch
<1>2. fresh[h] \in SUBSET fresh[h] /\ swallowed \subseteq Udp!Rec /\ faults \in 0..MaxFaults
    BY DEF UdpInv, Udp!TypeOK
<1> QED
    BY <1>1, <1>2, SettleKeeps

LEMMA SwallowedKeeps ==
    ASSUME UdpInv, NEW h \in Handlers, Udp!WriteIsSwallowed(h)
    PROVE  UdpInv'
<1>1. PICK lost \in SUBSET fresh[h] :
          /\ Udp!Settle(h, fresh[h] \ lost)
          /\ swallowed' = swallowed \cup lost
    BY DEF Udp!WriteIsSwallowed, Udp!Batch
<1> DEFINE S == fresh[h] \ lost
<1>2. S \in SUBSET fresh[h] /\ fresh[h] \ S \subseteq lost
    OBVIOUS
<1>3. swallowed' \subseteq Udp!Rec
    BY <1>1 DEF UdpInv, Udp!TypeOK
<1>4. faults' \in 0..MaxFaults
    BY UdpAssumption DEF UdpInv, Udp!TypeOK, Udp!WriteIsSwallowed
<1>5. Udp!Settle(h, S)
    BY <1>1
<1> HIDE DEF S
<1> QED
    BY <1>1, <1>2, <1>3, <1>4, <1>5, SettleKeeps

\* A handler that gives up, and a process that ends, leave what they claimed
\* among the abandoned.
LEMMA GivingUpKeeps ==
    ASSUME UdpInv, NEW S \in SUBSET Handlers,
           \* the handlers of S are over, with what they held given up
           pc' = [h \in Handlers |-> IF h \in S THEN "free" ELSE pc[h]],
           msg' = [h \in Handlers |-> IF h \in S THEN Udp!NoDatagram ELSE msg[h]],
           todo' = [h \in Handlers |-> IF h \in S THEN {} ELSE todo[h]],
           fresh' = [h \in Handlers |-> IF h \in S THEN {} ELSE fresh[h]],
           abandoned' = abandoned \cup UNION {fresh[h] : h \in S},
           seen' = seen \/ (seen' = {} /\ S = Handlers),
           faults < MaxFaults, faults' = faults + 1,
           UNCHANGED <<captured, flash, lastPacket, current, sent, acks, allowed,
                       switches, stored, swallowed>>
    PROVE  UdpInv'
<1> USE UdpAssumption
<1>1. Udp!TypeOK'
  <2>1. abandoned' \subseteq Udp!Rec /\ seen' \subseteq Udp!Rec
      BY DEF UdpInv, Udp!TypeOK
  <2>2. faults' \in 0..MaxFaults
      BY DEF UdpInv, Udp!TypeOK
  <2>3. /\ pc' \in [Handlers -> {"free", "auth", "dedupe", "write"}]
        /\ todo' \in [Handlers -> SUBSET Udp!Rec] /\ fresh' \in [Handlers -> SUBSET Udp!Rec]
      BY DEF UdpInv, Udp!TypeOK
  <2>4. /\ msg' \in [Handlers -> Udp!Datagram \cup {Udp!NoDatagram}]
        /\ \A h \in Handlers : pc'[h] # "free" => msg'[h] \in Udp!Datagram
      BY DEF UdpInv, Udp!TypeOK
  <2> QED
      BY <2>1, <2>2, <2>3, <2>4 DEF UdpInv, Udp!TypeOK
<1>2. HandlerShape'
    BY DEF UdpInv, Udp!TypeOK, HandlerShape
<1>3. \A r : Accounted(r) => Accounted(r)'
    BY DEF Accounted, Udp!Durable, Udp!InHand
<1>4. ClaimsAreAccounted'
  <2>1. \A h \in Handlers : fresh'[h] \subseteq seen'
      BY DEF UdpInv, Udp!TypeOK, ClaimsAreAccounted
  <2>2. \A r \in seen' : Accounted(r)'
      BY <1>3 DEF UdpInv, ClaimsAreAccounted
  <2>3. \A h \in Handlers : pc'[h] \in {"dedupe", "write"} =>
            \A r \in msg'[h].recs \ todo'[h] : Accounted(r)'
      BY <1>3 DEF UdpInv, ClaimsAreAccounted
  <2>4. \A a \in acks' : \E m \in sent' :
            m.dev = a.dev /\ m.id = a.id /\ \A r \in m.recs : Accounted(r)'
      BY <1>3 DEF UdpInv, ClaimsAreAccounted
  <2> QED
      BY <2>1, <2>2, <2>3, <2>4 DEF ClaimsAreAccounted
<1> QED
    BY <1>1, <1>2, <1>3, <1>4, AccountedStays DEF UdpInv

LEMMA RejectKeeps ==
    ASSUME UdpInv, NEW h \in Handlers, Udp!Reject(h)
    PROVE  UdpInv'
<1>1. /\ faults < MaxFaults /\ faults' = faults + 1
      /\ pc' = [pc EXCEPT ![h] = "free"]
      /\ msg' = [msg EXCEPT ![h] = Udp!NoDatagram]
      /\ todo' = [todo EXCEPT ![h] = {}]
      /\ fresh' = [fresh EXCEPT ![h] = {}]
      /\ abandoned' = abandoned \cup fresh[h]
      /\ UNCHANGED <<captured, flash, lastPacket, current, sent, acks, allowed,
                     switches, seen, stored, swallowed>>
    BY DEF Udp!Reject, Udp!Finish, Udp!deviceVars, Udp!listVars, Udp!historyVars
<1> DEFINE S == {h}
<1>2. /\ pc' = [g \in Handlers |-> IF g \in S THEN "free" ELSE pc[g]]
      /\ msg' = [g \in Handlers |-> IF g \in S THEN Udp!NoDatagram ELSE msg[g]]
      /\ todo' = [g \in Handlers |-> IF g \in S THEN {} ELSE todo[g]]
      /\ fresh' = [g \in Handlers |-> IF g \in S THEN {} ELSE fresh[g]]
    BY <1>1 DEF UdpInv, Udp!TypeOK
<1>3. abandoned' = abandoned \cup UNION {fresh[g] : g \in S}
    BY <1>1
<1>4. S \in SUBSET Handlers
    OBVIOUS
<1> HIDE DEF S
<1> QED
    BY <1>1, <1>2, <1>3, <1>4, GivingUpKeeps

LEMMA NodeExitKeeps == ASSUME UdpInv, Udp!NodeExit PROVE UdpInv'
<1> DEFINE S == Handlers
<1>1. /\ faults < MaxFaults /\ faults' = faults + 1
      /\ pc' = [g \in Handlers |-> IF g \in S THEN "free" ELSE pc[g]]
      /\ msg' = [g \in Handlers |-> IF g \in S THEN Udp!NoDatagram ELSE msg[g]]
      /\ todo' = [g \in Handlers |-> IF g \in S THEN {} ELSE todo[g]]
      /\ fresh' = [g \in Handlers |-> IF g \in S THEN {} ELSE fresh[g]]
      /\ abandoned' = abandoned \cup UNION {fresh[g] : g \in S}
      /\ seen' = seen \/ (seen' = {} /\ S = Handlers)
      /\ UNCHANGED <<captured, flash, lastPacket, current, sent, acks, allowed,
                     switches, stored, swallowed>>
    BY DEF Udp!NodeExit, Udp!deviceVars, Udp!listVars, Udp!historyVars
<1> QED
    BY <1>1, GivingUpKeeps

LEMMA SwitchAllowedKeeps ==
    ASSUME UdpInv, NEW d \in Devices, Udp!SwitchAllowed(d)
    PROVE  UdpInv'
<1>1. /\ switches < MaxSwitch /\ switches' = switches + 1
      /\ allowed' \subseteq allowed \cup {d}
      /\ UNCHANGED <<captured, flash, lastPacket, current, sent, acks, pc, msg, todo,
                     fresh, seen, stored, abandoned, swallowed, faults>>
    BY DEF Udp!SwitchAllowed, Udp!deviceVars, Udp!handlerVars, Udp!historyVars
<1>2. Udp!TypeOK'
    BY <1>1, UdpAssumption DEF UdpInv, Udp!TypeOK
<1>3. HandlerShape' /\ ClaimsAreAccounted'
    BY <1>1 DEF UdpInv, HandlerShape, ClaimsAreAccounted, Accounted, Udp!Durable, Udp!InHand
<1>4. \A r \in Udp!Rec : Accounted(r) => Accounted(r)'
    BY <1>1 DEF Accounted, Udp!Durable, Udp!InHand
<1> QED
    BY <1>1, <1>2, <1>3, <1>4, AccountedStays DEF UdpInv

\* Every step of the devices and the handlers.
LEMMA UdpStep == UdpInv /\ [Udp!Next]_(Udp!vars) => UdpInv'
<1> SUFFICES ASSUME UdpInv, [Udp!Next]_(Udp!vars) PROVE UdpInv'
    OBVIOUS
<1>1. CASE UNCHANGED Udp!vars
    BY <1>1 DEF Udp!vars, Udp!deviceVars, Udp!handlerVars, Udp!listVars, Udp!historyVars, UdpInv,
       Udp!TypeOK, HandlerShape, IdsDiffer, ClaimsAreAccounted, Accounted,
       Udp!AckedIsAccounted, Udp!Acked, Udp!Durable, Udp!InHand
<1> QED
    BY <1>1, CaptureKeeps, SendKeeps, ReceiveAckKeeps, SwitchAllowedKeeps, ArriveKeeps,
       AuthoriseKeeps, CheckAndSetKeeps, StartWriteKeeps, WriteAndAckKeeps,
       SwallowedKeeps, RejectKeeps, NodeExitKeeps DEF Udp!Next, Udp!Handle

\* A claim is exclusive: the key of what is stored or in hand is set, so no other
\* handler is told that the record is new.
LEMMA OnceStep ==
    ASSUME SharedDeduper \/ ~NodeMayExit
    PROVE  UdpInv /\ OnceInv /\ [Udp!Next]_(Udp!vars) => OnceInv'
<1> SUFFICES ASSUME UdpInv, OnceInv, [Udp!Next]_(Udp!vars) PROVE OnceInv'
    OBVIOUS
<1> USE DEF OnceInv, Udp!StoredOnce, Udp!Durable, Udp!InHand
<1>1. /\ fresh \in [Handlers -> SUBSET Udp!Rec] /\ stored \in [Udp!Rec -> Nat]
      /\ \A h \in Handlers : fresh[h] \subseteq seen
    BY DEF UdpInv, Udp!TypeOK, ClaimsAreAccounted
<1>2. ASSUME UNCHANGED <<stored, fresh, seen>> PROVE OnceInv'
    BY <1>2
<1>3. ASSUME NEW h \in Handlers, Udp!CheckAndSet(h) PROVE OnceInv'
  <2>1. PICK r \in todo[h] :
            /\ fresh' = [fresh EXCEPT ![h] = IF r \notin seen THEN @ \cup {r} ELSE @]
            /\ seen' = seen \cup {r}
            /\ stored' = stored
      BY <1>3 DEF Udp!CheckAndSet, Udp!IsNew
  <2>2. CASE r \in seen
      BY <1>1, <2>1, <2>2
  <2>3. CASE r \notin seen
    <3>1. \A g \in Handlers : r \notin fresh[g]
        BY <1>1, <2>3
    <3>2. \A q \in Udp!Rec : Udp!Durable(q) => q # r
        BY <2>3
    <3>3. \A g \in Handlers : fresh'[g] = IF g = h THEN fresh[g] \cup {r} ELSE fresh[g]
        BY <1>1, <2>1, <2>3
    <3> QED
        BY <2>1, <3>1, <3>2, <3>3
  <2> QED
      BY <2>2, <2>3
<1>4. ASSUME NEW h \in Handlers, NEW S \in SUBSET fresh[h], Udp!Settle(h, S)
      PROVE  OnceInv'
  <2>1. /\ fresh' = [fresh EXCEPT ![h] = {}]
        /\ stored' = [r \in Udp!Rec |-> IF r \in S THEN stored[r] + 1 ELSE stored[r]]
        /\ seen' = seen
      BY <1>4 DEF Udp!Settle, Udp!Finish
  <2>2. \A r \in fresh[h] : r \in Udp!Rec /\ stored[r] = 0 /\ r \in seen
      BY <1>1
  <2>3. \A g \in Handlers : fresh'[g] = IF g = h THEN {} ELSE fresh[g]
      BY <1>1, <2>1
  <2>4. ASSUME NEW r \in Udp!Rec
        PROVE  stored'[r] <= 1 /\ (stored'[r] > 0 => r \in seen' /\ ~Udp!InHand(r)')
    <3>1. CASE r \in fresh[h]
        BY <1>1, <2>1, <2>2, <2>3, <3>1
    <3>2. CASE r \notin fresh[h]
        BY <1>1, <2>1, <2>3, <3>2
    <3> QED
        BY <3>1, <3>2
  <2> QED
      BY <2>3, <2>4
<1>5. ASSUME NEW h \in Handlers, Udp!Reject(h) PROVE OnceInv'
  <2>1. fresh' = [fresh EXCEPT ![h] = {}] /\ UNCHANGED <<stored, seen>>
      BY <1>5 DEF Udp!Reject, Udp!Finish
  <2> QED
      BY <1>1, <2>1
<1>6. ASSUME Udp!NodeExit PROVE OnceInv'
  <2>1. fresh' = [h \in Handlers |-> {}] /\ UNCHANGED <<stored, seen>>
      BY <1>6, UdpAssumption DEF Udp!NodeExit
  <2> QED
      BY <2>1
<1>8. ASSUME NEW h \in Handlers, Udp!WriteAndAck(h) \/ Udp!WriteIsSwallowed(h)
      PROVE  OnceInv'
  <2>1. PICK S \in SUBSET fresh[h] : Udp!Settle(h, S)
    <3>1. CASE Udp!WriteAndAck(h)
      <4>1. fresh[h] \in SUBSET fresh[h]
          OBVIOUS
      <4> QED
          BY <3>1, <4>1 DEF Udp!WriteAndAck, Udp!Batch
    <3>2. CASE Udp!WriteIsSwallowed(h)
      <4>1. PICK lost \in SUBSET fresh[h] : Udp!Settle(h, fresh[h] \ lost)
          BY <3>2 DEF Udp!WriteIsSwallowed, Udp!Batch
      <4>2. fresh[h] \ lost \in SUBSET fresh[h]
          BY <4>1
      <4> QED
          BY <4>1, <4>2
    <3> QED
        BY <1>8, <3>1, <3>2
  <2> QED
      BY <1>4, <2>1
<1>7. ASSUME \/ \E d \in Devices : \/ Udp!Capture(d) \/ Udp!Send(d)
                                  \/ Udp!ReceiveAck(d) \/ Udp!SwitchAllowed(d)
             \/ \E h \in Handlers : \/ Udp!Authorise(h) \/ Udp!StartWrite(h)
                                   \/ \E m \in sent : Udp!Arrive(h, m)
             \/ UNCHANGED Udp!vars
      PROVE  UNCHANGED <<stored, fresh, seen>>
    BY <1>7 DEF Udp!Capture, Udp!Send, Udp!ReceiveAck, Udp!SwitchAllowed, Udp!Authorise,
       Udp!StartWrite, Udp!Arrive, Udp!vars, Udp!handlerVars
<1> QED
    BY <1>2, <1>3, <1>5, <1>6, <1>7, <1>8 DEF Udp!Next, Udp!Handle

\* udp-server.ts: a record that a device deletes on an ack is in the sink, in a
\* handler's hands, was given up by a handler whose backend or process failed, or
\* failed in a pipelined write that resolved all the same, however many copies of
\* its datagram are handled side by side.
THEOREM DeletedIsAccounted == Udp!Spec => []Udp!AckedIsAccounted
<1>1. Udp!Init => UdpInv
    BY UdpInit
<1>2. UdpInv /\ [Udp!Next]_(Udp!vars) => UdpInv'
    BY UdpStep
<1>3. UdpInv => Udp!AckedIsAccounted
    BY DEF UdpInv
<1> QED
    BY <1>1, <1>2, <1>3, PTL DEF Udp!Spec

\* And where the dedupe keys are shared, or the process does not end, no record
\* reaches the sink twice.
THEOREM UdpStores ==
    ASSUME SharedDeduper \/ ~NodeMayExit
    PROVE  Udp!Spec => []UdpStoresOnce
<1>1. Udp!Init => UdpInv /\ OnceInv
    BY UdpInit
<1>2. UdpInv /\ OnceInv /\ [Udp!Next]_(Udp!vars) => UdpInv' /\ OnceInv'
    BY UdpStep, OnceStep
<1>3. UdpInv /\ OnceInv => UdpStoresOnce
    BY DEF UdpInv, OnceInv, UdpStoresOnce
<1> QED
    BY <1>1, <1>2, <1>3, PTL DEF Udp!Spec

-----------------------------------------------------------------------------
(***************************************************************************)
(* The rules.                                                              *)
(***************************************************************************)
Entry == [pos : Rules!Input, ts : Int]

\* A trip has no more points than positions were handled.
RulesTypes ==
    /\ Rules!TypeOK
    /\ log \in Seq(Entry)
    /\ trip # None => trip.points <= Len(log)

\* What the engine keeps of a rule is what the last position judged by it left,
\* and no alert is raised ahead of its position.
EdgesInv ==
    /\ Rules!st.overspeedActive = TRUE
          <=> Rules!WasOver(Rules!Before(Rules!Limited, Len(log) + 1))
    /\ Rules!st.lastIgnition = LET g == Rules!Before(Rules!Ignited, Len(log) + 1)
                               IN  IF g = 0 THEN None ELSE log[g].pos.ignition
    /\ Rules!st.insideGeofences
          = Rules!WasInside(Rules!Before(Rules!Fenced, Len(log) + 1))
    /\ \A r \in raised : r.at \in 1..Len(log)
    /\ Rules!AlertsAreEdges

\* Sets of naturals that are not empty have a least element.
LEMMA Least ==
    ASSUME NEW T \in SUBSET Nat, T # {}
    PROVE  \E x \in T : \A y \in T : x <= y
<1>1. PICK R : R = OpToRel(<, Nat)
    OBVIOUS
<1>2. IsWellFoundedOn(R, Nat) /\ \A x, y \in Nat : <<y, x>> \in R <=> y < x
    BY <1>1, NatLessThanWellFounded DEF OpToRel
<1>3. PICK x \in T : \A y \in T : ~(<<y, x>> \in R)
    BY <1>2, WFMin
<1>4. ASSUME NEW y \in T PROVE ~(y < x)
  <2>1. x \in Nat /\ y \in Nat /\ <<y, x>> \notin R
    BY <1>3
  <2> QED
    BY <1>2, <2>1
<1>5. ASSUME NEW y \in T PROVE x <= y
    BY <1>4
<1> QED
    BY <1>5

\* The last of some positions before another is one of them, or there is none.
LEMMA LastBefore ==
    ASSUME NEW S \in SUBSET Nat, NEW i \in Nat, NEW j \in S, j < i
    PROVE  LET b == Rules!Before(S, i)
           IN  b \in S /\ b < i /\ \A k \in S : k < i => k <= b
<1> DEFINE T == {i - k : k \in {k \in S : k < i}}
<1>1. T \in SUBSET Nat /\ T # {}
    OBVIOUS
<1>2. PICK x \in T : \A y \in T : x <= y
    BY <1>1, Least
<1>3. PICK b \in S : b < i /\ x = i - b
    BY <1>2
<1>4. ASSUME NEW k \in S, k < i PROVE k <= b
  <2>1. i - k \in T
    BY <1>4
  <2>2. x <= i - k
    BY <1>2, <2>1
  <2> QED
    BY <1>3, <2>2
<1> HIDE DEF T
<1>5. \E b1 \in S : b1 < i /\ \A k \in S : k < i => k <= b1
    BY <1>3, <1>4
<1> QED
    BY <1>5 DEF Rules!Before

\* It depends on the positions before the other one only.
LEMMA SameBefore ==
    ASSUME NEW S \in SUBSET Nat, NEW T \in SUBSET Nat, NEW i \in Nat, NEW j \in Nat,
           {k \in S : k < i} = {k \in T : k < j}
    PROVE  Rules!Before(S, i) = Rules!Before(T, j)
<1>1. \A k : k \in S /\ k < i <=> k \in T /\ k < j
    OBVIOUS
<1>2. CASE \E k \in S : k < i
  <2>1. PICK k \in S : k < i
    BY <1>2
  <2>2. k \in T /\ k < j
    BY <1>1, <2>1
  <2> DEFINE b == Rules!Before(S, i)
             c == Rules!Before(T, j)
  <2>3. b \in S /\ b < i /\ \A l \in S : l < i => l <= b
    BY <2>1, LastBefore
  <2>4. c \in T /\ c < j /\ \A l \in T : l < j => l <= c
    BY <2>2, LastBefore
  <2> HIDE DEF b, c
  <2>5. b <= c /\ c <= b /\ b \in Nat /\ c \in Nat
    BY <1>1, <2>3, <2>4
  <2>6. b = c
    BY <2>5
  <2> QED
    BY <2>6 DEF b, c
<1>3. CASE ~ \E k \in S : k < i
    BY <1>1, <1>3 DEF Rules!Before
<1> QED
    BY <1>2, <1>3

\* A position that is one of them is the last before the next.
LEMMA BeforeNext ==
    ASSUME NEW S \in SUBSET Nat, NEW i \in S
    PROVE  Rules!Before(S, i + 1) = i
<1> DEFINE b == Rules!Before(S, i + 1)
<1>1. i \in S /\ i + 1 \in Nat /\ i < i + 1
    OBVIOUS
<1>2. b \in S /\ b < i + 1 /\ \A k \in S : k < i + 1 => k <= b
    BY <1>1, LastBefore
<1> HIDE DEF b
<1>3. b = i
    BY <1>1, <1>2
<1> QED
    BY <1>3 DEF b

LEMMA BeforeIsBefore ==
    ASSUME NEW S \in SUBSET Nat, NEW i \in Nat
    PROVE  Rules!Before(S, i) = 0 \/ (Rules!Before(S, i) \in S /\ Rules!Before(S, i) < i)
<1>1. CASE \E k \in S : k < i
    BY <1>1, LastBefore
<1>2. CASE ~ \E k \in S : k < i
    BY <1>2 DEF Rules!Before
<1> QED
    BY <1>1, <1>2

\* What the log holds after one more position.
LEMMA LogGrows ==
    ASSUME log \in Seq(Entry), NEW e \in Entry, log' = Append(log, e)
    PROVE  /\ Len(log) \in Nat /\ Len(log') = Len(log) + 1
           /\ DOMAIN log = 1..Len(log) /\ DOMAIN log' = 1..(Len(log) + 1)
           /\ \A i \in 1..Len(log) : log'[i] = log[i] /\ log[i] \in Entry
           /\ log'[Len(log) + 1] = e
    OBVIOUS

\* The step of a position, with the timestamp it gets.
LEMMA StampIsTime == ASSUME RulesTypes, NEW p \in Rules!Input PROVE Rules!Stamp(p) \in Int
<1>1. p.dt \in Int
    BY DEF Rules!Input
<1>2. CASE log = <<>>
    BY <1>1, <1>2 DEF Rules!Stamp
<1>3. CASE log # <<>>
  <2>1. Len(log) \in DOMAIN log
    BY <1>3 DEF RulesTypes
  <2>2. log[Len(log)] \in Entry
    BY <2>1 DEF RulesTypes
  <2> QED
    BY <1>1, <1>3, <2>1, <2>2 DEF Rules!Ts, Entry, Rules!Stamp
<1> QED
    BY <1>2, <1>3

LEMMA Handled ==
    ASSUME RulesTypes, NEW p \in Inputs, Rules!Process(p)
    PROVE  \E ts \in Int :
              /\ Len(log) + 1 <= MaxPosition
              /\ p \in Rules!Input
              /\ [pos |-> p, ts |-> ts] \in Entry
              /\ log' = Append(log, [pos |-> p, ts |-> ts])
              /\ raised' = raised \cup
                    {[at |-> Len(log) + 1, kind |-> k] : k \in Rules!Speeding(p)
                              \cup Rules!Ignition(p) \cup Rules!Crossing(p)}
              /\ state' = Rules!Judged(p)
              /\ trips' = IF Rules!Arrives(p, ts)
                          THEN trips \cup {Rules!Recorded(p, ts, Len(log) + 1)} ELSE trips
              /\ trip' = Rules!Updated(p, ts)
              /\ silent' = FALSE /\ flagged' = FALSE
<1>1. p \in Rules!Input
    BY RulesAssumption
<1>2. [pos |-> p, ts |-> Rules!Stamp(p)] \in Entry /\ Rules!Stamp(p) \in Int
    BY <1>1, StampIsTime DEF Entry
<1> QED
    BY <1>1, <1>2 DEF Rules!Process

LEMMA StateIsTyped ==
    ASSUME RulesTypes
    PROVE  Rules!st \in Rules!DeviceAlertState
    BY DEF RulesTypes, Rules!TypeOK, Rules!st, Rules!Fresh, Rules!DeviceAlertState

LEMMA JudgedIsTyped ==
    ASSUME RulesTypes, NEW p \in Rules!Input
    PROVE  Rules!Judged(p) \in Rules!DeviceAlertState
<1> PICK st \in Rules!DeviceAlertState : st = Rules!st
    BY StateIsTyped
<1>1. PICK b \in BOOLEAN : b = Rules!Over(p)
    BY DEF Rules!Over
<1>2. Rules!nowInside(p) \in SUBSET Fences
    BY DEF Rules!nowInside, Rules!Input
<1>3. p.ignition \in BOOLEAN \cup {None}
    BY DEF Rules!Input
<1> QED
    BY <1>1, <1>2, <1>3 DEF Rules!Judged, Rules!DeviceAlertState

LEMMA AlertsAreTyped ==
    ASSUME RulesTypes, NEW p \in Rules!Input
    PROVE  Rules!Speeding(p) \cup Rules!Ignition(p) \cup Rules!Crossing(p) \subseteq Rules!Kind
<1>1. Rules!st.insideGeofences \subseteq Fences
    BY StateIsTyped DEF Rules!DeviceAlertState
<1>2. Rules!nowInside(p) \subseteq Fences
    BY DEF Rules!nowInside, Rules!Input
<1>3. Rules!Speeding(p) \subseteq Rules!Kind /\ Rules!Ignition(p) \subseteq Rules!Kind
    BY DEF Rules!Speeding, Rules!Ignition, Rules!Kind
<1>4. Rules!Crossing(p) \subseteq Rules!Kind
    BY <1>1, <1>2 DEF Rules!Crossing, Rules!Kind
<1> QED
    BY <1>3, <1>4

LEMMA ExtendedIs ==
    ASSUME RulesTypes, NEW p \in Rules!Input, NEW ts \in Int, trip # None,
           Len(log) + 1 <= MaxPosition
    PROVE  /\ Rules!StoppedSince(p, ts) \in Int \cup {None}
           /\ Rules!Higher(trip.maxSpeed, p.speed) \in Nat
           /\ Rules!Extended(p, ts)
                 = [mode |-> trip.mode, start |-> trip.start,
                    maxSpeed |-> Rules!Higher(trip.maxSpeed, p.speed),
                    points |-> trip.points + 1,
                    stoppedSince |-> Rules!StoppedSince(p, ts)]
<1>1. trip \in Rules!TripState /\ trip.points <= Len(log) /\ Len(log) \in Nat
    BY DEF RulesTypes, Rules!TypeOK
<1>2. PICK t \in Rules!TripState : t = trip
    BY <1>1
<1>3. PICK s \in Int \cup {None} : s = Rules!StoppedSince(p, ts)
    BY <1>1 DEF Rules!StoppedSince, Rules!TripState
<1>4. PICK m \in Nat : m = Rules!Higher(trip.maxSpeed, p.speed)
    BY <1>1 DEF Rules!Higher, Rules!TripState, Rules!Input
<1>5. PICK k \in 0..MaxPosition : k = trip.points + 1
    BY <1>1, RulesAssumption DEF Rules!TripState
<1>6. Rules!Extended(p, ts) = [t EXCEPT !.maxSpeed = m, !.points = k, !.stoppedSince = s]
    BY <1>2, <1>3, <1>4, <1>5 DEF Rules!Extended
<1>7. [t EXCEPT !.maxSpeed = m, !.points = k, !.stoppedSince = s]
         = [mode |-> t.mode, start |-> t.start, maxSpeed |-> m, points |-> k,
            stoppedSince |-> s]
  <2> USE DEF Rules!TripState
  <2>1. PICK t1 \in Rules!TripState : t1 = [t EXCEPT !.maxSpeed = m]
    OBVIOUS
  <2>2. PICK t2 \in Rules!TripState : t2 = [t1 EXCEPT !.points = k]
    OBVIOUS
  <2>3. PICK t3 \in Rules!TripState : t3 = [t2 EXCEPT !.stoppedSince = s]
    OBVIOUS
  <2>4. t1 = [mode |-> t.mode, start |-> t.start, maxSpeed |-> m,
              points |-> t.points, stoppedSince |-> t.stoppedSince]
    BY <2>1
  <2>5. t2 = [mode |-> t.mode, start |-> t.start, maxSpeed |-> m, points |-> k,
              stoppedSince |-> t.stoppedSince]
    BY <2>2, <2>4
  <2>6. t3 = [mode |-> t.mode, start |-> t.start, maxSpeed |-> m, points |-> k,
              stoppedSince |-> s]
    BY <2>3, <2>5
  <2> HIDE DEF Rules!TripState
  <2> QED
    BY <2>1, <2>2, <2>3, <2>6
<1> QED
    BY <1>2, <1>3, <1>4, <1>5, <1>6, <1>7

LEMMA UpdatedIsTyped ==
    ASSUME RulesTypes, NEW p \in Rules!Input, NEW ts \in Int, Len(log) + 1 <= MaxPosition
    PROVE  /\ Rules!Updated(p, ts) \in Rules!TripState \cup {None}
           /\ Rules!Updated(p, ts) # None => Rules!Updated(p, ts).points <= Len(log) + 1
<1>1. Len(log) \in Nat /\ p.speed \in Nat /\ MaxPosition \in Nat
    BY RulesAssumption DEF RulesTypes, Rules!Input
<1>2. Rules!Still(ts) \in Rules!TripState /\ Rules!Still(ts).points = 0
    BY <1>1 DEF Rules!Still, Rules!TripState
<1>3. Rules!Departed(p, ts) \in Rules!TripState /\ Rules!Departed(p, ts).points = 1
    BY <1>1 DEF Rules!Departed, Rules!TripState
<1>4. ASSUME Rules!Under(p)
      PROVE  Rules!Extended(p, ts) \in Rules!TripState
             /\ Rules!Extended(p, ts).points <= Len(log) + 1
  <2>1. trip # None /\ trip \in Rules!TripState /\ trip.points <= Len(log)
    BY <1>4 DEF Rules!Under, RulesTypes, Rules!TypeOK
  <2>2. trip.points + 1 \in 0..MaxPosition /\ trip.points + 1 <= Len(log) + 1
        /\ trip.mode \in {"idle", "moving"} /\ trip.start \in Int
    BY <1>1, <2>1 DEF Rules!TripState
  <2>3. PICK m \in Nat, s \in Int \cup {None} :
           Rules!Extended(p, ts)
             = [mode |-> trip.mode, start |-> trip.start, maxSpeed |-> m,
                points |-> trip.points + 1, stoppedSince |-> s]
    BY <2>1, ExtendedIs
  <2> QED
    BY <2>2, <2>3 DEF Rules!TripState
<1>5. trip \in Rules!TripState \cup {None} /\ (trip # None => trip.points <= Len(log))
    BY DEF RulesTypes, Rules!TypeOK
<1>6. trip # None => trip.points <= Len(log) + 1
    BY <1>1, <1>5 DEF Rules!TripState
<1> QED
    BY <1>1, <1>2, <1>3, <1>4, <1>5, <1>6 DEF Rules!Updated

\* A trip that is recorded was under way.
LEMMA RecordedIsTyped ==
    ASSUME RulesTypes, NEW p \in Rules!Input, NEW ts \in Int, Len(log) + 1 <= MaxPosition,
           Rules!Arrives(p, ts)
    PROVE  Rules!Recorded(p, ts, Len(log) + 1)
              \in [from : Int, to : Int, points : 1..MaxPosition,
                   maxSpeed : Nat, at : 1..MaxPosition]
<1> USE RulesAssumption
<1>1. Len(log) \in Nat /\ p.speed \in Nat
    BY DEF RulesTypes, Rules!Input
<1>2. trip \in Rules!TripState /\ trip.points <= Len(log)
    BY DEF Rules!Arrives, Rules!Under, RulesTypes, Rules!TypeOK
<1>3. PICK m \in Nat : m = Rules!Higher(trip.maxSpeed, p.speed)
    BY <1>1, <1>2 DEF Rules!Higher, Rules!TripState
<1> QED
    BY SMTT(30), <1>1, <1>2, <1>3 DEF Rules!Recorded, Rules!TripState

LEMMA TypesStay ==
    ASSUME RulesTypes, NEW p \in Inputs, Rules!Process(p)
    PROVE  RulesTypes'
<1>1. PICK ts \in Int :
        /\ Len(log) + 1 <= MaxPosition
        /\ p \in Rules!Input
        /\ [pos |-> p, ts |-> ts] \in Entry
        /\ log' = Append(log, [pos |-> p, ts |-> ts])
        /\ raised' = raised \cup
              {[at |-> Len(log) + 1, kind |-> k] : k \in Rules!Speeding(p)
                        \cup Rules!Ignition(p) \cup Rules!Crossing(p)}
        /\ state' = Rules!Judged(p)
        /\ trips' = IF Rules!Arrives(p, ts)
                    THEN trips \cup {Rules!Recorded(p, ts, Len(log) + 1)} ELSE trips
        /\ trip' = Rules!Updated(p, ts)
        /\ silent' = FALSE /\ flagged' = FALSE
    BY Handled
<1>2. log' \in Seq(Entry) /\ Len(log) \in Nat /\ Len(log') = Len(log) + 1
    BY <1>1 DEF RulesTypes
<1>3. state' \in Rules!DeviceAlertState
    BY <1>1, JudgedIsTyped
<1>4. trip' \in Rules!TripState \cup {None} /\ (trip' # None => trip'.points <= Len(log) + 1)
    BY <1>1, UpdatedIsTyped
<1>5. trips' \subseteq [from : Int, to : Int, points : 1..MaxPosition,
                        maxSpeed : Nat, at : 1..MaxPosition]
    BY <1>1, RecordedIsTyped DEF RulesTypes, Rules!TypeOK
<1>6. raised' \subseteq [at : 1..MaxPosition, kind : Rules!Kind]
  <2> DEFINE K == Rules!Speeding(p) \cup Rules!Ignition(p) \cup Rules!Crossing(p)
  <2>1. K \subseteq Rules!Kind
    BY <1>1, AlertsAreTyped
  <2>2. Len(log) + 1 \in 1..MaxPosition
    BY <1>1, <1>2
  <2> HIDE DEF K
  <2>3. raised' = raised \cup {[at |-> Len(log) + 1, kind |-> k] : k \in K}
    BY <1>1 DEF K
  <2>4. raised \subseteq [at : 1..MaxPosition, kind : Rules!Kind]
    BY DEF RulesTypes, Rules!TypeOK
  <2> QED
    BY <2>1, <2>2, <2>3, <2>4
<1>7. Len(log') \in 0..MaxPosition
    BY <1>1, <1>2, RulesAssumption
<1>8. {silent', flagged'} \subseteq BOOLEAN
    BY <1>1, Zenon
<1> QED
    BY <1>2, <1>3, <1>4, <1>5, <1>6, <1>7, <1>8 DEF RulesTypes, Rules!TypeOK

\* One more position changes nothing of what was before the earlier ones.
LEMMA EarlierKept ==
    ASSUME NEW n \in Nat, NEW S \in SUBSET (1..n), NEW T \in SUBSET (1..(n + 1)),
           \A j \in 1..n : j \in S <=> j \in T
    PROVE  /\ \A i \in 1..(n + 1) : /\ Rules!Before(T, i) = Rules!Before(S, i)
                                    /\ Rules!Before(S, i) \in S \cup {0}
                                    /\ Rules!Before(S, i) < i
           /\ Rules!Before(T, n + 1 + 1)
                 = IF n + 1 \in T THEN n + 1 ELSE Rules!Before(S, n + 1)
<1>1. S \in SUBSET Nat /\ T \in SUBSET Nat
    OBVIOUS
<1>2. ASSUME NEW i \in 1..(n + 1) PROVE Rules!Before(T, i) = Rules!Before(S, i)
  <2>1. i \in Nat /\ i <= n + 1
    OBVIOUS
  <2>3. ASSUME NEW k \in 1..(n + 1), k < i PROVE k \in T <=> k \in S
    BY <2>1, <2>3
  <2>4. \A k : k \in T /\ k < i <=> k \in S /\ k < i
    BY <2>1, <2>3
  <2>2. {k \in T : k < i} = {k \in S : k < i}
    BY <2>4, Zenon
  <2> QED
    BY <1>1, <2>1, <2>2, SameBefore
<1>3. ASSUME NEW i \in 1..(n + 1)
      PROVE  Rules!Before(S, i) \in S \cup {0} /\ Rules!Before(S, i) < i
    BY <1>1, BeforeIsBefore
<1>4. n + 1 \in T => Rules!Before(T, n + 1 + 1) = n + 1
    BY <1>1, BeforeNext
<1>5. ASSUME n + 1 \notin T PROVE Rules!Before(T, n + 1 + 1) = Rules!Before(S, n + 1)
  <2>1. PICK i \in Nat, j \in Nat : i = n + 1 + 1 /\ j = n + 1
    OBVIOUS
  <2>2. ASSUME NEW k \in T PROVE k \in 1..n /\ k < i
    BY <1>5, <2>1
  <2>3. ASSUME NEW k \in S PROVE k \in 1..n /\ k < j
    BY <2>1
  <2>4. \A k : k \in T /\ k < i <=> k \in S /\ k < j
    BY <2>2, <2>3
  <2>5. {k \in T : k < i} = {k \in S : k < j}
    BY <2>4, Zenon
  <2>6. Rules!Before(T, i) = Rules!Before(S, j)
    BY <1>1, <2>5, SameBefore
  <2> QED
    BY <2>1, <2>6
<1> QED
    BY <1>2, <1>3, <1>4, <1>5

\* The alerts of a position are the differences between it and what the engine
\* has kept.
LEMMA AlertsOf ==
    ASSUME RulesTypes, NEW p \in Rules!Input
    PROVE  LET K == Rules!Speeding(p) \cup Rules!Ignition(p) \cup Rules!Crossing(p)
               in == Rules!st.insideGeofences
           IN
           /\ <<"overspeed", None>> \in K
                 <=> Rules!Over(p) /\ ~(Rules!st.overspeedActive = TRUE)
           /\ <<"ignition_on", None>> \in K
                 <=> p.ignitions /\ p.ignition = TRUE /\ Rules!st.lastIgnition = FALSE
           /\ <<"ignition_off", None>> \in K
                 <=> p.ignitions /\ p.ignition = FALSE /\ Rules!st.lastIgnition = TRUE
           /\ \A f \in Fences :
                 /\ <<"geofence_enter", f>> \in K
                       <=> p.fences # {} /\ f \in Rules!nowInside(p) \ in
                 /\ <<"geofence_exit", f>> \in K
                       <=> p.fences # {} /\ f \in in \ Rules!nowInside(p)
<1>1. PICK st \in Rules!DeviceAlertState : st = Rules!st
    BY StateIsTyped
<1>2. PICK on \in BOOLEAN : on = st.overspeedActive
    BY DEF Rules!DeviceAlertState
<1>3. PICK inside \in SUBSET Fences : inside = st.insideGeofences
    BY DEF Rules!DeviceAlertState
<1>4. PICK last \in BOOLEAN \cup {None} : last = st.lastIgnition
    BY DEF Rules!DeviceAlertState
<1>5. PICK now \in SUBSET Fences : now = Rules!nowInside(p)
    BY DEF Rules!nowInside, Rules!Input
<1>6. PICK ig \in BOOLEAN \cup {None} : ig = p.ignition
    BY DEF Rules!Input
<1>7. None # TRUE /\ None # FALSE
    BY RulesAssumption, Zenon
<1>8. Rules!Speeding(p) = IF Rules!Over(p) /\ ~on THEN {<<"overspeed", None>>} ELSE {}
    BY <1>1, <1>2 DEF Rules!Speeding
<1>9. Rules!Crossing(p) = IF p.fences = {} THEN {}
                          ELSE ({"geofence_enter"} \X (now \ inside))
                                \cup ({"geofence_exit"} \X (inside \ now))
    BY <1>1, <1>3, <1>5 DEF Rules!Crossing
<1>10. /\ Rules!Ignition(p) \subseteq {<<"ignition_on", None>>, <<"ignition_off", None>>}
       /\ <<"ignition_on", None>> \in Rules!Ignition(p)
             <=> p.ignitions /\ ig = TRUE /\ last = FALSE
       /\ <<"ignition_off", None>> \in Rules!Ignition(p)
             <=> p.ignitions /\ ig = FALSE /\ last = TRUE
  <2>1. Rules!Ignition(p) =
           IF p.ignitions /\ ig # None /\ last # None /\ ig # last
           THEN {<<IF ig THEN "ignition_on" ELSE "ignition_off", None>>} ELSE {}
    BY <1>1, <1>4, <1>6 DEF Rules!Ignition
  <2>2. PICK judged \in BOOLEAN : judged = p.ignitions
    BY DEF Rules!Input
  <2>3. CASE judged = TRUE /\ ig = TRUE /\ last = FALSE
    <3>1. Rules!Ignition(p) = {<<"ignition_on", None>>}
      BY <1>7, <2>1, <2>2, <2>3
    <3> QED
      BY <2>2, <2>3, <3>1
  <2>4. CASE judged = TRUE /\ ig = FALSE /\ last = TRUE
    <3>1. Rules!Ignition(p) = {<<"ignition_off", None>>}
      BY <1>7, <2>1, <2>2, <2>4
    <3> QED
      BY <2>2, <2>4, <3>1
  <2>5. CASE ~(judged = TRUE /\ ig = TRUE /\ last = FALSE)
             /\ ~(judged = TRUE /\ ig = FALSE /\ last = TRUE)
    <3>1. Rules!Ignition(p) = {}
      BY <1>7, <2>1, <2>2, <2>5
    <3> QED
      BY <2>2, <2>5, <3>1
  <2> QED
    BY <2>3, <2>4, <2>5
<1> DEFINE K == Rules!Speeding(p) \cup Rules!Ignition(p) \cup Rules!Crossing(p)
<1>11. <<"overspeed", None>> \in K <=> Rules!Over(p) /\ ~on
    BY <1>8, <1>9, <1>10
<1>12. /\ <<"ignition_on", None>> \in K <=> <<"ignition_on", None>> \in Rules!Ignition(p)
       /\ <<"ignition_off", None>> \in K <=> <<"ignition_off", None>> \in Rules!Ignition(p)
    BY <1>8, <1>9
<1>13. ASSUME NEW f \in Fences
       PROVE  /\ <<"geofence_enter", f>> \in K <=> p.fences # {} /\ f \in now \ inside
              /\ <<"geofence_exit", f>> \in K <=> p.fences # {} /\ f \in inside \ now
    BY <1>8, <1>9, <1>10
<1> HIDE DEF K
<1> QED
    BY <1>1, <1>2, <1>3, <1>4, <1>5, <1>6, <1>10, <1>11, <1>12, <1>13 DEF K

\* What AlertsAreEdges says of the position i, when the last one before it judged by
\* a limit is s, by its ignition g, and within is where it was by the fences.
EdgeAt(i, s, g, within) ==
    /\ Rules!At(i, "overspeed", None)
          <=> i \in Rules!Limited /\ Rules!Over(log[i].pos) /\ ~Rules!WasOver(s)
    /\ Rules!At(i, "ignition_on", None)
          <=> i \in Rules!Ignited /\ log[i].pos.ignition = TRUE
              /\ g # 0 /\ log[g].pos.ignition = FALSE
    /\ Rules!At(i, "ignition_off", None)
          <=> i \in Rules!Ignited /\ log[i].pos.ignition = FALSE
              /\ g # 0 /\ log[g].pos.ignition = TRUE
    /\ \A f \in Fences :
          /\ Rules!At(i, "geofence_enter", f)
                <=> i \in Rules!Fenced /\ f \in Rules!nowInside(log[i].pos) \ within
          /\ Rules!At(i, "geofence_exit", f)
                <=> i \in Rules!Fenced /\ f \in within \ Rules!nowInside(log[i].pos)

LEMMA EdgesAre ==
    Rules!AlertsAreEdges <=>
       \A i \in DOMAIN log : EdgeAt(i, Rules!Before(Rules!Limited, i),
                                    Rules!Before(Rules!Ignited, i),
                                    Rules!WasInside(Rules!Before(Rules!Fenced, i)))
    BY DEF Rules!AlertsAreEdges, EdgeAt, Rules!Pos

\* The positions judged by each rule, after one more.
LEMMA JudgedPositions ==
    ASSUME log \in Seq(Entry), NEW e \in Entry, log' = Append(log, e)
    PROVE  /\ Rules!Limited \in SUBSET (1..Len(log))
           /\ Rules!Ignited \in SUBSET (1..Len(log))
           /\ Rules!Fenced \in SUBSET (1..Len(log))
           /\ Rules!Limited' \in SUBSET (1..(Len(log) + 1))
           /\ Rules!Ignited' \in SUBSET (1..(Len(log) + 1))
           /\ Rules!Fenced' \in SUBSET (1..(Len(log) + 1))
           /\ \A j \in 1..Len(log) : /\ j \in Rules!Limited <=> j \in Rules!Limited'
                                     /\ j \in Rules!Ignited <=> j \in Rules!Ignited'
                                     /\ j \in Rules!Fenced <=> j \in Rules!Fenced'
           /\ Len(log) + 1 \in Rules!Limited' <=> e.pos.limit # None
           /\ Len(log) + 1 \in Rules!Ignited' <=> e.pos.ignitions /\ e.pos.ignition # None
           /\ Len(log) + 1 \in Rules!Fenced' <=> e.pos.fences # {}
<1>1. /\ Len(log) \in Nat /\ Len(log) + 1 \in 1..(Len(log) + 1)
      /\ DOMAIN log = 1..Len(log) /\ DOMAIN log' = 1..(Len(log) + 1)
      /\ \A i \in 1..Len(log) : log'[i] = log[i] /\ i \in 1..(Len(log) + 1)
      /\ log'[Len(log) + 1] = e
    BY LogGrows
<1>2. /\ Rules!Limited = {i \in 1..Len(log) : log[i].pos.limit # None}
      /\ Rules!Ignited = {i \in 1..Len(log) : log[i].pos.ignitions /\ log[i].pos.ignition # None}
      /\ Rules!Fenced = {i \in 1..Len(log) : log[i].pos.fences # {}}
    BY <1>1 DEF Rules!Limited, Rules!Ignited, Rules!Fenced, Rules!Pos
<1>3. /\ Rules!Limited' = {i \in 1..(Len(log) + 1) : log'[i].pos.limit # None}
      /\ Rules!Ignited' = {i \in 1..(Len(log) + 1) :
                              log'[i].pos.ignitions /\ log'[i].pos.ignition # None}
      /\ Rules!Fenced' = {i \in 1..(Len(log) + 1) : log'[i].pos.fences # {}}
    BY <1>1 DEF Rules!Limited, Rules!Ignited, Rules!Fenced, Rules!Pos
<1> QED
    BY <1>1, <1>2, <1>3, Zenon

\* An alert marks an edge when its position is handled, and for good.
LEMMA EdgesKept ==
    ASSUME RulesTypes, EdgesInv, NEW p \in Inputs, Rules!Process(p)
    PROVE  EdgesInv'
<1>1. PICK ts \in Int :
        /\ p \in Rules!Input
        /\ [pos |-> p, ts |-> ts] \in Entry
        /\ log' = Append(log, [pos |-> p, ts |-> ts])
        /\ raised' = raised \cup
              {[at |-> Len(log) + 1, kind |-> k] : k \in Rules!Speeding(p)
                        \cup Rules!Ignition(p) \cup Rules!Crossing(p)}
        /\ state' = Rules!Judged(p)
    BY Handled
<1>2. PICK n \in Nat : n = Len(log)
    BY DEF RulesTypes
<1>3. /\ Len(log') = n + 1 /\ DOMAIN log = 1..n /\ DOMAIN log' = 1..(n + 1)
      /\ \A i \in 1..n : log'[i] = log[i] /\ log[i] \in Entry
      /\ log'[n + 1].pos = p
    BY <1>1, <1>2, LogGrows DEF RulesTypes
<1>4. /\ Rules!Limited \in SUBSET (1..n) /\ Rules!Limited' \in SUBSET (1..(n + 1))
      /\ Rules!Ignited \in SUBSET (1..n) /\ Rules!Ignited' \in SUBSET (1..(n + 1))
      /\ Rules!Fenced \in SUBSET (1..n) /\ Rules!Fenced' \in SUBSET (1..(n + 1))
      /\ \A j \in 1..n : /\ j \in Rules!Limited <=> j \in Rules!Limited'
                         /\ j \in Rules!Ignited <=> j \in Rules!Ignited'
                         /\ j \in Rules!Fenced <=> j \in Rules!Fenced'
      /\ n + 1 \in Rules!Limited' <=> p.limit # None
      /\ n + 1 \in Rules!Ignited' <=> p.ignitions /\ p.ignition # None
      /\ n + 1 \in Rules!Fenced' <=> p.fences # {}
  <2>1. PICK e \in Entry : e = [pos |-> p, ts |-> ts]
    BY <1>1
  <2>2. e.pos = p /\ log' = Append(log, e) /\ log \in Seq(Entry)
    BY <1>1, <2>1 DEF RulesTypes
  <2> QED
    BY <1>2, <2>2, JudgedPositions
<1> DEFINE S(i) == Rules!Before(Rules!Limited, i)
           G(i) == Rules!Before(Rules!Ignited, i)
           F(i) == Rules!Before(Rules!Fenced, i)
<1>5. /\ \A i \in 1..(n + 1) : /\ Rules!Before(Rules!Limited', i) = S(i)
                               /\ S(i) \in Rules!Limited \cup {0} /\ S(i) < i
      /\ Rules!Before(Rules!Limited', n + 1 + 1) = IF p.limit # None THEN n + 1 ELSE S(n + 1)
    BY <1>4, EarlierKept
<1>6. /\ \A i \in 1..(n + 1) : /\ Rules!Before(Rules!Ignited', i) = G(i)
                               /\ G(i) \in Rules!Ignited \cup {0} /\ G(i) < i
      /\ Rules!Before(Rules!Ignited', n + 1 + 1)
            = IF p.ignitions /\ p.ignition # None THEN n + 1 ELSE G(n + 1)
    BY <1>4, EarlierKept
<1>7. /\ \A i \in 1..(n + 1) : /\ Rules!Before(Rules!Fenced', i) = F(i)
                               /\ F(i) \in Rules!Fenced \cup {0} /\ F(i) < i
      /\ Rules!Before(Rules!Fenced', n + 1 + 1) = IF p.fences # {} THEN n + 1 ELSE F(n + 1)
    BY <1>4, EarlierKept
<1> HIDE DEF S, G, F
<1>8. \A i \in 1..(n + 1) : S(i) \in 0..n /\ G(i) \in 0..n /\ F(i) \in 0..n
  <2> SUFFICES ASSUME NEW i \in 1..(n + 1)
               PROVE  S(i) \in 0..n /\ G(i) \in 0..n /\ F(i) \in 0..n
    OBVIOUS
  <2>1. /\ S(i) \in Rules!Limited \cup {0}
        /\ G(i) \in Rules!Ignited \cup {0}
        /\ F(i) \in Rules!Fenced \cup {0}
    BY <1>5, <1>6, <1>7
  <2>2. \A j \in Rules!Limited \cup Rules!Ignited \cup Rules!Fenced \cup {0} : j \in 0..n
    BY <1>4
  <2> QED
    BY <2>1, <2>2, Zenon
<1>9. \A j \in 0..n : /\ Rules!WasOver(j)' <=> Rules!WasOver(j)
                      /\ Rules!WasInside(j)' = Rules!WasInside(j)
    BY <1>3 DEF Rules!WasOver, Rules!WasInside, Rules!Pos
<1>10. /\ Rules!WasOver(n + 1)' <=> Rules!Over(p)
       /\ Rules!WasInside(n + 1)' = Rules!nowInside(p)
  <2>1. n + 1 # 0
    OBVIOUS
  <2> QED
    BY <1>3, <2>1 DEF Rules!WasOver, Rules!WasInside, Rules!Pos, Rules!Over, Rules!nowInside
<1>11. /\ Rules!st.overspeedActive = TRUE <=> Rules!WasOver(S(n + 1))
       /\ Rules!st.lastIgnition = IF G(n + 1) = 0 THEN None ELSE log[G(n + 1)].pos.ignition
       /\ Rules!st.insideGeofences = Rules!WasInside(F(n + 1))
    BY <1>2 DEF EdgesInv, S, G, F
<1>12. Rules!st' = Rules!Judged(p)
  <2>1. Rules!Judged(p) # None
    BY <1>1, JudgedIsTyped, RulesAssumption
  <2> QED
    BY <1>1, <2>1 DEF Rules!st
\* What is kept after the position.
<1>13. Rules!st'.overspeedActive = TRUE
          <=> Rules!WasOver(Rules!Before(Rules!Limited, Len(log) + 1))'
  <2>1. Rules!st'.overspeedActive
           = IF p.limit # None THEN Rules!Over(p) ELSE Rules!st.overspeedActive
    BY <1>12 DEF Rules!Judged
  <2>2. CASE p.limit # None
    BY <1>3, <1>5, <1>10, <2>1, <2>2
  <2>3. CASE p.limit = None
    BY <1>3, <1>5, <1>8, <1>9, <1>11, <2>1, <2>3
  <2> QED
    BY <2>2, <2>3
<1>14. Rules!st'.lastIgnition = LET g == Rules!Before(Rules!Ignited, Len(log) + 1)'
                                IN  IF g = 0 THEN None ELSE log'[g].pos.ignition
  <2>1. Rules!st'.lastIgnition = IF p.ignitions /\ p.ignition # None THEN p.ignition
                                 ELSE Rules!st.lastIgnition
    BY <1>12 DEF Rules!Judged
  <2>2. CASE p.ignitions /\ p.ignition # None
    BY <1>3, <1>6, <2>1, <2>2
  <2>3. CASE ~(p.ignitions /\ p.ignition # None)
    BY SMTT(30), <1>3, <1>6, <1>8, <1>11, <2>1, <2>3
  <2> QED
    BY <2>2, <2>3
<1>15. Rules!st'.insideGeofences
          = Rules!WasInside(Rules!Before(Rules!Fenced, Len(log) + 1))'
  <2>1. Rules!st'.insideGeofences = IF p.fences # {} THEN Rules!nowInside(p)
                                    ELSE Rules!st.insideGeofences
    BY <1>12 DEF Rules!Judged
  <2>2. CASE p.fences # {}
    BY <1>3, <1>7, <1>10, <2>1, <2>2
  <2>3. CASE p.fences = {}
    BY <1>3, <1>7, <1>8, <1>9, <1>11, <2>1, <2>3
  <2> QED
    BY <2>2, <2>3
\* The alerts.
<1>16. \A r \in raised' : r.at \in 1..Len(log')
  <2>1. \A r \in raised : r.at \in 1..n
    BY <1>2 DEF EdgesInv
  <2> QED
    BY <1>1, <1>2, <1>3, <2>1
<1> DEFINE K == Rules!Speeding(p) \cup Rules!Ignition(p) \cup Rules!Crossing(p)
<1>17. \A k, f : Rules!At(n + 1, k, f)' <=> <<k, f>> \in K
  <2>1. \A r \in raised : r.at # n + 1
    BY <1>2 DEF EdgesInv
  <2> QED
    BY <1>1, <1>2, <2>1 DEF Rules!At
<1>18. \A i \in 1..n : \A k, f : Rules!At(i, k, f)' <=> Rules!At(i, k, f)
  <2>1. ASSUME NEW r, r.at # n + 1 PROVE r \in raised' <=> r \in raised
    BY <1>1, <1>2, <2>1
  <2>2. \A i \in 1..n : \A k, f : [at |-> i, kind |-> <<k, f>>].at # n + 1
    OBVIOUS
  <2> QED
    BY <2>1, <2>2 DEF Rules!At
<1> HIDE DEF K
<1>19. ASSUME NEW i \in 1..n
       PROVE  EdgeAt(i, Rules!Before(Rules!Limited, i), Rules!Before(Rules!Ignited, i),
                     Rules!WasInside(Rules!Before(Rules!Fenced, i)))'
  <2>1. i \in 1..(n + 1) /\ i # n + 1 /\ log'[i] = log[i]
    BY <1>3
  <2>2. PICK s \in 0..n, g \in 0..n, f \in 0..n : s = S(i) /\ g = G(i) /\ f = F(i)
    BY <1>8, <2>1
  <2>3. EdgeAt(i, s, g, Rules!WasInside(f))
    BY <1>3, <2>2, EdgesAre DEF EdgesInv, S, G, F
  <2>4. /\ i \in Rules!Limited' <=> i \in Rules!Limited
        /\ i \in Rules!Ignited' <=> i \in Rules!Ignited
        /\ i \in Rules!Fenced' <=> i \in Rules!Fenced
        /\ Rules!WasOver(s)' <=> Rules!WasOver(s)
        /\ Rules!WasInside(f)' = Rules!WasInside(f)
        /\ g # 0 => log'[g] = log[g]
        /\ \A k, h : Rules!At(i, k, h)' <=> Rules!At(i, k, h)
    BY <1>3, <1>4, <1>9, <1>18
  <2>5. EdgeAt(i, s, g, Rules!WasInside(f))'
    BY <2>1, <2>3, <2>4 DEF EdgeAt, Rules!Over, Rules!nowInside
  <2> QED
    BY <1>5, <1>6, <1>7, <2>1, <2>2, <2>5
<1>20. EdgeAt(n + 1, Rules!Before(Rules!Limited, n + 1), Rules!Before(Rules!Ignited, n + 1),
              Rules!WasInside(Rules!Before(Rules!Fenced, n + 1)))'
  <2>1. PICK s \in 0..n, g \in 0..n, f \in 0..n :
           s = S(n + 1) /\ g = G(n + 1) /\ f = F(n + 1)
    BY <1>8
  <2>2. /\ Rules!st.overspeedActive = TRUE <=> Rules!WasOver(s)'
        /\ Rules!st.lastIgnition = IF g = 0 THEN None ELSE log'[g].pos.ignition
        /\ Rules!st.insideGeofences = Rules!WasInside(f)'
    BY <1>3, <1>9, <1>11, <2>1
  <2>3. PICK in : in = Rules!st.insideGeofences
    OBVIOUS
  <2>4. /\ <<"overspeed", None>> \in K
              <=> Rules!Over(p) /\ ~(Rules!st.overspeedActive = TRUE)
        /\ <<"ignition_on", None>> \in K
              <=> p.ignitions /\ p.ignition = TRUE /\ Rules!st.lastIgnition = FALSE
        /\ <<"ignition_off", None>> \in K
              <=> p.ignitions /\ p.ignition = FALSE /\ Rules!st.lastIgnition = TRUE
        /\ \A h \in Fences :
              /\ <<"geofence_enter", h>> \in K
                    <=> p.fences # {} /\ h \in Rules!nowInside(p) \ in
              /\ <<"geofence_exit", h>> \in K
                    <=> p.fences # {} /\ h \in in \ Rules!nowInside(p)
    BY <1>1, <2>3, AlertsOf DEF K
  <2>5. Rules!Over(p) => p.limit # None
    BY DEF Rules!Over
  <2>6. None # TRUE /\ None # FALSE
    BY RulesAssumption, Zenon
  <2>7. /\ Rules!At(n + 1, "overspeed", None)'
              <=> n + 1 \in Rules!Limited' /\ Rules!Over(p) /\ ~Rules!WasOver(s)'
        /\ Rules!At(n + 1, "ignition_on", None)'
              <=> n + 1 \in Rules!Ignited' /\ p.ignition = TRUE
                  /\ g # 0 /\ log'[g].pos.ignition = FALSE
        /\ Rules!At(n + 1, "ignition_off", None)'
              <=> n + 1 \in Rules!Ignited' /\ p.ignition = FALSE
                  /\ g # 0 /\ log'[g].pos.ignition = TRUE
    BY <1>4, <1>17, <2>2, <2>4, <2>5, <2>6, Zenon
  <2>8. \A h \in Fences :
           /\ Rules!At(n + 1, "geofence_enter", h)'
                 <=> n + 1 \in Rules!Fenced' /\ h \in Rules!nowInside(p) \ Rules!WasInside(f)'
           /\ Rules!At(n + 1, "geofence_exit", h)'
                 <=> n + 1 \in Rules!Fenced' /\ h \in Rules!WasInside(f)' \ Rules!nowInside(p)
    BY <1>4, <1>17, <2>2, <2>3, <2>4, Zenon
  <2>9. EdgeAt(n + 1, s, g, Rules!WasInside(f))'
    BY <1>3, <2>7, <2>8 DEF EdgeAt, Rules!Over, Rules!nowInside
  <2> QED
    BY <1>5, <1>6, <1>7, <2>1, <2>9
<1>21. Rules!AlertsAreEdges'
  <2>1. \A i \in DOMAIN log' :
           EdgeAt(i, Rules!Before(Rules!Limited, i), Rules!Before(Rules!Ignited, i),
                  Rules!WasInside(Rules!Before(Rules!Fenced, i)))'
    BY <1>3, <1>19, <1>20
  <2> QED
    BY <2>1 DEF Rules!AlertsAreEdges, EdgeAt, Rules!Pos
<1> QED
    BY <1>13, <1>14, <1>15, <1>16, <1>21 DEF EdgesInv

LEMMA RulesInit == Rules!Init => RulesTypes /\ EdgesInv
<1> SUFFICES ASSUME Rules!Init PROVE RulesTypes /\ EdgesInv
    OBVIOUS
<1> USE DEF Rules!Init
<1>1. MaxPosition \in Nat /\ DOMAIN log = {} /\ Len(log) = 0
    BY RulesAssumption
<1>2. RulesTypes
  <2>1. {silent, flagged} \subseteq BOOLEAN
    BY Zenon
  <2> QED
    BY <1>1, <2>1 DEF RulesTypes, Rules!TypeOK
<1>3. Rules!Limited = {} /\ Rules!Ignited = {} /\ Rules!Fenced = {}
    BY <1>1 DEF Rules!Limited, Rules!Ignited, Rules!Fenced
<1>4. Rules!Before({}, Len(log) + 1) = 0
    BY DEF Rules!Before
<1>5. Rules!st = Rules!Fresh
    BY DEF Rules!st
<1>6. Rules!AlertsAreEdges
    BY <1>1 DEF Rules!AlertsAreEdges
<1> QED
    BY <1>2, <1>3, <1>4, <1>5, <1>6
    DEF EdgesInv, Rules!Fresh, Rules!WasOver, Rules!WasInside

\* What the sweep writes down is none of what the other rules keep.
LEMMA QuietKeeps ==
    ASSUME RulesTypes, EdgesInv, Rules!Silence \/ Rules!SweepOffline \/ UNCHANGED Rules!vars
    PROVE  /\ RulesTypes' /\ EdgesInv'
           /\ UNCHANGED <<trip, log, raised, trips>>
<1>1. UNCHANGED <<trip, log, raised, trips>>
    BY DEF Rules!Silence, Rules!SweepOffline, Rules!vars
<1>2. state' = state \/ (state # None /\ state' = [state EXCEPT !.offlineAlerted = TRUE])
    BY DEF Rules!Silence, Rules!SweepOffline, Rules!vars, Rules!Overdue
<1>3. /\ state' \in Rules!DeviceAlertState \cup {None}
      /\ Rules!st'.overspeedActive = Rules!st.overspeedActive
      /\ Rules!st'.lastIgnition = Rules!st.lastIgnition
      /\ Rules!st'.insideGeofences = Rules!st.insideGeofences
  <2>1. state \in Rules!DeviceAlertState \cup {None}
    BY DEF RulesTypes, Rules!TypeOK
  <2>2. CASE state' = state
    BY <2>1, <2>2 DEF Rules!st
  <2>3. CASE state # None /\ state' = [state EXCEPT !.offlineAlerted = TRUE]
    <3>1. PICK old \in Rules!DeviceAlertState : old = state
      BY <2>1, <2>3
    <3>2. PICK new \in Rules!DeviceAlertState : new = [old EXCEPT !.offlineAlerted = TRUE]
      BY DEF Rules!DeviceAlertState
    <3>3. /\ new.overspeedActive = old.overspeedActive
          /\ new.lastIgnition = old.lastIgnition
          /\ new.insideGeofences = old.insideGeofences
      BY <3>2 DEF Rules!DeviceAlertState
    <3>4. state' = new /\ new # None
      BY <2>3, <3>1, <3>2, RulesAssumption
    <3> QED
      BY <2>3, <3>1, <3>3, <3>4 DEF Rules!st
  <2> QED
    BY <1>2, <2>2, <2>3
<1>4. {silent', flagged'} \subseteq BOOLEAN
  <2>1. silent \in BOOLEAN /\ flagged \in BOOLEAN
    BY DEF RulesTypes, Rules!TypeOK
  <2>2. silent' \in {silent, TRUE} /\ flagged' \in {flagged, TRUE}
    BY DEF Rules!Silence, Rules!SweepOffline, Rules!vars
  <2> QED
    BY <2>1, <2>2, Zenon
<1>5. RulesTypes'
    BY <1>1, <1>3, <1>4 DEF RulesTypes, Rules!TypeOK
<1>6. /\ Rules!Limited' = Rules!Limited /\ Rules!Ignited' = Rules!Ignited
      /\ Rules!Fenced' = Rules!Fenced
    BY <1>1 DEF Rules!Limited, Rules!Ignited, Rules!Fenced, Rules!Pos
<1>7. Rules!AlertsAreEdges'
    BY SMTT(30), <1>1, <1>6 DEF EdgesInv, Rules!AlertsAreEdges, Rules!At, Rules!Pos,
       Rules!WasOver, Rules!WasInside
<1>8. EdgesInv'
    BY <1>1, <1>3, <1>6, <1>7 DEF EdgesInv, Rules!Pos, Rules!WasOver, Rules!WasInside
<1> QED
    BY <1>1, <1>5, <1>8

LEMMA EdgesStep ==
    RulesTypes /\ EdgesInv /\ [Rules!Next]_(Rules!vars) => RulesTypes' /\ EdgesInv'
    BY TypesStay, EdgesKept, QuietKeeps DEF Rules!Next

\* alerts.ts: an alert is raised where a position differs from the last one judged
\* by the same rule, and nowhere else, however long the rule was off in between.
THEOREM AlertsMarkEdges == Rules!Spec => []AlertsAreEdges
<1>1. RulesTypes /\ EdgesInv => AlertsAreEdges
    BY DEF EdgesInv, AlertsAreEdges
<1> QED
    BY <1>1, RulesInit, EdgesStep, PTL DEF Rules!Spec

\* What the trip detector holds of a trip under way, r, is what the positions from s
\* to n say; the stop that may end the trip has not lasted long enough yet, and is
\* timed from its first position.
OpenTrip(r, s, n) ==
    /\ s \in 1..n /\ r.points = n - s + 1
    /\ r.start = Rules!Ts(s) /\ Rules!Moving(Rules!Pos(s))
    /\ \A i \in s..n : Rules!Pos(i).speed <= r.maxSpeed
    /\ \E i \in s..n : Rules!Pos(i).speed = r.maxSpeed
    /\ \A m \in (s + 1)..n : \A k \in (s + 1)..(m - 1) : ~Rules!Stop(k, m)
    /\ r.stoppedSince = None => n = s \/ ~Rules!Stopped(Rules!Pos(n))
    /\ r.stoppedSince # None => \E k \in (s + 1)..n :
          /\ r.stoppedSince = Rules!Ts(k)
          /\ \A m \in k..n : Rules!Stopped(Rules!Pos(m))
          /\ k = s + 1 \/ ~Rules!Stopped(Rules!Pos(k - 1))

\* What TripsAreJourneys says of one trip.
TripOfLog(t) ==
    /\ Rules!Start(t) \in 1..t.at
    /\ Rules!Journey(Rules!Start(t), t.at)
    /\ t.from = Rules!Ts(Rules!Start(t)) /\ t.to = Rules!Ts(t.at)
    /\ \A i \in Rules!Start(t)..t.at : Rules!Pos(i).speed <= t.maxSpeed
    /\ \E i \in Rules!Start(t)..t.at : Rules!Pos(i).speed = t.maxSpeed

Covered(i) == \E t \in trips : i \in Rules!Start(t)..t.at

\* The trips recorded lie before the one under way, and the vehicle did not move
\* outside of them.
OpenFrom(s) ==
    /\ \A t \in trips : t.at < s
    /\ \A i \in 1..(s - 1) : Rules!Moving(Rules!Pos(i)) => Covered(i)
    /\ IF trip # None /\ trip.mode = "moving"
       THEN OpenTrip(trip, s, Len(log)) ELSE s = Len(log) + 1

TripsInv ==
    Rules!Ordered =>
        /\ \A t \in trips : TripOfLog(t)
        /\ \A t, u \in trips : t # u => t.at < Rules!Start(u) \/ u.at < Rules!Start(t)
        /\ \E s \in 1..(Len(log) + 1) : OpenFrom(s)

\* A journey that no recorded trip covers would be part of the trip under way, which
\* has no stop that ends it.
LEMMA NoneIsMissing ==
    ASSUME RulesTypes, TripsInv PROVE Rules!TripsAreJourneys
<1> SUFFICES ASSUME Rules!Ordered PROVE Rules!TripsAreJourneys
    BY DEF Rules!TripsAreJourneys
<1>1. PICK s \in 1..(Len(log) + 1) : OpenFrom(s)
    BY DEF TripsInv
<1>2. PICK n \in Nat : n = Len(log) /\ DOMAIN log = 1..n
    BY DEF RulesTypes
<1>3. ASSUME NEW i \in 1..n, NEW j \in 1..n, Rules!Journey(i, j) PROVE Covered(i)
  <2>1. Rules!Moving(Rules!Pos(i))
    BY <1>3 DEF Rules!Journey
  <2>2. PICK k \in (i + 1)..(j - 1) : Rules!Stop(k, j)
    BY <1>3 DEF Rules!Journey
  <2>3. i < s
    <3>1. SUFFICES ASSUME s <= i PROVE FALSE
      BY <1>1
    <3>2. trip # None /\ trip.mode = "moving"
      BY <1>1, <1>2, <3>1 DEF OpenFrom
    <3>3. \A m \in (s + 1)..n : \A l \in (s + 1)..(m - 1) : ~Rules!Stop(l, m)
      BY <1>1, <1>2, <3>2 DEF OpenFrom, OpenTrip
    <3>4. j \in (s + 1)..n /\ k \in (s + 1)..(j - 1)
      BY <1>1, <2>2, <3>1
    <3> QED
      BY <2>2, <3>3, <3>4
  <2> QED
    BY <1>1, <2>1, <2>3 DEF OpenFrom
<1>4. \A t \in trips : TripOfLog(t)
    BY DEF TripsInv
<1>5. \A t, u \in trips : t # u => t.at < Rules!Start(u) \/ u.at < Rules!Start(t)
    BY DEF TripsInv
<1> QED
    BY <1>2, <1>3, <1>4, <1>5 DEF Rules!TripsAreJourneys, TripOfLog, Covered

\* What is said of earlier positions stays true.
LEMMA PastStays ==
    ASSUME log \in Seq(Entry), NEW e \in Entry, log' = Append(log, e),
           NEW n \in Nat, n = Len(log)
    PROVE  /\ Len(log') = n + 1
           /\ \A i \in 1..n : /\ Rules!Pos(i)' = Rules!Pos(i) /\ Rules!Ts(i)' = Rules!Ts(i)
                              /\ Rules!Pos(i) \in Rules!Input /\ Rules!Ts(i) \in Int
           /\ Rules!Pos(n + 1)' = e.pos /\ Rules!Ts(n + 1)' = e.ts
           /\ \A k, j \in 1..n : Rules!Stop(k, j)' <=> Rules!Stop(k, j)
           /\ \A i, j \in 1..n : Rules!Journey(i, j) => Rules!Journey(i, j)'
           /\ \A t : Rules!Start(t)' = Rules!Start(t)
           /\ \A t : t.at \in 1..n /\ TripOfLog(t) => TripOfLog(t)'
           /\ Rules!Ordered' => Rules!Ordered /\ \A k \in 1..n : Rules!Ts(k) <= e.ts
<1>1. /\ Len(log') = n + 1 /\ DOMAIN log = 1..n /\ DOMAIN log' = 1..(n + 1)
      /\ \A i \in 1..n : log'[i] = log[i] /\ log[i] \in Entry
      /\ log'[n + 1] = e
    BY LogGrows
<1>2. \A i \in 1..n : /\ Rules!Pos(i)' = Rules!Pos(i) /\ Rules!Ts(i)' = Rules!Ts(i)
                      /\ Rules!Pos(i) \in Rules!Input /\ Rules!Ts(i) \in Int
    BY <1>1 DEF Rules!Pos, Rules!Ts, Entry
<1>3. Rules!Pos(n + 1)' = e.pos /\ Rules!Ts(n + 1)' = e.ts
    BY <1>1 DEF Rules!Pos, Rules!Ts
<1>4. ASSUME NEW k \in 1..n, NEW j \in 1..n PROVE Rules!Stop(k, j)' <=> Rules!Stop(k, j)
  <2>1. \A m \in k..j : m \in 1..n
    OBVIOUS
  <2> QED
    BY <1>2, <2>1 DEF Rules!Stop, Rules!Stopped
<1>5. ASSUME NEW i \in 1..n, NEW j \in 1..n, Rules!Journey(i, j) PROVE Rules!Journey(i, j)'
  <2>1. Rules!Moving(Rules!Pos(i))'
    BY <1>2, <1>5 DEF Rules!Journey, Rules!Moving
  <2>2. PICK k \in (i + 1)..(j - 1) : Rules!Stop(k, j)
    BY <1>5 DEF Rules!Journey
  <2>3. \E l \in (i + 1)..(j - 1) : Rules!Stop(l, j)'
    BY <1>4, <2>2
  <2>4. ASSUME NEW m \in (i + 1)..(j - 1), NEW l \in (i + 1)..(m - 1)
        PROVE  ~Rules!Stop(l, m)'
    <3>1. m \in 1..n /\ l \in 1..n
      OBVIOUS
    <3> QED
      BY <1>4, <1>5, <3>1 DEF Rules!Journey
  <2> QED
    BY <2>1, <2>3, <2>4 DEF Rules!Journey
<1>6. \A t : Rules!Start(t)' = Rules!Start(t)
    BY DEF Rules!Start
<1>7. ASSUME NEW t, t.at \in 1..n, TripOfLog(t) PROVE TripOfLog(t)'
  <2>1. PICK s \in 1..n : s = Rules!Start(t)
    BY <1>7 DEF TripOfLog
  <2>2. s \in 1..t.at /\ \A i \in s..t.at : i \in 1..n
    BY <1>7, <2>1 DEF TripOfLog
  <2>3. /\ Rules!Journey(s, t.at)
        /\ t.from = Rules!Ts(s) /\ t.to = Rules!Ts(t.at)
        /\ \A i \in s..t.at : Rules!Pos(i).speed <= t.maxSpeed
        /\ \E i \in s..t.at : Rules!Pos(i).speed = t.maxSpeed
    BY <1>7, <2>1 DEF TripOfLog
  <2>4. Rules!Journey(s, t.at)'
    BY <1>5, <1>7, <2>3
  <2>5. t.from = Rules!Ts(s)' /\ t.to = Rules!Ts(t.at)'
    BY <1>2, <1>7, <2>3
  <2>6. /\ \A i \in s..t.at : Rules!Pos(i)'.speed <= t.maxSpeed
        /\ \E i \in s..t.at : Rules!Pos(i)'.speed = t.maxSpeed
    BY <1>2, <2>2, <2>3
  <2> QED
    BY <1>6, <2>1, <2>2, <2>4, <2>5, <2>6 DEF TripOfLog
<1>8. ASSUME Rules!Ordered' PROVE Rules!Ordered /\ \A k \in 1..n : Rules!Ts(k) <= e.ts
  <2>1. \A i, j \in 1..(n + 1) : i <= j => Rules!Ts(i)' <= Rules!Ts(j)'
    BY <1>1, <1>8 DEF Rules!Ordered
  <2>2. \A i \in 1..n : i \in 1..(n + 1) /\ i <= n + 1 /\ n + 1 \in 1..(n + 1)
    OBVIOUS
  <2>3. \A k \in 1..n : Rules!Ts(k) <= e.ts
    BY <1>2, <1>3, <2>1, <2>2
  <2>4. \A i, j \in 1..n : i <= j => Rules!Ts(i) <= Rules!Ts(j)
    BY <1>2, <2>1, <2>2
  <2> QED
    BY <1>1, <2>3, <2>4 DEF Rules!Ordered
<1> QED
    BY <1>1, <1>2, <1>3, <1>4, <1>5, <1>6, <1>7, <1>8

\* A trip that a position does not end goes on: a stop that would end it is timed
\* from its first position, which is no later than any of the stop.
LEMMA TripGoesOn ==
    ASSUME RulesTypes, NEW p \in Rules!Input, NEW ts \in Int, NEW e \in Entry,
           e.pos = p, e.ts = ts, log' = Append(log, e),
           NEW n \in Nat, n = Len(log), n + 1 <= MaxPosition, Rules!Ordered',
           trip # None, trip.mode = "moving", NEW s, OpenTrip(trip, s, n),
           ~Rules!Arrives(p, ts), NEW r, r = Rules!Extended(p, ts)
    PROVE  OpenTrip(r, s, n + 1)' /\ r.mode = "moving" /\ r # None
<1>1. PICK m \in Nat, q \in Int \cup {None} :
        /\ q = Rules!StoppedSince(p, ts)
        /\ m = Rules!Higher(trip.maxSpeed, p.speed)
        /\ r = [mode |-> trip.mode, start |-> trip.start, maxSpeed |-> m,
                points |-> trip.points + 1, stoppedSince |-> q]
    BY ExtendedIs
<1>2. trip \in Rules!TripState
    BY DEF RulesTypes, Rules!TypeOK
<1>3. r # None
  <2>1. r \in Rules!TripState \cup {None} /\ Rules!Updated(p, ts) = r
    BY UpdatedIsTyped DEF Rules!Updated, Rules!Under
  <2>2. trip.mode \in {"idle", "moving"} /\ trip.start \in Int /\ trip.points + 1 \in 0..MaxPosition
    BY <1>2, RulesAssumption DEF Rules!TripState, RulesTypes
  <2>3. r \in Rules!TripState
    BY <1>1, <2>2 DEF Rules!TripState
  <2> QED
    BY <2>3, RulesAssumption
<1>4. r.mode = "moving" /\ r.start = trip.start /\ r.maxSpeed = m
      /\ r.points = trip.points + 1 /\ r.stoppedSince = q
    BY <1>1
<1>5. /\ \A i \in 1..n : /\ Rules!Pos(i)' = Rules!Pos(i) /\ Rules!Ts(i)' = Rules!Ts(i)
                         /\ Rules!Pos(i) \in Rules!Input /\ Rules!Ts(i) \in Int
      /\ Rules!Pos(n + 1)' = p /\ Rules!Ts(n + 1)' = ts
      /\ \A k, j \in 1..n : Rules!Stop(k, j)' <=> Rules!Stop(k, j)
      /\ Rules!Ordered /\ \A k \in 1..n : Rules!Ts(k) <= ts
    BY PastStays DEF RulesTypes
<1>6. s \in 1..n /\ trip.points = n - s + 1 /\ trip.start = Rules!Ts(s)
      /\ Rules!Moving(Rules!Pos(s))
    BY DEF OpenTrip
<1>7. p.speed \in Nat /\ trip.maxSpeed \in Nat /\ \A i \in 1..n : Rules!Pos(i).speed \in Nat
    BY <1>2, <1>5 DEF Rules!Input, Rules!TripState
<1>8. \A i \in s..(n + 1) : i \in s..n \/ i = n + 1
    BY <1>6
<1>9. /\ \A i \in s..(n + 1) : Rules!Pos(i)'.speed <= m
      /\ \E i \in s..(n + 1) : Rules!Pos(i)'.speed = m
  <2>1. trip.maxSpeed <= m /\ p.speed <= m /\ (m = p.speed \/ m = trip.maxSpeed)
    BY <1>1, <1>7 DEF Rules!Higher
  <2>2. ASSUME NEW i \in s..(n + 1) PROVE Rules!Pos(i)'.speed <= m
    <3>1. CASE i = n + 1
      BY <1>5, <2>1, <3>1
    <3>2. CASE i \in s..n
      <4>1. Rules!Pos(i).speed <= trip.maxSpeed /\ i \in 1..n
        BY <1>6, <3>2 DEF OpenTrip
      <4> QED
        BY <1>5, <1>7, <2>1, <4>1
    <3> QED
      BY <1>8, <3>1, <3>2
  <2>3. PICK i \in s..n : Rules!Pos(i).speed = trip.maxSpeed
    BY DEF OpenTrip
  <2>4. i \in 1..n /\ i \in s..(n + 1) /\ n + 1 \in s..(n + 1)
    BY <1>6
  <2>5. Rules!Pos(i)'.speed = trip.maxSpeed /\ Rules!Pos(n + 1)'.speed = p.speed
    BY <1>5, <2>3, <2>4
  <2> QED
    BY <2>1, <2>2, <2>4, <2>5
<1>10. ASSUME NEW j \in (s + 1)..(n + 1), NEW k \in (s + 1)..(j - 1), Rules!Stop(k, j)'
       PROVE  FALSE
  <2>1. k \in 1..n /\ k \in (s + 1)..n /\ k >= s + 1
    BY <1>6
  <2>2. CASE j \in 1..n
    <3>1. j \in (s + 1)..n
      BY <2>2
    <3> QED
      BY <1>5, <1>10, <2>1, <2>2, <3>1 DEF OpenTrip
  <2>3. CASE j = n + 1
    <3>1. ts - Rules!Ts(k) >= StopMin
      BY <1>5, <1>10, <2>1, <2>3 DEF Rules!Stop
    <3>2. \A i \in k..(n + 1) : Rules!Stopped(Rules!Pos(i))'
      BY <1>10, <2>3 DEF Rules!Stop
    <3>3. \A i \in k..n : Rules!Stopped(Rules!Pos(i))
      <4>1. \A i \in k..n : i \in 1..n /\ i \in k..(n + 1)
        BY <2>1
      <4> QED
        BY <1>5, <3>2, <4>1 DEF Rules!Stopped
    <3>4. Rules!Stopped(p)
      <4>1. n + 1 \in k..(n + 1)
        BY <2>1
      <4> QED
        BY <1>5, <3>2, <4>1 DEF Rules!Stopped
    <3>5. Rules!Stopped(Rules!Pos(n)) /\ n # s
      BY <2>1, <3>3, <1>6
    <3>6. trip.stoppedSince # None
      BY <3>5 DEF OpenTrip
    <3>7. PICK first \in (s + 1)..n :
            /\ trip.stoppedSince = Rules!Ts(first)
            /\ first = s + 1 \/ ~Rules!Stopped(Rules!Pos(first - 1))
      BY <3>6 DEF OpenTrip
    <3>8. first <= k
      BY <2>1, <3>3, <3>7
    <3>9. first \in 1..n
      BY <1>6
    <3>10. Rules!Ts(first) <= Rules!Ts(k)
      <4>1. DOMAIN log = 1..n
        BY DEF RulesTypes
      <4> QED
        BY <1>5, <2>1, <3>8, <3>9, <4>1 DEF Rules!Ordered
    <3>11. ts - Rules!Ts(first) >= StopMin
      BY SMTT(30), <1>5, <2>1, <3>1, <3>9, <3>10, RulesAssumption
    <3> QED
      BY <3>4, <3>6, <3>7, <3>11 DEF Rules!Arrives, Rules!Under
  <2> QED
    BY <1>6, <2>2, <2>3
<1>11. q = None => n + 1 = s \/ ~Rules!Stopped(Rules!Pos(n + 1))'
  <2>1. trip.stoppedSince \in Int \cup {None} /\ None \notin Int
    BY <1>2, RulesAssumption DEF Rules!TripState
  <2>2. q = None => ~Rules!Stopped(p)
    BY <1>1, <2>1 DEF Rules!StoppedSince
  <2> QED
    BY <1>5, <2>2 DEF Rules!Stopped
<1>12. ASSUME q # None
       PROVE  \E k \in (s + 1)..(n + 1) :
                 /\ q = Rules!Ts(k)'
                 /\ \A i \in k..(n + 1) : Rules!Stopped(Rules!Pos(i))'
                 /\ k = s + 1 \/ ~Rules!Stopped(Rules!Pos(k - 1))'
  <2>1. Rules!Stopped(p)
    BY <1>1, <1>12 DEF Rules!StoppedSince
  <2>2. Rules!Stopped(Rules!Pos(n + 1))'
    BY <1>5, <2>1 DEF Rules!Stopped
  <2>3. CASE trip.stoppedSince = None
    <3>1. q = ts /\ n + 1 \in (s + 1)..(n + 1)
      BY <1>1, <1>6, <2>1, <2>3 DEF Rules!StoppedSince
    <3>2. \A i \in (n + 1)..(n + 1) : i = n + 1
      OBVIOUS
    <3>3. n + 1 = s + 1 \/ ~Rules!Stopped(Rules!Pos(n + 1 - 1))'
      <4>1. n = s \/ ~Rules!Stopped(Rules!Pos(n))
        BY <2>3 DEF OpenTrip
      <4>2. n + 1 - 1 = n /\ n \in 1..n
        BY <1>6
      <4> QED
        BY <1>5, <4>1, <4>2 DEF Rules!Stopped
    <3> QED
      BY <1>5, <2>2, <3>1, <3>2, <3>3
  <2>4. CASE trip.stoppedSince # None
    <3>1. q = trip.stoppedSince
      BY <1>1, <2>1, <2>4 DEF Rules!StoppedSince
    <3>2. PICK k \in (s + 1)..n :
            /\ trip.stoppedSince = Rules!Ts(k)
            /\ \A i \in k..n : Rules!Stopped(Rules!Pos(i))
            /\ k = s + 1 \/ ~Rules!Stopped(Rules!Pos(k - 1))
      BY <2>4 DEF OpenTrip
    <3>3. k \in 1..n /\ k \in (s + 1)..(n + 1) /\ (k # s + 1 => k - 1 \in 1..n)
      BY <1>6
    <3>4. \A i \in k..(n + 1) : Rules!Stopped(Rules!Pos(i))'
      <4>1. \A i \in k..(n + 1) : (i \in k..n /\ i \in 1..n) \/ i = n + 1
        BY <3>3
      <4> QED
        BY <1>5, <2>2, <3>2, <4>1 DEF Rules!Stopped
    <3>5. k = s + 1 \/ ~Rules!Stopped(Rules!Pos(k - 1))'
      BY <1>5, <3>2, <3>3 DEF Rules!Stopped
    <3> QED
      BY <1>5, <3>1, <3>2, <3>3, <3>4, <3>5
  <2> QED
    BY <2>3, <2>4
<1>13. /\ s \in 1..(n + 1) /\ r.points = n + 1 - s + 1 /\ r.start = Rules!Ts(s)'
       /\ Rules!Moving(Rules!Pos(s))'
    BY <1>4, <1>5, <1>6 DEF Rules!Moving
<1> QED
    BY SMTT(30), <1>3, <1>4, <1>9, <1>10, <1>11, <1>12, <1>13 DEF OpenTrip

\* The trip that a position ends is the journey from where it began.
LEMMA TripArrives ==
    ASSUME RulesTypes, NEW p \in Rules!Input, NEW ts \in Int, NEW e \in Entry,
           e.pos = p, e.ts = ts, log' = Append(log, e),
           NEW n \in Nat, n = Len(log), n + 1 <= MaxPosition, Rules!Ordered',
           NEW s, OpenTrip(trip, s, n), Rules!Arrives(p, ts),
           NEW t, t = Rules!Recorded(p, ts, n + 1)
    PROVE  TripOfLog(t)' /\ t.at = n + 1 /\ Rules!Start(t) = s
<1>1. trip \in Rules!TripState
    BY DEF RulesTypes, Rules!TypeOK, Rules!Arrives, Rules!Under
<1>2. s \in 1..n /\ trip.points = n - s + 1 /\ trip.start = Rules!Ts(s)
      /\ Rules!Moving(Rules!Pos(s))
    BY DEF OpenTrip
<1>3. p.speed \in Nat /\ trip.maxSpeed \in Nat
    BY <1>1 DEF Rules!Input, Rules!TripState
<1>4. PICK m \in Nat : /\ m = Rules!Higher(trip.maxSpeed, p.speed)
                       /\ trip.maxSpeed <= m /\ p.speed <= m
                       /\ m = p.speed \/ m = trip.maxSpeed
    BY <1>3 DEF Rules!Higher
<1>5. t = [from |-> trip.start, to |-> ts, points |-> trip.points + 1,
           maxSpeed |-> m, at |-> n + 1]
    BY <1>4 DEF Rules!Recorded
<1>6. /\ t.at = n + 1 /\ t.points = n - s + 2 /\ t.from = Rules!Ts(s) /\ t.to = ts
      /\ t.maxSpeed = m
    BY <1>2, <1>5
<1>7. Rules!Start(t) = s
  <2>1. Rules!Start(t) = (n + 1) - (n - s + 2) + 1
    BY <1>6, Zenon DEF Rules!Start
  <2> QED
    BY <1>2, <2>1
<1>8. /\ \A i \in 1..n : /\ Rules!Pos(i)' = Rules!Pos(i) /\ Rules!Ts(i)' = Rules!Ts(i)
                         /\ Rules!Pos(i) \in Rules!Input /\ Rules!Ts(i) \in Int
      /\ Rules!Pos(n + 1)' = p /\ Rules!Ts(n + 1)' = ts
      /\ \A k, j \in 1..n : Rules!Stop(k, j)' <=> Rules!Stop(k, j)
    BY PastStays DEF RulesTypes
<1>9. Rules!Journey(s, n + 1)'
  <2>1. Rules!Moving(Rules!Pos(s))'
    BY <1>2, <1>8 DEF Rules!Moving
  <2>2. PICK k \in (s + 1)..n : /\ trip.stoppedSince = Rules!Ts(k)
                                /\ \A i \in k..n : Rules!Stopped(Rules!Pos(i))
    BY DEF Rules!Arrives, OpenTrip
  <2>3. k \in 1..n /\ k \in (s + 1)..(n + 1 - 1)
    BY <1>2
  <2>4. \A i \in k..(n + 1) : Rules!Stopped(Rules!Pos(i))'
    <3>1. \A i \in k..(n + 1) : (i \in k..n /\ i \in 1..n) \/ i = n + 1
      BY <2>3
    <3>2. Rules!Stopped(p)
      BY DEF Rules!Arrives
    <3> QED
      BY <1>8, <2>2, <3>1, <3>2 DEF Rules!Stopped
  <2>5. Rules!Ts(n + 1)' - Rules!Ts(k)' >= StopMin
    BY <1>8, <2>2, <2>3 DEF Rules!Arrives
  <2>6. Rules!Stop(k, n + 1)'
    BY <2>4, <2>5 DEF Rules!Stop
  <2>7. ASSUME NEW j \in (s + 1)..(n + 1 - 1), NEW l \in (s + 1)..(j - 1)
        PROVE  ~Rules!Stop(l, j)'
    <3>1. j \in (s + 1)..n /\ j \in 1..n /\ l \in 1..n
      BY <1>2
    <3> QED
      BY <1>8, <3>1 DEF OpenTrip
  <2> QED
    BY <2>1, <2>3, <2>6, <2>7 DEF Rules!Journey
<1>10. /\ \A i \in s..(n + 1) : Rules!Pos(i)'.speed <= m
       /\ \E i \in s..(n + 1) : Rules!Pos(i)'.speed = m
  <2>1. ASSUME NEW i \in s..(n + 1) PROVE Rules!Pos(i)'.speed <= m
    <3>1. CASE i = n + 1
      BY <1>4, <1>8, <3>1
    <3>2. CASE i # n + 1
      <4>1. i \in s..n /\ i \in 1..n
        BY <1>2, <3>2
      <4>2. Rules!Pos(i).speed <= trip.maxSpeed /\ Rules!Pos(i).speed \in Nat
        BY <1>8, <4>1 DEF OpenTrip, Rules!Input
      <4> QED
        BY <1>3, <1>4, <1>8, <4>1, <4>2
    <3> QED
      BY <3>1, <3>2
  <2>2. PICK i \in s..n : Rules!Pos(i).speed = trip.maxSpeed
    BY DEF OpenTrip
  <2>3. i \in 1..n /\ i \in s..(n + 1) /\ n + 1 \in s..(n + 1)
    BY <1>2
  <2>4. Rules!Pos(i)'.speed = trip.maxSpeed /\ Rules!Pos(n + 1)'.speed = p.speed
    BY <1>8, <2>2, <2>3
  <2> QED
    BY <1>4, <2>1, <2>3, <2>4
<1>11. Rules!Start(t)' = s /\ s \in 1..(n + 1)
    BY <1>2, <1>7 DEF Rules!Start
<1>12. t.from = Rules!Ts(s)' /\ t.to = Rules!Ts(n + 1)'
    BY <1>2, <1>6, <1>8
<1> QED
    BY <1>6, <1>7, <1>9, <1>10, <1>11, <1>12 DEF TripOfLog

LEMMA TripsKept ==
    ASSUME RulesTypes, TripsInv, NEW p \in Inputs, Rules!Process(p)
    PROVE  TripsInv'
<1>1. PICK ts \in Int :
        /\ Len(log) + 1 <= MaxPosition
        /\ p \in Rules!Input
        /\ [pos |-> p, ts |-> ts] \in Entry
        /\ log' = Append(log, [pos |-> p, ts |-> ts])
        /\ trips' = IF Rules!Arrives(p, ts)
                    THEN trips \cup {Rules!Recorded(p, ts, Len(log) + 1)} ELSE trips
        /\ trip' = Rules!Updated(p, ts)
    BY Handled
<1>2. PICK e \in Entry : e = [pos |-> p, ts |-> ts]
    BY <1>1
<1>3. e.pos = p /\ e.ts = ts /\ log' = Append(log, e)
    BY <1>1, <1>2
<1>4. PICK n \in Nat : n = Len(log) /\ n + 1 <= MaxPosition
    BY <1>1 DEF RulesTypes
<1> SUFFICES ASSUME Rules!Ordered' PROVE TripsInv'
    BY DEF TripsInv
<1>5. /\ Len(log') = n + 1
      /\ \A i \in 1..n : /\ Rules!Pos(i)' = Rules!Pos(i) /\ Rules!Ts(i)' = Rules!Ts(i)
                         /\ Rules!Pos(i) \in Rules!Input /\ Rules!Ts(i) \in Int
      /\ Rules!Pos(n + 1)' = p /\ Rules!Ts(n + 1)' = ts
      /\ \A t : Rules!Start(t)' = Rules!Start(t)
      /\ \A t : t.at \in 1..n /\ TripOfLog(t) => TripOfLog(t)'
      /\ Rules!Ordered
    BY <1>3, <1>4, PastStays DEF RulesTypes
<1>6. PICK s \in 1..(n + 1) : OpenFrom(s)
    BY <1>4, <1>5 DEF TripsInv
<1>7. /\ \A t \in trips : TripOfLog(t)
      /\ \A t, u \in trips : t # u => t.at < Rules!Start(u) \/ u.at < Rules!Start(t)
    BY <1>5 DEF TripsInv
<1>8. /\ \A t \in trips : t.at < s /\ t.at \in 1..n
      /\ \A i \in 1..(s - 1) : Rules!Moving(Rules!Pos(i)) => Covered(i)
  <2>1. \A t \in trips : t.at < s /\ t.at \in 1..MaxPosition
    BY <1>6 DEF OpenFrom, RulesTypes, Rules!TypeOK
  <2> QED
    BY <1>6, <2>1 DEF OpenFrom
<1>9. \A t \in trips : TripOfLog(t)'
    BY <1>5, <1>7, <1>8
<1>10. \A i \in 1..n : Rules!Moving(Rules!Pos(i))' <=> Rules!Moving(Rules!Pos(i))
    BY <1>5 DEF Rules!Moving
<1>11. CASE Rules!Arrives(p, ts)
  <2>1. PICK t : t = Rules!Recorded(p, ts, n + 1)
    OBVIOUS
  <2>2. trips' = trips \cup {t}
    BY <1>1, <1>4, <1>11, <2>1
  <2>3. OpenTrip(trip, s, n)
    BY <1>4, <1>6, <1>11 DEF OpenFrom, Rules!Arrives, Rules!Under
  <2>4. TripOfLog(t)' /\ t.at = n + 1 /\ Rules!Start(t) = s
    BY <1>1, <1>3, <1>4, <1>11, <2>1, <2>3, TripArrives
  <2>5. \A u \in trips' : TripOfLog(u)'
    BY <1>9, <2>2, <2>4
  <2>6. \A u, v \in trips' : u # v => u.at < Rules!Start(v)' \/ v.at < Rules!Start(u)'
    BY <1>5, <1>7, <1>8, <2>2, <2>4
  <2>7. OpenFrom(n + 1 + 1)'
    <3>1. \A u \in trips' : u.at < n + 1 + 1
      BY <1>8, <2>2, <2>4
    <3>2. ASSUME NEW i \in 1..(n + 1 + 1 - 1), Rules!Moving(Rules!Pos(i))' PROVE Covered(i)'
      <4>1. CASE i \in 1..(s - 1)
        <5>1. PICK u \in trips : i \in Rules!Start(u)..u.at
          BY <1>6, <1>8, <1>10, <3>2, <4>1 DEF Covered
        <5> QED
          BY <1>5, <2>2, <5>1 DEF Covered
      <4>2. CASE i \in s..(n + 1)
        BY <1>5, <2>2, <2>4, <4>2 DEF Covered
      <4> QED
        BY <1>6, <4>1, <4>2
    <3>3. ~(trip' # None /\ trip'.mode = "moving")
      BY <1>1, <1>11 DEF Rules!Updated, Rules!Still
    <3> QED
      BY <1>5, <3>1, <3>2, <3>3 DEF OpenFrom
  <2>8. n + 1 + 1 \in 1..(Len(log') + 1)
    BY <1>5
  <2> QED
    BY <2>5, <2>6, <2>7, <2>8 DEF TripsInv
<1>12. CASE ~Rules!Arrives(p, ts)
  <2>1. trips' = trips
    BY <1>1, <1>12
  <2>2. \A i : Covered(i)' <=> Covered(i)
    BY <1>5, <2>1 DEF Covered
  <2>3. /\ \A u \in trips' : TripOfLog(u)'
        /\ \A u, v \in trips' : u # v => u.at < Rules!Start(v)' \/ v.at < Rules!Start(u)'
    BY <1>5, <1>7, <1>9, <2>1
  <2>4. \A u \in trips' : u.at < s /\ u.at < n + 1 /\ u.at < n + 1 + 1
    BY <1>8, <2>1
  <2>5. \A i \in 1..(s - 1) : i \in 1..n
    BY <1>6
  <2>6. \A i \in 1..(s - 1) : Rules!Moving(Rules!Pos(i))' => Covered(i)'
    BY <1>8, <1>10, <2>2, <2>5
  <2>7. CASE trip # None /\ trip.mode = "moving"
    <3>1. OpenTrip(trip, s, n)
      BY <1>4, <1>6, <2>7 DEF OpenFrom
    <3>2. PICK r : r = Rules!Extended(p, ts)
      OBVIOUS
    <3>3. OpenTrip(r, s, n + 1)' /\ r.mode = "moving" /\ r # None
      BY <1>1, <1>3, <1>4, <1>12, <2>7, <3>1, <3>2, TripGoesOn
    <3>4. trip' = r
      BY <1>1, <1>12, <2>7, <3>2 DEF Rules!Updated, Rules!Under
    <3>5. OpenFrom(s)'
      BY <1>5, <2>4, <2>6, <3>3, <3>4 DEF OpenFrom
    <3>6. s \in 1..(Len(log') + 1)
      BY <1>5, <1>6
    <3> QED
      BY <2>3, <3>5, <3>6 DEF TripsInv
  <2>8. CASE ~(trip # None /\ trip.mode = "moving")
    <3>1. s = n + 1
      BY <1>4, <1>6, <2>8 DEF OpenFrom
    <3>2. CASE Rules!Moving(p)
      <4>1. PICK r : r = Rules!Departed(p, ts)
        OBVIOUS
      <4>2. /\ r.mode = "moving" /\ r.start = ts /\ r.maxSpeed = p.speed
            /\ r.points = 1 /\ r.stoppedSince = None /\ trip' = r
        BY <1>1, <1>12, <2>8, <3>2, <4>1 DEF Rules!Departed, Rules!Updated, Rules!Under
      <4>3. r # None
        <5>1. p.speed \in Nat /\ 1 \in 0..MaxPosition
          BY <1>1, <1>4, RulesAssumption DEF Rules!Input
        <5>2. r \in Rules!TripState
          BY <4>1, <5>1 DEF Rules!Departed, Rules!TripState
        <5> QED
          BY <5>2, RulesAssumption
      <4>4. OpenTrip(r, n + 1, n + 1)'
        <5>1. Rules!Moving(Rules!Pos(n + 1))'
          BY <1>5, <3>2 DEF Rules!Moving
        <5>2. p.speed \in Nat
          BY <1>1 DEF Rules!Input
        <5>3. \A i \in (n + 1)..(n + 1) : i = n + 1
          OBVIOUS
        <5>4. n + 1 \in (n + 1)..(n + 1) /\ n + 1 \in 1..(n + 1)
              /\ 1 = (n + 1) - (n + 1) + 1 /\ (n + 1 + 1)..(n + 1) = {}
          OBVIOUS
        <5> QED
          BY <1>5, <4>2, <5>1, <5>2, <5>3, <5>4 DEF OpenTrip
      <4>5. OpenFrom(n + 1)'
        BY <1>5, <2>4, <2>6, <3>1, <4>2, <4>3, <4>4 DEF OpenFrom
      <4>6. n + 1 \in 1..(Len(log') + 1)
        BY <1>5
      <4> QED
        BY <2>3, <4>5, <4>6 DEF TripsInv
    <3>3. CASE ~Rules!Moving(p)
      <4>1. ~(trip' # None /\ trip'.mode = "moving")
        BY <1>1, <1>12, <2>8, <3>3 DEF Rules!Updated, Rules!Under, Rules!Still
      <4>2. ASSUME NEW i \in 1..(n + 1 + 1 - 1), Rules!Moving(Rules!Pos(i))'
            PROVE  Covered(i)'
        <5>1. i # n + 1
          BY <1>5, <3>3, <4>2 DEF Rules!Moving
        <5>2. i \in 1..(s - 1)
          BY <3>1, <5>1
        <5> QED
          BY <2>6, <4>2, <5>2
      <4>3. OpenFrom(n + 1 + 1)'
        BY <1>5, <2>4, <4>1, <4>2 DEF OpenFrom
      <4>4. n + 1 + 1 \in 1..(Len(log') + 1)
        BY <1>5
      <4> QED
        BY <2>3, <4>3, <4>4 DEF TripsInv
    <3> QED
      BY <3>2, <3>3
  <2> QED
    BY <2>7, <2>8
<1> QED
    BY <1>11, <1>12

LEMMA TripsInit == Rules!Init => TripsInv
<1> SUFFICES ASSUME Rules!Init PROVE TripsInv
    OBVIOUS
<1>1. trips = {} /\ trip = None /\ Len(log) = 0
    BY DEF Rules!Init
<1>2. OpenFrom(1)
    BY <1>1 DEF OpenFrom
<1> QED
    BY <1>1, <1>2 DEF TripsInv

\* The sweep and the silence it looks for touch neither trips nor the log.
LEMMA TripsStay ==
    ASSUME TripsInv, UNCHANGED <<trip, log, trips>>
    PROVE  TripsInv'
<1>1. /\ \A i : /\ Rules!Pos(i)' = Rules!Pos(i) /\ Rules!Ts(i)' = Rules!Ts(i)
      /\ \A t : Rules!Start(t)' = Rules!Start(t)
      /\ Rules!Ordered' <=> Rules!Ordered
    BY DEF Rules!Pos, Rules!Ts, Rules!Start, Rules!Ordered
<1>2. \A k, j : Rules!Stop(k, j)' <=> Rules!Stop(k, j)
    BY <1>1 DEF Rules!Stop, Rules!Stopped
<1>3. \A i, j : Rules!Journey(i, j)' <=> Rules!Journey(i, j)
    BY <1>1, <1>2 DEF Rules!Journey, Rules!Moving
<1>4. \A t : TripOfLog(t)' <=> TripOfLog(t)
    BY <1>1, <1>3 DEF TripOfLog
<1>5. \A r, s, n : OpenTrip(r, s, n)' <=> OpenTrip(r, s, n)
    BY <1>1, <1>2 DEF OpenTrip, Rules!Stopped, Rules!Moving
<1>6. \A i : Covered(i)' <=> Covered(i)
    BY <1>1 DEF Covered
<1>7. \A s : OpenFrom(s)' <=> OpenFrom(s)
    BY <1>1, <1>5, <1>6 DEF OpenFrom, Rules!Moving
<1> QED
    BY <1>1, <1>4, <1>7 DEF TripsInv

LEMMA TripsStep ==
    RulesTypes /\ EdgesInv /\ TripsInv /\ [Rules!Next]_(Rules!vars)
       => RulesTypes' /\ EdgesInv' /\ TripsInv'
    BY EdgesStep, TripsKept, TripsStay, QuietKeeps DEF Rules!Next

\* trips.ts: if the positions of a device come in the order of their timestamps, the
\* trips recorded are the journeys it made, each from end to end and none missing.
THEOREM TripsAreTheJourneys == Rules!Spec => []TripsAreJourneys
<1>1. Rules!Init => RulesTypes /\ EdgesInv /\ TripsInv
    BY RulesInit, TripsInit
<1>2. RulesTypes /\ TripsInv => TripsAreJourneys
    BY NoneIsMissing DEF TripsAreJourneys
<1> QED
    BY <1>1, <1>2, TripsStep, PTL DEF Rules!Spec

=============================================================================
