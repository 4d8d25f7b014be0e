-------------------------- MODULE AvlSessionProofs --------------------------
(***************************************************************************)
(* What AvlSession promises for every number of devices, connections,      *)
(* nodes and sinks, and under every combination of faults.                 *)
(***************************************************************************)
EXTENDS AvlSession, FiniteSetTheorems, SequenceTheorems, TLAPS

-----------------------------------------------------------------------------
\* A packet has a size: the fleet is finite, so a set of its records is.
LEMMA PacketSize ==
    ASSUME NEW p \in Packet
    PROVE  IsFiniteSet(p) /\ Cardinality(p) \in Nat
<1>1. IsFiniteSet(1..MaxRecord)
    BY FS_Interval, BoundsAssumption
<1>2. IsFiniteSet(Rec)
    BY <1>1, FS_Product, FleetAssumption DEF Rec
<1>3. IsFiniteSet(p)
    BY <1>2, FS_Subset DEF Packet
<1> QED
    BY <1>3, FS_CardinalityType

\* What a disconnect leaves in the inbox is a sequence of packets.
LEMMA ReceivedType ==
    ASSUME NEW box \in Seq(Packet), NEW rest \in Received(box)
    PROVE  rest \in Seq(Packet)
<1>1. PICK k \in 0..Len(box) : rest = SubSeq(box, 1, k)
    BY DEF Received
<1> QED
    BY <1>1

\* The dedupe map a session asks is one of the maps there are.
LEMMA ScopeType ==
    ASSUME NEW n \in Nodes
    PROVE  Scope(n) \in Scopes
    BY DEF Scope, Scopes

\* session.fail() leaves the types of everything it touches intact.
LEMMA FailType ==
    ASSUME TypeOK, NEW c \in Conns, Fail(c), orphans' \in SUBSET (Targets \X Rec \X (Nodes \cup {None}))
    PROVE  TypeOK'
<1>1. PICK rest \in Received(inbox[c]) : inbox' = [inbox EXCEPT ![c] = rest]
    BY DEF Fail, Disconnect
<1>2. rest \in Seq(Packet)
    BY <1>1, ReceivedType DEF TypeOK
<1>3. inbox' \in [Conns -> Seq(Packet)]
    BY <1>1, <1>2 DEF TypeOK
<1>4. abandoned' \in SUBSET Rec
    BY DEF Fail, TypeOK, Packet
<1> QED
    BY <1>3, <1>4 DEF TypeOK, Fail, Fault, Disconnect

-----------------------------------------------------------------------------
(***************************************************************************)
(* Type correctness.                                                       *)
(***************************************************************************)

\* A service without connections is well typed.
LEMMA InitType == Init => TypeOK
    BY BoundsAssumption DEF Init, TypeOK, Packet

\* Every action keeps the types.
LEMMA StepType == TypeOK /\ [Next]_vars => TypeOK'
<1> SUFFICES ASSUME TypeOK, [Next]_vars PROVE TypeOK'
    OBVIOUS
<1> USE DEF linkVars, wireVars, sessionVars, deviceVars, historyVars
<1>1. ASSUME NEW d \in Devices, Capture(d) PROVE TypeOK'
  <2>1. captured[d] + 1 \in 0..MaxRecord /\ captured[d] + 1 \in 1..MaxRecord
    BY <1>1, BoundsAssumption DEF Capture, TypeOK
  <2>2. <<d, captured[d] + 1>> \in Rec
    BY <2>1 DEF Rec
  <2> QED
    BY <1>1, <2>1, <2>2 DEF Capture, TypeOK
<1>2. ASSUME NEW c \in Conns, NEW d \in Devices, NEW n \in Nodes, Connect(c, d, n)
      PROVE  TypeOK'
    BY <1>2 DEF Connect, TypeOK
<1>3. ASSUME NEW c \in Conns, Send(c) PROVE TypeOK'
  <2>1. PICK p \in SUBSET Unsent(c) :
          /\ outstanding' = [outstanding EXCEPT ![c] = Append(@, p)]
          /\ inbox' = [inbox EXCEPT ![c] = Append(@, p)]
    BY <1>3 DEF Send
  <2>2. p \in Packet
    BY <2>1 DEF Unsent, TypeOK, Packet
  <2>3. /\ Append(outstanding[c], p) \in Seq(Packet)
        /\ Append(inbox[c], p) \in Seq(Packet)
    BY <2>2 DEF TypeOK
  <2> QED
    BY <1>3, <2>1, <2>3 DEF Send, TypeOK
<1>4. ASSUME NEW c \in Conns, ReceiveAck(c) PROVE TypeOK'
  <2>1. Tail(acks[c]) \in Seq(Nat) /\ Tail(outstanding[c]) \in Seq(Packet)
    BY <1>4 DEF ReceiveAck, TypeOK
  <2> QED
    BY <1>4, <2>1 DEF ReceiveAck, TypeOK
<1>5. ASSUME NEW c \in Conns, StartPacket(c) PROVE TypeOK'
  <2>1. Tail(inbox[c]) \in Seq(Packet) /\ Head(inbox[c]) \in Packet
    BY <1>5 DEF StartPacket, TypeOK
  <2> QED
    BY <1>5, <2>1 DEF StartPacket, TypeOK, Packet
<1>6. ASSUME NEW c \in Conns, CheckAndSet(c) PROVE TypeOK'
  <2>1. PICK r \in todo[c] :
          /\ todo' = [todo EXCEPT ![c] = @ \ {r}]
          /\ fresh' = [fresh EXCEPT ![c] =
                          IF r \in seen[Scope(node[c])] THEN @ ELSE @ \cup {r}]
          /\ seen' = [seen EXCEPT ![Scope(node[c])] = @ \cup {r}]
    BY <1>6 DEF CheckAndSet
  <2>2. r \in Rec
    BY <2>1 DEF TypeOK, Packet
  <2>3. /\ todo' \in [Conns -> Packet]
        /\ fresh' \in [Conns -> Packet]
        /\ seen' \in [Scopes -> SUBSET Rec]
    BY <2>1, <2>2 DEF TypeOK, Packet
  <2> QED
    BY <1>6, <2>3 DEF CheckAndSet, TypeOK
<1>7. ASSUME NEW c \in Conns, StartWrite(c) PROVE TypeOK'
    BY <1>7 DEF StartWrite, WriteTargets, TypeOK
<1>8. ASSUME NEW c \in Conns, NEW t \in Targets, WriteLands(c, t) PROVE TypeOK'
  <2>1. Append1(stored[t], fresh[c]) \in [Rec -> Nat]
    BY DEF Append1, TypeOK
  <2> QED
    BY <1>8, <2>1 DEF WriteLands, TypeOK
<1>9. ASSUME NEW c \in Conns, Acknowledge(c) PROVE TypeOK'
  <2>1. Cardinality(frame[c]) \in Nat
    BY PacketSize DEF TypeOK
  <2>2. acks' \in [Conns -> Seq(Nat)]
    BY <1>9, <2>1 DEF Acknowledge, AckCount, TypeOK
  <2> QED
    BY <1>9, <2>2 DEF Acknowledge, AckCount, TypeOK
<1>10. ASSUME NEW c \in Conns, Drop(c) PROVE TypeOK'
  <2>1. PICK rest \in Received(inbox[c]) : inbox' = [inbox EXCEPT ![c] = rest]
    BY <1>10 DEF Drop, Disconnect
  <2>2. rest \in Seq(Packet)
    BY <2>1, ReceivedType DEF TypeOK
  <2> QED
    BY <1>10, <2>1, <2>2 DEF Drop, Fault, Disconnect, TypeOK
<1>17. ASSUME NEW c \in Conns, DecodeFails(c) PROVE TypeOK'
  <2>1. PICK rest \in Received(Tail(inbox[c])) : inbox' = [inbox EXCEPT ![c] = rest]
    BY <1>17 DEF DecodeFails, Disconnect
  <2>2. Tail(inbox[c]) \in Seq(Packet)
    BY <1>17 DEF DecodeFails, TypeOK
  <2>3. rest \in Seq(Packet)
    BY <2>1, <2>2, ReceivedType
  <2> QED
    BY <1>17, <2>1, <2>3 DEF DecodeFails, Fault, Disconnect, TypeOK
<1>11. ASSUME NEW c \in Conns, DedupeFails(c) PROVE TypeOK'
    BY <1>11, FailType DEF DedupeFails, TypeOK
<1>12. ASSUME NEW c \in Conns, NEW t \in Targets, WriteFails(c, t) PROVE TypeOK'
  <2>1. orphans' \in SUBSET (Targets \X Rec \X (Nodes \cup {None}))
    BY <1>12 DEF WriteFails, TypeOK, Packet
  <2>2. Fail(c)
    BY <1>12 DEF WriteFails
  <2> QED
    BY <2>1, <2>2, FailType
<1>18. ASSUME NEW c \in Conns, NEW t \in Targets, WriteIsSwallowed(c, t) PROVE TypeOK'
  <2>1. PICK lost \in SUBSET fresh[c] :
          /\ stored' = [stored EXCEPT ![t] = Append1(@, fresh[c] \ lost)]
          /\ swallowed' = swallowed \cup ({t} \X lost)
    BY <1>18 DEF WriteIsSwallowed
  <2>2. swallowed' \in SUBSET (Pipelined \X Rec)
    BY <1>18, <2>1 DEF WriteIsSwallowed, TypeOK, Packet
  <2>3. Append1(stored[t], fresh[c] \ lost) \in [Rec -> Nat]
    BY DEF Append1, TypeOK
  <2>4. stored' \in [Targets -> [Rec -> Nat]]
    BY <2>1, <2>3 DEF TypeOK
  <2>5. pending' \in [Conns -> SUBSET Targets] /\ faults' \in Nat
    BY <1>18 DEF WriteIsSwallowed, Fault, TypeOK
  <2>6. UNCHANGED <<deviceVars, linkVars, wireVars, pc, frame, todo, fresh,
                    orphans, seen, abandoned>>
    BY <1>18 DEF WriteIsSwallowed
  <2> QED
    BY <2>2, <2>4, <2>5, <2>6 DEF TypeOK
<1>13. ASSUME NEW n \in Nodes, NodeExit(n) PROVE TypeOK'
  <2>1. abandoned' \in SUBSET Rec
    BY <1>13 DEF NodeExit, TypeOK, Packet
  <2>2. seen' \in [Scopes -> SUBSET Rec]
    BY <1>13 DEF NodeExit, TypeOK
  <2>3. orphans' \in SUBSET (Targets \X Rec \X (Nodes \cup {None})) /\ faults' \in Nat
    BY <1>13 DEF NodeExit, Fault, TypeOK
  <2> QED
    BY <1>13, <2>1, <2>2, <2>3 DEF NodeExit, TypeOK
<1>14. ASSUME NEW s \in Scopes, NEW r \in Rec, KeyLapses(s, r) PROVE TypeOK'
    BY <1>14 DEF KeyLapses, TypeOK
<1>15. ASSUME NEW t \in Targets, NEW r \in Rec, NEW n \in Nodes, OrphanLands(t, r, n)
       PROVE  TypeOK'
  <2>1. Append1(stored[t], {r}) \in [Rec -> Nat]
    BY DEF Append1, TypeOK
  <2> QED
    BY <1>15, <2>1 DEF OrphanLands, TypeOK
<1>16. CASE UNCHANGED vars
    BY <1>16 DEF vars, TypeOK
<1> QED
    BY <1>1, <1>2, <1>3, <1>4, <1>5, <1>6, <1>7, <1>8, <1>9, <1>10, <1>11,
       <1>12, <1>13, <1>14, <1>15, <1>16, <1>17, <1>18
    DEF Next, Session, Environment, Failure

\* Every reachable state is well typed.
THEOREM TypeCorrect == Spec => []TypeOK
<1>1. Init => TypeOK
    BY InitType
<1>2. TypeOK /\ [Next]_vars => TypeOK'
    BY StepType
<1> QED
    BY <1>1, <1>2, PTL DEF Spec

-----------------------------------------------------------------------------
(***************************************************************************)
(* Accounting.                                                             *)
(***************************************************************************)

\* An accounted record stays accounted when sinks and the sets of what was lost
\* only grow and every session that lets go of it has stored it, abandoned it, or
\* had it swallowed by the sink.
LEMMA AccountedStays ==
    ASSUME NEW r \in Rec, Accounted(r),
           \A t \in Targets : Durable(t, r) => Durable(t, r)',
           abandoned \subseteq abandoned', swallowed \subseteq swallowed',
           \A t \in Targets, c \in Conns :
              Holds(c, t, r) =>
                 \/ Durable(t, r)' \/ Holds(c, t, r)'
                 \/ r \in abandoned' \/ <<t, r>> \in swallowed'
    PROVE  Accounted(r)'
<1> SUFFICES ASSUME NEW t \in Targets
             PROVE  \/ Durable(t, r)' \/ InHand(t, r)'
                    \/ r \in abandoned' \/ <<t, r>> \in swallowed'
    BY DEF Accounted
<1>1. CASE InHand(t, r)
    BY <1>1 DEF InHand
<1>2. CASE ~InHand(t, r)
    BY <1>2 DEF Accounted
<1> QED
    BY <1>1, <1>2

\* session.fail() loses no record: what it had claimed is abandoned, and
\* noted as such.
LEMMA FailAccounts ==
    ASSUME TypeOK, SessionShape, NEW b \in Conns, Fail(b), NEW r \in Rec, Accounted(r)
    PROVE  Accounted(r)'
<1>1. \A t \in Targets : Durable(t, r) => Durable(t, r)'
    BY DEF Fail, Durable
<1>2. abandoned \subseteq abandoned' /\ swallowed \subseteq swallowed'
    BY DEF Fail
<1>3. ASSUME NEW t \in Targets, NEW c \in Conns, Holds(c, t, r)
      PROVE  Holds(c, t, r)' \/ r \in abandoned'
  <2>1. CASE c = b
    BY <1>3, <2>1 DEF Fail, Holds
  <2>2. CASE c # b
    BY <1>3, <2>2 DEF Fail, Holds, TypeOK
  <2> QED
    BY <2>1, <2>2
<1> QED
    BY <1>1, <1>2, <1>3, AccountedStays

\* Once accounted for, always accounted for, whatever step is taken.
LEMMA StepAccounts ==
    ASSUME TypeOK, SessionShape, [Next]_vars, NEW r \in Rec, Accounted(r)
    PROVE  Accounted(r)'
<1> USE DEF linkVars, wireVars, sessionVars, deviceVars, historyVars
<1>1. ASSUME UNCHANGED <<stored, fresh, pc, pending, abandoned, swallowed>>
      PROVE  Accounted(r)'
    BY <1>1 DEF Accounted, Durable, InHand, Holds
<1>2. ASSUME NEW b \in Conns, StartPacket(b) PROVE Accounted(r)'
  <2>1. ASSUME NEW t \in Targets, NEW c \in Conns, Holds(c, t, r)
        PROVE  Holds(c, t, r)'
    BY <1>2, <2>1 DEF StartPacket, Holds, SessionShape, TypeOK
  <2> QED
    BY <1>2, <2>1, AccountedStays DEF StartPacket, Durable
<1>3. ASSUME NEW b \in Conns, CheckAndSet(b) PROVE Accounted(r)'
  <2>1. ASSUME NEW t \in Targets, NEW c \in Conns, Holds(c, t, r)
        PROVE  Holds(c, t, r)'
    BY <1>3, <2>1 DEF CheckAndSet, Holds, TypeOK
  <2> QED
    BY <1>3, <2>1, AccountedStays DEF CheckAndSet, Durable
<1>4. ASSUME NEW b \in Conns, StartWrite(b) PROVE Accounted(r)'
  <2>1. ASSUME NEW t \in Targets, NEW c \in Conns, Holds(c, t, r)
        PROVE  Holds(c, t, r)'
    BY <1>4, <2>1 DEF StartWrite, WriteTargets, Holds, SessionShape, TypeOK
  <2> QED
    BY <1>4, <2>1, AccountedStays DEF StartWrite, WriteTargets, Durable
<1>5. ASSUME NEW b \in Conns, NEW u \in Targets, WriteLands(b, u) PROVE Accounted(r)'
  <2>1. \A t \in Targets : Durable(t, r) => Durable(t, r)'
    BY <1>5 DEF WriteLands, Durable, Append1, TypeOK
  <2>2. ASSUME NEW t \in Targets, NEW c \in Conns, Holds(c, t, r)
        PROVE  Durable(t, r)' \/ Holds(c, t, r)'
    <3>1. CASE c = b /\ t = u
      <4>1. r \in fresh[b] /\ stored[u][r] \in Nat
        BY <2>2, <3>1 DEF Holds, TypeOK
      <4>2. stored'[u][r] = stored[u][r] + 1
        BY <1>5, <4>1 DEF WriteLands, Append1, TypeOK
      <4> QED
        BY <3>1, <4>1, <4>2 DEF Durable
    <3>2. CASE ~(c = b /\ t = u)
      BY <1>5, <2>2, <3>2 DEF WriteLands, Holds, TypeOK
    <3> QED
      BY <3>1, <3>2
  <2> QED
    BY <1>5, <2>1, <2>2, AccountedStays DEF WriteLands
<1>6. ASSUME NEW b \in Conns, Acknowledge(b) PROVE Accounted(r)'
  <2>1. ASSUME NEW t \in Targets, NEW c \in Conns, Holds(c, t, r)
        PROVE  Holds(c, t, r)'
    BY <1>6, <2>1 DEF Acknowledge, AckCount, Holds, TypeOK
  <2> QED
    BY <1>6, <2>1, AccountedStays DEF Acknowledge, AckCount, Durable
<1>7. ASSUME NEW n \in Nodes, NodeExit(n) PROVE Accounted(r)'
  <2>1. \A t \in Targets : Durable(t, r) => Durable(t, r)'
    BY <1>7 DEF NodeExit, Durable
  <2>2. abandoned \subseteq abandoned' /\ swallowed \subseteq swallowed'
    BY <1>7 DEF NodeExit
  <2>3. ASSUME NEW t \in Targets, NEW c \in Conns, Holds(c, t, r)
        PROVE  Holds(c, t, r)' \/ r \in abandoned'
    <3>1. pc[c] # "idle" /\ r \in fresh[c]
      BY <2>3 DEF Holds, SessionShape
    <3>2. CASE node[c] = n
      BY <1>7, <3>1, <3>2 DEF NodeExit
    <3>3. CASE node[c] # n
      BY <1>7, <2>3, <3>3 DEF NodeExit, Holds, TypeOK
    <3> QED
      BY <3>2, <3>3
  <2> QED
    BY <2>1, <2>2, <2>3, AccountedStays
<1>8. ASSUME NEW t \in Targets, NEW q \in Rec, NEW n \in Nodes, OrphanLands(t, q, n)
      PROVE  Accounted(r)'
  <2>1. \A u \in Targets : Durable(u, r) => Durable(u, r)'
    BY <1>8 DEF OrphanLands, Durable, Append1, TypeOK
  <2> QED
    BY <1>8, <2>1, AccountedStays DEF OrphanLands, Holds
<1>9. ASSUME NEW c \in Conns, DedupeFails(c) \/ \E t \in Targets : WriteFails(c, t)
      PROVE  Accounted(r)'
    BY <1>9, FailAccounts DEF DedupeFails, WriteFails
<1>10. ASSUME NEW b \in Conns, NEW u \in Targets, WriteIsSwallowed(b, u)
       PROVE  Accounted(r)'
  <2>1. PICK lost \in SUBSET fresh[b] :
          /\ stored' = [stored EXCEPT ![u] = Append1(@, fresh[b] \ lost)]
          /\ swallowed' = swallowed \cup ({u} \X lost)
    BY <1>10 DEF WriteIsSwallowed
  <2>2. \A t \in Targets : Durable(t, r) => Durable(t, r)'
    BY <2>1 DEF Durable, Append1, TypeOK
  <2>3. ASSUME NEW t \in Targets, NEW c \in Conns, Holds(c, t, r)
        PROVE  Durable(t, r)' \/ Holds(c, t, r)' \/ <<t, r>> \in swallowed'
    <3>1. CASE c = b /\ t = u
      <4>1. r \in fresh[b] /\ stored[u][r] \in Nat
        BY <2>3, <3>1 DEF Holds, TypeOK
      <4>2. CASE r \in lost
        BY <2>1, <3>1, <4>2
      <4>3. CASE r \notin lost
        <5>1. stored'[u][r] = stored[u][r] + 1
          BY <2>1, <4>1, <4>3 DEF Append1, TypeOK
        <5> QED
          BY <3>1, <4>1, <5>1 DEF Durable
      <4> QED
        BY <4>2, <4>3
    <3>2. CASE ~(c = b /\ t = u)
      BY <1>10, <2>3, <3>2 DEF WriteIsSwallowed, Holds, TypeOK
    <3> QED
      BY <3>1, <3>2
  <2> QED
    BY <1>10, <2>1, <2>2, <2>3, AccountedStays DEF WriteIsSwallowed
<1> QED
    BY <1>1, <1>2, <1>3, <1>4, <1>5, <1>6, <1>7, <1>8, <1>9, <1>10
    DEF Next, Session, Environment, Failure, Capture, Connect, Send, ReceiveAck,
        Drop, DecodeFails, KeyLapses, vars

-----------------------------------------------------------------------------
(***************************************************************************)
(* The conjuncts of AccountingInv are preserved.                           *)
(***************************************************************************)
\* Every action keeps the shape of a session: writes only in the write stage,
\* nothing outstanding on a dead link, a node behind every session at work.
LEMMA StepShape ==
    ASSUME TypeOK, SessionShape, [Next]_vars
    PROVE  SessionShape'
<1> USE DEF linkVars, wireVars, sessionVars, deviceVars, historyVars, TypeOK, SessionShape
<1>1. ASSUME NEW c \in Conns, NEW d \in Devices, NEW n \in Nodes, Connect(c, d, n)
      PROVE  SessionShape'
    BY <1>1 DEF Connect
<1>2. ASSUME NEW c \in Conns, Send(c) PROVE SessionShape'
    BY <1>2 DEF Send
<1>3. ASSUME NEW c \in Conns, ReceiveAck(c) PROVE SessionShape'
    BY <1>3 DEF ReceiveAck
<1>4. ASSUME NEW c \in Conns, StartPacket(c) PROVE SessionShape'
    BY <1>4 DEF StartPacket
<1>5. ASSUME NEW c \in Conns, CheckAndSet(c) PROVE SessionShape'
    BY <1>5 DEF CheckAndSet
<1>6. ASSUME NEW c \in Conns, StartWrite(c) PROVE SessionShape'
    BY <1>6 DEF StartWrite, WriteTargets
<1>7. ASSUME NEW c \in Conns, NEW t \in Targets, WriteLands(c, t) PROVE SessionShape'
    BY <1>7 DEF WriteLands
<1>11. ASSUME NEW c \in Conns, NEW t \in Targets, WriteIsSwallowed(c, t)
       PROVE  SessionShape'
    BY <1>11 DEF WriteIsSwallowed
<1>8. ASSUME NEW c \in Conns, Acknowledge(c) PROVE SessionShape'
    BY <1>8 DEF Acknowledge, AckCount
<1>9. ASSUME NEW c \in Conns, NEW box, Disconnect(c, box),
             box # <<>> => inbox[c] # <<>>,
             \/ UNCHANGED sessionVars
             \/ /\ pc' = [pc EXCEPT ![c] = "idle"]
                /\ pending' = [pending EXCEPT ![c] = {}]
                /\ UNCHANGED <<frame, todo, fresh>>
      PROVE  SessionShape'
  <2>1. PICK rest \in Received(box) : inbox' = [inbox EXCEPT ![c] = rest]
    BY <1>9 DEF Disconnect
  <2>2. rest # <<>> => box # <<>>
    BY <2>1 DEF Received
  <2> QED
    BY <1>9, <2>1, <2>2 DEF Disconnect
<1>10. ASSUME NEW n \in Nodes, NodeExit(n) PROVE SessionShape'
    BY <1>10 DEF NodeExit
<1> QED
    BY <1>1, <1>2, <1>3, <1>4, <1>5, <1>6, <1>7, <1>8, <1>9, <1>10, <1>11
    DEF Next, Session, Environment, Failure, Capture, Drop, DecodeFails, DedupeFails,
        WriteFails, Fail, KeyLapses, OrphanLands, vars

\* A key enters a dedupe map only by CheckAndSet, which takes its record in
\* hand; so a seen record is accounted for after every step.
LEMMA StepSeen ==
    ASSUME TypeOK, SessionShape, SeenIsAccounted, [Next]_vars
    PROVE  SeenIsAccounted'
<1> SUFFICES ASSUME NEW s \in Scopes, NEW r \in seen'[s]
             PROVE  Accounted(r)'
    BY DEF SeenIsAccounted
<1>1. CASE r \in seen[s]
  <2>1. r \in Rec /\ Accounted(r)
    BY <1>1 DEF SeenIsAccounted, TypeOK
  <2> QED
    BY <2>1, StepAccounts
<1>2. CASE r \notin seen[s]
  <2>1. PICK c \in Conns : CheckAndSet(c)
    BY ZenonT(60), <1>2 DEF Next, Session, Environment, Failure, Capture, Connect, Send,
        ReceiveAck, StartPacket, StartWrite, WriteTargets, WriteLands,
        Acknowledge, AckCount, Drop, DecodeFails, DedupeFails, WriteFails, WriteIsSwallowed, Fail,
        NodeExit, KeyLapses, OrphanLands, vars, TypeOK
  <2>2. r \in fresh'[c] /\ pc'[c] = "dedupe"
    BY <1>2, <2>1 DEF CheckAndSet, SessionShape, TypeOK
  <2> QED
    BY <2>2 DEF Accounted, InHand, Holds
<1> QED
    BY <1>1, <1>2

\* A record of the packet in hand that the deduper has answered for is new,
\* and in hand, or was seen, and accounted for already.
LEMMA StepShown ==
    ASSUME TypeOK, SessionShape, SeenIsAccounted, ShownIsAccounted, [Next]_vars
    PROVE  ShownIsAccounted'
<1> SUFFICES ASSUME NEW c \in Conns, pc'[c] # "idle", NEW r \in frame'[c] \ todo'[c]
             PROVE  Accounted(r)'
    BY DEF ShownIsAccounted
<1> USE DEF linkVars, wireVars, sessionVars, deviceVars, historyVars
<1>1. CASE pc[c] # "idle" /\ r \in frame[c] \ todo[c]
  <2>1. r \in Rec /\ Accounted(r)
    BY <1>1 DEF ShownIsAccounted, TypeOK, Packet
  <2> QED
    BY <2>1, StepAccounts
<1>2. CASE ~(pc[c] # "idle" /\ r \in frame[c] \ todo[c])
  <2>1. ~StartPacket(c)
    BY DEF StartPacket, TypeOK
  <2>2. ASSUME pc'[c] = pc[c] \/ pc'[c] = "idle" \/ pc[c] # "idle",
               frame'[c] = frame[c], todo'[c] = todo[c]
        PROVE  FALSE
    BY <1>2, <2>2
  <2>3. ASSUME NEW b \in Conns, Session(b), ~CheckAndSet(c) PROVE FALSE
    <3>1. CASE b = c
      BY <2>1, <2>2, <2>3, <3>1
      DEF Session, StartWrite, WriteTargets, WriteLands, Acknowledge, AckCount, TypeOK
    <3>2. CASE b # c
      BY <2>2, <2>3, <3>2
      DEF Session, StartPacket, CheckAndSet, StartWrite, WriteTargets, WriteLands,
          Acknowledge, AckCount, TypeOK
    <3> QED
      BY <3>1, <3>2
  <2>4. ASSUME NEW b \in Conns, Fail(b) PROVE FALSE
    BY <2>2, <2>4 DEF Fail, TypeOK
  <2>5. ASSUME NEW n \in Nodes, NodeExit(n) PROVE FALSE
    BY <2>2, <2>5 DEF NodeExit, TypeOK
  <2>6. CheckAndSet(c)
    BY <2>2, <2>3, <2>4, <2>5
    DEF Next, Environment, Failure, Capture, Connect, Send, ReceiveAck, Drop, DecodeFails,
        DedupeFails, WriteFails, WriteIsSwallowed, KeyLapses, OrphanLands, vars
  <2>7. r \in todo[c]
    BY <1>2, <2>6 DEF CheckAndSet
  <2>8. CASE r \in seen[Scope(node[c])]
    <3>1. Accounted(r) /\ r \in Rec
      BY <2>6, <2>7, <2>8, ScopeType
      DEF CheckAndSet, SeenIsAccounted, SessionShape, TypeOK, Packet
    <3> QED
      BY <3>1, StepAccounts
  <2>9. CASE r \notin seen[Scope(node[c])]
    <3>1. r \in fresh'[c] /\ pc'[c] = "dedupe"
      BY <2>6, <2>7, <2>9 DEF CheckAndSet, TypeOK
    <3> QED
      BY <3>1 DEF Accounted, InHand, Holds
  <2> QED
    BY <2>8, <2>9
<1> QED
    BY <1>1, <1>2

\* How LinedUp follows a queue of packets through the four things that happen
\* to it: a packet is sent, its handling starts, it is acknowledged, and the
\* device takes the ack.
LEMMA LinedUpSend ==
    ASSUME NEW S, NEW out \in Seq(S), NEW rest \in Seq(S), NEW n \in Nat,
           NEW w \in {0, 1}, NEW p, NEW q \in S, LinedUp(out, n, w, p, rest)
    PROVE  LinedUp(Append(out, q), n, w, p, Append(rest, q))
<1>1. /\ Len(Append(out, q)) = Len(out) + 1
      /\ Len(Append(rest, q)) = Len(rest) + 1
      /\ \A i \in 1..Len(out) : Append(out, q)[i] = out[i]
      /\ \A i \in 1..Len(rest) : Append(rest, q)[i] = rest[i]
      /\ Append(out, q)[Len(out) + 1] = q
      /\ Append(rest, q)[Len(rest) + 1] = q
      /\ Len(out) \in Nat /\ Len(rest) \in Nat
    BY AppendProperties
<1>2. Len(out) = n + w + Len(rest) /\ w \in Nat
    BY DEF LinedUp
<1>3. Len(Append(out, q)) = n + w + Len(Append(rest, q))
    BY <1>1, <1>2
<1>4. w = 1 => Append(out, q)[n + 1] = p
    BY <1>1, <1>2 DEF LinedUp
<1>5. ASSUME NEW i \in 1..Len(Append(rest, q))
      PROVE  Append(rest, q)[i] = Append(out, q)[n + w + i]
  <2>1. CASE i \in 1..Len(rest)
    <3>1. rest[i] = out[n + w + i] /\ n + w + i \in 1..Len(out)
      BY <1>2, <2>1 DEF LinedUp
    <3> QED
      BY <1>1, <2>1, <3>1
  <2>2. CASE i = Len(rest) + 1
    <3>1. n + w + i = Len(out) + 1
      BY <1>1, <1>2, <2>2
    <3> QED
      BY <1>1, <2>2, <3>1
  <2>3. i \in 1..Len(rest) \/ i = Len(rest) + 1
    <3>1. i \in 1..(Len(rest) + 1) /\ Len(rest) \in Nat
      BY <1>1
    <3> QED
      BY <3>1
  <2> QED
    BY <2>1, <2>2, <2>3
<1> QED
    BY <1>3, <1>4, <1>5 DEF LinedUp

\* The packet at the head of the queue is taken in hand.
LEMMA LinedUpStart ==
    ASSUME NEW S, NEW out \in Seq(S), NEW rest \in Seq(S), NEW n \in Nat,
           NEW p, rest # <<>>, LinedUp(out, n, 0, p, rest)
    PROVE  LinedUp(out, n, 1, Head(rest), Tail(rest))
<1>1. /\ Len(Tail(rest)) = Len(rest) - 1
      /\ \A i \in 1..Len(Tail(rest)) : Tail(rest)[i] = rest[i + 1]
      /\ Head(rest) = rest[1]
      /\ Len(out) \in Nat /\ Len(rest) \in Nat \ {0}
    BY HeadTailProperties, EmptySeq
<1> QED
    BY SMTT(30), <1>1 DEF LinedUp

\* The packet in hand is answered.
LEMMA LinedUpAcknowledge ==
    ASSUME NEW S, NEW out \in Seq(S), NEW rest \in Seq(S), NEW n \in Nat,
           NEW p, LinedUp(out, n, 1, p, rest)
    PROVE  LinedUp(out, n + 1, 0, p, rest)
<1>1. Len(out) \in Nat /\ Len(rest) \in Nat
    OBVIOUS
<1> QED
    BY <1>1 DEF LinedUp

\* The device takes the oldest ack and forgets the packet it answers.
LEMMA LinedUpTake ==
    ASSUME NEW S, NEW out \in Seq(S), NEW rest \in Seq(S), NEW n \in Nat \ {0},
           NEW w \in {0, 1}, NEW p, out # <<>>, LinedUp(out, n, w, p, rest)
    PROVE  LinedUp(Tail(out), n - 1, w, p, rest)
<1>1. /\ Len(Tail(out)) = Len(out) - 1
      /\ \A i \in 1..Len(Tail(out)) : Tail(out)[i] = out[i + 1]
      /\ Len(out) \in Nat /\ Len(rest) \in Nat
    BY HeadTailProperties, EmptySeq
<1>2. CASE w = 0
    BY <1>1, <1>2 DEF LinedUp
<1>3. CASE w = 1
    BY <1>1, <1>3 DEF LinedUp
<1> QED
    BY <1>2, <1>3

\* Acknowledged packets stay accounted for.
LEMMA AckedPacketStays ==
    ASSUME TypeOK, SessionShape, [Next]_vars, NEW c \in Conns,
           NEW i \in DOMAIN outstanding[c],
           \A r \in outstanding[c][i] : Accounted(r)
    PROVE  \A r \in outstanding[c][i] : Accounted(r)'
<1>1. \A r \in outstanding[c][i] : r \in Rec
    BY DEF TypeOK, Packet
<1> QED
    BY <1>1, StepAccounts

\* The packets that have been acknowledged are among those outstanding.
LEMMA AckedWithinSent ==
    ASSUME TypeOK, NEW c \in Conns, Aligned(c)
    PROVE  /\ Len(acks[c]) + InWork(c) <= Len(outstanding[c])
           /\ \A i \in 1..Len(acks[c]) : i \in DOMAIN outstanding[c]
<1>1. /\ Len(outstanding[c]) \in Nat /\ Len(acks[c]) \in Nat /\ Len(inbox[c]) \in Nat
      /\ DOMAIN outstanding[c] = 1..Len(outstanding[c])
    BY DEF TypeOK
<1>2. Len(outstanding[c]) = Len(acks[c]) + InWork(c) + Len(inbox[c])
    BY DEF Aligned, LinedUp
<1>3. InWork(c) \in {0, 1}
    BY DEF InWork
<1>4. \A a, b, d \in Nat, w \in {0, 1} :
        b = a + w + d => a + w <= b /\ 1..a \subseteq 1..b
    OBVIOUS
<1> QED
    BY <1>1, <1>2, <1>3, <1>4

\* A connection whose queues and stage are left alone keeps its alignment.
LEMMA AlignedStays ==
    ASSUME TypeOK, SessionShape, [Next]_vars, NEW c \in Conns, Aligned(c),
           outstanding'[c] = outstanding[c], acks'[c] = acks[c],
           inbox'[c] = inbox[c], frame'[c] = frame[c],
           (pc[c] = "idle") <=> (pc'[c] = "idle")
    PROVE  Aligned(c)'
<1>1. InWork(c)' = InWork(c)
    BY DEF InWork
<1>2. LinedUp(outstanding[c], Len(acks[c]), InWork(c), frame[c], inbox[c])'
    BY <1>1 DEF Aligned, LinedUp
<1>3. \A i \in 1..Len(acks[c]) : i \in DOMAIN outstanding[c]
    BY DEF Aligned, LinedUp, InWork, TypeOK
<1> QED
    BY <1>2, <1>3, AckedPacketStays DEF Aligned

\* A new connection starts with empty queues.
LEMMA AlignedConnect ==
    ASSUME TypeOK, SessionShape, NEW c \in Conns, NEW d \in Devices, NEW n \in Nodes,
           Connect(c, d, n)
    PROVE  Aligned(c)'
<1>1. /\ acks'[c] = <<>> /\ outstanding'[c] = <<>> /\ inbox'[c] = <<>>
      /\ pc'[c] = "idle"
    BY DEF Connect, Finished, SessionShape, deviceVars, wireVars, sessionVars
<1> QED
    BY <1>1 DEF Aligned, LinedUp, InWork

\* A packet sent joins the end of both queues, the device's and the wire's.
LEMMA AlignedSend ==
    ASSUME TypeOK, SessionShape, [Next]_vars, NEW c \in Conns, Aligned(c), Send(c)
    PROVE  Aligned(c)'
<1> DEFINE out == outstanding[c]
<1>1. PICK p \in SUBSET Unsent(c) :
        /\ outstanding' = [outstanding EXCEPT ![c] = Append(@, p)]
        /\ inbox' = [inbox EXCEPT ![c] = Append(@, p)]
    BY DEF Send
<1>2. p \in Packet
    BY <1>1 DEF Unsent, TypeOK, Packet
<1>3. /\ out \in Seq(Packet) /\ inbox[c] \in Seq(Packet) /\ Len(acks[c]) \in Nat
      /\ outstanding'[c] = Append(out, p) /\ inbox'[c] = Append(inbox[c], p)
      /\ acks'[c] = acks[c] /\ frame'[c] = frame[c]
      /\ InWork(c) \in {0, 1} /\ InWork(c)' = InWork(c)
    BY <1>1 DEF TypeOK, Send, InWork, sessionVars
<1>4. LinedUp(outstanding[c], Len(acks[c]), InWork(c), frame[c], inbox[c])'
  <2>1. LinedUp(Append(out, p), Len(acks[c]), InWork(c), frame[c],
                Append(inbox[c], p))
    BY <1>2, <1>3, LinedUpSend DEF Aligned
  <2> QED
    BY <2>1, <1>3 DEF LinedUp
<1>5. ASSUME NEW i \in 1..Len(acks[c])
      PROVE  i \in DOMAIN out /\ outstanding'[c][i] = out[i]
  <2>1. i \in 1..Len(out)
    BY SMTT(30), <1>3 DEF Aligned, LinedUp
  <2> QED
    BY <2>1, <1>2, <1>3, AppendProperties
<1> QED
    BY <1>3, <1>4, <1>5, AckedPacketStays DEF Aligned

\* Taking an ack removes the packet it answers from the head.
LEMMA AlignedReceiveAck ==
    ASSUME TypeOK, SessionShape, [Next]_vars, NEW c \in Conns, Aligned(c), ReceiveAck(c)
    PROVE  Aligned(c)'
<1> DEFINE out == outstanding[c]
           ack == acks[c]
<1>1. /\ out \in Seq(Packet) /\ inbox[c] \in Seq(Packet) /\ ack \in Seq(Nat)
      /\ out # <<>> /\ ack # <<>>
      /\ outstanding'[c] = Tail(out) /\ acks'[c] = Tail(ack)
      /\ inbox'[c] = inbox[c] /\ frame'[c] = frame[c]
      /\ InWork(c) \in {0, 1} /\ InWork(c)' = InWork(c)
    BY DEF TypeOK, ReceiveAck, InWork, sessionVars
<1>2. /\ Len(ack) \in Nat \ {0} /\ Len(Tail(ack)) = Len(ack) - 1
      /\ \A i \in 1..Len(Tail(ack)) : Tail(ack)[i] = ack[i + 1]
    BY <1>1, HeadTailProperties, EmptySeq
<1>3. /\ Len(Tail(out)) = Len(out) - 1
      /\ \A i \in 1..Len(Tail(out)) : Tail(out)[i] = out[i + 1]
    BY <1>1, HeadTailProperties, EmptySeq
<1>4. LinedUp(outstanding[c], Len(acks[c]), InWork(c), frame[c], inbox[c])'
  <2>1. LinedUp(Tail(out), Len(ack) - 1, InWork(c), frame[c], inbox[c])
    BY <1>1, <1>2, LinedUpTake DEF Aligned
  <2> QED
    BY <2>1, <1>1, <1>2 DEF LinedUp
<1>5. ASSUME NEW i \in 1..Len(Tail(ack))
      PROVE  /\ i + 1 \in 1..Len(ack) /\ i + 1 \in DOMAIN out
             /\ Tail(out)[i] = out[i + 1] /\ Tail(ack)[i] = ack[i + 1]
  <2>1. i + 1 \in 1..Len(ack)
    BY <1>2
  <2>2. Len(ack) <= Len(out)
    BY <1>1 DEF Aligned, LinedUp
  <2>3. i + 1 \in 1..Len(out) /\ i \in 1..Len(Tail(out))
    BY <2>1, <2>2, <1>1, <1>3
  <2> QED
    BY <2>1, <2>3, <1>1, <1>2, <1>3
<1>6. ASSUME NEW i \in 1..Len(Tail(ack))
      PROVE  /\ Tail(ack)[i] = Cardinality(Tail(out)[i])
             /\ \A r \in Tail(out)[i] : Accounted(r)'
    BY <1>5, AckedPacketStays DEF Aligned
<1> QED
    BY <1>1, <1>4, <1>6 DEF Aligned

\* Taking a packet in hand moves it from the inbox, in order.
LEMMA AlignedStartPacket ==
    ASSUME TypeOK, SessionShape, [Next]_vars, NEW c \in Conns, Aligned(c), StartPacket(c)
    PROVE  Aligned(c)'
<1>1. /\ outstanding[c] \in Seq(Packet) /\ inbox[c] \in Seq(Packet)
      /\ Len(acks[c]) \in Nat /\ inbox[c] # <<>>
      /\ outstanding'[c] = outstanding[c] /\ acks'[c] = acks[c]
      /\ inbox'[c] = Tail(inbox[c]) /\ frame'[c] = Head(inbox[c])
      /\ InWork(c) = 0 /\ InWork(c)' = 1
    BY DEF TypeOK, StartPacket, InWork, deviceVars
<1>2. LinedUp(outstanding[c], Len(acks[c]), InWork(c), frame[c], inbox[c])'
  <2>1. LinedUp(outstanding[c], Len(acks[c]), 1, Head(inbox[c]), Tail(inbox[c]))
    BY <1>1, LinedUpStart DEF Aligned
  <2> QED
    BY <2>1, <1>1 DEF LinedUp
<1>3. \A i \in 1..Len(acks[c]) : i \in DOMAIN outstanding[c]
    BY AckedWithinSent
<1> QED
    BY <1>1, <1>2, <1>3, AckedPacketStays DEF Aligned

\* The ack that joins the queue answers the packet in hand, all of whose
\* records have been shown to the deduper.
LEMMA AlignedAcknowledge ==
    ASSUME TypeOK, SessionShape, ShownIsAccounted, [Next]_vars,
           NEW c \in Conns, link[c] = "up", Aligned(c), Acknowledge(c)
    PROVE  Aligned(c)'
<1> DEFINE ack == acks[c]
           size == Cardinality(frame[c])
<1>1. size \in Nat
    BY PacketSize DEF TypeOK
<1>2. /\ outstanding[c] \in Seq(Packet) /\ inbox[c] \in Seq(Packet)
      /\ ack \in Seq(Nat) /\ Len(ack) \in Nat
      /\ outstanding'[c] = outstanding[c] /\ acks'[c] = Append(ack, size)
      /\ inbox'[c] = inbox[c] /\ frame'[c] = frame[c]
      /\ InWork(c) = 1 /\ InWork(c)' = 0
    BY DEF TypeOK, Acknowledge, AckCount, InWork, deviceVars
<1>3. /\ Len(Append(ack, size)) = Len(ack) + 1
      /\ \A i \in 1..Len(ack) : Append(ack, size)[i] = ack[i]
      /\ Append(ack, size)[Len(ack) + 1] = size
    BY <1>1, <1>2, AppendProperties
<1>4. LinedUp(outstanding[c], Len(acks[c]), InWork(c), frame[c], inbox[c])'
  <2>1. LinedUp(outstanding[c], Len(ack) + 1, 0, frame[c], inbox[c])
    BY <1>2, LinedUpAcknowledge DEF Aligned
  <2>2. Len(acks'[c]) = Len(ack) + 1
    BY <1>2, <1>3
  <2> QED
    BY <2>1, <2>2, <1>2
<1>5. ASSUME NEW i \in 1..(Len(ack) + 1)
      PROVE  /\ i \in DOMAIN outstanding[c]
             /\ Append(ack, size)[i] = Cardinality(outstanding[c][i])
             /\ \A r \in outstanding[c][i] : Accounted(r)
  <2>1. i \in DOMAIN outstanding[c]
    <3>1. Len(ack) + 1 <= Len(outstanding[c])
      BY <1>2, AckedWithinSent
    <3> QED
      BY <1>2, <3>1
  <2>2. CASE i \in 1..Len(ack)
    BY <1>3, <2>1, <2>2 DEF Aligned
  <2>3. CASE i = Len(ack) + 1
    <3>1. outstanding[c][i] = frame[c]
      BY <1>2, <2>3 DEF Aligned, LinedUp
    <3>2. \A r \in frame[c] : Accounted(r)
      BY DEF Acknowledge, AckCount, SessionShape, ShownIsAccounted
    <3> QED
      BY <1>3, <2>1, <2>3, <3>1, <3>2
  <2> QED
    BY <1>2, <2>2, <2>3
<1> QED
    BY <1>2, <1>3, <1>4, <1>5, AckedPacketStays DEF Aligned

\* A live connection keeps its packets and acks aligned through every step.
LEMMA StepAligned ==
    ASSUME TypeOK, SessionShape, ShownIsAccounted, [Next]_vars, NEW c \in Conns,
           link[c] = "up" => Aligned(c), link'[c] = "up"
    PROVE  Aligned(c)'
<1> USE DEF linkVars, wireVars, sessionVars, deviceVars, historyVars
<1>1. ASSUME NEW b \in Conns, NEW d \in Devices, NEW n \in Nodes, Connect(b, d, n)
      PROVE  Aligned(c)'
  <2>1. CASE b = c
    BY <1>1, <2>1, AlignedConnect
  <2>2. CASE b # c
    BY <1>1, <2>2, AlignedStays DEF Connect, TypeOK
  <2> QED
    BY <2>1, <2>2
<1>2. ASSUME NEW b \in Conns, Send(b) PROVE Aligned(c)'
  <2>1. CASE b = c
    BY <1>2, <2>1, AlignedSend DEF Send
  <2>2. CASE b # c
    BY <1>2, <2>2, AlignedStays DEF Send, TypeOK
  <2> QED
    BY <2>1, <2>2
<1>3. ASSUME NEW b \in Conns, ReceiveAck(b) PROVE Aligned(c)'
  <2>1. CASE b = c
    BY <1>3, <2>1, AlignedReceiveAck DEF ReceiveAck
  <2>2. CASE b # c
    BY <1>3, <2>2, AlignedStays DEF ReceiveAck, TypeOK
  <2> QED
    BY <2>1, <2>2
<1>4. ASSUME NEW b \in Conns, StartPacket(b) PROVE Aligned(c)'
  <2>1. CASE b = c
    BY <1>4, <2>1, AlignedStartPacket DEF StartPacket
  <2>2. CASE b # c
    BY <1>4, <2>2, AlignedStays DEF StartPacket, TypeOK
  <2> QED
    BY <2>1, <2>2
<1>5. ASSUME NEW b \in Conns, Acknowledge(b) PROVE Aligned(c)'
  <2>1. CASE b = c
    BY <1>5, <2>1, AlignedAcknowledge DEF Acknowledge, AckCount
  <2>2. CASE b # c
    BY <1>5, <2>2, AlignedStays DEF Acknowledge, AckCount, TypeOK
  <2> QED
    BY <2>1, <2>2
<1>6. ASSUME NEW b \in Conns,
             CheckAndSet(b) \/ StartWrite(b) \/ \E t \in Targets : WriteLands(b, t)
      PROVE  Aligned(c)'
    BY <1>6, AlignedStays DEF CheckAndSet, StartWrite, WriteTargets, WriteLands, TypeOK
<1>11. ASSUME NEW b \in Conns, NEW t \in Targets, WriteIsSwallowed(b, t)
       PROVE  Aligned(c)'
    BY <1>11, AlignedStays DEF WriteIsSwallowed, TypeOK
<1>7. ASSUME NEW b \in Conns, Drop(b) \/ DecodeFails(b) PROVE Aligned(c)'
    BY <1>7, AlignedStays DEF Drop, DecodeFails, Disconnect, TypeOK
<1>8. ASSUME NEW b \in Conns, Fail(b) PROVE Aligned(c)'
    BY <1>8, AlignedStays DEF Fail, Disconnect, TypeOK
<1>9. ASSUME NEW n \in Nodes, NodeExit(n) PROVE Aligned(c)'
    BY <1>9, AlignedStays DEF NodeExit, TypeOK
<1>10. ASSUME UNCHANGED <<linkVars, wireVars, sessionVars, outstanding>>
       PROVE  Aligned(c)'
    BY <1>10, AlignedStays
<1> QED
    BY <1>1, <1>2, <1>3, <1>4, <1>5, <1>6, <1>7, <1>8, <1>9, <1>10, <1>11
    DEF Next, Session, Environment, Failure, Capture, DedupeFails, WriteFails,
        KeyLapses, OrphanLands, vars

\* Flash only shrinks when an ack is taken, by the packet it answers.
LEMMA StepAcked ==
    ASSUME AccountingInv, [Next]_vars
    PROVE  AckedIsAccounted'
<1> SUFFICES ASSUME NEW r \in Acked' PROVE Accounted(r)'
    BY DEF AckedIsAccounted
<1> USE DEF AccountingInv, linkVars, wireVars, sessionVars, deviceVars, historyVars
<1>1. r \in Rec
    BY DEF Acked
<1>2. CASE r \in Acked
    BY <1>1, <1>2, StepAccounts DEF AckedIsAccounted
<1>3. CASE r \notin Acked
  <2>1. CASE \E c \in Conns : ReceiveAck(c) /\ r \in outstanding[c][1]
    <3>1. PICK c \in Conns : ReceiveAck(c) /\ r \in outstanding[c][1]
      BY <2>1
    <3>2. link[c] = "up" /\ 1 \in 1..Len(acks[c])
      BY <3>1 DEF ReceiveAck, SessionShape, TypeOK
    <3> QED
      BY <1>1, <3>1, <3>2, StepAccounts DEF Aligned
  <2>2. CASE \E d \in Devices : Capture(d)
    <3>1. PICK d \in Devices : Capture(d)
      BY <2>2
    <3>2. CASE r[1] = d
      BY <1>1, <1>3, <3>1, <3>2 DEF Capture, Acked, TypeOK, Rec
    <3>3. CASE r[1] # d
      BY <1>1, <1>3, <3>1, <3>3 DEF Capture, Acked, TypeOK, Rec
    <3> QED
      BY <3>2, <3>3
  <2>3. CASE captured' = captured /\ flash' = flash
    BY <1>3, <2>3 DEF Acked
  <2>4. ASSUME NEW c \in Conns, ReceiveAck(c), r \notin outstanding[c][1]
        PROVE  FALSE
    <3>1. Head(outstanding[c]) = outstanding[c][1]
      BY <2>4, HeadTailProperties DEF ReceiveAck, TypeOK
    <3> QED
      BY <1>3, <2>4, <3>1 DEF ReceiveAck, Acked
  <2> QED
    BY <2>1, <2>2, <2>3, <2>4
    DEF Next, Session, Environment, Failure, Connect, Send, StartPacket,
        CheckAndSet, StartWrite, WriteTargets, WriteLands, Acknowledge, AckCount,
        Drop, DecodeFails, DedupeFails, WriteFails, WriteIsSwallowed, Fail, Disconnect, NodeExit, KeyLapses, OrphanLands, vars
<1> QED
    BY <1>2, <1>3

-----------------------------------------------------------------------------
(***************************************************************************)
(* The theorems.                                                           *)
(***************************************************************************)

\* The inductive invariant behind the theorems on records and acks.
LEMMA AccountingInvariant == Spec => []AccountingInv
<1>1. Init => AccountingInv
  <2> SUFFICES ASSUME Init PROVE AccountingInv
    OBVIOUS
  <2>1. TypeOK
    BY InitType
  <2>2. SessionShape /\ SeenIsAccounted /\ ShownIsAccounted
    BY DEF Init, SessionShape, SeenIsAccounted, ShownIsAccounted
  <2>3. Acked = {}
    BY DEF Init, Acked, Rec
  <2>4. \A c \in Conns : link[c] # "up"
    BY DEF Init
  <2> QED
    BY <2>1, <2>2, <2>3, <2>4 DEF AccountingInv, AckedIsAccounted
<1>2. AccountingInv /\ [Next]_vars => AccountingInv'
  <2> SUFFICES ASSUME AccountingInv, [Next]_vars PROVE AccountingInv'
    OBVIOUS
  <2>1. TypeOK'
    BY StepType DEF AccountingInv
  <2>2. SessionShape'
    BY StepShape DEF AccountingInv
  <2>3. SeenIsAccounted'
    BY StepSeen DEF AccountingInv
  <2>4. ShownIsAccounted'
    BY StepShown DEF AccountingInv
  <2>5. (\A c \in Conns : link[c] = "up" => Aligned(c))'
    BY StepAligned DEF AccountingInv
  <2>6. AckedIsAccounted'
    BY StepAcked
  <2> QED
    BY <2>1, <2>2, <2>3, <2>4, <2>5, <2>6 DEF AccountingInv
<1> QED
    BY <1>1, <1>2, PTL DEF Spec

\* Whatever fails, a record the device has deleted is, at each sink, stored or on
\* its way; or a session had claimed it and then rejected, or ended with its
\* process; or the sink is one of those that resolve although entries fail, and it
\* took the write without it.
THEOREM NothingElseIsLost == Spec => []AckedIsAccounted
<1>1. AccountingInv => AckedIsAccounted
    BY DEF AccountingInv
<1> QED
    BY <1>1, AccountingInvariant, PTL

\* Acks answer packets in the order they were sent, with their own sizes.
THEOREM AcksInOrder == Spec => []AcksMatchPackets
<1>1. AccountingInv => AcksMatchPackets
  <2> SUFFICES ASSUME AccountingInv, NEW c \in Conns, link[c] = "up"
               PROVE  /\ Len(acks[c]) <= Len(outstanding[c])
                      /\ \A i \in DOMAIN acks[c] :
                            acks[c][i] = Cardinality(outstanding[c][i])
    BY DEF AcksMatchPackets
  <2>1. Aligned(c) /\ TypeOK
    BY DEF AccountingInv
  <2>2. Len(acks[c]) <= Len(outstanding[c])
    <3>1. Len(acks[c]) \in Nat /\ Len(outstanding[c]) \in Nat /\ InWork(c) \in {0, 1}
      BY <2>1 DEF TypeOK, InWork
    <3>2. CASE InWork(c) = 0
      BY <2>1, <3>1, <3>2, AckedWithinSent
    <3>3. CASE InWork(c) = 1
      BY <2>1, <3>1, <3>3, AckedWithinSent
    <3> QED
      BY <3>1, <3>2, <3>3
  <2>3. DOMAIN acks[c] = 1..Len(acks[c])
    BY <2>1 DEF TypeOK
  <2> QED
    BY <2>1, <2>2, <2>3 DEF Aligned
<1> QED
    BY <1>1, AccountingInvariant, PTL

\* Where no sink or Redis call is rejected and no process ends, nothing is
\* ever abandoned, so a deleted record is stored or on its way: lost links,
\* Duplicate mode and lapsed keys are all harmless then.
THEOREM HeldWithoutFailures ==
    ASSUME ~BackendMayFail, ~NodesMayExit
    PROVE  Spec => []AckedIsHeld
<1> DEFINE NothingLost == abandoned = {} /\ swallowed = {}
<1>1. Init => NothingLost
    BY DEF Init
<1>2. NothingLost /\ [Next]_vars => NothingLost'
    BY DEF Next, Session, Environment, Failure, Capture, Connect, Send,
        ReceiveAck, StartPacket, CheckAndSet, StartWrite, WriteTargets, WriteLands,
        Acknowledge, AckCount, Drop, DecodeFails, DedupeFails, WriteFails, WriteIsSwallowed,
        NodeExit, KeyLapses, OrphanLands, historyVars, vars
<1>3. AckedIsAccounted /\ NothingLost => AckedIsHeld
    BY DEF AckedIsAccounted, Accounted, AckedIsHeld
<1> QED
    BY <1>1, <1>2, <1>3, NothingElseIsLost, PTL DEF Spec, NothingLost

-----------------------------------------------------------------------------
(***************************************************************************)
(* Exactly one copy.  A write of a record to a sink is, from the moment    *)
(* the record is called new, in one place only: in the hands of a session, *)
(* among the writes nobody waits for any more, or in the sink.             *)
(***************************************************************************)
OneCopyInv ==
    /\ StoredOnce
    \* The key of whatever is claimed, on its way or stored is set.
    /\ \A c \in Conns : pc[c] # "idle" => fresh[c] \subseteq seen[Shared]
    /\ \A o \in orphans : o[2] \in seen[Shared]
    /\ \A t \in Targets, r \in Rec : Durable(t, r) => r \in seen[Shared]
    \* A write that was left behind is the only one of its record to its sink.
    /\ \A o \in orphans :
          /\ ~Durable(o[1], o[2])
          /\ \A c \in Conns : pc[c] # "idle" => o[2] \notin fresh[c]
          /\ \A p \in orphans : o[1] = p[1] /\ o[2] = p[2] => o = p

\* The actions that make no claim and no copy, and at most give some up.
LEMMA OneCopyUntouched ==
    ASSUME OneCopyInv, TypeOK,
           orphans' \subseteq orphans, seen'[Shared] = seen[Shared], UNCHANGED stored,
           \A c \in Conns :
              \/ pc'[c] = pc[c] /\ fresh'[c] = fresh[c] /\ pending'[c] = pending[c]
              \/ pc'[c] = "idle" /\ pending'[c] = {}
              \/ fresh'[c] = {}
              \/ pc[c] = "dedupe" /\ pc'[c] = "write" /\ fresh'[c] = fresh[c]
    PROVE  OneCopyInv'
<1>1. \A c \in Conns, t \in Targets, r \in Rec : Holds(c, t, r)' => Holds(c, t, r)
    BY DEF Holds
<1>2. StoredOnce'
  <2>1. \A t \in Targets, r \in Rec : Durable(t, r)' => ~InHand(t, r)'
    BY <1>1 DEF OneCopyInv, StoredOnce, Durable, InHand
  <2>2. \A b, c \in Conns :
            b # c /\ pc'[b] # "idle" /\ pc'[c] # "idle" => fresh'[b] \cap fresh'[c] = {}
    BY DEF OneCopyInv, StoredOnce
  <2> QED
    BY <2>1, <2>2 DEF OneCopyInv, StoredOnce
<1>3. \A c \in Conns : pc'[c] # "idle" => fresh'[c] \subseteq seen'[Shared]
    BY DEF OneCopyInv
<1>4. \A c \in Conns : pc'[c] # "idle" => \A o \in orphans : o[2] \notin fresh'[c]
    BY DEF OneCopyInv
<1> QED
    BY <1>2, <1>3, <1>4 DEF OneCopyInv, Durable

\* A record is new to one session only.
LEMMA OneCopyCheck ==
    ASSUME SharedDeduper, OneCopyInv, TypeOK, SessionShape,
           NEW c \in Conns, CheckAndSet(c)
    PROVE  OneCopyInv'
<1>1. PICK r \in todo[c] :
          /\ fresh' = [fresh EXCEPT ![c] = IF r \in seen[Shared] THEN @ ELSE @ \cup {r}]
          /\ seen' = [seen EXCEPT ![Shared] = @ \cup {r}]
    BY DEF CheckAndSet, Scope
<1>2. pc[c] = "dedupe" /\ UNCHANGED <<pc, pending, orphans, stored>> /\ r \in Rec
    BY <1>1 DEF CheckAndSet, TypeOK, Packet
<1>3. /\ seen'[Shared] = seen[Shared] \cup {r}
      /\ \A b \in Conns : fresh'[b] = IF b = c /\ r \notin seen[Shared]
                                      THEN fresh[b] \cup {r} ELSE fresh[b]
    BY <1>1 DEF TypeOK, Scopes
<1>4. CASE r \in seen[Shared]
  <2>1. \A b \in Conns : fresh'[b] = fresh[b]
    BY <1>3, <1>4
  <2> QED
    BY <1>2, <1>3, <2>1 DEF OneCopyInv, StoredOnce, Durable, InHand, Holds
<1>5. CASE r \notin seen[Shared]
  <2>1. \A b \in Conns : pc[b] # "idle" => r \notin fresh[b]
    BY <1>5 DEF OneCopyInv
  <2>2. \A t \in Targets : ~Durable(t, r)
    BY <1>2, <1>5 DEF OneCopyInv
  <2>3. \A o \in orphans : o[2] # r
    BY <1>5 DEF OneCopyInv
  <2>4. StoredOnce'
    <3>1. ASSUME NEW t \in Targets, NEW q \in Rec, Durable(t, q)' PROVE ~InHand(t, q)'
      <4>1. q # r /\ ~InHand(t, q)
        BY <1>2, <2>2, <3>1 DEF OneCopyInv, StoredOnce, Durable
      <4>2. \A b \in Conns : q \in fresh'[b] => q \in fresh[b]
        BY <1>3, <4>1
      <4> QED
        BY <1>2, <4>1, <4>2 DEF InHand, Holds
    <3>2. ASSUME NEW a \in Conns, NEW b \in Conns,
                 a # b, pc'[a] # "idle", pc'[b] # "idle"
          PROVE  fresh'[a] \cap fresh'[b] = {}
      BY ZenonT(60), <1>2, <1>3, <2>1, <3>2 DEF OneCopyInv, StoredOnce
    <3> QED
      BY <1>2, <3>1, <3>2 DEF OneCopyInv, StoredOnce
  <2>5. \A b \in Conns : pc'[b] # "idle" => fresh'[b] \subseteq seen'[Shared]
    BY <1>2, <1>3 DEF OneCopyInv
  <2>6. \A o \in orphans : \A b \in Conns : pc'[b] # "idle" => o[2] \notin fresh'[b]
    BY ZenonT(60), <1>2, <1>3, <2>3 DEF OneCopyInv
  <2>7. \A t \in Targets, q \in Rec : Durable(t, q) => q \in seen'[Shared]
    BY <1>3 DEF OneCopyInv
  <2> QED
    BY <1>2, <1>3, <2>4, <2>5, <2>6, <2>7 DEF OneCopyInv, Durable
<1> QED
    BY <1>4, <1>5

\* What settles, landed or swallowed, was held by its session only, and is held
\* no more.
LEMMA OneCopySettles ==
    ASSUME OneCopyInv, TypeOK, SessionShape,
           NEW c \in Conns, NEW t \in pending[c], NEW landed \in SUBSET fresh[c],
           pending' = [pending EXCEPT ![c] = @ \ {t}],
           stored' = [stored EXCEPT ![t] = Append1(@, landed)],
           UNCHANGED <<pc, fresh, orphans, seen>>
    PROVE  OneCopyInv'
<1>1. /\ t \in Targets /\ t \in pending[c]
      /\ stored' = [stored EXCEPT ![t] = Append1(@, landed)]
      /\ pending' = [pending EXCEPT ![c] = @ \ {t}]
      /\ UNCHANGED <<pc, fresh, orphans, seen>>
    BY DEF TypeOK
<1>2. pc[c] = "write" /\ fresh[c] \subseteq Rec
    BY <1>1 DEF SessionShape, TypeOK, Packet
<1>3. \A r \in fresh[c] : stored[t][r] = 0
  <2> SUFFICES ASSUME NEW r \in fresh[c] PROVE stored[t][r] = 0
    OBVIOUS
  <2>1. InHand(t, r) /\ stored[t][r] \in Nat
    BY <1>1, <1>2 DEF InHand, Holds, TypeOK
  <2>2. ~Durable(t, r)
    BY <1>1, <1>2, <2>1 DEF OneCopyInv, StoredOnce
  <2> QED
    BY <2>1, <2>2 DEF Durable
<1>4. \A u \in Targets, r \in Rec :
          stored'[u][r] = IF u = t /\ r \in landed THEN 1 ELSE stored[u][r]
    BY <1>1, <1>3 DEF TypeOK, Append1
<1>5. \A b \in Conns : pending'[b] = IF b = c THEN pending[b] \ {t} ELSE pending[b]
    BY <1>1 DEF TypeOK
<1>6. StoredOnce'
  <2>1. ASSUME NEW u \in Targets, NEW r \in Rec, Durable(u, r)', InHand(u, r)'
        PROVE  FALSE
    <3>1. PICK b \in Conns : r \in fresh[b] /\ (pc[b] = "dedupe" \/ u \in pending'[b])
      BY <1>1, <2>1 DEF InHand, Holds
    <3>2. CASE u = t /\ r \in landed
      <4>1. b = c
        BY <1>1, <1>2, <1>5, <3>1, <3>2 DEF OneCopyInv, StoredOnce, SessionShape
      <4> QED
        BY <1>2, <1>5, <3>1, <3>2, <4>1
    <3>3. CASE ~(u = t /\ r \in landed)
      <4>1. Durable(u, r)
        BY <1>4, <2>1, <3>3 DEF Durable
      <4>2. InHand(u, r)
        BY <1>5, <3>1 DEF InHand, Holds
      <4> QED
        BY <4>1, <4>2 DEF OneCopyInv, StoredOnce
    <3> QED
      BY <3>2, <3>3
  <2>2. \A u \in Targets, r \in Rec : stored'[u][r] <= 1
    BY <1>4 DEF OneCopyInv, StoredOnce
  <2> QED
    BY <1>1, <2>1, <2>2 DEF OneCopyInv, StoredOnce
<1>7. \A u \in Targets, r \in Rec : Durable(u, r)' => r \in seen[Shared]
    BY <1>2, <1>4 DEF OneCopyInv, Durable
<1>8. \A o \in orphans : ~Durable(o[1], o[2])'
  <2> SUFFICES ASSUME NEW o \in orphans PROVE ~Durable(o[1], o[2])'
    OBVIOUS
  <2>1. o[1] \in Targets /\ o[2] \in Rec /\ o[2] \notin fresh[c] /\ ~Durable(o[1], o[2])
    BY <1>2 DEF TypeOK, OneCopyInv
  <2> QED
    BY <1>4, <2>1 DEF Durable
<1> QED
    BY <1>1, <1>6, <1>7, <1>8 DEF OneCopyInv

LEMMA OneCopyLands ==
    ASSUME OneCopyInv, TypeOK, SessionShape,
           NEW c \in Conns, NEW t \in Targets, WriteLands(c, t)
    PROVE  OneCopyInv'
    BY OneCopySettles DEF WriteLands, sessionVars

LEMMA OneCopySwallowed ==
    ASSUME OneCopyInv, TypeOK, SessionShape,
           NEW c \in Conns, NEW t \in Targets, WriteIsSwallowed(c, t)
    PROVE  OneCopyInv'
<1>1. PICK lost \in SUBSET fresh[c] :
          stored' = [stored EXCEPT ![t] = Append1(@, fresh[c] \ lost)]
    BY DEF WriteIsSwallowed
<1>2. fresh[c] \ lost \in SUBSET fresh[c]
    BY <1>1
<1> QED
    BY <1>1, <1>2, OneCopySettles DEF WriteIsSwallowed

\* So was one that lands late.
LEMMA OneCopyOrphan ==
    ASSUME OneCopyInv, TypeOK, SessionShape,
           NEW t \in Targets, NEW r \in Rec, NEW n \in Nodes, OrphanLands(t, r, n)
    PROVE  OneCopyInv'
<1>1. /\ <<t, r, n>> \in orphans
      /\ orphans' = orphans \ {<<t, r, n>>}
      /\ stored' = [stored EXCEPT ![t] = Append1(@, {r})]
      /\ UNCHANGED <<pc, fresh, pending, seen>>
    BY DEF OrphanLands, sessionVars
<1>2. stored[t][r] = 0 /\ \A c \in Conns : pc[c] # "idle" => r \notin fresh[c]
  <2>1. ~Durable(t, r) /\ stored[t][r] \in Nat
    BY <1>1 DEF OneCopyInv, TypeOK
  <2>2. \A c \in Conns : pc[c] # "idle" => r \notin fresh[c]
    BY <1>1 DEF OneCopyInv
  <2> QED
    BY <2>1, <2>2 DEF Durable
<1>3. \A u \in Targets, q \in Rec :
          stored'[u][q] = IF u = t /\ q = r THEN 1 ELSE stored[u][q]
    BY <1>1, <1>2 DEF TypeOK, Append1
<1>4. ~InHand(t, r)
    BY <1>2 DEF InHand, Holds, SessionShape
<1>5. \A u \in Targets, q \in Rec : InHand(u, q)' = InHand(u, q)
    BY <1>1 DEF InHand, Holds
<1>6. \A u \in Targets, q \in Rec :
          /\ stored'[u][q] <= 1
          /\ Durable(u, q)' => ~InHand(u, q)' /\ q \in seen[Shared]
  <2> SUFFICES ASSUME NEW u \in Targets, NEW q \in Rec
               PROVE  /\ stored'[u][q] <= 1
                      /\ Durable(u, q)' => ~InHand(u, q)' /\ q \in seen[Shared]
    OBVIOUS
  <2>1. CASE u = t /\ q = r
    <3>1. r \in seen[Shared]
      BY <1>1 DEF OneCopyInv
    <3> QED
      BY <1>3, <1>4, <1>5, <2>1, <3>1
  <2>2. CASE ~(u = t /\ q = r)
    BY <1>3, <1>5, <2>2 DEF OneCopyInv, StoredOnce, Durable
  <2> QED
    BY <2>1, <2>2
<1>7. \A o \in orphans' : ~Durable(o[1], o[2])'
  <2> SUFFICES ASSUME NEW o \in orphans' PROVE ~Durable(o[1], o[2])'
    OBVIOUS
  <2>1. o \in orphans /\ o # <<t, r, n>> /\ o[1] \in Targets /\ o[2] \in Rec
    BY <1>1 DEF TypeOK
  <2>2. ~(o[1] = t /\ o[2] = r)
    BY <1>1, <2>1 DEF OneCopyInv
  <2> QED
    BY <1>3, <2>1, <2>2 DEF OneCopyInv, Durable
<1> QED
    BY <1>1, <1>6, <1>7 DEF OneCopyInv, StoredOnce

\* A session that fails leaves its claims to the writes it no longer waits for.
LEMMA OneCopyWriteFails ==
    ASSUME OneCopyInv, TypeOK, SessionShape, NEW c \in Conns, NEW t \in Targets,
           WriteFails(c, t)
    PROVE  OneCopyInv'
<1>1. /\ t \in pending[c]
      /\ orphans' = orphans \cup ((pending[c] \ {t}) \X fresh[c] \X {node[c]})
      /\ pc' = [pc EXCEPT ![c] = "idle"]
      /\ pending' = [pending EXCEPT ![c] = {}]
      /\ UNCHANGED <<fresh, seen, stored>>
    BY DEF WriteFails, Fail
<1> DEFINE left == (pending[c] \ {t}) \X fresh[c] \X {node[c]}
<1>2. pc[c] = "write" /\ fresh[c] \subseteq Rec /\ pending[c] \subseteq Targets
    BY <1>1 DEF SessionShape, TypeOK, Packet
<1>3. \A b \in Conns : /\ pc'[b] = IF b = c THEN "idle" ELSE pc[b]
                       /\ pending'[b] = IF b = c THEN {} ELSE pending[b]
    BY <1>1 DEF TypeOK
<1>4. StoredOnce'
  <2>1. \A u \in Targets, r \in Rec : InHand(u, r)' => InHand(u, r)
    BY <1>1, <1>3 DEF InHand, Holds
  <2>2. \A a, b \in Conns :
            a # b /\ pc'[a] # "idle" /\ pc'[b] # "idle" => fresh'[a] \cap fresh'[b] = {}
    BY <1>1, <1>3 DEF OneCopyInv, StoredOnce
  <2> QED
    BY <1>1, <2>1, <2>2 DEF OneCopyInv, StoredOnce, Durable
<1>5. \A o \in left :
          /\ o[1] \in pending[c] /\ o[2] \in fresh[c] /\ o[3] = node[c]
          /\ o = <<o[1], o[2], o[3]>>
    OBVIOUS
<1>6. \A o \in left : InHand(o[1], o[2]) /\ ~Durable(o[1], o[2]) /\ o[2] \in seen[Shared]
  <2> SUFFICES ASSUME NEW o \in left
               PROVE  InHand(o[1], o[2]) /\ ~Durable(o[1], o[2]) /\ o[2] \in seen[Shared]
    OBVIOUS
  <2>1. InHand(o[1], o[2])
    BY <1>5 DEF InHand, Holds
  <2>2. o[1] \in Targets /\ o[2] \in Rec
    BY <1>2, <1>5
  <2>3. ~Durable(o[1], o[2])
    BY <2>1, <2>2 DEF OneCopyInv, StoredOnce
  <2>4. o[2] \in seen[Shared]
    BY <1>2, <1>5 DEF OneCopyInv
  <2> QED
    BY <2>1, <2>3, <2>4
<1>7. \A o \in left, b \in Conns : pc'[b] # "idle" => o[2] \notin fresh[b]
    BY <1>2, <1>3, <1>5 DEF OneCopyInv, StoredOnce
<1>8. ASSUME NEW o \in orphans', NEW p \in orphans', o[1] = p[1], o[2] = p[2]
      PROVE  o = p
  <2>1. \A q \in orphans : q[2] \notin fresh[c]
    BY <1>2 DEF OneCopyInv
  <2>2. CASE o \in orphans /\ p \in orphans
    BY <1>8, <2>2 DEF OneCopyInv
  <2>3. CASE o \in left /\ p \in left
    BY <1>5, <1>8, <2>3
  <2>4. CASE (o \in left /\ p \in orphans) \/ (o \in orphans /\ p \in left)
    BY <1>5, <1>8, <2>1, <2>4
  <2> QED
    BY <1>1, <2>2, <2>3, <2>4
<1> HIDE DEF left
<1>9. \A o \in orphans' :
          /\ o[2] \in seen'[Shared] /\ ~Durable(o[1], o[2])'
          /\ \A b \in Conns : pc'[b] # "idle" => o[2] \notin fresh'[b]
  <2>1. orphans' = orphans \cup left
    BY <1>1 DEF left
  <2> QED
    BY <1>1, <1>3, <1>6, <1>7, <2>1 DEF OneCopyInv, Durable
<1> QED
    BY <1>1, <1>3, <1>4, <1>8, <1>9 DEF OneCopyInv, Durable

\* Redis keeps its keys when a process ends.
LEMMA OneCopyExit ==
    ASSUME OneCopyInv, TypeOK, NEW n \in Nodes, NodeExit(n)
    PROVE  OneCopyInv'
<1>1. /\ pc' = [c \in Conns |-> IF node[c] = n THEN "idle" ELSE pc[c]]
      /\ pending' = [c \in Conns |-> IF node[c] = n THEN {} ELSE pending[c]]
      /\ orphans' \subseteq orphans
      /\ seen' = [seen EXCEPT ![n] = {}]
      /\ UNCHANGED <<fresh, stored>>
    BY DEF NodeExit
<1>2. seen'[Shared] = seen[Shared]
    BY <1>1, ScopeAssumption DEF TypeOK, Scopes
<1> QED
    BY <1>1, <1>2, OneCopyUntouched

\* Every step.
LEMMA OneCopyStep ==
    ASSUME SharedDeduper, ~TtlMayLapse, OneCopyInv, TypeOK, SessionShape, [Next]_vars
    PROVE  OneCopyInv'
<1> USE DEF linkVars, wireVars, sessionVars, deviceVars, historyVars
<1>1. CASE /\ UNCHANGED <<orphans, seen, stored, pending, fresh, pc>>
    BY <1>1, OneCopyUntouched
<1>2. ASSUME NEW c \in Conns, StartPacket(c) PROVE OneCopyInv'
  <2>1. \A b \in Conns : \/ pc'[b] = pc[b] /\ fresh'[b] = fresh[b]
                        \/ fresh'[b] = {}
    BY <1>2 DEF StartPacket, TypeOK
  <2>2. UNCHANGED <<orphans, seen, stored, pending>>
    BY <1>2 DEF StartPacket
  <2> QED
    BY <2>1, <2>2, OneCopyUntouched
<1>3. ASSUME NEW c \in Conns, StartWrite(c) PROVE OneCopyInv'
  <2>1. \A b \in Conns :
            \/ pc'[b] = pc[b] /\ fresh'[b] = fresh[b] /\ pending'[b] = pending[b]
            \/ pc[b] = "dedupe" /\ pc'[b] = "write" /\ fresh'[b] = fresh[b]
    BY <1>3 DEF StartWrite, TypeOK
  <2>2. UNCHANGED <<orphans, seen, stored>>
    BY <1>3 DEF StartWrite
  <2> QED
    BY <2>1, <2>2, OneCopyUntouched
<1>4. ASSUME NEW c \in Conns, Acknowledge(c) PROVE OneCopyInv'
  <2>1. \A b \in Conns :
            \/ pc'[b] = pc[b] /\ fresh'[b] = fresh[b] /\ pending'[b] = pending[b]
            \/ pc'[b] = "idle" /\ pending'[b] = {}
    BY <1>4 DEF Acknowledge, TypeOK
  <2>2. UNCHANGED <<orphans, seen, stored>>
    BY <1>4 DEF Acknowledge
  <2> QED
    BY <2>1, <2>2, OneCopyUntouched
<1>5. ASSUME NEW c \in Conns, DedupeFails(c) PROVE OneCopyInv'
  <2>1. \A b \in Conns :
            \/ pc'[b] = pc[b] /\ fresh'[b] = fresh[b] /\ pending'[b] = pending[b]
            \/ pc'[b] = "idle" /\ pending'[b] = {}
    BY <1>5 DEF DedupeFails, Fail, TypeOK
  <2>2. UNCHANGED <<orphans, seen, stored>>
    BY <1>5 DEF DedupeFails, Fail
  <2> QED
    BY <2>1, <2>2, OneCopyUntouched
<1>6. ASSUME \/ \E d \in Devices : Capture(d)
             \/ \E c \in Conns : \/ Send(c) \/ ReceiveAck(c) \/ Drop(c) \/ DecodeFails(c)
                                 \/ \E d \in Devices, n \in Nodes : Connect(c, d, n)
             \/ UNCHANGED vars
      PROVE  UNCHANGED <<orphans, seen, stored, pending, fresh, pc>>
    BY <1>6 DEF Capture, Send, ReceiveAck, Drop, DecodeFails, Connect, vars
<1>7. ASSUME NEW s \in Scopes, NEW r \in Rec PROVE ~KeyLapses(s, r)
    BY DEF KeyLapses
<1> QED
    BY <1>1, <1>2, <1>3, <1>4, <1>5, <1>6, <1>7, OneCopyCheck, OneCopyLands,
       OneCopyOrphan, OneCopyWriteFails, OneCopySwallowed, OneCopyExit
       DEF Next, Session, Environment, Failure

\* dedupe.ts: with one map of keys for all processes, and keys that outlive the
\* resends, no record reaches a sink twice and no two sessions hold it, whatever
\* the links, the sinks and the processes do.
THEOREM NoSecondCopy ==
    ASSUME SharedDeduper, ~TtlMayLapse
    PROVE  Spec => []StoredOnce
<1>1. Init => OneCopyInv
    BY DEF Init, OneCopyInv, StoredOnce, Durable, InHand, Holds
<1>2. AccountingInv /\ OneCopyInv /\ [Next]_vars => OneCopyInv'
    BY OneCopyStep DEF AccountingInv
<1>3. OneCopyInv => StoredOnce
    BY DEF OneCopyInv
<1> QED
    BY <1>1, <1>2, <1>3, AccountingInvariant, PTL DEF Spec

-----------------------------------------------------------------------------
(***************************************************************************)
(* The promise to the device: AvlSession implements DurableHandoff.  A key *)
(* tells a session that another one has the record in hand, or had; if a   *)
(* device has one session at a time, and a process takes its keys with it  *)
(* when it ends, then what a session finds seen is in the sinks, or in its *)
(* own hands.                                                              *)
(***************************************************************************)
OneSessionEach ==
    \A b, c \in Conns : b # c /\ dev[b] = dev[c] => Finished(b) \/ Finished(c)

Known == {r \in Rec : r[2] <= captured[r[1]]}

Own(c) == {r \in Known : r[1] = dev[c]}

\* Whatever a connection carries was captured by the device that logged in on it.
OwnPackets ==
    /\ flash \subseteq Known
    /\ \A c \in Conns :
          /\ \A i \in DOMAIN outstanding[c] : outstanding[c][i] \subseteq Own(c)
          /\ \A i \in DOMAIN inbox[c] : inbox[c][i] \subseteq Own(c)
          /\ pc[c] # "idle" => /\ frame[c] \subseteq Own(c)
                               /\ todo[c] \subseteq frame[c]
                               /\ fresh[c] \subseteq frame[c]

\* A set key stands for a record that is stored, or in the hands of a session
\* that asks the same map.
ClaimsAreKept ==
    \A s \in Scopes : \A r \in seen[s], t \in Targets :
        Durable(t, r) \/ \E c \in Conns : Holds(c, t, r) /\ Scope(node[c]) = s

\* What a session has looked up is stored or in its own hands.
ShownIsKept ==
    \A c \in Conns : pc[c] # "idle" =>
        \A r \in frame[c] \ todo[c], t \in Targets : Durable(t, r) \/ Holds(c, t, r)

\* What an ack on its way answers is stored, and so is what was deleted.
AnsweredIsKept ==
    \A c \in Conns : link[c] = "up" =>
        \A i \in 1..Len(acks[c]) : \A r \in outstanding[c][i], t \in Targets : Durable(t, r)

AckedIsKept == \A r \in Acked, t \in Targets : Durable(t, r)

HandoffInv ==
    /\ OwnPackets /\ orphans = {}
    /\ ClaimsAreKept /\ ShownIsKept /\ AnsweredIsKept /\ AckedIsKept

\* A sink never gives a record up.
LEMMA DurableStays ==
    ASSUME TypeOK, [Next]_vars, NEW t \in Targets, NEW r \in Rec, Durable(t, r)
    PROVE  Durable(t, r)'
<1>1. CASE stored' = stored
    BY <1>1 DEF Durable
<1>2. ASSUME NEW u \in Targets, NEW S, stored' = [stored EXCEPT ![u] = Append1(@, S)]
      PROVE  Durable(t, r)'
    BY <1>2 DEF Durable, Append1, TypeOK
<1>3. ASSUME NEW c \in Conns, NEW u \in Targets, WriteIsSwallowed(c, u)
      PROVE  Durable(t, r)'
  <2>1. PICK lost \in SUBSET fresh[c] :
            stored' = [stored EXCEPT ![u] = Append1(@, fresh[c] \ lost)]
    BY <1>3 DEF WriteIsSwallowed
  <2> QED
    BY <1>2, <2>1
<1>4. \/ stored' = stored
      \/ \E c \in Conns, u \in Targets : WriteIsSwallowed(c, u)
      \/ \E u \in Targets, S \in {fresh[c] : c \in Conns} \cup {{q} : q \in Rec} :
            stored' = [stored EXCEPT ![u] = Append1(@, S)]
    BY ZenonT(60) DEF Next, Session, Environment, Failure, Capture, Connect, Send, ReceiveAck,
       StartPacket, CheckAndSet, StartWrite, WriteLands, Acknowledge, Drop, DecodeFails,
       DedupeFails, WriteFails, Fail, NodeExit, KeyLapses, OrphanLands, vars
<1> QED
    BY <1>1, <1>2, <1>3, <1>4

\* Only the end of its process takes a record out of a session's hands before it
\* is stored, when no backend rejects.
LEMMA HeldStays ==
    ASSUME TypeOK, SessionShape, ~BackendMayFail, [Next]_vars,
           NEW c \in Conns, NEW t \in Targets, NEW r \in Rec, Holds(c, t, r),
           ~ \E n \in Nodes : NodeExit(n) /\ node[c] = n
    PROVE  Durable(t, r)' \/ (Holds(c, t, r)' /\ node'[c] = node[c])
<1> USE DEF linkVars, wireVars, sessionVars, deviceVars, historyVars
<1>1. pc[c] # "idle" /\ r \in fresh[c]
    BY DEF Holds, SessionShape
<1>2. CASE UNCHANGED <<fresh, pc, pending, node>>
    BY <1>2 DEF Holds
<1>3. ASSUME NEW b \in Conns, StartPacket(b) PROVE Holds(c, t, r)' /\ node'[c] = node[c]
    BY <1>1, <1>3 DEF StartPacket, Holds, SessionShape, TypeOK
<1>9. ASSUME NEW b \in Conns, CheckAndSet(b) PROVE Holds(c, t, r)' /\ node'[c] = node[c]
    BY <1>1, <1>9 DEF CheckAndSet, Holds, TypeOK
<1>10. ASSUME NEW b \in Conns, Acknowledge(b) PROVE Holds(c, t, r)' /\ node'[c] = node[c]
    BY <1>1, <1>10 DEF Acknowledge, Holds, TypeOK
<1>4. ASSUME NEW b \in Conns, StartWrite(b) PROVE Holds(c, t, r)' /\ node'[c] = node[c]
    BY <1>1, <1>4 DEF StartWrite, WriteTargets, Holds, SessionShape, TypeOK
<1>5. ASSUME NEW b \in Conns, NEW u \in Targets, WriteLands(b, u)
      PROVE  Durable(t, r)' \/ (Holds(c, t, r)' /\ node'[c] = node[c])
  <2>1. CASE b = c /\ u = t
    <3>1. stored[t][r] \in Nat /\ stored'[t][r] = stored[t][r] + 1
      BY <1>1, <1>5, <2>1 DEF WriteLands, Append1, TypeOK
    <3> QED
      BY <3>1 DEF Durable
  <2>2. CASE ~(b = c /\ u = t)
    BY <1>1, <1>5, <2>2 DEF WriteLands, Holds, TypeOK
  <2> QED
    BY <2>1, <2>2
<1>6. ASSUME NEW b \in Conns, NEW d \in Devices, NEW n \in Nodes, Connect(b, d, n)
      PROVE  Holds(c, t, r)' /\ node'[c] = node[c]
    BY <1>1, <1>6 DEF Connect, Finished, Holds, TypeOK
<1>7. ASSUME NEW n \in Nodes, NodeExit(n)
      PROVE  Holds(c, t, r)' /\ node'[c] = node[c]
    BY <1>7 DEF NodeExit, Holds, TypeOK
<1>8. ASSUME NEW b \in Conns,
             DedupeFails(b) \/ \E u \in Targets : WriteFails(b, u) \/ WriteIsSwallowed(b, u)
      PROVE  FALSE
    BY <1>8 DEF DedupeFails, WriteFails, WriteIsSwallowed
<1>11. ASSUME \/ \E d \in Devices : Capture(d)
              \/ \E b \in Conns : Send(b) \/ ReceiveAck(b) \/ Drop(b) \/ DecodeFails(b)
              \/ \E u \in Targets, q \in Rec, n \in Nodes : OrphanLands(u, q, n)
              \/ \E s \in Scopes, q \in Rec : KeyLapses(s, q)
              \/ UNCHANGED vars
       PROVE  UNCHANGED <<fresh, pc, pending, node>>
    BY <1>11 DEF Capture, Send, ReceiveAck, Drop, DecodeFails, Disconnect, KeyLapses,
       OrphanLands, vars
<1> QED
    BY <1>2, <1>3, <1>4, <1>5, <1>6, <1>7, <1>8, <1>9, <1>10, <1>11
    DEF Next, Session, Environment, Failure

\* A connection only ever carries what its device captured.
LEMMA StepOwn ==
    ASSUME TypeOK, SessionShape, OwnPackets, [Next]_vars
    PROVE  OwnPackets'
<1> USE DEF linkVars, wireVars, sessionVars, deviceVars, historyVars
<1>1. ASSUME UNCHANGED captured, NEW c \in Conns, dev'[c] = dev[c]
      PROVE  Own(c)' = Own(c)
    BY <1>1 DEF Own, Known
<1>2. ASSUME NEW d \in Devices, Capture(d) PROVE OwnPackets'
  <2>1. Known \subseteq Known' /\ <<d, captured[d] + 1>> \in Known'
    <3>1. ASSUME NEW r \in Known PROVE r[2] <= captured'[r[1]]
      <4>1. r[1] \in Devices /\ r[2] \in Nat /\ r[2] <= captured[r[1]]
        BY DEF Known, Rec
      <4>2. captured[r[1]] \in Nat
        BY <4>1, BoundsAssumption DEF TypeOK
      <4>3. captured'[r[1]] = captured[r[1]] \/ captured'[r[1]] = captured[r[1]] + 1
        BY <1>2, <4>1 DEF Capture, TypeOK
      <4> QED
        BY <4>1, <4>2, <4>3
    <3>2. captured[d] \in 0..MaxRecord /\ captured[d] < MaxRecord
          /\ captured'[d] = captured[d] + 1
      BY <1>2 DEF Capture, TypeOK
    <3>3. <<d, captured[d] + 1>> \in Rec
      BY <3>2, BoundsAssumption DEF Rec
    <3> QED
      BY <3>1, <3>2, <3>3, BoundsAssumption DEF Known
  <2>2. \A c \in Conns : Own(c) \subseteq Own(c)'
    BY <1>2, <2>1 DEF Own, Capture
  <2> QED
    BY <1>2, <2>1, <2>2 DEF OwnPackets, Capture
<1>3. ASSUME NEW b \in Conns, NEW d \in Devices, NEW n \in Nodes, Connect(b, d, n)
      PROVE  OwnPackets'
  <2>1. /\ outstanding[b] = <<>> /\ inbox[b] = <<>> /\ pc[b] = "idle"
    BY <1>3 DEF Connect, Finished, SessionShape
  <2>2. \A c \in Conns : c # b => dev'[c] = dev[c]
    BY <1>3 DEF Connect, TypeOK
  <2> QED
    BY <1>1, <1>3, <2>1, <2>2 DEF Connect, OwnPackets, Known
<1>4. ASSUME NEW b \in Conns, Send(b) PROVE OwnPackets'
  <2>1. PICK p \in SUBSET Unsent(b) :
          /\ outstanding' = [outstanding EXCEPT ![b] = Append(@, p)]
          /\ inbox' = [inbox EXCEPT ![b] = Append(@, p)]
    BY <1>4 DEF Send
  <2>2. p \subseteq Own(b) /\ p \in Packet
    BY <2>1 DEF Unsent, OwnPackets, Own, TypeOK, Packet
  <2>3. \A i \in DOMAIN Append(outstanding[b], p) : Append(outstanding[b], p)[i] \subseteq Own(b)
    BY <2>2 DEF OwnPackets, TypeOK
  <2>4. \A i \in DOMAIN Append(inbox[b], p) : Append(inbox[b], p)[i] \subseteq Own(b)
    BY <2>2 DEF OwnPackets, TypeOK
  <2>5. UNCHANGED <<captured, flash, dev, pc, frame, todo, fresh>>
    BY <1>4 DEF Send
  <2>6. \A c \in Conns :
          /\ outstanding'[c] = IF c = b THEN Append(outstanding[b], p) ELSE outstanding[c]
          /\ inbox'[c] = IF c = b THEN Append(inbox[b], p) ELSE inbox[c]
    BY <2>1 DEF TypeOK
  <2> QED
    BY ZenonT(60), <1>1, <2>3, <2>4, <2>5, <2>6 DEF OwnPackets, Known
<1>5. ASSUME NEW b \in Conns, ReceiveAck(b) PROVE OwnPackets'
  <2>1. /\ outstanding' = [outstanding EXCEPT ![b] = Tail(@)] /\ outstanding[b] # <<>>
        /\ flash' \subseteq flash
        /\ UNCHANGED <<captured, dev, inbox, pc, frame, todo, fresh>>
    BY <1>5 DEF ReceiveAck
  <2>2. \A i \in DOMAIN Tail(outstanding[b]) : Tail(outstanding[b])[i] \subseteq Own(b)
    BY <2>1 DEF OwnPackets, TypeOK
  <2>3. \A c \in Conns :
          outstanding'[c] = IF c = b THEN Tail(outstanding[b]) ELSE outstanding[c]
    BY <2>1 DEF TypeOK
  <2> QED
    BY <1>1, <2>1, <2>2, <2>3 DEF OwnPackets, Known
<1>6. ASSUME NEW b \in Conns, StartPacket(b) PROVE OwnPackets'
  <2>1. /\ inbox[b] # <<>>
        /\ inbox' = [inbox EXCEPT ![b] = Tail(@)]
        /\ frame' = [frame EXCEPT ![b] = Head(inbox[b])]
        /\ todo' = [todo EXCEPT ![b] = Head(inbox[b])]
        /\ fresh' = [fresh EXCEPT ![b] = {}]
        /\ pc' = [pc EXCEPT ![b] = "dedupe"]
        /\ UNCHANGED <<captured, flash, dev, outstanding>>
    BY <1>6 DEF StartPacket
  <2>2. /\ \A i \in DOMAIN Tail(inbox[b]) : Tail(inbox[b])[i] \subseteq Own(b)
        /\ Head(inbox[b]) \subseteq Own(b)
    BY <2>1 DEF OwnPackets, TypeOK
  <2>3. \A c \in Conns :
          /\ inbox'[c] = IF c = b THEN Tail(inbox[b]) ELSE inbox[c]
          /\ frame'[c] = IF c = b THEN Head(inbox[b]) ELSE frame[c]
          /\ todo'[c] = IF c = b THEN Head(inbox[b]) ELSE todo[c]
          /\ fresh'[c] = IF c = b THEN {} ELSE fresh[c]
          /\ c # b => pc'[c] = pc[c]
    BY <2>1 DEF TypeOK
  <2> QED
    BY <1>1, <2>1, <2>2, <2>3 DEF OwnPackets, Known
<1>7. ASSUME NEW b \in Conns, CheckAndSet(b) PROVE OwnPackets'
  <2>1. PICK r \in todo[b] :
          /\ todo' = [todo EXCEPT ![b] = @ \ {r}]
          /\ fresh' = [fresh EXCEPT ![b] = IF r \in seen[Scope(node[b])] THEN @ ELSE @ \cup {r}]
    BY <1>7 DEF CheckAndSet
  <2>2. pc[b] = "dedupe" /\ UNCHANGED <<captured, flash, dev, outstanding, inbox, pc, frame>>
    BY <1>7 DEF CheckAndSet
  <2>3. \A c \in Conns :
          /\ todo'[c] \subseteq todo[c]
          /\ fresh'[c] \subseteq IF c = b THEN fresh[b] \cup {r} ELSE fresh[c]
    BY <2>1 DEF TypeOK
  <2> QED
    BY <1>1, <2>1, <2>2, <2>3 DEF OwnPackets, Known
<1>8. ASSUME NEW b \in Conns, NEW box \in Seq(Packet), Disconnect(b, box),
             \A i \in DOMAIN box : box[i] \subseteq Own(b),
             \A c \in Conns : pc'[c] # "idle" => pc[c] # "idle",
             UNCHANGED <<frame, todo, fresh>>
      PROVE  OwnPackets'
  <2>1. PICK rest \in Received(box) : inbox' = [inbox EXCEPT ![b] = rest]
    BY <1>8 DEF Disconnect
  <2>2. PICK k \in 0..Len(box) : rest = SubSeq(box, 1, k)
    BY <2>1 DEF Received
  <2>3. \A i \in DOMAIN rest : rest[i] \subseteq Own(b)
    BY <1>8, <2>2
  <2>4. UNCHANGED <<captured, flash, dev>>
        /\ outstanding' = [outstanding EXCEPT ![b] = <<>>]
    BY <1>8 DEF Disconnect
  <2>5. \A c \in Conns : /\ inbox'[c] = IF c = b THEN rest ELSE inbox[c]
                         /\ outstanding'[c] = IF c = b THEN <<>> ELSE outstanding[c]
    BY <2>1, <2>4 DEF TypeOK
  <2> QED
    BY <1>1, <1>8, <2>3, <2>4, <2>5 DEF OwnPackets, Known
<1>9. ASSUME NEW b \in Conns,
             \/ Drop(b) \/ DedupeFails(b) \/ \E t \in Targets : WriteFails(b, t)
      PROVE  OwnPackets'
  <2>1. /\ Disconnect(b, inbox[b]) /\ UNCHANGED <<frame, todo, fresh>>
        /\ \A c \in Conns : pc'[c] # "idle" => pc[c] # "idle"
    BY <1>9 DEF Drop, DedupeFails, WriteFails, Fail, TypeOK
  <2>2. inbox[b] \in Seq(Packet) /\ \A i \in DOMAIN inbox[b] : inbox[b][i] \subseteq Own(b)
    BY DEF TypeOK, OwnPackets
  <2> QED
    BY <1>8, <2>1, <2>2
<1>10. ASSUME NEW b \in Conns, DecodeFails(b) PROVE OwnPackets'
  <2>1. /\ Disconnect(b, Tail(inbox[b])) /\ inbox[b] # <<>> /\ UNCHANGED <<pc, frame, todo, fresh>>
    BY <1>10 DEF DecodeFails
  <2>2. /\ Tail(inbox[b]) \in Seq(Packet)
        /\ \A i \in DOMAIN Tail(inbox[b]) : Tail(inbox[b])[i] \subseteq Own(b)
    BY <2>1 DEF TypeOK, OwnPackets
  <2> QED
    BY <1>8, <2>1, <2>2
<1>11. ASSUME NEW n \in Nodes, NodeExit(n) PROVE OwnPackets'
  <2>1. /\ inbox' = [c \in Conns |-> IF node[c] = n THEN <<>> ELSE inbox[c]]
        /\ outstanding' = [c \in Conns |-> IF node[c] = n THEN <<>> ELSE outstanding[c]]
        /\ pc' = [c \in Conns |-> IF node[c] = n THEN "idle" ELSE pc[c]]
        /\ UNCHANGED <<captured, flash, dev, frame, todo, fresh>>
    BY <1>11 DEF NodeExit
  <2> QED
    BY <1>1, <2>1 DEF OwnPackets, Known
<1>12. ASSUME UNCHANGED <<captured, flash, dev, outstanding, inbox, frame, todo, fresh>>,
              \A c \in Conns : pc'[c] # "idle" => pc[c] # "idle"
       PROVE  OwnPackets'
    BY <1>1, <1>12 DEF OwnPackets, Known
<1>13. ASSUME \/ \E b \in Conns : \/ StartWrite(b) \/ Acknowledge(b)
                                  \/ \E t \in Targets : WriteLands(b, t) \/ WriteIsSwallowed(b, t)
              \/ \E t \in Targets, r \in Rec, n \in Nodes : OrphanLands(t, r, n)
              \/ \E s \in Scopes, r \in Rec : KeyLapses(s, r)
              \/ UNCHANGED vars
       PROVE  OwnPackets'
  <2>1. /\ UNCHANGED <<captured, flash, dev, outstanding, inbox, frame, todo, fresh>>
        /\ \A c \in Conns : pc'[c] # "idle" => pc[c] # "idle"
    BY <1>13 DEF StartWrite, Acknowledge, WriteLands, WriteIsSwallowed, OrphanLands,
       KeyLapses, vars, TypeOK
  <2> QED
    BY <1>12, <2>1
<1> QED
    BY <1>2, <1>3, <1>4, <1>5, <1>6, <1>7, <1>9, <1>10, <1>11, <1>13
    DEF Next, Session, Environment, Failure

\* A key is set by a session that takes the record in hand, and goes with the
\* process that held both.
LEMMA StepClaims ==
    ASSUME TypeOK, SessionShape, ClaimsAreKept, ~BackendMayFail,
           SharedDeduper => ~NodesMayExit, [Next]_vars
    PROVE  ClaimsAreKept'
<1> SUFFICES ASSUME NEW s \in Scopes, NEW r \in seen'[s], NEW t \in Targets
             PROVE  Durable(t, r)' \/ \E c \in Conns : Holds(c, t, r)' /\ Scope(node'[c]) = s
    BY DEF ClaimsAreKept, Scope
<1>1. CASE r \in seen[s]
  <2>1. r \in Rec
    BY <1>1 DEF TypeOK
  <2>2. CASE Durable(t, r)
    BY <2>1, <2>2, DurableStays
  <2>3. CASE \E c \in Conns : Holds(c, t, r) /\ Scope(node[c]) = s
    <3>1. PICK c \in Conns : Holds(c, t, r) /\ Scope(node[c]) = s
      BY <2>3
    <3>2. ASSUME NEW n \in Nodes, NodeExit(n), node[c] = n PROVE FALSE
      <4>1. ~SharedDeduper /\ s = n
        BY <3>1, <3>2 DEF NodeExit, Scope
      <4>2. seen'[s] = {}
        BY <3>2, <4>1 DEF NodeExit, TypeOK, Scopes
      <4> QED
        BY <4>2
    <3>3. Durable(t, r)' \/ (Holds(c, t, r)' /\ node'[c] = node[c])
      BY <2>1, <3>1, <3>2, HeldStays
    <3> QED
      BY <3>1, <3>3
  <2> QED
    BY <1>1, <2>2, <2>3 DEF ClaimsAreKept
<1>2. CASE r \notin seen[s]
  <2>1. PICK c \in Conns : CheckAndSet(c)
    BY ZenonT(60), <1>2 DEF Next, Session, Environment, Failure, Capture, Connect, Send,
        ReceiveAck, StartPacket, StartWrite, WriteTargets, WriteLands,
        Acknowledge, AckCount, Drop, DecodeFails, DedupeFails, WriteFails, WriteIsSwallowed, Fail,
        NodeExit, KeyLapses, OrphanLands, vars, TypeOK
  <2>2. r \in fresh'[c] /\ pc'[c] = "dedupe" /\ Scope(node'[c]) = s
    BY <1>2, <2>1 DEF CheckAndSet, SessionShape, TypeOK, linkVars
  <2> QED
    BY <2>2 DEF Holds
<1> QED
    BY <1>1, <1>2

\* What a session finds seen no other session of the device can have in hand.
LEMMA StepShownKept ==
    ASSUME TypeOK, SessionShape, OwnPackets, ClaimsAreKept, ShownIsKept,
           OneSessionEach, ~BackendMayFail, [Next]_vars
    PROVE  ShownIsKept'
<1> SUFFICES ASSUME NEW c \in Conns, pc'[c] # "idle", NEW r \in frame'[c] \ todo'[c],
                    NEW t \in Targets
             PROVE  Durable(t, r)' \/ Holds(c, t, r)'
    BY DEF ShownIsKept
<1> USE DEF linkVars, wireVars, sessionVars, deviceVars, historyVars
<1>1. ASSUME NEW n \in Nodes, NodeExit(n) PROVE node[c] # n
    BY <1>1 DEF NodeExit, TypeOK
<1>2. CASE pc[c] # "idle" /\ r \in frame[c] \ todo[c]
  <2>1. r \in Rec /\ (Durable(t, r) \/ Holds(c, t, r))
    BY <1>2 DEF ShownIsKept, TypeOK, Packet
  <2> QED
    BY <1>1, <2>1, DurableStays, HeldStays
<1>3. CASE ~(pc[c] # "idle" /\ r \in frame[c] \ todo[c])
  <2>1. ~StartPacket(c)
    BY DEF StartPacket, TypeOK
  <2>2. ASSUME pc'[c] = pc[c] \/ pc'[c] = "idle" \/ pc[c] # "idle",
               frame'[c] = frame[c], todo'[c] = todo[c]
        PROVE  FALSE
    BY <1>3, <2>2
  <2>3. ASSUME NEW b \in Conns, Session(b), ~CheckAndSet(c) PROVE FALSE
    <3>1. CASE b = c
      BY <2>1, <2>2, <2>3, <3>1
      DEF Session, StartWrite, WriteTargets, WriteLands, Acknowledge, AckCount, TypeOK
    <3>2. CASE b # c
      BY <2>2, <2>3, <3>2
      DEF Session, StartPacket, CheckAndSet, StartWrite, WriteTargets, WriteLands,
          Acknowledge, AckCount, TypeOK
    <3> QED
      BY <3>1, <3>2
  <2>4. ASSUME NEW b \in Conns, Fail(b) PROVE FALSE
    BY <2>2, <2>4 DEF Fail, TypeOK
  <2>5. ASSUME NEW n \in Nodes, NodeExit(n) PROVE FALSE
    BY <2>2, <2>5 DEF NodeExit, TypeOK
  <2>6. CheckAndSet(c)
    BY <2>2, <2>3, <2>4, <2>5
    DEF Next, Environment, Failure, Capture, Connect, Send, ReceiveAck, Drop, DecodeFails,
        DedupeFails, WriteFails, WriteIsSwallowed, KeyLapses, OrphanLands, vars
  <2>7. /\ r \in todo[c] /\ pc[c] = "dedupe" /\ node[c] \in Nodes
        /\ r \in Rec /\ r[1] = dev[c]
    BY <1>3, <2>6 DEF CheckAndSet, SessionShape, OwnPackets, Own, TypeOK, Packet
  <2>8. CASE r \in seen[Scope(node[c])]
    <3>1. CASE Durable(t, r)
      BY <2>7, <3>1, DurableStays
    <3>2. CASE \E b \in Conns : Holds(b, t, r)
      <4>1. PICK b \in Conns : Holds(b, t, r)
        BY <3>2
      <4>2. pc[b] # "idle" /\ dev[b] = r[1]
        BY <4>1 DEF Holds, SessionShape, OwnPackets, Own
      <4>3. b = c
        BY <2>7, <4>2 DEF OneSessionEach, Finished
      <4> QED
        BY <1>1, <2>7, <4>1, <4>3, HeldStays
    <3> QED
      BY <2>7, <2>8, <3>1, <3>2, ScopeType DEF ClaimsAreKept
  <2>9. CASE r \notin seen[Scope(node[c])]
    <3>1. r \in fresh'[c] /\ pc'[c] = "dedupe"
      BY <2>6, <2>7, <2>9 DEF CheckAndSet, TypeOK
    <3> QED
      BY <3>1 DEF Holds
  <2> QED
    BY <2>8, <2>9
<1> QED
    BY <1>2, <1>3

\* The packet an ack answers has been worked off before the ack went out.
LEMMA StepAnswered ==
    ASSUME TypeOK, SessionShape, ShownIsKept, AnsweredIsKept,
           \A c \in Conns : link[c] = "up" => Aligned(c), [Next]_vars
    PROVE  AnsweredIsKept'
<1> SUFFICES ASSUME NEW c \in Conns, link'[c] = "up", NEW i \in 1..Len(acks'[c]),
                    NEW r \in outstanding'[c][i], NEW t \in Targets
             PROVE  Durable(t, r)'
    BY DEF AnsweredIsKept
<1> USE DEF linkVars, wireVars, sessionVars, deviceVars, historyVars
<1>1. ASSUME link[c] = "up", NEW j \in 1..Len(acks[c]), r \in outstanding[c][j]
      PROVE  Durable(t, r)'
  <2>1. j \in DOMAIN outstanding[c]
    BY <1>1, AckedWithinSent
  <2>2. r \in Rec
    BY <1>1, <2>1 DEF TypeOK, Packet
  <2> QED
    BY <1>1, <2>2, DurableStays DEF AnsweredIsKept
<1>2. CASE link[c] = "up" /\ acks'[c] = acks[c] /\ outstanding'[c] = outstanding[c]
    BY <1>1, <1>2
<1>3. ASSUME NEW b \in Conns, NEW d \in Devices, NEW n \in Nodes, Connect(b, d, n)
      PROVE  Durable(t, r)'
  <2>1. CASE b = c
    <3>1. acks'[c] = <<>>
      BY <1>3, <2>1 DEF Connect, Finished, SessionShape
    <3> QED
      BY <3>1
  <2>2. CASE b # c
    BY <1>2, <1>3, <2>2 DEF Connect, TypeOK
  <2> QED
    BY <2>1, <2>2
<1>4. ASSUME NEW b \in Conns, Send(b) PROVE Durable(t, r)'
  <2>1. CASE b = c
    <3>1. PICK p \in SUBSET Unsent(c) : outstanding' = [outstanding EXCEPT ![c] = Append(@, p)]
      BY <1>4, <2>1 DEF Send
    <3>2. p \in Packet /\ link[c] = "up" /\ acks'[c] = acks[c]
      BY <1>4, <2>1, <3>1 DEF Send, Unsent, TypeOK, Packet
    <3>3. i \in 1..Len(acks[c]) /\ i \in DOMAIN outstanding[c]
      BY <3>2, AckedWithinSent
    <3>4. outstanding'[c] = Append(outstanding[c], p) /\ outstanding[c] \in Seq(Packet)
      BY <3>1 DEF TypeOK
    <3>5. outstanding'[c][i] = outstanding[c][i]
      BY <3>2, <3>3, <3>4, AppendProperties
    <3> QED
      BY <1>1, <3>2, <3>3, <3>5
  <2>2. CASE b # c
    BY <1>2, <1>4, <2>2 DEF Send, TypeOK
  <2> QED
    BY <2>1, <2>2
<1>5. ASSUME NEW b \in Conns, ReceiveAck(b) PROVE Durable(t, r)'
  <2>1. CASE b = c
    <3>1. /\ acks[c] \in Seq(Nat) /\ acks[c] # <<>> /\ acks'[c] = Tail(acks[c])
          /\ outstanding[c] \in Seq(Packet) /\ outstanding[c] # <<>>
          /\ outstanding'[c] = Tail(outstanding[c]) /\ link[c] = "up"
      BY <1>5, <2>1 DEF ReceiveAck, TypeOK
    <3>2. i + 1 \in 1..Len(acks[c]) /\ i \in Nat
      BY SMTT(30), <3>1, HeadTailProperties, EmptySeq
    <3>3. i + 1 \in 1..Len(outstanding[c])
      BY <3>1, <3>2, AckedWithinSent
    <3>4. i \in 1..Len(Tail(outstanding[c]))
      BY <3>1, <3>2, <3>3, HeadTailProperties, EmptySeq
    <3>5. outstanding'[c][i] = outstanding[c][i + 1]
      BY <3>1, <3>4, HeadTailProperties
    <3> QED
      BY <1>1, <3>1, <3>2, <3>5
  <2>2. CASE b # c
    BY <1>2, <1>5, <2>2 DEF ReceiveAck, TypeOK
  <2> QED
    BY <2>1, <2>2
<1>6. ASSUME NEW b \in Conns, Acknowledge(b) PROVE Durable(t, r)'
  <2>1. CASE b = c
    <3>1. /\ pc[c] = "write" /\ pending[c] = {} /\ todo[c] = {} /\ link[c] = "up"
          /\ acks[c] \in Seq(Nat) /\ acks' = [acks EXCEPT ![c] = Append(@, AckCount(c))]
          /\ outstanding'[c] = outstanding[c]
      BY <1>6, <2>1 DEF Acknowledge, SessionShape, TypeOK
    <3>2. AckCount(c) \in Nat
      BY PacketSize DEF AckCount, TypeOK
    <3>3. i \in 1..Len(acks[c]) \/ i = Len(acks[c]) + 1
      <4>1. acks'[c] = Append(acks[c], AckCount(c))
        BY <3>1 DEF TypeOK
      <4>2. Len(acks'[c]) = Len(acks[c]) + 1 /\ Len(acks[c]) \in Nat
        BY <3>1, <3>2, <4>1, AppendProperties
      <4> QED
        BY <4>2
    <3>4. CASE i = Len(acks[c]) + 1
      <4>1. outstanding[c][i] = frame[c]
        BY <3>1, <3>4 DEF Aligned, LinedUp, InWork
      <4>2. Durable(t, r)
        BY <3>1, <4>1 DEF ShownIsKept, Holds
      <4>3. r \in Rec
        BY <3>1, <4>1 DEF TypeOK, Packet
      <4> QED
        BY <4>2, <4>3, DurableStays
    <3> QED
      BY <1>1, <3>1, <3>3, <3>4
  <2>2. CASE b # c
    BY <1>2, <1>6, <2>2 DEF Acknowledge, TypeOK
  <2> QED
    BY <2>1, <2>2
<1>7. ASSUME NEW b \in Conns,
             StartPacket(b) \/ CheckAndSet(b) \/ StartWrite(b) \/ \E u \in Targets : WriteLands(b, u)
      PROVE  Durable(t, r)'
    BY <1>2, <1>7 DEF StartPacket, CheckAndSet, StartWrite, WriteLands
<1>8. ASSUME NEW b \in Conns, NEW box, Disconnect(b, box)
      PROVE  Durable(t, r)'
    BY <1>2, <1>8 DEF Disconnect, TypeOK
<1>9. ASSUME NEW n \in Nodes, NodeExit(n) PROVE Durable(t, r)'
    BY <1>2, <1>9 DEF NodeExit, TypeOK
<1>10. ASSUME UNCHANGED <<link, acks, outstanding>> PROVE Durable(t, r)'
    BY <1>2, <1>10
<1> QED
    BY <1>3, <1>4, <1>5, <1>6, <1>7, <1>8, <1>9, <1>10
    DEF Next, Session, Environment, Failure, Capture, Drop, DecodeFails, DedupeFails,
        WriteFails, WriteIsSwallowed, Fail, KeyLapses, OrphanLands, vars

\* The packet a device deletes is the one at the head of its queue, answered.
LEMMA ReleasedIsKept ==
    ASSUME TypeOK, SessionShape, AnsweredIsKept, NEW c \in Conns, ReceiveAck(c)
    PROVE  \A r \in Head(outstanding[c]), t \in Targets : Durable(t, r)
<1>1. Head(outstanding[c]) = outstanding[c][1]
    BY HeadTailProperties DEF ReceiveAck, TypeOK
<1>2. link[c] = "up" /\ 1 \in 1..Len(acks[c])
    BY DEF ReceiveAck, SessionShape, TypeOK
<1> QED
    BY <1>1, <1>2 DEF AnsweredIsKept

\* One step of the uplink is one of the contract's, or none of its business.
LEMMA HandoffSimulates ==
    ASSUME TypeOK, SessionShape, HandoffInv, [Next]_vars
    PROVE  [Handoff!Next]_(Handoff!vars)
<1> USE DEF linkVars, wireVars, sessionVars, deviceVars, historyVars
<1>1. CASE UNCHANGED <<captured, flash, stored>>
    BY <1>1 DEF Handoff!vars, Durable
<1>2. ASSUME NEW d \in Devices, Capture(d) PROVE Handoff!Next
  <2> DEFINE new == <<d, captured[d] + 1>>
  <2>1. /\ captured[d] \in 0..MaxRecord /\ captured[d] < MaxRecord
        /\ captured' = [captured EXCEPT ![d] = @ + 1]
        /\ captured \in [Devices -> 0..MaxRecord]
        /\ flash' = flash \cup {new} /\ stored' = stored
    BY <1>2 DEF Capture, TypeOK
  <2>2. new \in Rec /\ new \notin Known
    BY <2>1, BoundsAssumption DEF Rec, Known
  <2>3. Known' = Known \cup {new}
    <3>1. ASSUME NEW r \in Rec PROVE r \in Known' <=> r \in Known \cup {new}
      <4>1. r = <<r[1], r[2]>> /\ r[1] \in Devices /\ r[2] \in 1..MaxRecord
        BY DEF Rec
      <4>2. CASE r[1] = d
        BY <2>1, <4>1, <4>2, BoundsAssumption DEF Known
      <4>3. CASE r[1] # d
        BY <2>1, <4>1, <4>3 DEF Known
      <4> QED
        BY <4>2, <4>3
    <3> QED
      BY <2>2, <3>1 DEF Known
  <2>4. PICK r \in Rec : r = new
    BY <2>2
  <2>5. Handoff!Appear(r)
    BY <2>1, <2>2, <2>3, <2>4 DEF Handoff!Appear, Known, Durable
  <2> QED
    BY <2>5 DEF Handoff!Next
<1>3. ASSUME NEW c \in Conns, NEW t \in Targets, WriteLands(c, t) \/ WriteIsSwallowed(c, t)
      PROVE  Handoff!Next
  <2>1. PICK landed \in SUBSET fresh[c] :
            /\ t \in pending[c] /\ UNCHANGED <<captured, flash>>
            /\ stored' = [stored EXCEPT ![t] = Append1(@, landed)]
    <3>1. CASE WriteLands(c, t)
      <4>1. fresh[c] \in SUBSET fresh[c]
        OBVIOUS
      <4> QED
        BY <3>1, <4>1 DEF WriteLands
    <3>2. CASE WriteIsSwallowed(c, t)
      <4>1. PICK lost \in SUBSET fresh[c] :
                stored' = [stored EXCEPT ![t] = Append1(@, fresh[c] \ lost)]
        BY <3>2 DEF WriteIsSwallowed
      <4>2. fresh[c] \ lost \in SUBSET fresh[c]
        BY <4>1
      <4> QED
        BY <3>2, <4>1, <4>2 DEF WriteIsSwallowed
    <3> QED
      BY <1>3, <3>1, <3>2
  <2>2. landed \subseteq Known /\ landed \in SUBSET Rec
    <3>1. fresh[c] \subseteq Known /\ fresh[c] \in SUBSET Rec
      BY <2>1 DEF HandoffInv, OwnPackets, Own, SessionShape, TypeOK, Packet
    <3> QED
      BY <2>1, <3>1
  <2>3. \A u \in Targets, r \in Rec :
            Durable(u, r)' <=> Durable(u, r) \/ (u = t /\ r \in landed)
    <3> SUFFICES ASSUME NEW u \in Targets, NEW r \in Rec
                 PROVE  Durable(u, r)' <=> Durable(u, r) \/ (u = t /\ r \in landed)
      OBVIOUS
    <3>1. stored[u][r] \in Nat
      BY DEF TypeOK
    <3>2. stored'[u][r] = IF u = t /\ r \in landed THEN stored[u][r] + 1 ELSE stored[u][r]
      BY <2>1 DEF Append1, TypeOK
    <3> QED
      BY <3>1, <3>2 DEF Durable
  <2>4. [u \in Targets |-> {r \in Rec : Durable(u, r)}]'
            = [[u \in Targets |-> {r \in Rec : Durable(u, r)}]
                  EXCEPT ![t] = @ \cup landed]
    BY <2>2, <2>3
  <2>5. Handoff!Store(t, landed)
    BY <2>1, <2>2, <2>4 DEF Handoff!Store, Known
  <2> QED
    BY <2>2, <2>5 DEF Handoff!Next
<1>4. ASSUME NEW c \in Conns, ReceiveAck(c) PROVE [Handoff!Next]_(Handoff!vars)
  <2>1. UNCHANGED <<captured, stored>>
    BY <1>4 DEF ReceiveAck
  <2>2. CASE flash' = flash \ Head(outstanding[c])
    <3> DEFINE S == Head(outstanding[c]) \cap flash
    <3>1. S \in SUBSET Rec /\ S \subseteq flash /\ flash' = flash \ S
      BY <2>2 DEF TypeOK
    <3>2. \A t \in Targets : S \subseteq {r \in Rec : Durable(t, r)}
      BY <1>4, <3>1, ReleasedIsKept DEF HandoffInv
    <3> HIDE DEF S
    <3>3. Handoff!Release(S)
      BY <2>1, <3>1, <3>2 DEF Handoff!Release, Durable
    <3> QED
      BY <3>1, <3>3 DEF Handoff!Next
  <2>3. CASE flash' = flash
    BY <1>1, <2>1, <2>3
  <2> QED
    BY <1>4, <2>2, <2>3 DEF ReceiveAck
<1>5. ASSUME NEW t \in Targets, NEW r \in Rec, NEW n \in Nodes, OrphanLands(t, r, n)
      PROVE  FALSE
    BY <1>5 DEF OrphanLands, HandoffInv
<1> QED
    BY <1>1, <1>2, <1>3, <1>4, <1>5
    DEF Next, Session, Environment, Failure, Connect, Send, StartPacket, CheckAndSet,
        StartWrite, Acknowledge, Drop, DecodeFails, DedupeFails, WriteFails, Fail,
        Disconnect, NodeExit, KeyLapses, vars

\* What the contract deletes is kept, so what is deleted stays kept.
LEMMA StepAckedKept ==
    ASSUME TypeOK, SessionShape, HandoffInv, [Next]_vars
    PROVE  AckedIsKept'
<1> SUFFICES ASSUME NEW r \in Acked', NEW t \in Targets PROVE Durable(t, r)'
    BY DEF AckedIsKept
<1>1. r \in Rec
    BY DEF Acked
<1>2. Durable(t, r) => Durable(t, r)'
    BY <1>1, DurableStays
<1>3. CASE r \in Acked
    BY <1>2, <1>3 DEF HandoffInv, AckedIsKept
<1>4. ASSUME r \notin Acked, NEW S \in SUBSET Rec, Handoff!Release(S) PROVE Durable(t, r)
  <2>1. r \in Known /\ flash' = flash \ S /\ r \in S /\ S \subseteq {q \in Rec : Durable(t, q)}
    BY <1>1, <1>4 DEF Handoff!Release, Acked, Known
  <2> QED
    BY <2>1
<1>5. ASSUME r \notin Acked, NEW q \in Rec, Handoff!Appear(q) PROVE FALSE
    BY <1>1, <1>5 DEF Handoff!Appear, Acked
<1>6. ASSUME r \notin Acked, NEW u \in Targets, NEW S, Handoff!Store(u, S) PROVE FALSE
    BY <1>1, <1>6 DEF Handoff!Store, Acked
<1>7. ASSUME r \notin Acked, UNCHANGED Handoff!vars PROVE FALSE
    BY <1>1, <1>7 DEF Handoff!vars, Acked
<1> QED
    BY <1>2, <1>3, <1>4, <1>5, <1>6, <1>7, HandoffSimulates DEF Handoff!Next

\* No write is left behind where no write is rejected.
LEMMA StepOrphans ==
    ASSUME ~BackendMayFail, orphans = {}, [Next]_vars
    PROVE  orphans' = {}
    BY DEF Next, Session, Environment, Failure, Capture, Connect, Send, ReceiveAck,
       StartPacket, CheckAndSet, StartWrite, WriteLands, Acknowledge, Drop, DecodeFails,
       DedupeFails, WriteFails, WriteIsSwallowed, NodeExit, KeyLapses, OrphanLands, vars

\* sinks.ts, to the device: a record is deleted only after every sink holds it.
\* So it is, whatever links and dedupe keys do, as long as no backend rejects, no
\* two sessions of a device overlap, and a process that ends takes its keys along.
THEOREM HandsOverSafely ==
    ASSUME ~BackendMayFail, SharedDeduper => ~NodesMayExit
    PROVE  Spec /\ []OneSessionEach => HandsOver
<1>1. Init => HandoffInv /\ Handoff!Init
  <2> SUFFICES ASSUME Init PROVE HandoffInv /\ Handoff!Init
    OBVIOUS
  <2>1. Known = {}
    BY DEF Init, Known, Rec
  <2>2. OwnPackets
    BY DEF Init, OwnPackets
  <2>3. ClaimsAreKept /\ ShownIsKept /\ AnsweredIsKept /\ orphans = {}
    BY DEF Init, ClaimsAreKept, ShownIsKept, AnsweredIsKept
  <2>4. AckedIsKept
    BY <2>1 DEF AckedIsKept, Acked, Known
  <2>5. Handoff!Init
    BY <2>1 DEF Init, Handoff!Init, Known, Durable
  <2> QED
    BY <2>2, <2>3, <2>4, <2>5 DEF HandoffInv
<1>2. AccountingInv /\ HandoffInv /\ OneSessionEach /\ [Next]_vars
          => HandoffInv' /\ [Handoff!Next]_(Handoff!vars)
  <2> SUFFICES ASSUME AccountingInv, HandoffInv, OneSessionEach, [Next]_vars
               PROVE  HandoffInv' /\ [Handoff!Next]_(Handoff!vars)
    OBVIOUS
  <2>1. TypeOK /\ SessionShape /\ \A c \in Conns : link[c] = "up" => Aligned(c)
    BY DEF AccountingInv
  <2>2. OwnPackets'
    BY <2>1, StepOwn DEF HandoffInv
  <2>3. ClaimsAreKept'
    BY <2>1, StepClaims DEF HandoffInv
  <2>4. ShownIsKept'
    BY <2>1, StepShownKept DEF HandoffInv
  <2>5. AnsweredIsKept'
    BY <2>1, StepAnswered DEF HandoffInv
  <2>6. AckedIsKept' /\ [Handoff!Next]_(Handoff!vars)
    BY <2>1, StepAckedKept, HandoffSimulates
  <2>7. orphans' = {}
    BY StepOrphans DEF HandoffInv
  <2> QED
    BY <2>2, <2>3, <2>4, <2>5, <2>6, <2>7 DEF HandoffInv
<1> QED
    BY <1>1, <1>2, AccountingInvariant, PTL DEF Spec, HandsOver, Handoff!Spec

=============================================================================
