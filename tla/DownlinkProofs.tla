--------------------------- MODULE DownlinkProofs ---------------------------
(***************************************************************************)
(* What the two ends of a command to a tracker promise, whatever the       *)
(* number of commands, requests and lost links: the pending commands of a  *)
(* session (CommandChannel), and the row and the event log of the          *)
(* immobilizer (Immobilizer).                                              *)
(***************************************************************************)
EXTENDS MCDownlink, FiniteSetTheorems, SequenceTheorems, TLAPS

-----------------------------------------------------------------------------
(***************************************************************************)
(* Sequences.                                                              *)
(***************************************************************************)

\* What is left of a sequence when one place is taken out.
LEMMA RemovalShifts ==
    ASSUME NEW S, NEW s \in Seq(S), NEW i \in 1..Len(s)
    PROVE  /\ RemoveAt(s, i) \in Seq(S)
           /\ Len(RemoveAt(s, i)) = Len(s) - 1
           /\ \A j \in 1..(Len(s) - 1) :
                 RemoveAt(s, i)[j] = IF j < i THEN s[j] ELSE s[j + 1]
<1>1. Len(s) \in Nat /\ i \in Nat /\ i > 0 /\ i <= Len(s)
    OBVIOUS
<1>2. PICK a : a = SubSeq(s, 1, i - 1)
    OBVIOUS
<1>3. a \in Seq(S) /\ Len(a) = i - 1 /\ \A j \in 1..(i - 1) : a[j] = s[j]
    BY <1>2
<1>4. PICK b : b = SubSeq(s, i + 1, Len(s))
    OBVIOUS
<1>5. b \in Seq(S) /\ Len(b) = Len(s) - i /\ \A j \in 1..(Len(s) - i) : b[j] = s[i + j]
    BY <1>4
<1>6. PICK t : t = a \o b
    OBVIOUS
<1>7. t \in Seq(S) /\ Len(t) = Len(s) - 1
  <2>1. a \in Seq(S) /\ b \in Seq(S)
    BY <1>3, <1>5
  <2>2. a \o b \in Seq(S) /\ Len(a \o b) = Len(a) + Len(b)
    BY <2>1, ConcatProperties
  <2> QED
    BY <1>1, <1>3, <1>5, <1>6, <2>2
<1>8. \A j \in 1..Len(t) : t[j] = IF j <= Len(a) THEN a[j] ELSE b[j - Len(a)]
    BY <1>3, <1>5, <1>6
<1>9. RemoveAt(s, i) = t
    BY <1>2, <1>4, <1>6 DEF RemoveAt
<1>10. ASSUME NEW j \in Nat, j > 0, j <= Len(s) - 1
       PROVE  t[j] = IF j < i THEN s[j] ELSE s[j + 1]
  <2>1. CASE j < i
    <3>1. t[j] = a[j]
      BY <1>1, <1>3, <1>7, <1>8, <1>10, <2>1
    <3> QED
      BY <1>1, <1>3, <1>10, <2>1, <3>1
  <2>2. CASE j >= i
    <3>0. j \in 1..Len(t) /\ ~(j <= Len(a)) /\ Len(a) = i - 1
      BY <1>1, <1>3, <1>7, <1>10, <2>2
    <3>1. t[j] = b[j - (i - 1)]
      BY <1>8, <3>0
    <3>2. j - (i - 1) \in 1..(Len(s) - i)
      BY <1>1, <1>10, <2>2
    <3>3. b[j - (i - 1)] = s[i + (j - (i - 1))]
      BY <1>5, <3>2
    <3>4. i + (j - (i - 1)) = j + 1
      BY <1>1, <1>10
    <3> QED
      BY <1>1, <1>10, <2>2, <3>1, <3>3, <3>4
  <2> QED
    BY <1>1, <1>10, <2>1, <2>2
<1>11. \A j \in 1..(Len(s) - 1) : j \in Nat /\ j > 0 /\ j <= Len(s) - 1
    BY <1>1
<1> QED
    BY <1>7, <1>9, <1>10, <1>11

\* A sequence with one more place.
LEMMA AppendShape ==
    ASSUME NEW S, NEW s \in Seq(S), NEW x \in S
    PROVE  /\ Append(s, x) \in Seq(S) /\ DOMAIN Append(s, x) = 1..(Len(s) + 1)
           /\ Append(s, x)[Len(s) + 1] = x
           /\ \A i \in DOMAIN s : Append(s, x)[i] = s[i]
           /\ \A i \in DOMAIN Append(s, x) : i \in DOMAIN s \/ i = Len(s) + 1
    OBVIOUS

\* What was in the sequence, but for the place, is in it, in the same order.
LEMMA RemovalKeeps ==
    ASSUME NEW S, NEW s \in Seq(S), NEW i \in 1..Len(s), NEW t, t = RemoveAt(s, i),
           \A j, k \in DOMAIN s : s[j] = s[k] => j = k
    PROVE  /\ t \in Seq(S)
           /\ \A j \in DOMAIN t : t[j] # s[i] /\ \E m \in DOMAIN s : t[j] = s[m]
           /\ \A m \in DOMAIN s : s[m] # s[i] => \E j \in DOMAIN t : t[j] = s[m]
           /\ \A j, k \in DOMAIN t : j < k =>
                 \E m, n \in DOMAIN s : m < n /\ t[j] = s[m] /\ t[k] = s[n]
<1>1. /\ t \in Seq(S) /\ Len(t) = Len(s) - 1
      /\ \A j \in 1..(Len(s) - 1) : t[j] = IF j < i THEN s[j] ELSE s[j + 1]
    BY RemovalShifts
<1>2. DOMAIN t = 1..(Len(s) - 1) /\ DOMAIN s = 1..Len(s) /\ Len(s) \in Nat
    BY <1>1
<1>3. \A j, k \in DOMAIN t : j < k =>
          \E m, n \in DOMAIN s : m < n /\ t[j] = s[m] /\ t[k] = s[n]
  <2> SUFFICES ASSUME NEW j \in DOMAIN t, NEW k \in DOMAIN t, j < k
               PROVE  \E m, n \in DOMAIN s : m < n /\ t[j] = s[m] /\ t[k] = s[n]
    OBVIOUS
  <2> DEFINE m == IF j < i THEN j ELSE j + 1
             n == IF k < i THEN k ELSE k + 1
  <2>1. m \in DOMAIN s /\ n \in DOMAIN s /\ m < n
    BY <1>2
  <2>2. t[j] = s[m] /\ t[k] = s[n]
    BY <1>1, <1>2
  <2> HIDE DEF m, n
  <2> QED
    BY <2>1, <2>2
<1>4. ASSUME NEW j \in DOMAIN t
      PROVE  t[j] # s[i] /\ \E m \in DOMAIN s : t[j] = s[m]
  <2> DEFINE m == IF j < i THEN j ELSE j + 1
  <2>1. m \in DOMAIN s /\ m # i /\ s[m] = t[j]
    BY <1>1, <1>2
  <2> HIDE DEF m
  <2> QED
    BY <1>2, <2>1
<1>5. ASSUME NEW m \in DOMAIN s, s[m] # s[i]
      PROVE  \E j \in DOMAIN t : t[j] = s[m]
  <2> DEFINE j == IF m < i THEN m ELSE m - 1
  <2>1. j \in DOMAIN t /\ t[j] = s[m]
    BY <1>1, <1>2, <1>5
  <2> HIDE DEF j
  <2> QED
    BY <2>1
<1> QED
    BY <1>1, <1>3, <1>4, <1>5

-----------------------------------------------------------------------------
(***************************************************************************)
(* The pending commands of a session.                                      *)
(***************************************************************************)
Cmd == Channel!Cmd

\* Commands are numbered as they are sent; the list holds the open ones in that
\* order; nothing is written to a device that is gone.
PendingShape ==
    /\ \A k \in Cmd : status[k] = "unsent" <=> k >= next
    /\ \A i, j \in DOMAIN pending : i < j => pending[i] < pending[j]
    /\ \A k \in Cmd : status[k] = "waiting" <=> \E i \in DOMAIN pending : pending[i] = k
    /\ link = "closed" => pending = <<>>
    /\ link # "up" => down = <<>>

IsResponse(i) == up[i].type = "response"

\* The commands that wait at the device, or whose responses wait at the session.
OnDown(m) == \E i \in DOMAIN down : down[i] = m
OnUp(m) == \E i \in DOMAIN up : IsResponse(i) /\ up[i].to = m
InFlightCmd(m) == OnDown(m) \/ OnUp(m)

\* The wire is first in, first out.
WireInOrder ==
    /\ \A i, j \in DOMAIN down : i < j => down[i] < down[j]
    /\ \A i, j \in DOMAIN up :
          i < j /\ IsResponse(i) /\ IsResponse(j) => up[i].to < up[j].to
    /\ \A m, n \in Cmd : OnUp(m) /\ OnDown(n) => m < n

\* A response in flight is to a sent command, and to a later one than all that
\* were handed out; on an open connection its command was not refused or closed.
FlightIsAhead ==
    \A m \in Cmd : InFlightCmd(m) =>
        /\ m < next
        /\ \A k \in Cmd : status[k] = "replied" => reply[k] < m
        /\ link # "closed" => status[m] \in {"waiting", "timeout", "replied"}

\* Callers are served in the order of their commands.
ServedInOrder ==
    \A j, k \in Cmd : status[j] = "replied" /\ status[k] = "waiting" => j < k

\* The registry's live session is that of the connection that is there; each login
\* that comes too late took a lost connection of its own.
LoginShape ==
    /\ byImei = "live" => loggedIn /\ link # "closed"
    /\ asking <= closes
    /\ link = "destroyed" => asking < closes
    /\ closes = 0 => byImei # "dead" /\ \A k \in Cmd : status[k] # "stuck"

\* A command that waits is in flight, as long as the connection is there or a later
\* one is in flight; or it was passed over, itself or one before it.
SkippedUpTo(k) == \E j \in 1..k : j \in skipped

WaitsInTurn ==
    \A k \in Cmd :
        status[k] = "waiting" /\ (link = "up" \/ \E m \in Cmd : k < m /\ InFlightCmd(m))
            => InFlightCmd(k) \/ SkippedUpTo(k)

ChannelInv ==
    /\ Channel!TypeOK
    /\ PendingShape
    /\ WireInOrder
    /\ FlightIsAhead
    /\ ServedInOrder
    /\ LoginShape
    /\ WaitsInTurn
    /\ Channel!RepliesInOrder
    /\ Channel!LateOnlyAfterTimeout
    /\ Channel!EarlyOnlyAfterSkip

\* Commands are numbers.
LEMMA CmdsAreNumbers ==
    /\ Cmd = 1..MaxCommand /\ Cmd \subseteq Nat /\ MaxCommand \in Nat
    /\ \A k \in Cmd : k >= 1 /\ k <= MaxCommand
    BY ChannelAssumption DEF Cmd, Channel!Cmd

\* A step of the wire: callers and the list are left alone, and what is in
\* flight was in flight.
LEMMA WireStep ==
    ASSUME ChannelInv, UNCHANGED <<next, status, reply, pending>>,
           Channel!TypeOK', WireInOrder', LoginShape', WaitsInTurn', skipped \subseteq skipped',
           \A m \in Cmd : InFlightCmd(m)' => InFlightCmd(m) /\ (link # "closed" \/ link' = "closed"),
           link' = "closed" => pending = <<>>,
           link' # "up" => down' = <<>>
    PROVE  ChannelInv'
<1>1. PendingShape'
    BY DEF ChannelInv, PendingShape
<1>2. FlightIsAhead'
    BY DEF ChannelInv, FlightIsAhead
<1>3. ServedInOrder' /\ Channel!RepliesInOrder' /\ Channel!LateOnlyAfterTimeout'
    BY DEF ChannelInv, ServedInOrder, Channel!RepliesInOrder, Channel!LateOnlyAfterTimeout
<1>4. Channel!EarlyOnlyAfterSkip'
    BY DEF ChannelInv, Channel!EarlyOnlyAfterSkip
<1> QED
    BY <1>1, <1>2, <1>3, <1>4 DEF ChannelInv

\* The device takes the next command off the wire.
LEMMA DownTaken ==
    ASSUME ChannelInv, down # <<>>, down' = Tail(down)
    PROVE  /\ down' \in Seq(Cmd) /\ Head(down) \in Cmd /\ OnDown(Head(down))
           /\ \A m \in Cmd : OnDown(m)' => OnDown(m) /\ Head(down) < m
           /\ \A m \in Cmd : OnDown(m) => OnDown(m)' \/ m = Head(down)
           /\ \A i, j \in DOMAIN down' : i < j => down'[i] < down'[j]
<1>1. /\ down \in Seq(Cmd) /\ Len(down) \in Nat /\ Len(down) > 0
      /\ DOMAIN down = 1..Len(down) /\ Head(down) = down[1]
    BY DEF ChannelInv, Channel!TypeOK, Cmd
<1>2. /\ down' \in Seq(Cmd) /\ DOMAIN down' = 1..(Len(down) - 1)
      /\ \A i \in DOMAIN down' : down'[i] = down[i + 1] /\ i + 1 \in DOMAIN down /\ i \in Nat
    BY <1>1
<1>3. \A i, j \in DOMAIN down : i < j => down[i] < down[j]
    BY DEF ChannelInv, WireInOrder
<1>4. ASSUME NEW m \in Cmd, OnDown(m)' PROVE OnDown(m) /\ Head(down) < m
  <2>1. PICK i \in DOMAIN down' : down'[i] = m
    BY <1>4 DEF OnDown
  <2>2. i + 1 \in DOMAIN down /\ down[i + 1] = m /\ 1 < i + 1 /\ 1 \in DOMAIN down
    BY <1>1, <1>2, <2>1
  <2> QED
    BY <1>1, <1>3, <2>2 DEF OnDown
<1>5. \A i, j \in DOMAIN down' : i < j => down'[i] < down'[j]
    BY <1>2, <1>3
<1>6. Head(down) \in Cmd /\ OnDown(Head(down))
    BY <1>1 DEF OnDown
<1>7. ASSUME NEW m \in Cmd, OnDown(m) PROVE OnDown(m)' \/ m = Head(down)
  <2>1. PICK i \in DOMAIN down : down[i] = m
    BY <1>7 DEF OnDown
  <2>2. i = 1 \/ (i - 1 \in DOMAIN down' /\ down'[i - 1] = down[i])
    BY <1>1, <1>2
  <2> QED
    BY <1>1, <2>1, <2>2 DEF OnDown
<1> QED
    BY <1>2, <1>4, <1>5, <1>6, <1>7

\* The session takes the next message off the wire.
LEMMA UpTaken ==
    ASSUME ChannelInv, up # <<>>, up' = Tail(up)
    PROVE  /\ up' \in Seq(Channel!Message) /\ Head(up) \in Channel!Message
           /\ \A m \in Cmd : OnUp(m)' => OnUp(m)
           /\ \A m \in Cmd : OnUp(m) =>
                 OnUp(m)' \/ (Head(up).type = "response" /\ m = Head(up).to)
           /\ Head(up).type = "response" =>
                 /\ OnUp(Head(up).to)
                 /\ \A m \in Cmd : OnUp(m)' => Head(up).to < m
           /\ \A i, j \in DOMAIN up' :
                 i < j /\ IsResponse(i)' /\ IsResponse(j)' => up'[i].to < up'[j].to
<1>1. /\ up \in Seq(Channel!Message) /\ Len(up) \in Nat /\ Len(up) > 0
      /\ DOMAIN up = 1..Len(up) /\ Head(up) = up[1]
    BY DEF ChannelInv, Channel!TypeOK
<1>2. /\ up' \in Seq(Channel!Message) /\ DOMAIN up' = 1..(Len(up) - 1)
      /\ \A i \in DOMAIN up' : up'[i] = up[i + 1] /\ i + 1 \in DOMAIN up /\ i \in Nat
    BY <1>1
<1>3. \A i, j \in DOMAIN up :
          i < j /\ IsResponse(i) /\ IsResponse(j) => up[i].to < up[j].to
    BY DEF ChannelInv, WireInOrder
<1>4. ASSUME NEW m \in Cmd, OnUp(m)'
      PROVE  OnUp(m) /\ (IsResponse(1) => up[1].to < m)
  <2>1. PICK i \in DOMAIN up' : up'[i].type = "response" /\ up'[i].to = m
    BY <1>4 DEF OnUp, IsResponse
  <2>2. i + 1 \in DOMAIN up /\ IsResponse(i + 1) /\ up[i + 1].to = m
        /\ 1 < i + 1 /\ 1 \in DOMAIN up
    BY <1>1, <1>2, <2>1 DEF IsResponse
  <2> QED
    BY <1>3, <2>2 DEF OnUp
<1>5. \A i, j \in DOMAIN up' :
          i < j /\ IsResponse(i)' /\ IsResponse(j)' => up'[i].to < up'[j].to
    BY <1>2, <1>3 DEF IsResponse
<1>6. Head(up) \in Channel!Message
    BY <1>1
<1>7. Head(up).type = "response" => IsResponse(1) /\ OnUp(up[1].to)
    BY <1>1 DEF OnUp, IsResponse
<1>8. ASSUME NEW m \in Cmd, OnUp(m)
      PROVE  OnUp(m)' \/ (Head(up).type = "response" /\ m = Head(up).to)
  <2>1. PICK i \in DOMAIN up : up[i].type = "response" /\ up[i].to = m
    BY <1>8 DEF OnUp, IsResponse
  <2>2. i = 1 \/ (i - 1 \in DOMAIN up' /\ up'[i - 1] = up[i])
    BY <1>1, <1>2
  <2> QED
    BY <1>1, <2>1, <2>2 DEF OnUp, IsResponse
<1> QED
    BY <1>1, <1>2, <1>4, <1>5, <1>6, <1>7, <1>8

\* The device answers a command, or leaves it.
LEMMA DeviceKeeps ==
    ASSUME ChannelInv, Channel!Answer \/ Channel!Ignore
    PROVE  ChannelInv'
<1>1. /\ down # <<>> /\ down' = Tail(down)
      /\ UNCHANGED link /\ UNCHANGED next /\ UNCHANGED status /\ UNCHANGED reply
      /\ UNCHANGED pending /\ UNCHANGED closes /\ UNCHANGED <<loggedIn, byImei, asking>>
    BY DEF Channel!Answer, Channel!Ignore, Channel!linkVars, Channel!cmdVars
<1>7. LoginShape'
    BY <1>1 DEF ChannelInv, LoginShape
<1>2. link # "up" => down' = <<>>
    BY <1>1 DEF ChannelInv, PendingShape
<1>3. /\ up \in Seq(Channel!Message) /\ Len(up) \in Nat /\ DOMAIN up = 1..Len(up)
    BY DEF ChannelInv, Channel!TypeOK
<1>4. link = "closed" => pending = <<>>
    BY DEF ChannelInv, PendingShape
<1>5. CASE Channel!Ignore
  <2>1. UNCHANGED up /\ skipped' = skipped \cup {Head(down)}
    BY <1>5 DEF Channel!Ignore
  <2>2. \A m : OnUp(m)' <=> OnUp(m)
    BY <2>1 DEF OnUp, IsResponse
  <2>3. WireInOrder'
    BY <1>1, <2>1, <2>2, DownTaken DEF ChannelInv, WireInOrder, IsResponse
  <2>4. Channel!TypeOK'
    BY <1>1, <2>1, DownTaken DEF ChannelInv, Channel!TypeOK, Cmd
  <2>5. \A m \in Cmd : InFlightCmd(m)' => InFlightCmd(m)
    BY <1>1, <2>2, DownTaken DEF InFlightCmd
  <2>6. \A m \in Cmd : InFlightCmd(m) => InFlightCmd(m)' \/ m = Head(down)
    BY <1>1, <2>2, DownTaken DEF InFlightCmd
  <2>7. \A k \in Cmd : SkippedUpTo(k) \/ k = Head(down) => SkippedUpTo(k)'
    BY <2>1, CmdsAreNumbers DEF SkippedUpTo
  <2>8. WaitsInTurn'
    BY <1>1, <2>5, <2>6, <2>7 DEF ChannelInv, WaitsInTurn
  <2> QED
    BY <1>1, <1>2, <1>4, <1>7, <2>1, <2>3, <2>4, <2>5, <2>8, WireStep
<1>6. CASE Channel!Answer
  <2> PICK d \in Cmd : d = Head(down)
    BY <1>1, DownTaken
  <2>1. up' = Append(up, [type |-> "response", to |-> d]) /\ UNCHANGED skipped
    BY <1>6 DEF Channel!Answer
  <2>2. [type |-> "response", to |-> d] \in Channel!Message
    BY DEF Channel!Message, Cmd
  <2>3. /\ up' \in Seq(Channel!Message) /\ DOMAIN up' = 1..(Len(up) + 1)
        /\ \A i \in DOMAIN up : up'[i] = up[i]
        /\ up'[Len(up) + 1].type = "response" /\ up'[Len(up) + 1].to = d
    BY <1>3, <2>1, <2>2
  <2>4. \A i \in DOMAIN up' : i \in DOMAIN up \/ i = Len(up) + 1
    BY <1>3, <2>3
  <2>5. \A m \in Cmd : OnUp(m)' => OnUp(m) \/ m = d
    BY <2>3, <2>4 DEF OnUp, IsResponse
  <2>6. WireInOrder'
    <3>1. \A i, j \in DOMAIN up' :
             i < j /\ IsResponse(i)' /\ IsResponse(j)' => up'[i].to < up'[j].to
      <4> SUFFICES ASSUME NEW i \in DOMAIN up', NEW j \in DOMAIN up', i < j,
                          IsResponse(i)', IsResponse(j)'
                   PROVE  up'[i].to < up'[j].to
        OBVIOUS
      <4>1. i \in DOMAIN up
        BY <1>3, <2>3, <2>4
      <4>2. CASE j \in DOMAIN up
        BY <2>3, <4>1, <4>2 DEF ChannelInv, WireInOrder, IsResponse
      \* The commands at the device are later than the responses under way.
      <4>3. CASE j = Len(up) + 1
        <5>1. OnUp(up[i].to) /\ up[i].to \in Cmd /\ OnDown(d)
          <6>1. IsResponse(i) /\ up[i] \in Channel!Message
            BY <1>3, <2>3, <4>1 DEF IsResponse
          <6> QED
            BY <1>1, <4>1, <6>1, DownTaken DEF OnUp, Channel!Message, Cmd
        <5> QED
          BY <2>3, <4>1, <4>3, <5>1 DEF ChannelInv, WireInOrder
      <4> QED
        BY <2>4, <4>2, <4>3
    <3>2. \A m, n \in Cmd : OnUp(m)' /\ OnDown(n)' => m < n
      BY <1>1, <2>5, DownTaken DEF ChannelInv, WireInOrder
    <3> QED
      BY <1>1, <3>1, <3>2, DownTaken DEF WireInOrder
  <2>7. Channel!TypeOK'
    BY <1>1, <2>1, <2>3, DownTaken DEF ChannelInv, Channel!TypeOK, Cmd
  <2>8. \A m \in Cmd : InFlightCmd(m)' => InFlightCmd(m)
    BY <1>1, <2>5, DownTaken DEF InFlightCmd
  <2>9. \A m \in Cmd : OnUp(m) \/ m = d => OnUp(m)'
    <3>1. Len(up) + 1 \in DOMAIN up' /\ \A i \in DOMAIN up : i \in DOMAIN up'
      BY <1>3, <2>3
    <3> QED
      BY <2>3, <3>1 DEF OnUp, IsResponse
  <2>10. \A m \in Cmd : InFlightCmd(m) => InFlightCmd(m)'
    BY <1>1, <2>9, DownTaken DEF InFlightCmd
  <2>11. WaitsInTurn'
    BY <1>1, <2>1, <2>8, <2>10 DEF ChannelInv, WaitsInTurn, SkippedUpTo
  <2> QED
    BY <1>1, <1>2, <1>4, <1>7, <2>1, <2>6, <2>7, <2>8, <2>11, WireStep
<1> QED
    BY <1>5, <1>6

\* The connection is lost, is made anew, or carries a message of another kind.
LEMMA LinkKeeps ==
    ASSUME ChannelInv, Channel!Volunteer \/ Channel!Lose \/ Channel!Reconnect
    PROVE  ChannelInv'
<1>1. /\ UNCHANGED next /\ UNCHANGED status /\ UNCHANGED reply /\ UNCHANGED pending
      /\ UNCHANGED <<loggedIn, byImei, asking>> /\ UNCHANGED skipped
    BY DEF Channel!Volunteer, Channel!Lose, Channel!Reconnect, Channel!cmdVars, Channel!linkVars
<1>2. /\ up \in Seq(Channel!Message) /\ Len(up) \in Nat /\ DOMAIN up = 1..Len(up)
      /\ link = "closed" => pending = <<>>
      /\ link # "up" => down = <<>>
    BY DEF ChannelInv, Channel!TypeOK, PendingShape
<1>3. CASE Channel!Volunteer
  <2>1. PICK k \in Cmd : up' = <<[type |-> "other", to |-> k]>>
    BY <1>3 DEF Channel!Volunteer, Cmd
  <2>2. UNCHANGED link /\ UNCHANGED down /\ UNCHANGED closes /\ up = <<>>
    BY <1>3 DEF Channel!Volunteer, Channel!linkVars
  <2>3. [type |-> "other", to |-> k] \in Channel!Message
    BY DEF Channel!Message, Cmd
  <2>4. up' \in Seq(Channel!Message) /\ \A i \in DOMAIN up' : ~IsResponse(i)'
    BY <2>1, <2>3 DEF IsResponse
  <2>5. WireInOrder'
    BY <2>2, <2>4 DEF ChannelInv, WireInOrder, OnUp, OnDown
  <2>6. Channel!TypeOK'
    BY <1>1, <2>2, <2>4 DEF ChannelInv, Channel!TypeOK
  <2>7. \A m \in Cmd : InFlightCmd(m)' <=> InFlightCmd(m)
    BY <2>2, <2>4 DEF InFlightCmd, OnUp, OnDown
  <2>8. LoginShape' /\ WaitsInTurn'
    BY <1>1, <2>2, <2>7 DEF ChannelInv, LoginShape, WaitsInTurn, SkippedUpTo
  <2> QED
    BY <1>1, <1>2, <2>2, <2>5, <2>6, <2>7, <2>8, WireStep
<1>4. CASE Channel!Lose
  <2>1. PICK cut \in 0..Len(up) : up' = SubSeq(up, 1, cut)
    BY <1>4 DEF Channel!Lose
  <2>2. /\ down' = <<>> /\ link = "up" /\ link' = "destroyed" /\ closes' \in 0..MaxClose
        /\ closes' = closes + 1
    BY <1>4, ChannelAssumption DEF Channel!Lose, ChannelInv, Channel!TypeOK
  <2>3. /\ up' \in Seq(Channel!Message) /\ DOMAIN up' = 1..cut
        /\ \A i \in 1..cut : up'[i] = up[i] /\ i \in DOMAIN up
    BY <1>2, <2>1
  <2>4. \A m \in Cmd : OnUp(m)' => OnUp(m)
    BY <2>3 DEF OnUp, IsResponse
  <2>5. WireInOrder'
    <3>1. \A i, j \in DOMAIN up' :
             i < j /\ IsResponse(i)' /\ IsResponse(j)' => up'[i].to < up'[j].to
      BY <2>3 DEF ChannelInv, WireInOrder, IsResponse
    <3> QED
      BY <2>2, <3>1 DEF WireInOrder, OnDown
  <2>6. Channel!TypeOK'
    BY <1>1, <2>2, <2>3 DEF ChannelInv, Channel!TypeOK
  <2>7. \A m \in Cmd : InFlightCmd(m)' => InFlightCmd(m)
    BY <2>2, <2>4 DEF InFlightCmd, OnDown
  <2>8. LoginShape'
    BY <1>1, <2>2 DEF ChannelInv, LoginShape, Channel!TypeOK
  \* What has arrived is a first part: a response before one of them has arrived too.
  <2>9. ASSUME NEW k \in Cmd, NEW m \in Cmd, k < m, InFlightCmd(m)', InFlightCmd(k)
        PROVE  InFlightCmd(k)'
    <3>1. OnUp(m)' /\ OnUp(m)
      BY <2>2, <2>4, <2>9 DEF InFlightCmd, OnDown
    <3>2. OnUp(k)
      <4>1. ~OnDown(k)
        BY <2>9, <3>1, CmdsAreNumbers DEF ChannelInv, WireInOrder
      <4> QED
        BY <2>9, <4>1 DEF InFlightCmd
    <3>3. PICK i \in DOMAIN up : IsResponse(i) /\ up[i].to = k
      BY <3>2 DEF OnUp
    <3>4. PICK j \in DOMAIN up' : IsResponse(j)' /\ up'[j].to = m
      BY <3>1 DEF OnUp
    <3>5. j \in DOMAIN up /\ IsResponse(j) /\ up[j].to = m /\ up'[j] = up[j] /\ j \in Nat /\ i \in Nat
      BY <1>2, <2>3, <3>3, <3>4 DEF IsResponse
    <3>6. ~(j < i) /\ i # j
      BY <2>9, <3>3, <3>5, CmdsAreNumbers DEF ChannelInv, WireInOrder
    <3>7. i \in DOMAIN up' /\ up'[i] = up[i]
      BY <1>2, <2>3, <3>3, <3>4, <3>5, <3>6
    <3> QED
      BY <3>3, <3>7 DEF InFlightCmd, OnUp, IsResponse
  <2>10. WaitsInTurn'
    BY <1>1, <2>2, <2>7, <2>9 DEF ChannelInv, WaitsInTurn, SkippedUpTo
  <2> QED
    BY <1>1, <1>2, <2>2, <2>5, <2>6, <2>7, <2>8, <2>10, WireStep
<1>5. CASE Channel!Reconnect
  <2>1. up' = <<>> /\ link = "closed" /\ link' = "up" /\ UNCHANGED closes /\ down' = <<>>
    BY <1>2, <1>5 DEF Channel!Reconnect
  <2>4. LoginShape'
    BY <1>1, <2>1 DEF ChannelInv, LoginShape
  <2>5. WaitsInTurn'
    <3>1. \A k \in Cmd : status[k] # "waiting"
      BY <1>2, <2>1 DEF ChannelInv, PendingShape
    <3> QED
      BY <1>1, <3>1 DEF WaitsInTurn
  <2>2. WireInOrder' /\ \A m \in Cmd : ~InFlightCmd(m)'
    BY <2>1 DEF WireInOrder, InFlightCmd, OnUp, OnDown
  <2>3. Channel!TypeOK'
    BY <1>1, <2>1 DEF ChannelInv, Channel!TypeOK
  <2> QED
    BY <1>1, <2>1, <2>2, <2>3, <2>4, <2>5, WireStep
<1> QED
    BY <1>3, <1>4, <1>5

\* A login is answered in time or too late.
LEMMA LogInKeeps ==
    ASSUME ChannelInv, Channel!LogIn \/ Channel!LateLogIn
    PROVE  ChannelInv'
<1>1. /\ UNCHANGED <<next, status, reply, pending>> /\ UNCHANGED <<down, up, skipped>>
      /\ UNCHANGED link /\ UNCHANGED closes
    BY DEF Channel!LogIn, Channel!LateLogIn, Channel!cmdVars, Channel!wireVars
<1>2. Channel!TypeOK' /\ LoginShape'
  <2>1. CASE Channel!LogIn
    BY <1>1, <2>1 DEF Channel!LogIn, ChannelInv, Channel!TypeOK, LoginShape
  <2>2. CASE Channel!LateLogIn
    <3>1. /\ asking \in Nat /\ closes \in Nat /\ asking > 0 /\ asking' = asking - 1
          /\ byImei' = "dead" /\ UNCHANGED loggedIn
      BY <2>2, ChannelAssumption DEF Channel!LateLogIn, ChannelInv, Channel!TypeOK
    <3>2. asking' \in 0..MaxClose
      BY <3>1, ChannelAssumption DEF ChannelInv, Channel!TypeOK
    <3> QED
      BY <1>1, <3>1, <3>2 DEF ChannelInv, Channel!TypeOK, LoginShape
  <2> QED
    BY <2>1, <2>2
<1>3. WireInOrder' /\ \A m : InFlightCmd(m)' <=> InFlightCmd(m)
    BY <1>1 DEF ChannelInv, WireInOrder, InFlightCmd, OnUp, OnDown, IsResponse
<1>4. WaitsInTurn'
    BY <1>1, <1>3 DEF ChannelInv, WaitsInTurn, SkippedUpTo
<1>5. (link' = "closed" => pending = <<>>) /\ (link' # "up" => down' = <<>>)
    BY <1>1 DEF ChannelInv, PendingShape
<1> QED
    BY <1>1, <1>2, <1>3, <1>4, <1>5, WireStep

\* A command is sent: it is the last of those that wait, and of those in flight.
LEMMA SendKeeps ==
    ASSUME ChannelInv, Channel!SendCommand
    PROVE  ChannelInv'
<1>1. /\ next \in Cmd /\ next' = next + 1 /\ link # "closed"
      /\ status' = [status EXCEPT ![next] = "waiting"]
      /\ pending' = Append(pending, next)
      /\ \/ link = "up" /\ down' = Append(down, next)
         \/ link # "up" /\ UNCHANGED down
      /\ UNCHANGED link /\ UNCHANGED reply /\ UNCHANGED up /\ UNCHANGED closes
      /\ UNCHANGED <<loggedIn, byImei, asking>> /\ UNCHANGED skipped
    BY DEF Channel!SendCommand, Channel!linkVars, Cmd, ChannelInv, LoginShape
<1>2. /\ next \in Nat /\ \A k \in Cmd : k \in Nat
      /\ pending \in Seq(Cmd) /\ Len(pending) \in Nat /\ DOMAIN pending = 1..Len(pending)
      /\ down \in Seq(Cmd) /\ Len(down) \in Nat /\ DOMAIN down = 1..Len(down)
    BY <1>1, CmdsAreNumbers DEF ChannelInv, Channel!TypeOK, Cmd
<1>3. /\ pending' \in Seq(Cmd) /\ DOMAIN pending' = 1..(Len(pending) + 1)
      /\ pending'[Len(pending) + 1] = next
      /\ \A i \in DOMAIN pending : pending'[i] = pending[i]
    BY <1>1, <1>2
<1>4. \A i \in DOMAIN pending' : i \in DOMAIN pending \/ i = Len(pending) + 1
    BY <1>2, <1>3
<1>5. /\ status'[next] = "waiting" /\ \A k \in Cmd \ {next} : status'[k] = status[k]
      /\ status' \in [Cmd -> Channel!Outcome \cup Channel!Open \cup {"unsent"}]
    BY <1>1 DEF ChannelInv, Channel!TypeOK, Channel!Open, Cmd
<1>6. \A i \in DOMAIN pending : pending[i] < next /\ pending[i] \in Cmd
  <2> SUFFICES ASSUME NEW i \in DOMAIN pending PROVE pending[i] < next /\ pending[i] \in Cmd
    OBVIOUS
  <2>1. pending[i] \in Cmd
    BY <1>2
  <2>2. status[pending[i]] = "waiting"
    BY <2>1 DEF ChannelInv, PendingShape
  <2>3. ~(pending[i] >= next)
    BY <2>1, <2>2 DEF ChannelInv, PendingShape
  <2> QED
    BY <1>2, <2>1, <2>3
<1>7. \A m \in Cmd : OnUp(m)' <=> OnUp(m)
    BY <1>1 DEF OnUp, IsResponse
<1>8. /\ down' \in Seq(Cmd)
      /\ \A m \in Cmd : OnDown(m)' => OnDown(m) \/ m = next
      /\ \A i, j \in DOMAIN down' : i < j => down'[i] < down'[j]
  <2>1. CASE UNCHANGED down
    BY <1>2, <2>1 DEF OnDown, ChannelInv, WireInOrder
  <2>2. CASE down' = Append(down, next)
    <3>1. /\ down' \in Seq(Cmd) /\ DOMAIN down' = 1..(Len(down) + 1)
          /\ down'[Len(down) + 1] = next
          /\ \A i \in DOMAIN down : down'[i] = down[i]
          /\ \A i \in DOMAIN down' : i \in DOMAIN down \/ i = Len(down) + 1
      <4>1. next \in Cmd /\ down \in Seq(Cmd)
        BY <1>1, <1>2
      <4> QED
        BY <2>2, <4>1, AppendShape
    <3>2. \A i \in DOMAIN down : down[i] < next
      BY <1>2 DEF ChannelInv, FlightIsAhead, InFlightCmd, OnDown
    <3>3. \A i, j \in DOMAIN down' : i < j => down'[i] < down'[j]
      <4> SUFFICES ASSUME NEW i \in DOMAIN down', NEW j \in DOMAIN down', i < j
                   PROVE  down'[i] < down'[j]
        OBVIOUS
      <4>1. i \in DOMAIN down
        BY <1>2, <3>1
      <4> QED
        BY <3>1, <3>2, <4>1 DEF ChannelInv, WireInOrder
    <3> QED
      BY <3>1, <3>3 DEF OnDown
  <2> QED
    BY <1>1, <2>1, <2>2
<1>9. Channel!TypeOK'
  <2>1. next' \in 1..(MaxCommand + 1)
    BY <1>1, CmdsAreNumbers
  <2> QED
    BY <1>1, <1>3, <1>5, <1>8, <2>1 DEF ChannelInv, Channel!TypeOK, Cmd
<1>10. PendingShape'
  <2>1. \A k \in Cmd : (status[k] = "unsent" <=> k >= next)'
    BY <1>1, <1>2, <1>5 DEF ChannelInv, PendingShape
  <2>2. \A i, j \in DOMAIN pending' : i < j => pending'[i] < pending'[j]
    <3> SUFFICES ASSUME NEW i \in DOMAIN pending', NEW j \in DOMAIN pending', i < j
                 PROVE  pending'[i] < pending'[j]
      OBVIOUS
    <3>1. i \in DOMAIN pending
      BY <1>2, <1>3, <1>4
    <3> QED
      BY <1>3, <1>4, <1>6, <3>1 DEF ChannelInv, PendingShape
  <2>3. ASSUME NEW k \in Cmd
        PROVE  (status[k] = "waiting")' <=> \E i \in DOMAIN pending' : pending'[i] = k
    <3>1. CASE k = next
      <4>1. Len(pending) + 1 \in DOMAIN pending'
        BY <1>2, <1>3
      <4> QED
        BY <1>3, <1>5, <3>1, <4>1
    <3>2. CASE k # next
      <4>1. (\E i \in DOMAIN pending' : pending'[i] = k) <=>
                \E i \in DOMAIN pending : pending[i] = k
        <5>1. \A i \in DOMAIN pending : i \in DOMAIN pending'
          BY <1>2, <1>3
        <5> QED
          BY <1>3, <1>4, <3>2, <5>1, Zenon
      <4> QED
        BY <1>5, <3>2, <4>1 DEF ChannelInv, PendingShape
    <3> QED
      BY <3>1, <3>2
  <2>4. (link # "up" => down = <<>>)'
    BY <1>1 DEF ChannelInv, PendingShape
  <2> QED
    BY <1>1, <2>1, <2>2, <2>3, <2>4 DEF PendingShape
<1>11. WireInOrder'
  <2>1. \A m \in Cmd : OnUp(m) => m < next
    BY DEF ChannelInv, FlightIsAhead, InFlightCmd
  <2>2. \A m, n \in Cmd : OnUp(m)' /\ OnDown(n)' => m < n
    BY <1>7, <1>8, <2>1 DEF ChannelInv, WireInOrder
  <2>3. \A i, j \in DOMAIN up' :
            i < j /\ IsResponse(i)' /\ IsResponse(j)' => up'[i].to < up'[j].to
    BY <1>1 DEF ChannelInv, WireInOrder, IsResponse
  <2> QED
    BY <1>8, <2>2, <2>3 DEF WireInOrder
<1>12. \A k \in Cmd : status[k] = "replied" => reply[k] < next /\ reply[k] \in Nat
    BY <1>2, CmdsAreNumbers DEF ChannelInv, Channel!RepliesInOrder, Cmd
<1>13. FlightIsAhead'
  <2> SUFFICES ASSUME NEW m \in Cmd, InFlightCmd(m)'
               PROVE  /\ m < next'
                      /\ \A k \in Cmd : status'[k] = "replied" => reply'[k] < m
                      /\ link' # "closed" => status'[m] \in {"waiting", "timeout", "replied"}
    BY DEF FlightIsAhead
  <2>1. CASE m = next
    BY <1>1, <1>2, <1>5, <1>12, <2>1
  <2>2. CASE m # next
    <3>1. InFlightCmd(m)
      BY <1>7, <1>8, <2>2 DEF InFlightCmd
    <3> QED
      BY <1>1, <1>2, <1>5, <2>2, <3>1 DEF ChannelInv, FlightIsAhead
  <2> QED
    BY <2>1, <2>2
<1>14. \A k \in Cmd : status'[k] = "replied" =>
           k # next /\ k < next /\ status[k] = "replied" /\ reply'[k] = reply[k]
    BY <1>1, <1>2, <1>5 DEF ChannelInv, PendingShape
<1>15. ServedInOrder'
    BY <1>5, <1>14 DEF ChannelInv, ServedInOrder
<1>16. Channel!RepliesInOrder'
    BY <1>1, <1>2, <1>14, CmdsAreNumbers DEF ChannelInv, Channel!RepliesInOrder, Cmd
<1>17. Channel!LateOnlyAfterTimeout'
  <2> SUFFICES ASSUME NEW k \in Cmd, status'[k] = "replied", reply'[k] < k
               PROVE  \E j \in 1..(k - 1) : status'[j] = "timeout"
    BY DEF Channel!LateOnlyAfterTimeout, Cmd
  <2>1. PICK j \in 1..(k - 1) : status[j] = "timeout"
    BY <1>14 DEF ChannelInv, Channel!LateOnlyAfterTimeout, Cmd
  <2>2. j \in Cmd /\ j # next
    BY <1>2, <1>14, <2>1, CmdsAreNumbers
  <2> QED
    BY <1>5, <2>1, <2>2
<1>18. Channel!EarlyOnlyAfterSkip'
    BY <1>1, <1>14 DEF ChannelInv, Channel!EarlyOnlyAfterSkip, Cmd
<1>19. LoginShape'
    BY <1>1, <1>5 DEF ChannelInv, LoginShape
\* On a connection that is there it is in flight itself; and it is the last of all.
<1>20. WaitsInTurn'
  <2> SUFFICES ASSUME NEW k \in Cmd, status'[k] = "waiting",
                      link' = "up" \/ \E m \in Cmd : k < m /\ InFlightCmd(m)'
               PROVE  InFlightCmd(k)' \/ SkippedUpTo(k)'
    BY DEF WaitsInTurn
  <2>1. \A m \in Cmd : InFlightCmd(m)' => InFlightCmd(m) \/ (m = next /\ link = "up")
    <3>1. CASE UNCHANGED down
      BY <1>7, <3>1 DEF InFlightCmd, OnDown
    <3>2. CASE link = "up"
      BY <1>7, <1>8, <3>2 DEF InFlightCmd
    <3> QED
      BY <1>1, <3>1, <3>2
  <2>2. \A m \in Cmd : InFlightCmd(m) \/ (m = next /\ link = "up") => InFlightCmd(m)'
    <3>1. CASE link # "up"
      BY <1>1, <1>7, <3>1 DEF InFlightCmd, OnDown
    <3>2. CASE link = "up"
      <4>1. down' = Append(down, next) /\ next \in Cmd /\ down \in Seq(Cmd)
        BY <1>1, <1>2, <3>2
      <4>2. /\ DOMAIN down' = 1..(Len(down) + 1) /\ down'[Len(down) + 1] = next
            /\ \A i \in DOMAIN down : down'[i] = down[i]
        BY <4>1, AppendShape
      <4>3. Len(down) + 1 \in DOMAIN down' /\ \A i \in DOMAIN down : i \in DOMAIN down'
        BY <1>2, <4>2
      <4> QED
        BY <1>7, <4>2, <4>3 DEF InFlightCmd, OnDown
    <3> QED
      BY <3>1, <3>2
  <2>3. \A m \in Cmd : InFlightCmd(m) => m < next
    BY DEF ChannelInv, FlightIsAhead
  <2>4. CASE k = next
    BY <1>1, <1>2, <2>1, <2>2, <2>3, <2>4
  <2>5. CASE k # next
    <3>1. status[k] = "waiting"
      BY <1>5, <2>5
    <3>2. link = "up" \/ \E m \in Cmd : k < m /\ InFlightCmd(m)
      BY <1>1, <2>1
    <3>3. InFlightCmd(k) \/ SkippedUpTo(k)
      BY <3>1, <3>2 DEF ChannelInv, WaitsInTurn
    <3> QED
      BY <1>1, <2>2, <3>3 DEF SkippedUpTo
  <2> QED
    BY <2>4, <2>5
<1> QED
    BY <1>9, <1>10, <1>11, <1>13, <1>15, <1>16, <1>17, <1>18, <1>19, <1>20 DEF ChannelInv

\* A command is refused while no session is registered, or is handed to one whose
\* connection has gone.
LEMMA RefuseKeeps ==
    ASSUME ChannelInv, Channel!RefuseCommand \/ Channel!SendToDead
    PROVE  ChannelInv'
<1>1. PICK s \in {"not_connected", "stuck"} :
      /\ next \in Cmd /\ next' = next + 1 /\ (s = "stuck" => byImei = "dead")
      /\ status' = [status EXCEPT ![next] = s]
      /\ UNCHANGED link /\ UNCHANGED reply /\ UNCHANGED pending
      /\ UNCHANGED down /\ UNCHANGED up /\ UNCHANGED closes
      /\ UNCHANGED <<loggedIn, byImei, asking>> /\ UNCHANGED skipped
    BY DEF Channel!RefuseCommand, Channel!SendToDead, Channel!linkVars, Channel!wireVars, Cmd
<1>2. next \in Nat /\ \A k \in Cmd : k \in Nat
    BY <1>1, CmdsAreNumbers
<1>3. /\ status'[next] = s /\ \A k \in Cmd \ {next} : status'[k] = status[k]
      /\ status' \in [Cmd -> Channel!Outcome \cup Channel!Open \cup {"unsent"}]
    BY <1>1 DEF ChannelInv, Channel!TypeOK, Channel!Outcome, Channel!Open, Cmd
<1>4. status[next] = "unsent"
    BY <1>1, <1>2 DEF ChannelInv, PendingShape
<1>5. Channel!TypeOK'
  <2>1. next' \in 1..(MaxCommand + 1)
    BY <1>1, CmdsAreNumbers
  <2> QED
    BY <1>1, <1>3, <2>1 DEF ChannelInv, Channel!TypeOK, Cmd
<1>6. PendingShape'
  <2>1. \A k \in Cmd : (status[k] = "unsent" <=> k >= next)'
    BY <1>1, <1>2, <1>3 DEF ChannelInv, PendingShape
  <2>2. \A k \in Cmd : (status[k] = "waiting")' <=> \E i \in DOMAIN pending' : pending'[i] = k
    BY <1>1, <1>3, <1>4 DEF ChannelInv, PendingShape
  <2> QED
    BY <1>1, <2>1, <2>2 DEF ChannelInv, PendingShape
<1>7. \A m \in Cmd : InFlightCmd(m)' <=> InFlightCmd(m)
    BY <1>1 DEF InFlightCmd, OnUp, OnDown, IsResponse
<1>8. WireInOrder'
    BY <1>1 DEF ChannelInv, WireInOrder, OnUp, OnDown, IsResponse
<1>9. \A k \in Cmd : status'[k] = "replied" =>
          k # next /\ k < next /\ status[k] = "replied" /\ reply'[k] = reply[k]
    BY <1>1, <1>2, <1>3 DEF ChannelInv, PendingShape
<1>10. FlightIsAhead'
    BY <1>1, <1>2, <1>7, <1>9 DEF ChannelInv, FlightIsAhead
<1>11. ServedInOrder'
    BY <1>3, <1>9 DEF ChannelInv, ServedInOrder
<1>12. Channel!RepliesInOrder'
    BY <1>1, <1>2, <1>9, CmdsAreNumbers DEF ChannelInv, Channel!RepliesInOrder, Cmd
<1>13. Channel!LateOnlyAfterTimeout'
  <2> SUFFICES ASSUME NEW k \in Cmd, status'[k] = "replied", reply'[k] < k
               PROVE  \E j \in 1..(k - 1) : status'[j] = "timeout"
    BY DEF Channel!LateOnlyAfterTimeout, Cmd
  <2>1. PICK j \in 1..(k - 1) : status[j] = "timeout"
    BY <1>9 DEF ChannelInv, Channel!LateOnlyAfterTimeout, Cmd
  <2>2. j \in Cmd /\ j # next
    BY <1>2, <1>9, <2>1, CmdsAreNumbers
  <2> QED
    BY <1>3, <2>1, <2>2
<1>14. Channel!EarlyOnlyAfterSkip'
    BY <1>1, <1>9 DEF ChannelInv, Channel!EarlyOnlyAfterSkip, Cmd
<1>15. LoginShape'
    BY <1>1, <1>3 DEF ChannelInv, LoginShape
<1>16. WaitsInTurn'
    BY <1>1, <1>3, <1>7 DEF ChannelInv, WaitsInTurn, SkippedUpTo
<1> QED
    BY <1>5, <1>6, <1>8, <1>10, <1>11, <1>12, <1>13, <1>14, <1>15, <1>16 DEF ChannelInv

\* Of the list, that it names each waiting command once.
LEMMA PendingOnce ==
    ASSUME ChannelInv
    PROVE  /\ pending \in Seq(Cmd) /\ Len(pending) \in Nat /\ DOMAIN pending = 1..Len(pending)
           /\ \A i, j \in DOMAIN pending : pending[i] = pending[j] => i = j
<1>1. pending \in Seq(Cmd) /\ Len(pending) \in Nat /\ DOMAIN pending = 1..Len(pending)
    BY DEF ChannelInv, Channel!TypeOK, Cmd
<1>2. \A i, j \in DOMAIN pending : i < j => pending[i] < pending[j]
    BY DEF ChannelInv, PendingShape
<1>3. \A i \in DOMAIN pending : i \in Nat /\ pending[i] \in Nat
    BY <1>1, CmdsAreNumbers
<1> QED
    BY <1>1, <1>2, <1>3

\* A place is taken out of the list, and its command is told how it ended.
LEMMA ListShrinks ==
    ASSUME ChannelInv, NEW i \in DOMAIN pending, NEW outcome \in Channel!Outcome,
           pending' = RemoveAt(pending, i),
           status' = [status EXCEPT ![pending[i]] = outcome],
           UNCHANGED next, UNCHANGED link, UNCHANGED down
    PROVE  /\ pending' \in Seq(Cmd) /\ pending[i] \in Cmd
           /\ status' \in [Cmd -> Channel!Outcome \cup Channel!Open \cup {"unsent"}]
           /\ status'[pending[i]] = outcome /\ status[pending[i]] = "waiting"
           /\ \A k \in Cmd : k # pending[i] => status'[k] = status[k]
           /\ PendingShape'
<1> PICK k \in Cmd : k = pending[i]
    BY PendingOnce
<1>1. status[k] = "waiting"
    BY DEF ChannelInv, PendingShape
<1>2. /\ status' \in [Cmd -> Channel!Outcome \cup Channel!Open \cup {"unsent"}]
      /\ status'[k] = outcome /\ \A c \in Cmd : c # k => status'[c] = status[c]
    BY DEF ChannelInv, Channel!TypeOK, Cmd
<1>3. outcome \notin {"unsent", "waiting"}
    BY DEF Channel!Outcome
<1>4. i \in 1..Len(pending)
    BY PendingOnce
<1>5. /\ pending' \in Seq(Cmd)
      /\ \A j \in DOMAIN pending' :
            pending'[j] # pending[i] /\ \E m \in DOMAIN pending : pending'[j] = pending[m]
      /\ \A m \in DOMAIN pending : pending[m] # pending[i] =>
            \E j \in DOMAIN pending' : pending'[j] = pending[m]
      /\ \A j, c \in DOMAIN pending' : j < c =>
            \E m, n \in DOMAIN pending : m < n /\ pending'[j] = pending[m] /\ pending'[c] = pending[n]
  <2>1. /\ pending \in Seq(Cmd)
        /\ \A j, c \in DOMAIN pending : pending[j] = pending[c] => j = c
    BY PendingOnce
  <2>2. PICK t : t = RemoveAt(pending, i)
    OBVIOUS
  <2>3. /\ t \in Seq(Cmd)
        /\ \A j \in DOMAIN t : t[j] # pending[i] /\ \E m \in DOMAIN pending : t[j] = pending[m]
        /\ \A m \in DOMAIN pending : pending[m] # pending[i] =>
              \E j \in DOMAIN t : t[j] = pending[m]
        /\ \A j, c \in DOMAIN t : j < c =>
              \E m, n \in DOMAIN pending : m < n /\ t[j] = pending[m] /\ t[c] = pending[n]
    BY <1>4, <2>1, <2>2, RemovalKeeps
  <2> QED
    BY <2>2, <2>3
<1>6. \A j, c \in DOMAIN pending' : j < c => pending'[j] < pending'[c]
    BY <1>5 DEF ChannelInv, PendingShape
<1>7. \A c \in Cmd : (status[c] = "waiting")' <=> \E j \in DOMAIN pending' : pending'[j] = c
    BY <1>2, <1>3, <1>5 DEF ChannelInv, PendingShape
<1>8. \A c \in Cmd : (status[c] = "unsent" <=> c >= next)'
    BY <1>1, <1>2, <1>3 DEF ChannelInv, PendingShape
<1>9. link # "closed"
    BY PendingOnce DEF ChannelInv, PendingShape
<1>10. (link # "up" => down = <<>>)'
    BY DEF ChannelInv, PendingShape
<1>11. PendingShape'
    BY <1>6, <1>7, <1>8, <1>9, <1>10 DEF PendingShape
<1> QED
    BY <1>1, <1>2, <1>5, <1>11

\* A response is handed to the caller who has waited longest.
LEMMA HandleKeeps ==
    ASSUME ChannelInv, Channel!HandleCodec12
    PROVE  ChannelInv'
<1>1. /\ up # <<>> /\ up' = Tail(up) /\ UNCHANGED link /\ UNCHANGED next
      /\ UNCHANGED down /\ UNCHANGED closes
      /\ UNCHANGED <<loggedIn, byImei, asking>> /\ UNCHANGED skipped
    BY DEF Channel!HandleCodec12, Channel!linkVars
<1>2. \A m \in Cmd : OnDown(m)' <=> OnDown(m)
    BY <1>1 DEF OnDown
<1>3. WireInOrder'
    BY <1>1, <1>2, UpTaken DEF ChannelInv, WireInOrder, IsResponse
<1>4. \A m \in Cmd : InFlightCmd(m)' => InFlightCmd(m)
    BY <1>1, <1>2, UpTaken DEF InFlightCmd
<1>5. CASE ~(Head(up).type = "response" /\ pending # <<>>)
  <2>1. UNCHANGED pending /\ UNCHANGED status /\ UNCHANGED reply
    BY <1>5 DEF Channel!HandleCodec12
  <2>2. Channel!TypeOK'
    BY <1>1, <2>1, UpTaken DEF ChannelInv, Channel!TypeOK
  <2>3. (link' = "closed" => pending = <<>>) /\ (link' # "up" => down' = <<>>)
    BY <1>1 DEF ChannelInv, PendingShape
  <2>4. LoginShape'
    BY <1>1, <2>1 DEF ChannelInv, LoginShape
  <2>5. CASE pending = <<>>
    <3>1. \A k \in Cmd : status[k] # "waiting"
      BY <2>5 DEF ChannelInv, PendingShape
    <3> QED
      BY <1>1, <1>3, <1>4, <2>1, <2>2, <2>3, <2>4, <3>1, WireStep DEF WaitsInTurn
  <2>6. CASE Head(up).type # "response"
    <3>1. \A m \in Cmd : InFlightCmd(m) => InFlightCmd(m)'
      BY <1>1, <1>2, <2>6, UpTaken DEF InFlightCmd
    <3>2. WaitsInTurn'
      BY <1>1, <1>4, <2>1, <3>1 DEF ChannelInv, WaitsInTurn, SkippedUpTo
    <3> QED
      BY <1>1, <1>3, <1>4, <2>1, <2>2, <2>3, <2>4, <3>2, WireStep
  <2> QED
    BY <1>5, <2>5, <2>6
<1>6. CASE Head(up).type = "response" /\ pending # <<>>
  <2> PICK m \in Cmd : m = Head(up).to
    BY <1>1, UpTaken DEF Channel!Message, Cmd
  <2>1. 1 \in DOMAIN pending
    BY <1>6, PendingOnce
  <2> PICK k \in Cmd : k = pending[1]
    BY <2>1, PendingOnce
  <2>2. /\ pending' = RemoveAt(pending, 1)
        /\ status' = [status EXCEPT ![pending[1]] = "replied"]
        /\ reply' = [reply EXCEPT ![k] = m]
    BY <1>6 DEF Channel!HandleCodec12, Channel!Taken, Channel!RemoveAt, RemoveAt
  <2>3. "replied" \in Channel!Outcome
    BY DEF Channel!Outcome
  <2>4. /\ pending' \in Seq(Cmd) /\ PendingShape'
        /\ status' \in [Cmd -> Channel!Outcome \cup Channel!Open \cup {"unsent"}]
        /\ status'[k] = "replied" /\ status[k] = "waiting"
        /\ \A c \in Cmd : c # k => status'[c] = status[c]
    <3>1. /\ pending' \in Seq(Cmd) /\ PendingShape'
          /\ status' \in [Cmd -> Channel!Outcome \cup Channel!Open \cup {"unsent"}]
          /\ status'[pending[1]] = "replied" /\ status[pending[1]] = "waiting"
          /\ \A c \in Cmd : c # pending[1] => status'[c] = status[c]
      BY <1>1, <2>1, <2>2, <2>3, ListShrinks
    <3> QED
      BY <3>1
  <2>5. /\ reply' \in [Cmd -> 0..MaxCommand] /\ reply'[k] = m
        /\ \A c \in Cmd : c # k => reply'[c] = reply[c]
    BY <2>2, CmdsAreNumbers DEF ChannelInv, Channel!TypeOK, Cmd
  <2>6. Channel!TypeOK'
    BY <1>1, <2>4, <2>5, UpTaken DEF ChannelInv, Channel!TypeOK, Cmd
  \* The caller is the first of those that wait; the response was the first of
  \* those in flight.
  <2>7. \A c \in Cmd : status[c] = "waiting" => k <= c
    <3> SUFFICES ASSUME NEW c \in Cmd, status[c] = "waiting" PROVE k <= c
      OBVIOUS
    <3>1. PICK i \in DOMAIN pending : pending[i] = c
      BY DEF ChannelInv, PendingShape
    <3>2. i = 1 \/ 1 < i
      BY PendingOnce
    <3> QED
      BY <2>1, <3>1, <3>2, CmdsAreNumbers DEF ChannelInv, PendingShape
  <2>8. InFlightCmd(m) /\ \A n \in Cmd : InFlightCmd(n)' => m < n
    BY <1>1, <1>2, <1>6, UpTaken DEF ChannelInv, InFlightCmd, WireInOrder
  <2>9. /\ m < next /\ \A c \in Cmd : status[c] = "replied" => reply[c] < m
        /\ status[m] \in {"waiting", "timeout", "replied"}
    <3>1. link # "closed"
      BY <1>6 DEF ChannelInv, PendingShape
    <3> QED
      BY <2>8, <3>1 DEF ChannelInv, FlightIsAhead
  <2>10. FlightIsAhead'
    <3> SUFFICES ASSUME NEW n \in Cmd, InFlightCmd(n)'
                 PROVE  /\ n < next'
                        /\ \A c \in Cmd : status'[c] = "replied" => reply'[c] < n
                        /\ link' # "closed" => status'[n] \in {"waiting", "timeout", "replied"}
      BY DEF FlightIsAhead
    <3>1. InFlightCmd(n) /\ m < n
      BY <1>4, <2>8
    <3> QED
      BY ZenonT(60), <1>1, <2>4, <2>5, <3>1 DEF ChannelInv, FlightIsAhead
  <2>11. ServedInOrder'
    <3> SUFFICES ASSUME NEW j \in Cmd, NEW c \in Cmd, status'[j] = "replied",
                        status'[c] = "waiting"
                 PROVE  j < c
      BY DEF ServedInOrder
    <3>1. c # k /\ status[c] = "waiting"
      BY <2>4
    <3> QED
      BY <2>4, <2>7, <3>1, CmdsAreNumbers DEF ChannelInv, ServedInOrder
  <2>12. Channel!RepliesInOrder'
    <3>1. \A c \in Cmd : status'[c] = "replied" => reply'[c] \in 1..(next' - 1)
      <4>1. m \in 1..(next' - 1)
        <5>1. next \in Nat
          BY ChannelAssumption DEF ChannelInv, Channel!TypeOK
        <5> QED
          BY <1>1, <2>9, <5>1, CmdsAreNumbers
      <4> QED
        BY <1>1, <2>4, <2>5, <4>1 DEF ChannelInv, Channel!RepliesInOrder, Cmd
    <3>2. ASSUME NEW j \in Cmd, NEW c \in Cmd, j < c,
                 status'[j] = "replied", status'[c] = "replied"
          PROVE  reply'[j] < reply'[c]
      <4>1. CASE j # k /\ c # k
        BY <2>4, <2>5, <3>2, <4>1 DEF ChannelInv, Channel!RepliesInOrder, Cmd
      <4>2. CASE c = k
        <5>1. j # k
          BY <3>2, <4>2, CmdsAreNumbers
        <5>2. status[j] = "replied" /\ reply'[j] = reply[j]
          BY <2>4, <2>5, <3>2, <5>1
        <5> QED
          BY <2>5, <2>9, <4>2, <5>2
      \* Nobody behind the caller has been served.
      <4>3. CASE j = k
        <5>1. c # k /\ status[c] = "replied"
          BY <2>4, <3>2, <4>3, CmdsAreNumbers
        <5>2. c < k
          BY <2>4, <5>1 DEF ChannelInv, ServedInOrder
        <5> QED
          BY <3>2, <4>3, <5>2, CmdsAreNumbers
      <4> QED
        BY <4>1, <4>2, <4>3
    <3> QED
      BY <3>1, <3>2 DEF Channel!RepliesInOrder, Cmd
  <2>13. Channel!LateOnlyAfterTimeout'
    <3> SUFFICES ASSUME NEW c \in Cmd, status'[c] = "replied", reply'[c] < c
                 PROVE  \E j \in 1..(c - 1) : status'[j] = "timeout"
      BY DEF Channel!LateOnlyAfterTimeout, Cmd
    \* If the response belongs to an earlier command, that one was served with a
    \* response to a still earlier one, or has timed out.
    <3>1. \E j \in 1..(c - 1) : status[j] = "timeout"
      <4>1. CASE c # k
        BY <2>4, <2>5, <4>1 DEF ChannelInv, Channel!LateOnlyAfterTimeout, Cmd
      <4>2. CASE c = k
        <5>1. m < k
          BY <2>5, <4>2
        <5>2. status[m] # "waiting"
          BY <2>7, <5>1, CmdsAreNumbers
        <5>3. CASE status[m] = "timeout"
          BY <4>2, <5>1, <5>3, CmdsAreNumbers
        <5>4. CASE status[m] = "replied"
          <6>1. reply[m] < m
            BY <2>9, <5>4
          <6>2. PICK j \in 1..(m - 1) : status[j] = "timeout"
            BY <5>4, <6>1 DEF ChannelInv, Channel!LateOnlyAfterTimeout, Cmd
          <6> QED
            BY <4>2, <5>1, <6>2, CmdsAreNumbers
        <5> QED
          BY <2>9, <5>2, <5>3, <5>4
      <4> QED
        BY <4>1, <4>2
    <3>2. \A j \in 1..(c - 1) : j \in Cmd
      BY CmdsAreNumbers
    <3> QED
      BY <2>4, <3>1, <3>2
  \* If the response is to a later command, the caller's own is not behind it: one
  \* up to the caller's was passed over.
  <2>14. m > k => SkippedUpTo(k)
    <3> SUFFICES ASSUME m > k PROVE SkippedUpTo(k)
      OBVIOUS
    <3>1. InFlightCmd(k) \/ SkippedUpTo(k)
      BY <2>4, <2>8 DEF ChannelInv, WaitsInTurn
    <3>2. ASSUME InFlightCmd(k) PROVE FALSE
      <4>1. InFlightCmd(k)' \/ k = m
        BY <1>1, <1>2, <3>2, UpTaken DEF InFlightCmd
      <4> QED
        BY <2>8, <4>1, CmdsAreNumbers
    <3> QED
      BY <3>1, <3>2
  <2>15. Channel!EarlyOnlyAfterSkip'
    <3> SUFFICES ASSUME NEW c \in Cmd, status'[c] = "replied", reply'[c] > c
                 PROVE  \E j \in 1..c : j \in skipped'
      BY DEF Channel!EarlyOnlyAfterSkip, Cmd
    <3>1. CASE c = k
      BY <1>1, <2>5, <2>14, <3>1 DEF SkippedUpTo
    <3>2. CASE c # k
      BY <1>1, <2>4, <2>5, <3>2 DEF ChannelInv, Channel!EarlyOnlyAfterSkip, Cmd
    <3> QED
      BY <3>1, <3>2
  <2>16. LoginShape'
    BY <1>1, <2>4 DEF ChannelInv, LoginShape
  \* A response that goes to another caller than its own goes to an earlier one.
  <2>17. WaitsInTurn'
    <3> SUFFICES ASSUME NEW c \in Cmd, status'[c] = "waiting",
                        link' = "up" \/ \E n \in Cmd : c < n /\ InFlightCmd(n)'
                 PROVE  InFlightCmd(c)' \/ SkippedUpTo(c)'
      BY DEF WaitsInTurn
    <3>1. c # k /\ status[c] = "waiting" /\ k < c
      BY <2>4, <2>7, CmdsAreNumbers
    <3>2. link = "up" \/ \E n \in Cmd : c < n /\ InFlightCmd(n)
      BY <1>1, <1>4
    <3>3. InFlightCmd(c) \/ SkippedUpTo(c)
      BY <3>1, <3>2 DEF ChannelInv, WaitsInTurn
    <3>4. CASE SkippedUpTo(c)
      BY <1>1, <3>4 DEF SkippedUpTo
    <3>5. CASE InFlightCmd(c)
      <4>1. InFlightCmd(c)' \/ c = m
        BY <1>1, <1>2, <3>5, UpTaken DEF InFlightCmd
      <4>2. CASE c = m
        <5>1. PICK j \in 1..k : j \in skipped
          BY <2>14, <3>1, <4>2 DEF SkippedUpTo
        <5>2. j \in 1..c
          BY <3>1, CmdsAreNumbers
        <5> QED
          BY <1>1, <5>1, <5>2 DEF SkippedUpTo
      <4> QED
        BY <4>1, <4>2
    <3> QED
      BY <3>3, <3>4, <3>5
  <2> QED
    BY <1>3, <2>4, <2>6, <2>10, <2>11, <2>12, <2>13, <2>15, <2>16, <2>17 DEF ChannelInv
<1> QED
    BY <1>5, <1>6

\* A command ends without a reply: callers already served are not disturbed.
LEMMA UnservedKeeps ==
    ASSUME ChannelInv, Channel!TypeOK', PendingShape', LoginShape',
           UNCHANGED reply, UNCHANGED next, UNCHANGED down, UNCHANGED up, UNCHANGED skipped,
           \A k \in Cmd : status'[k] = "replied" <=> status[k] = "replied",
           \A k \in Cmd : status'[k] = "waiting" => status[k] = "waiting",
           \A k \in Cmd : status[k] = "timeout" => status'[k] = "timeout",
           \/ link' = "closed"
           \/ UNCHANGED link /\ \A k \in Cmd : \/ status'[k] = status[k]
                                                \/ status'[k] = "timeout"
    PROVE  ChannelInv'
<1>1. \A m : InFlightCmd(m)' <=> InFlightCmd(m)
    BY DEF InFlightCmd, OnUp, OnDown, IsResponse
<1>2. WireInOrder'
    BY DEF ChannelInv, WireInOrder, OnUp, OnDown, IsResponse
<1>3. FlightIsAhead'
    BY <1>1 DEF ChannelInv, FlightIsAhead
<1>4. ServedInOrder' /\ Channel!RepliesInOrder'
    BY DEF ChannelInv, ServedInOrder, Channel!RepliesInOrder, Cmd
<1>5. Channel!LateOnlyAfterTimeout'
  <2> SUFFICES ASSUME NEW k \in Cmd, status'[k] = "replied", reply'[k] < k
               PROVE  \E j \in 1..(k - 1) : status'[j] = "timeout"
    BY DEF Channel!LateOnlyAfterTimeout, Cmd
  <2>1. PICK j \in 1..(k - 1) : status[j] = "timeout"
    BY DEF ChannelInv, Channel!LateOnlyAfterTimeout, Cmd
  <2>2. j \in Cmd
    BY CmdsAreNumbers
  <2> QED
    BY <2>1, <2>2
<1>6. Channel!EarlyOnlyAfterSkip'
    BY DEF ChannelInv, Channel!EarlyOnlyAfterSkip, Cmd
<1>7. WaitsInTurn'
    BY <1>1 DEF ChannelInv, WaitsInTurn, SkippedUpTo
<1> QED
    BY <1>2, <1>3, <1>4, <1>5, <1>6, <1>7 DEF ChannelInv

\* A timer fires, or the connection has closed.
LEMMA EndsKeep ==
    ASSUME ChannelInv, Channel!HandleClosed \/ \E k \in Cmd : Channel!TimerFires(k)
    PROVE  ChannelInv'
<1>1. ASSUME NEW k \in Cmd, Channel!TimerFires(k), status[k] = "waiting" PROVE ChannelInv'
  <2>1. PICK i \in DOMAIN pending :
            /\ pending[i] = k /\ pending' = RemoveAt(pending, i)
            /\ status' = [status EXCEPT ![k] = "timeout"]
            /\ UNCHANGED <<link, next, reply, down, up, closes>>
            /\ UNCHANGED <<loggedIn, byImei, asking, skipped>>
    <3>1. \E i \in DOMAIN pending : pending[i] = k
      BY <1>1 DEF ChannelInv, PendingShape
    <3> DEFINE i == CHOOSE j \in DOMAIN pending : pending[j] = k
    <3>2. i \in DOMAIN pending /\ pending[i] = k
      BY <3>1
    <3>3. k \in Channel!ToSet(pending)
      BY <3>1 DEF Channel!ToSet
    <3> QED
      BY <1>1, <3>2, <3>3 DEF Channel!TimerFires, Channel!Without, Channel!RemoveAt, RemoveAt,
         Channel!linkVars, Channel!wireVars
  <2>2. "timeout" \in Channel!Outcome
    BY DEF Channel!Outcome
  <2>3. /\ pending' \in Seq(Cmd) /\ PendingShape'
        /\ status' \in [Cmd -> Channel!Outcome \cup Channel!Open \cup {"unsent"}]
        /\ status'[k] = "timeout" /\ status[k] = "waiting"
        /\ \A c \in Cmd : c # k => status'[c] = status[c]
    BY <2>1, <2>2, ListShrinks
  <2>4. Channel!TypeOK'
    BY <2>1, <2>3 DEF ChannelInv, Channel!TypeOK, Cmd
  <2>5. LoginShape'
    BY <2>1, <2>3 DEF ChannelInv, LoginShape
  <2> QED
    BY <2>1, <2>3, <2>4, <2>5, UnservedKeeps
\* A command on a dead session is on no list but that session's.
<1>3. ASSUME NEW k \in Cmd, Channel!TimerFires(k), status[k] = "stuck" PROVE ChannelInv'
  <2>1. ~\E i \in DOMAIN pending : pending[i] = k
    BY <1>3 DEF ChannelInv, PendingShape
  <2>2. k \notin Channel!ToSet(pending)
    BY <2>1 DEF Channel!ToSet
  <2>3. /\ UNCHANGED pending /\ UNCHANGED <<link, next, reply, down, up, closes>>
        /\ UNCHANGED <<loggedIn, byImei, asking, skipped>>
        /\ status' = [status EXCEPT ![k] = "timeout"]
    BY <1>3, <2>2 DEF Channel!TimerFires, Channel!Without, Channel!linkVars, Channel!wireVars
  <2>4. /\ status' \in [Cmd -> Channel!Outcome \cup Channel!Open \cup {"unsent"}]
        /\ status'[k] = "timeout" /\ \A c \in Cmd : c # k => status'[c] = status[c]
    BY <2>3 DEF ChannelInv, Channel!TypeOK, Channel!Outcome, Cmd
  <2>5. Channel!TypeOK'
    BY <2>3, <2>4 DEF ChannelInv, Channel!TypeOK, Cmd
  <2>6. PendingShape'
    BY <1>3, <2>3, <2>4 DEF ChannelInv, PendingShape
  <2>7. LoginShape'
    BY <2>3, <2>4 DEF ChannelInv, LoginShape
  <2> QED
    BY <1>3, <2>3, <2>4, <2>5, <2>6, <2>7, UnservedKeeps
<1>2. CASE Channel!HandleClosed
  <2>1. /\ link = "destroyed" /\ link' = "closed" /\ pending' = <<>>
        /\ UNCHANGED next /\ UNCHANGED reply /\ UNCHANGED down /\ UNCHANGED up
        /\ UNCHANGED closes /\ UNCHANGED skipped /\ loggedIn' = FALSE
        /\ \/ byImei' = "none" /\ UNCHANGED asking
           \/ asking' = asking + 1 /\ UNCHANGED byImei /\ ~loggedIn
        /\ status' = [k \in Cmd |-> IF k \in Channel!Closing THEN "closed" ELSE status[k]]
    BY <1>2 DEF Channel!HandleClosed, Channel!wireVars, Cmd
  <2>2. \A k \in Cmd : k \in Channel!Closing <=> status[k] = "waiting"
    BY DEF Channel!Closing, Channel!ToSet, ChannelInv, PendingShape
  <2>3. /\ \A k \in Cmd : status'[k] = IF status[k] = "waiting" THEN "closed" ELSE status[k]
        /\ status' \in [Cmd -> Channel!Outcome \cup Channel!Open \cup {"unsent"}]
    BY <2>1, <2>2 DEF ChannelInv, Channel!TypeOK, Channel!Outcome, Cmd
  <2>6. asking' \in 0..MaxClose /\ asking' <= closes /\ closes # 0
    BY <2>1, ChannelAssumption DEF ChannelInv, Channel!TypeOK, LoginShape
  <2>8. byImei' \in {"none", "live", "dead"} /\ pending' \in Seq(Cmd)
    BY <2>1 DEF ChannelInv, Channel!TypeOK
  <2>4. Channel!TypeOK'
    <3>1. Channel!TypeOK
      BY DEF ChannelInv
    <3>2. /\ UNCHANGED next /\ UNCHANGED reply /\ UNCHANGED down /\ UNCHANGED up
          /\ UNCHANGED closes /\ UNCHANGED skipped /\ loggedIn' = FALSE /\ link' = "closed"
      BY <2>1
    <3> QED
      BY <2>3, <2>6, <2>8, <3>1, <3>2 DEF Channel!TypeOK, Cmd
  <2>5. PendingShape'
    BY <2>1, <2>3 DEF ChannelInv, PendingShape
  <2>7. LoginShape'
    BY <2>1, <2>3, <2>6 DEF ChannelInv, LoginShape
  <2> QED
    BY <2>1, <2>3, <2>4, <2>5, <2>7, UnservedKeeps
<1> QED
    BY <1>1, <1>2, <1>3 DEF Channel!TimerFires, Channel!Open

\* The inductive invariant of the channel.
LEMMA ChannelInvariant == Channel!Spec => []ChannelInv
<1>1. Channel!Init => ChannelInv
  <2> SUFFICES ASSUME Channel!Init PROVE ChannelInv
    OBVIOUS
  <2>1. /\ link = "closed" /\ next = 1 /\ pending = <<>> /\ down = <<>> /\ up = <<>> /\ closes = 0
        /\ status = [k \in Cmd |-> "unsent"] /\ reply = [k \in Cmd |-> 0]
        /\ loggedIn = FALSE /\ byImei = "none" /\ asking = 0 /\ skipped = {}
    BY DEF Channel!Init, Cmd
  <2>2. /\ <<>> \in Seq(Cmd) /\ <<>> \in Seq(Channel!Message) /\ 1 \in 1..(MaxCommand + 1)
        /\ 0 \in 0..MaxCommand /\ 0 \in 0..MaxClose
    BY ChannelAssumption
  <2>3. Channel!TypeOK
    BY <2>1, <2>2 DEF Channel!TypeOK, Cmd
  <2>4. PendingShape /\ ServedInOrder /\ LoginShape /\ WaitsInTurn
    BY <2>1, CmdsAreNumbers DEF PendingShape, ServedInOrder, LoginShape, WaitsInTurn
  <2>5. WireInOrder /\ FlightIsAhead
    BY <2>1 DEF WireInOrder, FlightIsAhead, InFlightCmd, OnUp, OnDown
  <2>6. Channel!RepliesInOrder /\ Channel!LateOnlyAfterTimeout /\ Channel!EarlyOnlyAfterSkip
    BY <2>1 DEF Channel!RepliesInOrder, Channel!LateOnlyAfterTimeout,
       Channel!EarlyOnlyAfterSkip, Cmd
  <2> QED
    BY <2>3, <2>4, <2>5, <2>6 DEF ChannelInv
<1>2. ChannelInv /\ [Channel!Next]_(Channel!vars) => ChannelInv'
  <2> SUFFICES ASSUME ChannelInv, [Channel!Next]_(Channel!vars) PROVE ChannelInv'
    OBVIOUS
  <2>1. CASE UNCHANGED Channel!vars
    <3>1. /\ UNCHANGED <<next, status, reply, pending>> /\ UNCHANGED link
          /\ UNCHANGED down /\ UNCHANGED up /\ UNCHANGED closes
          /\ UNCHANGED <<loggedIn, byImei, asking>> /\ UNCHANGED skipped
      BY <2>1 DEF Channel!vars, Channel!linkVars, Channel!cmdVars, Channel!wireVars
    <3>2. Channel!TypeOK'
      BY <3>1 DEF ChannelInv, Channel!TypeOK
    <3>3. WireInOrder' /\ \A m : InFlightCmd(m)' <=> InFlightCmd(m)
      BY <3>1 DEF ChannelInv, WireInOrder, InFlightCmd, OnUp, OnDown, IsResponse
    <3>4. (link' = "closed" => pending = <<>>) /\ (link' # "up" => down' = <<>>)
      BY <3>1 DEF ChannelInv, PendingShape
    <3>5. LoginShape' /\ WaitsInTurn'
      BY <3>1, <3>3 DEF ChannelInv, LoginShape, WaitsInTurn, SkippedUpTo
    <3> QED
      BY <3>1, <3>2, <3>3, <3>4, <3>5, WireStep
  <2>2. CASE Channel!Next
    BY <2>2, SendKeeps, RefuseKeeps, HandleKeeps, EndsKeep, LogInKeeps, DeviceKeeps, LinkKeeps
       DEF Channel!Next, Cmd
  <2> QED
    BY <2>1, <2>2
<1> QED
  BY <1>1, <1>2, PTL DEF Channel!Spec

\* Of any number of commands on a connection that comes and goes: responses are
\* handed out in the order of the commands, a caller gets an earlier command's only
\* after a timeout and a later one's only after the device has passed one over, the
\* list holds whoever waits, and a close leaves nobody waiting on its connection: to
\* wait for the timer alone takes a session that logged in after its close.
THEOREM RepliesArrive == Channel!Spec => []RepliesReachCallers
<1>1. ChannelInv => RepliesReachCallers
  <2> SUFFICES ASSUME ChannelInv PROVE Channel!RepliesReachCallers
    BY DEF RepliesReachCallers
  <2>1. Channel!PendingIsWaiting
    <3>1. \A i \in DOMAIN pending : pending[i] \in Cmd
      BY PendingOnce
    <3> QED
      BY <3>1 DEF Channel!PendingIsWaiting, Channel!ToSet, ChannelInv, PendingShape, Cmd
  <2>2. Channel!NoneWaitOnClosed
    BY DEF Channel!NoneWaitOnClosed, ChannelInv, PendingShape, LoginShape, Cmd
  <2> QED
    BY <2>1, <2>2 DEF ChannelInv, Channel!RepliesReachCallers
<1> QED
  BY <1>1, ChannelInvariant, PTL

-----------------------------------------------------------------------------
(***************************************************************************)
(* The immobilizer.                                                        *)
(***************************************************************************)
OnWire(g) == \E i \in DOMAIN wire : wire[i].req = g
Awaited(g) == \E i \in DOMAIN waiting : waiting[i] = g
Sent(g) == OnWire(g) \/ Awaited(g) \/ g \in answered \cup ignored \cup late

\* What each step knows of its request: its kind, its row, and whether a command
\* or an entry in the event log can be there yet.
StepShape(g) ==
    /\ step[g] = "new" => g \notin alone
    /\ step[g] \in {"upsert", "logConfig"} => op[g] = "configure"
    /\ step[g] \in {"speed", "send", "wait", "logOk", "logFailed", "patch"} =>
          op[g] # "configure" /\ row # None
    /\ step[g] \notin {"new", "over"} => cfg[g] # None
    /\ Sent(g) => /\ op[g] # "configure"
                  /\ step[g] \in {"wait", "logOk", "logFailed", "patch", "over"}
    /\ (\E e \in events : e.req = g) => step[g] \in {"patch", "over"}
    /\ step[g] = "patch" => \E e \in events : e.req = g

\* A request has one command, which the tracker takes once and carries out only if it
\* answers; one that timed out is awaited no more.
OneCommandEach ==
    /\ \A i, j \in DOMAIN wire : wire[i].req = wire[j].req => i = j
    /\ \A i \in DOMAIN wire : wire[i].req \notin answered \cup ignored
    /\ executed \subseteq answered
    /\ \A i, j \in DOMAIN waiting : waiting[i] = waiting[j] => i = j
    /\ \A i \in DOMAIN waiting : waiting[i] \notin late

ImmobilizerInv ==
    TypeOK /\ (\A g \in Request : StepShape(g)) /\ OneCommandEach

\* The relay is where the command of g puts it.
Obeyed(g) == out[Command(g).dout] = Command(g).level

\* The tracker has answered the command of g, and obeyed it if it carried it out.
AnsweredTo(g) == g \in answered /\ (g \in executed => Obeyed(g))

\* While a lone request works, the row is as it has read it and the channel holds
\* its command and nothing else.
AloneIsUndisturbed(g) ==
    g \in alone /\ step[g] \notin {"new", "over"} =>
        /\ InFlight = {g}
        /\ op[g] # "configure" => cfg[g] = row
        /\ step[g] \in {"speed", "send"} => Quiet
        /\ step[g] = "wait" =>
              /\ waiting = <<g>>
              /\ \/ wire = <<Command(g)>> /\ answers = 0
                 \/ wire = <<>> /\ answers = 0
                 \/ wire = <<>> /\ answers = 1 /\ AnsweredTo(g)
        /\ step[g] \in {"logOk", "patch"} => Quiet /\ AnsweredTo(g)

\* As long as no test and no configure overlap, a test works on the wiring the
\* row has, and what a configure writes keeps the tested flag right.
TestsAreApart ==
    ~crossed =>
        /\ \A g \in Request : step[g] = "upsert" /\ cfg[g].tested # None =>
              cfg[g].tested = cfg[g].wiring
        /\ \A g \in InFlight : op[g] = "test" => cfg[g].wiring = row.wiring
        /\ \A g, h \in InFlight : op[g] = "configure" => op[h] # "test"

\* Requests that were told of a success: they log it, or have.
Told == {g \in Request : /\ op[g] # "configure"
                         /\ \/ step[g] = "logOk"
                            \/ \E e \in events : e.ok /\ e.req = g}

\* Each answer is to one command.
AnswersFit == Cardinality(Told) + answers <= Cardinality(answered)

\* The commands the tracker has taken.
Taken == answered \cup ignored

\* A success is an answer to this command, to a later one if the tracker kept silent on
\* this, or, after a timeout, to an earlier one.  Until a command times out, the oldest
\* awaited requests are those whose command is taken, and the others' are on the
\* wire, in order.
InTurn ==
    LET taken == Len(waiting) - Len(wire)
    IN  /\ answers <= taken
        /\ \A i \in 1..taken : waiting[i] \in Taken
        /\ \A i \in DOMAIN wire : waiting[taken + i] = wire[i].req

AnswersAreEarned ==
    /\ \A g \in Told : g \in Taken \/ late \ {g} # {}
    /\ late = {} => InTurn

\* Requests that are over and left a command without a word in the event log.
Unlogged == {g \in Request : /\ step[g] = "over"
                             /\ g \in executed \/ OnWire(g)
                             /\ \A e \in events : e.req # g}

FewUnlogged == Cardinality(Unlogged) <= faults

\* Requests and commands are typed.
LEMMA ImmobilizerTypes ==
    ASSUME ImmobilizerInv
    PROVE  /\ op \in [Request -> Op] /\ step \in [Request -> Step]
           /\ cfg \in [Request -> Row \cup {None}] /\ row \in Row \cup {None}
           /\ wire \in Seq([req : Request, dout : Douts, level : Level])
           /\ Len(wire) \in Nat /\ DOMAIN wire = 1..Len(wire)
           /\ \A i \in DOMAIN wire : wire[i].req \in Request
           /\ waiting \in Seq(Request) /\ Len(waiting) \in Nat
           /\ DOMAIN waiting = 1..Len(waiting)
           /\ \A i \in DOMAIN waiting : waiting[i] \in Request
           /\ answers \in 0..MaxRequest /\ out \in [Douts -> Level]
           /\ executed \subseteq Request /\ answered \subseteq Request
           /\ ignored \subseteq Request /\ late \subseteq Request
           /\ alone \subseteq Request /\ crossed \in BOOLEAN /\ faults \in 0..MaxFaults
           /\ events \subseteq [req : Request, ok : BOOLEAN]
           /\ None \notin Request /\ None \notin Row /\ None \notin Wiring
           /\ MaxRequest \in Nat /\ MaxFaults \in Nat
           /\ \A g \in Request : g \in Nat
<1>1. /\ op \in [Request -> Op] /\ step \in [Request -> Step]
      /\ cfg \in [Request -> Row \cup {None}] /\ row \in Row \cup {None}
      /\ answers \in 0..MaxRequest /\ out \in [Douts -> Level]
      /\ executed \subseteq Request /\ answered \subseteq Request
      /\ ignored \subseteq Request /\ late \subseteq Request
      /\ alone \subseteq Request /\ crossed \in BOOLEAN /\ faults \in 0..MaxFaults
      /\ events \subseteq [req : Request, ok : BOOLEAN]
    BY DEF ImmobilizerInv, TypeOK
<1>2. /\ wire \in Seq([req : Request, dout : Douts, level : Level])
      /\ waiting \in Seq(Request)
    BY DEF ImmobilizerInv, TypeOK
<1>3. /\ Len(wire) \in Nat /\ DOMAIN wire = 1..Len(wire)
      /\ \A i \in DOMAIN wire : wire[i].req \in Request
  <2>1. PICK C : C = [req : Request, dout : Douts, level : Level]
    OBVIOUS
  <2>2. /\ Len(wire) \in Nat /\ DOMAIN wire = 1..Len(wire)
        /\ \A i \in DOMAIN wire : wire[i] \in C
    <3>1. wire \in Seq(C)
      BY <1>2, <2>1
    <3> QED
      BY <3>1, LenProperties, ElementOfSeq
  <2> QED
    BY <2>1, <2>2
<1>4. /\ Len(waiting) \in Nat /\ DOMAIN waiting = 1..Len(waiting)
      /\ \A i \in DOMAIN waiting : waiting[i] \in Request
    BY <1>2
<1>5. None \notin Request /\ None \notin Row /\ None \notin Wiring
    BY NoneIsNothing
<1>6. /\ MaxRequest \in Nat /\ MaxFaults \in Nat
      /\ \A g \in Request : g \in Nat
    BY ImmobilizerAssumption DEF Request
<1> QED
    BY <1>1, <1>2, <1>3, <1>4, <1>5, <1>6

\* One more fault is still within the bound.
LEMMA FaultCounts ==
    ASSUME ImmobilizerInv, Fault
    PROVE  faults' \in 0..MaxFaults /\ faults' = faults + 1
    BY ImmobilizerTypes DEF Fault

\* A request goes from one step to another, with whatever it writes to the row
\* and the log.
LEMMA GotoKeeps ==
    ASSUME ImmobilizerInv, NEW g \in Request, NEW s \in Step, Goto(g, s),
           row' \in Row \cup {None}, row # None => row' # None,
           events' \subseteq [req : Request, ok : BOOLEAN], events \subseteq events',
           \A e \in events' : e \in events \/ e.req = g,
           done' \in Request \cup {None}, faults' \in 0..MaxFaults,
           UNCHANGED <<op, cfg, wireVars, history>>,
           StepShape(g)'
    PROVE  ImmobilizerInv'
<1>1. /\ UNCHANGED op /\ UNCHANGED cfg /\ UNCHANGED wire /\ UNCHANGED waiting
      /\ UNCHANGED answers /\ UNCHANGED out
      /\ UNCHANGED executed /\ UNCHANGED answered /\ UNCHANGED ignored /\ UNCHANGED late
      /\ UNCHANGED alone /\ UNCHANGED crossed
    BY DEF wireVars, relayVars, history
<1>2. step' \in [Request -> Step] /\ \A h \in Request : h # g => step'[h] = step[h]
    BY DEF Goto, ImmobilizerInv, TypeOK
<1>3. TypeOK'
    BY <1>1, <1>2 DEF ImmobilizerInv, TypeOK
<1>4. ASSUME NEW h \in Request, h # g PROVE StepShape(h)'
  <2>1. step'[h] = step[h] /\ StepShape(h)
    BY <1>2, <1>4 DEF ImmobilizerInv
  <2>2. (\E e \in events' : e.req = h) <=> \E e \in events : e.req = h
    BY <1>4
  <2> QED
    BY <1>1, <2>1, <2>2 DEF StepShape, Sent, OnWire, Awaited
<1>5. OneCommandEach'
    BY <1>1 DEF ImmobilizerInv, OneCommandEach
<1> QED
    BY <1>3, <1>4, <1>5 DEF ImmobilizerInv

\* The step that a request has gone to, and its other notes.
LEMMA GoneTo ==
    ASSUME ImmobilizerInv, NEW g \in Request, NEW s \in Step, Goto(g, s)
    PROVE  step'[g] = s /\ \A h \in Request : h # g => step'[h] = step[h]
    BY DEF Goto, ImmobilizerInv, TypeOK

\* Steps that write neither row nor log.
LEMMA QuietKeeps ==
    ASSUME ImmobilizerInv, NEW g \in Request,
           \/ CheckSpeed(g) \/ NotConnected(g) \/ CallFails(g)
           \/ LogOkRejected(g) \/ Abort(g)
    PROVE  ImmobilizerInv'
<1>1. StepShape(g)
    BY DEF ImmobilizerInv
<1>2. UNCHANGED row /\ UNCHANGED events /\ UNCHANGED <<op, cfg, wireVars, history>> /\ done' = None
    BY DEF CheckSpeed, NotConnected, CallFails, LogOkRejected, Abort
<1>3. UNCHANGED op /\ UNCHANGED cfg /\ (Sent(g)' <=> Sent(g))
    BY <1>2 DEF wireVars, relayVars, Sent, OnWire, Awaited
<1>4. faults' \in 0..MaxFaults
    BY ImmobilizerTypes, FaultCounts
       DEF CheckSpeed, NotConnected, CallFails, LogOkRejected, Abort
<1>5. ASSUME NEW s \in Step, Goto(g, s), StepShape(g)' PROVE ImmobilizerInv'
    BY <1>2, <1>4, <1>5, ImmobilizerTypes, GotoKeeps
<1>6. {"over", "send", "logFailed"} \subseteq Step
    BY DEF Step
<1>7. CASE CheckSpeed(g)
  <2>1. PICK s \in {"over", "send"} : Goto(g, s) /\ step[g] = "speed"
    BY <1>7 DEF CheckSpeed
  <2>2. step'[g] = s
    BY <1>6, <2>1, GoneTo
  <2>3. StepShape(g)'
    BY <1>1, <1>2, <1>3, <2>1, <2>2 DEF StepShape, history
  <2> QED
    BY <1>5, <1>6, <2>1, <2>3
<1>8. CASE NotConnected(g) \/ CallFails(g) \/ LogOkRejected(g)
  <2>1. Goto(g, "logFailed") /\ step[g] \in {"send", "wait", "logOk"}
    BY <1>8 DEF NotConnected, CallFails, LogOkRejected
  <2>2. step'[g] = "logFailed"
    BY <1>6, <2>1, GoneTo
  <2>3. StepShape(g)'
    BY <1>1, <1>2, <1>3, <2>1, <2>2 DEF StepShape, history
  <2> QED
    BY <1>5, <1>6, <2>1, <2>3
<1>9. CASE Abort(g)
  <2>1. Goto(g, "over") /\ step[g] \notin {"new", "over"}
    BY <1>9 DEF Abort, InFlight
  <2>2. step'[g] = "over"
    BY <1>6, <2>1, GoneTo
  <2>3. StepShape(g)'
    BY <1>1, <1>2, <1>3, <2>1, <2>2 DEF StepShape, history
  <2> QED
    BY <1>5, <1>6, <2>1, <2>3
<1> QED
    BY <1>7, <1>8, <1>9

\* Steps that write to the event log.
LEMMA LogKeeps ==
    ASSUME ImmobilizerInv, NEW g \in Request, LogConfig(g) \/ LogOk(g) \/ LogFailed(g)
    PROVE  ImmobilizerInv'
<1>1. StepShape(g)
    BY DEF ImmobilizerInv
<1>2. /\ UNCHANGED row /\ UNCHANGED <<op, cfg, wireVars, history>> /\ UNCHANGED faults
      /\ done' \in Request \cup {None}
    BY DEF LogConfig, LogOk, LogFailed
<1>3. UNCHANGED op /\ UNCHANGED cfg /\ UNCHANGED alone /\ (Sent(g)' <=> Sent(g))
    BY <1>2 DEF wireVars, relayVars, history, Sent, OnWire, Awaited
<1>4. PICK b \in BOOLEAN : events' = events \cup {[req |-> g, ok |-> b]}
    BY DEF LogConfig, LogOk, LogFailed
<1>5. /\ events' \subseteq [req : Request, ok : BOOLEAN] /\ events \subseteq events'
      /\ \A e \in events' : e \in events \/ e.req = g
      /\ \E e \in events' : e.req = g
  <2>1. PICK e : e = [req |-> g, ok |-> b]
    OBVIOUS
  <2>2. e \in [req : Request, ok : BOOLEAN] /\ e.req = g
    BY <2>1
  <2>3. events' = events \cup {e} /\ events \subseteq [req : Request, ok : BOOLEAN]
    BY <1>4, <2>1, ImmobilizerTypes
  <2> QED
    BY <2>2, <2>3
<1>6. {"over", "patch"} \subseteq Step
    BY DEF Step
<1>7. PICK s \in {"over", "patch"} :
          /\ Goto(g, s)
          /\ step[g] \in {"logConfig", "logOk", "logFailed"}
          /\ s = "patch" => step[g] = "logOk"
    BY DEF LogConfig, LogOk, LogFailed
<1>8. step'[g] = s /\ s \in Step
    BY <1>6, <1>7, GoneTo
<1>9. StepShape(g)'
    BY <1>1, <1>2, <1>3, <1>5, <1>7, <1>8 DEF StepShape
<1> QED
    BY <1>2, <1>5, <1>7, <1>8, <1>9, ImmobilizerTypes, GotoKeeps

\* Steps that write the row.
LEMMA RowKeeps ==
    ASSUME ImmobilizerInv, NEW g \in Request, Upsert(g) \/ Patch(g)
    PROVE  ImmobilizerInv' /\ row' \in Row
<1>1. StepShape(g) /\ cfg[g] \in Row \cup {None}
    BY ImmobilizerTypes DEF ImmobilizerInv
<1>2. /\ UNCHANGED events /\ UNCHANGED <<op, cfg, wireVars, history>> /\ UNCHANGED faults
      /\ done' \in Request \cup {None}
    BY DEF Upsert, Patch
<1>3. UNCHANGED op /\ UNCHANGED cfg /\ UNCHANGED alone /\ (Sent(g)' <=> Sent(g))
    BY <1>2 DEF wireVars, relayVars, history, Sent, OnWire, Awaited
<1>4. {"over", "logConfig"} \subseteq Step
    BY DEF Step
<1>5. CASE Upsert(g)
  <2>1. Goto(g, "logConfig") /\ step[g] = "upsert" /\ row' = cfg[g]
    BY <1>5 DEF Upsert
  <2>2. row' \in Row
    BY <1>1, <2>1 DEF StepShape
  <2>3. step'[g] = "logConfig"
    BY <1>4, <2>1, GoneTo
  <2>4. StepShape(g)'
    BY <1>1, <1>2, <1>3, <2>1, <2>3 DEF StepShape
  <2> QED
    BY <1>2, <1>4, <2>1, <2>2, <2>4, ImmobilizerTypes, GotoKeeps
<1>6. CASE Patch(g)
  <2>1. Goto(g, "over") /\ step[g] = "patch" /\ row' = Patched(g)
    BY <1>6 DEF Patch
  <2>2. row \in Row /\ cfg[g] \in Row
    BY <1>1, <2>1, ImmobilizerTypes DEF StepShape
  <2>3. row' \in Row
    BY <2>1, <2>2 DEF Patched, Row
  <2>4. step'[g] = "over"
    BY <1>4, <2>1, GoneTo
  <2>5. StepShape(g)'
    BY <1>1, <1>2, <1>3, <2>1, <2>4 DEF StepShape
  <2> QED
    BY <1>2, <1>4, <2>1, <2>3, <2>5, ImmobilizerTypes, GotoKeeps
<1> QED
    BY <1>5, <1>6

\* A request begins, holding a row.
LEMMA BeginKeeps ==
    ASSUME ImmobilizerInv, NEW g \in Request, NEW o \in Op,
           NEW s \in {"upsert", "speed", "send"}, NEW c \in Row, Begin(g, o, s, c),
           s = "upsert" <=> o = "configure", o # "configure" => row # None
    PROVE  ImmobilizerInv'
<1>1. /\ step[g] = "new" /\ Goto(g, s) /\ op' = [op EXCEPT ![g] = o]
      /\ cfg' = [cfg EXCEPT ![g] = c] /\ done' = None
      /\ alone' \in {alone \cup {g}, alone \ InFlight}
      /\ UNCHANGED row /\ UNCHANGED events /\ UNCHANGED wire /\ UNCHANGED waiting
      /\ UNCHANGED answers /\ UNCHANGED out
      /\ UNCHANGED executed /\ UNCHANGED answered /\ UNCHANGED ignored /\ UNCHANGED late
      /\ UNCHANGED faults /\ crossed' \in BOOLEAN
    BY DEF Begin, wireVars, relayVars
<1>2. s \in Step /\ StepShape(g)
    BY DEF Step, ImmobilizerInv
<1>3. /\ op' \in [Request -> Op] /\ cfg' \in [Request -> Row \cup {None}]
      /\ step' \in [Request -> Step]
      /\ op'[g] = o /\ cfg'[g] = c /\ step'[g] = s
      /\ \A h \in Request : h # g => op'[h] = op[h] /\ cfg'[h] = cfg[h] /\ step'[h] = step[h]
    BY <1>1, <1>2, ImmobilizerTypes DEF Goto
<1>4. TypeOK'
  <2>1. alone' \subseteq Request
    BY <1>1, ImmobilizerTypes
  <2> QED
    BY <1>1, <1>3, <2>1 DEF ImmobilizerInv, TypeOK
<1>5. ASSUME NEW h \in Request PROVE StepShape(h)'
  <2>1. Sent(h)' <=> Sent(h)
    BY <1>1 DEF Sent, OnWire, Awaited
  <2>2. StepShape(h)
    BY DEF ImmobilizerInv
  <2>3. CASE h = g
    <3>1. ~Sent(g) /\ ~\E e \in events : e.req = g
      BY <1>1, <1>2 DEF StepShape
    <3>2. c # None
      BY ImmobilizerTypes
    <3> QED
      BY <1>1, <1>3, <2>1, <2>3, <3>1, <3>2 DEF StepShape
  <2>4. CASE h # g
    BY <1>1, <1>3, <2>1, <2>2, <2>4 DEF StepShape
  <2> QED
    BY <2>3, <2>4
<1>6. OneCommandEach'
    BY <1>1 DEF ImmobilizerInv, OneCommandEach
<1> QED
    BY <1>4, <1>5, <1>6 DEF ImmobilizerInv

\* The row a request begins with.
LEMMA CurrentIsRow ==
    ASSUME ImmobilizerInv
    PROVE  /\ Current \in Row
           /\ \A enabled \in BOOLEAN, w \in Wiring :
                 [Current EXCEPT !.enabled = enabled, !.wiring = w,
                                 !.tested = IF wiringChanged(w) THEN None ELSE @] \in Row
<1>1. [dout |-> 1, activeHigh |-> TRUE] \in Wiring
    BY ImmobilizerAssumption DEF Wiring
<1>2. Current \in Row
    BY <1>1, ImmobilizerTypes DEF Current, Row
<1> QED
    BY <1>2 DEF Row

\* How requests begin.
LEMMA BeginningShape ==
    ASSUME ImmobilizerInv, NEW g \in Request,
           \/ \E enabled \in BOOLEAN, w \in Wiring : Configure(g, enabled, w)
           \/ \E o \in Op \ {"configure"} : Require(g, o)
    PROVE  \E o \in Op, s \in {"upsert", "speed", "send"}, c \in Row :
              /\ Begin(g, o, s, c)
              /\ s = "upsert" <=> o = "configure"
              /\ o # "configure" => c = row
              /\ o = "configure" /\ c.tested # None =>
                    row # None /\ row.tested = c.tested /\ row.wiring = c.wiring
<1>1. ASSUME NEW enabled \in BOOLEAN, NEW w \in Wiring, Configure(g, enabled, w)
      PROVE  \E c \in Row :
                /\ Begin(g, "configure", "upsert", c)
                /\ c.tested # None =>
                      row # None /\ row.tested = c.tested /\ row.wiring = c.wiring
  <2>1. PICK c \in Row : c = [Current EXCEPT !.enabled = enabled, !.wiring = w,
                                 !.tested = IF wiringChanged(w) THEN None ELSE @]
    BY CurrentIsRow
  <2>2. Begin(g, "configure", "upsert", c)
    BY <1>1, <2>1 DEF Configure
  <2>3. Current \in Row
    BY CurrentIsRow
  <2>4. c.wiring = w /\ c.tested = IF w # Current.wiring THEN None ELSE Current.tested
    BY <2>1, <2>3 DEF wiringChanged, Row
  <2>5. ASSUME c.tested # None
        PROVE  row # None /\ row.tested = c.tested /\ row.wiring = c.wiring
    <3>1. Current.wiring = w /\ Current.tested = c.tested
      BY <2>4, <2>5
    <3>2. row = None => Current.tested = None
      BY DEF Current
    <3>3. Current = row
      BY <2>5, <3>1, <3>2 DEF Current
    <3> QED
      BY <2>4, <2>5, <3>1, <3>2, <3>3
  <2> QED
    BY <2>2, <2>5
<1>2. "configure" \in Op
    BY DEF Op
<1>3. ASSUME NEW o \in Op \ {"configure"}, Require(g, o)
      PROVE  row \in Row /\ \E s \in {"speed", "send"} : Begin(g, o, s, row)
  <2>1. row # None /\ row \in Row
    BY <1>3, ImmobilizerTypes DEF Require
  <2> QED
    BY <1>3, <2>1 DEF Require
<1> QED
    BY <1>1, <1>2, <1>3

\* Every request that begins.
LEMMA BeginningKeeps ==
    ASSUME ImmobilizerInv, NEW g \in Request,
           \/ \E enabled \in BOOLEAN, w \in Wiring : Configure(g, enabled, w)
           \/ \E o \in Op \ {"configure"} : Require(g, o)
    PROVE  ImmobilizerInv'
<1>1. PICK o \in Op, s \in {"upsert", "speed", "send"}, c \in Row :
         /\ Begin(g, o, s, c)
         /\ s = "upsert" <=> o = "configure"
         /\ o # "configure" => c = row
    BY BeginningShape
<1>2. row # None \/ o = "configure"
    BY <1>1, ImmobilizerTypes
<1> QED
    BY <1>1, <1>2, BeginKeeps

\* The command of a request that has a row.
LEMMA CommandShape ==
    ASSUME ImmobilizerInv, NEW g \in Request, step[g] \notin {"new", "over"}
    PROVE  /\ cfg[g] \in Row /\ Command(g).req = g /\ Command(g).dout = cfg[g].wiring.dout
           /\ Command(g).dout \in Douts
           /\ Command(g).level = levelFor(op[g] = "immobilize", cfg[g].wiring.activeHigh)
           /\ Command(g) \in [req : Request, dout : Douts, level : Level]
<1>1. cfg[g] \in Row
    BY ImmobilizerTypes DEF ImmobilizerInv, StepShape
<1>2. cfg[g].wiring.dout \in Douts
    BY <1>1 DEF Row, Wiring
<1>3. levelFor(op[g] = "immobilize", cfg[g].wiring.activeHigh) \in Level
    BY DEF levelFor, Level
<1> QED
    BY <1>1, <1>2, <1>3 DEF Command

\* What sending does.
LEMMA SendShape ==
    ASSUME ImmobilizerInv, NEW g \in Request, SendCommand(g)
    PROVE  /\ step[g] = "send" /\ step'[g] = "wait" /\ step' \in [Request -> Step]
           /\ \A h \in Request : h # g => step'[h] = step[h]
           /\ wire' \in Seq([req : Request, dout : Douts, level : Level])
           /\ DOMAIN wire' = 1..(Len(wire) + 1) /\ wire'[Len(wire) + 1] = Command(g)
           /\ \A i \in DOMAIN wire : wire'[i] = wire[i]
           /\ \A i \in DOMAIN wire' : i \in DOMAIN wire \/ i = Len(wire) + 1
           /\ waiting' \in Seq(Request)
           /\ DOMAIN waiting' = 1..(Len(waiting) + 1) /\ waiting'[Len(waiting) + 1] = g
           /\ \A i \in DOMAIN waiting : waiting'[i] = waiting[i]
           /\ \A i \in DOMAIN waiting' : i \in DOMAIN waiting \/ i = Len(waiting) + 1
           /\ UNCHANGED <<row, events, op, cfg, answers, relayVars, late, history, faults>>
           /\ done' = None
<1>1. /\ step[g] = "send" /\ Goto(g, "wait") /\ done' = None
      /\ wire' = Append(wire, Command(g)) /\ waiting' = Append(waiting, g)
      /\ UNCHANGED <<row, events, op, cfg, answers, relayVars, late, history, faults>>
    BY DEF SendCommand
<1>2. "wait" \in Step
    BY DEF Step
<1>3. PICK C : C = [req : Request, dout : Douts, level : Level]
    OBVIOUS
<1>4. Command(g) \in C /\ wire \in Seq(C)
    BY <1>1, <1>3, CommandShape, ImmobilizerTypes
<1>5. PICK c \in C : c = Command(g)
    BY <1>4
<1>6. /\ wire' \in Seq(C)
      /\ DOMAIN wire' = 1..(Len(wire) + 1) /\ wire'[Len(wire) + 1] = c
      /\ \A i \in DOMAIN wire : wire'[i] = wire[i]
      /\ \A i \in DOMAIN wire' : i \in DOMAIN wire \/ i = Len(wire) + 1
    BY <1>1, <1>4, <1>5, AppendShape
<1>7. /\ waiting' \in Seq(Request)
      /\ DOMAIN waiting' = 1..(Len(waiting) + 1) /\ waiting'[Len(waiting) + 1] = g
      /\ \A i \in DOMAIN waiting : waiting'[i] = waiting[i]
      /\ \A i \in DOMAIN waiting' : i \in DOMAIN waiting \/ i = Len(waiting) + 1
    BY <1>1, ImmobilizerTypes, AppendShape
<1>8. /\ step'[g] = "wait" /\ step' \in [Request -> Step]
      /\ \A h \in Request : h # g => step'[h] = step[h]
    BY <1>1, <1>2, ImmobilizerTypes DEF Goto
<1> QED
    BY <1>1, <1>3, <1>5, <1>6, <1>7, <1>8

\* A request sends its command, its first.
LEMMA SendCommandKeeps ==
    ASSUME ImmobilizerInv, NEW g \in Request, SendCommand(g)
    PROVE  ImmobilizerInv'
<1>1. /\ UNCHANGED row /\ UNCHANGED events /\ UNCHANGED op /\ UNCHANGED cfg
      /\ UNCHANGED answers /\ UNCHANGED out
      /\ UNCHANGED executed /\ UNCHANGED answered /\ UNCHANGED ignored /\ UNCHANGED late
      /\ UNCHANGED alone /\ UNCHANGED crossed /\ UNCHANGED faults /\ done' = None
    BY SendShape DEF relayVars, history
<1>2. StepShape(g) /\ step[g] = "send" /\ step'[g] = "wait"
    BY SendShape DEF ImmobilizerInv
<1>3. ~Sent(g)
    BY <1>2 DEF StepShape
<1>4. TypeOK'
    BY <1>1, SendShape DEF ImmobilizerInv, TypeOK
<1>5. wire'[Len(wire) + 1].req = g
    BY <1>2, SendShape, CommandShape
<1>6. \A h \in Request : h # g => (Sent(h)' => Sent(h))
  <2> SUFFICES ASSUME NEW h \in Request, h # g, Sent(h)' PROVE Sent(h)
    OBVIOUS
  <2>1. OnWire(h)' => OnWire(h)
    BY <1>5, SendShape DEF OnWire
  <2>2. Awaited(h)' => Awaited(h)
    BY SendShape DEF Awaited
  <2> QED
    BY <1>1, <2>1, <2>2 DEF Sent
<1>7. ASSUME NEW h \in Request PROVE StepShape(h)'
  <2>1. CASE h = g
    BY <1>1, <1>2, <2>1 DEF StepShape
  <2>2. CASE h # g
    BY <1>1, <1>6, <2>2, SendShape DEF StepShape, ImmobilizerInv
  <2> QED
    BY <2>1, <2>2
<1>8. OneCommandEach'
  <2>1. \A i \in DOMAIN wire : wire[i].req # g
    BY <1>3 DEF Sent, OnWire
  <2>2. \A i \in DOMAIN waiting : waiting[i] # g
    BY <1>3 DEF Sent, Awaited
  <2>3. g \notin answered \cup ignored /\ g \notin late
    BY <1>3 DEF Sent
  <2>4. \A i, j \in DOMAIN wire' : wire'[i].req = wire'[j].req => i = j
    BY <1>5, <2>1, SendShape DEF ImmobilizerInv, OneCommandEach
  <2>5. \A i, j \in DOMAIN waiting' : waiting'[i] = waiting'[j] => i = j
    BY <2>2, SendShape DEF ImmobilizerInv, OneCommandEach
  <2>6. \A i \in DOMAIN wire' : wire'[i].req \notin answered' \cup ignored'
    BY <1>1, <1>5, <2>3, SendShape DEF ImmobilizerInv, OneCommandEach
  <2>7. \A i \in DOMAIN waiting' : waiting'[i] \notin late'
    BY <1>1, <2>3, SendShape DEF ImmobilizerInv, OneCommandEach
  <2>8. executed' \subseteq answered'
    BY <1>1 DEF ImmobilizerInv, OneCommandEach
  <2> QED
    BY <2>4, <2>5, <2>6, <2>7, <2>8 DEF OneCommandEach
<1> QED
    BY <1>4, <1>7, <1>8 DEF ImmobilizerInv

\* A step of the channel tells requests that wait how their command ended.
LEMMA WireKeeps ==
    ASSUME ImmobilizerInv, TypeOK', OneCommandEach',
           UNCHANGED <<row, events, op, cfg, history>>,
           \A g \in Request : Sent(g)' => Sent(g),
           \A g \in Request : \/ step'[g] = step[g]
                              \/ step[g] = "wait" /\ step'[g] \in {"logOk", "logFailed"}
    PROVE  ImmobilizerInv'
<1>1. /\ UNCHANGED row /\ UNCHANGED events /\ UNCHANGED op /\ UNCHANGED cfg
      /\ UNCHANGED alone
    BY DEF history
<1>2. ASSUME NEW g \in Request PROVE StepShape(g)'
  <2>1. StepShape(g) /\ (Sent(g)' => Sent(g))
    BY DEF ImmobilizerInv
  <2>2. CASE step'[g] = step[g]
    BY <1>1, <2>1, <2>2 DEF StepShape
  <2>3. CASE step[g] = "wait" /\ step'[g] \in {"logOk", "logFailed"}
    BY <1>1, <2>1, <2>3 DEF StepShape
  <2> QED
    BY <2>2, <2>3
<1> QED
    BY <1>2 DEF ImmobilizerInv

\* What taking a command does.
LEMMA ExecuteShape ==
    ASSUME ImmobilizerInv, Execute
    PROVE  /\ Len(wire) > 0 /\ 1 \in DOMAIN wire /\ wire[1].req \in Request
           /\ wire[1].dout \in Douts /\ wire[1].level \in Level
           /\ wire' \in Seq([req : Request, dout : Douts, level : Level])
           /\ wire' = Tail(wire) /\ Len(wire') = Len(wire) - 1
           /\ DOMAIN wire' = 1..(Len(wire) - 1)
           /\ \A i \in DOMAIN wire' : wire'[i] = wire[i + 1] /\ i + 1 \in DOMAIN wire /\ i \in Nat
           /\ \/ /\ answered' = answered \cup {wire[1].req} /\ UNCHANGED ignored
                 /\ answers' = answers + 1
                 /\ \/ /\ out' = [out EXCEPT ![wire[1].dout] = wire[1].level]
                       /\ executed' = executed \cup {wire[1].req}
                    \/ UNCHANGED out /\ UNCHANGED executed
              \/ /\ ignored' = ignored \cup {wire[1].req}
                 /\ UNCHANGED out /\ UNCHANGED executed
                 /\ UNCHANGED answered /\ UNCHANGED answers
           /\ UNCHANGED <<row, events, reqVars, waiting, late, history, faults>>
           /\ done' = None
<1>1. /\ wire # <<>> /\ wire' = Tail(wire)
      /\ UNCHANGED <<row, events, reqVars, waiting, late, history, faults>>
      /\ done' = None
    BY DEF Execute
<1>2. PICK C : C = [req : Request, dout : Douts, level : Level]
    OBVIOUS
<1>3. wire \in Seq(C)
    BY <1>2, ImmobilizerTypes
<1>4. /\ Len(wire) > 0 /\ 1 \in DOMAIN wire /\ wire[1] \in C /\ Head(wire) = wire[1]
      /\ wire' \in Seq(C) /\ Len(wire') = Len(wire) - 1 /\ DOMAIN wire' = 1..(Len(wire) - 1)
      /\ \A i \in DOMAIN wire' : wire'[i] = wire[i + 1] /\ i + 1 \in DOMAIN wire /\ i \in Nat
    BY <1>1, <1>3
<1>5. wire[1].req \in Request /\ wire[1].dout \in Douts /\ wire[1].level \in Level
    BY <1>2, <1>4
<1>6. \/ /\ answered' = answered \cup {wire[1].req} /\ UNCHANGED ignored
         /\ answers' = answers + 1
         /\ \/ /\ out' = [out EXCEPT ![wire[1].dout] = wire[1].level]
               /\ executed' = executed \cup {wire[1].req}
            \/ UNCHANGED out /\ UNCHANGED executed
      \/ /\ ignored' = ignored \cup {wire[1].req}
         /\ UNCHANGED out /\ UNCHANGED executed
         /\ UNCHANGED answered /\ UNCHANGED answers
    BY <1>4 DEF Execute, Answers
<1> QED
    BY <1>1, <1>2, <1>4, <1>5, <1>6

\* The sums are of numbers, and there are not more of a kind than requests.
LEMMA RequestsCount ==
    ASSUME ImmobilizerInv
    PROVE  /\ \A S : S \subseteq Request =>
                 /\ IsFiniteSet(S) /\ Cardinality(S) \in Nat
                 /\ Cardinality(S) <= MaxRequest
           /\ \A S, T : S \subseteq T /\ T \subseteq Request => Cardinality(S) <= Cardinality(T)
<1>1. IsFiniteSet(Request) /\ Cardinality(Request) = MaxRequest
    BY ImmobilizerAssumption, FS_Interval DEF Request
<1>2. ASSUME NEW S, S \subseteq Request
      PROVE  /\ IsFiniteSet(S) /\ Cardinality(S) \in Nat
             /\ Cardinality(S) <= MaxRequest
    BY <1>1, <1>2, FS_Subset, FS_CardinalityType
<1>3. ASSUME NEW S, NEW T, S \subseteq T, T \subseteq Request
      PROVE  Cardinality(S) <= Cardinality(T)
    BY <1>2, <1>3, FS_Subset
<1> QED
    BY <1>2, <1>3

\* The tracker takes a command.
LEMMA ExecuteKeeps ==
    ASSUME ImmobilizerInv, AnswersFit, Execute
    PROVE  /\ ImmobilizerInv'
           /\ \/ /\ answers' = answers + 1
                 /\ Cardinality(answered') = Cardinality(answered) + 1
              \/ UNCHANGED answers /\ UNCHANGED answered
<1>1. /\ UNCHANGED row /\ UNCHANGED events /\ UNCHANGED op /\ UNCHANGED step /\ UNCHANGED cfg
      /\ UNCHANGED waiting /\ UNCHANGED late
      /\ UNCHANGED alone /\ UNCHANGED crossed /\ UNCHANGED faults /\ done' = None
    BY ExecuteShape DEF reqVars, history
<1>2. wire[1].req \notin answered \cup ignored
    BY ExecuteShape DEF ImmobilizerInv, OneCommandEach
<1>3. /\ answered \subseteq Request /\ answered' \subseteq Request
      /\ ignored' \subseteq Request /\ executed' \subseteq Request
    BY ExecuteShape, ImmobilizerTypes
<1>4. \/ /\ answers' = answers + 1
         /\ Cardinality(answered') = Cardinality(answered) + 1
      \/ UNCHANGED answers /\ UNCHANGED answered
  <2>1. CASE answered' = answered \cup {wire[1].req} /\ answers' = answers + 1
    <3>1. IsFiniteSet(answered)
      BY <1>3, RequestsCount
    <3>2. Cardinality(answered \cup {wire[1].req}) = Cardinality(answered) + 1
      BY <1>2, <3>1, FS_AddElement
    <3> QED
      BY <2>1, <3>2
  <2>2. CASE UNCHANGED answers /\ UNCHANGED answered
    BY <2>2
  <2> QED
    BY <2>1, <2>2, ExecuteShape
<1>5. answers' \in 0..MaxRequest
  <2>1. Told \subseteq Request
    BY DEF Told
  <2>2. Cardinality(answered') <= MaxRequest /\ Cardinality(Told) \in Nat
    BY <1>3, <2>1, RequestsCount
  <2>3. Cardinality(answered) \in Nat /\ answers \in Nat /\ answers \in 0..MaxRequest
    BY <1>3, RequestsCount, ImmobilizerTypes
  <2> QED
    BY <1>4, <2>2, <2>3, ImmobilizerTypes DEF AnswersFit
<1>6. TypeOK'
  <2>1. out' \in [Douts -> Level]
    BY ExecuteShape, ImmobilizerTypes
  <2> QED
    BY <1>1, <1>3, <1>5, <2>1, ExecuteShape DEF ImmobilizerInv, TypeOK
<1>7. \A i \in DOMAIN wire' : wire'[i].req # wire[1].req
  <2> SUFFICES ASSUME NEW i \in DOMAIN wire' PROVE wire'[i].req # wire[1].req
    OBVIOUS
  <2>1. wire'[i] = wire[i + 1] /\ i + 1 \in DOMAIN wire /\ i + 1 # 1 /\ 1 \in DOMAIN wire
    BY ExecuteShape, ImmobilizerTypes
  <2> QED
    BY <2>1 DEF ImmobilizerInv, OneCommandEach
<1>8. OneCommandEach'
  <2>1. \A i, j \in DOMAIN wire' : wire'[i].req = wire'[j].req => i = j
    <3> SUFFICES ASSUME NEW i \in DOMAIN wire', NEW j \in DOMAIN wire',
                        wire'[i].req = wire'[j].req
                 PROVE  i = j
      OBVIOUS
    <3>1. /\ i + 1 \in DOMAIN wire /\ j + 1 \in DOMAIN wire /\ i \in Nat /\ j \in Nat
          /\ wire[i + 1].req = wire[j + 1].req
      BY ExecuteShape
    <3>2. i + 1 = j + 1
      BY <3>1 DEF ImmobilizerInv, OneCommandEach
    <3> QED
      BY <3>1, <3>2
  <2>2. \A i \in DOMAIN wire' : wire'[i].req \notin answered' \cup ignored'
    <3>1. /\ answered' \subseteq answered \cup {wire[1].req}
          /\ ignored' \subseteq ignored \cup {wire[1].req}
      BY ExecuteShape
    <3>2. \A i \in DOMAIN wire' : wire'[i].req \notin answered \cup ignored
      BY ExecuteShape DEF ImmobilizerInv, OneCommandEach
    <3> QED
      BY <1>7, <3>1, <3>2
  <2>3. executed' \subseteq answered'
    BY ExecuteShape DEF ImmobilizerInv, OneCommandEach
  <2> QED
    BY <1>1, <2>1, <2>2, <2>3 DEF ImmobilizerInv, OneCommandEach
<1>9. \A g \in Request : Sent(g)' => Sent(g)
  <2> SUFFICES ASSUME NEW g \in Request, Sent(g)' PROVE Sent(g)
    OBVIOUS
  <2>1. OnWire(g)' => OnWire(g)
    BY ExecuteShape DEF OnWire
  <2>2. g \in answered' \cup ignored' => g \in answered \cup ignored \/ OnWire(g)
    BY ExecuteShape DEF OnWire
  <2> QED
    BY <1>1, <2>1, <2>2 DEF Sent, Awaited
<1>10. ImmobilizerInv'
    BY <1>1, <1>6, <1>8, <1>9, ExecuteShape, WireKeeps
<1> QED
    BY <1>4, <1>10

\* What an answer does.
LEMMA AnswerShape ==
    ASSUME ImmobilizerInv, Answer
    PROVE  /\ answers \in Nat /\ answers > 0 /\ answers' = answers - 1
           /\ UNCHANGED <<row, events, op, cfg, wire, relayVars, late, history, faults>>
           /\ done' = None
           /\ \/ waiting = <<>> /\ UNCHANGED waiting /\ UNCHANGED step
              \/ /\ Len(waiting) > 0 /\ 1 \in DOMAIN waiting /\ waiting[1] \in Request
                 /\ waiting' \in Seq(Request) /\ waiting' = Tail(waiting)
                 /\ Len(waiting') = Len(waiting) - 1
                 /\ DOMAIN waiting' = 1..(Len(waiting) - 1)
                 /\ \A i \in DOMAIN waiting' : /\ waiting'[i] = waiting[i + 1]
                                               /\ i + 1 \in DOMAIN waiting /\ i \in Nat
                 /\ step'[waiting[1]] = IF step[waiting[1]] = "wait" THEN "logOk"
                                        ELSE step[waiting[1]]
                 /\ \A h \in Request : h # waiting[1] => step'[h] = step[h]
                 /\ step' \in [Request -> Step]
<1>1. /\ answers > 0 /\ answers' = answers - 1
      /\ UNCHANGED <<row, events, op, cfg, wire, relayVars, late, history, faults>>
      /\ done' = None
      /\ waiting = <<>> => UNCHANGED waiting /\ UNCHANGED step
      /\ waiting # <<>> => step' = Settle(Head(waiting)) /\ waiting' = Tail(waiting)
    BY DEF Answer
<1>2. answers \in Nat
    BY ImmobilizerTypes
<1>3. CASE waiting = <<>>
    BY <1>1, <1>2, <1>3
<1>4. CASE waiting # <<>>
  <2>1. /\ Len(waiting) > 0 /\ 1 \in DOMAIN waiting /\ waiting[1] \in Request
        /\ Head(waiting) = waiting[1]
        /\ waiting' \in Seq(Request) /\ Len(waiting') = Len(waiting) - 1
        /\ DOMAIN waiting' = 1..(Len(waiting) - 1)
        /\ \A i \in DOMAIN waiting' : /\ waiting'[i] = waiting[i + 1]
                                      /\ i + 1 \in DOMAIN waiting /\ i \in Nat
    <3>1. waiting \in Seq(Request)
      BY ImmobilizerTypes
    <3>2. waiting # <<>> /\ waiting' = Tail(waiting)
      BY <1>1, <1>4
    <3> QED
      BY <3>1, <3>2
  <2>2. PICK g \in Request : g = waiting[1]
    BY <2>1
  <2>3. step' = [step EXCEPT ![g] = IF step[g] = "wait" THEN "logOk" ELSE step[g]]
    BY <1>1, <1>4, <2>1, <2>2 DEF Settle
  <2>4. /\ step'[g] = IF step[g] = "wait" THEN "logOk" ELSE step[g]
        /\ \A h \in Request : h # g => step'[h] = step[h]
        /\ step' \in [Request -> Step]
    BY <2>3, ImmobilizerTypes DEF Step
  <2> QED
    BY <1>1, <1>2, <1>4, <2>1, <2>2, <2>4
<1> QED
    BY <1>3, <1>4

\* An answer settles the oldest awaited command.
LEMMA AnswerKeeps ==
    ASSUME ImmobilizerInv, Answer
    PROVE  ImmobilizerInv'
<1>1. /\ UNCHANGED row /\ UNCHANGED events /\ UNCHANGED op /\ UNCHANGED cfg
      /\ UNCHANGED wire /\ UNCHANGED out
      /\ UNCHANGED executed /\ UNCHANGED answered /\ UNCHANGED ignored /\ UNCHANGED late
      /\ UNCHANGED alone /\ UNCHANGED crossed /\ UNCHANGED faults /\ done' = None
    BY AnswerShape DEF relayVars, history
<1>2. answers' \in 0..MaxRequest
  <2>1. answers \in 0..MaxRequest /\ MaxRequest \in Nat
    BY ImmobilizerTypes
  <2>2. answers > 0 /\ answers' = answers - 1
    BY AnswerShape
  <2> QED
    BY <2>1, <2>2
<1>3. waiting' \in Seq(Request) /\ step' \in [Request -> Step]
    BY AnswerShape, ImmobilizerTypes
<1>4. TypeOK'
    BY <1>1, <1>2, <1>3 DEF ImmobilizerInv, TypeOK
<1>5. /\ \A i \in DOMAIN waiting' : \E j \in DOMAIN waiting : waiting'[i] = waiting[j]
      /\ \A i, j \in DOMAIN waiting' : waiting'[i] = waiting'[j] => i = j
  <2>1. CASE UNCHANGED waiting
    BY <2>1 DEF ImmobilizerInv, OneCommandEach
  <2>2. CASE \A i \in DOMAIN waiting' : /\ waiting'[i] = waiting[i + 1]
                                        /\ i + 1 \in DOMAIN waiting /\ i \in Nat
    <3>1. \A i, j \in DOMAIN waiting' : waiting'[i] = waiting'[j] => i + 1 = j + 1
      BY <2>2 DEF ImmobilizerInv, OneCommandEach
    <3> QED
      BY <2>2, <3>1
  <2> QED
    BY <2>1, <2>2, AnswerShape
<1>6. OneCommandEach'
    BY <1>1, <1>5 DEF ImmobilizerInv, OneCommandEach
<1>7. \A g \in Request : Sent(g)' => Sent(g)
    BY <1>1, <1>5 DEF Sent, OnWire, Awaited
<1>8. \A g \in Request : \/ step'[g] = step[g]
                         \/ step[g] = "wait" /\ step'[g] \in {"logOk", "logFailed"}
    BY AnswerShape
<1> QED
    BY <1>1, <1>4, <1>6, <1>7, <1>8, AnswerShape, WireKeeps

\* What a timeout does.
LEMMA TimeoutShape ==
    ASSUME ImmobilizerInv, NEW g \in Request, TimesOut(g)
    PROVE  /\ Awaited(g) /\ waiting' \in Seq(Request)
           /\ \A i \in DOMAIN waiting' :
                 waiting'[i] # g /\ \E j \in DOMAIN waiting : waiting'[i] = waiting[j]
           /\ \A i, j \in DOMAIN waiting' : waiting'[i] = waiting'[j] => i = j
           /\ late' = late \cup {g}
           /\ step' \in [Request -> Step]
           /\ step'[g] = IF step[g] = "wait" THEN "logFailed" ELSE step[g]
           /\ \A h \in Request : h # g => step'[h] = step[h]
           /\ UNCHANGED <<row, events, op, cfg, wire, answers, relayVars, history, faults>>
           /\ done' = None
<1>1. PICK i \in DOMAIN waiting : waiting[i] = g /\ waiting' = RemoveAt(waiting, i)
    BY DEF TimesOut
<1>2. /\ late' = late \cup {g} /\ done' = None
      /\ step' = [step EXCEPT ![g] = IF step[g] = "wait" THEN "logFailed" ELSE step[g]]
      /\ UNCHANGED <<row, events, op, cfg, wire, answers, relayVars, history, faults>>
    BY DEF TimesOut
<1>3. /\ i \in 1..Len(waiting) /\ waiting \in Seq(Request)
      /\ \A j, k \in DOMAIN waiting : waiting[j] = waiting[k] => j = k
    BY ImmobilizerTypes DEF ImmobilizerInv, OneCommandEach
<1>4. PICK t : t = RemoveAt(waiting, i)
    OBVIOUS
<1>5. /\ t \in Seq(Request)
      /\ \A j \in DOMAIN t : t[j] # waiting[i] /\ \E m \in DOMAIN waiting : t[j] = waiting[m]
      /\ \A j, k \in DOMAIN t : j < k =>
            \E m, n \in DOMAIN waiting : m < n /\ t[j] = waiting[m] /\ t[k] = waiting[n]
    BY <1>3, <1>4, RemovalKeeps
<1>6. \A j, k \in DOMAIN t : t[j] = t[k] => j = k
  <2>1. \A m, n \in DOMAIN waiting : m < n => waiting[m] # waiting[n]
    BY <1>3
  <2>2. \A j, k \in DOMAIN t : j < k => t[j] # t[k]
    BY <1>5, <2>1
  <2>3. DOMAIN t = 1..Len(t) /\ Len(t) \in Nat
    BY <1>5
  <2> QED
    BY <2>2, <2>3
<1>7. /\ step'[g] = IF step[g] = "wait" THEN "logFailed" ELSE step[g]
      /\ \A h \in Request : h # g => step'[h] = step[h]
      /\ step' \in [Request -> Step]
    BY <1>2, ImmobilizerTypes DEF Step
<1>8. Awaited(g)
    BY <1>1 DEF Awaited
<1> QED
    BY <1>1, <1>2, <1>4, <1>5, <1>6, <1>7, <1>8

\* A timer ends a wait.
LEMMA TimesOutKeeps ==
    ASSUME ImmobilizerInv, NEW g \in Request, TimesOut(g)
    PROVE  ImmobilizerInv'
<1>1. /\ UNCHANGED row /\ UNCHANGED events /\ UNCHANGED op /\ UNCHANGED cfg
      /\ UNCHANGED wire /\ UNCHANGED answers /\ UNCHANGED out
      /\ UNCHANGED executed /\ UNCHANGED answered /\ UNCHANGED ignored
      /\ UNCHANGED alone /\ UNCHANGED crossed /\ UNCHANGED faults /\ done' = None
    BY TimeoutShape DEF relayVars, history
<1>2. late' \subseteq Request
    BY TimeoutShape, ImmobilizerTypes
<1>3. TypeOK'
    BY <1>1, <1>2, TimeoutShape DEF ImmobilizerInv, TypeOK
<1>4. OneCommandEach'
  <2>1. \A i \in DOMAIN waiting' : waiting'[i] \notin late'
    BY TimeoutShape DEF ImmobilizerInv, OneCommandEach
  <2> QED
    BY <1>1, <2>1, TimeoutShape DEF ImmobilizerInv, OneCommandEach
<1>5. \A h \in Request : Sent(h)' => Sent(h)
  <2>1. \A h \in Request : Awaited(h)' => Awaited(h)
    BY TimeoutShape DEF Awaited
  <2>2. \A h \in Request : h \in late' => h \in late \/ Awaited(h)
    BY TimeoutShape
  <2> QED
    BY <1>1, <2>1, <2>2 DEF Sent, OnWire
<1>6. \A h \in Request : \/ step'[h] = step[h]
                         \/ step[h] = "wait" /\ step'[h] \in {"logOk", "logFailed"}
    BY TimeoutShape
<1> QED
    BY <1>1, <1>3, <1>4, <1>5, <1>6, TimeoutShape, WireKeeps

\* The connection closes.
LEMMA LinkLostKeeps ==
    ASSUME ImmobilizerInv, LinkLost
    PROVE  ImmobilizerInv'
<1>1. /\ UNCHANGED row /\ UNCHANGED events /\ UNCHANGED op /\ UNCHANGED cfg
      /\ UNCHANGED out
      /\ UNCHANGED executed /\ UNCHANGED answered /\ UNCHANGED ignored /\ UNCHANGED late
      /\ UNCHANGED alone /\ UNCHANGED crossed /\ done' = None
      /\ wire' = <<>> /\ waiting' = <<>> /\ answers' = 0
      /\ step' = [g \in Request |-> IF step[g] = "wait" THEN "logFailed" ELSE step[g]]
      /\ UNCHANGED <<row, events, op, cfg, history>>
    BY DEF LinkLost, relayVars, history
<1>2. faults' \in 0..MaxFaults
    BY FaultCounts DEF LinkLost
<1>3. /\ step' \in [Request -> Step]
      /\ \A g \in Request : step'[g] = IF step[g] = "wait" THEN "logFailed" ELSE step[g]
    BY <1>1, ImmobilizerTypes DEF Step
<1>4. TypeOK'
  <2>1. /\ <<>> \in Seq(Request) /\ 0 \in 0..MaxRequest
        /\ <<>> \in Seq([req : Request, dout : Douts, level : Level])
    BY ImmobilizerTypes
  <2> QED
    BY <1>1, <1>2, <1>3, <2>1 DEF ImmobilizerInv, TypeOK
<1>5. OneCommandEach' /\ \A g : Sent(g)' => Sent(g)
    BY <1>1 DEF ImmobilizerInv, OneCommandEach, Sent, OnWire, Awaited
<1> QED
    BY <1>1, <1>3, <1>4, <1>5, WireKeeps

\* A request steps without a look at the channel.
DeskStep(g) ==
    \/ Upsert(g) \/ LogConfig(g) \/ CheckSpeed(g) \/ NotConnected(g) \/ CallFails(g)
    \/ LogOk(g) \/ LogOkRejected(g) \/ LogFailed(g) \/ Patch(g) \/ Abort(g)

\* What such a step does.
LEMMA DeskShape ==
    ASSUME ImmobilizerInv, NEW g \in Request, DeskStep(g)
    PROVE  /\ ImmobilizerInv'
           /\ step[g] \notin {"new", "over"}
           /\ \A h \in Request : h # g => step'[h] = step[h]
           /\ step'[g] \in {"logConfig", "over", "send", "logFailed", "patch"}
           /\ step'[g] = "send" => step[g] = "speed"
           /\ step'[g] = "patch" => step[g] = "logOk"
           /\ step'[g] \notin {"logConfig", "over"} => UNCHANGED row
           /\ UNCHANGED op /\ UNCHANGED cfg /\ UNCHANGED wire /\ UNCHANGED waiting
           /\ UNCHANGED answers /\ UNCHANGED out
           /\ UNCHANGED executed /\ UNCHANGED answered /\ UNCHANGED ignored /\ UNCHANGED late
           /\ UNCHANGED alone /\ UNCHANGED crossed
<1>1. ImmobilizerInv'
    BY QuietKeeps, LogKeeps, RowKeeps DEF DeskStep
<1>2. /\ UNCHANGED op /\ UNCHANGED cfg /\ UNCHANGED wire /\ UNCHANGED waiting
      /\ UNCHANGED answers /\ UNCHANGED out
      /\ UNCHANGED executed /\ UNCHANGED answered /\ UNCHANGED ignored /\ UNCHANGED late
      /\ UNCHANGED alone /\ UNCHANGED crossed
    BY DEF DeskStep, Upsert, LogConfig, CheckSpeed, NotConnected, CallFails, LogOk,
           LogOkRejected, LogFailed, Patch, Abort, wireVars, relayVars, history
<1>3. step[g] \notin {"new", "over"}
    BY DEF DeskStep, Upsert, LogConfig, CheckSpeed, NotConnected, CallFails, LogOk,
           LogOkRejected, LogFailed, Patch, Abort, InFlight
<1>4. PICK s \in {"logConfig", "over", "send", "logFailed", "patch"} :
          /\ Goto(g, s)
          /\ s = "send" => step[g] = "speed"
          /\ s = "patch" => step[g] = "logOk"
          /\ s \notin {"logConfig", "over"} => UNCHANGED row
    BY DEF DeskStep, Upsert, LogConfig, CheckSpeed, NotConnected, CallFails, LogOk,
           LogOkRejected, LogFailed, Patch, Abort
<1>5. s \in Step
    BY DEF Step
<1>6. step'[g] = s /\ \A h \in Request : h # g => step'[h] = step[h]
    BY <1>4, <1>5, GoneTo
<1> QED
    BY <1>1, <1>2, <1>3, <1>4, <1>6

\* Nothing disturbs a lone request at its desk.
LEMMA DeskDisturbsNone ==
    ASSUME ImmobilizerInv, \A h \in Request : AloneIsUndisturbed(h),
           NEW g \in Request, DeskStep(g)
    PROVE  \A h \in Request : AloneIsUndisturbed(h)'
<1> SUFFICES ASSUME NEW h \in Request, h \in alone', step'[h] \notin {"new", "over"}
             PROVE  AloneIsUndisturbed(h)'
    BY DEF AloneIsUndisturbed
<1>1. /\ UNCHANGED op /\ UNCHANGED cfg /\ UNCHANGED wire /\ UNCHANGED waiting
      /\ UNCHANGED answers /\ UNCHANGED out /\ UNCHANGED executed /\ UNCHANGED answered
      /\ UNCHANGED alone
    BY DeskShape
<1>2. g \in InFlight
    BY DeskShape DEF InFlight
<1>3. step[h] \notin {"new", "over"}
    BY DeskShape
<1>4. InFlight = {h}
    BY <1>1, <1>3 DEF AloneIsUndisturbed
<1>5. h = g
    BY <1>2, <1>4
<1>6. InFlight' = {g}
    BY <1>4, <1>5, DeskShape DEF InFlight
<1>7. step'[g] \in {"logConfig", "send", "logFailed", "patch"}
    BY <1>5, DeskShape
<1>8. op[g] # "configure" => UNCHANGED row
  <2>1. step'[g] = "logConfig" => op'[g] = "configure"
    BY DeskShape DEF ImmobilizerInv, StepShape
  <2> QED
    BY <1>1, <1>7, <2>1, DeskShape
<1>9. Quiet' <=> Quiet
    BY <1>1 DEF Quiet
<1>10. AnsweredTo(g)' <=> AnsweredTo(g)
    BY <1>1 DEF AnsweredTo, Obeyed, Command
<1> QED
    BY <1>1, <1>3, <1>5, <1>6, <1>7, <1>8, <1>9, <1>10, DeskShape DEF AloneIsUndisturbed

\* A request that begins is not alone with another one.
LEMMA BeginDisturbsNone ==
    ASSUME ImmobilizerInv, \A h \in Request : AloneIsUndisturbed(h), NEW g \in Request,
           NEW o \in Op, NEW s \in {"upsert", "speed", "send"}, NEW c \in Row,
           Begin(g, o, s, c), o # "configure" => c = row
    PROVE  \A h \in Request : AloneIsUndisturbed(h)'
<1>1. /\ step[g] = "new" /\ Goto(g, s) /\ op' = [op EXCEPT ![g] = o]
      /\ cfg' = [cfg EXCEPT ![g] = c]
      /\ alone' = IF InFlight = {} /\ Quiet THEN alone \cup {g} ELSE alone \ InFlight
      /\ UNCHANGED row /\ UNCHANGED wire /\ UNCHANGED waiting /\ UNCHANGED answers
    BY DEF Begin, wireVars, relayVars
<1>2. s \in Step
    BY DEF Step
<1>3. /\ op'[g] = o /\ cfg'[g] = c /\ step'[g] = s
      /\ \A h \in Request : h # g => step'[h] = step[h]
    BY <1>1, <1>2, ImmobilizerTypes DEF Goto
<1>4. ASSUME NEW h \in Request, h # g, h \in alone', step'[h] \notin {"new", "over"}
      PROVE  FALSE
  <2>1. h \in InFlight
    BY <1>3, <1>4 DEF InFlight
  <2> QED
    BY <1>1, <1>4, <2>1
<1>5. ASSUME g \in alone' PROVE AloneIsUndisturbed(g)'
  <2>1. g \notin alone
    BY <1>1 DEF ImmobilizerInv, StepShape
  <2>2. InFlight = {} /\ Quiet
    BY <1>1, <1>5, <2>1
  <2>3. InFlight' = {g}
    BY <1>3, <2>2 DEF InFlight
  <2>4. Quiet'
    BY <1>1, <2>2 DEF Quiet
  <2> QED
    BY <1>1, <1>3, <2>3, <2>4 DEF AloneIsUndisturbed
<1> QED
    BY <1>4, <1>5 DEF AloneIsUndisturbed

\* The command of a lone request is alone on the wire.
LEMMA SendDisturbsNone ==
    ASSUME ImmobilizerInv, \A h \in Request : AloneIsUndisturbed(h),
           NEW g \in Request, SendCommand(g)
    PROVE  \A h \in Request : AloneIsUndisturbed(h)'
<1> SUFFICES ASSUME NEW h \in Request, h \in alone', step'[h] \notin {"new", "over"}
             PROVE  AloneIsUndisturbed(h)'
    BY DEF AloneIsUndisturbed
<1>1. /\ step[g] = "send" /\ step'[g] = "wait"
      /\ \A k \in Request : k # g => step'[k] = step[k]
      /\ UNCHANGED row /\ UNCHANGED op /\ UNCHANGED cfg /\ UNCHANGED answers
      /\ UNCHANGED alone
    BY SendShape DEF relayVars, history
<1>2. wire' = Append(wire, Command(g)) /\ waiting' = Append(waiting, g)
    BY DEF SendCommand
<1>3. InFlight = {h} /\ InFlight' = InFlight /\ g \in InFlight
    BY <1>1 DEF AloneIsUndisturbed, InFlight
<1>4. h = g
    BY <1>3
<1>5. Quiet
    BY <1>1, <1>4 DEF AloneIsUndisturbed
<1>6. wire' = <<Command(g)>> /\ waiting' = <<g>> /\ answers' = 0
    BY <1>1, <1>2, <1>5 DEF Quiet
<1>7. Command(g)' = Command(g)
    BY <1>1 DEF Command
<1> QED
    BY <1>1, <1>3, <1>4, <1>6, <1>7 DEF AloneIsUndisturbed

\* The tracker takes the command of a lone request.
LEMMA ExecuteDisturbsNone ==
    ASSUME ImmobilizerInv, AnswersFit, \A h \in Request : AloneIsUndisturbed(h), Execute
    PROVE  \A h \in Request : AloneIsUndisturbed(h)'
<1> SUFFICES ASSUME NEW h \in Request, h \in alone', step'[h] \notin {"new", "over"}
             PROVE  AloneIsUndisturbed(h)'
    BY DEF AloneIsUndisturbed
<1>1. /\ UNCHANGED row /\ UNCHANGED op /\ UNCHANGED step /\ UNCHANGED cfg
      /\ UNCHANGED waiting /\ UNCHANGED alone
    BY ExecuteShape DEF reqVars, history
<1>2. InFlight = {h} /\ InFlight' = {h}
    BY <1>1 DEF AloneIsUndisturbed, InFlight
<1>3. ~Quiet
    BY DEF Execute, Quiet
<1>4. CASE step[h] = "wait"
  <2>1. wire = <<Command(h)>> /\ answers = 0
    BY <1>1, <1>4 DEF AloneIsUndisturbed, Execute
  <2>2. wire' = <<>>
    BY <2>1 DEF Execute
  <2>3. /\ wire[1] = Command(h) /\ Command(h).dout \in Douts /\ Command(h).req = h
        /\ Command(h)' = Command(h)
    BY <1>1, <1>4, <2>1, CommandShape DEF Command
  <2>4. h \notin executed
    BY <2>3, ExecuteShape DEF ImmobilizerInv, OneCommandEach
  <2>5. answers' = 0 \/ (answers' = 1 /\ AnsweredTo(h)')
    <3>1. CASE answers' = answers + 1
      <4>1. h \in answered' /\ answers' = 1
        BY <2>1, <2>3, <3>1, ExecuteShape
      <4>2. executed' = executed \/ out' = [out EXCEPT ![Command(h).dout] = Command(h).level]
        BY <2>3, ExecuteShape
      <4>3. h \in executed' => Obeyed(h)'
        BY <2>3, <2>4, <4>2, ImmobilizerTypes DEF Obeyed
      <4> QED
        BY <4>1, <4>3 DEF AnsweredTo
    <3>2. CASE answers' = answers
      BY <2>1, <3>2
    <3> QED
      BY <3>1, <3>2, ExecuteShape
  <2> QED
    BY <1>1, <1>2, <1>4, <2>2, <2>5 DEF AloneIsUndisturbed
<1>5. CASE step[h] # "wait"
    BY <1>1, <1>2, <1>3, <1>5 DEF AloneIsUndisturbed
<1> QED
    BY <1>4, <1>5

\* Answers, timeouts and closed connections tell only the request that waits.
LEMMA OutcomeDisturbsNone ==
    ASSUME ImmobilizerInv, \A h \in Request : AloneIsUndisturbed(h),
           Answer \/ LinkLost \/ \E g \in Request : TimesOut(g)
    PROVE  \A h \in Request : AloneIsUndisturbed(h)'
<1> SUFFICES ASSUME NEW h \in Request, h \in alone', step'[h] \notin {"new", "over"}
             PROVE  AloneIsUndisturbed(h)'
    BY DEF AloneIsUndisturbed
<1>1. /\ UNCHANGED row /\ UNCHANGED op /\ UNCHANGED cfg /\ UNCHANGED alone
      /\ UNCHANGED out /\ UNCHANGED executed /\ UNCHANGED answered
    BY DEF Answer, LinkLost, TimesOut, relayVars, history
<1>2. \A k \in Request : \/ step'[k] = step[k]
                         \/ step[k] = "wait" /\ step'[k] \in {"logOk", "logFailed"}
    BY AnswerShape, TimeoutShape, ImmobilizerTypes DEF LinkLost
<1>3. InFlight = {h} /\ InFlight' = {h}
  <2>1. step[h] \notin {"new", "over"}
    BY <1>2
  <2>2. InFlight = {h}
    BY <1>1, <2>1 DEF AloneIsUndisturbed
  <2> QED
    BY <1>2, <2>2 DEF InFlight
<1>4. Quiet => FALSE
  <2>1. Answer \/ LinkLost => ~Quiet
    BY DEF Answer, LinkLost, Quiet
  <2>2. \A g \in Request : TimesOut(g) => ~Quiet
    BY DEF TimesOut, Quiet
  <2> QED
    BY <2>1, <2>2
<1>5. CASE step[h] # "wait"
    BY <1>1, <1>2, <1>3, <1>4, <1>5 DEF AloneIsUndisturbed
<1>6. CASE step[h] = "wait"
  <2>1. /\ waiting = <<h>>
        /\ \/ wire = <<Command(h)>> /\ answers = 0
           \/ wire = <<>> /\ answers = 0
           \/ wire = <<>> /\ answers = 1 /\ AnsweredTo(h)
    BY <1>1, <1>6 DEF AloneIsUndisturbed
  <2>2. CASE Answer
    <3>1. wire = <<>> /\ answers = 1 /\ AnsweredTo(h) /\ waiting = <<h>>
      BY <2>1, <2>2 DEF Answer
    <3>2. wire' = <<>> /\ answers' = 0 /\ waiting' = <<>>
      BY <2>2, <3>1 DEF Answer
    <3>3. step'[h] = "logOk"
      BY <1>6, <2>2, <3>1, AnswerShape
    <3>4. AnsweredTo(h)' /\ Quiet'
      BY <1>1, <3>1, <3>2 DEF AnsweredTo, Obeyed, Command, Quiet
    <3> QED
      BY <1>1, <1>3, <1>6, <3>3, <3>4 DEF AloneIsUndisturbed
  <2>3. CASE LinkLost
    <3>1. step'[h] = "logFailed"
      BY <1>6, <2>3 DEF LinkLost
    <3> QED
      BY <1>1, <1>3, <1>6, <3>1 DEF AloneIsUndisturbed
  <2>4. ASSUME NEW g \in Request, TimesOut(g) PROVE AloneIsUndisturbed(h)'
    <3>1. g = h
      BY <2>1, <2>4, TimeoutShape DEF Awaited
    <3>2. step'[h] = "logFailed"
      BY <1>6, <2>4, <3>1, TimeoutShape
    <3> QED
      BY <1>1, <1>3, <1>6, <3>2 DEF AloneIsUndisturbed
  <2> QED
    BY <2>2, <2>3, <2>4
<1> QED
    BY <1>5, <1>6

\* The step that completes a lone request leaves a true row.
LEMMA CompletionIsTrue ==
    ASSUME ImmobilizerInv, \A h \in Request : AloneIsUndisturbed(h),
           NEW g \in Request, DeskStep(g)
    PROVE  LoneActuationIsTrue'
<1> SUFFICES ASSUME done' \in alone', op'[done'] # "configure" PROVE LoneActuationIsTrue'
    BY DEF LoneActuationIsTrue
<1>1. /\ UNCHANGED op /\ UNCHANGED alone /\ UNCHANGED out /\ UNCHANGED cfg
      /\ UNCHANGED executed /\ UNCHANGED answered
    BY DeskShape
<1>2. None \notin alone
    BY ImmobilizerTypes
<1>3. Patch(g)
  <2>1. LogConfig(g) \/ Patch(g)
    BY <1>1, <1>2 DEF DeskStep, Upsert, CheckSpeed, NotConnected, CallFails,
                      LogOk, LogOkRejected, LogFailed, Abort
  <2>2. LogConfig(g) => done' = g /\ op[g] = "configure"
    BY DEF LogConfig, ImmobilizerInv, StepShape
  <2> QED
    BY <1>1, <2>1, <2>2
<1>4. step[g] = "patch" /\ done' = g /\ row' = Patched(g)
    BY <1>3 DEF Patch
<1>5. g \in alone /\ op[g] # "configure"
    BY <1>1, <1>4
<1>6. g \in answered /\ (g \in executed => Obeyed(g)) /\ cfg[g] = row
    BY <1>4, <1>5 DEF AloneIsUndisturbed, AnsweredTo
<1>7. row \in Row
    BY <1>4, <1>6, CommandShape
<1>8. g \in executed =>
         out[row.wiring.dout] = levelFor(op[g] = "immobilize", row.wiring.activeHigh)
    BY <1>4, <1>6, CommandShape DEF Obeyed
<1>9. /\ row'.wiring = row.wiring
      /\ op[g] # "test" => row'.immobilized = (op[g] = "immobilize")
    BY <1>4, <1>7 DEF Patched, Row
<1>10. row.wiring.activeHigh \in BOOLEAN
    BY <1>7 DEF Row, Wiring
<1>11. g \in executed =>
           (out[row.wiring.dout] = (IF row.wiring.activeHigh THEN 1 ELSE 0)
               <=> op[g] = "immobilize")
    BY <1>8, <1>10 DEF levelFor
<1>12. g \in executed => (Cut(row.wiring)' <=> op[g] = "immobilize")
    BY <1>1, <1>9, <1>11 DEF Cut
<1>13. g \in executed /\ op[g] # "test" => row'.immobilized = Cut(row.wiring)'
  <2>1. Cut(row.wiring)' \in BOOLEAN
    BY DEF Cut
  <2> QED
    BY <1>9, <1>12, <2>1
<1> QED
    BY <1>1, <1>4, <1>6, <1>12, <1>13 DEF LoneActuationIsTrue

\* Steps that write neither rows nor requests leave tests and configures apart.
LEMMA ApartKeeps ==
    ASSUME ImmobilizerInv, TestsAreApart, TestedIsWiring,
           UNCHANGED row, UNCHANGED op, UNCHANGED cfg, UNCHANGED crossed,
           InFlight' \subseteq InFlight,
           \A g \in Request : step'[g] = "upsert" => step[g] = "upsert"
    PROVE  TestsAreApart' /\ TestedIsWiring'
    BY DEF TestsAreApart, TestedIsWiring

\* A request works on the row it has read.
LEMMA DeskKeepsApart ==
    ASSUME ImmobilizerInv, TestsAreApart, TestedIsWiring,
           NEW g \in Request, DeskStep(g)
    PROVE  TestsAreApart' /\ TestedIsWiring'
<1>1. /\ UNCHANGED op /\ UNCHANGED cfg /\ UNCHANGED crossed
      /\ g \in InFlight /\ InFlight' \subseteq InFlight
      /\ \A h \in Request : step'[h] = "upsert" => step[h] = "upsert"
    BY DeskShape DEF InFlight
<1>2. CASE UNCHANGED row
    BY <1>1, <1>2, ApartKeeps
<1>3. CASE Upsert(g)
  <2>1. step[g] = "upsert" /\ row' = cfg[g] /\ op[g] = "configure"
    BY <1>3 DEF Upsert, ImmobilizerInv, StepShape
  <2>2. ~crossed => \A h \in InFlight : op[h] # "test"
    BY <1>1, <2>1 DEF TestsAreApart
  <2>3. TestsAreApart'
    BY <1>1, <2>2 DEF TestsAreApart
  <2>4. TestedIsWiring'
    BY <1>1, <2>1 DEF TestsAreApart, TestedIsWiring
  <2> QED
    BY <2>3, <2>4
<1>4. CASE Patch(g)
  <2>1. step[g] = "patch" /\ row' = Patched(g)
    BY <1>4 DEF Patch
  <2>2. row \in Row
    BY <2>1, ImmobilizerTypes DEF ImmobilizerInv, StepShape
  <2>3. /\ row'.wiring = row.wiring
        /\ row'.tested = IF op[g] = "test" THEN cfg[g].wiring ELSE row.tested
    BY <2>1, <2>2 DEF Patched, Row
  <2>4. TestsAreApart'
    BY <1>1, <2>3 DEF TestsAreApart
  <2>5. ~crossed /\ op[g] = "test" => cfg[g].wiring = row.wiring
    BY <1>1 DEF TestsAreApart
  <2>6. row # None
    BY <2>2, ImmobilizerTypes
  <2>7. ~crossed /\ row.tested # None => row.tested = row.wiring
    BY <2>6 DEF TestedIsWiring
  <2>8. TestedIsWiring'
    BY <1>1, <2>3, <2>5, <2>7 DEF TestedIsWiring
  <2> QED
    BY <2>4, <2>8
<1> QED
    BY <1>2, <1>3, <1>4 DEF DeskStep, LogConfig, CheckSpeed, NotConnected, CallFails,
       LogOk, LogOkRejected, LogFailed, Abort

\* A request that begins reads the row of its moment.
LEMMA BeginKeepsApart ==
    ASSUME ImmobilizerInv, TestsAreApart, TestedIsWiring, NEW g \in Request, NEW o \in Op,
           NEW s \in {"upsert", "speed", "send"}, NEW c \in Row, Begin(g, o, s, c),
           s = "upsert" <=> o = "configure",
           o # "configure" => c = row,
           o = "configure" /\ c.tested # None =>
               row # None /\ row.tested = c.tested /\ row.wiring = c.wiring
    PROVE  TestsAreApart' /\ TestedIsWiring'
<1>1. /\ step[g] = "new" /\ Goto(g, s) /\ op' = [op EXCEPT ![g] = o]
      /\ cfg' = [cfg EXCEPT ![g] = c] /\ UNCHANGED row
      /\ crossed' = (crossed \/ \E h \in InFlight : {op[h], o} = {"configure", "test"})
    BY DEF Begin
<1>2. s \in Step
    BY DEF Step
<1>3. /\ op'[g] = o /\ cfg'[g] = c /\ step'[g] = s
      /\ \A h \in Request : h # g =>
            step'[h] = step[h] /\ op'[h] = op[h] /\ cfg'[h] = cfg[h]
    BY <1>1, <1>2, ImmobilizerTypes DEF Goto
<1>4. g \notin InFlight /\ InFlight' = InFlight \cup {g}
    BY <1>1, <1>3 DEF InFlight
<1>5. ASSUME ~crossed' PROVE TestsAreApart' /\ TestedIsWiring'
  <2>1. ~crossed /\ \A h \in InFlight : {op[h], o} # {"configure", "test"}
    BY <1>1, <1>5
  <2>2. row # None /\ row.tested # None => row.tested = row.wiring
    BY <2>1 DEF TestedIsWiring
  <2>3. TestedIsWiring'
    BY <1>1, <2>2 DEF TestedIsWiring
  <2>4. \A h \in Request : step'[h] = "upsert" /\ cfg'[h].tested # None =>
           cfg'[h].tested = cfg'[h].wiring
    <3>1. s = "upsert" /\ c.tested # None => c.tested = c.wiring
      BY <2>2
    <3>2. \A h \in Request : step[h] = "upsert" /\ cfg[h].tested # None =>
             cfg[h].tested = cfg[h].wiring
      BY <2>1 DEF TestsAreApart
    <3> QED
      BY <1>3, <3>1, <3>2
  <2>5. \A h \in InFlight' : op'[h] = "test" => cfg'[h].wiring = row'.wiring
    <3>1. o = "test" => c.wiring = row.wiring
      OBVIOUS
    <3>2. \A h \in InFlight : op[h] = "test" => cfg[h].wiring = row.wiring
      BY <2>1 DEF TestsAreApart
    <3> QED
      BY <1>1, <1>3, <1>4, <3>1, <3>2 DEF InFlight
  <2>6. \A h, k \in InFlight' : op'[h] = "configure" => op'[k] # "test"
    <3>1. \A h, k \in InFlight : op[h] = "configure" => op[k] # "test"
      BY <2>1 DEF TestsAreApart
    <3>2. \A h \in InFlight : /\ ~(op[h] = "configure" /\ o = "test")
                              /\ ~(op[h] = "test" /\ o = "configure")
      BY <2>1
    <3>3. \A h \in InFlight : op'[h] = op[h]
      BY <1>3, <1>4 DEF InFlight
    <3> QED
      BY <1>3, <1>4, <3>1, <3>2, <3>3
  <2> QED
    BY <2>3, <2>4, <2>5, <2>6 DEF TestsAreApart
<1> QED
    BY <1>5 DEF TestsAreApart, TestedIsWiring

\* Who was told of a success, and what an entry in the log takes.
LEMMA TalesAreOfRequests ==
    ASSUME ImmobilizerInv
    PROVE  /\ Told \subseteq Request /\ Unlogged \subseteq Request
           /\ Cardinality(Told) \in Nat /\ Cardinality(Unlogged) \in Nat
           /\ Cardinality(answered) \in Nat /\ answers \in Nat /\ faults \in Nat
<1>1. Told \subseteq Request /\ Unlogged \subseteq Request /\ answered \subseteq Request
    BY ImmobilizerTypes DEF Told, Unlogged
<1>2. answers \in Nat /\ faults \in Nat
    BY ImmobilizerTypes
<1> QED
    BY <1>1, <1>2, RequestsCount

\* How many of the awaited requests have their command taken.
LEMMA TakenInTurn ==
    ASSUME ImmobilizerInv, InTurn
    PROVE  \E m \in Nat, n \in Nat, a \in Nat :
              /\ m = Len(wire) /\ n = Len(waiting) /\ n = a + m /\ answers <= a
              /\ \A i \in 1..a : waiting[i] \in Taken
              /\ \A i \in DOMAIN wire : waiting[a + i] = wire[i].req
<1>1. Len(wire) \in Nat /\ Len(waiting) \in Nat /\ answers \in Nat
    BY ImmobilizerTypes, TalesAreOfRequests
<1>2. PICK a : a = Len(waiting) - Len(wire)
    OBVIOUS
<1>3. /\ answers <= a /\ \A i \in 1..a : waiting[i] \in Taken
      /\ \A i \in DOMAIN wire : waiting[a + i] = wire[i].req
    BY <1>2 DEF InTurn
<1>4. a \in Nat /\ Len(waiting) = a + Len(wire)
    BY <1>1, <1>2, <1>3
<1> QED
    BY <1>1, <1>3, <1>4

\* Nobody new is told of a success.
LEMMA SameTales ==
    ASSUME ImmobilizerInv, AnswersFit, AnswersAreEarned,
           Told' \subseteq Told, UNCHANGED answered, UNCHANGED ignored, UNCHANGED answers,
           UNCHANGED wire, UNCHANGED waiting, UNCHANGED late
    PROVE  AnswersFit' /\ AnswersAreEarned'
<1>1. AnswersFit'
  <2>0. PICK T : T = Told'
    OBVIOUS
  <2>1. PICK n \in Nat, m \in Nat, a \in Nat :
           /\ T = Told' /\ n = Cardinality(Told) /\ m = Cardinality(answered) /\ a = answers
    BY <2>0, TalesAreOfRequests
  <2>2. Cardinality(T) <= n /\ Cardinality(T) \in Nat
    BY <2>1, TalesAreOfRequests, RequestsCount
  <2>3. n + a <= m
    BY <2>1 DEF AnswersFit
  <2>4. Cardinality(T) + a <= m
    BY <2>1, <2>2, <2>3
  <2> QED
    BY <2>1, <2>4 DEF AnswersFit
<1>2. AnswersAreEarned'
    BY DEF AnswersAreEarned, InTurn, Taken
<1> QED
    BY <1>1, <1>2

\* No command is left without a word, but for a fault.
LEMMA SameSilence ==
    ASSUME ImmobilizerInv, FewUnlogged, faults' \in Nat,
           \/ Unlogged' \subseteq Unlogged /\ faults' >= faults
           \/ /\ faults' = faults + 1
              /\ \E g \in Request : Unlogged' \subseteq Unlogged \cup {g}
    PROVE  FewUnlogged'
<1>0. PICK U, V : U = Unlogged /\ V = Unlogged'
    OBVIOUS
<1>1. PICK n \in Nat, f \in Nat :
         n = Cardinality(Unlogged) /\ f = faults /\ U = Unlogged /\ V = Unlogged'
    BY <1>0, TalesAreOfRequests
<1>2. n <= f
    BY <1>1 DEF FewUnlogged
<1>3. CASE V \subseteq U /\ faults' >= f
  <2>1. Cardinality(V) \in Nat /\ Cardinality(V) <= n
    BY <1>1, <1>3, TalesAreOfRequests, RequestsCount
  <2>2. Cardinality(V) <= faults'
    BY <1>2, <1>3, <2>1
  <2> QED
    BY <1>1, <2>2 DEF FewUnlogged
<1>4. ASSUME NEW g \in Request, V \subseteq U \cup {g}, faults' = f + 1 PROVE FewUnlogged'
  <2>1. PICK W : W = U \cup {g}
    OBVIOUS
  <2>2. W \subseteq Request /\ IsFiniteSet(U)
    BY <1>1, <2>1, TalesAreOfRequests, RequestsCount
  <2>3. Cardinality(W) \in Nat /\ Cardinality(V) \in Nat /\ Cardinality(V) <= Cardinality(W)
    BY <1>4, <2>1, <2>2, RequestsCount
  <2>4. Cardinality(W) <= n + 1
    BY <1>1, <2>1, <2>2, FS_AddElement
  <2>5. Cardinality(V) <= faults'
    BY <1>2, <1>4, <2>3, <2>4
  <2> QED
    BY <1>1, <2>5 DEF FewUnlogged
<1> QED
    BY <1>1, <1>3, <1>4

\* What a step at the desk writes to the log.
LEMMA DeskWrites ==
    ASSUME ImmobilizerInv, NEW g \in Request, DeskStep(g)
    PROVE  /\ events \subseteq events'
           /\ \A e \in events' : e \in events \/ e.req = g
           /\ \A e \in events' : e.ok => e \in events \/ op[g] = "configure" \/ step[g] = "logOk"
           /\ step'[g] # "logOk"
           /\ step'[g] = "over" => \/ Abort(g)
                                   \/ step[g] = "speed"
                                   \/ \E e \in events' : e.req = g
<1>1. CASE LogConfig(g) \/ LogOk(g) \/ LogFailed(g)
  <2>1. PICK b \in BOOLEAN :
           /\ events' = events \cup {[req |-> g, ok |-> b]}
           /\ b => op[g] = "configure" \/ step[g] = "logOk"
    BY <1>1 DEF LogConfig, LogOk, LogFailed, ImmobilizerInv, StepShape
  <2>2. PICK e : e = [req |-> g, ok |-> b]
    OBVIOUS
  <2>3. e.req = g /\ (e.ok => b) /\ events' = events \cup {e}
    BY <2>1, <2>2
  <2>4. step'[g] # "logOk"
    BY DeskShape
  <2> QED
    BY <2>1, <2>3, <2>4
<1>2. CASE Upsert(g) \/ Patch(g) \/ CheckSpeed(g) \/ NotConnected(g) \/ CallFails(g)
           \/ LogOkRejected(g) \/ Abort(g)
  <2>1. UNCHANGED events
    BY <1>2 DEF Upsert, Patch, CheckSpeed, NotConnected, CallFails, LogOkRejected, Abort
  <2>2. step'[g] # "logOk"
    BY DeskShape
  <2>3. Patch(g) => \E e \in events : e.req = g
    BY DEF Patch, ImmobilizerInv, StepShape
  <2>4. CheckSpeed(g) => step[g] = "speed"
    BY DEF CheckSpeed
  <2>5. Upsert(g) \/ NotConnected(g) \/ CallFails(g) \/ LogOkRejected(g) => step'[g] # "over"
    <3>1. {"logConfig", "logFailed"} \subseteq Step
      BY DEF Step
    <3>2. ASSUME NEW s \in {"logConfig", "logFailed"}, Goto(g, s) PROVE step'[g] # "over"
      BY <3>1, <3>2, GoneTo
    <3> QED
      BY <3>2 DEF Upsert, NotConnected, CallFails, LogOkRejected
  <2> QED
    BY <1>2, <2>1, <2>2, <2>3, <2>4, <2>5
<1> QED
    BY <1>1, <1>2 DEF DeskStep

\* Nobody is told of a success at the desk, and the log keeps up.
LEMMA DeskKeepsBooks ==
    ASSUME ImmobilizerInv, AnswersFit, AnswersAreEarned, FewUnlogged,
           NEW g \in Request, DeskStep(g)
    PROVE  AnswersFit' /\ AnswersAreEarned' /\ FewUnlogged'
<1>1. /\ UNCHANGED op /\ UNCHANGED wire /\ UNCHANGED waiting /\ UNCHANGED answers
      /\ UNCHANGED executed /\ UNCHANGED answered /\ UNCHANGED ignored /\ UNCHANGED late
      /\ \A h \in Request : h # g => step'[h] = step[h]
    BY DeskShape
<1>2. Told' \subseteq Told
  <2> SUFFICES ASSUME NEW h \in Request, h \in Told' PROVE h \in Told
    BY DEF Told
  <2>1. op[h] # "configure"
    BY <1>1 DEF Told
  <2>2. CASE step'[h] = "logOk"
    BY <1>1, <2>1, <2>2, DeskWrites DEF Told
  <2>3. CASE \E e \in events' : e.ok /\ e.req = h
    <3>1. PICK e \in events' : e.ok /\ e.req = h
      BY <2>3
    <3>2. e \in events \/ h = g
      BY <3>1, DeskWrites
    <3>3. h = g => e \in events \/ step[h] = "logOk"
      BY <2>1, <3>1, DeskWrites
    <3> QED
      BY <2>1, <3>1, <3>2, <3>3 DEF Told
  <2> QED
    BY <2>2, <2>3 DEF Told
<1>3. AnswersFit' /\ AnswersAreEarned'
    BY <1>1, <1>2, SameTales
<1>4. FewUnlogged'
  <2>1. \A h \in Request : OnWire(h)' <=> OnWire(h)
    BY <1>1 DEF OnWire
  <2>2. \A h \in Request : h \in Unlogged' => h \in Unlogged \/ h = g
    BY <1>1, <2>1, DeskWrites DEF Unlogged
  <2>3. CASE Abort(g)
    <3>1. faults' = faults + 1 /\ faults' \in Nat
      BY <2>3, FaultCounts, ImmobilizerTypes DEF Abort
    <3>2. Unlogged' \subseteq Unlogged \cup {g}
      BY <2>2 DEF Unlogged
    <3> QED
      BY <3>1, <3>2, SameSilence
  <2>4. CASE ~Abort(g)
    <3>1. faults' \in Nat /\ faults' >= faults
      <4>1. UNCHANGED faults \/ (Fault /\ faults' = faults + 1)
        BY <2>4 DEF DeskStep, Upsert, LogConfig, CheckSpeed, NotConnected, CallFails,
           LogOk, LogOkRejected, LogFailed, Patch, Fault
      <4>2. faults \in Nat
        BY TalesAreOfRequests
      <4> QED
        BY <4>1, <4>2
    <3>2. g \notin Unlogged'
      <4>1. step[g] = "speed" => g \notin executed /\ ~OnWire(g)
        BY DEF ImmobilizerInv, StepShape, Sent, OneCommandEach
      <4> QED
        BY <1>1, <2>1, <2>4, <4>1, DeskWrites DEF Unlogged
    <3>3. Unlogged' \subseteq Unlogged
      BY <2>2, <3>2 DEF Unlogged
    <3> QED
      BY <3>1, <3>3, SameSilence
  <2> QED
    BY <2>3, <2>4
<1> QED
    BY <1>3, <1>4

\* A request that begins has no command and no entry in the log yet.
LEMMA BeginKeepsBooks ==
    ASSUME ImmobilizerInv, AnswersFit, AnswersAreEarned, FewUnlogged, NEW g \in Request,
           NEW o \in Op, NEW s \in {"upsert", "speed", "send"}, NEW c \in Row,
           Begin(g, o, s, c)
    PROVE  AnswersFit' /\ AnswersAreEarned' /\ FewUnlogged'
<1>1. /\ step[g] = "new" /\ Goto(g, s) /\ op' = [op EXCEPT ![g] = o]
      /\ UNCHANGED events /\ UNCHANGED wire /\ UNCHANGED waiting /\ UNCHANGED answers
      /\ UNCHANGED executed /\ UNCHANGED answered /\ UNCHANGED ignored /\ UNCHANGED late /\ UNCHANGED faults
    BY DEF Begin, wireVars, relayVars
<1>2. s \in Step
    BY DEF Step
<1>3. /\ step'[g] = s
      /\ \A h \in Request : h # g => step'[h] = step[h] /\ op'[h] = op[h]
    BY <1>1, <1>2, ImmobilizerTypes DEF Goto
<1>4. ~\E e \in events : e.req = g
    BY <1>1 DEF ImmobilizerInv, StepShape
<1>5. Told' \subseteq Told
    BY <1>1, <1>3, <1>4 DEF Told
<1>6. Unlogged' \subseteq Unlogged
    BY <1>1, <1>3 DEF Unlogged, OnWire
<1>7. faults' \in Nat /\ faults' >= faults
    BY <1>1, TalesAreOfRequests
<1> QED
    BY <1>1, <1>5, <1>6, <1>7, SameTales, SameSilence

\* A command goes to the end of the line, as the request that awaits it does.
LEMMA SendKeepsBooks ==
    ASSUME ImmobilizerInv, AnswersFit, AnswersAreEarned, FewUnlogged, NEW g \in Request,
           SendCommand(g)
    PROVE  AnswersFit' /\ AnswersAreEarned' /\ FewUnlogged'
<1>1. /\ UNCHANGED op /\ UNCHANGED events /\ UNCHANGED answers
      /\ UNCHANGED executed /\ UNCHANGED answered /\ UNCHANGED ignored /\ UNCHANGED late /\ UNCHANGED faults /\ step'[g] = "wait"
      /\ \A h \in Request : h # g => step'[h] = step[h]
    BY SendShape DEF relayVars, history
<1>2. Told' \subseteq Told
    BY <1>1 DEF Told
<1>3. AnswersFit'
  <2>0. PICK T : T = Told'
    OBVIOUS
  <2>1. PICK n \in Nat, m \in Nat, a \in Nat :
           /\ T = Told' /\ n = Cardinality(Told) /\ m = Cardinality(answered) /\ a = answers
    BY <2>0, TalesAreOfRequests
  <2>2. Cardinality(T) <= n /\ Cardinality(T) \in Nat
    BY <1>2, <2>1, TalesAreOfRequests, RequestsCount
  <2>3. Cardinality(T) + a <= m
    BY <2>1, <2>2 DEF AnswersFit
  <2> QED
    BY <1>1, <2>1, <2>3 DEF AnswersFit
<1>4. AnswersAreEarned'
  <2>0. Taken \subseteq Taken'
    BY <1>1 DEF Taken
  <2>1. \A h \in Told' : h \in Taken' \/ late' \ {h} # {}
    BY <1>1, <1>2, <2>0 DEF AnswersAreEarned
  <2>2. ASSUME late' = {} PROVE InTurn'
    <3>1. InTurn
      BY <1>1, <2>2 DEF AnswersAreEarned
    <3>2. PICK m \in Nat, n \in Nat, a \in Nat :
             /\ m = Len(wire) /\ n = Len(waiting) /\ n = a + m /\ answers <= a
             /\ \A i \in 1..a : waiting[i] \in Taken
             /\ \A i \in DOMAIN wire : waiting[a + i] = wire[i].req
      BY <3>1, TakenInTurn
    <3>3. /\ DOMAIN wire' = 1..(m + 1) /\ DOMAIN waiting' = 1..(n + 1)
          /\ DOMAIN wire = 1..m /\ DOMAIN waiting = 1..n
          /\ wire'[m + 1].req = g /\ waiting'[n + 1] = g
          /\ \A i \in 1..m : wire'[i] = wire[i]
          /\ \A i \in 1..n : waiting'[i] = waiting[i]
      <4>1. DOMAIN wire = 1..m /\ DOMAIN waiting = 1..n
        BY <3>2, ImmobilizerTypes
      <4>2. /\ DOMAIN wire' = 1..(m + 1) /\ DOMAIN waiting' = 1..(n + 1)
            /\ wire'[m + 1] = Command(g) /\ waiting'[n + 1] = g
        BY <3>2, SendShape
      <4>3. step[g] = "send" /\ Command(g).req = g
        BY SendShape, CommandShape
      <4>4. /\ \A i \in DOMAIN wire : wire'[i] = wire[i]
            /\ \A i \in DOMAIN waiting : waiting'[i] = waiting[i]
        BY SendShape
      <4> QED
        BY <4>1, <4>2, <4>3, <4>4
    <3>4. Len(wire') = m + 1 /\ Len(waiting') = n + 1
      <4>1. PICK C, w, v : /\ C = [req : Request, dout : Douts, level : Level]
                           /\ w = wire' /\ v = waiting'
        OBVIOUS
      <4>2. w \in Seq(C) /\ v \in Seq(Request) /\ DOMAIN w = 1..(m + 1) /\ DOMAIN v = 1..(n + 1)
        BY <3>3, <4>1, SendShape
      <4>3. Len(w) = m + 1 /\ Len(v) = n + 1
        BY <4>2
      <4> QED
        BY <4>1, <4>3
    <3>6. \A i \in 1..a : waiting'[i] \in Taken'
      BY <2>0, <3>2, <3>3
    <3>7. \A i \in 1..(m + 1) : waiting'[a + i] = wire'[i].req
      <4> SUFFICES ASSUME NEW i \in 1..(m + 1) PROVE waiting'[a + i] = wire'[i].req
        OBVIOUS
      <4>1. CASE i \in 1..m
        <5>1. a + i \in 1..n
          BY <3>2, <4>1
        <5> QED
          BY <3>2, <3>3, <4>1, <5>1
      <4>2. CASE i = m + 1
        <5>1. a + i = n + 1
          BY <3>2, <4>2
        <5> QED
          BY <3>3, <4>2, <5>1
      <4> QED
        BY <4>1, <4>2
    <3>8. Len(waiting') - Len(wire') = a /\ answers' <= a
      BY <1>1, <3>2, <3>4
    <3> QED
      BY <3>3, <3>6, <3>7, <3>8 DEF InTurn
  <2> QED
    BY <2>1, <2>2 DEF AnswersAreEarned
<1>5. FewUnlogged'
  <2>1. wire'[Len(wire) + 1].req = g
    BY SendShape, CommandShape
  <2>2. \A h \in Request : h # g => (OnWire(h)' => OnWire(h))
    BY <2>1, SendShape DEF OnWire
  <2>3. Unlogged' \subseteq Unlogged
    BY <1>1, <2>2 DEF Unlogged
  <2>4. faults' \in Nat /\ faults' >= faults
    BY <1>1, TalesAreOfRequests
  <2> QED
    BY <2>3, <2>4, SameSilence
<1> QED
    BY <1>3, <1>4, <1>5

\* A command taken is one more answer at most, for the request it is of.
LEMMA ExecuteKeepsBooks ==
    ASSUME ImmobilizerInv, AnswersFit, AnswersAreEarned, FewUnlogged, Execute
    PROVE  AnswersFit' /\ AnswersAreEarned' /\ FewUnlogged'
<1>1. /\ UNCHANGED op /\ UNCHANGED events /\ UNCHANGED step /\ UNCHANGED waiting
      /\ UNCHANGED late /\ UNCHANGED faults
    BY ExecuteShape DEF history, reqVars
<1>2. Told' = Told
    BY <1>1 DEF Told
<1>3. AnswersFit'
  <2>1. PICK n \in Nat, m \in Nat, a \in Nat :
           n = Cardinality(Told) /\ m = Cardinality(answered) /\ a = answers
    BY TalesAreOfRequests
  <2>2. n + a <= m
    BY <2>1 DEF AnswersFit
  <2>3. Cardinality(Told') = n
    BY <1>2, <2>1
  <2>4. \/ Cardinality(answered') = m + 1 /\ answers' = a + 1
        \/ Cardinality(answered') = m /\ answers' = a
    BY <2>1, ExecuteKeeps
  <2>5. n + answers' <= Cardinality(answered')
    BY <2>2, <2>4
  <2> QED
    BY <2>3, <2>5 DEF AnswersFit
<1>4. AnswersAreEarned'
  <2>0. Taken' = Taken \cup {wire[1].req}
    BY ExecuteShape DEF Taken
  <2>1. \A h \in Told' : h \in Taken' \/ late' \ {h} # {}
    BY <1>1, <1>2, <2>0 DEF AnswersAreEarned
  <2>2. ASSUME late' = {} PROVE InTurn'
    <3>1. InTurn
      BY <1>1, <2>2 DEF AnswersAreEarned
    <3>2. PICK m \in Nat, n \in Nat, a \in Nat :
             /\ m = Len(wire) /\ n = Len(waiting) /\ n = a + m /\ answers <= a
             /\ \A i \in 1..a : waiting[i] \in Taken
             /\ \A i \in DOMAIN wire : waiting[a + i] = wire[i].req
      BY <3>1, TakenInTurn
    <3>3. m > 0 /\ Len(wire') = m - 1 /\ DOMAIN wire' = 1..(m - 1) /\ DOMAIN wire = 1..m
      BY <3>2, ExecuteShape, ImmobilizerTypes
    <3>4. \A i \in 1..(m - 1) : wire'[i] = wire[i + 1]
      BY <3>3, ExecuteShape
    <3>5. n - (m - 1) = a + 1 /\ answers' <= a + 1
      <4>1. answers \in Nat /\ answers' \in {answers, answers + 1}
        BY ExecuteShape, TalesAreOfRequests
      <4> QED
        BY <3>2, <4>1
    <3>6. waiting[a + 1] = wire[1].req
      BY <3>2, <3>3
    <3>7. \A i \in 1..(a + 1) : waiting[i] \in Taken'
      BY <2>0, <3>2, <3>6
    <3>8. \A i \in 1..(m - 1) : waiting[(a + 1) + i] = wire'[i].req
      <4> SUFFICES ASSUME NEW i \in 1..(m - 1) PROVE waiting[(a + 1) + i] = wire'[i].req
        OBVIOUS
      <4>1. i + 1 \in 1..m /\ (a + 1) + i = a + (i + 1)
        OBVIOUS
      <4>2. waiting[a + (i + 1)] = wire[i + 1].req
        BY <3>2, <3>3, <4>1
      <4> QED
        BY <3>4, <4>1, <4>2
    <3>9. Len(waiting') - Len(wire') = a + 1 /\ waiting' = waiting
      BY <1>1, <3>2, <3>3, <3>5
    <3> QED
      BY <3>3, <3>5, <3>7, <3>8, <3>9 DEF InTurn
  <2> QED
    BY <2>1, <2>2 DEF AnswersAreEarned
<1>5. FewUnlogged'
  <2>1. \A h \in Request : h \in executed' \/ OnWire(h)' => h \in executed \/ OnWire(h)
    BY ExecuteShape DEF OnWire
  <2>2. Unlogged' \subseteq Unlogged
    BY <1>1, <2>1 DEF Unlogged
  <2>3. faults' \in Nat /\ faults' >= faults
    BY <1>1, TalesAreOfRequests
  <2> QED
    BY <2>2, <2>3, SameSilence
<1> QED
    BY <1>3, <1>4, <1>5

\* An answer becomes one success more at most, of the oldest that waits.
LEMMA AnswerKeepsBooks ==
    ASSUME ImmobilizerInv, AnswersFit, AnswersAreEarned, FewUnlogged, Answer
    PROVE  AnswersFit' /\ AnswersAreEarned' /\ FewUnlogged'
<1>1. /\ UNCHANGED op /\ UNCHANGED events /\ UNCHANGED wire
      /\ UNCHANGED executed /\ UNCHANGED answered /\ UNCHANGED ignored /\ UNCHANGED late /\ UNCHANGED faults
      /\ answers \in Nat /\ answers > 0 /\ answers' = answers - 1
    BY AnswerShape DEF relayVars, history
<1>2. ASSUME waiting = <<>>, UNCHANGED waiting, UNCHANGED step
      PROVE  AnswersFit' /\ AnswersAreEarned'
  <2>1. Told' = Told
    BY <1>1, <1>2 DEF Told
  <2>2. AnswersFit'
    <3>1. PICK n \in Nat, m \in Nat, a \in Nat :
             n = Cardinality(Told) /\ m = Cardinality(answered) /\ a = answers
      BY TalesAreOfRequests
    <3>2. n + a <= m /\ a > 0 /\ answers' = a - 1
      BY <1>1, <3>1 DEF AnswersFit
    <3>3. n + (a - 1) <= m
      BY <3>2
    <3> QED
      BY <1>1, <2>1, <3>1, <3>2, <3>3 DEF AnswersFit
  <2>3. AnswersAreEarned'
    <3>1. late # {}
      <4>1. Len(waiting) = 0 /\ Len(wire) \in Nat
        BY <1>2, ImmobilizerTypes
      <4>2. late = {} => answers <= Len(waiting) - Len(wire)
        BY DEF AnswersAreEarned, InTurn
      <4> QED
        BY <1>1, <4>1, <4>2
    <3> QED
      BY <1>1, <2>1, <3>1 DEF AnswersAreEarned, Taken
  <2> QED
    BY <2>2, <2>3
<1>3. ASSUME Len(waiting) > 0, 1 \in DOMAIN waiting, waiting[1] \in Request,
             Len(waiting') = Len(waiting) - 1,
             DOMAIN waiting' = 1..(Len(waiting) - 1),
             \A i \in DOMAIN waiting' : waiting'[i] = waiting[i + 1] /\ i \in Nat,
             \A h \in Request : h # waiting[1] => step'[h] = step[h]
      PROVE  AnswersFit' /\ AnswersAreEarned'
  <2>1. PICK g \in Request : g = waiting[1]
    BY <1>3
  <2>2. Told' \subseteq Told \cup {g}
    BY <1>1, <1>3, <2>1 DEF Told
  <2>3. AnswersFit'
    <3>0. PICK S, T, W : S = Told /\ T = Told' /\ W = S \cup {g}
      OBVIOUS
    <3>1. PICK n \in Nat, m \in Nat, a \in Nat :
             /\ S = Told /\ T = Told' /\ W = S \cup {g}
             /\ n = Cardinality(S) /\ m = Cardinality(answered) /\ a = answers
      BY <3>0, TalesAreOfRequests
    <3>2. n + a <= m /\ a > 0 /\ answers' = a - 1
      BY <1>1, <3>1 DEF AnswersFit
    <3>3. W \subseteq Request /\ T \subseteq W /\ IsFiniteSet(S)
      BY <2>2, <3>1, TalesAreOfRequests, RequestsCount
    <3>4. Cardinality(T) \in Nat /\ Cardinality(W) \in Nat /\ Cardinality(T) <= Cardinality(W)
      BY <3>3, RequestsCount
    <3>5. Cardinality(W) <= n + 1
      <4>1. W = S \cup {g} /\ n = Cardinality(S) /\ IsFiniteSet(S)
        BY <3>1, <3>3
      <4>2. Cardinality(S) \in Nat
        BY ONLY <4>1, FS_CardinalityType
      <4>3. Cardinality(W) = Cardinality(S) \/ Cardinality(W) = Cardinality(S) + 1
        BY ONLY <4>1, FS_AddElement
      <4> QED
        BY ONLY <4>1, <4>2, <4>3
    <3>6. Cardinality(T) + (a - 1) <= m
      BY <3>2, <3>4, <3>5
    <3> QED
      BY <1>1, <3>1, <3>2, <3>6 DEF AnswersFit
  <2>4. AnswersAreEarned'
    <3>1. g \notin late
      BY <1>3, <2>1 DEF ImmobilizerInv, OneCommandEach
    <3>2. CASE late # {}
      <4>1. \A h \in Told : h \in Taken \/ late \ {h} # {}
        BY DEF AnswersAreEarned
      <4>2. late \ {g} # {}
        BY <3>1, <3>2
      <4> QED
        BY <1>1, <2>2, <3>2, <4>1, <4>2 DEF AnswersAreEarned, Taken
    <3>3. CASE late = {}
      <4>1. InTurn /\ \A h \in Told : h \in Taken
        BY <3>3 DEF AnswersAreEarned
      <4>2. PICK m \in Nat, n \in Nat, a \in Nat :
               /\ m = Len(wire) /\ n = Len(waiting) /\ n = a + m /\ answers <= a
               /\ \A i \in 1..a : waiting[i] \in Taken
               /\ \A i \in DOMAIN wire : waiting[a + i] = wire[i].req
        BY <4>1, TakenInTurn
      <4>3. DOMAIN wire = 1..m /\ DOMAIN waiting' = 1..(n - 1) /\ Len(waiting') = n - 1
        BY <1>3, <4>2, ImmobilizerTypes
      <4>4. a > 0 /\ n - 1 = (a - 1) + m /\ answers' <= a - 1
        BY <1>1, <4>2
      <4>5. g \in Taken
        BY <2>1, <4>2, <4>4
      <4>6. \A i \in 1..(a - 1) : waiting'[i] \in Taken
        <5> SUFFICES ASSUME NEW i \in 1..(a - 1) PROVE waiting'[i] \in Taken
          OBVIOUS
        <5>1. i + 1 \in 1..a /\ i \in 1..(n - 1)
          BY <4>4
        <5> QED
          BY <1>3, <4>2, <4>3, <5>1
      <4>7. \A i \in 1..m : waiting'[(a - 1) + i] = wire[i].req
        <5> SUFFICES ASSUME NEW i \in 1..m PROVE waiting'[(a - 1) + i] = wire[i].req
          OBVIOUS
        <5>1. PICK j \in Nat : j = (a - 1) + i
          BY <4>4
        <5>2. j \in 1..(n - 1) /\ j + 1 = a + i
          BY <4>2, <4>4, <5>1
        <5>3. waiting'[j] = waiting[j + 1]
          BY <1>3, <4>3, <5>2
        <5> QED
          BY <4>2, <4>3, <5>1, <5>2, <5>3
      <4>8. InTurn'
        <5>1. Len(waiting') - Len(wire') = a - 1 /\ wire' = wire /\ Taken' = Taken
          BY <1>1, <4>2, <4>3, <4>4 DEF Taken
        <5> QED
          BY <4>3, <4>4, <4>6, <4>7, <5>1 DEF InTurn
      <4>9. \A h \in Told' : h \in Taken' \/ late' \ {h} # {}
        BY <1>1, <2>2, <4>1, <4>5 DEF Taken
      <4> QED
        BY <4>8, <4>9 DEF AnswersAreEarned
    <3> QED
      BY <3>2, <3>3
  <2> QED
    BY <2>3, <2>4
<1>4. FewUnlogged'
  <2>1. \A h \in Request : \/ step'[h] = step[h] \/ step'[h] = "logOk"
    BY AnswerShape
  <2>2. Unlogged' \subseteq Unlogged
    BY <1>1, <2>1 DEF Unlogged, OnWire
  <2>3. faults' \in Nat /\ faults' >= faults
    BY <1>1, TalesAreOfRequests
  <2> QED
    BY <2>2, <2>3, SameSilence
<1>5. \/ waiting = <<>> /\ UNCHANGED waiting /\ UNCHANGED step
      \/ /\ Len(waiting) > 0 /\ 1 \in DOMAIN waiting /\ waiting[1] \in Request
         /\ Len(waiting') = Len(waiting) - 1
         /\ DOMAIN waiting' = 1..(Len(waiting) - 1)
         /\ \A i \in DOMAIN waiting' : waiting'[i] = waiting[i + 1] /\ i \in Nat
         /\ \A h \in Request : h # waiting[1] => step'[h] = step[h]
    BY AnswerShape
<1> QED
    BY <1>2, <1>3, <1>4, <1>5

\* A timeout or a closed connection is no success.
LEMMA FailureKeepsBooks ==
    ASSUME ImmobilizerInv, AnswersFit, AnswersAreEarned, FewUnlogged,
           LinkLost \/ \E g \in Request : TimesOut(g)
    PROVE  AnswersFit' /\ AnswersAreEarned' /\ FewUnlogged'
<1>1. /\ UNCHANGED op /\ UNCHANGED events
      /\ UNCHANGED executed /\ UNCHANGED answered /\ UNCHANGED ignored
      /\ \A h \in Request : \/ step'[h] = step[h]
                            \/ step[h] = "wait" /\ step'[h] = "logFailed"
    BY TimeoutShape, ImmobilizerTypes DEF LinkLost, relayVars
<1>2. Told' \subseteq Told
    BY <1>1 DEF Told
<1>3. answers' \in {0, answers}
      /\ \A h \in Request : OnWire(h)' => OnWire(h)
    BY TimeoutShape DEF LinkLost, OnWire
<1>4. AnswersFit'
  <2>0. PICK T : T = Told'
    OBVIOUS
  <2>1. PICK n \in Nat, m \in Nat, a \in Nat, b \in Nat :
           /\ T = Told' /\ n = Cardinality(Told) /\ m = Cardinality(answered)
           /\ a = answers /\ b = answers'
    BY <1>3, <2>0, TalesAreOfRequests
  <2>2. Cardinality(T) <= n /\ Cardinality(T) \in Nat
    BY <1>2, <2>1, TalesAreOfRequests, RequestsCount
  <2>3. n + a <= m /\ b <= a
    BY <1>3, <2>1 DEF AnswersFit
  <2>4. Cardinality(T) + b <= m
    BY <2>2, <2>3
  <2> QED
    BY <1>1, <2>1, <2>4 DEF AnswersFit
<1>5. AnswersAreEarned'
  <2>1. CASE LinkLost
    <3>1. wire' = <<>> /\ waiting' = <<>> /\ answers' = 0 /\ UNCHANGED late
      BY <2>1 DEF LinkLost
    <3>2. Len(waiting') - Len(wire') = 0 /\ Taken' = Taken
      BY <1>1, <3>1 DEF Taken
    <3>3. InTurn'
      BY <3>1, <3>2 DEF InTurn
    <3> QED
      BY <1>1, <1>2, <3>1, <3>2, <3>3 DEF AnswersAreEarned
  <2>2. ASSUME NEW g \in Request, TimesOut(g) PROVE AnswersAreEarned'
    <3>1. late' = late \cup {g}
      BY <2>2, TimeoutShape
    <3> QED
      BY <1>1, <1>2, <3>1 DEF AnswersAreEarned, Taken
  <2> QED
    BY <2>1, <2>2
<1>6. FewUnlogged'
  <2>1. Unlogged' \subseteq Unlogged
    BY <1>1, <1>3 DEF Unlogged
  <2>2. faults' \in Nat /\ faults' >= faults
    BY TalesAreOfRequests DEF LinkLost, TimesOut, Fault
  <2> QED
    BY <2>1, <2>2, SameSilence
<1> QED
    BY <1>4, <1>5, <1>6

\* All a request, its command, the row and the event log know of each other.
RelayInv ==
    /\ ImmobilizerInv
    /\ \A g \in Request : AloneIsUndisturbed(g)
    /\ LoneActuationIsTrue
    /\ TestsAreApart /\ TestedIsWiring
    /\ AnswersFit /\ AnswersAreEarned /\ FewUnlogged

\* Only a step at the desk completes a request.
LEMMA NothingCompleted ==
    ASSUME ImmobilizerInv', done' = None
    PROVE  LoneActuationIsTrue'
<1>1. alone' \subseteq Request
    BY DEF ImmobilizerInv, TypeOK
<1> QED
    BY <1>1, NoneIsNothing DEF LoneActuationIsTrue

\* A request that begins keeps the invariant.
LEMMA BeginKeepsRelay ==
    ASSUME RelayInv, NEW g \in Request,
           \/ \E enabled \in BOOLEAN, w \in Wiring : Configure(g, enabled, w)
           \/ \E o \in Op \ {"configure"} : Require(g, o)
    PROVE  RelayInv'
<1>1. PICK o \in Op, s \in {"upsert", "speed", "send"}, c \in Row :
         /\ Begin(g, o, s, c)
         /\ s = "upsert" <=> o = "configure"
         /\ o # "configure" => c = row
         /\ o = "configure" /\ c.tested # None =>
               row # None /\ row.tested = c.tested /\ row.wiring = c.wiring
    BY BeginningShape DEF RelayInv
<1>2. ImmobilizerInv' /\ done' = None
    BY <1>1, BeginningKeeps DEF RelayInv, Begin
<1>3. \A h \in Request : AloneIsUndisturbed(h)'
    BY <1>1, BeginDisturbsNone DEF RelayInv
<1>4. TestsAreApart' /\ TestedIsWiring'
    BY <1>1, BeginKeepsApart DEF RelayInv
<1>5. AnswersFit' /\ AnswersAreEarned' /\ FewUnlogged'
    BY <1>1, BeginKeepsBooks DEF RelayInv
<1> QED
    BY <1>2, <1>3, <1>4, <1>5, NothingCompleted DEF RelayInv

\* So does a step at the desk,
LEMMA DeskKeepsRelay ==
    ASSUME RelayInv, NEW g \in Request, DeskStep(g)
    PROVE  RelayInv'
<1>1. ImmobilizerInv'
    BY DeskShape DEF RelayInv
<1>2. (\A h \in Request : AloneIsUndisturbed(h)') /\ LoneActuationIsTrue'
    BY DeskDisturbsNone, CompletionIsTrue DEF RelayInv
<1>3. TestsAreApart' /\ TestedIsWiring'
    BY DeskKeepsApart DEF RelayInv
<1>4. AnswersFit' /\ AnswersAreEarned' /\ FewUnlogged'
    BY DeskKeepsBooks DEF RelayInv
<1> QED
    BY <1>1, <1>2, <1>3, <1>4 DEF RelayInv

\* and a step of the channel.
LEMMA ChannelKeepsRelay ==
    ASSUME RelayInv,
           \/ \E g \in Request : SendCommand(g) \/ TimesOut(g)
           \/ Execute \/ Answer \/ LinkLost
    PROVE  RelayInv'
<1>1. ImmobilizerInv'
    BY SendCommandKeeps, ExecuteKeeps, AnswerKeeps, TimesOutKeeps, LinkLostKeeps
       DEF RelayInv
<1>2. done' = None
    BY DEF SendCommand, Execute, Answer, TimesOut, LinkLost
<1>3. \A h \in Request : AloneIsUndisturbed(h)'
    BY SendDisturbsNone, ExecuteDisturbsNone, OutcomeDisturbsNone DEF RelayInv
<1>4. TestsAreApart' /\ TestedIsWiring'
  <2>1. UNCHANGED row /\ UNCHANGED op /\ UNCHANGED cfg /\ UNCHANGED crossed
    BY DEF SendCommand, Execute, Answer, TimesOut, LinkLost, reqVars, history
  <2>2. \A h \in Request : \/ step'[h] = step[h]
                           \/ /\ step[h] \in {"send", "wait"}
                              /\ step'[h] \in {"wait", "logOk", "logFailed"}
    <3>1. ImmobilizerInv
      BY DEF RelayInv
    <3>2. \A g \in Request : SendCommand(g) => step[g] = "send" /\ step'[g] = "wait"
                             /\ \A h \in Request : h # g => step'[h] = step[h]
      BY <3>1, SendShape
    <3>3. \A g \in Request : TimesOut(g) =>
             \A h \in Request : step'[h] = step[h] \/ (step[h] = "wait" /\ step'[h] = "logFailed")
      BY <3>1, TimeoutShape
    <3>4. Answer =>
             \A h \in Request : step'[h] = step[h] \/ (step[h] = "wait" /\ step'[h] = "logOk")
      BY <3>1, AnswerShape
    <3>5. Execute => UNCHANGED step
      BY DEF Execute, reqVars
    <3>6. LinkLost =>
             \A h \in Request : step'[h] = step[h] \/ (step[h] = "wait" /\ step'[h] = "logFailed")
      BY DEF LinkLost
    <3> QED
      BY <3>2, <3>3, <3>4, <3>5, <3>6
  <2>3. InFlight' \subseteq InFlight /\ \A h \in Request : step'[h] = "upsert" => step[h] = "upsert"
    BY <2>2 DEF InFlight
  <2> QED
    BY <2>1, <2>3, ApartKeeps DEF RelayInv
<1>5. AnswersFit' /\ AnswersAreEarned' /\ FewUnlogged'
    BY SendKeepsBooks, ExecuteKeepsBooks, AnswerKeepsBooks, FailureKeepsBooks DEF RelayInv
<1> QED
    BY <1>1, <1>2, <1>3, <1>4, <1>5, NothingCompleted DEF RelayInv

\* The inductive invariant of the immobilizer.
LEMMA RelayInvariant == Spec => []RelayInv
<1>1. Init => RelayInv
  <2> SUFFICES ASSUME Init PROVE RelayInv
    OBVIOUS
  <2>1. /\ row = None /\ events = {} /\ op = [g \in Request |-> "configure"]
        /\ step = [g \in Request |-> "new"] /\ cfg = [g \in Request |-> None]
        /\ wire = <<>> /\ waiting = <<>> /\ answers = 0 /\ out = [d \in Douts |-> 0]
        /\ executed = {} /\ answered = {} /\ ignored = {} /\ late = {}
        /\ alone = {} /\ crossed = FALSE /\ done = None
        /\ faults = 0
    BY DEF Init
  <2>2. /\ <<>> \in Seq(Request) /\ <<>> \in Seq([req : Request, dout : Douts, level : Level])
        /\ 0 \in 0..MaxRequest /\ 0 \in 0..MaxFaults /\ 0 \in Level
        /\ "configure" \in Op /\ "new" \in Step
    BY ImmobilizerAssumption DEF Level, Op, Step
  <2>3. TypeOK
    BY <2>1, <2>2 DEF TypeOK
  <2>4. (\A g \in Request : StepShape(g)) /\ OneCommandEach
    BY <2>1 DEF StepShape, Sent, OnWire, Awaited, OneCommandEach
  <2>5. ImmobilizerInv
    BY <2>3, <2>4 DEF ImmobilizerInv
  <2>6. InFlight = {}
    BY <2>1 DEF InFlight
  <2>7. (\A g \in Request : AloneIsUndisturbed(g)) /\ LoneActuationIsTrue
    BY <2>1 DEF AloneIsUndisturbed, LoneActuationIsTrue
  <2>8. TestsAreApart /\ TestedIsWiring
    BY <2>1, <2>6 DEF TestsAreApart, TestedIsWiring
  <2>9. Told = {} /\ Unlogged = {}
    BY <2>1 DEF Told, Unlogged
  <2>10. AnswersFit /\ FewUnlogged
    BY <2>1, <2>9, FS_EmptySet DEF AnswersFit, FewUnlogged
  <2>11. AnswersAreEarned
    BY <2>1, <2>9 DEF AnswersAreEarned, InTurn
  <2> QED
    BY <2>5, <2>7, <2>8, <2>10, <2>11 DEF RelayInv
<1>2. RelayInv /\ [Next]_vars => RelayInv'
  <2> SUFFICES ASSUME RelayInv, [Next]_vars PROVE RelayInv'
    OBVIOUS
  <2>1. CASE UNCHANGED vars
    <3>1. /\ UNCHANGED row /\ UNCHANGED events /\ UNCHANGED op /\ UNCHANGED step
          /\ UNCHANGED cfg /\ UNCHANGED wire /\ UNCHANGED waiting /\ UNCHANGED answers
          /\ UNCHANGED out /\ UNCHANGED executed /\ UNCHANGED answered /\ UNCHANGED ignored
          /\ UNCHANGED late /\ UNCHANGED alone /\ UNCHANGED crossed /\ UNCHANGED done /\ UNCHANGED faults
      BY <2>1 DEF vars, reqVars, wireVars, relayVars, history
    <3>2. ImmobilizerInv'
      BY <3>1 DEF RelayInv, ImmobilizerInv, TypeOK, StepShape, Sent, OnWire, Awaited,
                  OneCommandEach
    <3>3. \A g \in Request : AloneIsUndisturbed(g)'
      BY <3>1 DEF RelayInv, AloneIsUndisturbed, InFlight, Quiet, AnsweredTo, Obeyed, Command
    <3>4. LoneActuationIsTrue' /\ TestedIsWiring' /\ TestsAreApart'
      BY <3>1 DEF RelayInv, LoneActuationIsTrue, TestedIsWiring, TestsAreApart, InFlight, Cut
    <3>5. Told' = Told /\ Unlogged' = Unlogged
      BY <3>1 DEF Told, Unlogged, OnWire
    <3>6. AnswersFit' /\ AnswersAreEarned' /\ FewUnlogged'
      BY <3>1, <3>5 DEF RelayInv, AnswersFit, AnswersAreEarned, InTurn, Taken, FewUnlogged
    <3> QED
      BY <3>2, <3>3, <3>4, <3>6 DEF RelayInv
  <2>2. CASE Next
    BY <2>2, BeginKeepsRelay, DeskKeepsRelay, ChannelKeepsRelay DEF Next, Work, DeskStep
  <2> QED
    BY <2>1, <2>2
<1> QED
  BY <1>1, <1>2, PTL DEF Spec

\* For any number of requests, outputs, faults and commands not carried out: a
\* request that nothing overlaps succeeds on the reply to its own command and leaves
\* relay and row in agreement if the tracker carried that out, and while no test
\* crosses a configure the tested flag stands for a test of this very wiring.
THEOREM RowTellsTheRelay == Spec => []RowIsTrue
<1>1. RelayInv => RowIsTrue
    BY DEF RelayInv, RowIsTrue
<1> QED
  BY <1>1, RelayInvariant, PTL

\* And the event log is true: as many successes at most as answers of the tracker, each
\* the answer to this command unless the tracker kept silent on it or another has
\* timed out, and of the commands carried out none without its entry but for one
\* per fault.
THEOREM LogTellsTheRelay == Spec => []LogIsTrue
<1>1. RelayInv => LogIsTrue
  <2> SUFFICES ASSUME RelayInv PROVE LogIsTrue
    OBVIOUS
  <2>1. ImmobilizerInv /\ AnswersFit /\ AnswersAreEarned /\ FewUnlogged
    BY DEF RelayInv
  <2>2. PICK ok : ok = {e.req : e \in {f \in events : f.ok /\ op[f.req] # "configure"}}
    OBVIOUS
  <2>3. ok \subseteq Told
    <3>1. events \subseteq [req : Request, ok : BOOLEAN]
      BY <2>1, ImmobilizerTypes
    <3> QED
      BY <2>2, <3>1 DEF Told
  <2>4. Cardinality(ok) <= Cardinality(answered)
    <3>1. PICK n \in Nat, m \in Nat, a \in Nat :
             n = Cardinality(Told) /\ m = Cardinality(answered) /\ a = answers
      BY <2>1, TalesAreOfRequests
    <3>2. Cardinality(ok) \in Nat /\ Cardinality(ok) <= n
      BY <2>1, <2>3, <3>1, TalesAreOfRequests, RequestsCount
    <3>3. n + a <= m
      BY <2>1, <3>1 DEF AnswersFit
    <3> QED
      BY <3>1, <3>2, <3>3
  <2>5. OkIsAnswered
    BY <2>1, <2>2, <2>3, <2>4 DEF OkIsAnswered, AnswersAreEarned, Taken
  <2>6. CommandsAreLogged
    <3>1. PICK S : S = {g \in executed : step[g] = "over" /\ \A e \in events : e.req # g}
      OBVIOUS
    <3>2. S \subseteq Unlogged
      BY <2>1, <3>1, ImmobilizerTypes DEF Unlogged
    <3>3. PICK n \in Nat, f \in Nat : n = Cardinality(Unlogged) /\ f = faults
      BY <2>1, TalesAreOfRequests
    <3>4. Cardinality(S) \in Nat /\ Cardinality(S) <= n
      BY <2>1, <3>2, <3>3, TalesAreOfRequests, RequestsCount
    <3>5. n <= f
      BY <2>1, <3>3 DEF FewUnlogged
    <3> QED
      BY <3>1, <3>3, <3>4, <3>5 DEF CommandsAreLogged
  <2> QED
    BY <2>5, <2>6 DEF LogIsTrue
<1> QED
  BY <1>1, RelayInvariant, PTL

=============================================================================
