--------------------------- MODULE CommandChannel ---------------------------
(***************************************************************************)
(* The downlink to one device: POST /commands of the ingestion service     *)
(* (health.ts), IngestionTcpServer.sendCommand (tcp-server.ts), and the    *)
(* list of pending Codec 12 commands of a session (session.ts).            *)
(*                                                                         *)
(* Codec 12 carries no correlation id.  A response is given to the oldest  *)
(* pending command; a command leaves the list when a response arrives,     *)
(* when its 30 s timer fires, or when the connection closes.               *)
(*                                                                         *)
(* A definition X_Why before a definition X is a mistake one could make in *)
(* X.  Nothing uses it: put in X's place, it breaks a property below.      *)
(***************************************************************************)
EXTENDS Naturals, Sequences, SequencesExt

CONSTANTS
    MaxCommand,  \* bound: commands sent, numbered in sending order
    MaxClose     \* bound: connections lost

Cmd == 1..MaxCommand

\* How POST /commands ends: 200, 404, 504 or 502.
Outcome == {"replied", "not_connected", "timeout", "closed"}

\* A command whose promise is open: on the list of the session of the connection
\* that is there, or on that of a session that logged in after its own had closed.
Open == {"waiting", "stuck"}

\* A Codec 12 message from the device: a response, or another type, whose
\* number is then of no matter.
Message == [type : {"response", "other"}, to : Cmd]

VARIABLES
    link,      \* "up", "destroyed" ('close' still to come) or "closed"
    loggedIn,  \* the session of this connection has an imei
    byImei,    \* the registry: "none", this connection's session ("live"), or
               \* one whose connection has closed ("dead")
    asking,    \* sessions that still ask the allow-list after their 'close'
    next,      \* number of the next command
    status,    \* command -> "unsent", in Open, or its outcome
    reply,     \* command -> the command its response text belongs to, or 0
    pending,   \* this.pendingCommands of the session of this connection
    down,      \* commands on the wire to the device
    up,        \* messages on the wire from the device
    skipped,   \* history: commands the device never answered
    closes     \* connections lost so far

linkVars == <<link, loggedIn, byImei, asking, closes>>
cmdVars  == <<next, status, reply, pending>>
wireVars == <<down, up, skipped>>
vars == <<linkVars, cmdVars, wireVars>>

TypeOK ==
    /\ link \in {"up", "destroyed", "closed"}
    /\ loggedIn \in BOOLEAN
    /\ byImei \in {"none", "live", "dead"}
    /\ asking \in 0..MaxClose
    /\ next \in 1..(MaxCommand + 1)
    /\ status \in [Cmd -> Outcome \cup Open \cup {"unsent"}]
    /\ reply \in [Cmd -> 0..MaxCommand]
    /\ pending \in Seq(Cmd)
    /\ down \in Seq(Cmd)
    /\ up \in Seq(Message)
    /\ skipped \subseteq Cmd
    /\ closes \in 0..MaxClose

\* The service has started; the device has not called yet.
Init ==
    /\ link = "closed"
    /\ loggedIn = FALSE
    /\ byImei = "none"
    /\ asking = 0
    /\ next = 1
    /\ status = [k \in Cmd |-> "unsent"]
    /\ reply = [k \in Cmd |-> 0]
    /\ pending = <<>>
    /\ down = <<>>
    /\ up = <<>>
    /\ skipped = {}
    /\ closes = 0

-----------------------------------------------------------------------------
(***************************************************************************)
(* The service.                                                            *)
(***************************************************************************)

\* The session is in the registry until its 'close' event; a write to a
\* destroyed socket goes nowhere, but the command is pending all the same.
SendCommand ==
    /\ next \in Cmd
    /\ byImei = "live"
    /\ next' = next + 1
    /\ status' = [status EXCEPT ![next] = "waiting"]
    /\ pending' = Append(pending, next)
    /\ down' = IF link = "up" THEN Append(down, next) ELSE down
    /\ UNCHANGED <<linkVars, reply, up, skipped>>

\* The registry has a session whose connection is gone: the command is on its
\* list, and neither a response nor a 'close' event will ever come.
SendToDead ==
    /\ next \in Cmd
    /\ byImei = "dead"
    /\ next' = next + 1
    /\ status' = [status EXCEPT ![next] = "stuck"]
    /\ UNCHANGED <<linkVars, reply, pending, wireVars>>

\* No session for the IMEI: 404.
RefuseCommand ==
    /\ next \in Cmd
    /\ byImei = "none"
    /\ next' = next + 1
    /\ status' = [status EXCEPT ![next] = "not_connected"]
    /\ UNCHANGED <<linkVars, reply, pending, wireVars>>

\* pendingCommands.shift() takes the oldest entry.
Taken_Pop == Len(pending)
Taken == 1

\* handleCodec12: a response goes to the head of the list, if there is one; a
\* message of another type, or a response nobody waits for, is only logged.
HandleCodec12 ==
    /\ up # <<>>
    /\ up' = Tail(up)
    /\ IF Head(up).type = "response" /\ pending # <<>>
       THEN /\ pending' = RemoveAt(pending, Taken)
            /\ status' = [status EXCEPT ![pending[Taken]] = "replied"]
            /\ reply' = [reply EXCEPT ![pending[Taken]] = Head(up).to]
       ELSE UNCHANGED <<pending, status, reply>>
    /\ UNCHANGED <<linkVars, next, down, skipped>>

\* splice(i, 1) at the entry's index, if it is in the list.
Without_Left(k) == pending
Without_Hole(k) == [i \in DOMAIN pending |-> IF pending[i] = k THEN 0 ELSE pending[i]]
Without(k) ==
    IF k \in ToSet(pending)
    THEN RemoveAt(pending, CHOOSE i \in DOMAIN pending : pending[i] = k)
    ELSE pending

\* (As if the timer's callback dropped the entry and never rejected.)
TimerFires_NoReject(k) ==
    /\ status[k] \in Open
    /\ pending' = Without(k)
    /\ UNCHANGED <<linkVars, next, status, reply, wireVars>>

\* The command's timer: it is spliced out of the list and its promise rejected.
TimerFires(k) ==
    /\ status[k] \in Open
    /\ status' = [status EXCEPT ![k] = "timeout"]
    /\ pending' = Without(k)
    /\ UNCHANGED <<linkVars, next, reply, wireVars>>

\* The entries that splice(0) hands to the loop of rejects.
Closing_First == IF pending = <<>> THEN {} ELSE {Head(pending)}
Closing == ToSet(pending)

\* 'close': what is pending is rejected at once.  The registry's entry goes by
\* IMEI, whosesoever it is, and stays if the session has none yet.
HandleClosed ==
    /\ link = "destroyed"
    /\ link' = "closed"
    /\ loggedIn' = FALSE
    /\ IF loggedIn THEN byImei' = "none" /\ UNCHANGED asking
       ELSE asking' = asking + 1 /\ UNCHANGED byImei
    /\ status' = [k \in Cmd |-> IF k \in Closing THEN "closed" ELSE status[k]]
    /\ pending' = <<>>
    /\ UNCHANGED <<next, reply, wireVars, closes>>

\* The allow-list answers the login of this connection: onAuthenticated.
LogIn ==
    /\ link # "closed"
    /\ ~loggedIn
    /\ loggedIn' = TRUE
    /\ byImei' = "live"
    /\ UNCHANGED <<link, asking, closes, cmdVars, wireVars>>

\* It answers one whose connection has closed meanwhile: onAuthenticated all the
\* same, over whatever session is in the registry.
LateLogIn ==
    /\ asking > 0
    /\ asking' = asking - 1
    /\ byImei' = "dead"
    /\ UNCHANGED <<link, loggedIn, closes, cmdVars, wireVars>>

-----------------------------------------------------------------------------
(***************************************************************************)
(* The device and the connection.                                          *)
(***************************************************************************)

\* The device works its commands off in order, each with one answer or none.
Answer ==
    /\ down # <<>>
    /\ down' = Tail(down)
    /\ up' = Append(up, [type |-> "response", to |-> Head(down)])
    /\ UNCHANGED <<linkVars, cmdVars, skipped>>

Ignore ==
    /\ down # <<>>
    /\ down' = Tail(down)
    /\ skipped' = skipped \cup {Head(down)}
    /\ UNCHANGED <<linkVars, cmdVars, up>>

\* A Codec 12 message that is no response.
Volunteer ==
    /\ link = "up"
    /\ loggedIn
    /\ up = <<>>
    /\ \E k \in Cmd : up' = <<[type |-> "other", to |-> k]>>
    /\ UNCHANGED <<linkVars, cmdVars, down, skipped>>

\* The socket is destroyed, by the allow-list's no for one: what is on the wire to
\* the device is lost, and of what came from it only a first part had reached the
\* session's buffer.
Lose ==
    /\ link = "up"
    /\ closes < MaxClose
    /\ closes' = closes + 1
    /\ link' = "destroyed"
    /\ down' = <<>>
    /\ \E k \in 0..Len(up) : up' = SubSeq(up, 1, k)
    /\ UNCHANGED <<loggedIn, byImei, asking, cmdVars, skipped>>

\* The device connects, sends its IMEI and gets a session of its own.  Responses
\* left in the old session's buffer are handled there, where nothing is pending.
Reconnect ==
    /\ link = "closed"
    /\ link' = "up"
    /\ up' = <<>>
    /\ UNCHANGED <<loggedIn, byImei, asking, closes, cmdVars, down, skipped>>

-----------------------------------------------------------------------------
Next ==
    \/ SendCommand \/ SendToDead \/ RefuseCommand \/ HandleCodec12
    \/ \E k \in Cmd : TimerFires(k)
    \/ HandleClosed \/ LogIn \/ LateLogIn
    \/ Answer \/ Ignore \/ Volunteer \/ Lose \/ Reconnect

Spec == Init /\ [][Next]_vars

\* Timers fire when their command still waits, and events follow.  The device
\* owes nothing.
Fairness ==
    /\ \A k \in Cmd : WF_vars(TimerFires(k))
    /\ WF_vars(HandleClosed) /\ WF_vars(HandleCodec12)

FairSpec == Spec /\ Fairness

-----------------------------------------------------------------------------
(***************************************************************************)
(* Properties.                                                             *)
(***************************************************************************)

\* session.ts, sendCommand: a command resolves with the device's response to
\* it.  Responses carry no id, so a caller may get the response to an earlier
\* command, but only once an earlier command has timed out; and that to a later
\* one, timeout or no, but only once the device has left one unanswered that is
\* not later than the caller's.
LateOnlyAfterTimeout ==
    \A k \in Cmd : status[k] = "replied" /\ reply[k] < k
        => \E j \in 1..(k - 1) : status[j] = "timeout"

EarlyOnlyAfterSkip ==
    \A k \in Cmd : status[k] = "replied" /\ reply[k] > k
        => \E j \in 1..k : j \in skipped

\* Whatever times out, is ignored or is lost: responses are handed out in the
\* order the device gave them, none twice, so a later command never holds an
\* earlier command's place, and every reply is the reply to some sent command.
RepliesInOrder ==
    /\ \A k \in Cmd : status[k] = "replied" => reply[k] \in 1..(next - 1)
    /\ \A j, k \in Cmd :
          j < k /\ status[j] = "replied" /\ status[k] = "replied"
              => reply[j] < reply[k]

\* The list of pending commands holds each command sent to this connection whose
\* promise is open, once and in sending order, and no other: a response never goes
\* to a caller that has been told of a timeout or of a close.
PendingIsWaiting ==
    /\ ToSet(pending) = {k \in Cmd : status[k] = "waiting"}
    /\ \A i, j \in DOMAIN pending : i < j => pending[i] < pending[j]

\* A close settles whoever waits on its connection.  Who is left waiting for the
\* timer sent the command to a session that logged in after its close; that takes a
\* connection lost while the allow-list was asked.
NoneWaitOnClosed ==
    /\ link = "closed" => \A k \in Cmd : status[k] # "waiting"
    /\ closes = 0 => \A k \in Cmd : status[k] # "stuck"

\* Every command ends, whatever the device and the connection do.
EverySettles == \A k \in Cmd : status[k] \in Open ~> status[k] \in Outcome

\* Replies come in the order of the commands, a later one's place never goes to an
\* earlier one's reply without a timeout nor to a later one's without a skipped
\* command, and whoever waits, waits on a connection that is there or on a session
\* that logged in too late.
RepliesReachCallers ==
    /\ RepliesInOrder /\ LateOnlyAfterTimeout /\ EarlyOnlyAfterSkip
    /\ PendingIsWaiting /\ NoneWaitOnClosed

=============================================================================
