----------------------------- MODULE Immobilizer -----------------------------
(***************************************************************************)
(* The remote immobilizer of one vehicle (immobilizer.ts): the row with    *)
(* its settings and its last known state, the event log, the requests that *)
(* configure, test, engage and release the relay, and at the far end of    *)
(* the command channel the digital outputs of the tracker.                 *)
(*                                                                         *)
(* A request is a chain of awaits: row, last position, command, event log, *)
(* row again.  Requests of several administrators interleave at each.  The *)
(* channel answers in the order of the commands and does not name them, so *)
(* the answer to a command that timed out goes to whoever waits next (see  *)
(* CommandChannel).                                                        *)
(*                                                                         *)
(* A definition X_Why before a definition X is a mistake one could make in *)
(* X.  Nothing uses it: put in X's place, it breaks a property below.      *)
(***************************************************************************)
EXTENDS Naturals, SequencesExt, FiniteSets

CONSTANTS
    Douts,        \* the digital outputs a relay may be wired to
    MaxRequest,   \* bound: requests, of all kinds
    MaxFaults,    \* bound: lost links, rejected writes, ended processes
    MaxDeclined,  \* bound: commands the tracker does not carry out
    None          \* no row, no wiring

ASSUME ImmobilizerAssumption ==
    /\ {MaxRequest, MaxFaults, MaxDeclined} \subseteq Nat
    /\ 1 \in Douts         \* the output of DEFAULTS

Request == 1..MaxRequest
Wiring  == [dout : Douts, activeHigh : BOOLEAN]
Level   == {0, 1}
Op      == {"configure", "test", "immobilize", "mobilize"}

\* device_immobilizer.  tested: what testedAt stands for, the wiring whose
\* test was confirmed.
Row == [enabled : BOOLEAN, wiring : Wiring, immobilized : BOOLEAN,
        tested : Wiring \cup {None}]

ASSUME NoneIsNothing == None \notin Request \cup Wiring \cup Row

\* "new" and "over" enclose the life of a request.
Step == {"new", "upsert", "logConfig", "speed", "send", "wait", "logOk",
         "logFailed", "patch", "over"}

VARIABLES
    row,       \* the row, or None
    events,    \* the event log: [req, ok]
    op,        \* request -> its kind
    step,      \* request -> what it does next
    cfg,       \* request -> the row it works with, or None
    wire,      \* commands on their way to the tracker: [req, dout, level]
    waiting,   \* requests whose command is pending, in sending order
    answers,   \* answers of the tracker on their way back
    out,       \* output -> its level
    executed,  \* history: requests whose command the tracker carried out
    answered,  \* history: requests whose command the tracker answered
    ignored,   \* history: requests whose command it took and did not answer
    late,      \* history: requests whose command timed out
    alone,     \* history: requests that no other one overlaps
    crossed,   \* history: a test and a configure have overlapped
    done,      \* history: the request the last step completed, or None
    faults

reqVars  == <<op, step, cfg>>
relayVars == <<out, executed, answered, ignored>>
wireVars == <<wire, waiting, answers, relayVars, late>>
history  == <<alone, crossed>>
vars == <<row, events, reqVars, wireVars, history, done, faults>>

TypeOK ==
    /\ row \in Row \cup {None}
    /\ events \subseteq [req : Request, ok : BOOLEAN]
    /\ op \in [Request -> Op]
    /\ step \in [Request -> Step]
    /\ cfg \in [Request -> Row \cup {None}]
    /\ wire \in Seq([req : Request, dout : Douts, level : Level])
    /\ waiting \in Seq(Request)
    /\ answers \in 0..MaxRequest
    /\ out \in [Douts -> Level]
    /\ executed \subseteq Request
    /\ answered \subseteq Request
    /\ ignored \subseteq Request
    /\ late \subseteq Request
    /\ alone \subseteq Request
    /\ crossed \in BOOLEAN
    /\ done \in Request \cup {None}
    /\ faults \in 0..MaxFaults

\* No row, no relay wired.
Init ==
    /\ row = None
    /\ events = {}
    /\ op = [g \in Request |-> "configure"]
    /\ step = [g \in Request |-> "new"]
    /\ cfg = [g \in Request |-> None]
    /\ wire = <<>>
    /\ waiting = <<>>
    /\ answers = 0
    /\ out = [d \in Douts |-> 0]
    /\ executed = {}
    /\ answered = {}
    /\ ignored = {}
    /\ late = {}
    /\ alone = {}
    /\ crossed = FALSE
    /\ done = None
    /\ faults = 0

InFlight == {g \in Request : step[g] \notin {"new", "over"}}

\* The channel holds nothing of an earlier command.
Quiet == wire = <<>> /\ waiting = <<>> /\ answers = 0

\* Nobody waits for the answer to an aborted request, but its place is kept.
Settle(g) == [step EXCEPT ![g] = IF @ = "wait" THEN "logOk" ELSE @]

Goto(g, s) == step' = [step EXCEPT ![g] = s]

Fault == faults < MaxFaults /\ faults' = faults + 1

-----------------------------------------------------------------------------
(***************************************************************************)
(* configure(), and the reading of the row by the other requests.          *)
(***************************************************************************)

\* A request begins; from its first read on it holds the row it found.
Begin(g, o, s, c) ==
    /\ step[g] = "new"
    /\ \A h \in Request : h < g => step[h] # "new"
    /\ op' = [op EXCEPT ![g] = o]
    /\ Goto(g, s)
    /\ cfg' = [cfg EXCEPT ![g] = c]
    /\ alone' = IF InFlight = {} /\ Quiet THEN alone \cup {g}
                ELSE alone \ InFlight
    /\ crossed' = (crossed \/ \E h \in InFlight : {op[h], o} = {"configure", "test"})
    /\ done' = None
    /\ UNCHANGED <<row, events, wireVars, faults>>

\* The wiring a device without a row has: DEFAULTS.
Current == IF row = None
           THEN [enabled |-> FALSE, wiring |-> [dout |-> 1, activeHigh |-> TRUE],
                 immobilized |-> FALSE, tested |-> None]
           ELSE row

wiringChanged_DoutOnly(w) == w.dout # Current.wiring.dout
wiringChanged(w) == w # Current.wiring

\* configure(): the row to write is made from the one just read.
Configure(g, enabled, w) ==
    Begin(g, "configure", "upsert",
          [Current EXCEPT !.enabled = enabled, !.wiring = w,
                          !.tested = IF wiringChanged(w) THEN None ELSE @])

\* repo.upsert: every column of the row is written.
Upsert(g) ==
    /\ step[g] = "upsert"
    /\ row' = cfg[g]
    /\ Goto(g, "logConfig")
    /\ done' = None
    /\ UNCHANGED <<events, op, cfg, wireVars, history, faults>>

LogConfig(g) ==
    /\ step[g] = "logConfig"
    /\ events' = events \cup {[req |-> g, ok |-> TRUE]}
    /\ Goto(g, "over")
    /\ done' = g
    /\ UNCHANGED <<row, op, cfg, wireVars, history, faults>>

\* requireEnabled(): 400 without a row that is enabled.
Require(g, o) ==
    /\ row # None
    /\ row.enabled
    /\ Begin(g, o, IF o = "immobilize" THEN "speed" ELSE "send", row)

\* assertSafeToImmobilize: 409 if the last known position, from the hot state or
\* else the table, is one of a moving vehicle; none known is taken for safe.
CheckSpeed(g) ==
    /\ step[g] = "speed"
    /\ \E position \in {"moving", "still", "unknown"} :
          Goto(g, IF position = "moving" THEN "over" ELSE "send")
    /\ done' = None
    /\ UNCHANGED <<row, events, op, cfg, wireVars, history, faults>>

-----------------------------------------------------------------------------
(***************************************************************************)
(* The command.                                                            *)
(***************************************************************************)
levelFor_AsWired(engage, activeHigh) == IF engage THEN 1 ELSE 0
levelFor(engage, activeHigh) == IF engage = activeHigh THEN 1 ELSE 0

Command_ZeroBased(g) ==
    [req |-> g, dout |-> cfg[g].wiring.dout - 1,
     level |-> levelFor(op[g] = "immobilize", cfg[g].wiring.activeHigh)]

\* buildSetDigout, from the wiring read at the start; a test releases.
Command(g) ==
    [req |-> g, dout |-> cfg[g].wiring.dout,
     level |-> levelFor(op[g] = "immobilize", cfg[g].wiring.activeHigh)]

\* commander.send reaches the session of the device.
SendCommand(g) ==
    /\ step[g] = "send"
    /\ wire' = Append(wire, Command(g))
    /\ waiting' = Append(waiting, g)
    /\ Goto(g, "wait")
    /\ done' = None
    /\ UNCHANGED <<row, events, op, cfg, answers, relayVars, late, history, faults>>

NotConnected_AsReply(g) ==
    /\ step[g] = "send"
    /\ Goto(g, "logOk")
    /\ done' = None
    /\ UNCHANGED <<row, events, op, cfg, wireVars, history, faults>>

\* The device is offline, ingestion is away, or its session has lost its connection
\* and waits in vain: nothing was sent.
NotConnected(g) ==
    /\ step[g] = "send"
    /\ Goto(g, "logFailed")
    /\ done' = None
    /\ UNCHANGED <<row, events, op, cfg, wireVars, history, faults>>

Answers(c) ==
    /\ answered' = answered \cup {c.req}
    /\ answers' = answers + 1
    /\ UNCHANGED ignored

Declines == Cardinality((answered \cup ignored) \ executed) < MaxDeclined

\* The tracker takes the next command: it carries it out and says so; it answers
\* with an error text, or with none while the speed threshold holds the output as it
\* is; or it keeps silent.
Execute ==
    /\ wire # <<>>
    /\ LET c == Head(wire) IN
       \/ /\ out' = [out EXCEPT ![c.dout] = c.level]
          /\ executed' = executed \cup {c.req}
          /\ Answers(c)
       \/ Declines /\ UNCHANGED <<out, executed>> /\ Answers(c)
       \/ /\ Declines
          /\ ignored' = ignored \cup {c.req}
          /\ UNCHANGED <<out, executed, answered, answers>>
    /\ wire' = Tail(wire)
    /\ done' = None
    /\ UNCHANGED <<row, events, reqVars, waiting, late, history, faults>>

\* An answer, whatever its text, settles the oldest pending command, or none.
Answer ==
    /\ answers > 0
    /\ answers' = answers - 1
    /\ IF waiting = <<>> THEN UNCHANGED <<step, waiting>>
       ELSE step' = Settle(Head(waiting)) /\ waiting' = Tail(waiting)
    /\ done' = None
    /\ UNCHANGED <<row, events, op, cfg, wire, relayVars, late, history, faults>>

\* The session's timer ends the wait; the device may still carry the command
\* out, and its answer will then be taken by whoever waits next.
TimesOut_NoReject(g) ==
    /\ \E i \in DOMAIN waiting :
          waiting[i] = g /\ waiting' = RemoveAt(waiting, i)
    /\ late' = late \cup {g}
    /\ done' = None
    /\ UNCHANGED <<row, events, reqVars, wire, answers, relayVars, history, faults>>

TimesOut(g) ==
    /\ \E i \in DOMAIN waiting :
          waiting[i] = g /\ waiting' = RemoveAt(waiting, i)
    /\ late' = late \cup {g}
    /\ step' = [step EXCEPT ![g] = IF @ = "wait" THEN "logFailed" ELSE @]
    /\ done' = None
    /\ UNCHANGED <<row, events, op, cfg, wire, answers, relayVars, history, faults>>

\* The HTTP call to the ingestion service breaks off; the session waits on.
CallFails(g) ==
    /\ step[g] = "wait"
    /\ Fault
    /\ Goto(g, "logFailed")
    /\ done' = None
    /\ UNCHANGED <<row, events, op, cfg, wireVars, history>>

\* The connection closes: pending commands are rejected, commands and answers
\* on the wire are lost.
LinkLost ==
    /\ wire # <<>> \/ waiting # <<>> \/ answers > 0
    /\ Fault
    /\ wire' = <<>>
    /\ answers' = 0
    /\ waiting' = <<>>
    /\ step' = [g \in Request |-> IF step[g] = "wait" THEN "logFailed" ELSE step[g]]
    /\ done' = None
    /\ UNCHANGED <<row, events, op, cfg, relayVars, late, history>>

-----------------------------------------------------------------------------
(***************************************************************************)
(* The books.                                                              *)
(***************************************************************************)
LogOk(g) ==
    /\ step[g] = "logOk"
    /\ events' = events \cup {[req |-> g, ok |-> TRUE]}
    /\ Goto(g, "patch")
    /\ done' = None
    /\ UNCHANGED <<row, op, cfg, wireVars, history, faults>>

\* Logging a success is inside the try block: rejected, it is logged once more,
\* as a failure.
LogOkRejected(g) ==
    /\ step[g] = "logOk"
    /\ Fault
    /\ Goto(g, "logFailed")
    /\ done' = None
    /\ UNCHANGED <<row, events, op, cfg, wireVars, history>>

LogFailed_Silent(g) ==
    /\ step[g] = "logFailed"
    /\ Goto(g, "over")
    /\ done' = None
    /\ UNCHANGED <<row, events, op, cfg, wireVars, history, faults>>

LogFailed(g) ==
    /\ step[g] = "logFailed"
    /\ events' = events \cup {[req |-> g, ok |-> FALSE]}
    /\ Goto(g, "over")
    /\ done' = None
    /\ UNCHANGED <<row, op, cfg, wireVars, history, faults>>

Patched(g) ==
    IF op[g] = "test" THEN [row EXCEPT !.tested = cfg[g].wiring]
    ELSE [row EXCEPT !.immobilized = (op[g] = "immobilize")]

\* repo.patch: only the columns named are written.
Patch(g) ==
    /\ step[g] = "patch"
    /\ row' = Patched(g)
    /\ Goto(g, "over")
    /\ done' = g
    /\ UNCHANGED <<events, op, cfg, wireVars, history, faults>>

\* The process ends, or the database rejects a call outside relay()'s try block.
Abort(g) ==
    /\ g \in InFlight
    /\ Fault
    /\ Goto(g, "over")
    /\ done' = None
    /\ UNCHANGED <<row, events, op, cfg, wireVars, history>>

-----------------------------------------------------------------------------
Work(g) ==
    \/ Upsert(g) \/ LogConfig(g) \/ CheckSpeed(g)
    \/ SendCommand(g) \/ NotConnected(g)
    \/ LogOk(g) \/ LogFailed(g) \/ Patch(g)

Next ==
    \/ \E g \in Request :
          \/ \E enabled \in BOOLEAN, w \in Wiring : Configure(g, enabled, w)
          \/ \E o \in Op \ {"configure"} : Require(g, o)
          \/ Work(g) \/ TimesOut(g) \/ CallFails(g) \/ LogOkRejected(g) \/ Abort(g)
    \/ Execute \/ Answer \/ LinkLost

Spec == Init /\ [][Next]_vars

\* Awaits resolve and timers fire; the tracker owes nothing.
Fairness == \A g \in Request : WF_vars(Work(g)) /\ WF_vars(TimesOut(g))

FairSpec == Spec /\ Fairness

-----------------------------------------------------------------------------
(***************************************************************************)
(* Properties.                                                             *)
(***************************************************************************)

\* The circuit of a vehicle wired like this is cut.
Cut(w) == out[w.dout] = IF w.activeHigh THEN 1 ELSE 0

\* Overlapping requests, late answers and lost links can make the row contradict
\* the relay, and so can a reply that says no: any text is taken for a yes.  A
\* request to engage, release or test that nothing overlaps, begun while the channel
\* is quiet, puts that right: its success is the reply to its own command, and if
\* the tracker carried that out, the relay is where it was asked to be, and the row
\* says so (of a test it says nothing).
LoneActuationIsTrue ==
    done \in alone /\ op[done] # "configure" =>
        /\ done \in answered
        /\ done \in executed =>
              /\ Cut(row.wiring) <=> op[done] = "immobilize"
              /\ op[done] # "test" => row.immobilized = Cut(row.wiring)

\* immobilizer.ts: changing the wiring clears the tested flag.  As long as no
\* test and no configure overlap, the flag stands for a test of this very wiring.
TestedIsWiring ==
    ~crossed /\ row # None /\ row.tested # None => row.tested = row.wiring

\* A success in the event log is an answer of the tracker, whatever it says, and one
\* for each.  It is to this command, unless the tracker kept silent on this one or
\* another command has timed out.
OkIsAnswered ==
    LET ok == {e.req : e \in {f \in events : f.ok /\ op[f.req] # "configure"}}
    IN  /\ Cardinality(ok) <= Cardinality(answered)
        /\ \A g \in ok : g \in answered \cup ignored \/ late \ {g} # {}

\* immobilizer.ts: every action is written to an append-only event log.  What the
\* tracker has carried out is in it when its request is over, as a success or a
\* failure, but for one command per rejected write or ended process.
CommandsAreLogged ==
    Cardinality({g \in executed : step[g] = "over" /\ \A e \in events : e.req # g})
        <= faults

\* No administrator waits for ever on a tracker that does not answer.
EveryRequestEnds ==
    \A g \in Request : step[g] \notin {"new", "over"} ~> step[g] = "over"

\* The row of immobilizer.ts says what a relay does that was switched by a request
\* of its own, and tested of the wiring it was tested on.
RowIsTrue == LoneActuationIsTrue /\ TestedIsWiring

\* A command reported to have succeeded was answered, and the event log tells of
\* every command that was carried out.
LogIsTrue == OkIsAnswered /\ CommandsAreLogged

=============================================================================
