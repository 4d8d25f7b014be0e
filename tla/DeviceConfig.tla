---------------------------- MODULE DeviceConfig ----------------------------
(***************************************************************************)
(* A tracker's reporting settings, read and written over the air: the      *)
(* panel of the web app, the control plane's two operations, and the       *)
(* device, reached through ingestion's command endpoint.  A write sets,    *)
(* and reads back what the device then holds; the panel shows that.        *)
(*                                                                         *)
(* A profile stands for a device, a network and a motion; what a profile   *)
(* holds is one value, 0 being one that is in no range a user may set (a   *)
(* device may report it).  Another console may write between two steps.    *)
(***************************************************************************)
EXTENDS Naturals, FiniteSets

CONSTANTS
    Profiles,
    MaxValue,
    MaxRequest, MaxOther, MaxCut   \* bounds: requests, others' writes, cuts

Value == 0..MaxValue
Id == 1..MaxRequest
Phase == {"get", "set", "verify", "answered", "offline", "failed", "done"}

VARIABLES
    held,       \* profile -> what the device holds
    connected,  \* the device has a session
    open,       \* the panel is open
    selected,   \* the profile it is about
    status,     \* "idle", "reading", "writing", "ok", "offline" or "error"
    form,       \* what the panel says the device holds: {} or {[of, val]}
    requests,   \* id -> the panel's request
    sent,       \* requests made
    others, cuts,   \* counters of the bounds
    reopened,   \* history: the panel was opened, or turned to another device, on top
                \* of a request
    stirred     \* history: the device was written behind the form's back

ui == <<open, selected, status, form>>
history == <<reopened, stirred>>
vars == <<held, connected, ui, requests, sent, others, cuts, history>>

Request == [kind : {"read", "write"}, of : Profiles, val : Value, phase : Phase]
Blank == [kind |-> "read", of |-> CHOOSE p \in Profiles : TRUE, val |-> 0,
          phase |-> "done"]
Shown == [of : Profiles, val : Value]

TypeOK ==
    /\ held \in [Profiles -> Value] /\ connected \in BOOLEAN
    /\ open \in BOOLEAN /\ selected \in Profiles
    /\ status \in {"idle", "reading", "writing", "ok", "offline", "error"}
    /\ form \subseteq Shown /\ Cardinality(form) <= 1
    /\ requests \in [Id -> Request] /\ sent \in 0..MaxRequest
    /\ others \in 0..MaxOther /\ cuts \in 0..MaxCut
    /\ reopened \in BOOLEAN /\ stirred \in BOOLEAN

Init ==
    /\ held = [p \in Profiles |-> 0] /\ connected = TRUE
    /\ open = FALSE /\ selected \in Profiles /\ status = "idle" /\ form = {}
    /\ requests = [i \in Id |-> Blank] /\ sent = 0
    /\ others = 0 /\ cuts = 0 /\ reopened = FALSE /\ stirred = FALSE

-----------------------------------------------------------------------------
(* The panel                                                               *)

Busy == status \in {"reading", "writing"}
InFlight == {i \in Id : requests[i].phase # "done"}

Send(kind, p, v) ==
    /\ sent < MaxRequest /\ sent' = sent + 1
    /\ requests' = [requests EXCEPT ![sent'] =
                       [kind |-> kind, of |-> p, val |-> v,
                        phase |-> IF kind = "read" THEN "get" ELSE "set"]]
    /\ status' = IF kind = "read" THEN "reading" ELSE "writing"

\* Opening the panel, maybe for another device, clears the form and reads.
Open(p) ==
    /\ ~open /\ open' = TRUE
    /\ selected' = p /\ form' = {} /\ Send("read", p, 0)
    /\ reopened' = (InFlight # {})
    /\ UNCHANGED <<held, connected, others, cuts, stirred>>

Close ==
    /\ open /\ open' = FALSE
    /\ UNCHANGED <<held, connected, selected, status, form, requests, sent, others,
                   cuts, history>>

\* The selector is disabled while a request is under way.
MaySelect_Why == TRUE
MaySelect == ~Busy
Select(p) ==
    /\ open /\ MaySelect /\ p # selected
    /\ selected' = p /\ form' = {} /\ Send("read", p, 0)
    /\ UNCHANGED <<held, connected, open, others, cuts, history>>

\* A device that was being added is selected under the open panel, which reads what
\* it is about now, whatever is under way.
Turn(p) ==
    /\ open /\ p # selected
    /\ selected' = p /\ form' = {} /\ Send("read", p, 0)
    /\ reopened' = (InFlight # {})
    /\ UNCHANGED <<held, connected, open, others, cuts, stirred>>

Reread ==
    /\ open /\ ~Busy /\ Send("read", selected, 0)
    /\ UNCHANGED <<held, connected, open, selected, form, others, cuts, history>>

\* Only what the user changed is sent, and only what is in range.
Apply(v) ==
    /\ open /\ ~Busy /\ status # "offline"
    /\ v # 0 /\ \A shown \in form : shown.val # v
    /\ Send("write", selected, v)
    /\ UNCHANGED <<held, connected, open, selected, form, others, cuts, history>>

-----------------------------------------------------------------------------
(* The control plane and the device                                        *)

Becomes(i, phase) == requests' = [requests EXCEPT ![i].phase = phase]

\* The relay fails: no session, or no answer in time.
Unanswered(i) ==
    /\ requests[i].phase \in {"get", "set", "verify"}
    /\ Becomes(i, IF connected THEN "failed" ELSE "offline")
    /\ UNCHANGED <<held, connected, ui, sent, others, cuts, history>>

\* getparam: the answer is what the device holds.
Get(i) ==
    /\ connected /\ requests[i].phase \in {"get", "verify"}
    /\ requests' = [requests EXCEPT ![i].phase = "answered",
                                    ![i].val = held[requests[i].of]]
    /\ UNCHANGED <<held, connected, ui, sent, others, cuts, history>>

\* setparam: the device keeps the value, or says it does and does not, or
\* refuses.  A reply without a word of refusal counts as applied.
AfterSet_Why == "answered"
AfterSet == "verify"
Set(i) ==
    /\ connected /\ requests[i].phase = "set"
    /\ \/ held' = [held EXCEPT ![requests[i].of] = requests[i].val]
       \/ UNCHANGED held
    /\ Becomes(i, AfterSet)
    /\ UNCHANGED <<connected, ui, sent, others, cuts, history>>

Refuse(i) ==
    /\ connected /\ requests[i].phase = "set"
    /\ Becomes(i, "failed")
    /\ UNCHANGED <<held, connected, ui, sent, others, cuts, history>>

\* The device keeps the value, and its reply comes too late.
SetLate(i) ==
    /\ connected /\ requests[i].phase = "set"
    /\ held' = [held EXCEPT ![requests[i].of] = requests[i].val]
    /\ Becomes(i, "failed")
    /\ stirred' = TRUE
    /\ UNCHANGED <<connected, ui, sent, others, cuts, reopened>>

\* The answer comes to the panel, which asks no question of whose it is.
Land(i) ==
    LET r == requests[i] IN
    /\ r.phase \in {"answered", "offline", "failed"}
    /\ Becomes(i, "done")
    /\ \/ /\ r.phase = "answered"
          /\ form' = {[of |-> r.of, val |-> r.val]}
          /\ status' = "ok"
          /\ stirred' = (stirred /\ held[r.of] # r.val)
       \/ /\ r.phase # "answered"
          /\ status' = IF r.phase = "offline" THEN "offline" ELSE "error"
          \* A set that was kept but not read back leaves the form behind.
          /\ stirred' = (stirred \/ r.kind = "write")
          /\ UNCHANGED form
    /\ UNCHANGED <<held, connected, open, selected, sent, others, cuts, reopened>>

\* Another console's write, or the device's own SMS configuration.
OtherSet(p, v) ==
    /\ others < MaxOther /\ others' = others + 1
    /\ held' = [held EXCEPT ![p] = v] /\ stirred' = TRUE
    /\ UNCHANGED <<connected, ui, requests, sent, cuts, reopened>>

Connection ==
    /\ cuts < MaxCut /\ cuts' = cuts + 1
    /\ connected' = ~connected
    /\ UNCHANGED <<held, ui, requests, sent, others, history>>

Next ==
    \/ \E p \in Profiles : Open(p) \/ Select(p) \/ Turn(p)
    \/ Close \/ Reread \/ Connection
    \/ \E v \in Value : Apply(v) \/ \E p \in Profiles : OtherSet(p, v)
    \/ \E i \in Id :
        Unanswered(i) \/ Get(i) \/ Set(i) \/ SetLate(i) \/ Refuse(i) \/ Land(i)

Spec == Init /\ [][Next]_vars

-----------------------------------------------------------------------------
(* Properties                                                              *)

\* ReportingProfilePanel.tsx:11-12: "the form shows what the device says it
\* HOLDS, not what we asked for".  So it does, for the profile selected,
\* whatever the device answered to the set, once nothing is under way, unless
\* the panel was opened, or turned to a device just added, over a request still
\* under way (whose answer it then takes for its own: it may show one device's
\* settings under another's name), or the device was written behind its back.
FormIsHeld ==
    open /\ InFlight = {} /\ ~reopened /\ ~stirred =>
        \A shown \in form : shown.of = selected /\ shown.val = held[selected]

=============================================================================
