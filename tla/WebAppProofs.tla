---------------------------- MODULE WebAppProofs ----------------------------
(***************************************************************************)
(* Theorems about the parts of the web app whose steps depend on answers   *)
(* still to come, for any number of tabs, requests, devices and shapes:    *)
(* the configuration panel (DeviceConfig), the dashboard page (Dashboard)  *)
(* and sign-in (Sessions).                                                 *)
(***************************************************************************)
EXTENDS MCWebApp, Integers, SequenceTheorems, TLAPS

(***************************************************************************)
(* The configuration panel.                                                *)
(***************************************************************************)
Values == Config!Value \cup {0}
PanelRequests == [kind : {"read", "write"}, of : Profiles, val : Values, phase : Config!Phase]

\* A set has reached the device, and the panel has not heard of it.
Unheard(i) == i \in Config!InFlight /\ reads[i].kind = "write" /\ reads[i].phase # "set"

\* Unless the panel was opened or turned over a request, the one under way is about
\* the profile selected and keeps the panel busy; and unless the device was written
\* behind its back, an answer is what the device holds, and so is what the panel
\* says, but while a set is on its way back.
PanelInv ==
    /\ held \in [Profiles -> Values]
    /\ reads \in [Config!Id -> PanelRequests]
    /\ profile \in Profiles
    /\ ~reopened =>
          /\ \A i, j \in Config!InFlight : i = j
          /\ \A i \in Config!InFlight : reads[i].of = profile
                                        /\ (reads[i].kind = "read" => reads[i].phase # "set")
          /\ Config!InFlight # {} => Config!Busy
          /\ \A s \in form : s.of = profile
    /\ ~reopened /\ ~stirred =>
          /\ \A i \in Config!InFlight :
               reads[i].phase = "answered" => reads[i].val = held[reads[i].of]
          /\ (\A s \in form : s.val = held[profile]) \/ \E i \in Config!Id : Unheard(i)

\* A request that goes on is the same request.
LEMMA RequestGoesOn ==
    ASSUME reads \in [Config!Id -> PanelRequests], NEW i \in Config!Id,
           NEW ph \in Config!Phase, reads' = [reads EXCEPT ![i].phase = ph]
    PROVE  /\ reads' \in [Config!Id -> PanelRequests]
           /\ reads'[i].kind = reads[i].kind /\ reads'[i].of = reads[i].of
           /\ reads'[i].val = reads[i].val /\ reads'[i].phase = ph
           /\ \A j \in Config!Id : j # i => reads'[j] = reads[j]
<1>1. PICK x \in PanelRequests : x = reads[i]
    OBVIOUS
<1>2. PICK y : y = [x EXCEPT !.phase = ph]
    OBVIOUS
<1>3. /\ y \in PanelRequests /\ y.kind = x.kind /\ y.of = x.of
      /\ y.val = x.val /\ y.phase = ph
    BY <1>2 DEF PanelRequests
<1>4. reads' = [reads EXCEPT ![i] = y]
    BY <1>1, <1>2
<1> QED
    BY <1>1, <1>3, <1>4

\* A request sent while none is under way is the only one.
LEMMA SentAlone ==
    ASSUME reads \in [Config!Id -> PanelRequests], Config!InFlight = {},
           NEW k \in {"read", "write"}, NEW p \in Profiles, NEW v \in Values,
           Config!Send(k, p, v)
    PROVE  /\ reads' \in [Config!Id -> PanelRequests]
           /\ Config!Busy'
           /\ \A i \in Config!InFlight' :
                /\ i = readsSent + 1 /\ reads'[i].of = p /\ reads'[i].kind = k
                /\ reads'[i].phase = IF k = "read" THEN "get" ELSE "set"
<1>1. PICK ph : ph = IF k = "read" THEN "get" ELSE "set"
    OBVIOUS
<1>2. PICK y : y = [kind |-> k, of |-> p, val |-> v, phase |-> ph]
    OBVIOUS
<1>3. /\ y \in PanelRequests /\ y.kind = k /\ y.of = p /\ y.phase = ph
    BY <1>1, <1>2 DEF PanelRequests, Config!Phase
<1>4. reads' = [reads EXCEPT ![readsSent + 1] = y]
      /\ status' = IF k = "read" THEN "reading" ELSE "writing"
    BY <1>1, <1>2 DEF Config!Send
<1>5. \A i \in Config!Id : reads[i].phase = "done"
    BY DEF Config!InFlight
<1>6. /\ reads' \in [Config!Id -> PanelRequests]
      /\ \A i \in Config!Id : /\ i # readsSent + 1 => reads'[i].phase = "done"
                              /\ i = readsSent + 1 => reads'[i] = y
    BY <1>3, <1>4, <1>5
<1>7. \A i \in Config!InFlight' : i \in Config!Id /\ reads'[i].phase # "done"
    BY DEF Config!InFlight
<1>8. Config!Busy'
    BY <1>4 DEF Config!Busy
<1> QED
    BY <1>1, <1>3, <1>6, <1>7, <1>8

\* The panel sends for the profile it is about, its form empty or right.
LEMMA SendKeeps ==
    ASSUME PanelInv, Config!InFlight = {},
           NEW k \in {"read", "write"}, NEW p \in Profiles, NEW v \in Values,
           Config!Send(k, p, v), profile' = p, UNCHANGED held,
           ~reopened' /\ ~stirred' /\ form' # {} => ~reopened /\ ~stirred,
           form' = {} \/ (UNCHANGED <<form, profile>> /\ (~reopened' => ~reopened))
    PROVE  PanelInv'
<1>1. /\ held \in [Profiles -> Values] /\ reads \in [Config!Id -> PanelRequests]
    BY DEF PanelInv
<1>2. /\ reads' \in [Config!Id -> PanelRequests]
      /\ Config!Busy'
      /\ \A i \in Config!InFlight' :
           /\ i = readsSent + 1 /\ reads'[i].of = p /\ reads'[i].kind = k
           /\ reads'[i].phase = IF k = "read" THEN "get" ELSE "set"
    BY <1>1, SentAlone
<1>3. \A i \in Config!Id : ~Unheard(i)
    BY DEF Unheard
<1>4. ~reopened' => \A s \in form' : s.of = profile'
    BY DEF PanelInv
<1>5. ~reopened' /\ ~stirred' => \A s \in form' : s.val = held'[profile']
  <2>1. ASSUME ~reopened', ~stirred', NEW s \in form' PROVE s.val = held'[profile']
    <3>1. ~reopened /\ ~stirred /\ UNCHANGED <<form, profile>>
      BY <2>1
    <3> QED
      BY <1>3, <2>1, <3>1 DEF PanelInv
  <2> QED
    BY <2>1
<1>6. \A i \in Config!InFlight' : /\ reads'[i].phase # "answered"
                                  /\ (reads'[i].kind = "read" => reads'[i].phase # "set")
    BY <1>2
<1> QED
    BY <1>1, <1>2, <1>4, <1>5, <1>6 DEF PanelInv

\* The control plane and the device do their part of a request, and may change what
\* its profile holds.
LEMMA DeviceKeeps ==
    ASSUME PanelInv, NEW i \in Config!Id,
           \/ Config!Unanswered(i) \/ Config!Get(i) \/ Config!Set(i)
           \/ Config!SetLate(i) \/ Config!Refuse(i)
    PROVE  PanelInv'
<1>1. /\ UNCHANGED profile /\ UNCHANGED status /\ UNCHANGED form /\ UNCHANGED reopened
      /\ ~stirred' => ~stirred
      /\ held \in [Profiles -> Values] /\ reads \in [Config!Id -> PanelRequests]
      /\ reads[i].phase \in {"get", "set", "verify"}
    BY DEF Config!Unanswered, Config!Get, Config!Set, Config!SetLate, Config!Refuse,
       Config!ui, Config!history, PanelInv
<1>2. PICK x \in PanelRequests : x = reads[i]
    BY <1>1
<1>3. x.of \in Profiles /\ x.val \in Values /\ held[x.of] \in Values
      /\ x.kind \in {"read", "write"}
    BY <1>1, <1>2 DEF PanelRequests
<1>4. /\ held' \in [Profiles -> Values]
      /\ reads' \in [Config!Id -> PanelRequests]
      /\ reads'[i].kind = x.kind /\ reads'[i].of = x.of /\ reads'[i].phase # "done"
      /\ \A j \in Config!Id : j # i => reads'[j] = reads[j]
      /\ reads'[i].phase # "set"
      /\ ~stirred' => /\ UNCHANGED held \/ (reads[i].phase = "set" /\ reads'[i].phase = "verify")
                      /\ reads'[i].phase = "answered" =>
                            reads[i].phase # "set" /\ reads'[i].val = held'[x.of]
  <2>1. ASSUME NEW ph \in Config!Phase, reads' = [reads EXCEPT ![i].phase = ph]
        PROVE  /\ reads' \in [Config!Id -> PanelRequests]
               /\ reads'[i].kind = x.kind /\ reads'[i].of = x.of /\ reads'[i].phase = ph
               /\ \A j \in Config!Id : j # i => reads'[j] = reads[j]
    BY <1>1, <1>2, <2>1, RequestGoesOn
  <2>2. CASE Config!Unanswered(i) \/ Config!Refuse(i)
    <3>1. PICK ph \in {"failed", "offline"} :
             reads' = [reads EXCEPT ![i].phase = ph] /\ UNCHANGED held
      BY <2>2 DEF Config!Unanswered, Config!Refuse, Config!Becomes
    <3>2. ph \in Config!Phase /\ ph # "set" /\ ph # "answered" /\ ph # "done"
      BY DEF Config!Phase
    <3> QED
      BY <1>1, <2>1, <3>1, <3>2
  <2>3. CASE Config!Set(i) \/ Config!SetLate(i)
    <3>1. PICK ph \in {"verify", "failed"} :
             /\ reads' = [reads EXCEPT ![i].phase = ph]
             /\ held' = [held EXCEPT ![x.of] = x.val] \/ UNCHANGED held
             /\ ~stirred' => ph = "verify"
      BY <1>2, <2>3 DEF Config!Set, Config!SetLate, Config!Becomes, Config!AfterSet
    <3>2. ph \in Config!Phase /\ ph # "set" /\ ph # "answered" /\ ph # "done"
      BY DEF Config!Phase
    <3>3. held' \in [Profiles -> Values] /\ reads[i].phase = "set"
      BY <1>1, <1>3, <2>3, <3>1 DEF Config!Set, Config!SetLate
    <3> QED
      BY <2>1, <3>1, <3>2, <3>3
  <2>4. CASE Config!Get(i)
    <3>1. /\ reads' = [reads EXCEPT ![i].phase = "answered", ![i].val = held[x.of]]
          /\ UNCHANGED held /\ reads[i].phase # "set"
      BY <1>2, <2>4 DEF Config!Get
    <3>2. PICK y : y = [x EXCEPT !.phase = "answered", !.val = held[x.of]]
      OBVIOUS
    <3>3. /\ y \in PanelRequests /\ y.kind = x.kind /\ y.of = x.of
          /\ y.phase = "answered" /\ y.val = held[x.of]
      BY <1>3, <3>2 DEF PanelRequests, Config!Phase
    <3>4. reads' = [reads EXCEPT ![i] = y]
      BY <1>1, <1>2, <3>1, <3>2
    <3>5. reads'[i] = y /\ \A j \in Config!Id : j # i => reads'[j] = reads[j]
      BY <1>1, <3>4
    <3>6. reads' \in [Config!Id -> PanelRequests]
      BY <1>1, <3>3, <3>4
    <3> QED
      BY <1>1, <3>1, <3>3, <3>5, <3>6
  <2> QED
    BY <2>2, <2>3, <2>4
<1>5. \A j \in Config!Id : j \in Config!InFlight' <=> j \in Config!InFlight
    BY <1>1, <1>4 DEF Config!InFlight
<1>6. Config!InFlight' = Config!InFlight /\ i \in Config!InFlight
    BY <1>1, <1>5 DEF Config!InFlight
<1>7. ASSUME ~reopened'
      PROVE  /\ \A j, l \in Config!InFlight' : j = l
             /\ \A j \in Config!InFlight' : reads'[j].of = profile'
                                            /\ (reads'[j].kind = "read" => reads'[j].phase # "set")
             /\ Config!InFlight' # {} => Config!Busy'
             /\ \A s \in form' : s.of = profile'
    BY <1>1, <1>2, <1>4, <1>6, <1>7 DEF PanelInv, Config!Busy
<1>8. ASSUME ~reopened', ~stirred'
      PROVE  /\ \A j \in Config!InFlight' :
                  reads'[j].phase = "answered" => reads'[j].val = held'[reads'[j].of]
             /\ (\A s \in form' : s.val = held'[profile']) \/ \E j \in Config!Id : Unheard(j)'
  <2>1. /\ ~reopened /\ ~stirred /\ \A j \in Config!InFlight : j = i
        /\ x.kind = "read" => x.phase # "set"
        /\ (\A s \in form : s.val = held[profile]) \/ Unheard(i)
    BY <1>1, <1>2, <1>6, <1>8 DEF PanelInv, Unheard
  <2>2. Unheard(i) => Unheard(i)'
    BY <1>2, <1>4, <1>6 DEF Unheard
  <2>3. CASE UNCHANGED held
    BY <1>1, <1>4, <1>6, <1>8, <2>1, <2>2, <2>3
  <2>4. CASE reads[i].phase = "set" /\ reads'[i].phase = "verify"
    <3>1. Unheard(i)'
      BY <1>2, <1>3, <1>4, <1>6, <2>1, <2>4 DEF Unheard
    <3> QED
      BY <1>6, <2>1, <2>4, <3>1
  <2> QED
    BY <1>4, <1>8, <2>3, <2>4
<1> QED
    BY <1>1, <1>4, <1>7, <1>8 DEF PanelInv

\* The answer comes to the panel.
LEMMA LandKeeps ==
    ASSUME PanelInv, NEW i \in Config!Id, Config!Land(i)
    PROVE  PanelInv'
<1>1. /\ held \in [Profiles -> Values] /\ reads \in [Config!Id -> PanelRequests]
      /\ profile \in Profiles
      /\ UNCHANGED profile /\ UNCHANGED reopened /\ UNCHANGED held
      /\ reads' = [reads EXCEPT ![i].phase = "done"]
      /\ reads[i].phase \in {"answered", "offline", "failed"}
    BY DEF PanelInv, Config!Land, Config!Becomes
<1>2. PICK p, v : p = reads[i].of /\ v = reads[i].val
    OBVIOUS
<1>3. /\ reads' \in [Config!Id -> PanelRequests] /\ reads'[i].phase = "done"
      /\ \A j \in Config!Id : j # i => reads'[j] = reads[j]
    BY <1>1, RequestGoesOn DEF Config!Phase
<1>4. i \in Config!InFlight /\ \A j \in Config!InFlight' : j \in Config!InFlight /\ j # i
    BY <1>1, <1>3 DEF Config!InFlight
<1>5. CASE reopened
    BY <1>1, <1>3, <1>5 DEF PanelInv
<1>6. CASE ~reopened
  <2>1. /\ \A j, l \in Config!InFlight : j = l
        /\ p = profile /\ (reads[i].kind = "read" \/ reads[i].kind = "write")
        /\ \A s \in form : s.of = profile
    BY <1>1, <1>2, <1>4, <1>6 DEF PanelInv, PanelRequests
  <2>2. \A j \in Config!InFlight' : FALSE
    BY <1>4, <2>1
  <2>3. CASE reads[i].phase = "answered"
    <3>1. form' = {[of |-> p, val |-> v]} /\ stirred' = (stirred /\ held[p] # v)
      BY <1>2, <2>3 DEF Config!Land
    <3>2. \A s \in form' : s.of = p /\ s.val = v
      BY <3>1
    <3>3. ~stirred => v = held[p]
      BY <1>2, <1>4, <1>6, <2>3 DEF PanelInv
    <3>4. ~stirred' => v = held'[profile']
      BY <1>1, <2>1, <3>1, <3>3
    <3> QED
      BY <1>1, <1>3, <2>1, <2>2, <3>2, <3>4 DEF PanelInv
  <2>4. CASE reads[i].phase # "answered"
    <3>1. UNCHANGED form /\ stirred' = (stirred \/ reads[i].kind = "write")
      BY <2>4 DEF Config!Land
    <3>2. ~stirred' => ~stirred /\ \A j \in Config!Id : ~Unheard(j)
      BY <1>4, <2>1, <3>1 DEF Unheard
    <3>3. ~stirred' => \A s \in form' : s.val = held'[profile']
      BY <1>1, <1>6, <3>1, <3>2 DEF PanelInv
    <3> QED
      BY <1>1, <1>3, <2>1, <2>2, <3>1, <3>3 DEF PanelInv
  <2> QED
    BY <2>3, <2>4
<1> QED
    BY <1>5, <1>6

\* The inductive invariant of the panel.
LEMMA PanelInvariant ==
    /\ Config!Init => PanelInv
    /\ PanelInv /\ [Config!Next]_(Config!vars) => PanelInv'
<1>1. ASSUME Config!Init PROVE PanelInv
  <2>1. /\ held = [p \in Profiles |-> 0] /\ profile \in Profiles /\ form = {}
        /\ reads = [i \in Config!Id |-> Config!Blank]
    BY <1>1 DEF Config!Init
  <2>2. Config!Blank \in PanelRequests /\ Config!Blank.phase = "done"
    <3>1. PICK p : p = CHOOSE q \in Profiles : TRUE
      OBVIOUS
    <3>2. p \in Profiles
      BY <2>1, <3>1
    <3>3. Config!Blank = [kind |-> "read", of |-> p, val |-> 0, phase |-> "done"]
      BY <3>1 DEF Config!Blank
    <3>4. PICK y : y = [kind |-> "read", of |-> p, val |-> 0, phase |-> "done"]
      OBVIOUS
    <3>5. y \in PanelRequests /\ y.phase = "done"
      BY <3>2, <3>4 DEF PanelRequests, Values, Config!Phase
    <3>6. Config!Blank = y
      BY <3>3, <3>4
    <3> QED
      BY <3>4, <3>5, <3>6
  <2>3. /\ reads \in [Config!Id -> PanelRequests]
        /\ \A i \in Config!InFlight : FALSE
    BY <2>1, <2>2 DEF Config!InFlight
  <2>4. held \in [Profiles -> Values]
    BY <2>1 DEF Values
  <2> QED
    BY <2>1, <2>3, <2>4 DEF PanelInv
<1>2. ASSUME PanelInv, UNCHANGED <<held, profile, form, reads, reopened, stirred, status>>
      PROVE  PanelInv'
    BY <1>2 DEF PanelInv, Unheard, Config!InFlight, Config!Busy
<1>3. ASSUME PanelInv, NEW p \in Profiles, Config!Open(p) \/ Config!Turn(p) \/ Config!Select(p)
      PROVE  PanelInv'
  <2>1. CASE Config!InFlight = {}
    <3>1. /\ profile' = p /\ form' = {} /\ Config!Send("read", p, 0) /\ UNCHANGED held
          /\ 0 \in Values
      BY <1>3 DEF Config!Open, Config!Turn, Config!Select, Values
    <3> QED
      BY <1>3, <2>1, <3>1, SendKeeps
  <2>2. CASE Config!InFlight # {}
    <3>1. ~reopened => Config!Busy
      BY <1>3, <2>2 DEF PanelInv
    <3>2. reopened'
      <4>1. CASE Config!Open(p) \/ Config!Turn(p)
        <5>1. reopened' = (Config!InFlight # {})
          BY <4>1 DEF Config!Open, Config!Turn
        <5> QED
          BY <2>2, <5>1, Zenon
      <4>2. CASE Config!Select(p)
        <5>1. ~Config!Busy /\ reopened' = reopened
          BY <4>2 DEF Config!Select, Config!MaySelect, Config!history
        <5> QED
          BY <3>1, <5>1, Zenon
      <4> QED
        BY <1>3, <4>1, <4>2
    <3>3. reads' \in [Config!Id -> PanelRequests]
      <4>1. PICK y : y = [kind |-> "read", of |-> p, val |-> 0, phase |-> "get"]
        OBVIOUS
      <4>2. y \in PanelRequests
        BY <4>1 DEF PanelRequests, Values, Config!Phase
      <4>3. reads' = [reads EXCEPT ![readsSent + 1] = y]
        BY <1>3, <4>1 DEF Config!Open, Config!Turn, Config!Select, Config!Send
      <4> QED
        BY <1>3, <4>2, <4>3 DEF PanelInv
    <3>4. held' \in [Profiles -> Values] /\ profile' \in Profiles
      BY <1>3 DEF Config!Open, Config!Turn, Config!Select, PanelInv
    <3> QED
      BY <3>2, <3>3, <3>4 DEF PanelInv
  <2> QED
    BY <2>1, <2>2
<1>4. ASSUME PanelInv, Config!Reread \/ \E v \in Config!Value : Config!Apply(v) PROVE PanelInv'
  <2>1. PICK k \in {"read", "write"}, v \in Values : Config!Send(k, profile, v)
    BY <1>4 DEF Config!Reread, Config!Apply, Values
  <2>2. /\ UNCHANGED held /\ UNCHANGED profile /\ UNCHANGED form /\ UNCHANGED reopened
        /\ UNCHANGED stirred /\ ~Config!Busy
    BY <1>4 DEF Config!Reread, Config!Apply, Config!history
  <2>3. CASE reopened
    <3>1. PICK ph \in Config!Phase : ph = IF k = "read" THEN "get" ELSE "set"
      BY DEF Config!Phase
    <3>2. PICK y : y = [kind |-> k, of |-> profile, val |-> v, phase |-> ph]
      OBVIOUS
    <3>3. y \in PanelRequests
      BY <1>4, <3>2 DEF PanelRequests, PanelInv
    <3>4. reads' = [reads EXCEPT ![readsSent + 1] = y]
      BY <2>1, <3>1, <3>2 DEF Config!Send
    <3>5. reads' \in [Config!Id -> PanelRequests]
      BY <1>4, <3>3, <3>4 DEF PanelInv
    <3> QED
      BY <1>4, <2>2, <2>3, <3>5 DEF PanelInv
  <2>4. CASE ~reopened
    <3>1. Config!InFlight = {} /\ profile \in Profiles
      BY <1>4, <2>2, <2>4 DEF PanelInv
    <3> QED
      BY <1>4, <2>1, <2>2, <2>4, <3>1, SendKeeps
  <2> QED
    BY <2>3, <2>4
<1>5. ASSUME PanelInv, \E p \in Profiles, v \in Config!Value : Config!OtherSet(p, v)
      PROVE  PanelInv'
  <2>1. PICK p \in Profiles, v \in Values : held' = [held EXCEPT ![p] = v]
    BY <1>5 DEF Config!OtherSet, Values
  <2>2. /\ UNCHANGED profile /\ UNCHANGED form /\ UNCHANGED reads /\ UNCHANGED reopened
        /\ UNCHANGED status /\ stirred'
    BY <1>5 DEF Config!OtherSet, Config!ui
  <2>3. held' \in [Profiles -> Values]
    BY <1>5, <2>1 DEF PanelInv
  <2> QED
    BY <1>5, <2>2, <2>3 DEF PanelInv, Config!InFlight, Config!Busy
<1> QED
  <2>1. ASSUME PanelInv, [Config!Next]_(Config!vars) PROVE PanelInv'
    <3>1. CASE UNCHANGED <<held, profile, form, reads, reopened, stirred, status>>
      BY <1>2, <2>1, <3>1
    <3>2. CASE \E p \in Profiles : Config!Open(p) \/ Config!Turn(p) \/ Config!Select(p)
      BY <1>3, <2>1, <3>2
    <3>3. CASE Config!Reread \/ \E v \in Config!Value : Config!Apply(v)
      BY <1>4, <2>1, <3>3
    <3>4. CASE \E p \in Profiles, v \in Config!Value : Config!OtherSet(p, v)
      BY <1>5, <2>1, <3>4
    <3>5. CASE \E i \in Config!Id : \/ Config!Unanswered(i) \/ Config!Get(i) \/ Config!Set(i)
                                    \/ Config!SetLate(i) \/ Config!Refuse(i)
      BY <2>1, <3>5, DeviceKeeps
    <3>6. CASE \E i \in Config!Id : Config!Land(i)
      BY <2>1, <3>6, LandKeeps
    <3>7. CASE Config!Close \/ Config!Connection \/ UNCHANGED Config!vars
      BY <3>1, <3>7 DEF Config!Close, Config!Connection, Config!vars, Config!ui, Config!history
    <3> QED
      BY <2>1, <3>2, <3>3, <3>4, <3>5, <3>6, <3>7 DEF Config!Next
  <2> QED
    BY <1>1, <2>1

\* For any profiles, values, cuts and writes of others: once nothing is under way the
\* panel shows what the device holds, unless it was opened, or turned to a device just
\* added, over a request still under way, or the device was written behind its back.
THEOREM PanelShowsTheDevice == Config!Spec => []FormIsHeld
<1>1. PanelInv => FormIsHeld
  <2> SUFFICES ASSUME PanelInv, Config!InFlight = {}, ~reopened, ~stirred, NEW s \in form
               PROVE  s.of = profile /\ s.val = held[profile]
    BY DEF FormIsHeld, Config!FormIsHeld
  <2>1. \A i \in Config!Id : ~Unheard(i)
    BY DEF Unheard
  <2> QED
    BY <2>1 DEF PanelInv
<1> QED
  BY <1>1, PanelInvariant, PTL DEF Config!Spec

(***************************************************************************)
(* The dashboard page, for any vehicles, shapes, requests and positions.   *)
(***************************************************************************)
Page == INSTANCE Dashboard WITH
          Devices <- Vehicles, New <- NewVehicles, MaxRequest <- MaxPageRequest,
          devices <- vehicles, fences <- shapes, drawn <- sketched

Picked == Vehicles \cup {Page!None}
PageRequests == [op : Page!Op, of : Picked, shape : Nat, was : Picked,
                 phase : {"idle", "sent", "answered", "listing"}]

\* Requests are made in the order of their numbers.
RequestsFit ==
    /\ requests \in [Page!Id -> PageRequests]
    /\ sent \in Nat
    /\ \A i \in Page!Id : i > sent => requests[i].phase = "idle"
    /\ selected \in Picked /\ pending \in Nat

\* Only the device selected is followed.
ViewFits ==
    /\ follow \in Picked /\ at \in [Vehicles -> Nat]
    /\ follow # Page!None => follow = selected
    /\ Page!FollowKeepsCamera

\* Unless the selection changed over a removal: what is selected is live, or its
\* removal is about to clear the selection, as every removal under way would.
Clearing(i) ==
    /\ requests[i].op = "delete" /\ requests[i].phase = "answered"
    /\ requests[i].of = selected /\ requests[i].was = selected

SelectionFits ==
    ~crossed =>
       /\ selected \in live \cup {Page!None} \/ \E i \in Page!Id : Clearing(i)
       /\ \A i \in Page!InFlight("delete") :
             selected = Page!None \/ requests[i].was = selected

\* No shape is drawn while another waits for its name; unless it was drawn over a
\* save, every save under way is of the shape that waits; and a save that the server
\* has answered has been kept.
DrawingFits ==
    /\ sketched \in Nat
    /\ draw # "none" => pending = 0
    /\ pending # 0 /\ pending \notin overlapped =>
          \A i \in Page!InFlight("save") : requests[i].shape = pending
    /\ \A i \in Page!InFlight("save") : requests[i].phase # "sent" => requests[i].shape \in kept
    /\ Page!DrawnIsKept

PageInv == RequestsFit /\ ViewFits /\ SelectionFits /\ DrawingFits

LEMMA ViewStays ==
    ASSUME ViewFits, UNCHANGED <<selected, follow, at, camera, strayed>>
    PROVE  ViewFits'
BY DEF ViewFits, Page!FollowKeepsCamera

LEMMA SelectionStays ==
    ASSUME SelectionFits, UNCHANGED <<selected, live, crossed, requests>>
    PROVE  SelectionFits'
BY DEF SelectionFits, Clearing, Page!InFlight

LEMMA DrawingStays ==
    ASSUME DrawingFits,
           UNCHANGED <<requests, draw, pending, sketched, kept, dropped, overlapped>>
    PROVE  DrawingFits'
BY DEF DrawingFits, Page!DrawnIsKept, Page!InFlight

LEMMA RequestsStay ==
    ASSUME RequestsFit, UNCHANGED <<requests, sent, pending>>, selected' \in Picked
    PROVE  RequestsFit'
BY DEF RequestsFit

\* What the user does with the selection and the camera.
LEMMA LookKeeps ==
    ASSUME PageInv,
           \/ \E d \in Vehicles : Page!SelectDevice(d) \/ Page!Move(d) \/ Page!HistoryComes(d)
           \/ Page!CloseCard \/ Page!Centre \/ Page!ToggleFollow \/ Page!Stray
    PROVE  PageInv'
<1>1. /\ UNCHANGED <<live, requests, sent, pending>>
      /\ UNCHANGED <<draw, sketched, kept, dropped, overlapped>>
    BY DEF Page!SelectDevice, Page!Move, Page!HistoryComes, Page!CloseCard, Page!Centre,
       Page!ToggleFollow, Page!Stray, Page!server, Page!calls, Page!sketch
<1>2. DrawingFits'
    BY <1>1, DrawingStays DEF PageInv
<1>3. /\ selected \in Picked /\ follow \in Picked /\ at \in [Vehicles -> Nat]
      /\ follow # Page!None => follow = selected
      /\ Page!FollowKeepsCamera
    BY DEF PageInv, RequestsFit, ViewFits
<1>4. ASSUME NEW d \in Vehicles, Page!SelectDevice(d)
      PROVE  selected' \in Picked /\ ViewFits' /\ SelectionFits'
  <2>1. /\ selected' = d /\ follow' = IF follow = d THEN d ELSE Page!None
        /\ crossed' = (d \notin live \/ Page!InFlight("delete") # {})
        /\ camera' = IF at[d] = 0 THEN camera ELSE [of |-> d, n |-> at[d]]
        /\ strayed' = (strayed /\ at[d] = 0) /\ UNCHANGED at
    BY <1>4 DEF Page!SelectDevice, Page!Choose, Page!PanTo
  <2>2. ViewFits'
    BY <1>3, <2>1 DEF ViewFits, Page!FollowKeepsCamera, Picked
  <2>3. ~crossed' => d \in live /\ Page!InFlight("delete") = {}
    BY <2>1
  <2>4. SelectionFits'
    BY <1>1, <2>1, <2>3 DEF SelectionFits, Page!InFlight
  <2> QED
    BY <2>1, <2>2, <2>4 DEF Picked
<1>5. ASSUME Page!CloseCard PROVE selected' \in Picked /\ ViewFits' /\ SelectionFits'
  <2>1. /\ selected' = Page!None /\ follow' = Page!None /\ UNCHANGED at
        /\ crossed' = (Page!InFlight("delete") # {})
    BY <1>5 DEF Page!CloseCard
  <2> QED
    BY <1>1, <1>3, <2>1 DEF Picked, ViewFits, SelectionFits, Page!FollowKeepsCamera
<1>6. ASSUME Page!Centre \/ Page!ToggleFollow \/ Page!Stray \/ \E d \in Vehicles : Page!HistoryComes(d)
      PROVE  selected' \in Picked /\ ViewFits' /\ SelectionFits'
  <2>1. UNCHANGED <<selected, crossed, at>>
    BY <1>6 DEF Page!Centre, Page!ToggleFollow, Page!Stray, Page!HistoryComes
  <2>2. SelectionFits'
    BY <1>1, <2>1, SelectionStays DEF PageInv
  <2>3. CASE Page!Centre
    <3>1. /\ UNCHANGED follow /\ strayed' = (strayed /\ follow # selected)
          /\ at[selected] # 0 /\ camera' = [of |-> selected, n |-> at[selected]]
      BY <2>3 DEF Page!Centre, Page!PanTo
    <3> QED
      BY <1>3, <2>1, <2>2, <3>1 DEF ViewFits, Page!FollowKeepsCamera
  <2>4. CASE Page!ToggleFollow
    <3>1. \/ follow' = Page!None
          \/ /\ follow' = selected /\ at[selected] # 0
             /\ camera' = [of |-> selected, n |-> at[selected]]
      BY <2>4 DEF Page!ToggleFollow, Page!PanTo
    <3> QED
      BY <1>3, <2>1, <2>2, <3>1 DEF ViewFits, Page!FollowKeepsCamera, Picked
  <2>5. CASE Page!Stray
    <3>1. UNCHANGED follow /\ strayed'
      BY <2>5 DEF Page!Stray
    <3> QED
      BY <1>3, <2>1, <2>2, <3>1 DEF ViewFits, Page!FollowKeepsCamera
  <2>6. CASE \E d \in Vehicles : Page!HistoryComes(d)
    <3>1. /\ UNCHANGED follow /\ UNCHANGED strayed
          /\ UNCHANGED camera \/ follow = Page!None
      BY <2>6 DEF Page!HistoryComes, Page!MayFit
    <3> QED
      BY <1>3, <2>1, <2>2, <3>1 DEF ViewFits, Page!FollowKeepsCamera
  <2> QED
    BY <1>6, <2>3, <2>4, <2>5, <2>6
<1>7. ASSUME NEW d \in Vehicles, Page!Move(d)
      PROVE  selected' \in Picked /\ ViewFits' /\ SelectionFits'
  <2>1. UNCHANGED <<selected, crossed, follow>> /\ at' = [at EXCEPT ![d] = at[d] + 1]
        /\ IF follow = d THEN camera' = [of |-> d, n |-> at'[d]] /\ strayed' = FALSE
           ELSE UNCHANGED <<camera, strayed>>
    BY <1>7 DEF Page!Move
  <2>2. SelectionFits'
    BY <1>1, <2>1, SelectionStays DEF PageInv
  <2>3. at' \in [Vehicles -> Nat] /\ \A v \in Vehicles : v # d => at'[v] = at[v]
    BY <1>3, <2>1
  <2> QED
    BY <1>3, <2>1, <2>2, <2>3 DEF ViewFits, Page!FollowKeepsCamera, Picked
<1> QED
    BY <1>1, <1>2, <1>4, <1>5, <1>6, <1>7, RequestsStay DEF PageInv

\* What the user draws.
LEMMA SketchKeeps ==
    ASSUME PageInv,
           \/ Page!TogglePanel \/ Page!Click \/ Page!DoubleClick \/ Page!Discard
           \/ \E mode \in {"none", "circle", "polygon"} : Page!Draw(mode)
    PROVE  PageInv'
<1>1. /\ UNCHANGED <<live, requests, sent, selected, follow>>
      /\ UNCHANGED <<at, camera, strayed, crossed>>
    BY DEF Page!TogglePanel, Page!Click, Page!DoubleClick, Page!Discard, Page!Draw,
       Page!server, Page!calls, Page!view
<1>2. ViewFits' /\ SelectionFits'
    BY <1>1, ViewStays, SelectionStays DEF PageInv
<1>3. /\ sketched \in Nat /\ pending \in Nat
      /\ draw # "none" => pending = 0
      /\ pending # 0 /\ pending \notin overlapped =>
            \A i \in Page!InFlight("save") : requests[i].shape = pending
      /\ \A i \in Page!InFlight("save") : requests[i].phase # "sent" => requests[i].shape \in kept
      /\ \A s \in 1..sketched : s \in kept \cup dropped \cup overlapped \cup {pending}
    BY DEF PageInv, RequestsFit, DrawingFits, Page!DrawnIsKept
<1>4. Page!InFlight("save")' = Page!InFlight("save")
    BY <1>1 DEF Page!InFlight
<1>5. ASSUME NEW f \in BOOLEAN, Page!Drawn(f), draw # "none"
      PROVE  pending' \in Nat /\ DrawingFits'
  <2>1. /\ sketched' = sketched + 1 /\ pending' = sketched + 1 /\ draw' = "none"
        /\ overlapped' = IF Page!InFlight("save") = {} THEN overlapped
                         ELSE overlapped \cup {sketched + 1}
        /\ UNCHANGED <<kept, dropped>>
    BY <1>5 DEF Page!Drawn
  <2>2. sketched' \in Nat /\ pending' \in Nat
    BY <1>3, <2>1
  <2>3. \A s \in 1..sketched' : s \in 1..sketched \/ s = pending'
    BY <1>3, <2>1
  <2>4. \A s \in 1..sketched : s # pending
    BY <1>3, <1>5
  <2>5. Page!DrawnIsKept'
    BY <1>3, <2>1, <2>3, <2>4 DEF Page!DrawnIsKept
  <2>6. pending' \notin overlapped' => Page!InFlight("save") = {}
    BY <2>1
  <2> QED
    BY <1>1, <1>3, <1>4, <2>1, <2>2, <2>5, <2>6 DEF DrawingFits
<1>6. CASE Page!Discard
  <2>1. pending' = 0 /\ dropped' = dropped \cup {pending}
        /\ UNCHANGED <<draw, sketched, kept, overlapped>>
    BY <1>6 DEF Page!Discard
  <2> QED
    BY <1>1, <1>2, <1>3, <1>4, <2>1 DEF PageInv, RequestsFit, DrawingFits, Page!DrawnIsKept
<1>7. CASE UNCHANGED <<pending, sketched, kept, dropped, overlapped>>
           /\ (draw' # "none" => pending = 0)
  <2>1. DrawingFits'
    BY <1>1, <1>3, <1>4, <1>7 DEF DrawingFits, Page!DrawnIsKept
  <2>2. RequestsFit'
    BY <1>1, <1>7 DEF PageInv, RequestsFit
  <2> QED
    BY <1>2, <2>1, <2>2 DEF PageInv
<1>8. CASE \E f \in BOOLEAN : Page!Drawn(f) /\ draw # "none"
  <2>1. pending' \in Nat /\ DrawingFits'
    BY <1>5, <1>8
  <2> QED
    BY <1>1, <1>2, <2>1 DEF PageInv, RequestsFit
<1>9. CASE Page!TogglePanel \/ Page!Click \/ Page!DoubleClick
           \/ \E mode \in {"none", "circle", "polygon"} : Page!Draw(mode)
    BY <1>3, <1>7, <1>8, <1>9 DEF Page!TogglePanel, Page!Click, Page!DoubleClick, Page!Draw,
       Page!sketch
<1> QED
    BY <1>6, <1>9

\* A request is started.
LEMMA StartKeeps ==
    ASSUME PageInv, NEW op \in Page!Op, NEW d \in Picked, NEW s \in Nat, Page!Start(op, d, s),
           op = "save" => s = pending
    PROVE  PageInv'
<1>1. /\ UNCHANGED <<live, selected, follow, at, camera, strayed, crossed>>
      /\ UNCHANGED <<draw, pending, sketched, kept, dropped, overlapped>>
      /\ sent' = sent + 1
    BY DEF Page!Start, Page!server, Page!view, Page!sketch
<1>2. PICK y : y = [op |-> op, of |-> d, shape |-> s, was |-> selected, phase |-> "sent"]
    OBVIOUS
<1>3. y \in PageRequests /\ y.op = op /\ y.shape = s /\ y.was = selected /\ y.phase = "sent"
    BY <1>2 DEF PageInv, RequestsFit, PageRequests
<1>4. requests' = [requests EXCEPT ![sent + 1] = y]
    BY <1>1, <1>2 DEF Page!Start
<1>5. /\ requests \in [Page!Id -> PageRequests] /\ sent \in Nat
      /\ \A i \in Page!Id : i > sent => requests[i].phase = "idle"
    BY DEF PageInv, RequestsFit
<1>6. /\ requests' \in [Page!Id -> PageRequests]
      /\ \A i \in Page!Id : /\ i # sent + 1 => requests'[i] = requests[i]
                            /\ i = sent + 1 => requests'[i] = y /\ requests[i].phase = "idle"
  <2>1. PICK n : n = sent + 1
    OBVIOUS
  <2>2. \A i \in Page!Id : i = n => i > sent
    BY <1>5, <2>1
  <2>3. requests' = [requests EXCEPT ![n] = y]
    BY <1>4, <2>1
  <2>4. /\ requests' \in [Page!Id -> PageRequests]
        /\ \A i \in Page!Id : /\ i # n => requests'[i] = requests[i]
                              /\ i = n => requests'[i] = y
    BY <1>3, <1>5, <2>3
  <2> QED
    BY <1>5, <2>1, <2>2, <2>4
<1>7. RequestsFit'
  <2>1. \A i \in Page!Id : i > sent' => i > sent /\ i # sent + 1
    BY <1>1, <1>5 DEF Page!Id
  <2> QED
    BY <1>1, <1>5, <1>6, <2>1 DEF PageInv, RequestsFit
<1>8. ViewFits'
    BY <1>1, ViewStays DEF PageInv
<1>9. SelectionFits'
  <2>1. \A i \in Page!Id : Clearing(i) => Clearing(i)'
    BY <1>1, <1>6 DEF Clearing
  <2>2. \A i \in Page!InFlight("delete")' :
           \/ requests'[i].was = selected
           \/ i \in Page!InFlight("delete") /\ requests'[i] = requests[i]
    BY <1>3, <1>6 DEF Page!InFlight
  <2> QED
    BY <1>1, <2>1, <2>2 DEF PageInv, SelectionFits
<1>10. DrawingFits'
  <2>1. \A i \in Page!InFlight("save")' :
           \/ requests'[i].shape = pending /\ requests'[i].phase = "sent"
           \/ i \in Page!InFlight("save") /\ requests'[i] = requests[i]
    BY <1>3, <1>6 DEF Page!InFlight
  <2> QED
    BY <1>1, <2>1 DEF PageInv, DrawingFits, Page!DrawnIsKept
<1> QED
    BY <1>7, <1>8, <1>9, <1>10 DEF PageInv

\* A request that goes on is the same request.
LEMMA CallGoesOn ==
    ASSUME RequestsFit, NEW i \in Page!Id, NEW ph \in {"answered", "listing"},
           requests[i].phase # "idle", requests' = [requests EXCEPT ![i].phase = ph]
    PROVE  /\ requests' \in [Page!Id -> PageRequests]
           /\ requests'[i].op = requests[i].op /\ requests'[i].of = requests[i].of
           /\ requests'[i].shape = requests[i].shape /\ requests'[i].was = requests[i].was
           /\ requests'[i].phase = ph
           /\ \A j \in Page!Id : j # i => requests'[j] = requests[j]
           /\ \A j \in Page!Id : j > sent => requests'[j].phase = "idle"
<1>1. requests \in [Page!Id -> PageRequests]
      /\ \A j \in Page!Id : j > sent => requests[j].phase = "idle"
    BY DEF RequestsFit
<1>2. PICK x \in PageRequests : x = requests[i]
    BY <1>1
<1>3. PICK y : y = [x EXCEPT !.phase = ph]
    OBVIOUS
<1>4. /\ y \in PageRequests /\ y.op = x.op /\ y.of = x.of /\ y.shape = x.shape
      /\ y.was = x.was /\ y.phase = ph
    BY <1>3 DEF PageRequests
<1>5. requests' = [requests EXCEPT ![i] = y]
    BY <1>2, <1>3
<1>6. requests'[i] = y /\ \A j \in Page!Id : j # i => requests'[j] = requests[j]
    BY <1>1, <1>5
<1>7. requests' \in [Page!Id -> PageRequests]
    BY <1>1, <1>4, <1>5
<1> QED
    BY <1>1, <1>2, <1>4, <1>6, <1>7

\* One that ends leaves its place idle.
LEMMA CallEnds ==
    ASSUME RequestsFit, NEW i \in Page!Id, Page!Finish(i)
    PROVE  /\ requests' \in [Page!Id -> PageRequests] /\ requests'[i].phase = "idle"
           /\ \A j \in Page!Id : j # i => requests'[j] = requests[j]
           /\ \A j \in Page!Id : j > sent => requests'[j].phase = "idle"
<1>1. PICK y : y = Page!Idle
    OBVIOUS
<1>2. y \in PageRequests /\ y.phase = "idle"
  <2>1. y = [op |-> "edit", of |-> Page!None, shape |-> 0, was |-> Page!None, phase |-> "idle"]
    BY <1>1 DEF Page!Idle
  <2> QED
    BY <2>1 DEF PageRequests, Page!Op, Picked
<1>3. requests' = [requests EXCEPT ![i] = y]
    BY <1>1 DEF Page!Finish
<1> QED
    BY <1>2, <1>3 DEF RequestsFit

\* What the server does, done or not done, for a request that is on its way.
LEMMA AppliesFacts ==
    ASSUME NEW x, Page!Applies(x)
    PROVE  /\ kept \subseteq kept' /\ (x.op = "save" => x.shape \in kept')
           /\ live \subseteq live' \/ (x.op = "delete" /\ live' = live \ {x.of})
BY DEF Page!Applies

\* The server does its part.
LEMMA ServeKeeps ==
    ASSUME PageInv, NEW i \in Page!Id, Page!Serve(i)
    PROVE  PageInv'
<1>1. /\ UNCHANGED <<sent, selected, follow, at, camera, strayed, crossed>>
      /\ UNCHANGED <<draw, pending, sketched, dropped, overlapped>>
      /\ requests[i].phase = "sent" /\ Page!Applies(requests[i])
      /\ requests' = [requests EXCEPT ![i].phase = "answered"]
    BY DEF Page!Serve, Page!Phase, Page!view
<1>2. PICK x : x = requests[i]
    OBVIOUS
<1>3. /\ requests' \in [Page!Id -> PageRequests]
      /\ requests'[i].op = x.op /\ requests'[i].of = x.of
      /\ requests'[i].shape = x.shape /\ requests'[i].was = x.was
      /\ requests'[i].phase = "answered" /\ x.phase = "sent"
      /\ \A j \in Page!Id : j # i => requests'[j] = requests[j]
      /\ \A j \in Page!Id : j > sent => requests'[j].phase = "idle"
    BY <1>1, <1>2, CallGoesOn DEF PageInv
<1>4. /\ kept \subseteq kept' /\ (x.op = "save" => x.shape \in kept')
      /\ live \subseteq live' \/ (x.op = "delete" /\ live' = live \ {x.of})
    BY <1>1, <1>2, AppliesFacts
<1>5. \A o \in {"delete", "save"}, j \in Page!Id :
         j \in Page!InFlight(o)' <=> j \in Page!InFlight(o)
    BY <1>2, <1>3 DEF Page!InFlight
<1>6. RequestsFit'
    BY <1>1, <1>3 DEF PageInv, RequestsFit
<1>7. ViewFits'
    BY <1>1, ViewStays DEF PageInv
<1>8. SelectionFits'
  <2>1. ASSUME ~crossed
        PROVE  selected \in live' \cup {Page!None} \/ \E j \in Page!Id : Clearing(j)'
    <3>1. \A j \in Page!Id : Clearing(j) => Clearing(j)'
      BY <1>1, <1>2, <1>3 DEF Clearing
    <3>2. selected \in live \cup {Page!None} \/ \E j \in Page!Id : Clearing(j)
      BY <2>1 DEF PageInv, SelectionFits
    <3>3. CASE x.op = "delete" /\ x.of = selected /\ selected # Page!None
      <4>1. i \in Page!InFlight("delete")
        BY <1>2, <1>3, <3>3 DEF Page!InFlight
      <4>2. x.was = selected
        BY <1>2, <2>1, <3>3, <4>1 DEF PageInv, SelectionFits
      <4>3. Clearing(i)'
        BY <1>1, <1>3, <3>3, <4>2 DEF Clearing
      <4> QED
        BY <4>3
    <3> QED
      BY <1>4, <3>1, <3>2, <3>3
  <2>2. \A j \in Page!Id : requests'[j].was = requests[j].was
    BY <1>2, <1>3
  <2>3. \A j \in Page!InFlight("delete")' : j \in Page!Id /\ j \in Page!InFlight("delete")
    BY <1>5 DEF Page!InFlight
  <2> QED
    BY <1>1, <2>1, <2>2, <2>3 DEF PageInv, SelectionFits
<1>9. DrawingFits'
  <2>1. \A j \in Page!Id : requests'[j].shape = requests[j].shape
    BY <1>2, <1>3
  <2>2. \A j \in Page!InFlight("save")' : j \in Page!Id /\ j \in Page!InFlight("save")
    BY <1>5 DEF Page!InFlight
  <2>3. \A j \in Page!InFlight("save")' : requests'[j].phase # "sent" => requests'[j].shape \in kept'
    <3> SUFFICES ASSUME NEW j \in Page!InFlight("save")', requests'[j].phase # "sent"
                 PROVE  requests'[j].shape \in kept'
      OBVIOUS
    <3>1. j \in Page!Id /\ requests'[j].op = "save"
      BY DEF Page!InFlight
    <3>2. CASE j = i
      BY <1>3, <1>4, <3>1, <3>2
    <3>3. CASE j # i
      BY <1>3, <1>4, <2>2, <3>1, <3>3 DEF PageInv, DrawingFits
    <3> QED
      BY <3>2, <3>3
  <2> QED
    BY <1>1, <1>4, <2>1, <2>2, <2>3 DEF PageInv, DrawingFits, Page!DrawnIsKept
<1> QED
    BY <1>6, <1>7, <1>8, <1>9 DEF PageInv

\* A request fails, its effect applied or not.
LEMMA FailKeeps ==
    ASSUME PageInv, NEW i \in Page!Id, Page!Fail(i)
    PROVE  PageInv'
<1>1. /\ UNCHANGED <<sent, selected, follow, at, camera, strayed>>
      /\ UNCHANGED <<draw, pending, sketched, dropped, overlapped>>
      /\ requests[i].phase = "sent" /\ Page!Finish(i)
      /\ Page!Applies(requests[i]) \/ UNCHANGED <<live, kept>>
      /\ crossed' = (crossed \/ live' # live)
    BY DEF Page!Fail, Page!AfterFailure
<1>2. /\ requests' \in [Page!Id -> PageRequests] /\ requests'[i].phase = "idle"
      /\ \A j \in Page!Id : j # i => requests'[j] = requests[j]
      /\ \A j \in Page!Id : j > sent => requests'[j].phase = "idle"
    BY <1>1, CallEnds DEF PageInv
<1>3. kept \subseteq kept'
  <2>1. PICK x : x = requests[i]
    OBVIOUS
  <2> QED
    BY <1>1, <2>1, AppliesFacts
<1>4. \A o \in {"delete", "save"}, j \in Page!Id :
         j \in Page!InFlight(o)' => j \in Page!InFlight(o) /\ requests'[j] = requests[j]
    BY <1>2 DEF Page!InFlight
<1>5. RequestsFit'
    BY <1>1, <1>2 DEF PageInv, RequestsFit
<1>6. ViewFits'
    BY <1>1, ViewStays DEF PageInv
<1>7. SelectionFits'
  <2>1. \A j \in Page!Id : Clearing(j) => Clearing(j)'
    BY <1>1, <1>2 DEF Clearing
  <2>2. ~crossed' => ~crossed /\ live' = live
    BY <1>1
  <2>3. \A j \in Page!InFlight("delete")' : j \in Page!InFlight("delete") /\ requests'[j] = requests[j]
    BY <1>4 DEF Page!InFlight
  <2> QED
    BY <1>1, <2>1, <2>2, <2>3 DEF PageInv, SelectionFits
<1>8. DrawingFits'
  <2>1. \A j \in Page!InFlight("save")' : j \in Page!InFlight("save") /\ requests'[j] = requests[j]
    BY <1>4 DEF Page!InFlight
  <2> QED
    BY <1>1, <1>3, <2>1 DEF PageInv, DrawingFits, Page!DrawnIsKept
<1> QED
    BY <1>5, <1>6, <1>7, <1>8 DEF PageInv

\* The answer comes.
LEMMA AnswerKeeps ==
    ASSUME PageInv, NEW i \in Page!Id, Page!Answer(i)
    PROVE  PageInv'
<1>1. PICK x : x = requests[i]
    OBVIOUS
<1>2. /\ UNCHANGED <<live, sent, at, camera, strayed, crossed>>
      /\ UNCHANGED <<draw, sketched, kept, dropped, overlapped>>
      /\ x.phase = "answered" /\ requests' = [requests EXCEPT ![i].phase = "listing"]
      /\ pending' = IF x.op = "save" THEN 0 ELSE pending
      /\ IF x.op = "delete" /\ x.of = x.was
         THEN selected' = Page!None /\ follow' = Page!None
         ELSE UNCHANGED <<selected, follow>>
    BY <1>1 DEF Page!Answer, Page!Phase, Page!WasSelected, Page!server
<1>3. /\ requests' \in [Page!Id -> PageRequests]
      /\ requests'[i].op = x.op /\ requests'[i].of = x.of
      /\ requests'[i].shape = x.shape /\ requests'[i].was = x.was
      /\ requests'[i].phase = "listing"
      /\ \A j \in Page!Id : j # i => requests'[j] = requests[j]
      /\ \A j \in Page!Id : j > sent => requests'[j].phase = "idle"
    BY <1>1, <1>2, CallGoesOn DEF PageInv
<1>4. \A o \in {"delete", "save"}, j \in Page!Id :
         j \in Page!InFlight(o)' <=> j \in Page!InFlight(o)
    BY <1>1, <1>2, <1>3 DEF Page!InFlight
<1>5. RequestsFit'
    BY <1>2, <1>3 DEF PageInv, RequestsFit, Picked
<1>6. ViewFits'
    BY <1>2 DEF PageInv, ViewFits, Page!FollowKeepsCamera, Picked
<1>7. SelectionFits'
  <2>1. \A j \in Page!Id : requests'[j].was = requests[j].was
    BY <1>1, <1>3
  <2>2. \A j \in Page!InFlight("delete")' : j \in Page!Id /\ j \in Page!InFlight("delete")
    BY <1>4 DEF Page!InFlight
  <2>3. CASE x.op = "delete" /\ x.of = x.was
    BY <1>2, <2>3 DEF SelectionFits
  <2>4. CASE ~(x.op = "delete" /\ x.of = x.was)
    <3>1. \A j \in Page!Id : Clearing(j) => j # i
      BY <1>1, <2>4 DEF Clearing
    <3>2. \A j \in Page!Id : Clearing(j) => Clearing(j)'
      BY <1>2, <1>3, <2>4, <3>1 DEF Clearing
    <3> QED
      BY <1>2, <2>1, <2>2, <2>4, <3>2 DEF PageInv, SelectionFits
  <2> QED
    BY <2>3, <2>4
<1>8. DrawingFits'
  <2>1. \A j \in Page!Id : requests'[j].shape = requests[j].shape
    BY <1>1, <1>3
  <2>2. \A j \in Page!InFlight("save")' : j \in Page!Id /\ j \in Page!InFlight("save")
    BY <1>4 DEF Page!InFlight
  <2>3. \A j \in Page!Id : requests'[j].phase # "sent" => requests[j].phase # "sent"
    BY <1>1, <1>2, <1>3
  <2>4. Page!DrawnIsKept'
    <3>1. CASE x.op # "save"
      BY <1>2, <3>1 DEF PageInv, DrawingFits, Page!DrawnIsKept
    <3>2. CASE x.op = "save"
      <4>1. i \in Page!InFlight("save") /\ x.shape \in kept
        BY <1>1, <1>2, <3>2 DEF Page!InFlight, PageInv, DrawingFits
      <4>2. pending # 0 /\ pending \notin overlapped => pending \in kept
        BY <1>1, <4>1 DEF PageInv, DrawingFits
      <4>3. \A s \in 1..sketched : s \in kept \cup dropped \cup overlapped \cup {pending}
        BY DEF PageInv, DrawingFits, Page!DrawnIsKept
      <4>4. \A s \in 1..sketched : s \in kept \cup dropped \cup overlapped
        BY <4>2, <4>3
      <4> QED
        BY <1>2, <4>4 DEF Page!DrawnIsKept
    <3> QED
      BY <3>1, <3>2
  <2>5. draw # "none" => pending' = 0
    BY <1>2 DEF PageInv, DrawingFits
  <2> QED
    BY <1>2, <2>1, <2>2, <2>3, <2>4, <2>5 DEF PageInv, DrawingFits
<1> QED
    BY <1>5, <1>6, <1>7, <1>8 DEF PageInv

\* The list is read again; a device added is selected.
LEMMA RelistKeeps ==
    ASSUME PageInv, NEW i \in Page!Id, Page!Relist(i)
    PROVE  PageInv'
<1>1. PICK d \in Picked : d = requests[i].of
    BY DEF PageInv, RequestsFit, PageRequests
<1>2. /\ UNCHANGED <<live, sent, at, camera, strayed>>
      /\ UNCHANGED <<draw, pending, sketched, kept, dropped, overlapped>>
      /\ requests[i].phase = "listing" /\ Page!Finish(i)
      /\ \/ Page!Choose(d)
         \/ UNCHANGED <<selected, follow, crossed>>
    BY <1>1 DEF Page!Relist, Page!sketch, Page!server
<1>3. /\ requests' \in [Page!Id -> PageRequests] /\ requests'[i].phase = "idle"
      /\ \A j \in Page!Id : j # i => requests'[j] = requests[j]
      /\ \A j \in Page!Id : j > sent => requests'[j].phase = "idle"
    BY <1>2, CallEnds DEF PageInv
<1>4. \A o \in {"delete", "save"} : \A j \in Page!InFlight(o)' :
         j \in Page!InFlight(o) /\ requests'[j] = requests[j]
    BY <1>3 DEF Page!InFlight
<1>5. DrawingFits'
    BY <1>2, <1>4 DEF PageInv, DrawingFits, Page!DrawnIsKept
<1>6. CASE Page!Choose(d)
  <2>1. /\ selected' = d /\ follow' = IF follow = d THEN d ELSE Page!None
        /\ crossed' = (d \notin live \/ Page!InFlight("delete") # {})
    BY <1>6 DEF Page!Choose
  <2>2. ~crossed' => d \in live /\ \A j \in Page!InFlight("delete") : FALSE
    BY <2>1
  <2>3. SelectionFits'
    BY <1>2, <1>4, <2>1, <2>2 DEF SelectionFits
  <2>4. ViewFits'
    BY <1>2, <2>1 DEF PageInv, ViewFits, Page!FollowKeepsCamera, Picked
  <2>5. RequestsFit'
    BY <1>1, <1>2, <1>3, <2>1 DEF PageInv, RequestsFit
  <2> QED
    BY <1>5, <2>3, <2>4, <2>5 DEF PageInv
<1>7. CASE UNCHANGED <<selected, follow, crossed>>
  <2>1. \A j \in Page!Id : Clearing(j) => Clearing(j)'
    BY <1>2, <1>3, <1>7 DEF Clearing
  <2>2. SelectionFits'
    BY <1>2, <1>4, <1>7, <2>1 DEF PageInv, SelectionFits
  <2>3. ViewFits'
    BY <1>2, <1>7, ViewStays DEF PageInv
  <2>4. RequestsFit'
    BY <1>2, <1>3, <1>7 DEF PageInv, RequestsFit
  <2> QED
    BY <1>5, <2>2, <2>3, <2>4 DEF PageInv
<1> QED
    BY <1>2, <1>6, <1>7

\* Another admin removes a device, or restores one.
LEMMA ElsewhereKeeps ==
    ASSUME PageInv, NEW d \in Vehicles, Page!Elsewhere(d)
    PROVE  PageInv'
<1>1. /\ UNCHANGED <<requests, sent, pending, selected, follow, at, camera, strayed>>
      /\ UNCHANGED <<draw, sketched, kept, dropped, overlapped>>
      /\ live' = live \ {d} \/ live' = live \cup {d}
      /\ crossed' = (crossed \/ d = selected)
    BY DEF Page!Elsewhere, Page!calls, Page!sketch
<1>2. SelectionFits'
  <2>1. \A i \in Page!Id : Clearing(i) => Clearing(i)'
    BY <1>1 DEF Clearing
  <2>2. ~crossed' => ~crossed /\ (selected \in live => selected \in live')
    BY <1>1
  <2>3. \A i \in Page!InFlight("delete")' : i \in Page!InFlight("delete")
    BY <1>1 DEF Page!InFlight
  <2> QED
    BY <1>1, <2>1, <2>2, <2>3 DEF PageInv, SelectionFits
<1>3. selected' \in Picked
    BY <1>1 DEF PageInv, RequestsFit
<1> QED
    BY <1>1, <1>2, <1>3, RequestsStay, ViewStays, DrawingStays DEF PageInv

\* The inductive invariant of the page.
LEMMA PageInvariant ==
    /\ Page!Init => PageInv
    /\ PageInv /\ [Page!Next]_(Page!vars) => PageInv'
<1>1. ASSUME Page!Init PROVE PageInv
  <2>1. PICK y : y = Page!Idle
    OBVIOUS
  <2>2. y \in PageRequests /\ y.phase = "idle"
    <3>1. y = [op |-> "edit", of |-> Page!None, shape |-> 0, was |-> Page!None, phase |-> "idle"]
      BY <2>1 DEF Page!Idle
    <3> QED
      BY <3>1 DEF PageRequests, Page!Op, Picked
  <2>3. /\ requests = [i \in Page!Id |-> y] /\ sent = 0
        /\ selected \in Picked /\ follow = Page!None
        /\ crossed = (selected \notin live \cup {Page!None})
        /\ at = [d \in Vehicles |-> 0]
        /\ draw = "none" /\ pending = 0 /\ sketched = 0
    BY <1>1, <2>1 DEF Page!Init, Picked
  <2>4. requests \in [Page!Id -> PageRequests] /\ \A i \in Page!Id : requests[i].phase = "idle"
    BY <2>2, <2>3
  <2>5. \A o : Page!InFlight(o) = {}
    BY <2>4 DEF Page!InFlight
  <2>6. RequestsFit
    BY <2>3, <2>4 DEF RequestsFit, Picked
  <2>7. ViewFits
    BY <2>3 DEF ViewFits, Page!FollowKeepsCamera, Picked
  <2>8. SelectionFits
    BY <2>3, <2>5 DEF SelectionFits
  <2>9. DrawingFits
    <3>1. sketched \in Nat /\ Page!DrawnIsKept
      BY <2>3 DEF Page!DrawnIsKept
    <3> QED
      BY <2>3, <2>5, <3>1 DEF DrawingFits
  <2> QED
    BY <2>6, <2>7, <2>8, <2>9 DEF PageInv
<1>2. ASSUME PageInv, UNCHANGED <<requests, sent, pending, selected, live>>,
             UNCHANGED <<follow, at, camera, strayed, crossed>>,
             UNCHANGED <<draw, sketched, kept, dropped, overlapped>>
      PROVE  PageInv'
  <2>1. selected' \in Picked
    BY <1>2 DEF PageInv, RequestsFit
  <2> QED
    BY <1>2, <2>1, RequestsStay, ViewStays, SelectionStays, DrawingStays DEF PageInv
<1>3. ASSUME PageInv, Page!Step PROVE PageInv'
  <2>1. CASE \/ \E d \in Vehicles :
                  Page!SelectDevice(d) \/ Page!Move(d) \/ Page!HistoryComes(d)
             \/ Page!CloseCard \/ Page!Centre \/ Page!ToggleFollow \/ Page!Stray
    BY <1>3, <2>1, LookKeeps
  <2>2. CASE \/ Page!TogglePanel \/ Page!Click \/ Page!DoubleClick \/ Page!Discard
             \/ \E mode \in {"none", "circle", "polygon"} : Page!Draw(mode)
    BY <1>3, <2>2, SketchKeeps
  <2>3. CASE \/ \E d \in Vehicles :
                  \/ Page!DeleteDevice(d) \/ Page!RestoreDevice(d) \/ Page!EditDevice(d)
                  \/ Page!Submit(d)
             \/ Page!SaveGeofence \/ \E s \in Page!Shape : Page!DeleteGeofence(s)
    <3>1. \A s \in Page!Shape : s \in Nat
      BY DEF Page!Shape
    <3>2. pending \in Nat
      BY <1>3 DEF PageInv, RequestsFit
    <3>3. PICK op \in Page!Op, d \in Picked, s \in Nat :
             Page!Start(op, d, s) /\ (op = "save" => s = pending)
      BY <2>3, <3>1, <3>2 DEF Page!DeleteDevice, Page!RestoreDevice, Page!EditDevice,
         Page!Submit, Page!SaveGeofence, Page!DeleteGeofence, Page!Op, Picked
    <3> QED
      BY <1>3, <3>3, StartKeeps
  <2>4. CASE Page!OpenDialog \/ Page!CloseDialog \/ Page!Refocus
    BY <1>2, <1>3, <2>4 DEF Page!OpenDialog, Page!CloseDialog, Page!Refocus, Page!server,
       Page!calls, Page!view, Page!sketch
  <2>5. CASE \E i \in Page!Id : Page!Serve(i) \/ Page!Fail(i) \/ Page!Answer(i) \/ Page!Relist(i)
    BY <1>3, <2>5, ServeKeeps, FailKeeps, AnswerKeeps, RelistKeeps
  <2>6. CASE \E d \in Vehicles : Page!Elsewhere(d)
    BY <1>3, <2>6, ElsewhereKeeps
  <2> QED
    BY <1>3, <2>1, <2>2, <2>3, <2>4, <2>5, <2>6 DEF Page!Step
<1> QED
  <2>1. ASSUME PageInv, UNCHANGED Page!vars PROVE PageInv'
    BY <1>2, <2>1 DEF Page!vars, Page!server, Page!calls, Page!view, Page!sketch
  <2> QED
    BY <1>1, <1>3, <2>1 DEF Page!Next

\* For any vehicles, requests and positions, however answers are delayed, lost or out
\* of order and whatever other admins remove and restore: the camera keeps to the
\* vehicle followed unless the user has moved it, and once nothing is under way what is
\* selected is in the list, unless it was selected over a removal or when it was gone,
\* or its removal went unseen: others made it, or its answer was lost.
THEOREM ViewIsKept == Page!Spec => []ViewIsSound
<1>1. PageInv => ViewIsSound
  <2>1. PageInv => Look!FollowKeepsCamera
    BY DEF PageInv, ViewFits, Page!FollowKeepsCamera, Look!FollowKeepsCamera, Page!None, Look!None
  <2>2. PageInv => Look!SelectedIsListed
    <3> SUFFICES ASSUME PageInv, vehicles = live, ~crossed,
                        requests = [i \in Look!Id |-> Look!Idle]
                 PROVE  selected \in vehicles \cup {Look!None}
      BY DEF Look!SelectedIsListed
    <3>1. requests = [i \in Page!Id |-> Page!Idle] /\ Look!None = Page!None
      BY DEF Page!Id, Look!Id, Page!Idle, Look!Idle, Page!None, Look!None
    <3>2. Page!Idle.phase = "idle"
      BY DEF Page!Idle
    <3>3. \A i \in Page!Id : ~Clearing(i)
      BY <3>1, <3>2 DEF Clearing
    <3> QED
      BY <3>1, <3>3 DEF PageInv, SelectionFits
  <2> QED
    BY <2>1, <2>2 DEF ViewIsSound
<1> QED
  BY <1>1, PageInvariant, PTL DEF Page!Spec

\* For any number of shapes and saves that fail, come late or overlap: a shape drawn
\* is saved, waits for its name or was discarded, or was drawn over a save.
THEOREM ShapesAreKept == Page!Spec => []DrawnIsKept
<1>1. PageInv => DrawnIsKept
    BY DEF PageInv, DrawingFits, Page!DrawnIsKept, Sketch!DrawnIsKept, DrawnIsKept
<1> QED
  BY <1>1, PageInvariant, PTL DEF Page!Spec

(***************************************************************************)
(* Sequences of rows.                                                      *)
(***************************************************************************)
LEMMA RowReplaced ==
    ASSUME NEW S, NEW s \in Seq(S), NEW i \in DOMAIN s, NEW x \in S, NEW t,
           t = [s EXCEPT ![i] = x]
    PROVE  /\ t \in Seq(S) /\ Len(t) = Len(s) /\ DOMAIN t = DOMAIN s
           /\ t[i] = x /\ \A j \in DOMAIN s : j # i => t[j] = s[j]
BY ExceptSeq, LenProperties

LEMMA RowAdded ==
    ASSUME NEW S, NEW s \in Seq(S), NEW x \in S, NEW t, t = Append(s, x)
    PROVE  /\ t \in Seq(S) /\ Len(s) \in Nat /\ Len(t) = Len(s) + 1
           /\ DOMAIN s = 1..Len(s) /\ DOMAIN t = DOMAIN s \cup {Len(s) + 1}
           /\ Len(s) + 1 \notin DOMAIN s
           /\ t[Len(s) + 1] = x /\ \A j \in DOMAIN s : t[j] = s[j]
<1>1. PICK n \in Nat : n = Len(s) /\ DOMAIN s = 1..n
    BY LenProperties
<1>2. t \in Seq(S) /\ Len(t) = n + 1 /\ DOMAIN t = 1..(n + 1)
    BY <1>1, LenProperties
<1>3. t[n + 1] = x /\ \A j \in 1..n : t[j] = s[j]
    BY <1>1
<1>4. 1..(n + 1) = 1..n \cup {n + 1} /\ n + 1 \notin 1..n
    OBVIOUS
<1> QED
    BY <1>1, <1>2, <1>3, <1>4

LEMMA RowsMapped ==
    ASSUME NEW S, NEW s \in Seq(S), NEW t, t = [i \in DOMAIN s |-> t[i]],
           \A i \in DOMAIN s : t[i] \in S
    PROVE  t \in Seq(S) /\ Len(t) = Len(s) /\ DOMAIN t = DOMAIN s
<1>1. PICK n \in Nat : n = Len(s) /\ DOMAIN s = 1..n
    BY LenProperties
<1>2. t \in [1..n -> S] /\ DOMAIN t = 1..n
    BY <1>1
<1>3. t \in Seq(S)
    BY <1>2, SeqDef
<1>4. PICK m \in Nat : m = Len(t) /\ DOMAIN t = 1..m
    BY <1>3, LenProperties
<1>5. m = n
    BY <1>2, <1>4
<1> QED
    BY <1>1, <1>2, <1>3, <1>4, <1>5

(***************************************************************************)
(* Sign-in, for any tabs, requests, tokens and calls.                      *)
(***************************************************************************)
TokenRows == [family : Nat, used : BOOLEAN, revoked : BOOLEAN]
Steps == {"find", "kill", "user", "mark", "issue", "ok", "refused"}
CallRows == [kind : {"refresh", "logout"}, tab : Tabs \cup {Sign!Gone}, token : Nat,
             answer : Nat, step : Steps]

\* What refreshInFlight may hold.
Flights == DOMAIN calls \cup {Sign!NoFlight, Sign!Stuck}

SignTypes ==
    /\ tokens \in Seq(TokenRows)
    /\ calls \in Seq(CallRows) /\ Len(calls) <= MaxCall
    /\ \A i \in DOMAIN tokens : tokens[i].family \in DOMAIN tokens /\ tokens[i].family <= i
    /\ \A c \in DOMAIN calls : /\ calls[c].token \in DOMAIN tokens
                               /\ calls[c].answer \in DOMAIN tokens \cup {0}
    /\ store \in [access : {"none", "live", "stale"}, refresh : DOMAIN tokens \cup {0}]
    /\ store.access = "none" => store.refresh = 0
    /\ flight \in [Tabs -> Flights]

\* A call as it was, its step aside.
SameCall(c) == /\ calls'[c].kind = calls[c].kind /\ calls'[c].tab = calls[c].tab
               /\ calls'[c].token = calls[c].token /\ calls'[c].answer = calls[c].answer

\* The calls made are those there were.
SameCalls ==
    /\ calls' \in Seq(CallRows) /\ Len(calls') = Len(calls) /\ DOMAIN calls' = DOMAIN calls
    /\ \A c \in DOMAIN calls : SameCall(c)

LEMMA CallTypes ==
    ASSUME SignTypes, NEW c \in DOMAIN calls
    PROVE  calls[c] \in CallRows
BY ElementOfSeq, LenProperties DEF SignTypes

LEMMA TokenTypes ==
    ASSUME SignTypes, NEW i \in DOMAIN tokens
    PROVE  tokens[i] \in TokenRows
BY ElementOfSeq, LenProperties DEF SignTypes

\* The server goes on with a call.
LEMMA CallBecomes ==
    ASSUME SignTypes, NEW c \in DOMAIN calls, NEW s \in Steps, Sign!Becomes(c, s)
    PROVE  /\ SameCalls
           /\ calls'[c].step = s
           /\ \A d \in DOMAIN calls : d # c => calls'[d] = calls[d]
<1>1. PICK x \in CallRows : x = calls[c]
    BY CallTypes
<1>2. PICK y : y = [x EXCEPT !.step = s]
    OBVIOUS
<1>3. /\ y \in CallRows /\ y.kind = x.kind /\ y.tab = x.tab /\ y.token = x.token
      /\ y.answer = x.answer /\ y.step = s
    BY <1>2 DEF CallRows
<1>4. calls' = [calls EXCEPT ![c] = y]
    BY <1>1, <1>2 DEF Sign!Becomes
<1>5. calls \in Seq(CallRows) /\ y \in CallRows
    BY <1>3 DEF SignTypes
<1>6. /\ calls' \in Seq(CallRows) /\ Len(calls') = Len(calls) /\ DOMAIN calls' = DOMAIN calls
      /\ calls'[c] = y /\ \A d \in DOMAIN calls : d # c => calls'[d] = calls[d]
    BY <1>4, <1>5, RowReplaced
<1>7. SameCall(c)
    BY <1>1, <1>3, <1>6 DEF SameCall
<1>8. \A d \in DOMAIN calls : SameCall(d)
  <2> TAKE d \in DOMAIN calls
  <2>1. CASE d = c
    BY <1>7, <2>1
  <2>2. CASE d # c
    BY <1>6, <2>2 DEF SameCall
  <2> QED
    BY <2>1, <2>2
<1> QED
    BY <1>3, <1>6, <1>8 DEF SameCalls

\* A token marked used, a family revoked.
LEMMA TokenMarked ==
    ASSUME SignTypes, NEW i \in DOMAIN tokens, tokens' = [tokens EXCEPT ![i].used = TRUE]
    PROVE  /\ tokens' \in Seq(TokenRows) /\ DOMAIN tokens' = DOMAIN tokens
           /\ tokens'[i].used
           /\ \A j \in DOMAIN tokens : /\ tokens'[j].family = tokens[j].family
                                       /\ tokens'[j].revoked = tokens[j].revoked
                                       /\ tokens[j].used => tokens'[j].used
<1>1. PICK x \in TokenRows : x = tokens[i]
    BY TokenTypes
<1>2. PICK y : y = [x EXCEPT !.used = TRUE]
    OBVIOUS
<1>3. y \in TokenRows /\ y.family = x.family /\ y.revoked = x.revoked /\ y.used
    BY <1>2 DEF TokenRows
<1>4. tokens' = [tokens EXCEPT ![i] = y]
    BY <1>1, <1>2
<1>5. tokens \in Seq(TokenRows) /\ y \in TokenRows
    BY <1>3 DEF SignTypes
<1>6. /\ tokens' \in Seq(TokenRows) /\ Len(tokens') = Len(tokens) /\ DOMAIN tokens' = DOMAIN tokens
      /\ tokens'[i] = y /\ \A j \in DOMAIN tokens : j # i => tokens'[j] = tokens[j]
    BY ONLY <1>4, <1>5, RowReplaced
<1>7. ASSUME NEW j \in DOMAIN tokens
      PROVE  /\ tokens'[j].family = tokens[j].family
             /\ tokens'[j].revoked = tokens[j].revoked
             /\ tokens[j].used => tokens'[j].used
  <2>1. CASE j = i
    BY <1>1, <1>3, <1>6, <2>1
  <2>2. CASE j # i
    BY <1>6, <2>2
  <2> QED
    BY <2>1, <2>2
<1> QED
    BY <1>3, <1>6, <1>7

LEMMA FamilyRevoked ==
    ASSUME SignTypes, NEW f, Sign!RevokeFamily(f)
    PROVE  /\ tokens' \in Seq(TokenRows) /\ DOMAIN tokens' = DOMAIN tokens
           /\ \A j \in DOMAIN tokens : /\ tokens'[j].family = tokens[j].family
                                       /\ tokens'[j].used = tokens[j].used
                                       /\ tokens[j].revoked => tokens'[j].revoked
                                       /\ tokens[j].family = f => tokens'[j].revoked
<1>1. /\ tokens' = [j \in DOMAIN tokens |-> tokens'[j]]
      /\ \A j \in DOMAIN tokens :
           tokens'[j] = IF tokens[j].family = f THEN [tokens[j] EXCEPT !.revoked = TRUE]
                                                ELSE tokens[j]
    BY DEF Sign!RevokeFamily
<1>2. ASSUME NEW j \in DOMAIN tokens
      PROVE  /\ tokens'[j] \in TokenRows /\ tokens'[j].family = tokens[j].family
             /\ tokens'[j].used = tokens[j].used
             /\ tokens[j].revoked => tokens'[j].revoked
             /\ tokens[j].family = f => tokens'[j].revoked
  <2>1. PICK x \in TokenRows : x = tokens[j]
    BY TokenTypes
  <2>2. PICK y : y = [x EXCEPT !.revoked = TRUE]
    OBVIOUS
  <2>3. y \in TokenRows /\ y.family = x.family /\ y.used = x.used /\ y.revoked
    BY <2>2 DEF TokenRows
  <2>4. tokens'[j] = IF x.family = f THEN y ELSE x
    BY <1>1, <2>1, <2>2
  <2> QED
    BY <2>1, <2>3, <2>4
<1> QED
    BY <1>1, <1>2, RowsMapped DEF SignTypes

\* A token inserted, in a family there is or in one of its own.
LEMMA TokenIssued ==
    ASSUME SignTypes, NEW f \in DOMAIN tokens \cup {Len(tokens) + 1},
           tokens' = Append(tokens, Sign!Row(f))
    PROVE  /\ tokens' \in Seq(TokenRows) /\ Len(tokens) + 1 \notin DOMAIN tokens
           /\ DOMAIN tokens' = DOMAIN tokens \cup {Len(tokens) + 1}
           /\ \A i \in DOMAIN tokens : tokens'[i] = tokens[i]
           /\ tokens'[Len(tokens) + 1].family = f
           /\ \A i \in DOMAIN tokens' : /\ tokens'[i].family \in DOMAIN tokens'
                                        /\ tokens'[i].family <= i
<1>1. PICK n \in Nat : n = Len(tokens) /\ DOMAIN tokens = 1..n
    BY LenProperties DEF SignTypes
<1>2. f \in 1..(n + 1)
    BY <1>1
<1>3. PICK x : x = Sign!Row(f)
    OBVIOUS
<1>4. x \in TokenRows /\ x.family = f
    BY <1>2, <1>3 DEF Sign!Row, TokenRows
<1>5. tokens \in Seq(TokenRows) /\ tokens' = Append(tokens, x)
    BY <1>3 DEF SignTypes
<1>6. /\ tokens' \in Seq(TokenRows) /\ DOMAIN tokens' = DOMAIN tokens \cup {Len(tokens) + 1}
      /\ Len(tokens) + 1 \notin DOMAIN tokens
      /\ tokens'[Len(tokens) + 1] = x /\ \A i \in DOMAIN tokens : tokens'[i] = tokens[i]
    BY ONLY <1>4, <1>5, RowAdded
<1>7. ASSUME NEW i \in DOMAIN tokens'
      PROVE  tokens'[i].family \in DOMAIN tokens' /\ tokens'[i].family <= i
  <2>1. CASE i \in DOMAIN tokens
    BY <1>6, <2>1 DEF SignTypes
  <2>2. CASE i = n + 1
    BY <1>1, <1>2, <1>4, <1>6, <2>2
  <2> QED
    BY <1>1, <1>6, <2>1, <2>2
<1> QED
    BY <1>4, <1>6, <1>7

\* A call made, with the refresh token in localStorage.
LEMMA CallMade ==
    ASSUME SignTypes, NEW t \in Tabs, NEW kind \in {"refresh", "logout"},
           store.refresh # 0, Sign!MayCall, Sign!NewCall(t, kind)
    PROVE  /\ calls' \in Seq(CallRows) /\ Len(calls') <= MaxCall
           /\ Len(calls) + 1 \in Nat /\ Len(calls) + 1 \notin DOMAIN calls
           /\ DOMAIN calls' = DOMAIN calls \cup {Len(calls) + 1}
           /\ \A c \in DOMAIN calls : calls'[c] = calls[c]
           /\ calls'[Len(calls) + 1] = [kind |-> kind, tab |-> t, token |-> store.refresh,
                                        step |-> "find", answer |-> 0]
<1>1. PICK n \in Nat : n = Len(calls) /\ DOMAIN calls = 1..n
    BY LenProperties DEF SignTypes
<1>2. PICK k \in Nat : k = Len(tokens) /\ DOMAIN tokens = 1..k
    BY LenProperties DEF SignTypes
<1>3. store.refresh \in Nat
    BY <1>2 DEF SignTypes
<1>4. PICK x : x = [kind |-> kind, tab |-> t, token |-> store.refresh,
                    step |-> "find", answer |-> 0]
    OBVIOUS
<1>5. x \in CallRows
    BY <1>3, <1>4 DEF CallRows, Steps
<1>6. calls \in Seq(CallRows) /\ calls' = Append(calls, x)
    BY <1>4 DEF SignTypes, Sign!NewCall
<1>7. /\ calls' \in Seq(CallRows) /\ Len(calls') = Len(calls) + 1
      /\ DOMAIN calls' = DOMAIN calls \cup {Len(calls) + 1}
      /\ Len(calls) + 1 \notin DOMAIN calls
      /\ calls'[Len(calls) + 1] = x /\ \A c \in DOMAIN calls : calls'[c] = calls[c]
    BY ONLY <1>5, <1>6, RowAdded
<1>8. Len(calls') <= MaxCall
    BY <1>1, <1>7, TabAssumption DEF Sign!MayCall
<1> QED
    BY <1>1, <1>4, <1>7, <1>8

\* The tokens there were, with what has been marked and revoked since.
SameTokens ==
    /\ tokens' \in Seq(TokenRows) /\ DOMAIN tokens' = DOMAIN tokens
    /\ \A i \in DOMAIN tokens : /\ tokens'[i].family = tokens[i].family
                                /\ tokens[i].used => tokens'[i].used
                                /\ tokens[i].revoked => tokens'[i].revoked

\* What localStorage may hold next.
StoreFits ==
    /\ store' \in [access : {"none", "live", "stale"}, refresh : DOMAIN tokens' \cup {0}]
    /\ store'.access = "none" => store'.refresh = 0

LEMMA NothingCalled ==
    ASSUME SignTypes, UNCHANGED calls
    PROVE  SameCalls
BY DEF SignTypes, SameCalls, SameCall

LEMMA NothingIssued ==
    ASSUME SignTypes, UNCHANGED tokens
    PROVE  SameTokens
BY DEF SignTypes, SameTokens

LEMMA TypesStand ==
    ASSUME SignTypes, SameTokens, SameCalls, StoreFits, flight' \in [Tabs -> Flights']
    PROVE  SignTypes'
<1>1. \A i \in DOMAIN tokens' : tokens'[i].family \in DOMAIN tokens' /\ tokens'[i].family <= i
    BY DEF SignTypes, SameTokens
<1>2. \A c \in DOMAIN calls' : /\ calls'[c].token \in DOMAIN tokens'
                               /\ calls'[c].answer \in DOMAIN tokens' \cup {0}
    BY DEF SignTypes, SameTokens, SameCalls, SameCall
<1>3. calls' \in Seq(CallRows) /\ Len(calls') <= MaxCall
    BY DEF SignTypes, SameCalls
<1> QED
    BY <1>1, <1>2, <1>3 DEF SignTypes, SameTokens, StoreFits

\* A page's refresh under way is a call of its own, which only it presented its
\* token with; what it is answered is nobody's token yet.
FlightFit ==
    /\ \A t \in Tabs : flight[t] \in DOMAIN calls => calls[flight[t]].tab = t
    /\ \A c \in DOMAIN calls :
         calls[c].kind = "refresh" /\ calls[c].token = store.refresh
         => calls[c].tab = Sign!Gone \/ flight[calls[c].tab] = c
    /\ \A c, d \in DOMAIN calls :
         c # d /\ calls[c].answer # 0 => calls[c].answer # calls[d].answer
    /\ \A t \in Tabs :
         flight[t] \in DOMAIN calls /\ calls[flight[t]].answer # 0
         => /\ calls[flight[t]].answer # store.refresh
            /\ \A c \in DOMAIN calls : calls[c].token # calls[flight[t]].answer
    /\ Sign!TabSpendsOnce

\* A refresh has passed its check and not yet issued.
Going(c) == calls[c].step \in {"user", "mark", "issue"}

\* A token that can be exchanged, or is being.
Live(i) ==
    \/ ~tokens[i].used /\ ~tokens[i].revoked
    \/ \E c \in DOMAIN calls : calls[c].token = i /\ Going(c)

NoReplay ==
    \A c, d \in DOMAIN calls :
      calls[c].kind = "refresh" /\ calls[d].kind = "refresh" /\ calls[c].token = calls[d].token
      => c = d

\* While no token was presented twice, a chain has one live token at most.
ChainFit ==
    /\ \A c \in DOMAIN calls : Going(c) => calls[c].kind = "refresh"
    /\ \A c \in DOMAIN calls : calls[c].step = "issue" => tokens[calls[c].token].used
    /\ NoReplay => \A i, j \in DOMAIN tokens :
                     Live(i) /\ Live(j) /\ tokens[i].family = tokens[j].family => i = j

SignInv == SignTypes /\ FlightFit /\ ChainFit

\* A token comes to life by sign-in, or from a live one of its chain.
LifeIsPassed ==
    \A i \in DOMAIN tokens' : Live(i)' =>
      \/ i \in DOMAIN tokens /\ Live(i)
      \/ tokens'[i].family \notin DOMAIN tokens
      \/ \E j \in DOMAIN tokens : Live(j) /\ tokens[j].family = tokens'[i].family

FamiliesStay == DOMAIN tokens \subseteq DOMAIN tokens' /\
    \A i \in DOMAIN tokens : tokens'[i].family = tokens[i].family

LEMMA FlightStands ==
    ASSUME SignTypes, FlightFit, SameCalls, store'.refresh = store.refresh, flight' = flight
    PROVE  FlightFit'
<1>1. /\ DOMAIN calls' = DOMAIN calls
      /\ \A c \in DOMAIN calls :
           /\ calls'[c].kind = calls[c].kind /\ calls'[c].tab = calls[c].tab
           /\ calls'[c].token = calls[c].token /\ calls'[c].answer = calls[c].answer
    BY DEF SameCalls, SameCall
<1>2. (\A t \in Tabs : flight[t] \in DOMAIN calls => calls[flight[t]].tab = t)'
    BY <1>1 DEF FlightFit
<1>3. (\A c \in DOMAIN calls :
         calls[c].kind = "refresh" /\ calls[c].token = store.refresh
         => calls[c].tab = Sign!Gone \/ flight[calls[c].tab] = c)'
    BY <1>1 DEF FlightFit, Sign!Gone
<1>4. (\A c, d \in DOMAIN calls :
         c # d /\ calls[c].answer # 0 => calls[c].answer # calls[d].answer)'
    BY <1>1 DEF FlightFit
<1>5. (\A t \in Tabs :
         flight[t] \in DOMAIN calls /\ calls[flight[t]].answer # 0
         => /\ calls[flight[t]].answer # store.refresh
            /\ \A c \in DOMAIN calls : calls[c].token # calls[flight[t]].answer)'
    BY <1>1 DEF FlightFit
<1>6. Sign!TabSpendsOnce'
    BY <1>1 DEF FlightFit, Sign!TabSpendsOnce, Sign!Gone
<1> QED
    BY <1>2, <1>3, <1>4, <1>5, <1>6 DEF FlightFit

\* The session is ended in localStorage.
LEMMA FlightCleared ==
    ASSUME SignTypes, FlightFit, SameCalls, store'.refresh = 0,
           \A t \in Tabs : flight'[t] \in {flight[t], Sign!NoFlight, Sign!Stuck}
    PROVE  FlightFit'
<1>1. /\ DOMAIN calls' = DOMAIN calls
      /\ \A c \in DOMAIN calls :
           /\ calls'[c].kind = calls[c].kind /\ calls'[c].tab = calls[c].tab
           /\ calls'[c].token = calls[c].token /\ calls'[c].answer = calls[c].answer
    BY DEF SameCalls, SameCall
<1>2. \A t \in Tabs : flight'[t] \in DOMAIN calls => flight'[t] = flight[t]
  <2>1. PICK n \in Nat : n = Len(calls) /\ DOMAIN calls = 1..n /\ n <= MaxCall
    BY LenProperties DEF SignTypes
  <2>2. Sign!NoFlight \notin DOMAIN calls /\ Sign!Stuck \notin DOMAIN calls
    BY <2>1, TabAssumption DEF Sign!NoFlight, Sign!Stuck
  <2> QED
    BY <2>2
<1>3. \A c \in DOMAIN calls : calls'[c].token # 0
  <2>1. 0 \notin DOMAIN tokens
    BY LenProperties DEF SignTypes
  <2> QED
    BY <1>1, <2>1 DEF SignTypes
<1>4. (\A t \in Tabs : flight[t] \in DOMAIN calls => calls[flight[t]].tab = t)'
    BY <1>1, <1>2 DEF FlightFit
<1>5. (\A c, d \in DOMAIN calls :
         c # d /\ calls[c].answer # 0 => calls[c].answer # calls[d].answer)'
    BY <1>1 DEF FlightFit
<1>6. (\A t \in Tabs :
         flight[t] \in DOMAIN calls /\ calls[flight[t]].answer # 0
         => /\ calls[flight[t]].answer # store.refresh
            /\ \A c \in DOMAIN calls : calls[c].token # calls[flight[t]].answer)'
    BY <1>1, <1>2 DEF FlightFit
<1>7. Sign!TabSpendsOnce'
    BY <1>1 DEF FlightFit, Sign!TabSpendsOnce, Sign!Gone
<1> QED
    BY <1>1, <1>3, <1>4, <1>5, <1>6, <1>7 DEF FlightFit

LEMMA ChainStands ==
    ASSUME SignTypes, ChainFit, SameTokens, DOMAIN calls' = DOMAIN calls,
           \A c \in DOMAIN calls : calls'[c].kind = calls[c].kind /\ calls'[c].token = calls[c].token,
           \A c \in DOMAIN calls : Going(c)' =>
             \/ Going(c)
             \/ /\ calls[c].kind = "refresh"
                /\ ~tokens[calls[c].token].used /\ ~tokens[calls[c].token].revoked,
           \A c \in DOMAIN calls :
             calls'[c].step = "issue" => tokens'[calls[c].token].used
    PROVE  ChainFit' /\ LifeIsPassed /\ FamiliesStay
<1>1. /\ DOMAIN calls' = DOMAIN calls
      /\ \A c \in DOMAIN calls : /\ calls'[c].kind = calls[c].kind
                                 /\ calls'[c].token = calls[c].token
    OBVIOUS
<1>2. FamiliesStay /\ DOMAIN tokens' = DOMAIN tokens
    BY DEF SameTokens, FamiliesStay
<1>3. ASSUME NEW i \in DOMAIN tokens, Live(i)'
      PROVE  Live(i)
  <2>1. CASE ~tokens'[i].used /\ ~tokens'[i].revoked
    BY <2>1 DEF SameTokens, Live
  <2>2. CASE \E c \in DOMAIN calls' : calls'[c].token = i /\ Going(c)'
    <3>1. PICK c \in DOMAIN calls : calls[c].token = i /\ Going(c)'
      BY <1>1, <2>2
    <3> QED
      BY <3>1 DEF Live
  <2> QED
    BY <1>3, <2>1, <2>2 DEF Live
<1>4. NoReplay' => NoReplay
    BY <1>1 DEF NoReplay
<1>5. (\A c \in DOMAIN calls : Going(c) => calls[c].kind = "refresh")'
    BY <1>1 DEF ChainFit
<1>6. (\A c \in DOMAIN calls : calls[c].step = "issue" => tokens[calls[c].token].used)'
    BY <1>1
<1>7. (NoReplay => \A i, j \in DOMAIN tokens :
                     Live(i) /\ Live(j) /\ tokens[i].family = tokens[j].family => i = j)'
    BY <1>2, <1>3, <1>4 DEF ChainFit, FamiliesStay
<1>8. LifeIsPassed
    BY <1>2, <1>3 DEF LifeIsPassed
<1> QED
    BY <1>2, <1>5, <1>6, <1>7, <1>8 DEF ChainFit

\* A step of the server on one call, which issues nothing.
LEMMA ServerGoesOn ==
    ASSUME SignInv, NEW c \in DOMAIN calls, NEW s \in Steps, Sign!Becomes(c, s), SameTokens,
           UNCHANGED <<store, flight>>,
           s \in {"user", "mark", "issue"} =>
             \/ Going(c)
             \/ /\ calls[c].kind = "refresh"
                /\ ~tokens[calls[c].token].used /\ ~tokens[calls[c].token].revoked,
           s = "issue" => tokens'[calls[c].token].used
    PROVE  SignInv' /\ LifeIsPassed /\ FamiliesStay
<1>1. SameCalls /\ calls'[c].step = s /\ \A d \in DOMAIN calls : d # c => calls'[d] = calls[d]
    BY CallBecomes DEF SignInv
<1>2. StoreFits /\ flight' \in [Tabs -> Flights']
    BY <1>1 DEF SignInv, SignTypes, SameTokens, SameCalls, StoreFits, Flights
<1>3. SignTypes' /\ FlightFit'
    BY <1>1, <1>2, TypesStand, FlightStands DEF SignInv
<1>4. ASSUME NEW d \in DOMAIN calls, Going(d)'
      PROVE  \/ Going(d)
             \/ /\ calls[d].kind = "refresh"
                /\ ~tokens[calls[d].token].used /\ ~tokens[calls[d].token].revoked
    BY <1>1, <1>4 DEF Going
<1>5. ASSUME NEW d \in DOMAIN calls, calls'[d].step = "issue"
      PROVE  tokens'[calls[d].token].used
  <2>1. CASE d = c
    BY <1>1, <1>5, <2>1
  <2>2. CASE d # c
    <3>1. calls[d].step = "issue" /\ calls[d].token \in DOMAIN tokens
      BY <1>1, <1>5, <2>2 DEF SignInv, SignTypes
    <3>2. tokens[calls[d].token].used
      BY <3>1 DEF SignInv, ChainFit
    <3> QED
      BY <3>1, <3>2 DEF SameTokens
  <2> QED
    BY <2>1, <2>2
<1>6. /\ DOMAIN calls' = DOMAIN calls
      /\ \A d \in DOMAIN calls : calls'[d].kind = calls[d].kind /\ calls'[d].token = calls[d].token
    BY <1>1 DEF SameCalls, SameCall
<1> QED
    BY <1>3, <1>4, <1>5, <1>6, ChainStands DEF SignInv

LEMMA ServerKeeps ==
    ASSUME SignInv, NEW c \in DOMAIN calls,
           Sign!Find(c) \/ Sign!Kill(c) \/ Sign!FindUser(c) \/ Sign!MarkUsed(c)
    PROVE  SignInv' /\ LifeIsPassed /\ FamiliesStay
<1>1. UNCHANGED <<store, flight>>
    BY DEF Sign!Find, Sign!Kill, Sign!FindUser, Sign!MarkUsed, Sign!browser
<1>2. calls[c].token \in DOMAIN tokens /\ calls[c] \in CallRows
    BY CallTypes DEF SignInv, SignTypes
<1>3. CASE Sign!Find(c)
  <2>1. PICK s : s = (IF calls[c].kind = "logout" THEN "kill"
                      ELSE Sign!Verdict(tokens[calls[c].token]))
    OBVIOUS
  <2>2. /\ s \in {"kill", "refused", "user"}
        /\ s = "user" => /\ calls[c].kind # "logout"
                         /\ ~tokens[calls[c].token].used /\ ~tokens[calls[c].token].revoked
    BY <2>1 DEF Sign!Verdict
  <2>3. calls[c].kind # "logout" => calls[c].kind = "refresh"
    BY <1>2 DEF CallRows
  <2>4. s \in Steps /\ s # "mark" /\ s # "issue"
    BY <2>2 DEF Steps
  <2>5. Sign!Becomes(c, s) /\ UNCHANGED tokens
    BY <1>3, <2>1 DEF Sign!Find
  <2>6. SameTokens
    BY <2>5, NothingIssued DEF SignInv
  <2> QED
    BY <1>1, <2>2, <2>3, <2>4, <2>5, <2>6, ServerGoesOn
<1>4. CASE Sign!Kill(c)
  <2>1. PICK s : s = (IF calls[c].kind = "logout" THEN "ok" ELSE "refused")
    OBVIOUS
  <2>2. s \in Steps /\ s \notin {"user", "mark", "issue"}
    BY <2>1 DEF Steps
  <2>3. Sign!Becomes(c, s)
    BY <1>4, <2>1 DEF Sign!Kill
  <2>4. Sign!RevokeFamily(tokens[calls[c].token].family)
    BY <1>4 DEF Sign!Kill
  <2>5. SameTokens
    BY <2>4, FamilyRevoked DEF SignInv, SameTokens
  <2> QED
    BY <1>1, <2>2, <2>3, <2>5, ServerGoesOn
<1>5. CASE Sign!FindUser(c)
  <2>1. PICK s : s = (IF active THEN "mark" ELSE "refused")
    OBVIOUS
  <2>2. s \in Steps /\ s # "issue"
    BY <2>1 DEF Steps
  <2>3. Sign!Becomes(c, s) /\ Going(c) /\ UNCHANGED tokens
    BY <1>5, <2>1 DEF Sign!FindUser, Going
  <2>4. SameTokens
    BY <2>3, NothingIssued DEF SignInv
  <2> QED
    BY <1>1, <2>2, <2>3, <2>4, ServerGoesOn
<1>6. CASE Sign!MarkUsed(c)
  <2>1. Sign!Becomes(c, "issue") /\ Going(c) /\ "issue" \in Steps
    BY <1>6 DEF Sign!MarkUsed, Going, Steps
  <2>2. tokens' = [tokens EXCEPT ![calls[c].token].used = TRUE]
    BY <1>6 DEF Sign!MarkUsed
  <2>3. SameTokens /\ tokens'[calls[c].token].used
    BY <1>2, <2>2, TokenMarked DEF SignInv, SameTokens
  <2> QED
    BY <1>1, <2>1, <2>3, ServerGoesOn
<1> QED
    BY <1>3, <1>4, <1>5, <1>6

\* The calls and tokens stay as they are.
LEMMA BrowserKeeps ==
    ASSUME SignInv, UNCHANGED <<tokens, calls>>
    PROVE  SameTokens /\ SameCalls /\ ChainFit' /\ LifeIsPassed /\ FamiliesStay
<1>1. SameTokens /\ SameCalls
    BY NothingIssued, NothingCalled DEF SignInv
<1>2. \A c \in DOMAIN calls : Going(c)' => Going(c)
    BY DEF Going
<1>3. \A c \in DOMAIN calls : calls'[c].step = "issue" => tokens'[calls[c].token].used
    BY DEF SignInv, ChainFit
<1> QED
    BY <1>1, <1>2, <1>3, ChainStands DEF SignInv

\* The token exchanged is used, and its chain's next is issued.
LEMMA IssueKeeps ==
    ASSUME SignInv, NEW c \in DOMAIN calls, Sign!Issue(c)
    PROVE  SignInv' /\ LifeIsPassed /\ FamiliesStay
<1>1. PICK old, n : old = calls[c].token /\ n = Len(tokens) + 1
    OBVIOUS
<1>2. /\ old \in DOMAIN tokens /\ tokens[old].family \in DOMAIN tokens
      /\ calls[c] \in CallRows /\ Going(c) /\ calls[c].kind = "refresh" /\ tokens[old].used
    BY <1>1, CallTypes DEF SignInv, SignTypes, ChainFit, Going, Sign!Issue
<1>3. /\ tokens' \in Seq(TokenRows) /\ n \notin DOMAIN tokens
      /\ DOMAIN tokens' = DOMAIN tokens \cup {n}
      /\ \A i \in DOMAIN tokens : tokens'[i] = tokens[i]
      /\ tokens'[n].family = tokens[old].family
      /\ \A i \in DOMAIN tokens' : /\ tokens'[i].family \in DOMAIN tokens'
                                   /\ tokens'[i].family <= i
  <2>1. tokens' = Append(tokens, Sign!Row(tokens[old].family))
    BY <1>1 DEF Sign!Issue
  <2> QED
    BY <1>1, <1>2, <2>1, TokenIssued DEF SignInv
<1>4. n \in Nat /\ n # 0
  <2>1. tokens \in Seq(TokenRows)
    BY DEF SignInv, SignTypes
  <2>2. Len(tokens) \in Nat
    BY ONLY <2>1, LenProperties
  <2> QED
    BY ONLY <1>1, <2>2
<1>5. /\ calls' \in Seq(CallRows) /\ Len(calls') = Len(calls) /\ DOMAIN calls' = DOMAIN calls
      /\ \A d \in DOMAIN calls : d # c => calls'[d] = calls[d]
      /\ calls'[c].kind = calls[c].kind /\ calls'[c].tab = calls[c].tab
      /\ calls'[c].token = calls[c].token /\ calls'[c].answer = n /\ calls'[c].step = "ok"
  <2>1. PICK x \in CallRows : x = calls[c]
    BY <1>2
  <2>2. PICK y : y = [x EXCEPT !.step = "ok", !.answer = n]
    OBVIOUS
  <2>3. /\ y \in CallRows /\ y.kind = x.kind /\ y.tab = x.tab /\ y.token = x.token
        /\ y.answer = n /\ y.step = "ok"
    BY <1>4, <2>2 DEF CallRows, Steps
  <2>4. calls' = [calls EXCEPT ![c] = y]
    BY <1>1, <2>1, <2>2 DEF Sign!Issue
  <2>5. calls \in Seq(CallRows) /\ y \in CallRows
    BY <2>3 DEF SignInv, SignTypes
  <2>6. /\ calls' \in Seq(CallRows) /\ Len(calls') = Len(calls) /\ DOMAIN calls' = DOMAIN calls
        /\ calls'[c] = y /\ \A d \in DOMAIN calls : d # c => calls'[d] = calls[d]
    BY ONLY <2>4, <2>5, RowReplaced, c \in DOMAIN calls
  <2> QED
    BY <2>1, <2>3, <2>6
<1>6. \A d \in DOMAIN calls : /\ calls'[d].kind = calls[d].kind /\ calls'[d].tab = calls[d].tab
                              /\ calls'[d].token = calls[d].token
                              /\ d # c => calls'[d].answer = calls[d].answer
                              /\ calls[d].token # n /\ calls[d].answer # n
  <2> TAKE d \in DOMAIN calls
  <2>1. calls[d].token # n /\ calls[d].answer # n
    BY <1>3, <1>4 DEF SignInv, SignTypes
  <2>2. CASE d = c
    BY <1>5, <2>1, <2>2
  <2>3. CASE d # c
    BY <1>5, <2>1, <2>3
  <2> QED
    BY <2>2, <2>3
<1>7. UNCHANGED <<store, flight>>
    BY DEF Sign!Issue, Sign!browser
<1>8. SignTypes'
  <2>1. \A d \in DOMAIN calls' : /\ calls'[d].token \in DOMAIN tokens'
                                 /\ calls'[d].answer \in DOMAIN tokens' \cup {0}
    BY <1>3, <1>5, <1>6 DEF SignInv, SignTypes
  <2>2. /\ store' \in [access : {"none", "live", "stale"}, refresh : DOMAIN tokens' \cup {0}]
        /\ store'.access = "none" => store'.refresh = 0
        /\ flight' \in [Tabs -> Flights']
    BY <1>3, <1>5, <1>7 DEF SignInv, SignTypes, Flights
  <2>3. Len(calls') <= MaxCall
    BY <1>5 DEF SignInv, SignTypes
  <2> QED
    BY <1>3, <1>5, <2>1, <2>2, <2>3 DEF SignTypes
<1>9. store.refresh # n
    BY <1>3, <1>4 DEF SignInv, SignTypes
<1>10. FlightFit'
  <2>1. (\A t \in Tabs : flight[t] \in DOMAIN calls => calls[flight[t]].tab = t)'
    BY <1>5, <1>6, <1>7 DEF SignInv, FlightFit
  <2>2. (\A d \in DOMAIN calls :
           calls[d].kind = "refresh" /\ calls[d].token = store.refresh
           => calls[d].tab = Sign!Gone \/ flight[calls[d].tab] = d)'
    BY <1>5, <1>6, <1>7 DEF SignInv, FlightFit, Sign!Gone
  <2>3. (\A a, b \in DOMAIN calls :
           a # b /\ calls[a].answer # 0 => calls[a].answer # calls[b].answer)'
    <3> SUFFICES ASSUME NEW a \in DOMAIN calls, NEW b \in DOMAIN calls, a # b,
                        calls'[a].answer # 0
                 PROVE  calls'[a].answer # calls'[b].answer
      BY <1>5
    <3>1. CASE a = c
      BY <1>5, <1>6, <3>1
    <3>2. CASE b = c
      BY <1>5, <1>6, <3>2
    <3>3. CASE a # c /\ b # c
      BY <1>6, <3>3 DEF SignInv, FlightFit
    <3> QED
      BY <3>1, <3>2, <3>3
  <2>4. (\A t \in Tabs :
           flight[t] \in DOMAIN calls /\ calls[flight[t]].answer # 0
           => /\ calls[flight[t]].answer # store.refresh
              /\ \A d \in DOMAIN calls : calls[d].token # calls[flight[t]].answer)'
    <3> SUFFICES ASSUME NEW t \in Tabs, flight[t] \in DOMAIN calls, calls'[flight[t]].answer # 0
                 PROVE  /\ calls'[flight[t]].answer # store.refresh
                        /\ \A d \in DOMAIN calls : calls[d].token # calls'[flight[t]].answer
      BY <1>5, <1>6, <1>7
    <3>1. CASE flight[t] = c
      BY <1>5, <1>6, <1>9, <3>1
    <3>2. CASE flight[t] # c
      BY <1>6, <3>2 DEF SignInv, FlightFit
    <3> QED
      BY <3>1, <3>2
  <2>5. Sign!TabSpendsOnce'
    BY <1>5, <1>6 DEF SignInv, FlightFit, Sign!TabSpendsOnce, Sign!Gone
  <2> QED
    BY <2>1, <2>2, <2>3, <2>4, <2>5 DEF FlightFit
<1>11. \A d \in DOMAIN calls : Going(d)' => d # c /\ Going(d)
    BY <1>5 DEF Going
<1>12. ASSUME NEW i \in DOMAIN tokens, Live(i)'
       PROVE  Live(i)
  <2>1. CASE ~tokens'[i].used /\ ~tokens'[i].revoked
    BY <1>3, <2>1 DEF Live
  <2>2. CASE \E d \in DOMAIN calls' : calls'[d].token = i /\ Going(d)'
    BY <1>5, <1>6, <1>11, <2>2 DEF Live
  <2> QED
    BY <1>12, <2>1, <2>2 DEF Live
<1>13. Live(old)
    BY <1>1, <1>2 DEF Live
<1>14. LifeIsPassed
    BY <1>2, <1>3, <1>12, <1>13 DEF LifeIsPassed
<1>15. ChainFit'
  <2>1. (\A d \in DOMAIN calls : Going(d) => calls[d].kind = "refresh")'
    BY <1>5, <1>6, <1>11 DEF SignInv, ChainFit
  <2>2. (\A d \in DOMAIN calls : calls[d].step = "issue" => tokens[calls[d].token].used)'
    <3>1. ASSUME NEW d \in DOMAIN calls, calls'[d].step = "issue"
          PROVE  tokens'[calls[d].token].used
      <4>1. calls'[d] = calls[d] /\ calls[d].token \in DOMAIN tokens
        BY <1>5, <3>1 DEF SignInv, SignTypes
      <4> QED
        BY <1>3, <3>1, <4>1 DEF SignInv, ChainFit
    <3> QED
      BY <1>5, <1>6, <3>1
  <2>3. NoReplay' => NoReplay
    BY <1>5, <1>6 DEF NoReplay
  <2>4. ASSUME NoReplay, NEW i \in DOMAIN tokens, Live(i)', tokens[i].family = tokens[old].family
        PROVE  FALSE
    <3>1. i = old
      BY <1>2, <1>12, <1>13, <2>4 DEF SignInv, ChainFit
    <3>2. PICK d \in DOMAIN calls : calls[d].token = old /\ Going(d)'
      BY <1>2, <1>3, <1>5, <1>6, <2>4, <3>1 DEF Live
    <3>3. d # c /\ calls[d].kind = "refresh"
      BY <1>11, <3>2 DEF SignInv, ChainFit
    <3> QED
      BY <1>1, <1>2, <2>4, <3>2, <3>3 DEF NoReplay
  <2>5. ASSUME NoReplay', NEW i \in DOMAIN tokens', NEW j \in DOMAIN tokens',
               Live(i)', Live(j)', tokens'[i].family = tokens'[j].family
        PROVE  i = j
    <3>1. CASE i = n /\ j = n
      BY <3>1
    <3>2. CASE i = n /\ j # n
      BY <1>3, <2>3, <2>4, <2>5, <3>2
    <3>3. CASE i # n /\ j = n
      BY <1>3, <2>3, <2>4, <2>5, <3>3
    <3>4. CASE i # n /\ j # n
      <4>1. /\ i \in DOMAIN tokens /\ j \in DOMAIN tokens
            /\ tokens[i].family = tokens[j].family
        BY <1>3, <2>5, <3>4
      <4>2. Live(i) /\ Live(j)
        BY <1>12, <2>5, <4>1
      <4> QED
        BY <2>3, <2>5, <4>1, <4>2 DEF SignInv, ChainFit
    <3> QED
      BY <3>1, <3>2, <3>3, <3>4
  <2>6. (NoReplay => \A i, j \in DOMAIN tokens :
                       Live(i) /\ Live(j) /\ tokens[i].family = tokens[j].family => i = j)'
    BY <2>5
  <2> QED
    BY <2>1, <2>2, <2>6 DEF ChainFit
<1> QED
    BY <1>3, <1>8, <1>10, <1>14, <1>15 DEF SignInv, FamiliesStay

\* endSession() in a tab.
LEMMA EndKeeps ==
    ASSUME SignInv, NEW t \in Tabs, NEW failed,
           NEW left \in {flight[t], Sign!NoFlight, Sign!Stuck},
           Sign!EndSession(t, failed, left), UNCHANGED <<tokens, calls>>
    PROVE  SignInv' /\ LifeIsPassed /\ FamiliesStay
<1>1. SameTokens /\ SameCalls /\ ChainFit' /\ LifeIsPassed /\ FamiliesStay
    BY BrowserKeeps
<1>2. store' = [access |-> "none", refresh |-> 0]
    BY DEF Sign!EndSession, Sign!ClearToken, Sign!Empty
<1>3. StoreFits /\ store'.refresh = 0
    BY <1>2 DEF StoreFits
<1>4. PICK x : x = (IF page[t] = "app" THEN Sign!NoFlight ELSE left)
    OBVIOUS
<1>5. x \in {flight[t], Sign!NoFlight, Sign!Stuck} /\ flight' = [flight EXCEPT ![t] = x]
    BY <1>4 DEF Sign!EndSession
<1>6. flight \in [Tabs -> Flights'] /\ flight \in [Tabs -> Flights]
    BY DEF SignInv, SignTypes, Flights
<1>7. x \in Flights'
    BY <1>5, <1>6 DEF Flights
<1>8. /\ flight' \in [Tabs -> Flights']
      /\ \A u \in Tabs : flight'[u] \in {flight[u], Sign!NoFlight, Sign!Stuck}
    BY <1>5, <1>6, <1>7
<1> QED
    BY <1>1, <1>3, <1>8, TypesStand, FlightCleared DEF SignInv

LEMMA SignInKeeps ==
    ASSUME SignInv, NEW t \in Tabs, Sign!SignIn(t)
    PROVE  SignInv' /\ LifeIsPassed /\ FamiliesStay
<1>1. PICK n : n = Len(tokens) + 1
    OBVIOUS
<1>2. /\ tokens' \in Seq(TokenRows) /\ n \notin DOMAIN tokens
      /\ DOMAIN tokens' = DOMAIN tokens \cup {n}
      /\ \A i \in DOMAIN tokens : tokens'[i] = tokens[i]
      /\ tokens'[n].family = n
      /\ \A i \in DOMAIN tokens' : /\ tokens'[i].family \in DOMAIN tokens'
                                   /\ tokens'[i].family <= i
  <2>1. tokens' = Append(tokens, Sign!Row(n)) /\ n \in DOMAIN tokens \cup {Len(tokens) + 1}
    BY <1>1 DEF Sign!SignIn
  <2> QED
    BY <1>1, <2>1, TokenIssued DEF SignInv
<1>3. UNCHANGED <<calls, flight>> /\ store' = [access |-> "live", refresh |-> n]
    BY <1>1 DEF Sign!SignIn
<1>4. store'.refresh = n /\ StoreFits
    BY <1>2, <1>3 DEF StoreFits
<1>5. \A c \in DOMAIN calls : calls[c].token # n /\ (calls[c].answer # 0 => calls[c].answer # n)
    BY <1>2 DEF SignInv, SignTypes
<1>6. SignTypes'
    BY <1>2, <1>3, <1>4 DEF SignInv, SignTypes, StoreFits, Flights
<1>7. FlightFit'
  <2>1. (\A u \in Tabs : flight[u] \in DOMAIN calls => calls[flight[u]].tab = u)'
    BY <1>3 DEF SignInv, FlightFit
  <2>2. (\A c \in DOMAIN calls :
           calls[c].kind = "refresh" /\ calls[c].token = store.refresh
           => calls[c].tab = Sign!Gone \/ flight[calls[c].tab] = c)'
    BY <1>3, <1>4, <1>5
  <2>3. (\A c, d \in DOMAIN calls :
           c # d /\ calls[c].answer # 0 => calls[c].answer # calls[d].answer)'
    BY <1>3 DEF SignInv, FlightFit
  <2>4. (\A u \in Tabs :
           flight[u] \in DOMAIN calls /\ calls[flight[u]].answer # 0
           => /\ calls[flight[u]].answer # store.refresh
              /\ \A c \in DOMAIN calls : calls[c].token # calls[flight[u]].answer)'
    BY <1>3, <1>4, <1>5 DEF SignInv, FlightFit
  <2>5. Sign!TabSpendsOnce'
    BY <1>3 DEF SignInv, FlightFit, Sign!TabSpendsOnce, Sign!Gone
  <2> QED
    BY <2>1, <2>2, <2>3, <2>4, <2>5 DEF FlightFit
<1>8. \A i \in DOMAIN tokens : Live(i)' => Live(i)
    BY <1>2, <1>3 DEF Live, Going
<1>9. \A i \in DOMAIN tokens : tokens[i].family \in DOMAIN tokens /\ tokens[i].family # n
    BY <1>2 DEF SignInv, SignTypes
<1>10. LifeIsPassed
    BY <1>2, <1>8 DEF LifeIsPassed
<1>11. ChainFit'
  <2>1. (\A c \in DOMAIN calls : Going(c) => calls[c].kind = "refresh")'
    BY <1>3 DEF SignInv, ChainFit, Going
  <2>2. (\A c \in DOMAIN calls : calls[c].step = "issue" => tokens[calls[c].token].used)'
    BY <1>2, <1>3 DEF SignInv, SignTypes, ChainFit
  <2>3. NoReplay' => NoReplay
    BY <1>3 DEF NoReplay
  <2>4. ASSUME NoReplay', NEW i \in DOMAIN tokens', NEW j \in DOMAIN tokens',
               Live(i)', Live(j)', tokens'[i].family = tokens'[j].family
        PROVE  i = j
    <3>1. CASE i = n \/ j = n
      BY <1>2, <1>9, <2>4, <3>1
    <3>2. CASE i # n /\ j # n
      <4>1. /\ i \in DOMAIN tokens /\ j \in DOMAIN tokens
            /\ tokens[i].family = tokens[j].family
        BY <1>2, <2>4, <3>2
      <4>2. Live(i) /\ Live(j)
        BY <1>8, <2>4, <4>1
      <4> QED
        BY <2>3, <2>4, <4>1, <4>2 DEF SignInv, ChainFit
    <3> QED
      BY <3>1, <3>2
  <2>5. (NoReplay => \A i, j \in DOMAIN tokens :
                       Live(i) /\ Live(j) /\ tokens[i].family = tokens[j].family => i = j)'
    BY <2>4
  <2> QED
    BY <2>1, <2>2, <2>5 DEF ChainFit
<1> QED
    BY <1>2, <1>6, <1>7, <1>10, <1>11 DEF SignInv, FamiliesStay

\* A call made changes nothing of the tokens.
LEMMA CallKeepsChains ==
    ASSUME SignInv, NEW t \in Tabs, NEW kind \in {"refresh", "logout"},
           store.refresh # 0, Sign!MayCall, Sign!NewCall(t, kind), UNCHANGED tokens
    PROVE  ChainFit' /\ LifeIsPassed /\ FamiliesStay
<1>1. PICK n : n = Len(calls) + 1
    OBVIOUS
<1>2. PICK x : x = [kind |-> kind, tab |-> t, token |-> store.refresh,
                    step |-> "find", answer |-> 0]
    OBVIOUS
<1>3. /\ DOMAIN calls' = DOMAIN calls \cup {n} /\ n \notin DOMAIN calls
      /\ \A c \in DOMAIN calls : calls'[c] = calls[c]
      /\ calls'[n] = x /\ x.step = "find"
    BY <1>1, <1>2, CallMade DEF SignInv
<1>4. \A c \in DOMAIN calls' : Going(c)' => c \in DOMAIN calls /\ Going(c)
    BY <1>3 DEF Going
<1>5. \A i \in DOMAIN tokens : Live(i)' => Live(i)
    BY <1>3, <1>4 DEF Live
<1>6. LifeIsPassed /\ FamiliesStay
    BY <1>5 DEF LifeIsPassed, FamiliesStay
<1>7. NoReplay' => NoReplay
    BY <1>3 DEF NoReplay
<1>8. (\A c \in DOMAIN calls : Going(c) => calls[c].kind = "refresh")'
    BY <1>3, <1>4 DEF SignInv, ChainFit
<1>9. (\A c \in DOMAIN calls : calls[c].step = "issue" => tokens[calls[c].token].used)'
    BY <1>3 DEF SignInv, ChainFit
<1>10. (NoReplay => \A i, j \in DOMAIN tokens :
                      Live(i) /\ Live(j) /\ tokens[i].family = tokens[j].family => i = j)'
    BY <1>5, <1>7 DEF SignInv, ChainFit
<1> QED
    BY <1>6, <1>8, <1>9, <1>10 DEF ChainFit

\* No page waits for a call before it is made.
LEMMA CallIsNew ==
    ASSUME SignTypes, Sign!MayCall
    PROVE  \A u \in Tabs : flight[u] # Len(calls) + 1
<1>1. PICK n \in Nat : n = Len(calls) /\ DOMAIN calls = 1..n
    BY LenProperties DEF SignTypes
<1>2. n + 1 \notin Flights
    BY <1>1, TabAssumption DEF Flights, Sign!NoFlight, Sign!Stuck, Sign!MayCall
<1> QED
    BY <1>1, <1>2 DEF SignTypes

LEMMA LogoutKeeps ==
    ASSUME SignInv, NEW t \in Tabs, Sign!Logout(t)
    PROVE  SignInv' /\ LifeIsPassed /\ FamiliesStay
<1>1. UNCHANGED <<tokens, flight>> /\ store' = [access |-> "none", refresh |-> 0]
    BY DEF Sign!Logout, Sign!ClearToken, Sign!Empty
<1>2. StoreFits /\ store'.refresh = 0
    BY <1>1 DEF StoreFits
<1>3. CASE store.refresh = 0
  <2>1. UNCHANGED calls
    BY <1>3 DEF Sign!Logout
  <2>2. flight' \in [Tabs -> Flights']
    BY <1>1, <2>1 DEF SignInv, SignTypes, Flights
  <2> QED
    BY <1>1, <1>2, <2>1, <2>2, BrowserKeeps, TypesStand, FlightCleared DEF SignInv
<1>4. CASE store.refresh # 0
  <2>1. Sign!MayCall /\ Sign!NewCall(t, "logout")
    BY <1>4 DEF Sign!Logout
  <2>2. PICK n : n = Len(calls) + 1
    OBVIOUS
  <2>3. PICK x : x = [kind |-> "logout", tab |-> t, token |-> store.refresh,
                      step |-> "find", answer |-> 0]
    OBVIOUS
  <2>4. x.kind = "logout" /\ x.token = store.refresh /\ x.answer = 0
    BY <2>3
  <2>5. /\ calls' \in Seq(CallRows) /\ Len(calls') <= MaxCall
        /\ DOMAIN calls' = DOMAIN calls \cup {n} /\ n \notin DOMAIN calls
        /\ \A c \in DOMAIN calls : calls'[c] = calls[c]
        /\ calls'[n] = x
    BY <1>4, <2>1, <2>2, <2>3, CallMade DEF SignInv
  <2>6. ChainFit' /\ LifeIsPassed /\ FamiliesStay
    BY <1>1, <1>4, <2>1, CallKeepsChains
  <2>7. SignTypes'
    <3>1. store.refresh \in DOMAIN tokens
      BY <1>4 DEF SignInv, SignTypes
    <3>2. \A c \in DOMAIN calls' : /\ calls'[c].token \in DOMAIN tokens'
                                   /\ calls'[c].answer \in DOMAIN tokens' \cup {0}
      BY <1>1, <2>4, <2>5, <3>1 DEF SignInv, SignTypes
    <3>3. \A i \in DOMAIN tokens' : tokens'[i].family \in DOMAIN tokens' /\ tokens'[i].family <= i
      BY <1>1 DEF SignInv, SignTypes
    <3>4. tokens' \in Seq(TokenRows)
      BY <1>1 DEF SignInv, SignTypes
    <3>5. flight' \in [Tabs -> Flights']
      BY <1>1, <2>5 DEF SignInv, SignTypes, Flights
    <3> QED
      BY <1>2, <2>5, <3>2, <3>3, <3>4, <3>5 DEF SignTypes, StoreFits
  <2>8. \A u \in Tabs : flight[u] # n
    BY <1>4, <2>1, <2>2, CallIsNew DEF SignInv
  <2>9. FlightFit'
    <3>1. (\A u \in Tabs : flight[u] \in DOMAIN calls => calls[flight[u]].tab = u)'
      BY <1>1, <2>5, <2>8 DEF SignInv, FlightFit
    <3>2. \A c \in DOMAIN calls' : calls'[c].token # 0
      <4>1. 0 \notin DOMAIN tokens
        BY LenProperties DEF SignInv, SignTypes
      <4> QED
        BY <1>1, <2>7, <4>1 DEF SignTypes
    <3>3. (\A c, d \in DOMAIN calls :
             c # d /\ calls[c].answer # 0 => calls[c].answer # calls[d].answer)'
      BY <2>4, <2>5 DEF SignInv, FlightFit
    <3>4. (\A u \in Tabs :
             flight[u] \in DOMAIN calls /\ calls[flight[u]].answer # 0
             => /\ calls[flight[u]].answer # store.refresh
                /\ \A c \in DOMAIN calls : calls[c].token # calls[flight[u]].answer)'
      BY <1>1, <1>2, <2>4, <2>5, <2>8 DEF SignInv, FlightFit
    <3>5. Sign!TabSpendsOnce'
      BY <2>4, <2>5 DEF SignInv, FlightFit, Sign!TabSpendsOnce, Sign!Gone
    <3> QED
      BY <1>2, <3>1, <3>2, <3>3, <3>4, <3>5 DEF FlightFit
  <2> QED
    BY <2>6, <2>7, <2>9 DEF SignInv
<1> QED
    BY <1>3, <1>4

\* The first refresh of a page.
LEMMA RefreshKeeps ==
    ASSUME SignInv, NEW t \in Tabs, flight[t] = Sign!NoFlight, store.refresh # 0, Sign!MayCall,
           Sign!NewCall(t, "refresh"), flight' = [flight EXCEPT ![t] = Len(calls) + 1],
           UNCHANGED <<tokens, store>>
    PROVE  SignInv' /\ LifeIsPassed /\ FamiliesStay
<1>1. PICK n : n = Len(calls) + 1
    OBVIOUS
<1>2. PICK x : x = [kind |-> "refresh", tab |-> t, token |-> store.refresh,
                    step |-> "find", answer |-> 0]
    OBVIOUS
<1>3. x.kind = "refresh" /\ x.tab = t /\ x.token = store.refresh /\ x.answer = 0
    BY <1>2
<1>4. /\ calls' \in Seq(CallRows) /\ Len(calls') <= MaxCall
      /\ DOMAIN calls' = DOMAIN calls \cup {n} /\ n \notin DOMAIN calls
      /\ \A c \in DOMAIN calls : calls'[c] = calls[c]
      /\ calls'[n] = x
    BY <1>1, <1>2, CallMade DEF SignInv
<1>5. ChainFit' /\ LifeIsPassed /\ FamiliesStay
    BY CallKeepsChains
<1>6. /\ flight \in [Tabs -> Flights] /\ flight' \in [Tabs -> Flights']
      /\ flight'[t] = n /\ \A u \in Tabs : u # t => flight'[u] = flight[u]
    BY <1>1, <1>4 DEF SignInv, SignTypes, Flights
<1>7. SignTypes'
  <2>1. store.refresh \in DOMAIN tokens
    BY DEF SignInv, SignTypes
  <2>2. \A c \in DOMAIN calls' : /\ calls'[c].token \in DOMAIN tokens'
                                 /\ calls'[c].answer \in DOMAIN tokens' \cup {0}
    BY <1>3, <1>4, <2>1 DEF SignInv, SignTypes
  <2>3. \A i \in DOMAIN tokens' : tokens'[i].family \in DOMAIN tokens' /\ tokens'[i].family <= i
    BY DEF SignInv, SignTypes
  <2>4. tokens' \in Seq(TokenRows)
    BY DEF SignInv, SignTypes
  <2>5. /\ store' \in [access : {"none", "live", "stale"}, refresh : DOMAIN tokens' \cup {0}]
        /\ store'.access = "none" => store'.refresh = 0
    BY DEF SignInv, SignTypes
  <2> QED
    BY <1>4, <1>6, <2>2, <2>3, <2>4, <2>5 DEF SignTypes
<1>8. \A u \in Tabs : flight[u] # n
    BY <1>1, CallIsNew DEF SignInv
<1>9. flight[t] \notin DOMAIN calls
    BY LenProperties DEF SignInv, SignTypes, Sign!NoFlight
\* A call of this page that presented the token would be under way still.
<1>10. \A c \in DOMAIN calls :
         calls[c].kind = "refresh" /\ calls[c].token = store.refresh
         => calls[c].tab = Sign!Gone \/ calls[c].tab # t
    BY <1>9 DEF SignInv, FlightFit
<1>11. FlightFit'
  <2>1. (\A u \in Tabs : flight[u] \in DOMAIN calls => calls[flight[u]].tab = u)'
    BY <1>3, <1>4, <1>6, <1>8 DEF SignInv, FlightFit
  <2>2. (\A c \in DOMAIN calls :
           calls[c].kind = "refresh" /\ calls[c].token = store.refresh
           => calls[c].tab = Sign!Gone \/ flight[calls[c].tab] = c)'
    <3>1. ASSUME NEW c \in DOMAIN calls, calls[c].kind = "refresh",
                 calls[c].token = store.refresh, calls[c].tab # Sign!Gone
          PROVE  flight'[calls[c].tab] = c
      <4>1. flight[calls[c].tab] = c /\ calls[c].tab # t
        BY <1>10, <3>1 DEF SignInv, FlightFit
      <4>2. calls[c].tab \in Tabs
        BY <3>1, CallTypes DEF SignInv, CallRows
      <4> QED
        BY <1>6, <4>1, <4>2
    <3>2. \A c \in DOMAIN calls : calls'[c].tab = calls[c].tab /\ calls'[c].kind = calls[c].kind
                                  /\ calls'[c].token = calls[c].token
      BY <1>4
    <3>3. flight'[calls'[n].tab] = n
      BY <1>3, <1>4, <1>6
    <3> QED
      BY <1>4, <3>1, <3>2, <3>3 DEF Sign!Gone
  <2>3. (\A c, d \in DOMAIN calls :
           c # d /\ calls[c].answer # 0 => calls[c].answer # calls[d].answer)'
    BY <1>3, <1>4 DEF SignInv, FlightFit
  <2>4. (\A u \in Tabs :
           flight[u] \in DOMAIN calls /\ calls[flight[u]].answer # 0
           => /\ calls[flight[u]].answer # store.refresh
              /\ \A c \in DOMAIN calls : calls[c].token # calls[flight[u]].answer)'
    <3> SUFFICES ASSUME NEW u \in Tabs, flight'[u] \in DOMAIN calls',
                        calls'[flight'[u]].answer # 0
                 PROVE  /\ calls'[flight'[u]].answer # store.refresh
                        /\ \A c \in DOMAIN calls' : calls'[c].token # calls'[flight'[u]].answer
      OBVIOUS
    <3>1. u # t /\ flight'[u] = flight[u] /\ flight[u] \in DOMAIN calls
      BY <1>3, <1>4, <1>6, <1>8
    <3>2. calls'[flight'[u]] = calls[flight[u]]
      BY <1>4, <3>1
    <3>3. /\ calls[flight[u]].answer # store.refresh
          /\ \A c \in DOMAIN calls : calls[c].token # calls[flight[u]].answer
      BY <3>1, <3>2 DEF SignInv, FlightFit
    <3> QED
      BY <1>3, <1>4, <3>2, <3>3
  <2>5. Sign!TabSpendsOnce'
    <3> SUFFICES ASSUME NEW c \in DOMAIN calls', NEW d \in DOMAIN calls', c # d,
                        calls'[c].token = calls'[d].token,
                        calls'[c].kind = "refresh", calls'[d].kind = "refresh"
                 PROVE  calls'[c].tab # calls'[d].tab \/ calls'[c].tab = Sign!Gone
      BY DEF Sign!TabSpendsOnce, Sign!Gone
    <3>1. CASE c \in DOMAIN calls /\ d \in DOMAIN calls
      BY <1>4, <3>1 DEF SignInv, FlightFit, Sign!TabSpendsOnce, Sign!Gone
    <3>2. CASE c \in DOMAIN calls /\ d = n
      BY <1>3, <1>4, <1>10, <3>2
    <3>3. CASE c = n /\ d \in DOMAIN calls
      <4>1. calls[d].tab = Sign!Gone \/ calls[d].tab # t
        BY <1>3, <1>4, <1>10, <3>3
      <4> QED
        BY <1>3, <1>4, <3>3, <4>1
    <3> QED
      BY <1>4, <3>1, <3>2, <3>3
  <2> QED
    BY <2>1, <2>2, <2>3, <2>4, <2>5 DEF FlightFit
<1> QED
    BY <1>5, <1>7, <1>11 DEF SignInv

\* The new pair reaches the page.
LEMMA RefreshedKeeps ==
    ASSUME SignInv, NEW t \in Tabs, Sign!Refreshed(t)
    PROVE  SignInv' /\ LifeIsPassed /\ FamiliesStay
<1>1. PICK new : new = calls[flight[t]].answer
    OBVIOUS
<1>2. /\ flight[t] \in DOMAIN calls /\ UNCHANGED <<tokens, calls>>
      /\ store' = [access |-> "live", refresh |-> new]
      /\ flight' = [flight EXCEPT ![t] = Sign!NoFlight]
    BY <1>1 DEF Sign!Refreshed, Sign!server
<1>3. new \in DOMAIN tokens \cup {0} /\ store'.refresh = new /\ store'.access # "none"
    BY <1>1, <1>2 DEF SignInv, SignTypes
<1>4. SameTokens /\ SameCalls /\ ChainFit' /\ LifeIsPassed /\ FamiliesStay
    BY <1>2, BrowserKeeps
<1>5. /\ flight \in [Tabs -> Flights] /\ flight' \in [Tabs -> Flights']
      /\ flight'[t] = Sign!NoFlight /\ \A u \in Tabs : u # t => flight'[u] = flight[u]
    BY <1>2 DEF SignInv, SignTypes, Flights
<1>6. StoreFits
    BY <1>2, <1>3 DEF StoreFits
<1>7. SignTypes'
    BY <1>4, <1>5, <1>6, TypesStand DEF SignInv
<1>8. 0 \notin DOMAIN tokens /\ Sign!NoFlight \notin DOMAIN calls
    BY LenProperties DEF SignInv, SignTypes, Sign!NoFlight
<1>9. \A c \in DOMAIN calls : calls[c].token # new
  <2>1. CASE new = 0
    <3>1. \A c \in DOMAIN calls : calls[c].token \in DOMAIN tokens
      BY DEF SignInv, SignTypes
    <3> QED
      BY <1>8, <2>1, <3>1
  <2>2. CASE new # 0
    BY <1>1, <1>2, <2>2 DEF SignInv, FlightFit
  <2> QED
    BY <2>1, <2>2
<1>10. FlightFit'
  <2>1. (\A u \in Tabs : flight[u] \in DOMAIN calls => calls[flight[u]].tab = u)'
    BY <1>2, <1>5, <1>8 DEF SignInv, FlightFit
  <2>2. (\A c \in DOMAIN calls :
           calls[c].kind = "refresh" /\ calls[c].token = store.refresh
           => calls[c].tab = Sign!Gone \/ flight[calls[c].tab] = c)'
    BY <1>2, <1>3, <1>9
  <2>3. (\A c, d \in DOMAIN calls :
           c # d /\ calls[c].answer # 0 => calls[c].answer # calls[d].answer)'
    BY <1>2 DEF SignInv, FlightFit
  <2>4. (\A u \in Tabs :
           flight[u] \in DOMAIN calls /\ calls[flight[u]].answer # 0
           => /\ calls[flight[u]].answer # store.refresh
              /\ \A c \in DOMAIN calls : calls[c].token # calls[flight[u]].answer)'
    <3> SUFFICES ASSUME NEW u \in Tabs, flight'[u] \in DOMAIN calls,
                        calls[flight'[u]].answer # 0
                 PROVE  /\ calls[flight'[u]].answer # new
                        /\ \A c \in DOMAIN calls : calls[c].token # calls[flight'[u]].answer
      BY <1>2, <1>3
    <3>1. u # t /\ flight'[u] = flight[u]
      BY <1>5, <1>8
    <3>2. flight[u] # flight[t]
      BY <1>2, <3>1 DEF SignInv, FlightFit
    <3> QED
      BY <1>1, <1>2, <3>1, <3>2 DEF SignInv, FlightFit
  <2>5. Sign!TabSpendsOnce'
    BY <1>2 DEF SignInv, FlightFit, Sign!TabSpendsOnce, Sign!Gone
  <2> QED
    BY <2>1, <2>2, <2>3, <2>4, <2>5 DEF FlightFit
<1> QED
    BY <1>4, <1>7, <1>10 DEF SignInv

\* The page is left for a new one, and with it the refresh it had under way.
LEMMA LoadAppKeeps ==
    ASSUME SignInv, NEW t \in Tabs, Sign!LoadApp(t)
    PROVE  SignInv' /\ LifeIsPassed /\ FamiliesStay
<1>1. /\ UNCHANGED <<tokens, store>>
      /\ flight' = [flight EXCEPT ![t] = Sign!NoFlight]
      /\ calls' = [c \in DOMAIN calls |->
                     IF c = flight[t] THEN [calls[c] EXCEPT !.tab = Sign!Gone] ELSE calls[c]]
    BY DEF Sign!LoadApp, Sign!Gone
<1>2. /\ calls' = [c \in DOMAIN calls |-> calls'[c]] /\ DOMAIN calls' = DOMAIN calls
      /\ \A c \in DOMAIN calls : c # flight[t] => calls'[c] = calls[c]
    BY <1>1
<1>3. ASSUME NEW c \in DOMAIN calls
      PROVE  /\ calls'[c] \in CallRows /\ calls'[c].kind = calls[c].kind
             /\ calls'[c].token = calls[c].token /\ calls'[c].answer = calls[c].answer
             /\ calls'[c].step = calls[c].step
             /\ c = flight[t] => calls'[c].tab = Sign!Gone
  <2>1. PICK x \in CallRows : x = calls[c]
    BY CallTypes DEF SignInv
  <2>2. PICK y : y = [x EXCEPT !.tab = Sign!Gone]
    OBVIOUS
  <2>3. /\ y \in CallRows /\ y.kind = x.kind /\ y.token = x.token /\ y.answer = x.answer
        /\ y.step = x.step /\ y.tab = Sign!Gone
    BY <2>2 DEF CallRows
  <2>4. calls'[c] = IF c = flight[t] THEN y ELSE x
    BY <1>1, <2>1, <2>2
  <2> QED
    BY <2>1, <2>3, <2>4
<1>4. calls' \in Seq(CallRows) /\ Len(calls') = Len(calls)
    BY <1>2, <1>3, RowsMapped DEF SignInv, SignTypes
<1>5. SameTokens
    BY <1>1, NothingIssued DEF SignInv
<1>6. ChainFit' /\ LifeIsPassed /\ FamiliesStay
  <2>1. \A c \in DOMAIN calls : Going(c)' => Going(c)
    BY <1>3 DEF Going
  <2>2. \A c \in DOMAIN calls : calls'[c].step = "issue" => tokens'[calls[c].token].used
    BY <1>1, <1>3 DEF SignInv, ChainFit
  <2> QED
    BY <1>2, <1>3, <1>5, <2>1, <2>2, ChainStands DEF SignInv
<1>7. /\ flight \in [Tabs -> Flights] /\ flight' \in [Tabs -> Flights']
      /\ flight'[t] = Sign!NoFlight /\ \A u \in Tabs : u # t => flight'[u] = flight[u]
    BY <1>1, <1>2 DEF SignInv, SignTypes, Flights
<1>8. SignTypes'
  <2>1. \A c \in DOMAIN calls' : /\ calls'[c].token \in DOMAIN tokens'
                                 /\ calls'[c].answer \in DOMAIN tokens' \cup {0}
    BY <1>1, <1>2, <1>3 DEF SignInv, SignTypes
  <2>2. Len(calls') <= MaxCall
    BY <1>4 DEF SignInv, SignTypes
  <2> QED
    BY <1>1, <1>4, <1>7, <2>1, <2>2 DEF SignInv, SignTypes
<1>9. Sign!NoFlight \notin DOMAIN calls
    BY LenProperties DEF SignInv, SignTypes, Sign!NoFlight
\* Another page's refresh is another call.
<1>10. ASSUME NEW u \in Tabs, u # t, flight[u] \in DOMAIN calls
       PROVE  flight[u] # flight[t]
    BY <1>10 DEF SignInv, FlightFit
<1>11. FlightFit'
  <2>1. ASSUME NEW u \in Tabs, flight'[u] \in DOMAIN calls
        PROVE  /\ flight[u] \in DOMAIN calls /\ flight'[u] = flight[u]
               /\ calls'[flight'[u]] = calls[flight[u]]
    <3>1. u # t /\ flight'[u] = flight[u]
      BY <1>7, <1>9, <2>1
    <3> QED
      BY <1>2, <1>10, <2>1, <3>1
  <2>2. (\A u \in Tabs : flight[u] \in DOMAIN calls => calls[flight[u]].tab = u)'
    BY <1>2, <2>1 DEF SignInv, FlightFit
  <2>3. (\A c \in DOMAIN calls :
           calls[c].kind = "refresh" /\ calls[c].token = store.refresh
           => calls[c].tab = Sign!Gone \/ flight[calls[c].tab] = c)'
    <3> SUFFICES ASSUME NEW c \in DOMAIN calls, calls'[c].kind = "refresh",
                        calls'[c].token = store.refresh, calls'[c].tab # Sign!Gone
                 PROVE  flight'[calls'[c].tab] = c
      BY <1>1, <1>2 DEF Sign!Gone
    <3>1. c # flight[t] /\ calls'[c] = calls[c]
      BY <1>2, <1>3
    <3>2. flight[calls[c].tab] = c
      BY <3>1 DEF SignInv, FlightFit
    <3>3. calls[c].tab \in Tabs
      BY <3>1, CallTypes DEF SignInv, CallRows
    <3> QED
      BY <1>7, <3>1, <3>2, <3>3
  <2>4. (\A c, d \in DOMAIN calls :
           c # d /\ calls[c].answer # 0 => calls[c].answer # calls[d].answer)'
    BY <1>2, <1>3 DEF SignInv, FlightFit
  <2>5. (\A u \in Tabs :
           flight[u] \in DOMAIN calls /\ calls[flight[u]].answer # 0
           => /\ calls[flight[u]].answer # store.refresh
              /\ \A c \in DOMAIN calls : calls[c].token # calls[flight[u]].answer)'
    <3> SUFFICES ASSUME NEW u \in Tabs, flight'[u] \in DOMAIN calls,
                        calls'[flight'[u]].answer # 0
                 PROVE  /\ calls'[flight'[u]].answer # store.refresh
                        /\ \A c \in DOMAIN calls : calls'[c].token # calls'[flight'[u]].answer
      BY <1>1, <1>2
    <3>1. /\ calls[flight[u]].answer # store.refresh
          /\ \A c \in DOMAIN calls : calls[c].token # calls[flight[u]].answer
      BY <2>1 DEF SignInv, FlightFit
    <3> QED
      BY <1>3, <2>1, <3>1
  <2>6. Sign!TabSpendsOnce'
    <3> SUFFICES ASSUME NEW c \in DOMAIN calls, NEW d \in DOMAIN calls, c # d,
                        calls'[c].token = calls'[d].token,
                        calls'[c].kind = "refresh", calls'[d].kind = "refresh",
                        calls'[c].tab = calls'[d].tab
                 PROVE  calls'[c].tab = Sign!Gone
      BY <1>2 DEF Sign!TabSpendsOnce, Sign!Gone
    <3>1. CASE c = flight[t] \/ d = flight[t]
      BY <1>3, <3>1
    <3>2. CASE c # flight[t] /\ d # flight[t]
      BY <1>2, <3>2 DEF SignInv, FlightFit, Sign!TabSpendsOnce, Sign!Gone
    <3> QED
      BY <3>1, <3>2
  <2> QED
    BY <2>2, <2>3, <2>4, <2>5, <2>6 DEF FlightFit
<1> QED
    BY <1>6, <1>8, <1>11 DEF SignInv

\* What touches neither refresh tokens nor refreshes.
LEMMA QuietKeeps ==
    ASSUME SignInv, UNCHANGED <<tokens, calls, flight>>, store'.refresh = store.refresh,
           StoreFits
    PROVE  SignInv' /\ LifeIsPassed /\ FamiliesStay
<1>1. SameTokens /\ SameCalls /\ ChainFit' /\ LifeIsPassed /\ FamiliesStay
    BY BrowserKeeps
<1>2. flight' \in [Tabs -> Flights']
    BY DEF SignInv, SignTypes, Flights
<1> QED
    BY <1>1, <1>2, TypesStand, FlightStands DEF SignInv

LEMMA SignStep ==
    ASSUME SignInv, [Sign!Next]_Sign!vars
    PROVE  SignInv' /\ LifeIsPassed /\ FamiliesStay
<1>1. UNCHANGED <<tokens, store>> => StoreFits
    BY DEF SignInv, SignTypes, StoreFits
<1>2. CASE \E c \in DOMAIN calls : Sign!ServerStep(c)
    BY <1>2, ServerKeeps, IssueKeeps DEF Sign!ServerStep
<1>3. CASE \E t \in Tabs : Sign!TabStep(t)
  <2>1. PICK t \in Tabs : Sign!TabStep(t)
    BY <1>3
  <2>2. CASE Sign!RefreshRefused(t) \/ Sign!Blip(t)
    <3>1. /\ Sign!EndSession(t, Sign!Waiting(t), Sign!NoFlight)
          /\ UNCHANGED <<tokens, calls>>
      BY <2>2 DEF Sign!RefreshRefused, Sign!Blip, Sign!server
    <3> QED
      BY <3>1, EndKeeps
  <2> QED
    BY <2>1, <2>2, SignInKeeps, LoadAppKeeps, LogoutKeeps, RefreshedKeeps DEF Sign!TabStep
<1>4. CASE \E r \in Requests : Sign!RequestStep(r)
  <2>1. PICK r \in Requests : Sign!RequestStep(r)
    BY <1>4
  <2>2. TabOf[r] \in Tabs
    BY <2>1, TabAssumption
  <2>3. CASE Sign!Send(r) \/ Sign!Accepted(r)
    <3>1. UNCHANGED <<tokens, calls, flight, store>>
      BY <2>3 DEF Sign!Send, Sign!Accepted, Sign!server
    <3> QED
      BY <1>1, <3>1, QuietKeeps
  <2>4. CASE Sign!Refresh(r) /\ flight[TabOf[r]] # Sign!NoFlight
    <3>1. UNCHANGED <<tokens, calls, flight, store>>
      BY <2>4 DEF Sign!Refresh
    <3> QED
      BY <1>1, <3>1, QuietKeeps
  <2>5. CASE Sign!Refresh(r) /\ flight[TabOf[r]] = Sign!NoFlight
    <3>1. /\ store.refresh # 0 /\ Sign!MayCall
          /\ Sign!NewCall(TabOf[r], "refresh")
          /\ flight' = [flight EXCEPT ![TabOf[r]] = Len(calls) + 1]
          /\ UNCHANGED <<tokens, store>>
      BY <2>5 DEF Sign!Refresh
    <3> QED
      BY <2>2, <2>5, <3>1, RefreshKeeps
  <2>6. CASE Sign!NoRefresh(r) \/ Sign!RefusedTwice(r)
    <3>1. PICK left \in {flight[TabOf[r]], Sign!Stuck} : Sign!EndSession(TabOf[r], {r}, left)
      BY <2>6 DEF Sign!NoRefresh, Sign!RefusedTwice
    <3>2. UNCHANGED <<tokens, calls>>
      BY <2>6 DEF Sign!NoRefresh, Sign!RefusedTwice, Sign!server
    <3> QED
      BY <2>2, <3>1, <3>2, EndKeeps
  <2> QED
    BY <2>1, <2>3, <2>4, <2>5, <2>6 DEF Sign!RequestStep
<1>5. CASE Sign!Expire
  <2>1. UNCHANGED <<tokens, calls, flight>> /\ store' = [store EXCEPT !.access = "stale"]
    BY <1>5 DEF Sign!Expire, Sign!server
  <2>2. store'.refresh = store.refresh /\ StoreFits
    BY <2>1 DEF SignInv, SignTypes, StoreFits
  <2> QED
    BY <2>1, <2>2, QuietKeeps
<1>6. CASE Sign!Toggle \/ UNCHANGED Sign!vars
  <2>1. UNCHANGED <<tokens, calls, flight, store>>
    BY <1>6 DEF Sign!Toggle, Sign!vars, Sign!browser
  <2> QED
    BY <1>1, <2>1, QuietKeeps
<1> QED
    BY <1>2, <1>3, <1>4, <1>5, <1>6 DEF Sign!Next

LEMMA SignStart == Sign!Init => SignInv
<1> SUFFICES ASSUME Sign!Init PROVE SignInv
    OBVIOUS
<1>1. /\ tokens = <<>> /\ calls = <<>> /\ store = [access |-> "none", refresh |-> 0]
      /\ flight = [t \in Tabs |-> Sign!NoFlight]
    BY DEF Sign!Init, Sign!Empty
<1>2. DOMAIN tokens = {} /\ DOMAIN calls = {} /\ Len(calls) = 0
    BY <1>1
<1>3. tokens \in Seq(TokenRows) /\ calls \in Seq(CallRows)
    BY <1>1
<1>4. SignTypes
    BY <1>1, <1>2, <1>3, TabAssumption DEF SignTypes, Flights
<1>5. FlightFit
    BY <1>2 DEF FlightFit, Sign!TabSpendsOnce
<1>6. ChainFit
    BY <1>2 DEF ChainFit
<1> QED
    BY <1>4, <1>5, <1>6 DEF SignInv

LEMMA SignInvariant == Sign!Spec => []SignInv
<1>1. SignInv /\ [Sign!Next]_Sign!vars => SignInv'
    BY SignStep
<1> QED
    BY <1>1, SignStart, PTL DEF Sign!Spec

\* For any tabs, requests and answers lost, and pages loaded anew at any time: a page
\* never presents a refresh token twice, and a chain never holds two tokens that can
\* be exchanged unless two page loads presented one token.
THEOREM TokensAreSpent == Sign!Spec => []TokensAreSpentOnce
<1>1. SignInv => TokensAreSpentOnce
  <2> SUFFICES ASSUME SignInv PROVE TokensAreSpentOnce
    OBVIOUS
  <2>1. Sign!TabSpendsOnce
    BY DEF SignInv, FlightFit
  <2>2. ASSUME NEW f \in DOMAIN tokens, NEW i \in Sign!Usable(f), NEW j \in Sign!Usable(f), i # j
        PROVE  \E c, d \in DOMAIN calls :
                 /\ calls[c].kind = "refresh" /\ calls[d].kind = "refresh"
                 /\ calls[c].token = calls[d].token /\ c # d
                 /\ calls[c].tab # calls[d].tab \/ calls[c].tab = Sign!Gone
    <3>1. /\ i \in DOMAIN tokens /\ j \in DOMAIN tokens /\ Live(i) /\ Live(j)
          /\ tokens[i].family = tokens[j].family
      BY DEF Sign!Usable, Live
    <3>2. ~NoReplay
      BY <2>2, <3>1 DEF SignInv, ChainFit
    <3>3. PICK c \in DOMAIN calls, d \in DOMAIN calls :
             /\ calls[c].kind = "refresh" /\ calls[d].kind = "refresh"
             /\ calls[c].token = calls[d].token /\ c # d
      BY <3>2 DEF NoReplay
    <3>4. calls[c].tab # calls[d].tab \/ calls[c].tab = Sign!Gone
      BY <2>1, <3>3 DEF Sign!TabSpendsOnce, Sign!Gone
    <3> QED
      BY <3>3, <3>4
  <2>3. Sign!ForksTakeTwoTabs
    BY <2>2 DEF Sign!ForksTakeTwoTabs, Sign!Gone
  <2> QED
    BY <2>1, <2>3 DEF TokensAreSpentOnce
<1> QED
    BY <1>1, SignInvariant, PTL

\* Nobody who is signed out asks for a token, and no page waits for one.
LEMMA SignedOutKeeps ==
    ASSUME SignInv, [Sign!Next]_Sign!vars, Sign!SignedOut, \A t \in Tabs : ~Sign!SignIn(t)
    PROVE  Sign!SignedOut'
<1>1. /\ store.access = "none" /\ store.refresh = 0
      /\ \A t \in Tabs : flight[t] \in {Sign!NoFlight, Sign!Stuck}
    BY DEF Sign!SignedOut, SignInv, SignTypes
<1>2. \A t \in Tabs : flight[t] \notin DOMAIN calls
  <2>1. PICK n \in Nat : n = Len(calls) /\ DOMAIN calls = 1..n /\ n <= MaxCall
    BY LenProperties DEF SignInv, SignTypes
  <2> QED
    BY <1>1, <2>1, TabAssumption DEF Sign!NoFlight, Sign!Stuck
<1>3. flight \in [Tabs -> Flights]
    BY DEF SignInv, SignTypes
<1>4. ASSUME NEW t \in Tabs, NEW failed, NEW left \in {flight[t], Sign!NoFlight, Sign!Stuck},
             Sign!EndSession(t, failed, left)
      PROVE  Sign!SignedOut'
  <2>1. store'.access = "none"
    BY <1>4 DEF Sign!EndSession, Sign!ClearToken, Sign!Empty
  <2>2. PICK x : x = (IF page[t] = "app" THEN Sign!NoFlight ELSE left)
    OBVIOUS
  <2>3. flight' = [flight EXCEPT ![t] = x] /\ x \in {Sign!NoFlight, Sign!Stuck}
    BY <1>1, <1>4, <2>2 DEF Sign!EndSession
  <2>4. \A u \in Tabs : flight'[u] \in {Sign!NoFlight, Sign!Stuck}
    BY <1>1, <1>3, <2>3
  <2> QED
    BY <2>1, <2>4 DEF Sign!SignedOut, Sign!NoFlight, Sign!Stuck
<1>5. ASSUME UNCHANGED flight, store'.access = "none"
      PROVE  Sign!SignedOut'
    BY <1>1, <1>5 DEF Sign!SignedOut, Sign!NoFlight, Sign!Stuck
<1>6. CASE \E c \in DOMAIN calls : Sign!ServerStep(c)
  <2>1. UNCHANGED <<store, flight>>
    BY <1>6 DEF Sign!ServerStep, Sign!Find, Sign!Kill, Sign!FindUser, Sign!MarkUsed, Sign!Issue,
       Sign!browser
  <2> QED
    BY <1>1, <1>5, <2>1
<1>7. CASE \E t \in Tabs : Sign!TabStep(t)
  <2>1. PICK t \in Tabs : Sign!TabStep(t)
    BY <1>7
  <2>2. CASE Sign!LoadApp(t)
    <3>1. UNCHANGED store /\ flight' = [flight EXCEPT ![t] = Sign!NoFlight]
      BY <2>2 DEF Sign!LoadApp
    <3>2. \A u \in Tabs : flight'[u] \in {Sign!NoFlight, Sign!Stuck}
      BY <1>1, <1>3, <3>1
    <3> QED
      BY <1>1, <3>1, <3>2 DEF Sign!SignedOut, Sign!NoFlight, Sign!Stuck
  <2>3. CASE Sign!Logout(t)
    <3>1. UNCHANGED flight /\ store'.access = "none"
      BY <2>3 DEF Sign!Logout, Sign!ClearToken, Sign!Empty
    <3> QED
      BY <1>5, <3>1
  <2>4. ~Sign!Refreshed(t) /\ ~Sign!RefreshRefused(t) /\ ~Sign!Blip(t)
    BY <1>2 DEF Sign!Refreshed, Sign!RefreshRefused, Sign!Blip
  <2> QED
    BY <2>1, <2>2, <2>3, <2>4 DEF Sign!TabStep
<1>8. CASE \E r \in Requests : Sign!RequestStep(r)
  <2>1. PICK r \in Requests : Sign!RequestStep(r)
    BY <1>8
  <2>2. TabOf[r] \in Tabs
    BY <2>1, TabAssumption
  <2>3. CASE Sign!Send(r) \/ Sign!Accepted(r)
    <3>1. UNCHANGED <<flight, store>>
      BY <2>3 DEF Sign!Send, Sign!Accepted
    <3> QED
      BY <1>1, <1>5, <3>1
  <2>4. ~Sign!Refresh(r)
    BY <1>1, <2>2 DEF Sign!Refresh
  <2>5. CASE Sign!NoRefresh(r) \/ Sign!RefusedTwice(r)
    <3>1. PICK left \in {flight[TabOf[r]], Sign!Stuck} : Sign!EndSession(TabOf[r], {r}, left)
      BY <2>5 DEF Sign!NoRefresh, Sign!RefusedTwice
    <3> QED
      BY <1>4, <2>2, <3>1
  <2> QED
    BY <2>1, <2>3, <2>4, <2>5 DEF Sign!RequestStep
<1>9. ~Sign!Expire
    BY <1>1 DEF Sign!Expire
<1>10. CASE Sign!Toggle \/ UNCHANGED Sign!vars
  <2>1. UNCHANGED <<flight, store>>
    BY <1>10 DEF Sign!Toggle, Sign!vars, Sign!browser
  <2> QED
    BY <1>1, <1>5, <2>1
<1> QED
    BY <1>6, <1>7, <1>8, <1>9, <1>10 DEF Sign!Next

LEMMA DeadKeeps ==
    ASSUME SignInv, SignTypes', LifeIsPassed, FamiliesStay,
           NEW f \in DOMAIN tokens, Sign!Dead(f)
    PROVE  Sign!Dead(f)'
<1>1. ASSUME NEW i \in DOMAIN tokens, tokens[i].family = f, Live(i)
      PROVE  FALSE
  <2>1. CASE ~tokens[i].used /\ ~tokens[i].revoked
    BY <1>1, <2>1 DEF Sign!Dead, Sign!Usable
  <2>2. CASE \E c \in DOMAIN calls : calls[c].token = i /\ Going(c)
    BY <1>1, <2>2 DEF Sign!Dead, Sign!Underway, Going
  <2> QED
    BY <1>1, <2>1, <2>2 DEF Live
<1>2. ASSUME NEW i \in DOMAIN tokens', tokens'[i].family = f, Live(i)'
      PROVE  FALSE
  <2>1. i \in DOMAIN tokens => tokens[i].family = f
    BY <1>2 DEF FamiliesStay
  <2> QED
    BY <1>1, <1>2, <2>1 DEF LifeIsPassed
<1>3. Sign!Usable(f)' = {}
    BY <1>2 DEF Sign!Usable, Live
<1>4. Sign!Underway(f)' = {}
  <2> SUFFICES ASSUME NEW c \in DOMAIN calls', tokens'[calls'[c].token].family = f,
                      calls'[c].step \in {"user", "mark", "issue"}
               PROVE  FALSE
    BY DEF Sign!Underway
  <2>1. calls'[c].token \in DOMAIN tokens'
    BY DEF SignTypes
  <2>2. Live(calls[c].token)'
    BY DEF Live, Going
  <2> QED
    BY <1>2, <2>1, <2>2
<1> QED
    BY <1>3, <1>4 DEF Sign!Dead

\* For any tabs, requests and calls: a chain in which no token can be exchanged stays
\* so, and a browser signed out stays signed out until somebody signs in.
THEOREM EndsAreFinal == Sign!Spec => EndedStaysEnded
<1>1. ASSUME SignInv, [Sign!Next]_Sign!vars
      PROVE  /\ \A f \in DOMAIN tokens : Sign!Dead(f) => Sign!Dead(f)'
             /\ Sign!SignedOut /\ (\A t \in Tabs : ~Sign!SignIn(t)) => Sign!SignedOut'
  <2>1. SignInv' /\ LifeIsPassed /\ FamiliesStay
    BY <1>1, SignStep
  <2>2. \A f \in DOMAIN tokens : Sign!Dead(f) => Sign!Dead(f)'
    BY <1>1, <2>1, DeadKeeps DEF SignInv
  <2>3. Sign!SignedOut /\ (\A t \in Tabs : ~Sign!SignIn(t)) => Sign!SignedOut'
    BY <1>1, SignedOutKeeps
  <2> QED
    BY <2>2, <2>3
<1>2. Sign!Spec => Sign!DeadChainStaysDead
    BY <1>1, SignInvariant, PTL DEF Sign!Spec, Sign!DeadChainStaysDead
<1>3. Sign!Spec => Sign!SignedOutStaysOut
    BY <1>1, SignInvariant, PTL DEF Sign!Spec, Sign!SignedOutStaysOut
<1> QED
    BY <1>2, <1>3 DEF EndedStaysEnded

=============================================================================
