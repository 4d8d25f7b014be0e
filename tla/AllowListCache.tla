--------------------------- MODULE AllowListCache ---------------------------
(***************************************************************************)
(* How an ingest node decides that a device may send data: RedisAllowList  *)
(* (allowlist.ts) keeps each answer of the shared Redis set for CacheTtl,  *)
(* the TCP session asks once, at login, the UDP server for each datagram.  *)
(*                                                                         *)
(* The question is stamped with the time before the call to Redis, the     *)
(* answer is taken when Redis gets to it, and the cache is filled when the *)
(* reply is back; lookups of one device may overlap and overtake one       *)
(* another.  The clock ticks in between.                                   *)
(*                                                                         *)
(* A definition X_Why before a definition X is a mistake one could make in *)
(* X.  Nothing uses it: put in X's place, it breaks a property below.      *)
(***************************************************************************)
EXTENDS Integers

CONSTANTS
    Devices,    \* the trackers (IMEIs)
    Calls,      \* bound: lookups under way at once
    CacheTtl,   \* cacheTtlMs, in ticks
    MaxTime,    \* bound: ticks of the clock
    MaxSwitch,  \* bound: changes of the shared set
    None        \* no device

Purpose == {"login", "datagram"}

VARIABLES
    now,       \* the clock
    allowed,   \* the set ingest:allowed_imeis in Redis
    lastOn,    \* history: device -> latest time it was in the set
    lastOff,   \* history: device -> latest time it was not
    cache,     \* device -> its cached answer and expiry
    call,      \* lookup -> what it is about and how far it is
    session,   \* devices with a TCP session past its login
    verdict,   \* history: the latest decision
    switches

vars == <<now, allowed, lastOn, lastOff, cache, call, session, verdict, switches>>

\* Long before anything is asked.
Never == 0 - CacheTtl

Entry == [allowed : BOOLEAN, exp : Nat]
Lookup == [dev : Devices \cup {None}, for : Purpose,
           phase : {"free", "asking", "answered"}, asked : Nat, answer : BOOLEAN]
Verdict == [for : Purpose, dev : Devices, asked : Nat, ok : BOOLEAN]

TypeOK ==
    /\ now \in 0..MaxTime
    /\ allowed \subseteq Devices
    /\ lastOn \in [Devices -> Never..MaxTime]
    /\ lastOff \in [Devices -> Never..MaxTime]
    /\ \A d \in Devices : cache[d] = None \/ cache[d] \in Entry
    /\ \A k \in Calls : call[k] \in Lookup
    /\ session \subseteq Devices
    /\ verdict = None \/ verdict \in Verdict
    /\ switches \in 0..MaxSwitch

Idle == [dev |-> None, for |-> "login", phase |-> "free", asked |-> 0,
         answer |-> FALSE]

\* A node starts with an empty cache, whatever the set holds.
Init ==
    /\ now = 0
    /\ allowed \in SUBSET Devices
    /\ lastOn = [d \in Devices |-> IF d \in allowed THEN 0 ELSE Never]
    /\ lastOff = [d \in Devices |-> IF d \in allowed THEN Never ELSE 0]
    /\ cache = [d \in Devices |-> None]
    /\ call = [k \in Calls |-> Idle]
    /\ session = {}
    /\ verdict = None
    /\ switches = 0

-----------------------------------------------------------------------------
Tick ==
    /\ now < MaxTime
    /\ now' = now + 1
    /\ lastOn' = [d \in Devices |-> IF d \in allowed THEN now + 1 ELSE lastOn[d]]
    /\ lastOff' = [d \in Devices |-> IF d \in allowed THEN lastOff[d] ELSE now + 1]
    /\ UNCHANGED <<allowed, cache, call, session, verdict, switches>>

\* The control plane provisions or revokes the device.
SwitchAllowed(d) ==
    /\ switches < MaxSwitch
    /\ switches' = switches + 1
    /\ IF d \in allowed
       THEN allowed' = allowed \ {d} /\ lastOff' = [lastOff EXCEPT ![d] = now]
                                     /\ UNCHANGED lastOn
       ELSE allowed' = allowed \cup {d} /\ lastOn' = [lastOn EXCEPT ![d] = now]
                                        /\ UNCHANGED lastOff
    /\ UNCHANGED <<now, cache, call, session, verdict>>

-----------------------------------------------------------------------------
\* The caller gets its answer: a login opens a session, a datagram is handled.
Decide(d, purpose, asked, ok) ==
    /\ verdict' = [for |-> purpose, dev |-> d, asked |-> asked, ok |-> ok]
    /\ session' = IF purpose = "login" /\ ok THEN session \cup {d} ELSE session

Fresh(d) == cache[d] # None /\ cache[d].exp > now

\* isAllowed answers from the cache.
Hit(d, purpose) ==
    /\ purpose = "login" => d \notin session
    /\ Fresh(d)
    /\ Decide(d, purpose, now, cache[d].allowed)
    /\ UNCHANGED <<now, allowed, lastOn, lastOff, cache, call, switches>>

\* It goes to Redis.
Ask(k, d, purpose) ==
    /\ call[k].phase = "free"
    /\ purpose = "login" => d \notin session
    /\ ~Fresh(d)
    /\ call' = [call EXCEPT ![k] = [dev |-> d, for |-> purpose,
                   phase |-> "asking", asked |-> now, answer |-> FALSE]]
    /\ UNCHANGED <<now, allowed, lastOn, lastOff, cache, session, verdict, switches>>

sismember(d) == d \in allowed

\* Redis executes SISMEMBER; the reply is on its way.
Reply(k) ==
    /\ call[k].phase = "asking"
    /\ call' = [call EXCEPT ![k].phase = "answered",
                            ![k].answer = sismember(call[k].dev)]
    /\ UNCHANGED <<now, allowed, lastOn, lastOff, cache, session, verdict, switches>>

Expiry_FromReply(k) == now + CacheTtl
Expiry(k) == call[k].asked + CacheTtl

\* The reply is back: the cache is filled, whatever it holds by now.
Resolve(k) ==
    /\ call[k].phase = "answered"
    /\ cache' = [cache EXCEPT ![call[k].dev] =
                    [allowed |-> call[k].answer, exp |-> Expiry(k)]]
    /\ Decide(call[k].dev, call[k].for, call[k].asked, call[k].answer)
    /\ call' = [call EXCEPT ![k] = Idle]
    /\ UNCHANGED <<now, allowed, lastOn, lastOff, switches>>

\* The session ends; nothing else closes it, a device's revocation least of all.
HangUp(d) ==
    /\ d \in session
    /\ session' = session \ {d}
    /\ UNCHANGED <<now, allowed, lastOn, lastOff, cache, call, verdict, switches>>

-----------------------------------------------------------------------------
Next ==
    \/ Tick
    \/ \E d \in Devices :
          \/ SwitchAllowed(d) \/ HangUp(d)
          \/ \E p \in Purpose : Hit(d, p) \/ \E k \in Calls : Ask(k, d, p)
    \/ \E k \in Calls : Reply(k) \/ Resolve(k)

Spec == Init /\ [][Next]_vars

-----------------------------------------------------------------------------
(***************************************************************************)
(* Properties.                                                             *)
(***************************************************************************)

\* A decision on a question put at time t rests on what the set said at some
\* time later than t - CacheTtl.
Recent(v) ==
    IF v.ok THEN lastOn[v.dev] > v.asked - CacheTtl
    ELSE lastOff[v.dev] > v.asked - CacheTtl

\* allowlist.ts: a newly provisioned device is accepted within the TTL, a
\* revoked one rejected within the same window.  So it is, where isAllowed is
\* asked (a session that is up is not asked about again): overlapping lookups and
\* slow replies make no answer live longer.
LookupsAreRecent == verdict # None => Recent(verdict)

=============================================================================
