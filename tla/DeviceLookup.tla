---------------------------- MODULE DeviceLookup ----------------------------
(***************************************************************************)
(* What the telemetry consumer remembers of the tables: which device an    *)
(* IMEI is, for PositiveTtl, or that it is none, for NegativeTtl; and the  *)
(* tenant's geofences and alert settings, for CacheTtl.  The consumer      *)
(* handles one message at a time and fills a cache when a query returns.   *)
(* What a message has been given it keeps over further awaits: a device    *)
(* until the whole batch is inserted, settings until the fences are there. *)
(* The requests that change the tables run meanwhile, and those that       *)
(* delete or restore a device make the consumer of their own process       *)
(* forget its IMEI.  The three caches do not touch each other: a behaviour *)
(* follows one.                                                            *)
(***************************************************************************)
EXTENDS Naturals, FiniteSets

CONSTANTS
    MaxValue,     \* bound: device rows of the IMEI, or changes of the settings
    PositiveTtl, NegativeTtl, CacheTtl,
    MaxLatency,   \* bound: how long a query may take
    MaxHold,      \* bound: how long a batch may take from a lookup to its insert
    MaxBatch,     \* bound: messages of the IMEI in a batch
    MaxTime       \* bound: clock

Value == 0..MaxValue     \* a row's id, 0 being no live row; or a version
Time == 0..MaxTime

VARIABLES
    kind,      \* the cache followed: "imei", "fences" or "config"
    now,
    source,    \* what the tables say
    rows,      \* rows created, or changes made
    cache,     \* [val, exp]; an exp that has passed is no entry
    query,     \* the query under way: {} or {[val, at]}
    held,      \* what the messages of this batch were given: [val, at, forgotten],
               \* forgotten if a forgetImei has run since
    change,    \* a removal or restoration has not come to forgetImei yet
    crossed,   \* at the last forgetImei a query was under way, or it was run in
               \* the process of another consumer
    ended,     \* value -> when it stopped being true; 0 if it is, or never was
    used       \* what the last step handled messages with, and when: [val, at]

vars == <<kind, now, source, rows, cache, query, held, change, crossed, ended, used>>

Seen == [val : Value, at : Time]
Held == [val : Value, at : Time, forgotten : BOOLEAN]

TypeOK ==
    /\ kind \in {"imei", "fences", "config"}
    /\ now \in Time /\ source \in Value /\ rows \in Value
    /\ cache \in [val : Value, exp : Nat]
    /\ query \in SUBSET Seen /\ used \in SUBSET Seen /\ held \in SUBSET Held
    /\ change \in BOOLEAN /\ crossed \in BOOLEAN
    /\ ended \in [Value -> Time]

Init ==
    /\ kind \in {"imei", "fences", "config"}
    /\ now = 1 /\ source = 0 /\ rows = 0
    /\ cache = [val |-> 0, exp |-> 0]
    /\ query = {} /\ held = {} /\ used = {}
    /\ change = FALSE /\ crossed = FALSE
    /\ ended = [v \in Value |-> 0]

tables == <<source, rows, change, crossed, ended>>

-----------------------------------------------------------------------------
(* The consumer                                                            *)

Ttl_Why(v) == IF kind # "imei" THEN CacheTtl ELSE IF v = 0 THEN MaxTime ELSE PositiveTtl

Ttl(v) == IF kind # "imei" THEN CacheTtl ELSE IF v = 0 THEN NegativeTtl ELSE PositiveTtl

\* A message of no known device is skipped at once; any other keeps what it has
\* been given.
Give(v) ==
    IF kind = "imei" /\ v = 0
    THEN used' = {[val |-> v, at |-> now]} /\ UNCHANGED held
    ELSE held' = held \cup {[val |-> v, at |-> now, forgotten |-> FALSE]} /\ used' = {}

\* The consumer turns to the next message of the batch.
Resolves == query = {} /\ Cardinality(held) < MaxBatch

Hit ==
    /\ Resolves /\ now < cache.exp
    /\ Give(cache.val)
    /\ UNCHANGED <<kind, now, cache, query, tables>>

\* findByImei, list or get reads the tables.
Ask ==
    /\ Resolves /\ now >= cache.exp
    /\ query' = {[val |-> source, at |-> now]} /\ used' = {}
    /\ UNCHANGED <<kind, now, cache, held, tables>>

\* The query returns: the cache is filled, whatever happened in between.
Fill ==
    /\ \E q \in query :
         /\ cache' = [val |-> q.val, exp |-> now + Ttl(q.val)]
         /\ Give(q.val)
    /\ query' = {}
    /\ UNCHANGED <<kind, now, tables>>

\* The positions of the batch are inserted, or the message is evaluated.
Insert ==
    /\ held # {} /\ query = {}
    /\ used' = {[val |-> h.val, at |-> now] : h \in held}
    /\ held' = {}
    /\ UNCHANGED <<kind, now, cache, query, tables>>

\* Settings wait for the query of the fences, and these for nothing.
Hold == CASE kind = "imei" -> MaxHold [] kind = "config" -> MaxLatency [] OTHER -> 0

Tick ==
    /\ now < MaxTime
    /\ \A q \in query : now - q.at < MaxLatency
    /\ \A h \in held : now - h.at < Hold
    /\ now' = now + 1 /\ used' = {}
    /\ UNCHANGED <<kind, cache, query, held, tables>>

-----------------------------------------------------------------------------
(* The requests that change the tables                                     *)

Becomes(v) ==
    /\ source' = v
    /\ ended' = [ended EXCEPT ![source] = now, ![v] = 0] /\ used' = {}
    /\ UNCHANGED <<kind, now, cache, query, held, crossed>>

\* provision() leaves the caches alone: "no device" may be remembered.
Provision ==
    /\ kind = "imei" /\ source = 0 /\ ~change /\ rows < MaxValue
    /\ rows' = rows + 1 /\ Becomes(rows + 1)
    /\ UNCHANGED change

\* remove() and restore(), whose forgetImei is to follow.
Remove ==
    /\ kind = "imei" /\ source # 0 /\ ~change
    /\ Becomes(0) /\ change' = TRUE
    /\ UNCHANGED rows

Restore ==
    /\ kind = "imei" /\ source = 0 /\ ~change
    /\ \E r \in 1..rows : Becomes(r)
    /\ change' = TRUE
    /\ UNCHANGED rows

Forgotten == held' = {[h EXCEPT !.forgotten = TRUE] : h \in held} /\ used' = {}

ForgetImei_Why ==
    /\ change /\ change' = FALSE
    /\ crossed' = (query # {}) /\ Forgotten
    /\ UNCHANGED <<kind, now, source, rows, cache, query, ended>>

ForgetImei ==
    /\ change /\ change' = FALSE
    /\ cache' = [val |-> 0, exp |-> 0]
    /\ crossed' = (query # {}) /\ Forgotten
    /\ UNCHANGED <<kind, now, source, rows, query, ended>>

\* The request was served by another replica, whose consumer forgets.
ForgetElsewhere ==
    /\ change /\ change' = FALSE
    /\ crossed' = TRUE /\ Forgotten
    /\ UNCHANGED <<kind, now, source, rows, cache, query, ended>>

\* POST and DELETE /geofences, PUT /alert-config.
Edit ==
    /\ kind # "imei" /\ rows < MaxValue
    /\ rows' = rows + 1 /\ Becomes(rows + 1)
    /\ UNCHANGED change

Next ==
    \/ Hit \/ Ask \/ Fill \/ Insert \/ Tick
    \/ Provision \/ Remove \/ Restore \/ ForgetImei \/ ForgetElsewhere \/ Edit

Spec == Init /\ [][Next]_vars

-----------------------------------------------------------------------------
Lifetime(v) ==
    CASE kind = "imei" /\ v = 0 -> NegativeTtl
      [] kind = "imei" /\ v # 0 -> PositiveTtl
      [] OTHER -> CacheTtl

\* No message is handled with what stopped being true longer ago than a cache
\* lives, a query takes and a batch lasts: not with "no device" once the tracker is
\* provisioned (a null was once kept until restart), not with a deleted device, not
\* with old geofences or settings.
StalenessIsBounded ==
    \A u \in used :
        ended[u.val] # 0 => u.at <= ended[u.val] + Lifetime(u.val) + MaxLatency + Hold

\* Once forgetImei has run for a removal, a position is inserted for the row that is
\* gone only if its message had got the row before, or a query was under way just
\* then, or another replica served the removal.
ForgottenUnlessCrossed ==
    [][Insert /\ kind = "imei" =>
          change \/ crossed \/ \A h \in held : h.val = source \/ h.forgotten]_vars

=============================================================================
