--------------------------- MODULE MCControlPlane ---------------------------
(***************************************************************************)
(* Small instances, for TLC, of the parts of the system that administer a  *)
(* fleet: the device registry and the allow-list it publishes              *)
(* (DeviceRegistry), the caches that read them, in the ingestion service   *)
(* (AllowListCache) and in the telemetry consumer (DeviceLookup), the      *)
(* second factor (SecondFactor), groups (Departments), the repositories    *)
(* (InMemoryRepositories: TLC calls those of groups, users and devices, or *)
(* those of positions, alerts and settings), notification settings         *)
(* (Notifications) and database migrations (Migrations).  They share no    *)
(* state: a behaviour belongs to one part, and the variables of the others *)
(* keep one initial value.                                                 *)
(***************************************************************************)
EXTENDS DeviceRegistry, Sequences, TLC

CONSTANTS
    Two,           \* the concurrent callers of a part
    One,           \* the only tracker or URL of a part
    AllowTtl, MaxAllowTime, MaxSwitch,                                   \* AllowListCache
    MaxValue, PositiveTtl, NegativeTtl, CacheTtl, MaxLatency, MaxHold,
    MaxBatch, MaxTime,                                                   \* DeviceLookup
    MaxToggle, MaxSecret,                                                \* SecondFactor
    MaxMove,                                                             \* Departments
    Tenants, Units, Users, Devices, Emails, Times, Values, Types, MaxRows,
    MaxOp, MaxCall,                                                      \* repositories
    MaxPut, MaxAlert, Retries,                                           \* Notifications
    MaxFile, MaxStart, MaxFault                                          \* Migrations

\* Bounds and times to live (that of allowlist.ts is half a minute), and marks of
\* Departments for ids that no group has.
ASSUME AdminAssumption ==
    /\ {MaxValue, PositiveTtl, NegativeTtl, CacheTtl, MaxLatency, MaxHold, MaxFile}
          \subseteq Nat
    /\ AllowTtl \in Nat \ {0}
    /\ {"free", "gone"} \cap (Rows \cup {None}) = {}

\* What the repositories need of their constants: None is no id and no row, instants
\* are compared, and the bound is a number.
ASSUME RepositoriesAssumption ==
    /\ None \notin Units \cup [dev : Devices, ts : Times, val : Values]
    /\ Times \subseteq Nat /\ MaxRows \in Nat

VARIABLES
    part,
    now, allowed, lastOn, lastOff, allowCache, lookup, sessions, verdict, switches,
    kind, clock, source, values, cache, query, held, change, crossed, ended, used,
    account, secrets, proved, challenge, signedIn, factorCall, toggles, lapped,
    parent, move, made, hung, overlap,
    unit, user, device, rows, alert, settings, answer, ops,
    config, keys, puts, put, alerts, sent, crossing,
    objects, recorded, runner, starts, faults

Allow == INSTANCE AllowListCache WITH
           Devices <- One, Calls <- Two, CacheTtl <- AllowTtl, MaxTime <- MaxAllowTime,
           cache <- allowCache, call <- lookup, session <- sessions

Lookup == INSTANCE DeviceLookup WITH now <- clock, rows <- values

Factor == INSTANCE SecondFactor WITH Calls <- Two, user <- account, call <- factorCall

Groups == INSTANCE Departments WITH
            Units <- Rows, Requests <- Two, req <- move, lapped <- overlap

Repos == INSTANCE InMemoryRepositories

Notify == INSTANCE Notifications WITH
            Urls <- One, Callers <- Two, secrets <- keys, lapped <- crossing

Migrate == INSTANCE Migrations WITH Runners <- Two

registryVars == vars
allowVars == <<now, allowed, lastOn, lastOff, allowCache, lookup, sessions, verdict,
               switches>>
lookupVars == <<kind, clock, source, values, cache, query, held, change, crossed,
                ended, used>>
factorVars == <<account, secrets, proved, challenge, signedIn, factorCall, toggles,
                lapped>>
groupVars == <<parent, move, made, hung, overlap>>
repoVars == <<unit, user, device, rows, alert, settings, answer, ops>>
notifyVars == <<config, keys, puts, put, alerts, sent, crossing>>
migrateVars == <<objects, recorded, runner, starts, faults>>
all == <<part, registryVars, allowVars, lookupVars, factorVars, groupVars,
         repoVars, notifyVars, migrateVars>>

\* Rows and groups, and concurrent callers, are used alike everywhere.
Symmetry == Permutations(Rows) \cup Permutations(Two)

PartInit ==
    /\ part \in {"registry", "allow", "lookup", "factor", "groups", "tree",
                 "data", "notify", "migrate"}
    /\ Init
    /\ Allow!Init /\ (part = "allow" \/ allowed = {})
    /\ Lookup!Init /\ (part = "lookup" \/ kind = "imei")
    /\ Factor!Init /\ Groups!Init /\ Repos!Init /\ Notify!Init
    /\ Migrate!Init /\ (part = "migrate" \/ objects = {})

\* What a step of part p leaves alone.
Others(p) ==
    /\ UNCHANGED part
    /\ p # "registry" => UNCHANGED registryVars
    /\ p # "allow" => UNCHANGED allowVars
    /\ p # "lookup" => UNCHANGED lookupVars
    /\ p # "factor" => UNCHANGED factorVars
    /\ p # "groups" => UNCHANGED groupVars
    /\ p \notin {"tree", "data"} => UNCHANGED repoVars
    /\ p # "notify" => UNCHANGED notifyVars
    /\ p # "migrate" => UNCHANGED migrateVars

\* The calls on groups, users and devices, and the others, fewer of them.
TreeNext == UNCHANGED <<rows, alert, settings>> /\ Repos!Next
DataNext == ops < MaxCall /\ UNCHANGED <<unit, user, device>> /\ Repos!Next

PartNext ==
    \/ part = "registry" /\ Next /\ Others("registry")
    \/ part = "allow" /\ Allow!Next /\ Others("allow")
    \/ part = "lookup" /\ Lookup!Next /\ Others("lookup")
    \/ part = "factor" /\ Factor!Next /\ Others("factor")
    \/ part = "groups" /\ Groups!Next /\ Others("groups")
    \/ part = "tree" /\ TreeNext /\ Others("tree")
    \/ part = "data" /\ DataNext /\ Others("data")
    \/ part = "notify" /\ Notify!Next /\ Others("notify")
    \/ part = "migrate" /\ Migrate!Next /\ Others("migrate")

PartSpec == PartInit /\ [][PartNext]_all

-----------------------------------------------------------------------------
\* isAllowed answers with what the shared set said a TTL ago at most.
LookupsAreRecent == Allow!LookupsAreRecent

\* resolveDevice, geofencesFor and configFor: a message is handled with what stopped
\* being true no longer ago than a cache lives, a query takes and a batch lasts; and
\* once forgetImei has run, not with the device removed, unless the message had it
\* already, a query was under way or another replica served the removal.
CachesForget == Lookup!ForgottenUnlessCrossed /\ []Lookup!StalenessIsBounded

\* A second factor that is on is one its owner has shown to hold.
EnabledIsProved == Factor!EnabledIsProved

\* Moves made one after the other keep the groups a forest.
LoneMovesKeepForest == Groups!LoneMovesKeepForest

\* The in-memory repositories keep and answer what the Postgres ones do.
MirrorsPostgres == Repos!MirrorsPostgres

\* A signing secret that receivers may have learnt is never replaced.
SecretIsStable == Notify!SecretIsStable

\* migrate() is "safe to run on every deploy".
DeploysAreSafe == Migrate!DeploysAreSafe

=============================================================================
