# Fleet tracking: a verification development

Trackers in vehicles record a position every few seconds and keep the records in
flash until a server has acknowledged them. The *ingestion service* terminates the
trackers' TCP and UDP connections, removes duplicates, writes the records to durable
sinks and acknowledges them; it also relays commands to the trackers. The *control
plane* consumes the stream of records, keeps positions, alerts and trips, owns the
registry of devices and the list of IMEIs that may send, and serves the *web app*, which
keeps copies of all this in the browsers of the fleet's managers. This directory holds
TLA+ models of these parts, written from the code under `src/`, the TLC configurations
that check them, and TLAPS proofs of most of what they promise, for systems of any size.

Paths below are relative to `src/`; `ingestion/` stands for `services/ingestion/src/`,
`control-plane/` for `services/control-plane/src/`, `teltonika/` for
`packages/protocol-teltonika/src/`, `web/` for `apps/web/src/`.

## The system

### Components, their state and what makes them correct

| component | state | operations | hard because | correct if |
|---|---|---|---|---|
| TCP session (`ingestion/session.ts`), sinks (`sinks.ts`), deduper (`dedupe.ts`) | receive buffer, a promise chain per session; set of seen keys (process or Redis); WAL file, Redis stream | data, decode, checkAndSet per record, write, ack, fail, close | an await at every step; several sessions and nodes on one device; sinks that fail in part; restarts; resends | a record the tracker deletes is in every sink; none is stored twice; acks fit packets; flash is freed |
| UDP server (`udp-server.ts`) | none but the deduper | one handler per datagram | handlers overlap; datagrams are lost, copied, late | the same |
| TCP server (`tcp-server.ts`), login | set of sockets, registry IMEI → session, drain flag | accept, IMEI, accept/reject, idle, error, close, drain | `close` follows `destroy` later; the allow-list answers late; devices dial in again | the registry names the device's live, authenticated session; the pool does not fill up; a drain ends |
| Command channel (`session.ts`, `health.ts`, `teltonika/codec12.ts`) | pending commands with timers | sendCommand, response, timeout, close | responses carry no id; timers race answers | each command is settled once, with its own answer |
| Allow-list cache (`allowlist.ts`) | TTL map over a Redis set | isAllowed | lookups overlap | an answer is younger than the TTL |
| Device registry (`control-plane/modules/devices/devices.service.ts`, `allowlist.bootstrap.ts`, `modules/billing/billing.ts`) | device table; allow-list in Redis | provision, setStatus, remove, restore, resync | two stores without a transaction; concurrent requests; replicas that end | allow-list = active IMEIs; one live row per IMEI; quota |
| Telemetry consumer (`modules/telemetry/telemetry.consumer.ts`, `integrations/redis.ts`, `positions.controller.ts`) | consumer group, position table, hot state, caches | start, read, process, ack; latest | two replicas; at-least-once; records out of order; rewarming | acked entries are stored, evaluated once; hot state is the newest row |
| Rules (`engine/alerts.ts`, `engine/trips.ts`) | per device: last ignition, overspeed, fences inside; current trip | evaluate, sweepOffline, update | edge-triggered state in memory; late records; settings that change | one alert per episode; trips are what the positions say |
| Immobilizer (`modules/devices/immobilizer.ts`) | row of settings and last state, event log | configure, test, immobilize, mobilize | the relay is at the end of a command that may time out; read-modify-write rows | the row says what the relay does; the tested flag belongs to the wiring |
| Sessions (`modules/auth/auth.service.ts`, `web/lib/api.ts`, `web/lib/auth.ts`) | refresh-token families; tokens in localStorage, `refreshInFlight` per tab | login, refresh, logout, any request | refresh is four queries; tabs share storage and not promises; answers get lost | a dead family stays dead; a page spends a token once; signing out is final |
| Second factor (`auth.service.ts:102-157`) | secret and switch of a user | login, verify, setup, enable, disable | each call reads, decides, writes | what is switched on can be used |
| Groups (`modules/departments/departments.ts`, `engine/org.ts`) | rows with a parent | create, update, remove | moves look before they write | a forest; every walk ends |
| Notifications (`modules/notifications/`, `notifications/`) | settings with a signing secret | setConfig, dispatch, deliver | read, merge, write back; retries | the secret is stable |
| Repositories (`domain/pg.repository.ts`, `in-memory.repository.ts`) | tables; maps and arrays | all queries | two implementations of one interface; cascades by hand | the maps behave as the tables |
| Migrations (`migrate.ts`) | files recorded, objects there | migrate | overlapping and interrupted deploys; "already exists" taken for applied | recorded means there |
| Live map (`web/lib/useLivePositions.ts`, `realtime/realtime.gateway.ts`) | positions and alerts held by the page | message, seed, reconnect | REST answers race the socket | behind the server only for known reasons |
| Map (`web/components/MapView.tsx`) | features, tiles, markers | draw, cut, render | a worker computes the tiles | markers come to show the features |
| Dashboard (`web/app/dashboard/page.tsx` and its panels) | selection, follow, camera, shapes, requests | what the user clicks | a request ends when the page has moved on | the end of one thing does not undo another |
| Device tree (`web/components/DeviceTree.tsx`) | two lists, filters, checks, a drag | filter, check, drag, drop, bulk move | the lists are of different instants | no device without a row; drops the server accepts |
| Configuration (`modules/devices/device-config.ts`, `web/components/ReportingProfilePanel.tsx`) | profile on the tracker, form | read, write | over the air, slow, may fail between set and read-back | the form shows what the device holds |
| Codecs (`teltonika/`), reports, geometry, GraphQL, pages | none | pure functions, reads, rendering | arithmetic, formats | - |

`PROJECT.json` lists every component with its sources and status.

### How they interact

    tracker --TCP/UDP--> session --checkAndSet--> deduper (process | Redis)
       ^                  |  \--write--> WAL, Redis stream --group--> consumer --> positions,
       |                  |                                                        hot state, rules
       +-----ack----------+  <--isAllowed-- allow-list cache <-- Redis set <-- device registry
       +--Codec 12-- session <-- registry byImei <-- POST /commands <-- immobilizer, device config

    web app --HTTP, token--> controllers --> services --> repositories (Postgres | maps)
       ^  \--refresh-----> auth service                    |
       +-----/rt socket--- realtime gateway <-- consumer <--+ caches (IMEI, fences, settings)

Everything that crosses an arrow is an await in the code; whatever can run meanwhile is
a different action of the models.

### What is hard to test

`PROJECT.json` lists forty hazards by line. They fall into six groups: a record's
dedupe key is set before the record is written, so whatever fails or overlaps in
between can lose it; `destroy`, `close`, timers and answers of Redis come in any order;
answers on the command channel carry no id; rows and caches are read before an await
and written after it; two replicas (or nodes) share state without transactions; and a
page acts on an answer as if nothing had happened since it asked.

## Modules

| module | models | abstracts |
|---|---|---|
| `AvlSession` | the TCP uplink from the tracker's flash to the sinks and the ack: sessions on several nodes, shared or private deduper, composite sink, every fault | the frame to a set of records; login (see `TcpServer`); downlink (see `CommandChannel`) |
| `DurableHandoff` | the contract `sinks.ts` states: a tracker deletes a record only when every sink holds it | everything else |
| `UdpIngest` | one handler per datagram; datagrams copied, lost, reordered, late; allow-list; ack | the datagram to its records and id |
| `TcpServer` | sockets, cap, login, registry, idle timeout, close, drain | packets after the login |
| `CommandChannel` | commands, timers, responses, login, close, reconnect of one device, the session that logs in after its close | texts to the number of the command |
| `AllowListCache` | `RedisAllowList.isAllowed` with overlapping lookups and a clock | the set to membership |
| `DeviceRegistry` | provision, setStatus, remove, restore, quota and resync as chains of database and Redis calls of concurrent requests | rows to IMEI, status, deleted flag |
| `StreamConsumer` | consumer group, batches, entries passed over, position table, hot state, rewarming | a position to device and timestamp; what `resolveDevice` answers to a set of IMEIs per replica that may change; Redis' group semantics from how `redis.ts` uses it |
| `TelemetryRules` | alert engine with offline sweep, and trip detector, on one stream of positions | geometry to membership in fences; distance is left out |
| `Immobilizer` | configure, test, immobilize, mobilize, their log and row, the command channel and the tracker's outputs | speed to moving or not; who did it and when |
| `Sessions` | refresh tokens on the server (query by query) and in the tabs of one browser, with the API client's retry | roles; the 30 days of a token |
| `SecondFactor` | enrolment and sign-in as chains of read, decide, update | a code to the secret it was computed from; time steps |
| `Departments` | create, move and remove with the queries they are made of | names |
| `PgRepositories` | what the tables promise: groups, users, devices, positions, alerts, settings, with cascades, partial unique index, scopes and reads | columns to the ones a query looks at |
| `InMemoryRepositories` | the maps and arrays of the tests, shown to implement the former | the same |
| `Notifications` | settings read, merged, written; dispatch, webhook retries, mail | signatures; backoff |
| `Migrations` | deploys that overlap, stop, lose the connection, on any database | SQL to the file's objects |
| `DeviceLookup` | the consumer's caches of IMEIs, geofences and settings, with a clock, queries under way, what the messages of a batch keep until the insert, and `forgetImei` in this process or another | rows to their number |
| `LiveMap` | gateway of one replica of two, socket, reconnection, seeds, alerts of one page | a report to its number |
| `MapView` | features, worker, markers, filter, clock, geofences | geometry, clusters, layers |
| `Dashboard` | selection, follow, route, playback dot, drawing, the page's requests and what their ends do, other admins' removals | layout; positions to their number |
| `DeviceTree` | two lists, filters, checks, drags, moves, the server's verdicts | collapsing, renaming |
| `DeviceConfig` | panel, control plane and tracker | a profile to one value |

The theorems stand apart, in eight modules: `AvlSessionProofs`, `TcpServerProofs`,
`TelemetryProofs` (UDP, stream consumer, rules), `DownlinkProofs` (command channel,
immobilizer), `ControlPlaneProofs` (device registry, second factor, migrations,
allow-list cache, the consumer's caches, notification settings, groups),
`RepositoriesProofs`, `ConsoleProofs` (live map, device tree) and `WebAppProofs`
(sign-in, dashboard, configuration panel). All but the first two extend the
`MC...` module that puts the parts side by side, and speak of the same instances of them
as the runs, with the constants left open.

Three models need a walk of any length: the groups above a group (`Chain` of `Departments`
and `PgRepositories`, `Above` of `DeviceTree`) and the groups below one (`Below` of
`InMemoryRepositories`). They are stated as the least set that holds the start and is
closed under the step the code takes (`Rising`, `HasChildren`), which is what its loops
compute and what a proof can reason about.

An `MC...` module is an instance for TLC. `MCAvlSession`, `MCTcpServer` and
`MCStreamConsumer` add symmetry to one module. The others put several modules side by
side that answer one kind of question and share no state: a variable `part` says which of
them a behaviour belongs to, the variables of the others keep one initial value, and each
part runs under its own fairness. TLC then explores the sum of their state spaces, not the
product, and one run checks the properties of them all. The repositories are two such
parts, `tree` and `data`: their calls on groups, users and devices, and the others, which
meet in no call and no read.

An action is the code between two awaits; a request or session that
waits is a record or a program counter (`pc`, `step`, `phase`). Names of the code are
kept where they can be (`checkAndSet` is `CheckAndSet`, `byImei` is `byImei`);
`PROJECT.json` maps each definition to its lines. Variables marked *history* are not in
the code: they record what a property speaks of.

A definition `X_Why` before a definition `X` is a mistake one could make in `X`. Nothing
uses it; put in `X`'s place it makes the property named with it in `PROJECT.json` fail,
which shows that the property depends on that line of the code.

What is modelled from its use only, since its code is not here: the tracker (it keeps
records until they are acknowledged, sends packets ahead of acks up to a window, resends
after a reconnect, works commands off in order and answers each once, with whatever text,
or not at all), the network, Redis sets, strings and
consumer groups, and the clock.

### Where the model makes choices

- *An async function runs to its next await without interruption* (one JavaScript
  thread per process); between awaits everything else may happen, other processes too.
- *`socket.destroy()`* stops reads and writes at once, the `close` event is a later
  action. What had been received when a socket dies may still be in the session's
  buffer: any prefix of what was sent is allowed.
- *Redis calls* are atomic and may be rejected. `RedisDeduper` is one set for all nodes,
  `InMemoryDeduper` one per node that ends with it.
- *The dedupe key* is injective on records here. It is not quite in the code
  (`dedupe.ts:15` hashes neither altitude nor variable-length IO).
- *`CompositeSink`* writes all sinks in parallel (`Promise.all`): when one rejects, the
  others may still land (`OrphanLands`).
- *The bus* is written by a pipeline whose `exec()` resolves with an error per command,
  which `ingestion/main.ts:22-26` does not look at: a write to it may fail for some of its
  records and be acknowledged (`WriteIsSwallowed`; the history variable `swallowed` keeps
  which). The WAL rejects as a whole, and so does a pipeline that is not sent at all.
- *An answer of the tracker* is text, and no code reads it for a yes or a no
  (`immobilizer.ts:136-138`): in `Immobilizer` the tracker may carry a command out and say
  so, answer without carrying it out, or keep silent.
- *A page's socket* is at one replica. The other one takes its share of the stream
  (`infra/k8s/control-plane.yaml:18`), and nothing bridges the two.
- *React* runs the handlers and effects of one render together; the end of a request is
  an action of its own, and its closure knows the state of the render that started it.
- *Postgres statements* are atomic; `ON CONFLICT` and the partial unique index of
  migration 004 are guards.
- *A process that ends* loses its memory; its sockets close; what it had started in
  another process (a command on the wire) goes on.

## Runs

| run | question | bounds and why they do |
|---|---|---|
| `AvlSession_faults` | Under every fault at every point: is each deleted record stored, in hand, abandoned by a session that failed, or failed in the bus unseen? Is none stored twice? Do acks fit packets? | 2 records (so that a packet can mix new and old), 2 connections on 2 nodes (Duplicate mode, reconnect to another node), 2 sinks, one of them the bus (partial failure), window 2 (an ack in flight behind a packet), 2 faults (a failure and what follows from it) |
| `AvlSession_single` | Without overlapping sessions and failing backends: does the uplink implement `DurableHandoff`; is every record freed and stored in the end? | 1 connection, 3 faults out of link loss, damaged frame, restart, lapsing key |
| `AvlSession_sinkfail` | (violation) Does a record survive a sink that rejects one write? | 1 connection, 1 sink |
| `TcpServer_pool` | Is the registry authenticated; is it right as long as nothing is cut; do dead sockets leave the pool; does a drain end? | 2 devices, cap 2, 3 socket identities, 1 lost link or failure, 1 change of an allow-list that starts with any members |
| `Telemetry_stages` | UDP: is a deleted record stored once, in hand, abandoned, or failed in the bus unseen; is the flash freed? Consumer group: is what is acked stored, or passed over and never evaluated; is what is shown stored; is nothing evaluated twice; is every entry stored, passed over or stranded in the end? Rules: are alerts exactly the changes, trips exactly the journeys, silences flagged? | UDP: 2 records, 2 handlers side by side, 3 datagram ids, 2 faults, 1 change of the allow-list. Stream: 1 device, 2 replicas, 3 entries with 2 timestamps or a payload that does not parse, batches of 2, 1 upset out of: a replica that ends, the hot state lost, a device known or forgotten by one replica. Rules: 4 positions (a trip takes 3, the start of the next follows) out of 9 kinds, 2 fences |
| `StreamConsumer_stranded` | (violation) Is a pending entry always in somebody's hands? | as above |
| `Downlink_commands` | Does a lone actuation set relay and row right; does the tested flag belong to the wiring; does the log tell of every command carried out; are replies in order, and another caller's only after a timeout or a skipped command; does everything end? | 3 requests (enough to enable, act and interfere), 1 fault, 1 command that the tracker does not carry out, 1 output with both polarities; 3 commands (before, between and after two losses, or on the list together), 2 closes, each before or after the login |
| `ControlPlane_admin` | Registry: does a lone operation right the allow-list after any race, is there one live row per IMEI, by how much can the quota be exceeded? Caches: how old is what they answer? Second factor, groups, notification secret, migrations: do they survive calls that overlap? Do the maps of the tests implement the tables? | 2 callers everywhere (a race takes two; symmetric); 2 IMEIs, 3 rows, quota 1, 1 abort; 2 lookups, TTL 2, time 5 (two lifetimes); cached rows 2, time 6, 2 messages in a batch that takes 1; 2 secrets, 2 users' deactivations; 3 groups, 6 moves; repositories: 5 calls (build a tree, put somebody in it, remove its root) on 2 tenants, 3 groups, 2 users, 2 devices, or 3 calls on 3 positions (an instant reported twice, and another), alerts of 2 types and settings; 3 updates of settings, 3 tries; 3 files, 3 starts, 2 faults |
| `Departments_moves` | (violation) Are a tenant's groups a forest? | 3 groups, 2 moves that overlap |
| `Console_copies` | For which reasons may the map be behind; has each device a row; does the server accept the drops the tree allows; are devices where the toast says? | 2 devices, 2 reports each, each at either replica, 1 drop, 2 lists (the second is read after the reports of the first); 2 groups, 1 request of the page, 1 write of another admin |
| `WebApp_answers` | Is a token spent once; is what has ended over; does a late answer move the camera, select what is gone or lose a shape; does the form show what the device holds; do markers catch up? | 2 tabs with 3 requests, 3 tokens (two rotations) of at most 2 chains (one signs in again), 2 calls of the server, 1 expiry, 1 lost answer, 1 deactivation; 2 vehicles, each removed and restored by others at any time, 1 request and 1 move, or 3 requests and 2 shapes; 2 profiles, 3 requests, 1 foreign write, 1 cut; map: 2 devices, 2 reports, 1 list, 1 filter, 1 tick. With 2 calls a reload can replay a token but not go on to fork its chain; that is the proof's to cover |
| `Sessions_blip` | (violation) Does a network failure end the session? | as above |

All runs switch deadlock checking off: the systems may be idle for good once the bounds
on records, faults and requests are used up, and a tracker owes nobody a packet. That
something happens nevertheless is what the liveness properties say.

### Fairness

Weak fairness on each step of a handler, session or request says that a promise that can
resolve does, and that the process is scheduled: Node's event loop runs every ready
callback. Timers (idle, command timeout, sweep, drain) are weakly fair: they stay enabled
until they fire. No failure, loss, shutdown, record, position or request is ever owed.
Two assumptions are about the outside. A tracker resends and redials for ever
(`AvlSession`: weak fairness of `Send`, `Connect`; `TcpServer`: strong fairness of
dialling, since the pool may be full at one attempt and not at the next; `UdpIngest`:
strong fairness of an arrival, since a retransmission may be lost or find the handlers of
the model busy). In `MapView` the map loads and its worker and source do what they
owe (weakly fair). And in `StreamConsumer` an ended replica is started again (Kubernetes).

## What is proved

TLC's answers hold for the instances above; the theorems hold for every number of
devices, connections, nodes, sinks, sockets, rows, requests, tabs and shapes, and for
every value of the bounds. Every safety property of a passing run is a theorem.

| theorem | states | hypotheses |
|---|---|---|
| `AvlSessionProofs!TypeCorrect` | `TypeOK` | |
| `AvlSessionProofs!NothingElseIsLost` | `AckedIsAccounted`: a record the tracker has deleted is in every sink, in a session's hands, was abandoned by a session that a sink, Redis or the end of its process let down, or failed in a pipelined sink that resolved | |
| `AvlSessionProofs!AcksInOrder` | `AcksMatchPackets`: the acks on a live connection answer the packets the tracker waits for, in order, with their sizes | |
| `AvlSessionProofs!HeldWithoutFailures` | `AckedIsHeld`: lost links, Duplicate mode and lapsing keys alone lose nothing | `~BackendMayFail`, `~NodesMayExit` |
| `AvlSessionProofs!NoSecondCopy` | `StoredOnce`: no record reaches a sink twice | `SharedDeduper`, `~TtlMayLapse` |
| `AvlSessionProofs!HandsOverSafely` | `HandsOver`: the uplink implements `DurableHandoff` | `~BackendMayFail`, `SharedDeduper => ~NodesMayExit`, `[]OneSessionEach` |
| `TcpServerProofs!TypeCorrect` | `TypeOK` | |
| `TcpServerProofs!DownlinkIsAuthenticated` | `RegisteredIsAuthenticated`: `byImei` names for a device only a session that device has logged in on | |
| `TcpServerProofs!RegistryIsRight` | `RegistryIsRightIfQuiet`: until a connection is cut, `byImei` names the connection in use, and nothing without a socket | |
| `TelemetryProofs!StoredFirst` | `StoredBeforeShown`: what is acknowledged to the group is in the table or was passed over unevaluated; what is shown is in the table | |
| `TelemetryProofs!NothingTwice` | `EvaluatedOnce`: the rules see no entry twice | |
| `TelemetryProofs!DeletedIsAccounted` | `AckedIsAccounted` of `UdpIngest` | |
| `TelemetryProofs!UdpStores` | `UdpStoresOnce` | `SharedDeduper \/ ~NodeMayExit` |
| `DownlinkProofs!RepliesArrive` | `RepliesReachCallers`: replies in order; an earlier command's goes to a caller only after a timeout, a later one's only after a skipped command; nobody waits but on a connection that is there or on a session that logged in after its close | |
| `DownlinkProofs!RowTellsTheRelay` | `RowIsTrue`: the success of a lone actuation is its own answer, and if the tracker carried it out relay and row agree; the tested flag belongs to the wiring unless a test crossed a configure | |
| `DownlinkProofs!LogTellsTheRelay` | `LogIsTrue`: successes logged are answers, one each; a command carried out without an entry took a fault | |
| `TelemetryProofs!AlertsMarkEdges` | `AlertsAreEdges`: an alert is raised at a position exactly if it differs from the last one the rule could judge | |
| `TelemetryProofs!TripsAreTheJourneys` | `TripsAreJourneys`: of positions handled in the order of their timestamps, the trips recorded are the journeys, from end to end, none twice, none missing | |
| `ControlPlaneProofs!TypeCorrect` | `TypeOK` of `DeviceRegistry` | |
| `ControlPlaneProofs!NoTwoLiveRows` | `OneLiveRowPerImei` | |
| `ControlPlaneProofs!SurvivesRaces` | `RegistrySurvivesRaces`: a lone operation rights the allow-list, and the quota is exceeded by fewer than there are requests | `FiniteRegistry` |
| `ControlPlaneProofs!FactorIsProved` | `EnabledIsProved` | |
| `ControlPlaneProofs!LookupsStayRecent` | `LookupsAreRecent`: `isAllowed` answers what the set said later than a TTL before the question | |
| `ControlPlaneProofs!ConsumerForgets` | `CachesForget`, an invariant and an action property | |
| `ControlPlaneProofs!SecretsStay` | `SecretIsStable`, an action property | |
| `ControlPlaneProofs!DeploysApply` | `DeploysAreSafe`: recorded means there; a finished run has applied all | |
| `ControlPlaneProofs!ForestIsKept` | `LoneMovesKeepForest`: while moves come one after the other, the groups are a forest and every walk ends | |
| `RepositoriesProofs!MapsAreTheTables` | `MirrorsPostgres`: the in-memory repositories implement `PgRepositories`, histories up to the repeats of an instant | |
| `ConsoleProofs!MapKeepsUp` | `BehindIsExcused` | |
| `ConsoleProofs!LoneMovesArrive` | `LoneMoveIsTrue` | |
| `ConsoleProofs!TreeStaysSound` | `TreeIsSound`: every device has a row, and the drops the page allows are legal | |
| `WebAppProofs!PanelShowsTheDevice` | `FormIsHeld` | |
| `WebAppProofs!ViewIsKept` | `ViewIsSound` | |
| `WebAppProofs!ShapesAreKept` | `DrawnIsKept` | |
| `WebAppProofs!TokensAreSpent` | `TokensAreSpentOnce` | |
| `WebAppProofs!EndsAreFinal` | `EndedStaysEnded`, an action property | |

Each theorem is of the form `Spec => []P` (or `Spec => P` for an action property and the
refinement) for the specification of its part. None of them uses fairness.

The hypotheses of the last column are conditions some deployment meets. `SharedDeduper`
with `~TtlMayLapse` is Redis with keys that outlive the resends; `~BackendMayFail` and the
like say which faults are left out. `OneSessionEach` says that a tracker's former session
has ended before it dials in again; the run `AvlSession_single` has one connection and so
meets it. `FiniteRegistry` asks that rows and requests be finite in number and that there
be a request.

The constants of a part are assumed, where the module declares them, to be what they are
in the code: bounds and lifetimes are natural numbers (at least 1 for a packet, a window,
a batch, a timestamp, the TTL of the allow-list); switches are Booleans; a fleet whose
packets are counted is finite; each request belongs to one tab; the default output 1 of
the immobilizer is one of its outputs; a page's list of groups is finite; the positions
that the rules see are among those a tracker can report (`RulesAssumption`); sinks that
resolve whatever happened are sinks (`SinkAssumption`); and `None`,
`Shared`, `"alert"` and the marks for groups that are gone are no values of anything else
(in the repositories, where instants are numbers too: `RepositoriesAssumption`).

### The arguments

No property of these parts is inductive as it stands. What each needs besides its types:

**The TCP uplink.** That a deleted record is accounted for follows from what was true
when the ack was sent, and nothing in `AckedIsAccounted` speaks of acks that are on their
way. `AccountingInv` therefore adds, for each thing from which an ack is made:

- `SessionShape`: what the variables of a session mean in each phase;
- `SeenIsAccounted`: a key in a dedupe map is accounted for from the moment it is set.
  This is the heart of the matter: it is what allows a session to acknowledge a record
  another one has claimed, and `abandoned` is exactly what must be in the disjunction for
  it to be true;
- `ShownIsAccounted`: so is every record of the packet in hand whose key was looked up;
- `Aligned`, on live connections: the packets the tracker waits for are those
  acknowledged, then the one in hand, then those in the inbox, in this order; the ones
  acknowledged are accounted for, and each ack has its packet's size.

An ack then deletes the packet at the head of the queue, which is accounted for.
`Accounted` itself never becomes false (`AccountedStays`): sinks only grow, and a
session that fails puts what it held among the abandoned.

`OneCopyInv` follows a copy of a record on its way to a sink: it is in the hands of one
session, or among the writes nobody awaits any more (`orphans`), or in the sink; in each
case its key is set, so nobody makes another. `HandoffInv` is stronger than accounting,
under its hypotheses: a set key stands for a record that is stored, or held by a session
that asks the same map (`ClaimsAreKept`). As a device has one session at a time, that
session is the one that acknowledges, so every record an ack speaks of is *stored*
(`AnsweredIsKept`) and `ReceiveAck` is the abstract deletion; every other step adds to
what is captured or stored, or stutters.

**The UDP server.** The same idea on datagrams: a key that is set is accounted for, and so
is what a handler has looked up and what an ack, in the air or received, has spoken of
(`ClaimsAreAccounted`). An ack finds the packet it is for by its id, so ids must differ
(`IdsDiffer`).

**The downlink registry.** With the types, `RegisteredIsAuthenticated` is inductive: a
session that registers was not ready, so no other entry names it, and an identity is
taken by a new socket only when no entry names it (in the code that is a new object).
That the entry is also the *current* session is not true in general (see below). While
nothing is cut, `AgreedInv` says that device and server agree on who talks to whom, and
that a session that is ready has the entry of its IMEI; that state once left never
returns (`QuietEnds`).

**The stream.** `CursorShape` and `BatchShape` say what the consumer group promises by the
way it is used: the cursor moves over the entries in order, a batch is right behind it,
and no entry is in the hands of two replicas. The rules see an entry only between its
delivery and its batch's next phase (`EvaluationOrder`), and a batch is in the table
before anything of it is shown or acknowledged (`InsertedFirst`), which also holds of
what a reader is about to write into a cold cache.

**Alerts and trips.** Both engines keep a few fields and forget the track, while the
properties speak of all of it. `EdgesInv` says what the fields are of the track: whether
the vehicle was over the limit, its ignition and the fences it was in are those of the last
position that the rule could judge, which is one of the log or none (`LastBefore`). A
position then differs from what the engine keeps exactly if it is an edge. `TripsInv` cuts
the track at the start `s` of the trip under way: the trips recorded are journeys, lie
apart and before `s`, and cover every movement before it; from `s` on nothing has
been a stop (`OpenFrom`). A position goes on with the trip (`TripGoesOn`), ends it, and
with it the cut moves behind (`TripArrives`), or the cut follows a vehicle that stands.

**The command channel.** Responses carry no id, so order is all there is: the commands at
the device, the responses in the air and the waiting callers are each in the order of the
numbers, a response in flight is to a later command than all that were handed out
(`FlightIsAhead`), and callers are served in order. If a caller got the response of a
later command, the device has skipped an earlier one on an open connection, and the count
of commands under way tells that it was not later than the caller's. The sessions that
still ask the allow-list after their close are counted, so that a dead session in the
registry takes a close.

**The immobilizer.** A request that nothing overlaps finds row and channel as it left them
(`AloneIsUndisturbed`): the only command on the wire is its own. Tests and configurations
that do not cross work on one wiring (`TestsAreApart`). The log is counted: successes told
and answers on their way are no more than commands answered (`AnswersFit`), and
requests over without an entry are no more than faults (`FewUnlogged`).

**The device table.** `LiveRowsDiffer` states uniqueness without counting. It is kept
because insert and restore are refused by the partial unique index, an update keeps the
IMEI of its row and a delete only takes live rows away; the `get` of `setStatus` and the
check of `provision` have nothing to do with it, however stale they are. For the
allow-list, `LoneInv` says that what a request that has been alone is about to publish is
the truth. For the quota, whoever has passed the check counts as if it had inserted
(`QuotaInv`); each request then exceeds the limit by one at most, and the first not at all.

**Caches.** What is cached was true when it was asked for, and expires a lifetime after the
answer came; a query under way is no older than its latency, and what a batch keeps no
older than the batch; of what it keeps, only what it had before the removal is of the row
that is gone (`HeldInv`). `LookupsAreRecent` holds of
overlapping lookups, since a later write into the map only makes its entry newer than the
entry's expiry tells.

**Second factor, notification settings.** As long as calls come one after the other, the
one under way has read what there still is.

**Migrations.** A runner leaves no file behind it unrecorded, and marks one as applied only
after its own statements, or after it has run into its objects (`RunnerIsRight`). Nothing
is assumed of other runners but that objects and records only grow.

**Groups.** `GroupsForm` adds to the forest what a lone move has learnt when it writes:
its group is not above its new parent, whatever was created or removed since it walked. It
stays true, since groups come as leaves and go with all below them, and then nothing
that was not above a group comes to be (`ChainShrinks`). The write changes one parent; a
cycle through it would have to go up from the new parent to the moved group (`WriteKeeps`).

**Repositories.** The state of the tables is read off that of the maps (`Grouped`,
`Table`); what is proved is that each call of the maps is the same call of the tables
with the same answer, and each read what it would return there. `MirrorInv`, which this
needs, is small: types, that a user's group has been created, and that there are no
more rows than the bound. The work is in the lemmas. `WalksMeet`: the list of doomed groups
that grows by children (in memory) and the walk up by parents (the cascade) find the
same pairs, each being the least set closed under the one or the other step. `Seen...`: a
reference is cleared before or after another field of the row is written, all the same, so
clearing on reading (in memory) is clearing on removal (`ON DELETE SET NULL`).
`TableGrows`: appending rows and reading the first of each instant is inserting
with `ON CONFLICT DO NOTHING`; a history without the later rows of an instant is the tables'
(`OnceIsFirst`). `ScanHolds`: the scan of `latest()` holds the first of the
newest rows so far, hence the value that the table kept for the newest instant.

**The live map.** The socket delivers in order, so behind a report that is not the newest
of its device another one is on its way; a page that shows less than the newest either has
it coming or is excused (`MapInv`). The excuses are a report published while the page was
away, at the other replica, or lost with its connection, a seed that was overtaken by one,
and a report that comes after a newer seed when the newest went elsewhere.

**The device tree.** A move that is alone is the only request (`OneAlone`), so the devices
answered for are where it was sent (`HasMoved`). A drop the page allows is legal when it
is sent, and stays so until groups change (`StaysLegal`). Every device has a row because a
list that was read in one piece is a forest without loose ends, of finitely many
groups: of those above the group of a device, one with the fewest groups above it has no
parent (`RootIsReached`), so the group's chain ends at a root that is drawn.

**The configuration panel.** Unless it is opened or turned over a request, one request at most is
under way, it is about the profile selected and keeps the panel busy; an answer is then
what the device holds unless it was written by somebody else (`PanelInv`).

**The dashboard.** `SelectionFits`: what is selected is live, or its removal has been
answered and will clear the selection, unless others removed it or it was selected when it
was gone. `DrawingFits`: every save under way is of the shape
that waits, unless one was drawn over a save. The camera follows only what is selected.

**Sign-in.** `FlightFit`: `refreshInFlight` of a page is a call of its own, which alone has
presented the token in `localStorage`, and what it is answered is nobody's token yet.
`ChainFit`: as long as no token was presented twice, a chain has one token that can be
exchanged or is being exchanged. A token comes to life only by signing in or from a living
one of its chain (`LifeIsPassed`), whence the dead stay dead. The proof was the first to
show that a *tab* may spend a token twice: a page loaded anew over a refresh presents it
again, which took more calls than the run makes. The model did not have this step;
`LoadApp` has it now, and the properties speak of page loads.

## What is only model-checked

- Liveness (`EventuallyKept`, `EventuallyOnline`, `DrainCompletes`, `RequestsEnd`,
  `EverySettles`, `StreamEventuallyStored`, `UdpEventuallyFreed`, `OfflineIsFlagged`,
  `MarkersFollow`), under the fairness above: out of the prover's reach.

The prover takes no induction theorem with a predicate as its parameter. What needs one
here is argued from a least element instead: of the groups above a group, the one with the
fewest above it (`RootIsReached`); of the positions before another, the last (`LastBefore`);
of the lengths for which a recursive scan would not exist, or not hold what it should, the
shortest (`ScanExists`, `ScanHolds`).

`TypeOK` of a module is stated for the reader. Those of `AvlSession`, `TcpServer` and
`DeviceRegistry` are theorems; the proofs about `StreamConsumer`, `UdpIngest`,
`CommandChannel` and `Immobilizer` carry theirs in the invariant. The others hold in the
runs of their modules (add `INVARIANT` with `TypeOK`, or `Part!TypeOK`) and are not among
their properties.

## Where code and documentation disagree

Four violations are runs of their own.

- **A rejected write loses records** (`AvlSession_sinkfail`). `ingestion/session.ts:132`
  says that if the write throws, "we never ack, so the device keeps the records and
  resends on reconnect". The keys set before the write stay set, so the resend is dropped
  as a duplicate and acknowledged. What is true is `AckedIsAccounted`.
- **Pending entries are stranded** (`StreamConsumer_stranded`).
  `control-plane/integrations/redis.ts:36` speaks of at-least-once delivery. The loop
  reads `>` only: what was delivered to a replica that ended, or to a handler that threw,
  stays pending for good. What is true is that each entry is stored, passed over for want
  of a device or a position, or stranded.
- **A network failure ends the session** (`Sessions_blip`). `web/lib/api.ts:67` returns
  false when the fetch of a refresh is rejected, and says "offline: don't destroy the
  session over a network blip"; the caller takes false for a refusal and clears both
  tokens (`api.ts:93-98`). What is true is that a page spends each token once and that what
  has ended stays ended (`TokensAreSpentOnce`, `EndedStaysEnded`).
- **Groups may form a cycle** (`Departments_moves`). `control-plane/engine/org.ts:3` says
  that a tenant's departments form a forest; two moves that overlap each look before the
  other writes (`departments.ts:41-50`). The next move under the cycle then walks up for
  ever, and with it the process (`hung`). What is true is `LoneMovesKeepForest`.

The same kind of modelling shows, in terms of the properties that had to be weakened:

- In Duplicate mode the second session acknowledges records the first has claimed but not
  yet written (`ingestion/session.ts:125`); so does an overlapping UDP handler
  (`udp-server.ts:44`). It is harmless unless the first one then fails. The end of a
  process does the same to claims in Redis (`tcp-server.ts:122`).
- `sinks.ts:9-10` says of a sink that its write "must not resolve until the data is
  durably held". The bus resolves whatever Redis answered (`main.ts:25`): what an XADD
  refused is acknowledged, and the tracker deletes it. With the WAL alone a rejected write
  rejects. Hence the last disjunct of `AckedIsAccounted`, here and in `UdpIngest`.
- The `close` handler deletes the entry of its IMEI even when it names a newer session
  (`tcp-server.ts:75`), and a login whose answer comes after the close registers a dead
  session (`session.ts:101`): the device is online and cannot be commanded until it
  dials in again.
- A command sent to a session that logged in after its close is on a list that nobody
  will ever serve: `POST /commands` waits for the timer and answers with a timeout, where
  a device that is not connected should be told at once (`health.ts:61-71`).
- A response that comes after its command's timeout is given to the next command
  (`session.ts:148`); hence `LateOnlyAfterTimeout`. A command that the device leaves
  unanswered shifts the next response to its caller, without any timeout; hence
  `EarlyOnlyAfterSkip`, and not "its own answer".
- The position of an IMEI without a device is skipped and acknowledged
  (`telemetry.consumer.ts:99-110`), also for ten seconds after the device is provisioned;
  the tracker has deleted it by then. The comment there (`:45-52`) knows.
- Revoking a device does not end its open session: the allow-list is asked at login only
  (`session.ts:90`).
- Two overlapping requests on one IMEI may leave the allow-list wrong
  (`devices.service.ts:110`), until a later operation or a restart rights it
  (`LoneOperationHeals`); overlapping provisions may exceed the quota
  (`devices.service.ts:50`), by fewer than there are requests.
- The hot state may go back to an older position: an older write may overtake, and a
  reader that found it cold may write what it read before (`telemetry.consumer.ts:133`,
  `positions.controller.ts:31`).
- `immobilizer.ts:26` says release "is never gated"; `mobilize` is refused while the
  feature is disabled (`:129`), also if it was disabled while the engine was blocked.
  `test` releases the relay and leaves `immobilized` as it was (`:103`). A change of
  wiring while immobilized makes the release go to another output.
- The immobilizer writes `immobilized` and logs a success for any reply
  (`immobilizer.ts:136-138`), "Unknown command" and a relay held back by its speed
  threshold (`immobilizer-command.ts:9-11`) included. So `LogIsTrue` counts answers, and
  `RowIsTrue` speaks of the relay only if the command was carried out.
- A page loaded anew while its refresh is under way finds the old token in
  `localStorage` and presents it again (`api.ts:51-61`); the server takes that for theft
  and ends the chain, or lets it fork. `TokensAreSpentOnce` therefore speaks of page
  loads, not of tabs.
- A replay is only seen when it comes after the first use was written: two tabs that
  refresh at the same time fork a chain (`auth.service.ts:67-79`), and a logout between
  the check and the insert of a refresh misses the new token. A tab that is left without
  a refresh token keeps a `refreshInFlight` that is resolved to false for good, since
  `api.ts:54` returns before the `try`; it never refreshes again until it is reloaded.
- `enableMfa` may switch on a secret that a `setupMfa` or `disableMfa` has just replaced
  (`auth.service.ts:141-147`): no code signs in any more. `EnabledIsProved` excuses calls
  that overlap and nothing else.
- Two updates of notification settings lose one of the two, and may each generate a
  signing secret (`notifications.ts:34-41`).
- `forgetImei` is overtaken by a query already under way, whose answer is cached again
  (`telemetry.consumer.ts:177`), and reaches one replica only; staleness then ends with
  the entry's lifetime (`CachesForget`). What a message was given before it keeps until the
  batch is inserted (`:131`): "immediately" (`:168`) is after the batch under way.
- The offline sweep judges every tenant by the default settings
  (`telemetry.consumer.ts:139`).
- `in-memory.repository.ts:260-262` says that a reference to a vanished group comes to
  the same as none. For a *user* it does not: in Postgres he becomes a user of the whole
  tenant, in memory he keeps the view of a group that is gone. `MirrorsPostgres` leaves
  out what such users read (`Stranded`).
- Of an instant reported twice the table keeps one row and the array both
  (`in-memory.repository.ts:152-157`): a history read in memory has more points.
  `MirrorsPostgres` compares histories without the repeats (`Once`).
- `realtime.gateway.ts:18-19` speaks of a single node, and two replicas are deployed
  (`infra/k8s/control-plane.yaml:18`) that share the consumer group: about half of the
  reports never reach a given page, and a report may come that is older than what it shows.
- A seed overwrites a newer position (`useLivePositions.ts:72`); `seedAlerts` brings back
  alerts cleared meanwhile or drops ones just raised (`:78`); a socket that reconnects
  after the token of the page's load has expired never gets in (`:28`, `:59`).
- `dashboard/page.tsx:280-282` says that the number of moving vehicles "always equals the
  count of green dots". The dots follow a clock of their own (`MapView.tsx:93-100`), the
  number only data (`page.tsx:285`). Geofences that come before the map has loaded are
  not drawn until they change (`MapView.tsx:381`).
- A shape drawn while another is being saved is lost when the save ends
  (`page.tsx:149`); a route that comes after the card was closed still moves the camera
  unless a vehicle is followed (`MapView.tsx:257-262`); a dialog reopened over a creation
  is closed by its end (`AddDeviceDialog.tsx:52`).
- `ReportingProfilePanel.tsx:11-12` says that "the form shows what the device says it
  HOLDS". A panel reopened over a read, or turned to a device whose creation ends under it
  (`dashboard/page.tsx:267`), is filled by the answer for the former device (`:71`).
- A device that another admin removes stays selected on this page, and one that a link
  names is selected though it may be gone (`dashboard/page.tsx:65`, `:247`).
- A bulk move stops at the first device that is refused, after those before it have
  moved, and the page is not told to read the list again (`page.tsx:207-208`).
- A trip of late records may end before it begins (`engine/trips.ts:65`), and the offline
  sweep knows only devices this process has seen since it started
  (`engine/alerts.ts:72`).

## What is not modelled, and why

- Decoding of frames, the geometry of fences, distances, reports, TOTP: arithmetic and
  byte formats, on which the states above do not depend. The framing of a chunked stream
  is abstracted to whole packets, the dedupe key to the record.
- Rendering, GraphQL, wiring, configuration, health and metrics: they read, or write what
  no other part relies on. Overview, reports and settings pages are forms over one call
  each.
- The gateway of the other replica and its pages: they are as this one.
- Rules of two engines: with two replicas each sees a part of a track, and no document
  says what they should conclude together.
- Roles and the last administrator (`users.ts:58`): nothing in the code keeps one, so
  there is nothing to check. The links between vehicles and devices (`vehicles.ts:37-43`)
  are two writes whose sides may differ after any relinking, as the comment there grants.
- Plans, payments and the user quota, which repeat the pattern of the device quota; trips,
  saved geofences and vehicles in the repositories, one statement each.
- `services/ingestion-prototype`, the simulator and the SDK: not part of the running system.
- Hash collisions of the dedupe key, clock skew between nodes, Redis failover.

## Plan

The safety properties of the runs are proved. What could be proved beyond them: that
`AckedIsAccounted` of the uplink holds of several trackers that share one in-memory
deduper at its limit, once eviction is modelled; and the refinement `HandsOver` with
overlapping sessions, of a contract weakened by what a failed session abandons.

Models that could still be added: billing (a change of plan against the quota), the
capacity of the in-memory deduper, the two replicas of a rule's engine once somebody says
what they owe.

## Running it

    tlc -workers 2 -config AvlSession_faults.cfg MCAvlSession     # any run of PROJECT.json
    tlapm AvlSessionProofs.tla                                    # and the other proofs

The longest runs take three to four minutes, the proofs together about fifteen from nothing.
