------------------------------ MODULE TcpServer ------------------------------
(***************************************************************************)
(* The TCP listener of the ingestion service (tcp-server.ts) and the login *)
(* phase of its sessions (session.ts, drain): accepting sockets up to a    *)
(* cap, asking the allow-list about the IMEI, registering the session for  *)
(* downlink, tearing down on close, idle timeout and errors, and draining  *)
(* on shutdown.                                                            *)
(*                                                                         *)
(* Three things happen at different moments and may interleave with        *)
(* everything else: the allow-list answers some time after it was asked;   *)
(* socket.destroy() is followed by the 'close' event only later; and a     *)
(* device that lost its link dials in again while the server still holds   *)
(* the old socket open.                                                    *)
(*                                                                         *)
(* A definition X_Why before a definition X is a mistake one could make in *)
(* X.  Nothing uses it: put in X's place, it breaks a property below.      *)
(***************************************************************************)
EXTENDS Naturals, FiniteSets

CONSTANTS
    Devices,         \* the trackers (IMEIs)
    Conns,           \* identities sockets are drawn from
    MaxConnections,  \* config.maxConnections
    MaxDrops,        \* bound: links lost, frames and queries gone wrong
    MaxSwitch,       \* bound: changes of the allow-list
    MayDrain,        \* TRUE: the process may be told to shut down
    None             \* no device, no connection

ASSUME TcpServerAssumption ==
    /\ MaxConnections \in Nat \ {0}
    /\ {MaxDrops, MaxSwitch} \subseteq Nat
    /\ MayDrain \in BOOLEAN
    /\ None \notin Devices \cup Conns

VARIABLES
    sock,      \* connection -> "none", "open", "destroyed" or "closed"
    phase,     \* connection -> "login", "asking", "answered", "ready", "over"
    peer,      \* connection -> the device at the other end
    answer,    \* connection -> what the allow-list answered
    imei,      \* connection -> session.imei (None until accepted)
    byImei,    \* device -> the session registered for downlink
    drain,     \* "no", "grace", "forced" or "done"
    using,     \* device -> the connection it talks on, or None
    allowed,   \* the shared allow-list
    switches, drops

serverVars == <<sock, phase, peer, answer, imei, byImei>>
vars == <<serverVars, drain, using, allowed, switches, drops>>

TypeOK ==
    /\ sock \in [Conns -> {"none", "open", "destroyed", "closed"}]
    /\ phase \in [Conns -> {"login", "asking", "answered", "ready", "over"}]
    /\ peer \in [Conns -> Devices \cup {None}]
    /\ answer \in [Conns -> BOOLEAN]
    /\ imei \in [Conns -> Devices \cup {None}]
    /\ byImei \in [Devices -> Conns \cup {None}]
    /\ drain \in {"no", "grace", "forced", "done"}
    /\ using \in [Devices -> Conns \cup {None}]
    /\ allowed \subseteq Devices
    /\ switches \in 0..MaxSwitch
    /\ drops \in 0..MaxDrops

Init ==
    /\ sock = [c \in Conns |-> "none"]
    /\ phase = [c \in Conns |-> "over"]
    /\ peer = [c \in Conns |-> None]
    /\ answer = [c \in Conns |-> FALSE]
    /\ imei = [c \in Conns |-> None]
    /\ byImei = [d \in Devices |-> None]
    /\ drain = "no"
    /\ using = [d \in Devices |-> None]
    /\ allowed \in SUBSET Devices
    /\ switches = 0
    /\ drops = 0

\* The set this.connections: a socket leaves it with its 'close' event.
connections_KeepClosed == {c \in Conns : sock[c] # "none"}
connections == {c \in Conns : sock[c] \in {"open", "destroyed"}}

-----------------------------------------------------------------------------
(***************************************************************************)
(* Sockets.                                                                *)
(***************************************************************************)

\* An identity is free when nothing in the process refers to it any more.
Unused(c) ==
    /\ sock[c] \in {"none", "closed"}
    /\ phase[c] \notin {"asking", "answered"}
    /\ \A d \in Devices : byImei[d] # c

\* onConnection: a fresh Session with an empty buffer.  While draining, or at
\* the cap, the socket is destroyed on the spot and the device stays offline.
Connect(c, d) ==
    /\ Unused(c)
    /\ using[d] = None
    /\ drain = "no"
    /\ Cardinality(connections) < MaxConnections
    /\ sock' = [sock EXCEPT ![c] = "open"]
    /\ phase' = [phase EXCEPT ![c] = "login"]
    /\ peer' = [peer EXCEPT ![c] = d]
    /\ imei' = [imei EXCEPT ![c] = None]
    /\ answer' = [answer EXCEPT ![c] = FALSE]
    /\ using' = [using EXCEPT ![d] = c]
    /\ UNCHANGED <<byImei, drain, allowed, switches, drops>>

\* What socket.destroy() does at once; a device using the connection notices.
Destroy(S) ==
    /\ sock' = [c \in Conns |-> IF c \in S /\ sock[c] = "open"
                                THEN "destroyed" ELSE sock[c]]
    /\ using' = [d \in Devices |-> IF using[d] \in S THEN None ELSE using[d]]

\* A link goes dead without a FIN: the device forgets the connection, the
\* server does not learn of it.
LinkLost(d) ==
    /\ using[d] # None
    /\ drops < MaxDrops
    /\ drops' = drops + 1
    /\ using' = [using EXCEPT ![d] = None]
    /\ UNCHANGED <<serverVars, drain, allowed, switches>>

\* The device hangs up, a socket error occurs, or a frame does not decode and
\* session.fail() closes the transport.
HangUp(c) ==
    /\ sock[c] = "open"
    /\ drops < MaxDrops
    /\ drops' = drops + 1
    /\ Destroy({c})
    /\ UNCHANGED <<phase, peer, answer, imei, byImei, drain, allowed, switches>>

\* The idle timer: only a socket nobody talks on stays silent that long.
IdleTimeout(c) ==
    /\ sock[c] = "open"
    /\ using[peer[c]] # c
    /\ Destroy({c})
    /\ UNCHANGED <<phase, peer, answer, imei, byImei, drain, allowed, switches,
                   drops>>

\* The 'close' handler: the entry of the session's IMEI is deleted, whichever
\* session it names.  A login still waiting for the allow-list is not stopped.
CloseEvent(c) ==
    /\ sock[c] = "destroyed"
    /\ sock' = [sock EXCEPT ![c] = "closed"]
    /\ byImei' = IF imei[c] # None THEN [byImei EXCEPT ![imei[c]] = None]
                 ELSE byImei
    /\ phase' = [phase EXCEPT ![c] = IF @ = "login" THEN "over" ELSE @]
    /\ UNCHANGED <<peer, answer, imei, drain, using, allowed, switches, drops>>

-----------------------------------------------------------------------------
(***************************************************************************)
(* Login.                                                                  *)
(***************************************************************************)

\* (As if the IMEI were taken for accepted before the answer is in.)
ReadImei_RegisterFirst(c) ==
    /\ sock[c] = "open"
    /\ phase[c] = "login"
    /\ phase' = [phase EXCEPT ![c] = "asking"]
    /\ imei' = [imei EXCEPT ![c] = peer[c]]
    /\ byImei' = [byImei EXCEPT ![peer[c]] = c]
    /\ UNCHANGED <<sock, peer, answer, drain, using, allowed, switches, drops>>

\* The IMEI frame is complete and isAllowed is called.
ReadImei(c) ==
    /\ sock[c] = "open"
    /\ phase[c] = "login"
    /\ phase' = [phase EXCEPT ![c] = "asking"]
    /\ UNCHANGED <<sock, peer, answer, imei, byImei, drain, using, allowed,
                   switches, drops>>

isAllowed(d) == d \in allowed

\* The allow-list looks the IMEI up; its answer is on the way.
LookUp(c) ==
    /\ phase[c] = "asking"
    /\ answer' = [answer EXCEPT ![c] = isAllowed(peer[c])]
    /\ phase' = [phase EXCEPT ![c] = "answered"]
    /\ UNCHANGED <<sock, peer, imei, byImei, drain, using, allowed, switches,
                   drops>>

\* The rest of the login phase of drain(), run whether or not the socket is
\* still there: REJECT and close, or register and ACCEPT.
Reject(c) ==
    /\ phase[c] = "answered"
    /\ ~answer[c]
    /\ phase' = [phase EXCEPT ![c] = "over"]
    /\ Destroy({c})
    /\ UNCHANGED <<peer, answer, imei, byImei, drain, allowed, switches, drops>>

Accept(c) ==
    /\ phase[c] = "answered"
    /\ answer[c]
    /\ phase' = [phase EXCEPT ![c] = "ready"]
    /\ imei' = [imei EXCEPT ![c] = peer[c]]
    /\ byImei' = [byImei EXCEPT ![peer[c]] = c]
    /\ UNCHANGED <<sock, peer, answer, drain, using, allowed, switches, drops>>

\* The lookup is rejected (Redis away): session.fail().
LookUpFails(c) ==
    /\ phase[c] = "asking"
    /\ drops < MaxDrops
    /\ drops' = drops + 1
    /\ phase' = [phase EXCEPT ![c] = "over"]
    /\ Destroy({c})
    /\ UNCHANGED <<peer, answer, imei, byImei, drain, allowed, switches>>

SwitchAllowed(d) ==
    /\ switches < MaxSwitch
    /\ switches' = switches + 1
    /\ allowed' = IF d \in allowed THEN allowed \ {d} ELSE allowed \cup {d}
    /\ UNCHANGED <<serverVars, drain, using, drops>>

-----------------------------------------------------------------------------
(***************************************************************************)
(* drain(): stop accepting, wait for the sockets to go or for the grace    *)
(* period to pass, destroy those that are left, and only then await the    *)
(* callback of server.close(), which comes when no connection is left.     *)
(***************************************************************************)
StartDrain ==
    /\ MayDrain
    /\ drain = "no"
    /\ drain' = "grace"
    /\ UNCHANGED <<serverVars, using, allowed, switches, drops>>

ForceClose_AwaitFirst ==
    /\ drain = "grace"
    /\ connections = {}
    /\ drain' = "forced"
    /\ UNCHANGED <<serverVars, using, allowed, switches, drops>>

ForceClose ==
    /\ drain = "grace"
    /\ drain' = "forced"
    /\ Destroy(connections)
    /\ UNCHANGED <<phase, peer, answer, imei, byImei, allowed, switches, drops>>

Drained ==
    /\ drain = "forced"
    /\ connections = {}
    /\ drain' = "done"
    /\ UNCHANGED <<serverVars, using, allowed, switches, drops>>

-----------------------------------------------------------------------------
Login(c) == ReadImei(c) \/ LookUp(c) \/ Reject(c) \/ Accept(c)

Next ==
    \/ \E c \in Conns :
          \/ Login(c) \/ LookUpFails(c)
          \/ HangUp(c) \/ IdleTimeout(c) \/ CloseEvent(c)
          \/ \E d \in Devices : Connect(c, d)
    \/ \E d \in Devices : LinkLost(d) \/ SwitchAllowed(d)
    \/ StartDrain \/ ForceClose \/ Drained

Spec == Init /\ [][Next]_vars

\* Timers expire, events follow, promises resolve, and a device dials in again and
\* again, so that in the end it meets with a moment when there is room for it.
\* Being told to shut down, losing a link and hanging up are never owed.
Fairness ==
    /\ \A c \in Conns :
          /\ WF_vars(Login(c)) /\ WF_vars(IdleTimeout(c)) /\ WF_vars(CloseEvent(c))
    /\ \A d \in Devices : SF_vars(\E c \in Conns : Connect(c, d))
    /\ WF_vars(ForceClose) /\ WF_vars(Drained)

FairSpec == Spec /\ Fairness

-----------------------------------------------------------------------------
(***************************************************************************)
(* Properties.                                                             *)
(***************************************************************************)

\* A device that has been accepted and is talking to the server can be reached.
Online(d) == using[d] # None /\ sock[using[d]] = "open" /\ phase[using[d]] = "ready"

\* A command for one device never goes to the socket of another, and never to a
\* session whose login was turned down or is still undecided.
RegisteredIsAuthenticated ==
    \A d \in Devices : byImei[d] # None =>
        /\ imei[byImei[d]] = d
        /\ peer[byImei[d]] = d
        /\ phase[byImei[d]] = "ready"

\* tcp-server.ts keeps a registry of authenticated devices for downlink: each
\* online device is in it, under the connection it is using, and what is in it
\* has a socket.  It errs only after a connection was cut: the close of an older
\* connection deletes the entry of the newer one, a login that comes through late
\* hides it, or enters a session whose close has been and gone.
RegistryIsRightIfQuiet ==
    drops = 0 /\ drain \in {"no", "grace"} =>
        \A d \in Devices :
            /\ Online(d) => byImei[d] = using[d]
            /\ byImei[d] # None => sock[byImei[d]] # "closed"

\* Sockets whose device is gone do not fill the pool for ever: a device that
\* stays allowed is in the end accepted, unless the process drains.
EventuallyOnline ==
    \A d \in Devices :
        []<>(\/ drain # "no"
             \/ d \notin allowed
             \/ using[d] # None /\ phase[using[d]] = "ready")

\* drain() never waits on the sockets it has yet to destroy: told to shut down,
\* the server is done in the end even if no device hangs up.
DrainCompletes == drain = "grace" ~> drain = "done"

=============================================================================
