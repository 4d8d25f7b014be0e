--------------------------- MODULE TcpServerProofs ---------------------------
(***************************************************************************)
(* What the registry of downlink sessions promises, whatever the number of *)
(* devices and sockets, and in whatever order the allow-list's answers,    *)
(* 'close' events, timeouts and reconnects come.                           *)
(***************************************************************************)
EXTENDS TcpServer, TLAPS

-----------------------------------------------------------------------------
\* destroy() keeps the types of what it touches.
LEMMA DestroyType ==
    ASSUME TypeOK, NEW S, Destroy(S)
    PROVE  /\ sock' \in [Conns -> {"none", "open", "destroyed", "closed"}]
           /\ using' \in [Devices -> Conns \cup {None}]
    BY DEF TypeOK, Destroy

\* A listener without sockets is well typed.
LEMMA InitType == Init => TypeOK
    BY TcpServerAssumption DEF Init, TypeOK

\* Every action keeps the types.
LEMMA StepType == TypeOK /\ [Next]_vars => TypeOK'
<1> SUFFICES ASSUME TypeOK, [Next]_vars PROVE TypeOK'
    OBVIOUS
<1> USE DEF serverVars
<1>1. ASSUME NEW c \in Conns, NEW d \in Devices, Connect(c, d) PROVE TypeOK'
    BY <1>1 DEF Connect, TypeOK
<1>2. ASSUME NEW d \in Devices, LinkLost(d) PROVE TypeOK'
    BY <1>2, TcpServerAssumption DEF LinkLost, TypeOK
<1>3. ASSUME NEW c \in Conns, HangUp(c) PROVE TypeOK'
  <2>1. drops' \in 0..MaxDrops
    BY <1>3, TcpServerAssumption DEF HangUp, TypeOK
  <2> QED
    BY <1>3, <2>1, DestroyType DEF HangUp, TypeOK
<1>4. ASSUME NEW c \in Conns, IdleTimeout(c) PROVE TypeOK'
    BY <1>4, DestroyType DEF IdleTimeout, TypeOK
<1>5. ASSUME NEW c \in Conns, CloseEvent(c) PROVE TypeOK'
    BY <1>5 DEF CloseEvent, TypeOK
<1>6. ASSUME NEW c \in Conns, ReadImei(c) PROVE TypeOK'
    BY <1>6 DEF ReadImei, TypeOK
<1>7. ASSUME NEW c \in Conns, LookUp(c) PROVE TypeOK'
    BY <1>7 DEF LookUp, isAllowed, TypeOK
<1>8. ASSUME NEW c \in Conns, Reject(c) PROVE TypeOK'
    BY <1>8, DestroyType DEF Reject, TypeOK
<1>9. ASSUME NEW c \in Conns, Accept(c) PROVE TypeOK'
    BY <1>9 DEF Accept, TypeOK
<1>10. ASSUME NEW c \in Conns, LookUpFails(c) PROVE TypeOK'
  <2>1. drops' \in 0..MaxDrops
    BY <1>10, TcpServerAssumption DEF LookUpFails, TypeOK
  <2> QED
    BY <1>10, <2>1, DestroyType DEF LookUpFails, TypeOK
<1>11. ASSUME NEW d \in Devices, SwitchAllowed(d) PROVE TypeOK'
    BY <1>11, TcpServerAssumption DEF SwitchAllowed, TypeOK
<1>12. CASE StartDrain
    BY <1>12 DEF StartDrain, TypeOK
<1>13. CASE ForceClose
    BY <1>13, DestroyType DEF ForceClose, TypeOK
<1>14. CASE Drained
    BY <1>14 DEF Drained, TypeOK
<1>15. CASE UNCHANGED vars
    BY <1>15 DEF vars, TypeOK
<1> QED
    BY <1>1, <1>2, <1>3, <1>4, <1>5, <1>6, <1>7, <1>8, <1>9, <1>10, <1>11,
       <1>12, <1>13, <1>14, <1>15 DEF Next, Login

\* Every state of the listener is well typed.
THEOREM TypeCorrect == Spec => []TypeOK
    BY InitType, StepType, PTL DEF Spec

-----------------------------------------------------------------------------
\* A step that leaves the sessions and the registry alone.
LEMMA RegisteredStays ==
    ASSUME RegisteredIsAuthenticated, UNCHANGED <<byImei, imei, peer>>,
           \A c \in Conns : phase[c] = "ready" => phase'[c] = "ready",
           byImei \in [Devices -> Conns \cup {None}]
    PROVE  RegisteredIsAuthenticated'
    BY DEF RegisteredIsAuthenticated

\* No step registers a session that has not been accepted, and none takes a
\* registered session's device, IMEI or acceptance from it.
LEMMA StepRegistered ==
    TypeOK /\ RegisteredIsAuthenticated /\ [Next]_vars => RegisteredIsAuthenticated'
<1> SUFFICES ASSUME TypeOK, RegisteredIsAuthenticated, [Next]_vars
             PROVE  RegisteredIsAuthenticated'
    OBVIOUS
<1> USE DEF serverVars
\* An identity is taken only when the registry does not name it.
<1>1. ASSUME NEW c \in Conns, NEW d \in Devices, Connect(c, d)
      PROVE  RegisteredIsAuthenticated'
    BY <1>1 DEF Connect, Unused, RegisteredIsAuthenticated, TypeOK
\* An entry is deleted; the other entries name other sessions.
<1>2. ASSUME NEW c \in Conns, CloseEvent(c) PROVE RegisteredIsAuthenticated'
    BY <1>2 DEF CloseEvent, RegisteredIsAuthenticated, TypeOK
\* The session that registers was not ready, so no other entry names it.
<1>3. ASSUME NEW c \in Conns, Accept(c) PROVE RegisteredIsAuthenticated'
    BY <1>3 DEF Accept, RegisteredIsAuthenticated, TypeOK
<1>4. ASSUME NEW c \in Conns, ReadImei(c) \/ LookUp(c) \/ Reject(c) \/ LookUpFails(c)
      PROVE  RegisteredIsAuthenticated'
    BY <1>4, RegisteredStays DEF ReadImei, LookUp, Reject, LookUpFails, TypeOK
<1>5. ASSUME NEW c \in Conns, HangUp(c) \/ IdleTimeout(c)
      PROVE  RegisteredIsAuthenticated'
    BY <1>5, RegisteredStays DEF HangUp, IdleTimeout, TypeOK
<1>6. ASSUME NEW d \in Devices, LinkLost(d) \/ SwitchAllowed(d)
      PROVE  RegisteredIsAuthenticated'
    BY <1>6, RegisteredStays DEF LinkLost, SwitchAllowed, TypeOK
<1>7. CASE StartDrain \/ ForceClose \/ Drained \/ UNCHANGED vars
    BY <1>7, RegisteredStays DEF StartDrain, ForceClose, Drained, vars, TypeOK
<1> QED
    BY <1>1, <1>2, <1>3, <1>4, <1>5, <1>6, <1>7 DEF Next, Login

\* However logins, closes and reconnects interleave, the registry sends the
\* commands for a device to a session that device has authenticated.
THEOREM DownlinkIsAuthenticated == Spec => []RegisteredIsAuthenticated
<1>1. Init => RegisteredIsAuthenticated
    BY DEF Init, RegisteredIsAuthenticated
<1> QED
    BY <1>1, TypeCorrect, StepRegistered, PTL DEF Spec

-----------------------------------------------------------------------------
(***************************************************************************)
(* The registry while no connection is cut.                                *)
(***************************************************************************)

\* Device and server agree on who talks to whom; a session that is logging in or
\* logged in has its socket; and only a session that is ready has an IMEI, and the
\* registry's entry for it.
AgreedInv ==
    /\ \A c \in Conns :
          /\ phase[c] # "over" => sock[c] = "open"
          /\ sock[c] = "open" => peer[c] \in Devices /\ using[peer[c]] = c
          /\ phase[c] # "ready" => imei[c] = None
          /\ phase[c] = "ready" => byImei[peer[c]] = c
    /\ \A d \in Devices : using[d] # None =>
          peer[using[d]] = d /\ sock[using[d]] = "open"

Quiet == drops = 0 /\ drain \in {"no", "grace"}

\* Nothing becomes quiet again.
LEMMA QuietEnds == TypeOK /\ [Next]_vars /\ Quiet' => Quiet
<1> SUFFICES ASSUME TypeOK, [Next]_vars, Quiet' PROVE Quiet
    OBVIOUS
<1>1. /\ drops' = drops \/ drops' = drops + 1
      /\ drain' = drain \/ drain = "no" \/ drain' \in {"forced", "done"}
    BY DEF Next, Login, Connect, LinkLost, HangUp, IdleTimeout, CloseEvent, ReadImei,
       LookUp, Reject, Accept, LookUpFails, SwitchAllowed, StartDrain, ForceClose,
       Drained, vars
<1>2. drops \in Nat
    BY TcpServerAssumption DEF TypeOK
<1> QED
    BY <1>1, <1>2 DEF Quiet

LEMMA StepAgreed == TypeOK /\ (Quiet => AgreedInv) /\ [Next]_vars => (Quiet => AgreedInv)'
<1> SUFFICES ASSUME TypeOK, AgreedInv, Quiet, [Next]_vars, Quiet' PROVE AgreedInv'
    BY QuietEnds
<1> USE TcpServerAssumption DEF serverVars
<1>1. ASSUME NEW c \in Conns, NEW d \in Devices, Connect(c, d) PROVE AgreedInv'
  <2>1. /\ sock[c] # "open" /\ phase[c] = "over" /\ using[d] = None
        /\ sock' = [sock EXCEPT ![c] = "open"]
        /\ phase' = [phase EXCEPT ![c] = "login"]
        /\ peer' = [peer EXCEPT ![c] = d]
        /\ imei' = [imei EXCEPT ![c] = None]
        /\ using' = [using EXCEPT ![d] = c]
        /\ byImei' = byImei
    BY <1>1 DEF Connect, Unused, AgreedInv
  <2> QED
    BY <2>1 DEF AgreedInv, TypeOK
\* The socket of a session that is over was destroyed; it never had an IMEI.
<1>2. ASSUME NEW c \in Conns, CloseEvent(c) PROVE AgreedInv'
  <2>1. /\ sock[c] = "destroyed" /\ sock' = [sock EXCEPT ![c] = "closed"]
        /\ UNCHANGED <<byImei, phase, peer, imei, using>>
    BY <1>2 DEF CloseEvent, AgreedInv, TypeOK
  <2> QED
    BY <2>1 DEF AgreedInv, TypeOK
<1>3. ASSUME NEW c \in Conns, ReadImei(c) \/ LookUp(c) PROVE AgreedInv'
    BY <1>3 DEF ReadImei, LookUp, AgreedInv, TypeOK
\* A session that is turned down was not ready.
<1>4. ASSUME NEW c \in Conns, Reject(c) PROVE AgreedInv'
  <2>1. /\ sock[c] = "open" /\ phase[c] = "answered" /\ imei[c] = None
        /\ peer[c] \in Devices /\ using[peer[c]] = c
        /\ phase' = [phase EXCEPT ![c] = "over"]
        /\ UNCHANGED <<peer, imei, byImei>>
    BY <1>4 DEF Reject, AgreedInv
  <2>2. /\ sock' = [sock EXCEPT ![c] = "destroyed"]
        /\ using' = [d \in Devices |-> IF using[d] = c THEN None ELSE using[d]]
    BY <1>4, <2>1 DEF Reject, Destroy, TypeOK
  <2> QED
    BY <2>1, <2>2 DEF AgreedInv, TypeOK
\* The device talks on this connection only, so no other session of it is ready.
<1>5. ASSUME NEW c \in Conns, Accept(c) PROVE AgreedInv'
  <2>1. /\ phase[c] = "answered" /\ sock[c] = "open"
        /\ peer[c] \in Devices /\ using[peer[c]] = c
        /\ phase' = [phase EXCEPT ![c] = "ready"]
        /\ imei' = [imei EXCEPT ![c] = peer[c]]
        /\ byImei' = [byImei EXCEPT ![peer[c]] = c]
        /\ UNCHANGED <<sock, peer, using>>
    BY <1>5 DEF Accept, AgreedInv
  <2> QED
    BY <2>1 DEF AgreedInv, TypeOK
<1>6. ASSUME NEW c \in Conns PROVE ~HangUp(c) /\ ~LookUpFails(c) /\ ~IdleTimeout(c)
    BY DEF HangUp, LookUpFails, IdleTimeout, Quiet, AgreedInv
<1>7. ASSUME NEW d \in Devices PROVE ~LinkLost(d)
    BY DEF LinkLost, Quiet
<1>8. ~ForceClose /\ ~Drained
    BY DEF ForceClose, Drained, Quiet
<1>9. ASSUME StartDrain \/ UNCHANGED vars \/ \E d \in Devices : SwitchAllowed(d)
      PROVE  AgreedInv'
    BY <1>9 DEF StartDrain, SwitchAllowed, vars, AgreedInv
<1> QED
    BY <1>1, <1>2, <1>3, <1>4, <1>5, <1>6, <1>7, <1>8, <1>9 DEF Next, Login

\* tcp-server.ts: until a connection is cut, every online device is registered
\* under the connection it uses, and whatever is registered has a socket.
THEOREM RegistryIsRight == Spec => []RegistryIsRightIfQuiet
<1>1. Init => AgreedInv
    BY TcpServerAssumption DEF Init, AgreedInv
<1>2. RegisteredIsAuthenticated /\ (Quiet => AgreedInv) /\ TypeOK => RegistryIsRightIfQuiet
  <2> SUFFICES ASSUME RegisteredIsAuthenticated, AgreedInv, TypeOK, NEW d \in Devices
               PROVE  /\ Online(d) => byImei[d] = using[d]
                      /\ byImei[d] # None => sock[byImei[d]] # "closed"
    BY DEF RegistryIsRightIfQuiet, Quiet
  <2>1. Online(d) => byImei[d] = using[d]
    BY DEF Online, AgreedInv, TypeOK
  <2>2. byImei[d] # None => sock[byImei[d]] # "closed"
    BY DEF RegisteredIsAuthenticated, AgreedInv, TypeOK
  <2> QED
    BY <2>1, <2>2
<1> QED
    BY <1>1, <1>2, TypeCorrect, DownlinkIsAuthenticated, StepAgreed, PTL DEF Spec

=============================================================================
