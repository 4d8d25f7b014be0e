----------------------------- MODULE MCDownlink -----------------------------
(***************************************************************************)
(* Small instances, for TLC, of the two ends of a command to a tracker:    *)
(* the engine cut, wiring and test requests of the control plane           *)
(* (Immobilizer) and the commands and replies of one device connection     *)
(* (CommandChannel).  They share no state: a behaviour belongs to one      *)
(* part, and the variables of the other keep their initial values.         *)
(***************************************************************************)
EXTENDS Immobilizer

CONSTANTS MaxCommand, MaxClose        \* CommandChannel

ASSUME ChannelAssumption == {MaxCommand, MaxClose} \subseteq Nat

VARIABLES
    part,
    link, loggedIn, byImei, asking, next, status, reply, pending, down, up, skipped, closes

Channel == INSTANCE CommandChannel

requestVars == vars
channelVars == <<link, loggedIn, byImei, asking, next, status, reply, pending, down, up,
                 skipped, closes>>

PartInit == part \in {"requests", "channel"} /\ Init /\ Channel!Init

PartNext ==
    \/ part = "requests" /\ Next /\ UNCHANGED <<part, channelVars>>
    \/ part = "channel" /\ Channel!Next /\ UNCHANGED <<part, requestVars>>

\* Each part runs under the fairness of its module.
PartSpec ==
    /\ PartInit /\ [][PartNext]_<<part, requestVars, channelVars>>
    /\ \/ part = "requests" /\ Fairness
       \/ part = "channel" /\ Channel!Fairness

-----------------------------------------------------------------------------
\* Each request of immobilizer.ts comes to an end.
RequestsEnd == part = "requests" => EveryRequestEnds

\* handleCodec12 hands replies to callers in the order of their commands, astray only
\* after a timeout or a command the device skipped, and a connection that closes
\* leaves nobody waiting but on a session that logged in after it.
RepliesReachCallers == Channel!RepliesReachCallers

\* sendCommand settles every command: a reply, a timeout or a closed connection.
EverySettles == part = "channel" => Channel!EverySettles

=============================================================================
