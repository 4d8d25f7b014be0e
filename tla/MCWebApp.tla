------------------------------ MODULE MCWebApp ------------------------------
(***************************************************************************)
(* Small instances, for TLC, of the parts of the web app whose steps       *)
(* depend on answers still to come: the markers of the map, which its      *)
(* worker computes (MapView), sign-in, which the tabs of a browser and the *)
(* server share (Sessions), the dashboard page (Dashboard: once with       *)
(* vehicles and no shapes, once with shapes and no vehicles) and the panel *)
(* for a device's configuration (DeviceConfig).  They share no state: a    *)
(* behaviour belongs to one part, and the variables of the others keep one *)
(* initial value.                                                          *)
(***************************************************************************)
EXTENDS MapView, Sequences, FiniteSets

CONSTANTS
    Tabs, Requests, TabOf, MaxToken, MaxCall, MaxExpiry, MaxBlip, MaxSwitch,   \* Sessions
    MaxChain,                          \* bound: times somebody signs in
    t1, t2, a1, a2, a3,                \* tabs and their requests
    Vehicles, NewVehicles, MaxPageRequest, MaxSave, MaxShape, MaxMove,  \* Dashboard
    Profiles, MaxValue, MaxPanelRequest, MaxOther, MaxCut               \* DeviceConfig

\* Every request is of a tab.
ASSUME TabAssumption == MaxCall \in Nat /\ TabOf \in [Requests -> Tabs]

VARIABLES
    part,
    active, tokens, calls, store, page, flight, req, bounds,
    live, shapes, vehicles, geofences, requests, sent, dialog, selected, follow,
    asking, routes, dot, at, camera, panel, draw, clicks, pending, sketched, flat,
    strayed, crossed, kept, dropped, overlapped,
    held, connected, open, profile, status, form, reads, readsSent, others, cuts,
    reopened, stirred

MCTabOf == [r \in {a1, a2, a3} |-> IF r = a3 THEN t2 ELSE t1]

Sign == INSTANCE Sessions WITH MaxToggle <- MaxSwitch

Look == INSTANCE Dashboard WITH
          Devices <- Vehicles, New <- NewVehicles, MaxRequest <- MaxPageRequest,
          MaxShape <- 0, devices <- vehicles, fences <- shapes, drawn <- sketched
Sketch == INSTANCE Dashboard WITH
          Devices <- {}, New <- {}, MaxRequest <- MaxSave, MaxMove <- 0,
          devices <- vehicles, fences <- shapes, drawn <- sketched

Config == INSTANCE DeviceConfig WITH
            MaxRequest <- MaxPanelRequest, selected <- profile, requests <- reads,
            sent <- readsSent

mapVars == vars
signVars == <<active, tokens, calls, store, page, flight, req, bounds>>
pageVars == <<live, shapes, vehicles, geofences, requests, sent, dialog, selected,
              follow, asking, routes, dot, at, camera, panel, draw, clicks, pending,
              sketched, flat, strayed, crossed, kept, dropped, overlapped>>
configVars == <<held, connected, open, profile, status, form, reads, readsSent,
                others, cuts, reopened, stirred>>
all == <<part, mapVars, signVars, pageVars, configVars>>

PartInit ==
    /\ part \in {"map", "sign", "look", "sketch", "config"}
    /\ Init /\ Sign!Init
    /\ IF part = "sketch" THEN Sketch!Init
       ELSE /\ Look!Init
            /\ part # "look" => selected = Look!None /\ live = Vehicles \ NewVehicles
    /\ Config!Init /\ (part = "config" \/ profile = CHOOSE p \in Profiles : TRUE)

\* Three chains side by side say no more than two.
FewChains == Cardinality({tokens'[i].family : i \in DOMAIN tokens'}) =< MaxChain

PartNext ==
    \/ part = "map" /\ Next /\ UNCHANGED <<part, signVars, pageVars, configVars>>
    \/ part = "sign" /\ Sign!Next /\ FewChains /\ UNCHANGED <<part, mapVars, pageVars, configVars>>
    \/ part = "look" /\ Look!Next /\ UNCHANGED <<part, mapVars, signVars, configVars>>
    \/ part = "sketch" /\ Sketch!Next /\ UNCHANGED <<part, mapVars, signVars, configVars>>
    \/ part = "config" /\ Config!Next /\ UNCHANGED <<part, mapVars, signVars, pageVars>>

\* Only the map's worker and its source owe anything.
PartSpec ==
    /\ PartInit /\ [][PartNext]_all
    /\ part = "map" => Fairness

-----------------------------------------------------------------------------
\* The markers come to show what was last computed.
MarkersFollow == part = "map" => MarkersCatchUp

\* A chain of refresh tokens that is dead stays dead, and a browser signed out
\* stays signed out.
EndedStaysEnded == Sign!DeadChainStaysDead /\ Sign!SignedOutStaysOut

\* One page never presents a refresh token twice, and a chain forks only when two
\* page loads presented one token.
TokensAreSpentOnce == Sign!TabSpendsOnce /\ Sign!ForksTakeTwoTabs

\* lib/api.ts:67: a network failure does not end the session.
BlipKeepsSession == Sign!BlipKeepsSession

\* The page keeps the camera on the vehicle followed, and selects only what its
\* list holds.
ViewIsSound == part = "look" => Look!FollowKeepsCamera /\ Look!SelectedIsListed

\* No shape the user has drawn is lost, but by drawing over a save.
DrawnIsKept == part = "sketch" => Sketch!DrawnIsKept

\* What the configuration panel shows is what the device holds.
FormIsHeld == Config!FormIsHeld

=============================================================================
