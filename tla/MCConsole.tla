----------------------------- MODULE MCConsole -----------------------------
(***************************************************************************)
(* Small instances, for TLC, of two parts of the web app that hold a copy  *)
(* of what the server keeps of the fleet: the live positions and alerts    *)
(* (LiveMap) and the tree of groups and devices (DeviceTree).  They share  *)
(* no state: a behaviour belongs to one part, and the variables of the     *)
(* other keep one initial value.                                           *)
(***************************************************************************)
EXTENDS LiveMap, FiniteSets, TLC

CONSTANTS Groups, MaxRequest, MaxOther        \* DeviceTree

\* A tenant has finitely many groups, and no id of a group is a mark of DeviceTree.
ASSUME TreeAssumption == IsFiniteSet(Groups) /\ {"none", "absent"} \cap Groups = {}

VARIABLES part, parent, group, depts, rows, hidden, checked, drag, requests, sent,
          others

Tree == INSTANCE DeviceTree

mapVars == vars
treeVars == <<parent, group, depts, rows, hidden, checked, drag, requests, sent,
              others>>

\* Devices, and groups, are used alike everywhere.
Symmetry == Permutations(Devices) \cup Permutations(Groups)

PartInit ==
    /\ part \in {"map", "tree"} /\ Init /\ Tree!Init
    /\ part = "map" => Tree!In(parent) = {} /\ \A d \in Devices : group[d] = Tree!None

PartNext ==
    \/ part = "map" /\ Next /\ UNCHANGED <<part, treeVars>>
    \/ part = "tree" /\ Tree!Next /\ UNCHANGED <<part, mapVars>>

PartSpec == PartInit /\ [][PartNext]_<<part, mapVars, treeVars>>

-----------------------------------------------------------------------------
\* The tree loses no device, and the server accepts the drops the tree allows.
TreeIsSound == Tree!EveryDeviceHasARow /\ Tree!AllowedDropsAreLegal

\* The page says that devices moved when they all did.
LoneMoveIsTrue == Tree!LoneMoveIsTrue

=============================================================================
