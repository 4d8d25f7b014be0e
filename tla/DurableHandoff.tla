--------------------------- MODULE DurableHandoff ---------------------------
(***************************************************************************)
(* The contract between a tracker and the ingestion service, as sinks.ts   *)
(* states it: the device deletes a record only after every sink holds it.  *)
(* A record is in exactly one custody at any time, or in both.  How packets *)
(* are cut, deduplicated, retried and acknowledged is left to              *)
(* the modules that implement this one.                                    *)
(***************************************************************************)
CONSTANTS Rec, Targets

VARIABLES
    known,   \* records that exist
    held,    \* records in the flash memory of their device
    kept     \* sink -> records it durably holds

vars == <<known, held, kept>>

Init == known = {} /\ held = {} /\ kept = [t \in Targets |-> {}]

\* A tracker captures a record.
Appear(r) ==
    /\ r \in Rec \ known
    /\ known' = known \cup {r}
    /\ held' = held \cup {r}
    /\ UNCHANGED kept

\* A sink stores some records that exist, again or for the first time.
Store(t, S) ==
    /\ S \subseteq known
    /\ kept' = [kept EXCEPT ![t] = @ \cup S]
    /\ UNCHANGED <<known, held>>

\* A tracker deletes records that every sink holds.
Release(S) ==
    /\ S \subseteq held
    /\ \A t \in Targets : S \subseteq kept[t]
    /\ held' = held \ S
    /\ UNCHANGED <<known, kept>>

Next ==
    \/ \E r \in Rec : Appear(r)
    \/ \E t \in Targets, S \in SUBSET Rec : Store(t, S)
    \/ \E S \in SUBSET Rec : Release(S)

Spec == Init /\ [][Next]_vars

=============================================================================
