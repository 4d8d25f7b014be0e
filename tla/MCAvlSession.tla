---------------------------- MODULE MCAvlSession ----------------------------
(***************************************************************************)
(* Small instances of AvlSession for TLC.                                  *)
(***************************************************************************)
EXTENDS AvlSession, TLC

\* Connections and ingest nodes are each used alike everywhere.
Symmetry == Permutations(Conns) \cup Permutations(Nodes)

\* A record reaches every sink at last, and its place in the flash is freed.
EventuallyKept == EventuallyStored /\ EventuallyFreed

=============================================================================
