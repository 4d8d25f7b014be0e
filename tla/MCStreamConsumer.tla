-------------------------- MODULE MCStreamConsumer --------------------------
(***************************************************************************)
(* Small instances of StreamConsumer for TLC.                              *)
(***************************************************************************)
EXTENDS StreamConsumer, TLC

\* Devices and replicas are each used alike everywhere.
Symmetry == Permutations(Devices) \cup Permutations(Replicas)

=============================================================================
