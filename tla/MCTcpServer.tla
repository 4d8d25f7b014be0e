----------------------------- MODULE MCTcpServer -----------------------------
(***************************************************************************)
(* Small instances of TcpServer for TLC.                                   *)
(***************************************************************************)
EXTENDS TcpServer, TLC

\* Connections and devices are each used alike everywhere.
Symmetry == Permutations(Conns) \cup Permutations(Devices)

=============================================================================
