----------------------------- MODULE MCTcpServer -----------------------------
(* TcpServer for TLC: connections and descriptors are interchangeable. *)
EXTENDS TcpServer, TLC

Symmetry == Permutations(Conns) \cup Permutations(Fds)
=============================================================================
