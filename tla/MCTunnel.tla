------------------------------ MODULE MCTunnel ------------------------------
(* Bounded instances of Tunnel for TLC. *)
EXTENDS Tunnel, TLC

\* Workers, connections, users and addresses are interchangeable.
Symmetry ==
  Permutations(Workers) \cup Permutations(Conns) \cup Permutations(Addrs)
    \cup Permutations(Users)
=============================================================================
