---------------------------- MODULE MCReplication ----------------------------
(* Replication with small constants for TLC. *)
EXTENDS Replication, TLC

Symmetry == Permutations(Brokers)
====================
