-------------------------- MODULE MCPartitionThread --------------------------
(* PartitionThread with small constants for TLC. *)
EXTENDS PartitionThread

====================
