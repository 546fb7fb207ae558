------------------------------- MODULE MCGroups -------------------------------
(* Groups with small constants for TLC: one topic that every consumer reads.  *)
EXTENDS Groups

CONSTANTS t, PartitionsOfT

MCPartitionCount == (t :> PartitionsOfT)
MCSubscription == [c \in Consumers |-> {t}]

====================
