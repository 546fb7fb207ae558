---------------------------- MODULE PartitionMeta ----------------------------
(***************************************************************************)
(* The (replicas, leader, leader_epoch, ISR) tuple the controller keeps    *)
(* for every partition, and the two decisions it takes about a tuple:      *)
(* whom to elect, and whether to accept a proposed ISR.  Pure operators,   *)
(* shared by Controller (many partitions) and Replication (one partition   *)
(* with its brokers).                                                      *)
(*                                                                         *)
(* The source keeps the ISR as a vector and elects its first live member.  *)
(* Here the ISR is a set and every live member is a possible candidate:    *)
(* the source's choice is one of them, so whatever holds here for all      *)
(* candidates holds for the vector's first.                                *)
(***************************************************************************)
EXTENDS Integers

CONSTANTS Brokers,    \* ids of the brokers that may register (u32)
          NoLeader    \* the leader field of an offline partition (-1)

ASSUME NoLeaderAssumption == NoLeader \notin Brokers

PartitionState ==
    [leader       : Brokers \cup {NoLeader},
     leader_epoch : Nat,
     replicas     : SUBSET Brokers,
     isr          : SUBSET Brokers]

\* The tuple create_topic writes: first replica leads, everybody is in sync.
NewPartition(first, replicas) ==
    [leader |-> first, leader_epoch |-> 1,
     replicas |-> replicas, isr |-> replicas]

------------------------------------------------------------------------------
(* Election *)

\* elect_where_needed leaves a partition with a live leader alone, takes a
\* candidate from the live ISR, and otherwise marks the partition offline.
Candidates(p, alive) ==
    IF p.leader \in alive THEN {p.leader}
    ELSE IF p.isr \cap alive # {} THEN p.isr \cap alive
    ELSE {NoLeader}

\* Mutant of Elect: the new leader inherits the epoch.
MutantElectSameEpoch(p, c, alive) ==
    IF p.leader \in alive THEN p
    ELSE IF c = NoLeader THEN [p EXCEPT !.leader = NoLeader]
    ELSE [p EXCEPT !.leader = c, !.isr = @ \cap alive]

\* Mutant of Elect: the dead stay in the ISR.
MutantElectKeepIsr(p, c, alive) ==
    IF p.leader \in alive THEN p
    ELSE IF c = NoLeader THEN [p EXCEPT !.leader = NoLeader]
    ELSE [p EXCEPT !.leader = c, !.leader_epoch = @ + 1]

\* The tuple after elect_where_needed chose c among Candidates(p, alive).
Elect(p, c, alive) ==
    IF p.leader \in alive THEN p
    ELSE IF c = NoLeader THEN [p EXCEPT !.leader = NoLeader]
    ELSE [p EXCEPT !.leader = c,
                   !.leader_epoch = @ + 1,
                   !.isr = @ \cap alive]

------------------------------------------------------------------------------
(* ISR changes *)

\* Mutant of AlterIsrError: the ISR need not contain the leader.
MutantAlterWithoutLeader(p, epoch, isr) ==
    IF epoch # p.leader_epoch THEN "FencedEpoch"
    ELSE IF ~ isr \subseteq p.replicas THEN "Malformed" ELSE "None"

\* Mutant of AlterIsrError: an offline partition has no leader to contain.
MutantAlterOffline(p, epoch, isr) ==
    IF epoch # p.leader_epoch THEN "FencedEpoch"
    ELSE IF p.leader \notin isr \cup {NoLeader} \/ isr = {} \/ ~ isr \subseteq p.replicas
    THEN "Malformed" ELSE "None"
\* The verdict on AlterIsr.  An offline partition has leader -1, which the
\* source casts to u32::MAX: no ISR contains it, so every proposal is refused.
AlterIsrError(p, epoch, isr) ==
    CASE epoch # p.leader_epoch                          -> "FencedEpoch"
      [] epoch = p.leader_epoch
         /\ (p.leader \notin isr \/ ~ isr \subseteq p.replicas) -> "Malformed"
      [] OTHER                                           -> "None"

====================
