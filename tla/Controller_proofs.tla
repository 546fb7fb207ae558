-------------------------- MODULE Controller_proofs --------------------------
(***************************************************************************)
(* Proofs about Controller, for every set of brokers and topics and every  *)
(* value of the bounds.                                                    *)
(***************************************************************************)
EXTENDS Controller, FiniteSetTheorems, TLAPS

------------------------------------------------------------------------------
(* What an election does to one tuple *)

\* The three outcomes of elect_where_needed on one partition.
LEMMA ElectCases ==
  ASSUME NEW p \in PartitionState, NEW live \in SUBSET Brokers,
         NEW c \in Candidates(p, live)
  PROVE  \/ p.leader \in live /\ Elect(p, c, live) = p
         \/ /\ p.leader \notin live
            /\ p.isr \cap live = {}
            /\ c = NoLeader
            /\ Elect(p, c, live) = [p EXCEPT !.leader = NoLeader]
         \/ /\ p.leader \notin live
            /\ c \in p.isr \cap live
            /\ Elect(p, c, live) = [p EXCEPT !.leader = c,
                                             !.leader_epoch = p.leader_epoch + 1,
                                             !.isr = p.isr \cap live]
  <1>1. CASE p.leader \in live
    BY <1>1 DEF Elect
  <1>2. CASE p.leader \notin live /\ p.isr \cap live = {}
    BY <1>2 DEF Elect, Candidates
  <1>3. CASE p.leader \notin live /\ p.isr \cap live # {}
    <2>1. c \in p.isr \cap live
      BY <1>3 DEF Candidates
    <2>2. c # NoLeader
      BY <2>1, NoLeaderAssumption
    <2>3. QED
      BY <1>3, <2>1, <2>2 DEF Elect
  <1>4. QED
    BY <1>1, <1>2, <1>3

\* An elected tuple keeps its replicas, its ISR shrinks but never empties, its
\* leader is a live ISR member or nobody, and the epoch moves with the leader.
LEMMA ElectTuple ==
  ASSUME NEW p \in PartitionState, NEW live \in SUBSET Brokers,
         NEW c \in Candidates(p, live), NEW q, q = Elect(p, c, live)
  PROVE  /\ q \in PartitionState
         /\ q.replicas = p.replicas
         /\ p.isr # {} => q.isr # {}
         /\ q.isr \subseteq p.isr
         /\ p.leader \in p.isr \cup {NoLeader} => q.leader \in q.isr \cup {NoLeader}
         /\ q.leader \in live \/ (q.isr \cap live = {} /\ q.leader = NoLeader)
         /\ \/ q.leader_epoch = p.leader_epoch /\ q.leader \in {p.leader, NoLeader}
            \/ q.leader_epoch = p.leader_epoch + 1
  <1>1. CASE p.leader \in live /\ q = p
    BY <1>1 DEF PartitionState
  <1>2. CASE /\ p.isr \cap live = {}
             /\ q = [p EXCEPT !.leader = NoLeader]
    BY <1>2 DEF PartitionState
  <1>3. CASE /\ c \in p.isr \cap live
             /\ q = [p EXCEPT !.leader = c,
                              !.leader_epoch = p.leader_epoch + 1,
                              !.isr = p.isr \cap live]
    <2>1. /\ q.leader = c
          /\ q.leader_epoch = p.leader_epoch + 1
          /\ q.isr = p.isr \cap live
          /\ q.replicas = p.replicas
      BY <1>3 DEF PartitionState
    <2>2. q = [leader |-> c, leader_epoch |-> p.leader_epoch + 1,
               replicas |-> p.replicas, isr |-> p.isr \cap live]
      BY <1>3 DEF PartitionState
    <2>3. q \in PartitionState
      <3>1. /\ c \in Brokers /\ p.leader_epoch + 1 \in Nat
            /\ p.replicas \subseteq Brokers /\ p.isr \cap live \subseteq Brokers
        BY <1>3 DEF PartitionState
      <3>2. QED
        BY <2>2, <3>1 DEF PartitionState
    <2>4. QED
      BY <1>3, <2>1, <2>3
  <1>4. QED
    BY <1>1, <1>2, <1>3, ElectCases

------------------------------------------------------------------------------
(* What a step does to all tuples *)

\* From p to q a tuple keeps its leader or loses it, or enters a new epoch.
TupleStep(p, q) ==
    \/ q.leader_epoch = p.leader_epoch /\ q.leader \in {p.leader, NoLeader}
    \/ q.leader_epoch = p.leader_epoch + 1

PartsStep ==
    /\ PartsOK(parts')
    /\ DOMAIN parts \subseteq DOMAIN parts'
    /\ \A k \in DOMAIN parts : TupleStep(parts[k], parts'[k])
    /\ WellFormed(parts) => WellFormed(parts')

\* A step that leaves the tuples alone is one of the allowed steps.
LEMMA SameParts ==
  ASSUME PartsOK(parts), parts' = parts
  PROVE  PartsStep
  BY DEF PartsOK, PartsStep, TupleStep, WellFormed, PartitionState

\* elect_where_needed respects all of it, and leaves every partition led by a
\* live broker or offline with no live ISR member.
LEMMA ElectStep ==
  ASSUME PartsOK(parts), NEW live \in SUBSET Brokers, live = alive',
         \E cand \in Choices : ElectWhereNeeded(cand, live)
  PROVE  /\ PartsStep
         /\ DOMAIN parts' = DOMAIN parts
         /\ LedWhenAvailable'
  <1>1. PICK cand \in Choices : ElectWhereNeeded(cand, live)
    OBVIOUS
  <1>2. /\ DOMAIN parts' = DOMAIN parts
        /\ \A k \in DOMAIN parts : parts'[k] = Elect(parts[k], cand[k], live)
        /\ parts' = [k \in DOMAIN parts |-> Elect(parts[k], cand[k], live)]
    BY <1>1 DEF ElectWhereNeeded
  <1>3. \A k \in DOMAIN parts :
          /\ parts[k] \in PartitionState
          /\ cand[k] \in Candidates(parts[k], live)
    BY <1>1 DEF ElectWhereNeeded, PartsOK
  <1>4. ASSUME NEW k \in DOMAIN parts
        PROVE  /\ parts'[k] \in PartitionState
               /\ parts'[k].replicas = parts[k].replicas
               /\ parts[k].isr # {} => parts'[k].isr # {}
               /\ parts'[k].isr \subseteq parts[k].isr
               /\ parts[k].leader \in parts[k].isr \cup {NoLeader} =>
                    parts'[k].leader \in parts'[k].isr \cup {NoLeader}
               /\ \/ parts'[k].leader \in live
                  \/ parts'[k].isr \cap live = {} /\ parts'[k].leader = NoLeader
               /\ TupleStep(parts[k], parts'[k])
    BY <1>2, <1>3, ElectTuple DEF TupleStep
  <1>5. PartsOK(parts')
    BY <1>2, <1>4 DEF PartsOK
  <1>6. WellFormed(parts) => WellFormed(parts')
    BY <1>2, <1>4 DEF WellFormed
  <1>7. LedWhenAvailable'
    BY <1>2, <1>4 DEF LedWhenAvailable
  <1>8. QED
    BY <1>2, <1>4, <1>5, <1>6, <1>7 DEF PartsStep

\* The index of a replica in the sorted list of live brokers is within bounds.
LEMMA ModIndex ==
  ASSUME NEW i \in Nat, NEW n \in Nat, n > 0
  PROVE  i % n \in 0 .. n - 1
  OBVIOUS

\* The number of live brokers is a natural number.
LEMMA AliveCount ==
  ASSUME TypeOK
  PROVE  IsFiniteSet(alive) /\ Cardinality(alive) \in Nat
  BY BrokersAssumption, FS_Subset, FS_CardinalityType DEF TypeOK

\* The replicas create_topic assigns are live brokers, the first one leads.
LEMMA CreateStep ==
  ASSUME TypeOK, NEW t \in Topics, NEW n \in 0 .. MaxPartitions + 1,
         NEW rf \in 0 .. Cardinality(Brokers), CreateTopic(t, n, rf)
  PROVE  /\ PartsStep
         /\ LedWhenAvailable => LedWhenAvailable'
  <1>1. CASE parts' = parts
    <2>1. alive' = alive
      BY DEF CreateTopic
    <2>2. LedWhenAvailable => LedWhenAvailable'
      BY <1>1, <2>1 DEF LedWhenAvailable
    <2>3. QED
      BY <1>1, <2>2, SameParts DEF TypeOK
  <1>2. CASE parts' # parts
    <2> DEFINE m   == Cardinality(alive)
               new == {t} \X (0 .. n - 1)
    <2>1. /\ ~ TopicExists(t)
          /\ n > 0 /\ n <= MaxPartitions
          /\ Rf(rf) <= m
          /\ alive' = alive
          /\ \E s \in SortedAlive : AddTopic(t, n, Rf(rf), s)
      BY <1>2, MaxPartitionsAssumption, AliveCount DEF CreateTopic, Rf
    <2>2. PICK s \in SortedAlive : AddTopic(t, n, Rf(rf), s)
      BY <2>1
    <2>3. Rf(rf) \in Nat /\ Rf(rf) > 0 /\ m \in Nat /\ m > 0
      <3>1. Cardinality(Brokers) \in Nat
        BY BrokersAssumption, FS_CardinalityType
      <3>2. Rf(rf) \in Nat /\ Rf(rf) > 0
        BY <3>1 DEF Rf
      <3>3. QED
        BY <2>1, <3>2, AliveCount
    <2>4. \A i \in Nat : s[i % m] \in alive
      BY <2>3, ModIndex DEF SortedAlive
    <2>5. /\ DOMAIN parts' = DOMAIN parts \cup new
          /\ \A k \in DOMAIN parts \ new : parts'[k] = parts[k]
          /\ \A k \in new : parts'[k] =
                NewPartition(s[k[2] % m], ReplicasAt(s, k[2], Rf(rf)))
          /\ parts' = [k \in DOMAIN parts' |-> parts'[k]]
      BY <2>2 DEF AddTopic
    <2>6. new \subseteq Keys /\ \A k \in new : k[1] = t /\ k[2] \in Nat
      BY <2>1, MaxPartitionsAssumption DEF Keys
    <2>7. \A k \in DOMAIN parts : k \notin new
      BY <2>1, <2>6 DEF TopicExists
    <2>8. ASSUME NEW k \in new
          PROVE  /\ parts'[k] \in PartitionState
                 /\ parts'[k].leader \in parts'[k].isr
                 /\ parts'[k].isr = parts'[k].replicas
                 /\ parts'[k].leader \in alive
      <3>1. k[2] \in Nat
        BY <2>6
      <3>2. \A j \in 0 .. Rf(rf) - 1 : k[2] + j \in Nat
        BY <3>1, <2>3
      <3>3. ReplicasAt(s, k[2], Rf(rf)) \subseteq alive
        BY <2>4, <3>2 DEF ReplicasAt
      <3>4. k[2] + 0 = k[2] /\ 0 \in 0 .. Rf(rf) - 1
        BY <2>3, <3>1
      <3>5. s[k[2] % m] \in ReplicasAt(s, k[2], Rf(rf))
        BY <3>4 DEF ReplicasAt
      <3>6. s[k[2] % m] \in alive
        BY <2>4, <3>1
      <3>7. alive \subseteq Brokers
        BY DEF TypeOK
      <3> DEFINE first == s[k[2] % m]
                 reps  == ReplicasAt(s, k[2], Rf(rf))
      <3>8. parts'[k] = [leader |-> first, leader_epoch |-> 1,
                         replicas |-> reps, isr |-> reps]
        BY <2>5 DEF NewPartition
      <3>9. first \in Brokers /\ reps \subseteq Brokers
        BY <3>3, <3>6, <3>7
      <3> HIDE DEF first, reps
      <3>10. parts'[k] \in PartitionState
        BY <3>8, <3>9 DEF PartitionState
      <3>11. /\ parts'[k].leader = first
             /\ parts'[k].isr = reps /\ parts'[k].replicas = reps
        BY <3>8
      <3>12. QED
        BY <3>5, <3>6, <3>10, <3>11 DEF first, reps
    <2>9. \A k \in DOMAIN parts : parts'[k] = parts[k] /\ parts[k] \in PartitionState
      BY <2>5, <2>7 DEF TypeOK, PartsOK
    <2>10. PartsOK(parts')
      <3>1. DOMAIN parts' \subseteq Keys
        BY <2>5, <2>6 DEF TypeOK, PartsOK
      <3>2. \A k \in DOMAIN parts' : parts'[k] \in PartitionState
        BY <2>5, <2>8, <2>9
      <3>3. QED
        BY <2>5, <3>1, <3>2 DEF PartsOK
    <2>11. \A k \in DOMAIN parts : TupleStep(parts[k], parts'[k])
      BY <2>9 DEF TupleStep
    <2>12. WellFormed(parts) => WellFormed(parts')
      BY <2>5, <2>8, <2>9 DEF WellFormed
    <2>13. LedWhenAvailable => LedWhenAvailable'
      BY <2>1, <2>5, <2>8, <2>9 DEF LedWhenAvailable
    <2>14. QED
      BY <2>5, <2>10, <2>11, <2>12, <2>13 DEF PartsStep
  <1>3. QED
    BY <1>1, <1>2

\* An accepted AlterIsr keeps the leader in the ISR and the ISR in the replicas.
LEMMA AlterStep ==
  ASSUME TypeOK, NEW k \in Keys, NEW epoch, NEW isr \in SUBSET Brokers,
         NEW reordered \in BOOLEAN, AlterIsr(k, epoch, isr, reordered)
  PROVE  /\ PartsStep
         /\ LedWhenAvailable /\ WellFormed(parts) => LedWhenAvailable'
  <1>1. CASE parts' = parts
    <2>1. alive' = alive
      BY DEF AlterIsr
    <2>2. LedWhenAvailable => LedWhenAvailable'
      BY <1>1, <2>1 DEF LedWhenAvailable
    <2>3. QED
      BY <1>1, <2>2, SameParts DEF TypeOK
  <1>2. CASE parts' # parts
    <2>1. /\ k \in DOMAIN parts
          /\ alive' = alive
          /\ AlterIsrError(parts[k], epoch, isr) = "None"
          /\ parts' = [parts EXCEPT ![k].isr = isr]
      BY <1>2 DEF AlterIsr
    <2>2. parts[k].leader \in isr /\ isr \subseteq parts[k].replicas
      BY <2>1 DEF AlterIsrError
    <2>3. \A j \in DOMAIN parts : parts[j] \in PartitionState
      BY DEF TypeOK, PartsOK
    <2>4. /\ DOMAIN parts' = DOMAIN parts
          /\ parts' = [j \in DOMAIN parts' |-> parts'[j]]
          /\ \A j \in DOMAIN parts \ {k} : parts'[j] = parts[j]
          /\ parts'[k] = [parts[k] EXCEPT !.isr = isr]
      BY <2>1
    <2>5. /\ parts'[k] \in PartitionState
          /\ parts'[k].leader = parts[k].leader
          /\ parts'[k].leader_epoch = parts[k].leader_epoch
          /\ parts'[k].replicas = parts[k].replicas
          /\ parts'[k].isr = isr
      <3>1. parts[k] \in PartitionState
        BY <2>1, <2>3
      <3>2. QED
        BY <3>1, <2>4 DEF PartitionState
    <2>6. PartsOK(parts')
      <3>1. \A j \in DOMAIN parts' : parts'[j] \in PartitionState
        BY <2>3, <2>4, <2>5
      <3>2. QED
        BY <2>4, <3>1 DEF TypeOK, PartsOK
    <2>7. \A j \in DOMAIN parts : TupleStep(parts[j], parts'[j])
      BY <2>4, <2>5 DEF TupleStep
    <2>8. WellFormed(parts) => WellFormed(parts')
      BY <2>2, <2>4, <2>5 DEF WellFormed
    <2>9. parts[k].leader # NoLeader
      BY <2>2, NoLeaderAssumption
    <2>10. ASSUME LedWhenAvailable, WellFormed(parts)
           PROVE  LedWhenAvailable'
      <3>1. parts[k].leader \in alive \/ alive = {}
        BY <2>1, <2>9, <2>10 DEF LedWhenAvailable
      <3>2. ASSUME NEW j \in DOMAIN parts'
            PROVE  \/ parts'[j].leader \in alive'
                   \/ /\ parts'[j].isr \cap alive' = {}
                      /\ parts'[j].leader = NoLeader \/ alive' = {}
        <4>1. CASE j = k
          BY <4>1, <3>1, <2>1, <2>5
        <4>2. CASE j # k
          BY <4>2, <2>10, <2>4, <2>1 DEF LedWhenAvailable
        <4>3. QED
          BY <4>1, <4>2
      <3>3. QED
        BY <3>2 DEF LedWhenAvailable
    <2>11. QED
      BY <2>4, <2>6, <2>7, <2>8, <2>10 DEF PartsStep
  <1>3. QED
    BY <1>1, <1>2

------------------------------------------------------------------------------
(* Type correctness *)

\* The reigns read off a typed table of partitions are typed.
LEMMA ReignsTyped ==
  ASSUME NEW ps, PartsOK(ps)
  PROVE  ReignsOf(ps) \subseteq Reign
  <1>1. ASSUME NEW k \in DOMAIN ps, ps[k].leader # NoLeader
        PROVE  [key |-> k, epoch |-> ps[k].leader_epoch,
                leader |-> ps[k].leader] \in Reign
    <2>1. ps[k] \in PartitionState /\ k \in Keys
      BY DEF PartsOK
    <2>2. ps[k].leader_epoch \in Nat /\ ps[k].leader \in Brokers
      BY <1>1, <2>1 DEF PartitionState
    <2>3. QED
      BY <2>1, <2>2 DEF Reign
  <1>2. QED
    BY <1>1 DEF ReignsOf

\* mutate keeps the version, the snapshot and the history well typed.
LEMMA MutateTypes ==
  ASSUME TypeOK, NEW changed \in BOOLEAN, Mutate(changed),
         known' \subseteq Brokers, PartsOK(parts')
  PROVE  /\ version' \in Nat
         /\ snapshot' = Snapshot(snapshot'.version, snapshot'.known, snapshot'.parts)
         /\ snapshot'.version \in Nat
         /\ snapshot'.known \subseteq Brokers
         /\ PartsOK(snapshot'.parts)
         /\ failures' \in Nat
         /\ reigns' \subseteq Reign
  <1>1. reigns' \subseteq Reign
    <2>1. ReignsOf(parts') \subseteq Reign
      BY ReignsTyped
    <2>2. QED
      BY <2>1 DEF Mutate, TypeOK
  <1>2. CASE changed /\ snapshot' = Snapshot(version', known', parts')
    <2>1. version' \in Nat /\ failures' \in Nat
      BY <1>2 DEF Mutate, PersistSnapshot, TypeOK
    <2>2. /\ snapshot'.version = version'
          /\ snapshot'.known = known'
          /\ snapshot'.parts = parts'
      BY <1>2 DEF Snapshot
    <2>3. QED
      BY <1>1, <1>2, <2>1, <2>2
  <1>3. CASE snapshot' = snapshot
    <2>1. version' \in Nat /\ failures' \in Nat
      BY <1>3 DEF Mutate, PersistSnapshot, TypeOK
    <2>2. QED
      BY <1>1, <1>3, <2>1 DEF TypeOK
  <1>4. QED
    BY <1>2, <1>3 DEF Mutate, PersistSnapshot

\* The initial state is well typed.
LEMMA InitTypes == Init => TypeOK
  <1> SUFFICES ASSUME Init PROVE TypeOK
    OBVIOUS
  <1>1. PartsOK(EmptyParts)
    BY DEF PartsOK, EmptyParts
  <1>2. snapshot.version = 0 /\ snapshot.known = {} /\ snapshot.parts = EmptyParts
    BY DEF Init, Snapshot
  <1>3. QED
    BY <1>1, <1>2 DEF Init, TypeOK, Errors

\* One case per action: who is known and alive, what happens to the tuples,
\* and the reply; mutate does the rest.
LEMMA NextTypes == TypeOK /\ [Next]_vars => TypeOK'
  <1> SUFFICES ASSUME TypeOK, [Next]_vars PROVE TypeOK'
    OBVIOUS
  <1>1. ASSUME NEW b \in Brokers, NEW moved \in BOOLEAN, RegisterBroker(b, moved)
        PROVE  TypeOK'
    <2>1. /\ known' \subseteq Brokers /\ alive' \subseteq known'
          /\ reply' \in Errors
      BY <1>1 DEF RegisterBroker, TypeOK, Errors
    <2>2. PartsOK(parts')
      BY <1>1, <2>1, ElectStep DEF RegisterBroker, TypeOK, PartsStep
    <2>3. QED
      BY <1>1, <2>1, <2>2, MutateTypes DEF RegisterBroker, TypeOK
  <1>2. ASSUME NEW b \in Brokers, BrokerHeartbeat(b)
        PROVE  TypeOK'
    <2>1. /\ known' \subseteq Brokers /\ alive' \subseteq known'
          /\ reply' \in Errors
      BY <1>2 DEF BrokerHeartbeat, TypeOK, Errors
    <2>2. PartsOK(parts')
      BY <1>2, <2>1, ElectStep DEF BrokerHeartbeat, TypeOK, PartsStep
    <2>3. QED
      BY <1>2, <2>1, <2>2, MutateTypes DEF BrokerHeartbeat, TypeOK
  <1>3. ASSUME NEW t \in Topics, NEW n \in 0 .. MaxPartitions + 1,
               NEW rf \in 0 .. Cardinality(Brokers), CreateTopic(t, n, rf)
        PROVE  TypeOK'
    <2>1. /\ known' \subseteq Brokers /\ alive' \subseteq known'
          /\ reply' \in Errors
      BY <1>3 DEF CreateTopic, TypeOK, Errors
    <2>2. PartsOK(parts')
      BY <1>3, CreateStep DEF PartsStep
    <2>3. QED
      BY <1>3, <2>1, <2>2, MutateTypes DEF CreateTopic, TypeOK
  <1>4. ASSUME NEW k \in Keys, NEW epoch \in 1 .. MaxVersion,
               NEW isr \in SUBSET Brokers, NEW reordered \in BOOLEAN,
               AlterIsr(k, epoch, isr, reordered)
        PROVE  TypeOK'
    <2>1. /\ known' \subseteq Brokers /\ alive' \subseteq known'
          /\ reply' \in Errors
      BY <1>4 DEF AlterIsr, AlterIsrError, TypeOK, Errors
    <2>2. PartsOK(parts')
      BY <1>4, AlterStep DEF PartsStep
    <2>3. \E changed \in BOOLEAN : Mutate(changed)
      BY <1>4 DEF AlterIsr
    <2>4. QED
      BY <2>1, <2>2, <2>3, MutateTypes DEF TypeOK
  <1>5. ASSUME NEW expired \in SUBSET alive, SweepLiveness(expired)
        PROVE  TypeOK'
    <2>1. /\ known' \subseteq Brokers /\ alive' \subseteq known'
          /\ reply' \in Errors
      BY <1>5 DEF SweepLiveness, TypeOK, Errors
    <2>2. PartsOK(parts')
      BY <1>5, <2>1, ElectStep DEF SweepLiveness, TypeOK, PartsStep
    <2>3. QED
      BY <1>5, <2>1, <2>2, MutateTypes DEF SweepLiveness, TypeOK
  <1>6. CASE Restart
    <2>1. /\ known' \subseteq Brokers /\ alive' \subseteq known'
          /\ PartsOK(parts') /\ version' \in Nat
      BY <1>6 DEF Restart, TypeOK
    <2>2. ReignsOf(parts') \subseteq Reign
      BY <2>1, ReignsTyped
    <2>3. QED
      BY <1>6, <2>1, <2>2 DEF Restart, TypeOK
  <1>7. CASE UNCHANGED vars
    BY <1>7 DEF vars, TypeOK
  <1>8. QED
    BY <1>1, <1>2, <1>3, <1>4, <1>5, <1>6, <1>7 DEF Next

\* The controller's state stays well typed, in memory and on disk.
THEOREM TypeCorrect == Spec => []TypeOK
  BY InitTypes, NextTypes, PTL DEF Spec

------------------------------------------------------------------------------
(* Leadership *)

\* Every reign on record is one of the partition's past or present epochs, and
\* one under the present epoch is the present leader's (or the last leader's,
\* while the partition is offline).  Needed because OneLeaderPerEpoch alone
\* does not exclude electing again under an epoch that is already taken.
ReignsBehind ==
    failures = 0 =>
        \A r \in reigns :
            /\ r.key \in DOMAIN parts
            /\ r.epoch <= parts[r.key].leader_epoch
            /\ r.epoch = parts[r.key].leader_epoch /\ parts[r.key].leader # NoLeader
                 => r.leader = parts[r.key].leader

IndInv ==
    /\ TypeOK
    /\ LeaderInIsr
    /\ LedWhenAvailable
    /\ RestartLosesNothing
    /\ ReignsBehind
    /\ OneLeaderPerEpoch

\* A step that moves the tuples by PartsStep and records the new reigns keeps
\* the record consistent.
LEMMA ReignsStep ==
  ASSUME TypeOK, failures = 0, ReignsBehind, OneLeaderPerEpoch, PartsStep,
         reigns' = reigns \cup ReignsOf(parts')
  PROVE  ReignsBehind' /\ OneLeaderPerEpoch'
  <1>1. ASSUME NEW r \in reigns'
        PROVE  /\ r.key \in DOMAIN parts'
               /\ r.epoch <= parts'[r.key].leader_epoch
               /\ r.epoch = parts'[r.key].leader_epoch /\ parts'[r.key].leader # NoLeader
                    => r.leader = parts'[r.key].leader
    <2>1. CASE r \in ReignsOf(parts')
      <3>1. PICK k \in DOMAIN parts' :
              r = [key |-> k, epoch |-> parts'[k].leader_epoch, leader |-> parts'[k].leader]
        BY <2>1 DEF ReignsOf
      <3>2. parts'[k].leader_epoch \in Nat
        BY DEF PartsStep, PartsOK, PartitionState
      <3>3. QED
        BY <3>1, <3>2
    <2>2. CASE r \in reigns
      <3>1. /\ r.key \in DOMAIN parts /\ r.epoch \in Nat
            /\ r.epoch <= parts[r.key].leader_epoch
            /\ r.epoch = parts[r.key].leader_epoch /\ parts[r.key].leader # NoLeader
                 => r.leader = parts[r.key].leader
        BY <2>2 DEF ReignsBehind, TypeOK, Reign
      <3>2. /\ TupleStep(parts[r.key], parts'[r.key])
            /\ r.key \in DOMAIN parts'
            /\ parts[r.key].leader_epoch \in Nat
        BY <3>1 DEF PartsStep, TypeOK, PartsOK, PartitionState
      <3>3. QED
        BY <3>1, <3>2 DEF TupleStep
    <2>3. QED
      BY <2>1, <2>2
  <1>2. ReignsBehind'
    BY <1>1 DEF ReignsBehind
  <1>3. ASSUME NEW r \in reigns', NEW s \in reigns', r.key = s.key, r.epoch = s.epoch
        PROVE  r = s
    <2>1. \A x \in ReignsOf(parts') :
            /\ x.epoch = parts'[x.key].leader_epoch
            /\ x.leader = parts'[x.key].leader
            /\ parts'[x.key].leader # NoLeader
      BY DEF ReignsOf
    <2>2. reigns' \subseteq Reign
      BY ReignsTyped DEF PartsStep, TypeOK
    <2>3. CASE r \in reigns /\ s \in reigns
      BY <1>3, <2>3 DEF OneLeaderPerEpoch
    <2>4. CASE r \in ReignsOf(parts') \/ s \in ReignsOf(parts')
      <3>1. /\ parts'[r.key].leader # NoLeader
            /\ r.epoch = parts'[r.key].leader_epoch
        BY <1>3, <2>1, <2>4
      <3>2. r.leader = s.leader
        BY <1>1, <1>3, <3>1
      <3>3. QED
        BY <1>3, <2>2, <3>2 DEF Reign
    <2>5. QED
      BY <2>3, <2>4
  <1>4. QED
    BY <1>2, <1>3 DEF OneLeaderPerEpoch

\* Every action but Restart ends in mutate.
LEMMA MutateStep ==
  ASSUME IndInv, NEW changed \in BOOLEAN, Mutate(changed), PartsStep, TypeOK',
         ~ changed => known' = known /\ parts' = parts
  PROVE  /\ LeaderInIsr' /\ RestartLosesNothing'
         /\ ReignsBehind' /\ OneLeaderPerEpoch'
  <1>1. failures' = 0 => failures = 0
    BY DEF Mutate, PersistSnapshot, IndInv, TypeOK
  <1>2. reigns' = reigns \cup ReignsOf(parts')
    BY DEF Mutate
  <1>3. ReignsBehind' /\ OneLeaderPerEpoch'
    <2>1. CASE failures' = 0
      BY <1>1, <1>2, <2>1, ReignsStep DEF IndInv
    <2>2. CASE failures' # 0
      BY <2>2 DEF ReignsBehind, OneLeaderPerEpoch
    <2>3. QED
      BY <2>1, <2>2
  <1>4. WellFormed(parts')
    BY DEF PartsStep, IndInv, LeaderInIsr
  <1>5. CASE snapshot' = Snapshot(version', known', parts')
    BY <1>3, <1>4, <1>5 DEF Snapshot, LeaderInIsr, RestartLosesNothing
  <1>6. CASE snapshot' = snapshot /\ ~ changed
    <2>1. version' = version /\ failures' = failures
      BY <1>6 DEF Mutate
    <2>2. RestartLosesNothing'
      BY <1>6, <2>1 DEF IndInv, RestartLosesNothing
    <2>3. QED
      BY <1>3, <1>4, <1>6, <2>2 DEF IndInv, LeaderInIsr
  <1>7. CASE snapshot' = snapshot /\ failures' = failures + 1
    <2>1. failures' # 0
      BY <1>7 DEF IndInv, TypeOK
    <2>2. QED
      BY <1>3, <1>4, <1>7, <2>1 DEF IndInv, LeaderInIsr, RestartLosesNothing
  <1>8. QED
    BY <1>5, <1>6, <1>7 DEF Mutate, PersistSnapshot

\* The inductive invariant holds initially.
LEMMA InitInd == Init => IndInv
  <1> SUFFICES ASSUME Init PROVE IndInv
    OBVIOUS
  <1>1. DOMAIN EmptyParts = {}
    BY DEF EmptyParts
  <1>2. snapshot.parts = EmptyParts /\ parts = EmptyParts /\ reigns = {}
    BY DEF Init, Snapshot
  <1>3. LeaderInIsr /\ LedWhenAvailable
    BY <1>1, <1>2 DEF LeaderInIsr, WellFormed, LedWhenAvailable
  <1>4. RestartLosesNothing
    BY DEF Init, RestartLosesNothing
  <1>5. ReignsBehind /\ OneLeaderPerEpoch
    BY <1>2 DEF ReignsBehind, OneLeaderPerEpoch
  <1>6. QED
    BY <1>3, <1>4, <1>5, InitTypes DEF IndInv

\* Every step preserves the inductive invariant.
LEMMA NextInd == IndInv /\ [Next]_vars => IndInv'
  <1> SUFFICES ASSUME IndInv, [Next]_vars PROVE IndInv'
    OBVIOUS
  <1> USE DEF IndInv
  <1>t. TypeOK'
    BY NextTypes
  <1>s. alive' \in SUBSET Brokers
    BY <1>t DEF TypeOK
  <1>1. ASSUME NEW b \in Brokers, NEW moved \in BOOLEAN, RegisterBroker(b, moved)
        PROVE  IndInv'
    <2> DEFINE changed == b \notin alive \/ moved \/ parts' # parts
    <2>1. PartsStep /\ LedWhenAvailable'
      BY <1>1, <1>s, ElectStep DEF RegisterBroker, TypeOK
    <2>2. ~ changed => known' = known /\ parts' = parts
      BY <1>1 DEF RegisterBroker, TypeOK
    <2>3. Mutate(changed)
      BY <1>1 DEF RegisterBroker
    <2> HIDE DEF changed
    <2>4. changed \in BOOLEAN
      BY DEF changed
    <2>5. QED
      BY <1>t, <2>1, <2>2, <2>3, <2>4, MutateStep
  <1>2. ASSUME NEW b \in Brokers, BrokerHeartbeat(b)
        PROVE  IndInv'
    <2>1. PartsStep /\ LedWhenAvailable'
      <3>1. CASE b \in known \ alive
        BY <1>2, <1>s, <3>1, ElectStep DEF BrokerHeartbeat, TypeOK
      <3>2. CASE b \notin known \/ b \in alive
        BY <1>2, <3>2, SameParts DEF BrokerHeartbeat, TypeOK, LedWhenAvailable
      <3>3. QED
        BY <3>1, <3>2
    <2>2. known' = known /\ Mutate(parts' # parts)
      BY <1>2 DEF BrokerHeartbeat
    <2>3. QED
      BY <1>t, <2>1, <2>2, MutateStep
  <1>3. ASSUME NEW t \in Topics, NEW n \in 0 .. MaxPartitions + 1,
               NEW rf \in 0 .. Cardinality(Brokers), CreateTopic(t, n, rf)
        PROVE  IndInv'
    <2>1. PartsStep /\ LedWhenAvailable'
      BY <1>3, CreateStep
    <2>2. /\ known' = known /\ Mutate(reply' = "None")
          /\ reply' # "None" => parts' = parts
      BY <1>3 DEF CreateTopic
    <2>3. QED
      BY <1>t, <2>1, <2>2, MutateStep
  <1>4. ASSUME NEW k \in Keys, NEW epoch \in 1 .. MaxVersion,
               NEW isr \in SUBSET Brokers, NEW reordered \in BOOLEAN,
               AlterIsr(k, epoch, isr, reordered)
        PROVE  IndInv'
    <2>1. PartsStep /\ LedWhenAvailable'
      BY <1>4, AlterStep DEF LeaderInIsr
    <2>2. PICK changed \in BOOLEAN :
            Mutate(changed) /\ (~ changed => parts' = parts)
      BY <1>4 DEF AlterIsr
    <2>3. known' = known
      BY <1>4 DEF AlterIsr
    <2>4. QED
      BY <1>t, <2>1, <2>2, <2>3, MutateStep
  <1>5. ASSUME NEW expired \in SUBSET alive, SweepLiveness(expired)
        PROVE  IndInv'
    <2>1. PartsStep /\ LedWhenAvailable'
      BY <1>5, <1>s, ElectStep DEF SweepLiveness, TypeOK
    <2>2. Mutate(TRUE)
      BY <1>5 DEF SweepLiveness
    <2>3. QED
      BY <1>t, <2>1, <2>2, MutateStep
  <1>6. CASE Restart
    <2>1. /\ parts' = snapshot.parts /\ alive' = {} /\ failures' = failures
          /\ snapshot' = snapshot /\ version' = snapshot.version
          /\ known' = snapshot.known
          /\ reigns' = reigns \cup ReignsOf(parts')
      BY <1>6 DEF Restart
    <2>2. LeaderInIsr' /\ LedWhenAvailable'
      BY <2>1 DEF LeaderInIsr, LedWhenAvailable
    <2>3. RestartLosesNothing'
      BY <2>1 DEF RestartLosesNothing, TypeOK
    <2>4. ReignsBehind' /\ OneLeaderPerEpoch'
      <3>1. CASE failures = 0
        <4>1. parts' = parts
          BY <2>1, <3>1 DEF RestartLosesNothing, Snapshot
        <4>2. PartsStep
          BY <4>1, SameParts DEF TypeOK
        <4>3. QED
          BY <2>1, <3>1, <4>2, ReignsStep
      <3>2. CASE failures # 0
        BY <2>1, <3>2 DEF ReignsBehind, OneLeaderPerEpoch
      <3>3. QED
        BY <3>1, <3>2
    <2>5. QED
      BY <1>t, <2>2, <2>3, <2>4
  <1>7. CASE UNCHANGED vars
    BY <1>t, <1>7 DEF vars, LeaderInIsr, LedWhenAvailable, RestartLosesNothing,
                      ReignsBehind, OneLeaderPerEpoch
  <1>8. QED
    BY <1>1, <1>2, <1>3, <1>4, <1>5, <1>6, <1>7 DEF Next

\* The conjunction is inductive.
THEOREM Invariance == Spec => []IndInv
  BY InitInd, NextInd, PTL DEF Spec

\* Epochs identify leaders: as long as snapshot writes succeed, no two brokers
\* are ever elected for the same partition under the same epoch, across any
\* number of expiries, re-registrations and controller restarts.
THEOREM EpochsIdentifyLeaders == Spec => []OneLeaderPerEpoch
  <1>1. IndInv => OneLeaderPerEpoch
    BY DEF IndInv
  <1>2. QED
    BY <1>1, Invariance, PTL

\* The leader of an online partition is in its ISR, and the ISR is a non-empty
\* subset of the replicas, in memory and in the snapshot.
THEOREM LeadersAreInSync == Spec => []LeaderInIsr
  <1>1. IndInv => LeaderInIsr
    BY DEF IndInv
  <1>2. QED
    BY <1>1, Invariance, PTL

\* A partition with a live ISR member is always led by a live broker.
THEOREM AvailablePartitionsAreLed == Spec => []LedWhenAvailable
  <1>1. IndInv => LedWhenAvailable
    BY DEF IndInv
  <1>2. QED
    BY <1>1, Invariance, PTL

\* With no failed write, the snapshot is the state: a restart loses nothing.
THEOREM RestartsAreLossless == Spec => []RestartLosesNothing
  <1>1. IndInv => RestartLosesNothing
    BY DEF IndInv
  <1>2. QED
    BY <1>1, Invariance, PTL

------------------------------------------------------------------------------
(* What a step may never do *)

\* From p to q, with the brokers in live: a new leader comes from the ISR and
\* the live brokers and opens an epoch; a tuple offline before and after is the
\* same.
CleanTuple(p, q, live) ==
    /\ q.leader # p.leader /\ q.leader # NoLeader =>
            /\ q.leader \in p.isr \cap live
            /\ q.leader_epoch = p.leader_epoch + 1
            /\ q.isr = p.isr \cap live
    /\ p.leader = NoLeader /\ q.leader = NoLeader => q = p

CleanStep == \A k \in DOMAIN parts : CleanTuple(parts[k], parts'[k], alive')

\* elect_where_needed elects cleanly.
LEMMA ElectClean ==
  ASSUME PartsOK(parts), NEW live \in SUBSET Brokers, live = alive',
         \E cand \in Choices : ElectWhereNeeded(cand, live)
  PROVE  CleanStep
  <1>1. PICK cand \in Choices : ElectWhereNeeded(cand, live)
    OBVIOUS
  <1>2. SUFFICES ASSUME NEW k \in DOMAIN parts
                 PROVE  CleanTuple(parts[k], parts'[k], live)
    BY DEF CleanStep
  <1> DEFINE p == parts[k]
             q == parts'[k]
             c == cand[k]
  <1>3. /\ p \in PartitionState /\ c \in Candidates(p, live)
        /\ q = Elect(p, c, live)
    BY <1>1 DEF ElectWhereNeeded, PartsOK
  <1> SUFFICES CleanTuple(p, q, live)
    OBVIOUS
  <1> HIDE DEF p, q, c
  <1>4. CASE q = p
    BY <1>4 DEF CleanTuple
  <1>5. CASE q = [p EXCEPT !.leader = NoLeader]
    <2>1. q.leader = NoLeader /\ (p.leader = NoLeader => q = p)
      BY <1>3, <1>5 DEF PartitionState
    <2>2. QED
      BY <2>1 DEF CleanTuple
  <1>6. CASE /\ c \in p.isr \cap live
             /\ q = [p EXCEPT !.leader = c,
                              !.leader_epoch = p.leader_epoch + 1,
                              !.isr = p.isr \cap live]
    <2>1. /\ q.leader = c /\ q.leader_epoch = p.leader_epoch + 1
          /\ q.isr = p.isr \cap live
      BY <1>3, <1>6 DEF PartitionState
    <2>2. c # NoLeader
      BY <1>6, NoLeaderAssumption
    <2>3. QED
      BY <1>6, <2>1, <2>2 DEF CleanTuple
  <1>7. QED
    BY <1>3, <1>4, <1>5, <1>6, ElectCases

\* A step that leaves every tuple alone is clean.
LEMMA SameClean ==
  ASSUME \A k \in DOMAIN parts : parts'[k] = parts[k]
  PROVE  CleanStep
  BY DEF CleanStep, CleanTuple

\* Every step of a controller whose snapshot writes succeeded so far is clean,
\* and bumps the version when it changes a partition.  A restart changes none,
\* because the snapshot is the state.
LEMMA NextClean ==
  ASSUME IndInv, failures = 0, [Next]_vars
  PROVE  CleanStep /\ (parts' # parts => version' > version)
  <1> USE DEF IndInv
  <1>s. alive' \in SUBSET Brokers /\ version \in Nat /\ PartsOK(parts)
    BY NextTypes DEF TypeOK
  <1>m. ASSUME NEW changed \in BOOLEAN, Mutate(changed), ~ changed => parts' = parts
        PROVE  parts' # parts => version' > version
    BY <1>s, <1>m DEF Mutate
  <1>1. ASSUME NEW b \in Brokers, NEW moved \in BOOLEAN, RegisterBroker(b, moved)
        PROVE  CleanStep /\ (parts' # parts => version' > version)
    <2> DEFINE changed == b \notin alive \/ moved \/ parts' # parts
    <2>1. CleanStep
      BY <1>1, <1>s, ElectClean DEF RegisterBroker
    <2>2. Mutate(changed)
      BY <1>1 DEF RegisterBroker
    <2>3. changed \in BOOLEAN /\ (~ changed => parts' = parts)
      OBVIOUS
    <2> HIDE DEF changed
    <2>4. QED
      BY <1>m, <2>1, <2>2, <2>3
  <1>2. ASSUME NEW b \in Brokers, BrokerHeartbeat(b)
        PROVE  CleanStep /\ (parts' # parts => version' > version)
    <2>1. CleanStep
      <3>1. CASE b \in known \ alive
        BY <1>2, <1>s, <3>1, ElectClean DEF BrokerHeartbeat, TypeOK
      <3>2. CASE b \notin known \/ b \in alive
        BY <1>2, <3>2, SameClean DEF BrokerHeartbeat, TypeOK
      <3>3. QED
        BY <3>1, <3>2
    <2>2. Mutate(parts' # parts)
      BY <1>2 DEF BrokerHeartbeat
    <2>3. QED
      BY <1>m, <2>1, <2>2
  <1>3. ASSUME NEW t \in Topics, NEW n \in 0 .. MaxPartitions + 1,
               NEW rf \in 0 .. Cardinality(Brokers), CreateTopic(t, n, rf)
        PROVE  CleanStep /\ (parts' # parts => version' > version)
    <2>1. \A k \in DOMAIN parts : parts'[k] = parts[k]
      <3>1. CASE parts' = parts
        BY <3>1
      <3>2. CASE ~ TopicExists(t) /\ \E s \in SortedAlive : AddTopic(t, n, Rf(rf), s)
        <4>1. \A k \in {t} \X (0 .. n - 1) : k[1] = t
          OBVIOUS
        <4>2. QED
          BY <3>2, <4>1 DEF AddTopic, TopicExists
      <3>3. QED
        BY <1>3, <3>1, <3>2 DEF CreateTopic
    <2>2. Mutate(reply' = "None") /\ (reply' # "None" => parts' = parts)
      BY <1>3 DEF CreateTopic
    <2>3. QED
      BY <1>m, <2>1, <2>2, SameClean
  <1>4. ASSUME NEW k \in Keys, NEW epoch \in 1 .. MaxVersion,
               NEW isr \in SUBSET Brokers, NEW reordered \in BOOLEAN,
               AlterIsr(k, epoch, isr, reordered)
        PROVE  CleanStep /\ (parts' # parts => version' > version)
    <2>1. PICK changed \in BOOLEAN :
            Mutate(changed) /\ (~ changed => parts' = parts)
      BY <1>4 DEF AlterIsr
    <2>2. CASE parts' = parts
      BY <2>2, SameClean
    <2>3. CASE parts' # parts
      <3>1. /\ k \in DOMAIN parts /\ AlterIsrError(parts[k], epoch, isr) = "None"
            /\ parts' = [parts EXCEPT ![k].isr = isr]
        BY <1>4, <2>3 DEF AlterIsr
      <3>2. parts[k].leader \in isr
        BY <3>1 DEF AlterIsrError
      <3>3. parts[k].leader # NoLeader
        BY <3>2, NoLeaderAssumption
      <3>4. /\ parts'[k].leader = parts[k].leader
            /\ \A j \in DOMAIN parts \ {k} : parts'[j] = parts[j]
        BY <1>s, <3>1 DEF PartsOK, PartitionState
      <3>5. CleanStep
        BY <3>3, <3>4 DEF CleanStep, CleanTuple
      <3>6. QED
        BY <1>m, <2>1, <3>5
    <2>4. QED
      BY <2>2, <2>3
  <1>5. ASSUME NEW expired \in SUBSET alive, SweepLiveness(expired)
        PROVE  CleanStep /\ (parts' # parts => version' > version)
    <2>1. CleanStep
      BY <1>5, <1>s, ElectClean DEF SweepLiveness
    <2>2. Mutate(TRUE)
      BY <1>5 DEF SweepLiveness
    <2>3. QED
      BY <1>m, <2>1, <2>2
  <1>6. CASE Restart \/ UNCHANGED vars
    <2>1. parts' = parts
      BY <1>6 DEF Restart, RestartLosesNothing, Snapshot, vars
    <2>2. QED
      BY <2>1, SameClean
  <1>7. QED
    BY <1>1, <1>2, <1>3, <1>4, <1>5, <1>6 DEF Next

\* Leadership only ever moves to a live in-sync replica under the next epoch:
\* elect_where_needed performs no unclean election, whoever calls it.
THEOREM ElectionsAreClean == Spec => CleanElection
  <1>1. IndInv /\ [Next]_vars =>
          [failures = 0 => \A k \in DOMAIN parts :
              LET p == parts[k]
                  q == parts'[k]
              IN  q.leader # p.leader /\ q.leader # NoLeader =>
                      /\ q.leader \in p.isr \cap alive'
                      /\ q.leader_epoch = p.leader_epoch + 1
                      /\ q.isr = p.isr \cap alive']_vars
    BY NextClean DEF CleanStep, CleanTuple
  <1>2. QED
    BY <1>1, Invariance, PTL DEF Spec, CleanElection

\* Nobody changes an offline partition's tuple except by electing a leader
\* from the ISR it remembers: alter_isr of the deposed leader is refused.
THEOREM OfflineIsrSurvives == Spec => OfflineIsrFrozen
  <1>1. IndInv /\ [Next]_vars =>
          [failures = 0 => \A k \in DOMAIN parts :
              LET p == parts[k]
                  q == parts'[k]
              IN  p.leader = NoLeader /\ q.leader = NoLeader => q = p]_vars
    BY NextClean DEF CleanStep, CleanTuple
  <1>2. QED
    BY <1>1, Invariance, PTL DEF Spec, OfflineIsrFrozen

\* A change of any partition is always announced by a higher version, so a
\* broker that compares versions in heartbeat replies misses none.
THEOREM ChangesAreVersioned == Spec => EveryChangeVersioned
  <1>1. IndInv /\ [Next]_vars =>
          [failures = 0 /\ parts' # parts => version' > version]_vars
    BY NextClean
  <1>2. QED
    BY <1>1, Invariance, PTL DEF Spec, EveryChangeVersioned

====================
