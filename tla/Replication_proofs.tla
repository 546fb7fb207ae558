-------------------------- MODULE Replication_proofs --------------------------
(***************************************************************************)
(* Proofs about Replication, for every set of brokers, every               *)
(* min_insync_replicas and all bounds: types and lengths, leaders that     *)
(* only append, who may lead at which epoch, and that a follower that has  *)
(* reconciled with its leader holds a prefix of the leader's log.          *)
(***************************************************************************)
EXTENDS Replication, ProofLemmas

------------------------------------------------------------------------------
(* The inductive invariant *)

Ids == 1 .. MaxRecords
Epochs == 1 .. MaxEpoch

Tuple == {m \in PartitionState : m.leader_epoch \in Epochs}

Answer == [from : Nat, records : Seq(Ids)]

\* A live fetcher in one of the phases, with the data it waits for or holds.
Live(phases, data) ==
    [phase : phases, leader : Brokers, epoch : Epochs, local : 0 .. MaxEpoch, data : data]

Cut == Live({"reconcile"}, Nat)
Filled == Live({"append"}, Answer)

FetcherState ==
    {NoFetcher, Pinged} \cup Live({"connect", "fetch"}, {<<>>}) \cup Live({"wait"}, Nat)
        \cup Cut \cup Filled \cup Live({"late"}, Nat \cup Answer)

Replica ==
    [epoch : 0 .. MaxEpoch, is_leader : BOOLEAN, isr : SUBSET Brokers,
     match_offsets : [Brokers -> Nat], recent : SUBSET Brokers,
     hwm : 0 .. MaxRecords, appended : SUBSET Pairs, pending_all : SUBSET Pairs,
     fetcher : FetcherState]

Call ==
    {Idle} \cup [call : {"metadata"}, meta : Tuple]
        \cup [call : {"alter"}, epoch : 0 .. MaxEpoch, isr : SUBSET Brokers]
        \cup [call : {"altered"}, ok : BOOLEAN, epoch : 0 .. MaxEpoch, isr : SUBSET Brokers]

LateWrite == [cmd : {"write"}, value : Ids, all : BOOLEAN]

Command ==
    [cmd : {"epoch"}, epoch : Epochs] \cup LateWrite
        \cup [cmd : {"truncate"}, answer : Cut] \cup [cmd : {"append"}, answer : Filled]

CheckpointEntry == [epoch : Epochs, start : Nat]

TypeInv ==
    /\ meta \in Tuple
    /\ alive \in SUBSET Brokers /\ up \in SUBSET Brokers
    /\ log \in [Brokers -> Seq(Ids)]
    /\ epochs \in [Brokers -> Seq(CheckpointEntry)]
    /\ rep \in [Brokers -> Replica]
    /\ rt \in [Brokers -> Call]
    /\ late \in [Brokers -> SUBSET Command]
    /\ produced \in 0 .. MaxRecords
    /\ acked \in SUBSET Pairs
    /\ faults \in [FaultKinds -> Nat]

\* A preempted write is the only one of its produce call, and has a number that
\* was given out.
LateInv ==
    \A b, c \in Brokers : \A x \in late[b], y \in late[c] :
        x.cmd = "write" /\ y.cmd = "write" =>
            /\ x.value <= produced
            /\ x.value = y.value => b = c /\ x = y

\* The produce calls whose record was written.
Waiting == {x.value : x \in UNION {late[b] \cap LateWrite : b \in Brokers}}
Written == (1 .. produced) \ Waiting

\* No log, and no log that an answer makes, is longer than the number of records
\* written: what bounds offsets and marks.
Short(x) == x.data.from + Len(x.data.records) <= Cardinality(Written)

LengthInv ==
    /\ \A b \in Brokers : LogEnd(b) <= Cardinality(Written)
    /\ \A b \in Brokers : rep[b].fetcher.phase = "append" => Short(rep[b].fetcher)
    /\ \A b \in Brokers : \A x \in late[b] : x.cmd = "append" => Short(x.answer)

\* A checkpoint does not point past the end of its log.
StartInv == \A b \in Brokers : \A i \in DOMAIN epochs[b] : epochs[b][i].start <= LogEnd(b)

\* A leader has no fetcher, and without a preemption no command is under way.
LeaderInv ==
    /\ \A b \in Brokers : rep[b].is_leader => rep[b].fetcher.phase \in Ended
    /\ faults.preemptions = 0 => \A b \in Brokers : late[b] = {}

IndInv == TypeInv /\ LateInv /\ LengthInv /\ StartInv /\ LeaderInv

------------------------------------------------------------------------------
(* Counting *)

\* A bounded event raises its own counter and no other.
LEMMA CountStep ==
  ASSUME faults \in [FaultKinds -> Nat], NEW K, Count(K)
  PROVE  /\ faults' \in [FaultKinds -> Nat]
         /\ \A k \in FaultKinds : faults'[k] = faults[k] + IF k \in K THEN 1 ELSE 0
         /\ \A k \in FaultKinds : faults[k] <= faults'[k]
  BY DEF Count

LEMMA Kinds ==
  FaultKinds = {"crashes", "expiries", "lags", "delays", "drops", "expansions",
                "stale", "miscuts", "strays", "preemptions"}
  BY DEF FaultKinds, Bounds

\* The number of records written is a natural within the bound.
LEMMA WrittenSize ==
  ASSUME produced \in 0 .. MaxRecords
  PROVE  /\ IsFiniteSet(Written) /\ Cardinality(Written) \in Nat
         /\ Cardinality(Written) <= MaxRecords
  <1>1. IsFiniteSet(1 .. produced) /\ Cardinality(1 .. produced) = produced
    BY FS_Interval, 1 \in Int, produced \in Int, produced >= 0
  <1>2. Written \subseteq 1 .. produced
    BY DEF Written
  <1>3. IsFiniteSet(Written) /\ Cardinality(Written) <= Cardinality(1 .. produced)
    BY <1>1, <1>2, FS_Subset
  <1>4. Cardinality(Written) \in Nat
    BY <1>3, FS_CardinalityType
  <1>5. QED
    BY <1>1, <1>3, <1>4, BoundsAssumption DEF BoundsAssumption

\* Hence the length of every log.
LEMMA LogEndType ==
  ASSUME TypeInv, LengthInv, NEW b \in Brokers
  PROVE  LogEnd(b) \in 0 .. MaxRecords /\ LogEnd(b) \in Nat
  <1>1. log[b] \in Seq(Ids)
    BY DEF TypeInv
  <1>2. LogEnd(b) \in Nat
    BY <1>1 DEF LogEnd
  <1>3. LogEnd(b) <= Cardinality(Written)
    BY DEF LengthInv
  <1>4. Cardinality(Written) \in Nat /\ Cardinality(Written) <= MaxRecords
    BY WrittenSize DEF TypeInv
  <1>5. QED
    BY <1>2, <1>3, <1>4, BoundsAssumption DEF BoundsAssumption

------------------------------------------------------------------------------
(* The high-water mark *)

\* The new mark is the old one, or it is not past the log end and no further
\* than any in-sync follower is known to have got.
LEMMA NewHwmValue ==
  ASSUME NEW b, NEW r \in Replica, NEW end \in Nat
  PROVE  /\ NewHwm(b, r, end) \in Nat /\ r.hwm <= NewHwm(b, r, end)
         /\ \/ NewHwm(b, r, end) = r.hwm
            \/ /\ NewHwm(b, r, end) <= end
               /\ \A f \in r.isr \ {b} : NewHwm(b, r, end) <= r.match_offsets[f]
  <1> DEFINE T == {end} \cup {r.match_offsets[f] : f \in r.isr \ {b}}
  <1>1. r.hwm \in Nat
    BY BoundsAssumption DEF BoundsAssumption, Replica
  <1>2. \A f \in r.isr \ {b} : r.match_offsets[f] \in Nat
    BY DEF Replica
  <1>3. T \in SUBSET Nat /\ T # {}
    BY <1>2
  <1>4. Min(T) \in T /\ \A y \in T : Min(T) <= y
    BY <1>3, MinIsLeast
  <1>5. Min(T) \in Nat
    BY <1>3, <1>4
  <1>6. end \in T /\ \A f \in r.isr \ {b} : r.match_offsets[f] \in T
    OBVIOUS
  <1>7. Min(T) <= end /\ \A f \in r.isr \ {b} : Min(T) <= r.match_offsets[f]
    BY <1>4, <1>6
  <1>8. NewHwm(b, r, end) = Max({r.hwm, Min(T)})
    BY DEF NewHwm
  <1> HIDE DEF T
  <1>9. NewHwm(b, r, end) = IF r.hwm <= Min(T) THEN Min(T) ELSE r.hwm
    BY <1>1, <1>5, <1>8, MaxOfTwo
  <1>10. QED
    BY <1>1, <1>5, <1>7, <1>9

\* Recomputing the mark keeps a replica well typed and touches nothing else.
LEMMA AdvanceType ==
  ASSUME NEW b, NEW r \in Replica, NEW end \in 0 .. MaxRecords
  PROVE  /\ AdvanceHwm(b, r, end) \in Replica
         /\ \A x \in {AdvanceHwm(b, r, end)} :
                /\ x.epoch = r.epoch /\ x.is_leader = r.is_leader /\ x.isr = r.isr
                /\ x.match_offsets = r.match_offsets /\ x.recent = r.recent
                /\ x.appended = r.appended /\ x.fetcher = r.fetcher
                /\ x.hwm = IF r.is_leader THEN NewHwm(b, r, end) ELSE r.hwm
                /\ x.pending_all = r.pending_all \ Covered(b, r, end)
         /\ Covered(b, r, end) \in SUBSET r.pending_all
         /\ Covered(b, r, end) \in SUBSET Pairs
  <1>1. end \in Nat
    BY BoundsAssumption DEF BoundsAssumption
  <1>2. NewHwm(b, r, end) \in 0 .. MaxRecords
    <2>1. r.hwm \in 0 .. MaxRecords
      BY DEF Replica
    <2>2. QED
      BY <1>1, <2>1, NewHwmValue, BoundsAssumption DEF BoundsAssumption
  <1>3. Covered(b, r, end) \in SUBSET r.pending_all
    BY DEF Covered
  <1>4. r.pending_all \in SUBSET Pairs
    BY DEF Replica
  <1>5. ~ r.is_leader => Covered(b, r, end) = {}
    BY DEF Covered
  <1> DEFINE h == NewHwm(b, r, end)
             p == r.pending_all \ Covered(b, r, end)
  <1>6. AdvanceHwm(b, r, end) = IF r.is_leader THEN [r EXCEPT !.hwm = h, !.pending_all = p] ELSE r
    BY DEF AdvanceHwm
  <1>7. h \in 0 .. MaxRecords /\ p \in SUBSET Pairs
    BY <1>2, <1>4
  <1>8. ~ r.is_leader => p = r.pending_all
    BY <1>5
  <1> HIDE DEF h, p
  <1>9. [r EXCEPT !.hwm = h, !.pending_all = p] \in Replica
    BY <1>7 DEF Replica
  <1>10. \A x \in {AdvanceHwm(b, r, end)} :
            /\ x.epoch = r.epoch /\ x.is_leader = r.is_leader /\ x.isr = r.isr
            /\ x.match_offsets = r.match_offsets /\ x.recent = r.recent
            /\ x.appended = r.appended /\ x.fetcher = r.fetcher
            /\ x.hwm = IF r.is_leader THEN h ELSE r.hwm
            /\ x.pending_all = p
    BY <1>6, <1>8 DEF Replica
  <1>11. QED
    BY <1>3, <1>4, <1>6, <1>9, <1>10 DEF h, p

------------------------------------------------------------------------------
(* Steps that leave the logs alone *)

\* A step that touches neither disks nor commands under way keeps the invariant
\* when it gives no replica a new answer and no leader a fetcher.
LEMMA MemoryStep ==
  ASSUME IndInv,
         UNCHANGED <<disk, late>>, produced' = produced,
         meta' \in Tuple, alive' \in SUBSET Brokers, up' \in SUBSET Brokers,
         rep' \in [Brokers -> Replica], rt' \in [Brokers -> Call],
         acked' \in SUBSET Pairs, faults' \in [FaultKinds -> Nat],
         faults.preemptions <= faults'.preemptions,
         \A b \in Brokers :
            /\ rep'[b].fetcher.phase = "append" => rep'[b].fetcher = rep[b].fetcher
            /\ rep'[b].is_leader => rep'[b].fetcher.phase \in Ended
  PROVE  IndInv'
  <1>1. log' = log /\ epochs' = epochs /\ late' = late
    BY DEF disk
  <1>2. Written' = Written
    BY <1>1 DEF Written, Waiting
  <1>3. TypeInv'
    BY <1>1 DEF IndInv, TypeInv
  <1>4. LateInv'
    BY <1>1 DEF IndInv, LateInv
  <1>5. LengthInv'
    BY <1>1, <1>2 DEF IndInv, LengthInv, Short, LogEnd
  <1>6. StartInv'
    BY <1>1 DEF IndInv, StartInv, LogEnd
  <1>7. LeaderInv'
    <2>1. faults.preemptions \in Nat /\ faults'.preemptions \in Nat
      BY Kinds DEF IndInv, TypeInv
    <2>2. faults'.preemptions = 0 => faults.preemptions = 0
      BY <2>1
    <2>3. QED
      BY <1>1, <2>2 DEF IndInv, LeaderInv
  <1>8. QED
    BY <1>3, <1>4, <1>5, <1>6, <1>7 DEF IndInv

\* The same for a step of one replica.
LEMMA ReplicaStep ==
  ASSUME IndInv, NEW b \in Brokers, NEW r \in Replica,
         UNCHANGED <<disk, late>>, produced' = produced,
         meta' \in Tuple, alive' = alive, up' = up,
         rep' = [rep EXCEPT ![b] = r], rt' \in [Brokers -> Call],
         acked' \in SUBSET Pairs, faults' \in [FaultKinds -> Nat],
         faults.preemptions <= faults'.preemptions,
         r.fetcher.phase = "append" => r.fetcher = rep[b].fetcher,
         r.is_leader => r.fetcher.phase \in Ended
  PROVE  IndInv'
  <1>1. rep \in [Brokers -> Replica]
    BY DEF IndInv, TypeInv
  <1>2. rep'[b] = r /\ \A c \in Brokers \ {b} : rep'[c] = rep[c]
    BY <1>1
  <1>3. rep' \in [Brokers -> Replica]
    BY <1>1
  <1>4. \A c \in Brokers : rep[c].is_leader => rep[c].fetcher.phase \in Ended
    BY DEF IndInv, LeaderInv
  <1>5. \A c \in Brokers :
            /\ rep'[c].fetcher.phase = "append" => rep'[c].fetcher = rep[c].fetcher
            /\ rep'[c].is_leader => rep'[c].fetcher.phase \in Ended
    BY <1>2, <1>4
  <1>6. alive' \in SUBSET Brokers /\ up' \in SUBSET Brokers
    BY DEF IndInv, TypeInv
  <1>7. QED
    BY <1>3, <1>5, <1>6, MemoryStep

\* What the invariant says of one replica.
LEMMA ReplicaType ==
  ASSUME IndInv, NEW b \in Brokers
  PROVE  /\ rep[b] \in Replica /\ rt[b] \in Call
         /\ rep[b].epoch \in 0 .. MaxEpoch /\ rep[b].fetcher \in FetcherState
         /\ LogEnd(b) \in 0 .. MaxRecords
         /\ rep[b].is_leader => rep[b].fetcher.phase \in Ended
  <1>1. rep[b] \in Replica /\ rt[b] \in Call
    BY DEF IndInv, TypeInv
  <1>2. LogEnd(b) \in 0 .. MaxRecords
    BY LogEndType DEF IndInv
  <1>3. rep[b].is_leader => rep[b].fetcher.phase \in Ended
    BY DEF IndInv, LeaderInv
  <1>4. QED
    BY <1>1, <1>2, <1>3 DEF Replica

\* A step that leaves the counters alone does not lower the preemptions.
LEMMA SameFaults ==
  ASSUME IndInv, faults' = faults
  PROVE  faults' \in [FaultKinds -> Nat] /\ faults.preemptions <= faults'.preemptions
  <1>1. faults \in [FaultKinds -> Nat]
    BY DEF IndInv, TypeInv
  <1>2. faults.preemptions \in Nat
    BY <1>1, Kinds
  <1>3. QED
    BY <1>1, <1>2

LEMMA MoreFaults ==
  ASSUME IndInv, NEW K, Count(K)
  PROVE  faults' \in [FaultKinds -> Nat] /\ faults.preemptions <= faults'.preemptions
  <1>1. faults \in [FaultKinds -> Nat]
    BY DEF IndInv, TypeInv
  <1>2. "preemptions" \in FaultKinds
    BY Kinds
  <1>3. QED
    BY <1>1, <1>2, CountStep

\* Elections keep the controller's tuple well typed.
LEMMA ElectType ==
  ASSUME TypeInv, NEW live \in SUBSET Brokers, ElectAmong(live)
  PROVE  meta' \in Tuple
  <1>1. PICK c \in Candidates(meta, live) :
            meta' = Elect(meta, c, live) /\ meta'.leader_epoch <= MaxEpoch
    BY DEF ElectAmong
  <1>2. meta \in PartitionState /\ meta.leader_epoch \in Epochs
    BY DEF TypeInv, Tuple
  <1>3. c \in Brokers \cup {NoLeader}
    BY <1>1, <1>2 DEF Candidates, PartitionState
  <1> DEFINE offline == [meta EXCEPT !.leader = NoLeader]
             next == meta.leader_epoch + 1
             rest == meta.isr \cap live
             led == [meta EXCEPT !.leader = c, !.leader_epoch = next, !.isr = rest]
  <1>4. meta' = meta \/ meta' = offline \/ meta' = led
    BY <1>1 DEF Elect
  <1>5. offline \in Tuple
    BY <1>2 DEF PartitionState, Tuple
  <1>6. led \in PartitionState /\ led.leader_epoch = next
    <2>1. next \in Nat
      BY <1>2 DEF PartitionState
    <2>2. rest \in SUBSET Brokers
      BY <1>2 DEF PartitionState
    <2> HIDE DEF next, rest
    <2>3. QED
      BY <1>2, <1>3, <2>1, <2>2 DEF PartitionState
  <1>7. next <= MaxEpoch => next \in Epochs
    BY <1>2, BoundsAssumption DEF Epochs, BoundsAssumption
  <1>8. meta \in Tuple
    BY DEF TypeInv
  <1>9. meta' = led => meta' \in Tuple
    BY <1>1, <1>6, <1>7 DEF Tuple
  <1>10. QED
    BY <1>4, <1>5, <1>8, <1>9

------------------------------------------------------------------------------
(* Steps that touch the disks or the commands under way *)

\* Fewer preempted writes make more written records.
LEMMA WrittenGrows ==
  ASSUME produced \in 0 .. MaxRecords, produced' = produced,
         \A b \in Brokers : late'[b] \cap LateWrite \subseteq late[b]
  PROVE  Cardinality(Written) <= Cardinality(Written') /\ Cardinality(Written') \in Nat
         /\ Cardinality(Written) \in Nat
  <1>1. Waiting' \subseteq Waiting
    BY DEF Waiting
  <1>2. Written \subseteq Written'
    BY <1>1 DEF Written
  <1>3. IsFiniteSet(Written') /\ Cardinality(Written') \in Nat
    <2>1. IsFiniteSet(1 .. produced)
      BY FS_Interval, 1 \in Int, produced \in Int
    <2>2. Written' \subseteq 1 .. produced
      BY DEF Written
    <2>3. QED
      BY <2>1, <2>2, FS_Subset, FS_CardinalityType
  <1>4. QED
    BY <1>2, <1>3, FS_Subset, WrittenSize

\* A step that writes no new record keeps the invariant when every log stays as
\* short as the written records allow, checkpoints stay within their logs, and
\* no answer that would make a log too long comes up.
LEMMA DiskStep ==
  ASSUME IndInv, produced' = produced,
         meta' \in Tuple, alive' \in SUBSET Brokers, up' \in SUBSET Brokers,
         log' \in [Brokers -> Seq(Ids)], epochs' \in [Brokers -> Seq(CheckpointEntry)],
         rep' \in [Brokers -> Replica], rt' \in [Brokers -> Call],
         late' \in [Brokers -> SUBSET Command],
         acked' \in SUBSET Pairs, faults' \in [FaultKinds -> Nat],
         faults'.preemptions = 0 => \A b \in Brokers : late'[b] = {},
         \A b \in Brokers : Len(log'[b]) <= Cardinality(Written),
         \A b \in Brokers : late'[b] \cap LateWrite \subseteq late[b],
         \A b \in Brokers : \A x \in late'[b] \ late[b] : x.cmd = "append" => Short(x.answer),
         \A b \in Brokers :
            /\ rep'[b].fetcher.phase = "append" =>
                  rep'[b].fetcher = rep[b].fetcher \/ Short(rep'[b].fetcher)
            /\ rep'[b].is_leader => rep'[b].fetcher.phase \in Ended,
         StartInv'
  PROVE  IndInv'
  <1>1. TypeInv'
    BY DEF IndInv, TypeInv
  <1>2. produced \in 0 .. MaxRecords
    BY DEF IndInv, TypeInv
  <1>3. /\ Cardinality(Written) <= Cardinality(Written')
        /\ Cardinality(Written') \in Nat /\ Cardinality(Written) \in Nat
    BY <1>2, WrittenGrows
  <1>4. LateInv'
    <2> SUFFICES ASSUME NEW b \in Brokers, NEW c \in Brokers,
                        NEW x \in late'[b], NEW y \in late'[c],
                        x.cmd = "write", y.cmd = "write"
                 PROVE  x.value <= produced /\ (x.value = y.value => b = c /\ x = y)
      BY DEF LateInv
    <2>1. x \in Command /\ y \in Command
      OBVIOUS
    <2>2. x \in LateWrite /\ y \in LateWrite
      BY <2>1 DEF Command, LateWrite
    <2>3. x \in late[b] /\ y \in late[c]
      BY <2>2
    <2>4. QED
      BY <2>3 DEF IndInv, LateInv
  <1>5. LengthInv'
    <2>1. \A b \in Brokers : Len(log'[b]) \in Nat
      OBVIOUS
    <2>2. \A b \in Brokers : LogEnd(b)' <= Cardinality(Written')
      BY <1>3, <2>1 DEF LogEnd
    <2>3. \A x \in Filled :
            Short(x) => x.data.from + Len(x.data.records) <= Cardinality(Written')
      <3> SUFFICES ASSUME NEW x \in Filled, Short(x)
                   PROVE  x.data.from + Len(x.data.records) <= Cardinality(Written')
        OBVIOUS
      <3>1. x.data \in Answer
        BY DEF Filled, Live
      <3>2. x.data.from \in Nat /\ Len(x.data.records) \in Nat
        BY <3>1 DEF Answer
      <3>3. x.data.from + Len(x.data.records) <= Cardinality(Written)
        BY DEF Short
      <3>4. QED
        BY <1>3, <3>2, <3>3
    <2>4. \A b \in Brokers : (rep[b].fetcher.phase = "append" => Short(rep[b].fetcher))'
      <3> SUFFICES ASSUME NEW b \in Brokers, rep'[b].fetcher.phase = "append"
                   PROVE  Short(rep[b].fetcher)'
        OBVIOUS
      <3>1. rep'[b].fetcher \in FetcherState
        BY DEF Replica
      <3>2. rep'[b].fetcher \in Filled
        BY <3>1 DEF FetcherState, Live, NoFetcher, Pinged, Cut, Filled
      <3>3. rep'[b].fetcher = rep[b].fetcher => Short(rep[b].fetcher)
        BY DEF IndInv, LengthInv
      <3>4. Short(rep'[b].fetcher)
        BY <3>3
      <3>5. QED
        BY <2>3, <3>2, <3>4 DEF Short
    <2>5. \A b \in Brokers : \A x \in late'[b] : x.cmd = "append" => Short(x.answer)'
      <3> SUFFICES ASSUME NEW b \in Brokers, NEW x \in late'[b], x.cmd = "append"
                   PROVE  Short(x.answer)'
        OBVIOUS
      <3>1. x \in Command
        OBVIOUS
      <3>2. x.answer \in Filled
        BY <3>1 DEF Command, LateWrite
      <3>3. Short(x.answer)
        BY DEF IndInv, LengthInv
      <3>4. QED
        BY <2>3, <3>2, <3>3 DEF Short
    <2>6. QED
      BY <2>2, <2>4, <2>5 DEF LengthInv
  <1>6. LeaderInv'
    BY DEF LeaderInv
  <1>7. QED
    BY <1>1, <1>4, <1>5, <1>6 DEF IndInv

------------------------------------------------------------------------------
(* Actions of the controller and the runtime *)

LEMMA ExpireStep ==
  ASSUME IndInv, NEW dead \in SUBSET alive, Expire(dead)
  PROVE  IndInv'
  <1>1. alive' \in SUBSET Brokers /\ up' \in SUBSET Brokers
    BY DEF Expire, IndInv, TypeInv
  <1>2. ElectAmong(alive')
    BY DEF Expire
  <1>3. meta' \in Tuple
    BY <1>1, <1>2, ElectType DEF IndInv
  <1>4. faults' \in [FaultKinds -> Nat] /\ faults.preemptions <= faults'.preemptions
    BY MoreFaults DEF Expire, Expiry
  <1>5. UNCHANGED <<disk, late>> /\ produced' = produced
        /\ rep' = rep /\ rt' = rt /\ acked' = acked
    BY DEF Expire
  <1>6. QED
    BY <1>1, <1>3, <1>4, <1>5, MemoryStep DEF IndInv, TypeInv, LeaderInv

LEMMA ReviveStep ==
  ASSUME IndInv, NEW b \in Brokers, Revive(b)
  PROVE  IndInv'
  <1>1. alive' \in SUBSET Brokers /\ up' \in SUBSET Brokers
    BY DEF Revive, IndInv, TypeInv
  <1>2. ElectAmong(alive')
    BY DEF Revive
  <1>3. meta' \in Tuple
    BY <1>1, <1>2, ElectType DEF IndInv
  <1>4. faults' \in [FaultKinds -> Nat] /\ faults.preemptions <= faults'.preemptions
    BY SameFaults DEF Revive
  <1>5. UNCHANGED <<disk, late>> /\ produced' = produced
        /\ rep' = rep /\ rt' = rt /\ acked' = acked
    BY DEF Revive
  <1>6. QED
    BY <1>1, <1>3, <1>4, <1>5, MemoryStep DEF IndInv, TypeInv, LeaderInv

LEMMA ControllerRestartStep ==
  ASSUME IndInv, ControllerRestart
  PROVE  IndInv'
  <1>1. alive' \in SUBSET Brokers /\ up' \in SUBSET Brokers
    BY DEF ControllerRestart, IndInv, TypeInv
  <1>2. rt' \in [Brokers -> Call]
    BY DEF ControllerRestart, Call
  <1>4. faults' \in [FaultKinds -> Nat] /\ faults.preemptions <= faults'.preemptions
    BY MoreFaults DEF ControllerRestart, Expiry
  <1>5. UNCHANGED <<disk, late>> /\ produced' = produced
        /\ rep' = rep /\ meta' = meta /\ acked' = acked
    BY DEF ControllerRestart
  <1>6. QED
    BY <1>1, <1>2, <1>4, <1>5, MemoryStep DEF IndInv, TypeInv, LeaderInv

\* A step of the controller's tuple, of one runtime call and of the counters.
LEMMA CallStep ==
  ASSUME IndInv, NEW b \in Brokers, NEW c \in Call,
         rt' = [rt EXCEPT ![b] = c], meta' \in Tuple,
         UNCHANGED <<alive, up, disk, rep, late, produced, acked>>,
         faults' \in [FaultKinds -> Nat], faults.preemptions <= faults'.preemptions
  PROVE  IndInv'
  <1>1. rt' \in [Brokers -> Call]
    BY DEF IndInv, TypeInv
  <1>2. UNCHANGED <<disk, late>> /\ produced' = produced
        /\ rep' = rep /\ acked' = acked /\ alive' = alive /\ up' = up
    OBVIOUS
  <1>3. QED
    BY <1>1, <1>2, MemoryStep DEF IndInv, TypeInv, LeaderInv

\* The controller's decision on an ISR change keeps its tuple well typed.
LEMMA AlterIsrType ==
  ASSUME IndInv, NEW b, NEW epoch, NEW isr \in SUBSET Brokers, NEW ok, NEW atOnce,
         AlterIsr(b, epoch, isr, ok, atOnce)
  PROVE  /\ meta' \in Tuple
         /\ faults' \in [FaultKinds -> Nat] /\ faults.preemptions <= faults'.preemptions
  <1>1. meta \in Tuple
    BY DEF IndInv, TypeInv
  <1>2. meta' \in Tuple
    BY <1>1 DEF AlterIsr, Tuple, PartitionState
  <1>3. \/ UNCHANGED faults
        \/ Count({"expansions"})
        \/ Count({"stale"})
    BY DEF AlterIsr, Readmit
  <1>4. QED
    BY <1>2, <1>3, SameFaults, MoreFaults

\* What a broker desires, and the call it makes for it.
LEMMA DesiredType ==
  ASSUME IndInv, NEW b \in Brokers
  PROVE  Desired(b) \in SUBSET Brokers
  BY ReplicaType DEF Desired, Replica

LEMMA ProposeIsrStep ==
  ASSUME IndInv, NEW b \in Brokers, ProposeIsr(b)
  PROVE  IndInv'
  <1> DEFINE c == [call |-> "alter", epoch |-> rep[b].epoch, isr |-> Desired(b)]
  <1>1. c \in Call
    BY ReplicaType, DesiredType DEF Call
  <1>2. faults' \in [FaultKinds -> Nat] /\ faults.preemptions <= faults'.preemptions
    BY MoreFaults DEF ProposeIsr, Delayed
  <1>3. /\ rt' = [rt EXCEPT ![b] = c] /\ meta' = meta
        /\ UNCHANGED <<alive, up, disk, rep, late, produced, acked>>
    BY DEF ProposeIsr
  <1>4. meta' \in Tuple
    BY <1>3 DEF IndInv, TypeInv
  <1> HIDE DEF c
  <1>5. QED
    BY <1>1, <1>2, <1>3, <1>4, CallStep

LEMMA DecideIsrStep ==
  ASSUME IndInv, NEW b \in Brokers, DecideIsr(b)
  PROVE  IndInv'
  <1>1. rt[b] \in Call /\ rt[b].call = "alter"
    BY ReplicaType DEF DecideIsr
  <1>2. rt[b].epoch \in 0 .. MaxEpoch /\ rt[b].isr \in SUBSET Brokers
    BY <1>1 DEF Call, Idle
  <1>3. PICK ok \in BOOLEAN :
            /\ AlterIsr(b, rt[b].epoch, rt[b].isr, ok, FALSE)
            /\ rt' = [rt EXCEPT ![b] = [call |-> "altered", ok |-> ok,
                                        epoch |-> rt[b].epoch, isr |-> rt[b].isr]]
    BY DEF DecideIsr
  <1> DEFINE c == [call |-> "altered", ok |-> ok, epoch |-> rt[b].epoch, isr |-> rt[b].isr]
  <1>4. c \in Call
    BY <1>2 DEF Call
  <1>5. /\ meta' \in Tuple
        /\ faults' \in [FaultKinds -> Nat] /\ faults.preemptions <= faults'.preemptions
    BY <1>2, <1>3, AlterIsrType
  <1>6. UNCHANGED <<alive, up, disk, rep, late, produced, acked>>
    BY DEF DecideIsr
  <1>7. rt' = [rt EXCEPT ![b] = c]
    BY <1>3
  <1> HIDE DEF c
  <1>8. QED
    BY <1>4, <1>5, <1>6, <1>7, CallStep

LEMMA LoseCallStep ==
  ASSUME IndInv, NEW b \in Brokers, LoseCall(b)
  PROVE  IndInv'
  <1>1. Idle \in Call
    BY DEF Call
  <1>2. faults' \in [FaultKinds -> Nat] /\ faults.preemptions <= faults'.preemptions
    BY SameFaults DEF LoseCall
  <1>3. /\ rt' = [rt EXCEPT ![b] = Idle] /\ meta' = meta
        /\ UNCHANGED <<alive, up, disk, rep, late, produced, acked>>
    BY DEF LoseCall
  <1>4. meta' \in Tuple
    BY <1>3 DEF IndInv, TypeInv
  <1>5. QED
    BY <1>1, <1>2, <1>3, <1>4, CallStep

\* A broker that moves to state r and recomputes its mark keeps the invariant,
\* whatever the controller and the runtime call do in the same step.
LEMMA AdvanceStep ==
  ASSUME IndInv, NEW b \in Brokers, NEW r \in Replica,
         Advance(b, r, LogEnd(b)),
         UNCHANGED <<disk, late>>, produced' = produced,
         meta' \in Tuple, alive' = alive, up' = up, rt' \in [Brokers -> Call],
         faults' \in [FaultKinds -> Nat], faults.preemptions <= faults'.preemptions,
         r.fetcher.phase = "append" => r.fetcher = rep[b].fetcher,
         r.is_leader => r.fetcher.phase \in Ended
  PROVE  IndInv'
  <1> DEFINE n == AdvanceHwm(b, r, LogEnd(b))
  <1>1. LogEnd(b) \in 0 .. MaxRecords
    BY ReplicaType
  <1>2. n \in Replica /\ n.is_leader = r.is_leader /\ n.fetcher = r.fetcher
    BY <1>1, AdvanceType
  <1>3. Covered(b, r, LogEnd(b)) \in SUBSET Pairs
    BY <1>1, AdvanceType
  <1>4. acked' \in SUBSET Pairs
    BY <1>3 DEF Advance, IndInv, TypeInv
  <1>5. rep' = [rep EXCEPT ![b] = n]
    BY DEF Advance
  <1> HIDE DEF n
  <1>6. QED
    BY <1>2, <1>4, <1>5, ReplicaStep

\* The use of the answer to an ISR change.
LEMMA AdoptStep ==
  ASSUME IndInv, NEW b \in Brokers, NEW epoch, NEW isr \in SUBSET Brokers, NEW ok,
         Adopt(b, epoch, isr, ok),
         UNCHANGED <<disk, late>>, produced' = produced,
         meta' \in Tuple, alive' = alive, up' = up, rt' \in [Brokers -> Call],
         faults' \in [FaultKinds -> Nat], faults.preemptions <= faults'.preemptions
  PROVE  IndInv'
  <1>1. rep[b] \in Replica /\ (rep[b].is_leader => rep[b].fetcher.phase \in Ended)
    BY ReplicaType
  <1> DEFINE n == [rep[b] EXCEPT !.isr = isr]
  <1>2. n \in Replica /\ n.fetcher = rep[b].fetcher /\ n.is_leader = rep[b].is_leader
    BY <1>1 DEF Replica
  <1>3. Advance(b, n, LogEnd(b)) \/ Advance(b, rep[b], LogEnd(b))
    BY DEF Adopt
  <1> HIDE DEF n
  <1>4. CASE Advance(b, n, LogEnd(b))
    BY <1>1, <1>2, <1>4, AdvanceStep
  <1>5. CASE Advance(b, rep[b], LogEnd(b))
    BY <1>1, <1>5, AdvanceStep
  <1>6. QED
    BY <1>3, <1>4, <1>5

LEMMA ChangeIsrStep ==
  ASSUME IndInv, NEW b \in Brokers, ChangeIsr(b)
  PROVE  IndInv'
  <1>1. PICK ok \in BOOLEAN :
            /\ AlterIsr(b, rep[b].epoch, Desired(b), ok, TRUE)
            /\ Adopt(b, rep[b].epoch, Desired(b), ok)
    BY DEF ChangeIsr
  <1>2. Desired(b) \in SUBSET Brokers
    BY DesiredType
  <1>3. /\ meta' \in Tuple
        /\ faults' \in [FaultKinds -> Nat] /\ faults.preemptions <= faults'.preemptions
    BY <1>1, <1>2, AlterIsrType
  <1>4. /\ UNCHANGED <<disk, late>> /\ produced' = produced
        /\ alive' = alive /\ up' = up /\ rt' \in [Brokers -> Call]
    BY DEF ChangeIsr, IndInv, TypeInv
  <1>5. QED
    BY <1>1, <1>2, <1>3, <1>4, AdoptStep

LEMMA AdoptIsrStep ==
  ASSUME IndInv, NEW b \in Brokers, AdoptIsr(b)
  PROVE  IndInv'
  <1>1. rt[b] \in Call /\ rt[b].call = "altered"
    BY ReplicaType DEF AdoptIsr
  <1>2. rt[b].isr \in SUBSET Brokers
    BY <1>1 DEF Call, Idle
  <1>3. /\ faults' \in [FaultKinds -> Nat] /\ faults.preemptions <= faults'.preemptions
    BY SameFaults DEF AdoptIsr
  <1>4. Idle \in Call
    BY DEF Call
  <1>5. /\ UNCHANGED <<disk, late>> /\ produced' = produced /\ meta' \in Tuple
        /\ alive' = alive /\ up' = up /\ rt' \in [Brokers -> Call]
    BY <1>4 DEF AdoptIsr, IndInv, TypeInv
  <1>6. QED
    BY <1>2, <1>3, <1>5, AdoptStep DEF AdoptIsr

LEMMA LagExpiresStep ==
  ASSUME IndInv, NEW b \in Brokers, NEW f \in Brokers, LagExpires(b, f)
  PROVE  IndInv'
  <1>1. rep[b] \in Replica /\ (rep[b].is_leader => rep[b].fetcher.phase \in Ended)
    BY ReplicaType
  <1> DEFINE n == [rep[b] EXCEPT !.recent = @ \ {f}]
  <1>2. n \in Replica /\ n.fetcher = rep[b].fetcher /\ n.is_leader = rep[b].is_leader
    BY <1>1 DEF Replica
  <1>3. rep' = [rep EXCEPT ![b] = n]
    BY DEF LagExpires
  <1>4. faults' \in [FaultKinds -> Nat] /\ faults.preemptions <= faults'.preemptions
    BY MoreFaults DEF LagExpires
  <1>5. /\ UNCHANGED <<disk, late>> /\ produced' = produced /\ meta' \in Tuple
        /\ alive' = alive /\ up' = up /\ rt' \in [Brokers -> Call] /\ acked' \in SUBSET Pairs
    BY DEF LagExpires, IndInv, TypeInv
  <1> HIDE DEF n
  <1>6. QED
    BY <1>1, <1>2, <1>3, <1>4, <1>5, ReplicaStep

LEMMA ParkProduceStep ==
  ASSUME IndInv, NEW b \in Brokers, NEW a \in rep[b].appended, ParkProduce(b, a)
  PROVE  IndInv'
  <1>1. rep[b] \in Replica /\ (rep[b].is_leader => rep[b].fetcher.phase \in Ended)
    BY ReplicaType
  <1>2. rep[b].appended \in SUBSET Pairs /\ rep[b].pending_all \in SUBSET Pairs
    BY <1>1 DEF Replica
  <1> DEFINE m == rep[b].appended \ {a}
             p == rep[b].pending_all \cup {a}
             n == [rep[b] EXCEPT !.appended = m, !.pending_all = p]
  <1>3. m \in SUBSET Pairs /\ p \in SUBSET Pairs
    BY <1>2
  <1>4. n \in Replica /\ n.fetcher = rep[b].fetcher /\ n.is_leader = rep[b].is_leader
    <2> HIDE DEF m, p
    <2>1. QED
      BY <1>1, <1>3 DEF Replica
  <1>5. Advance(b, n, LogEnd(b))
    BY DEF ParkProduce
  <1>6. faults' = faults \/ Count({"strays"})
    BY DEF ParkProduce
  <1>7. faults' \in [FaultKinds -> Nat] /\ faults.preemptions <= faults'.preemptions
    BY <1>6, MoreFaults, SameFaults
  <1>8. /\ UNCHANGED <<disk, late>> /\ produced' = produced /\ meta' \in Tuple
        /\ alive' = alive /\ up' = up /\ rt' \in [Brokers -> Call]
    BY DEF ParkProduce, IndInv, TypeInv
  <1> HIDE DEF n
  <1>9. QED
    BY <1>1, <1>4, <1>5, <1>7, <1>8, AdvanceStep

LEMMA ProduceTimeoutStep ==
  ASSUME IndInv, NEW b \in Brokers, NEW a, ProduceTimeout(b, a)
  PROVE  IndInv'
  <1>1. rep[b] \in Replica /\ (rep[b].is_leader => rep[b].fetcher.phase \in Ended)
    BY ReplicaType
  <1> DEFINE p == rep[b].pending_all \ {a}
             n == [rep[b] EXCEPT !.pending_all = p]
  <1>2. p \in SUBSET Pairs
    BY <1>1 DEF Replica
  <1>3. n \in Replica /\ n.fetcher = rep[b].fetcher /\ n.is_leader = rep[b].is_leader
    <2> HIDE DEF p
    <2>1. QED
      BY <1>1, <1>2 DEF Replica
  <1>4. rep' = [rep EXCEPT ![b] = n]
    BY DEF ProduceTimeout
  <1>5. faults' \in [FaultKinds -> Nat] /\ faults.preemptions <= faults'.preemptions
    BY SameFaults DEF ProduceTimeout
  <1>6. /\ UNCHANGED <<disk, late>> /\ produced' = produced /\ meta' \in Tuple
        /\ alive' = alive /\ up' = up /\ rt' \in [Brokers -> Call] /\ acked' \in SUBSET Pairs
    BY DEF ProduceTimeout, IndInv, TypeInv
  <1> HIDE DEF n
  <1>7. QED
    BY <1>1, <1>3, <1>4, <1>5, <1>6, ReplicaStep

------------------------------------------------------------------------------
(* Metadata *)

\* Recording an epoch at the log end keeps a checkpoint well typed and within
\* its log.
LEMMA RecordType ==
  ASSUME NEW es \in Seq(CheckpointEntry), NEW e \in Epochs, NEW s \in Nat,
         \A i \in DOMAIN es : es[i].start <= s
  PROVE  /\ RecordEpoch(es, e, s) \in Seq(CheckpointEntry)
         /\ \A i \in DOMAIN RecordEpoch(es, e, s) : RecordEpoch(es, e, s)[i].start <= s
  <1>1. Entry(e, s) \in CheckpointEntry /\ Entry(e, s).start = s
    BY DEF Entry, CheckpointEntry
  <1> DEFINE n == Entry(e, s)
             ap == Append(es, n)
  <1> HIDE DEF n
  <1>2. ap \in Seq(CheckpointEntry) /\ Len(ap) = Len(es) + 1
        /\ \A i \in 1 .. Len(es) : ap[i] = es[i]
    BY <1>1 DEF n
  <1>3. ap[Len(es) + 1] = n
    BY <1>1 DEF n
  <1>4. n.start <= s
    BY <1>1 DEF n
  <1>5. \A i \in DOMAIN ap : ap[i].start <= s
    <2> SUFFICES ASSUME NEW i \in DOMAIN ap PROVE ap[i].start <= s
      OBVIOUS
    <2>1. DOMAIN ap = 1 .. Len(es) + 1 /\ DOMAIN es = 1 .. Len(es) /\ Len(es) \in Nat
      BY <1>2
    <2>2. CASE i \in DOMAIN es
      BY <1>2, <2>1, <2>2
    <2>3. CASE i = Len(es) + 1
      BY <1>3, <1>4, <2>3
    <2>4. QED
      BY <2>1, <2>2, <2>3
  <1>6. RecordEpoch(es, e, s) = es \/ RecordEpoch(es, e, s) = ap
    BY DEF RecordEpoch, n
  <1> HIDE DEF ap
  <1>7. QED
    BY <1>2, <1>5, <1>6

\* What the invariant says of one disk.
LEMMA DiskType ==
  ASSUME IndInv, NEW b \in Brokers
  PROVE  /\ log[b] \in Seq(Ids) /\ LogEnd(b) \in Nat /\ LogEnd(b) = Len(log[b])
         /\ LogEnd(b) <= Cardinality(Written)
         /\ epochs[b] \in Seq(CheckpointEntry)
         /\ \A i \in DOMAIN epochs[b] : epochs[b][i].start <= LogEnd(b)
         /\ \A i \in DOMAIN epochs[b] : epochs[b][i] \in CheckpointEntry
         /\ CurrentEpoch(epochs[b]) \in 0 .. MaxEpoch
  <1>1. log[b] \in Seq(Ids) /\ epochs[b] \in Seq(CheckpointEntry)
    BY DEF IndInv, TypeInv
  <1>2. LogEnd(b) \in Nat /\ LogEnd(b) = Len(log[b])
    BY <1>1 DEF LogEnd
  <1>3. LogEnd(b) <= Cardinality(Written)
    BY DEF IndInv, LengthInv
  <1>4. \A i \in DOMAIN epochs[b] : epochs[b][i].start <= LogEnd(b)
    BY DEF IndInv, StartInv
  <1>5. \A i \in DOMAIN epochs[b] : epochs[b][i] \in CheckpointEntry
    BY <1>1, ElementOfSeq
  <1>6. epochs[b] # <<>> => Len(epochs[b]) \in DOMAIN epochs[b]
    BY <1>1
  <1>7. epochs[b] # <<>> => Last(epochs[b]) \in CheckpointEntry
    BY <1>5, <1>6 DEF Last
  <1>8. CurrentEpoch(epochs[b]) \in 0 .. MaxEpoch
    <2>1. CASE epochs[b] = <<>>
      BY <2>1, BoundsAssumption DEF CurrentEpoch, BoundsAssumption
    <2>2. CASE epochs[b] # <<>>
      BY <1>7, <2>2 DEF CurrentEpoch, CheckpointEntry, Epochs
    <2>3. QED
      BY <2>1, <2>2
  <1>9. QED
    BY <1>1, <1>2, <1>3, <1>4, <1>5, <1>8

\* The fetchers the runtime spawns for a tuple.
LEMMA SpawnType ==
  ASSUME NEW m \in Tuple
  PROVE  /\ SpawnFetcher(m) \in FetcherState /\ SpawnFetcher(m).phase # "append"
         /\ NoFetcher \in FetcherState /\ NoFetcher.phase \in Ended /\ NoFetcher.phase # "append"
         /\ Pinged \in FetcherState /\ Pinged.phase \in Ended /\ Pinged.phase # "append"
  <1>1. NoFetcher \in FetcherState /\ Pinged \in FetcherState
        /\ NoFetcher.phase = "dead" /\ Pinged.phase = "pinged"
    BY DEF FetcherState, NoFetcher, Pinged
  <1>2. m.leader # NoLeader => m.leader \in Brokers /\ m.leader_epoch \in Epochs
    BY DEF Tuple, PartitionState
  <1>3. 0 \in 0 .. MaxEpoch
    BY BoundsAssumption DEF BoundsAssumption
  <1> DEFINE x == Fetcher("connect", m.leader, m.leader_epoch, 0, <<>>)
  <1>4. m.leader # NoLeader => x \in Live({"connect", "fetch"}, {<<>>})
    BY <1>2, <1>3 DEF Fetcher, Live
  <1>5. x.phase = "connect"
    BY DEF Fetcher
  <1>6. SpawnFetcher(m) = NoFetcher \/ (m.leader # NoLeader /\ SpawnFetcher(m) = x)
    BY DEF SpawnFetcher
  <1> HIDE DEF x
  <1>7. m.leader # NoLeader => x \in FetcherState
    BY <1>4 DEF FetcherState
  <1>8. QED
    BY <1>1, <1>5, <1>6, <1>7 DEF Ended

\* The replica after each kind of metadata.
LEMMA RefreshedType ==
  ASSUME IndInv, NEW b \in Brokers, NEW m \in Tuple
  PROVE  \A r \in {Refreshed(rep[b], m)} :
            /\ r \in Replica /\ (r.is_leader => r.fetcher.phase \in Ended)
            /\ r.fetcher.phase = "append" => r.fetcher = rep[b].fetcher
            /\ r.is_leader = rep[b].is_leader
  <1>1. rep[b] \in Replica /\ (rep[b].is_leader => rep[b].fetcher.phase \in Ended)
    BY ReplicaType
  <1>2. SpawnFetcher(m) \in FetcherState /\ SpawnFetcher(m).phase # "append"
    BY SpawnType
  <1>3. m.isr \in SUBSET Brokers
    BY DEF Tuple, PartitionState
  <1> DEFINE x == IF ~ rep[b].is_leader /\ rep[b].fetcher.phase \in Ended
                  THEN SpawnFetcher(m) ELSE rep[b].fetcher
  <1>4. x \in FetcherState
    BY <1>1, <1>2 DEF Replica
  <1>5. x.phase = "append" => x = rep[b].fetcher
    BY <1>2
  <1>6. rep[b].is_leader => x.phase \in Ended
    BY <1>1
  <1>7. Refreshed(rep[b], m) = [rep[b] EXCEPT !.isr = m.isr, !.fetcher = x]
    BY DEF Refreshed
  <1> HIDE DEF x
  <1>8. QED
    BY ZenonT(40), <1>1, <1>3, <1>4, <1>5, <1>6, <1>7 DEF Replica

LEMMA PromotedType ==
  ASSUME IndInv, NEW b \in Brokers, NEW m \in Tuple
  PROVE  \A r \in {Promoted(b, rep[b], m)} :
            r \in Replica /\ r.fetcher = NoFetcher /\ r.is_leader
  <1>1. rep[b] \in Replica
    BY ReplicaType
  <1>2. m.isr \in SUBSET Brokers /\ m.leader_epoch \in 0 .. MaxEpoch
    BY BoundsAssumption DEF Tuple, PartitionState, Epochs, BoundsAssumption
  <1>3. NoFetcher \in FetcherState
    BY SpawnType
  <1> DEFINE zeros == [f \in Brokers |-> 0]
             others == Brokers \ {b}
  <1>4. zeros \in [Brokers -> Nat] /\ others \in SUBSET Brokers
    OBVIOUS
  <1>5. Promoted(b, rep[b], m) =
          [rep[b] EXCEPT !.epoch = m.leader_epoch, !.isr = m.isr, !.is_leader = TRUE,
                         !.match_offsets = zeros, !.recent = others, !.fetcher = NoFetcher]
    BY DEF Promoted
  <1> DEFINE e == m.leader_epoch
             isr == m.isr
  <1> HIDE DEF zeros, others, e, isr
  <1>6. \A r \in {[rep[b] EXCEPT !.epoch = e, !.isr = isr, !.is_leader = TRUE,
                               !.match_offsets = zeros, !.recent = others,
                               !.fetcher = NoFetcher]} :
            r \in Replica /\ r.fetcher = NoFetcher /\ r.is_leader
    BY <1>1, <1>2, <1>3, <1>4 DEF Replica, e, isr
  <1>7. QED
    BY <1>5, <1>6 DEF e, isr

LEMMA DemotedType ==
  ASSUME IndInv, NEW b \in Brokers, NEW m \in Tuple
  PROVE  \A r \in {Demoted(rep[b], m)} :
            r \in Replica /\ r.fetcher.phase # "append" /\ ~ r.is_leader
  <1>1. rep[b] \in Replica
    BY ReplicaType
  <1>2. m.isr \in SUBSET Brokers /\ m.leader_epoch \in 0 .. MaxEpoch
    BY BoundsAssumption DEF Tuple, PartitionState, Epochs, BoundsAssumption
  <1>3. SpawnFetcher(m) \in FetcherState /\ SpawnFetcher(m).phase # "append"
    BY SpawnType
  <1> DEFINE zeros == [f \in Brokers |-> 0]
  <1>4. zeros \in [Brokers -> Nat]
    OBVIOUS
  <1>5. Demoted(rep[b], m) =
          [rep[b] EXCEPT !.epoch = m.leader_epoch, !.isr = m.isr, !.is_leader = FALSE,
                         !.match_offsets = zeros, !.recent = {}, !.pending_all = {},
                         !.fetcher = SpawnFetcher(m)]
    BY DEF Demoted
  <1> DEFINE e == m.leader_epoch
             isr == m.isr
             x == SpawnFetcher(m)
  <1>6. isr \in SUBSET Brokers /\ e \in 0 .. MaxEpoch /\ x \in FetcherState
    BY <1>2, <1>3
  <1> HIDE DEF zeros, e, isr, x
  <1>7. \A r \in {[rep[b] EXCEPT !.epoch = e, !.isr = isr, !.is_leader = FALSE,
                               !.match_offsets = zeros, !.recent = {},
                               !.pending_all = {}, !.fetcher = x]} :
            r \in Replica /\ r.fetcher = x /\ ~ r.is_leader
    BY <1>1, <1>4, <1>6 DEF Replica
  <1>8. QED
    BY <1>3, <1>5, <1>7 DEF e, isr, x

\* apply_metadata keeps the invariant: a new leader records its epoch at its log
\* end, at once or in a command that is left behind.
LEMMA ApplyStep ==
  ASSUME IndInv, NEW b \in Brokers, NEW m \in Tuple, Apply(b, m),
         UNCHANGED <<meta, alive, up, log, produced>>, rt' \in [Brokers -> Call]
  PROVE  IndInv'
  <1>1. /\ meta' \in Tuple /\ alive' \in SUBSET Brokers /\ up' \in SUBSET Brokers
        /\ alive' = alive /\ up' = up /\ log' = log /\ produced' = produced
    BY DEF IndInv, TypeInv
  <1>2. \/ /\ Advance(b, Refreshed(rep[b], m), LogEnd(b))
           /\ epochs' = epochs /\ late' = late /\ faults' = faults
        \/ /\ rep' = [rep EXCEPT ![b] = Demoted(rep[b], m)]
           /\ acked' = acked /\ epochs' = epochs /\ late' = late /\ faults' = faults
        \/ /\ Advance(b, Promoted(b, rep[b], m), LogEnd(b))
           /\ \/ /\ epochs' = [epochs EXCEPT ![b] = RecordEpoch(@, m.leader_epoch, LogEnd(b))]
                 /\ late' = late /\ faults' = faults
              \/ /\ Preempted
                 /\ late' = [late EXCEPT ![b] = @ \cup {[cmd |-> "epoch", epoch |-> m.leader_epoch]}]
                 /\ epochs' = epochs
    BY DEF Apply
  <1>3. CASE /\ Advance(b, Refreshed(rep[b], m), LogEnd(b))
             /\ epochs' = epochs /\ late' = late /\ faults' = faults
    <2> DEFINE r == Refreshed(rep[b], m)
    <2>1. /\ r \in Replica /\ (r.is_leader => r.fetcher.phase \in Ended)
          /\ r.fetcher.phase = "append" => r.fetcher = rep[b].fetcher
      BY RefreshedType
    <2>2. faults' \in [FaultKinds -> Nat] /\ faults.preemptions <= faults'.preemptions
      BY <1>3, SameFaults
    <2>3. UNCHANGED <<disk, late>>
      BY <1>1, <1>3 DEF disk
    <2> HIDE DEF r
    <2>4. Advance(b, r, LogEnd(b))
      BY <1>3 DEF r
    <2>5. QED
      BY <1>1, <2>1, <2>2, <2>3, <2>4, AdvanceStep
  <1>4. CASE /\ rep' = [rep EXCEPT ![b] = Demoted(rep[b], m)]
             /\ acked' = acked /\ epochs' = epochs /\ late' = late /\ faults' = faults
    <2> DEFINE r == Demoted(rep[b], m)
    <2>1. r \in Replica /\ ~ r.is_leader /\ r.fetcher.phase # "append"
      BY DemotedType
    <2>2. faults' \in [FaultKinds -> Nat] /\ faults.preemptions <= faults'.preemptions
      BY <1>4, SameFaults
    <2>3. UNCHANGED <<disk, late>> /\ acked' \in SUBSET Pairs
      BY <1>1, <1>4 DEF disk, IndInv, TypeInv
    <2> HIDE DEF r
    <2>4. rep' = [rep EXCEPT ![b] = r]
      BY <1>4 DEF r
    <2>5. QED
      BY <1>1, <2>1, <2>2, <2>3, <2>4, ReplicaStep
  <1>5. CASE Advance(b, Promoted(b, rep[b], m), LogEnd(b))
    <2> DEFINE r == Promoted(b, rep[b], m)
               n == AdvanceHwm(b, r, LogEnd(b))
    <2>1. r \in Replica /\ r.fetcher = NoFetcher /\ r.is_leader
      BY PromotedType
    <2> HIDE DEF r
    <2>2. LogEnd(b) \in 0 .. MaxRecords
      BY ReplicaType
    <2>3. n \in Replica /\ n.fetcher = NoFetcher
      BY <2>1, <2>2, AdvanceType
    <2>4. Covered(b, r, LogEnd(b)) \in SUBSET Pairs
      BY <2>1, <2>2, AdvanceType
    <2>5. acked' \in SUBSET Pairs /\ rep' = [rep EXCEPT ![b] = n]
      BY <1>5, <2>4 DEF r, Advance, IndInv, TypeInv
    <2> HIDE DEF n
    <2>6. rep' \in [Brokers -> Replica]
      BY <2>3, <2>5 DEF IndInv, TypeInv
    <2>7. \A c \in Brokers :
             /\ rep'[c].fetcher.phase = "append" => rep'[c].fetcher = rep[c].fetcher
             /\ rep'[c].is_leader => rep'[c].fetcher.phase \in Ended
      BY <2>3, <2>5, SpawnType, <1>1 DEF IndInv, TypeInv, LeaderInv
    <2>8. CASE /\ epochs' = [epochs EXCEPT ![b] = RecordEpoch(@, m.leader_epoch, LogEnd(b))]
               /\ late' = late /\ faults' = faults
      <3>1. m.leader_epoch \in Epochs
        BY DEF Tuple
      <3>2. /\ epochs[b] \in Seq(CheckpointEntry) /\ LogEnd(b) \in Nat
            /\ \A i \in DOMAIN epochs[b] : epochs[b][i].start <= LogEnd(b)
        BY DiskType
      <3> DEFINE es == RecordEpoch(epochs[b], m.leader_epoch, LogEnd(b))
      <3>3. es \in Seq(CheckpointEntry) /\ \A i \in DOMAIN es : es[i].start <= LogEnd(b)
        BY <3>1, <3>2, RecordType
      <3>4. epochs' = [epochs EXCEPT ![b] = es] /\ epochs \in [Brokers -> Seq(CheckpointEntry)]
        BY <2>8 DEF IndInv, TypeInv
      <3> HIDE DEF es
      <3>5. epochs' \in [Brokers -> Seq(CheckpointEntry)]
        BY <3>3, <3>4
      <3>6. StartInv'
        <4> SUFFICES ASSUME NEW c \in Brokers, NEW i \in DOMAIN epochs'[c]
                     PROVE  epochs'[c][i].start <= LogEnd(c)'
          BY DEF StartInv
        <4>1. LogEnd(c)' = LogEnd(c)
          BY <1>1 DEF LogEnd
        <4>2. CASE c = b
          BY <3>3, <3>4, <4>1, <4>2
        <4>3. CASE c # b
          BY <3>4, <4>1, <4>3 DEF IndInv, StartInv
        <4>4. QED
          BY <4>2, <4>3
      <3>7. /\ log' \in [Brokers -> Seq(Ids)] /\ late' \in [Brokers -> SUBSET Command]
            /\ faults' \in [FaultKinds -> Nat]
            /\ faults'.preemptions = 0 => \A c \in Brokers : late'[c] = {}
        BY <1>1, <2>8 DEF IndInv, TypeInv, LeaderInv
      <3>8. \A c \in Brokers : Len(log'[c]) <= Cardinality(Written)
        BY <1>1 DEF IndInv, LengthInv, LogEnd
      <3>9. \A c \in Brokers : late'[c] \cap LateWrite \subseteq late[c] /\ late'[c] \ late[c] = {}
        BY <2>8
      <3>10. QED
        BY <1>1, <2>5, <2>6, <2>7, <3>5, <3>6, <3>7, <3>8, <3>9, DiskStep
    <2>9. CASE /\ Preempted
               /\ late' = [late EXCEPT ![b] = @ \cup {[cmd |-> "epoch", epoch |-> m.leader_epoch]}]
               /\ epochs' = epochs
      <3> DEFINE x == [cmd |-> "epoch", epoch |-> m.leader_epoch]
      <3>1. x \in Command /\ x.cmd = "epoch"
        BY DEF Command, Tuple
      <3>2. late' = [late EXCEPT ![b] = @ \cup {x}] /\ late \in [Brokers -> SUBSET Command]
        BY <2>9 DEF IndInv, TypeInv
      <3> HIDE DEF x
      <3>3. late' \in [Brokers -> SUBSET Command]
        BY <3>1, <3>2
      <3>4. \A c \in Brokers : \A y \in late'[c] \ late[c] : y = x
        BY <3>2
      <3>5. x \notin LateWrite
        BY <3>1 DEF LateWrite
      <3>6. /\ \A c \in Brokers : late'[c] \cap LateWrite \subseteq late[c]
            /\ \A c \in Brokers : \A y \in late'[c] \ late[c] : y.cmd = "append" => Short(y.answer)
        BY <3>1, <3>4, <3>5
      <3>7. faults' \in [FaultKinds -> Nat] /\ faults'.preemptions = faults.preemptions + 1
        BY <2>9, CountStep, Kinds DEF Preempted, IndInv, TypeInv
      <3>8. faults'.preemptions # 0
        BY SMTT(30), <3>7, Kinds DEF IndInv, TypeInv
      <3>9. log' \in [Brokers -> Seq(Ids)] /\ epochs' \in [Brokers -> Seq(CheckpointEntry)]
        BY <1>1, <2>9 DEF IndInv, TypeInv
      <3>10. \A c \in Brokers : Len(log'[c]) <= Cardinality(Written)
        BY <1>1 DEF IndInv, LengthInv, LogEnd
      <3>11. StartInv'
        BY <1>1, <2>9 DEF IndInv, StartInv, LogEnd
      <3>12. QED
        BY <1>1, <2>5, <2>6, <2>7, <3>3, <3>6, <3>7, <3>8, <3>9, <3>10, <3>11, DiskStep
    <2>10. QED
      BY <1>2, <1>5, <2>8, <2>9, <1>3, <1>4
  <1>6. QED
    BY <1>2, <1>3, <1>4, <1>5

LEMMA RefreshMetadataStep ==
  ASSUME IndInv, NEW b \in Brokers, RefreshMetadata(b)
  PROVE  IndInv'
  <1>1. meta \in Tuple /\ rt \in [Brokers -> Call]
    BY DEF IndInv, TypeInv
  <1>2. QED
    BY <1>1, ApplyStep DEF RefreshMetadata

LEMMA ReceiveMetadataStep ==
  ASSUME IndInv, NEW b \in Brokers, ReceiveMetadata(b)
  PROVE  IndInv'
  <1>1. rt[b] \in Call /\ rt[b].call = "metadata"
    BY ReplicaType DEF ReceiveMetadata
  <1>2. rt[b].meta \in Tuple
    BY <1>1 DEF Call, Idle
  <1>3. rt' \in [Brokers -> Call]
    BY DEF ReceiveMetadata, IndInv, TypeInv, Call
  <1>4. QED
    BY <1>2, <1>3, ApplyStep DEF ReceiveMetadata

\* A fetcher moves on, or ends, and nothing else of its broker changes.
LEMMA FetcherStep ==
  ASSUME IndInv, NEW f \in Brokers, NEW x \in FetcherState, SetFetcher(f, x),
         UNCHANGED <<meta, alive, up, disk, late, produced>>,
         rt' \in [Brokers -> Call], acked' \in SUBSET Pairs,
         faults' \in [FaultKinds -> Nat], faults.preemptions <= faults'.preemptions,
         x.phase = "append" => x = rep[f].fetcher,
         rep[f].is_leader => x.phase \in Ended
  PROVE  IndInv'
  <1>1. rep[f] \in Replica
    BY ReplicaType
  <1> DEFINE r == [rep[f] EXCEPT !.fetcher = x]
  <1>2. r \in Replica /\ r.fetcher = x /\ r.is_leader = rep[f].is_leader
    BY <1>1 DEF Replica
  <1>3. rep' = [rep EXCEPT ![f] = r]
    BY DEF SetFetcher
  <1>4. /\ meta' \in Tuple /\ alive' = alive /\ up' = up
        /\ UNCHANGED <<disk, late>> /\ produced' = produced
    BY DEF IndInv, TypeInv
  <1> HIDE DEF r
  <1>5. /\ r.fetcher.phase = "append" => r.fetcher = rep[f].fetcher
        /\ r.is_leader => r.fetcher.phase \in Ended
    BY <1>2
  <1>6. r \in Replica
    BY <1>2
  <1>7. QED
    BY <1>3, <1>4, <1>5, <1>6, ReplicaStep

LEMMA RequestMetadataStep ==
  ASSUME IndInv, NEW b \in Brokers, RequestMetadata(b)
  PROVE  IndInv'
  <1> DEFINE x == IF rep[b].fetcher = Pinged THEN NoFetcher ELSE rep[b].fetcher
             c == [call |-> "metadata", meta |-> meta]
  <1>1. rep[b].fetcher \in FetcherState /\ (rep[b].is_leader => rep[b].fetcher.phase \in Ended)
    BY ReplicaType
  <1>2. meta \in Tuple /\ rt \in [Brokers -> Call]
    BY DEF IndInv, TypeInv
  <1>3. x \in FetcherState /\ (x.phase = "append" => x = rep[b].fetcher)
        /\ (rep[b].is_leader => x.phase \in Ended)
    BY <1>1, <1>2, SpawnType
  <1>4. SetFetcher(b, x)
    BY DEF RequestMetadata, SetFetcher
  <1>5. c \in Call
    BY <1>2 DEF Call
  <1>6. rt' \in [Brokers -> Call]
    BY <1>2, <1>5 DEF RequestMetadata
  <1>7. faults' \in [FaultKinds -> Nat] /\ faults.preemptions <= faults'.preemptions
    BY MoreFaults DEF RequestMetadata, Delayed
  <1>8. UNCHANGED <<meta, alive, up, disk, late, produced>> /\ acked' \in SUBSET Pairs
    BY DEF RequestMetadata, IndInv, TypeInv
  <1> HIDE DEF x, c
  <1>9. QED
    BY <1>3, <1>4, <1>6, <1>7, <1>8, FetcherStep

------------------------------------------------------------------------------
(* The fetcher *)

LEMMA LoseFetchStep ==
  ASSUME IndInv, NEW f \in Brokers, LoseFetch(f)
  PROVE  IndInv'
  <1>1. Pinged \in FetcherState /\ Pinged.phase \in Ended /\ Pinged.phase # "append"
    BY SpawnType DEF IndInv, TypeInv
  <1>2. SetFetcher(f, Pinged) /\ UNCHANGED <<meta, alive, up, disk, late, produced>>
    BY DEF LoseFetch
  <1>3. faults' \in [FaultKinds -> Nat] /\ faults.preemptions <= faults'.preemptions
    BY MoreFaults DEF LoseFetch, Dropped
  <1>4. rt' \in [Brokers -> Call] /\ acked' \in SUBSET Pairs
    BY DEF LoseFetch, IndInv, TypeInv
  <1>5. QED
    BY <1>1, <1>2, <1>3, <1>4, FetcherStep

\* The kinds of fetcher a phase tells apart.
LEMMA FetcherKinds ==
  ASSUME IndInv, NEW f \in Brokers
  PROVE  LET x == rep[f].fetcher
         IN  /\ x.phase = "connect" => x \in Live({"connect", "fetch"}, {<<>>})
             /\ x.phase = "fetch" => x \in Live({"connect", "fetch"}, {<<>>})
             /\ x.phase = "wait" => x \in Live({"wait"}, Nat)
             /\ x.phase = "reconcile" => x \in Cut
             /\ x.phase = "append" => x \in Filled
  <1>1. rep[f].fetcher \in FetcherState
    BY ReplicaType
  <1>2. QED
    BY <1>1 DEF FetcherState, NoFetcher, Pinged, Live, Cut, Filled

LEMMA ReplicaFetchStep ==
  ASSUME IndInv, NEW f \in Brokers, ReplicaFetch(f)
  PROVE  IndInv'
  <1> DEFINE x == rep[f].fetcher
             l == x.leader
             r == [rep[l] EXCEPT !.match_offsets[f] = LogEnd(f),
                                 !.recent = IF LogEnd(f) >= LogEnd(l) THEN @ \cup {f} ELSE @]
             w == [x EXCEPT !.phase = "wait", !.data = LogEnd(f)]
  <1>1. x.phase = "fetch"
    BY DEF ReplicaFetch
  <1>2. x \in Live({"connect", "fetch"}, {<<>>})
    BY <1>1, FetcherKinds
  <1>3. l \in Brokers
    BY <1>2 DEF Live
  <1>4. LogEnd(f) \in Nat /\ LogEnd(l) \in 0 .. MaxRecords
    BY <1>3, ReplicaType, BoundsAssumption DEF BoundsAssumption
  <1>5. rep[l] \in Replica /\ rep[f] \in Replica /\ ~ rep[f].is_leader
    BY <1>1, <1>3, ReplicaType DEF Ended
  <1>6. w \in FetcherState /\ w.phase = "wait"
    <2>1. w \in Live({"wait"}, Nat) /\ w.phase = "wait"
      BY <1>2, <1>4 DEF Live
    <2> HIDE DEF w
    <2>2. QED
      BY <2>1 DEF FetcherState
  <1>7. UNCHANGED <<meta, alive, up, disk, late, produced, rt, faults>>
    BY DEF ReplicaFetch
  <1>8. /\ faults' \in [FaultKinds -> Nat] /\ faults.preemptions <= faults'.preemptions
        /\ UNCHANGED <<disk, late>> /\ produced' = produced
        /\ meta' \in Tuple /\ alive' \in SUBSET Brokers /\ up' \in SUBSET Brokers
        /\ rt' \in [Brokers -> Call]
    BY <1>7, SameFaults DEF IndInv, TypeInv
  <1>9. \/ /\ rep[l].is_leader
           /\ rep' = [rep EXCEPT ![l] = AdvanceHwm(l, r, LogEnd(l)), ![f].fetcher = w]
           /\ acked' = acked \cup Covered(l, r, LogEnd(l))
        \/ SetFetcher(f, Pinged) /\ acked' = acked
    BY DEF ReplicaFetch
  <1>10. CASE SetFetcher(f, Pinged) /\ acked' = acked
    <2>1. Pinged \in FetcherState /\ Pinged.phase \in Ended /\ Pinged.phase # "append"
      BY SpawnType DEF IndInv, TypeInv
    <2>2. UNCHANGED <<meta, alive, up, disk, late, produced>> /\ acked' \in SUBSET Pairs
      BY <1>7, <1>10 DEF IndInv, TypeInv
    <2>3. QED
      BY <1>8, <1>10, <2>1, <2>2, FetcherStep
  <1>11. CASE /\ rep[l].is_leader
              /\ rep' = [rep EXCEPT ![l] = AdvanceHwm(l, r, LogEnd(l)), ![f].fetcher = w]
              /\ acked' = acked \cup Covered(l, r, LogEnd(l))
    <2>1. r \in Replica /\ r.fetcher = rep[l].fetcher /\ r.is_leader
      <3> DEFINE mo == [rep[l].match_offsets EXCEPT ![f] = LogEnd(f)]
                 rc == IF LogEnd(f) >= LogEnd(l) THEN rep[l].recent \cup {f} ELSE rep[l].recent
      <3>1. mo \in [Brokers -> Nat] /\ rc \in SUBSET Brokers
        BY <1>4, <1>5 DEF Replica
      <3>2. r = [rep[l] EXCEPT !.match_offsets = mo, !.recent = rc]
        BY <1>5 DEF Replica
      <3> HIDE DEF mo, rc, r
      <3>3. QED
        BY <1>5, <1>11, <3>1, <3>2 DEF Replica
    <2> DEFINE n == AdvanceHwm(l, r, LogEnd(l))
    <2> HIDE DEF r
    <2>2. n \in Replica /\ n.fetcher = rep[l].fetcher
      BY <1>4, <2>1, AdvanceType
    <2>3. Covered(l, r, LogEnd(l)) \in SUBSET Pairs
      BY <1>4, <2>1, AdvanceType
    <2>4. acked' \in SUBSET Pairs
      BY <1>11, <2>3 DEF IndInv, TypeInv, r
    <2>5. rep' = [rep EXCEPT ![l] = n, ![f].fetcher = w]
      BY <1>11 DEF r
    <2>6. l # f
      BY <1>5, <1>11
    <2> DEFINE p == [rep[f] EXCEPT !.fetcher = w]
    <2>7. p \in Replica /\ p.fetcher = w /\ ~ p.is_leader
      <3> HIDE DEF w
      <3>1. QED
        BY <1>5, <1>6 DEF Replica
    <2>8. /\ rep'[l] = n /\ rep'[f] = p
          /\ \A c \in Brokers \ {l, f} : rep'[c] = rep[c]
          /\ DOMAIN rep' = Brokers
      <3> HIDE DEF n, w, x, l
      <3>1. rep \in [Brokers -> Replica]
        BY DEF IndInv, TypeInv
      <3>2. QED
        BY <3>1, <1>3, <2>5, <2>6
    <2> HIDE DEF n, p, w, l, x
    <2>9. rep' \in [Brokers -> Replica]
      <3>1. \A c \in Brokers : rep'[c] \in Replica
        BY <2>2, <2>7, <2>8 DEF IndInv, TypeInv
      <3>2. rep' = [c \in Brokers |-> rep'[c]]
        BY <2>5 DEF IndInv, TypeInv
      <3>3. QED
        BY <3>1, <3>2
    <2>10. \A c \in Brokers :
              /\ rep'[c].fetcher.phase = "append" => rep'[c].fetcher = rep[c].fetcher
              /\ rep'[c].is_leader => rep'[c].fetcher.phase \in Ended
      BY <2>2, <2>7, <2>8, <1>6, <1>3, <1>11 DEF IndInv, LeaderInv
    <2>11. QED
      BY <1>8, <2>4, <2>9, <2>10, MemoryStep
  <1>12. QED
    BY <1>9, <1>10, <1>11

\* What a step may do to the commands under way without writing a record.
LateKept ==
    /\ late' \in [Brokers -> SUBSET Command]
    /\ faults' \in [FaultKinds -> Nat]
    /\ faults'.preemptions = 0 => \A b \in Brokers : late'[b] = {}
    /\ \A b \in Brokers : late'[b] \cap LateWrite \subseteq late[b]
    /\ \A b \in Brokers : \A x \in late'[b] \ late[b] : x.cmd = "append" => Short(x.answer)

LEMMA SameLate ==
  ASSUME IndInv, late' = late, faults' \in [FaultKinds -> Nat],
         faults.preemptions <= faults'.preemptions
  PROVE  LateKept
  <1>1. faults.preemptions \in Nat /\ faults'.preemptions \in Nat
    BY Kinds DEF IndInv, TypeInv
  <1>2. faults'.preemptions = 0 => faults.preemptions = 0
    BY <1>1
  <1>3. QED
    BY <1>2 DEF LateKept, IndInv, TypeInv, LeaderInv

LEMMA LessLate ==
  ASSUME IndInv, NEW b \in Brokers, NEW c, late' = [late EXCEPT ![b] = @ \ {c}],
         faults' = faults
  PROVE  LateKept
  <1>1. late \in [Brokers -> SUBSET Command] /\ faults \in [FaultKinds -> Nat]
    BY DEF IndInv, TypeInv
  <1>2. late' \in [Brokers -> SUBSET Command] /\ \A a \in Brokers : late'[a] \subseteq late[a]
    BY <1>1
  <1>3. faults.preemptions = 0 => \A a \in Brokers : late[a] = {}
    BY DEF IndInv, LeaderInv
  <1>4. faults.preemptions = 0 => \A a \in Brokers : late'[a] = {}
    BY <1>2, <1>3
  <1>5. QED
    BY <1>1, <1>2, <1>4 DEF LateKept

LEMMA MoreLate ==
  ASSUME IndInv, NEW b \in Brokers, NEW c \in Command, Preempted,
         late' = [late EXCEPT ![b] = @ \cup {c}],
         c.cmd # "write", c.cmd = "append" => Short(c.answer)
  PROVE  LateKept
  <1>1. late \in [Brokers -> SUBSET Command] /\ faults.preemptions \in Nat
    BY Kinds DEF IndInv, TypeInv
  <1>2. late' \in [Brokers -> SUBSET Command]
    BY <1>1
  <1>3. \A a \in Brokers : \A y \in late'[a] \ late[a] : y = c
    BY <1>1
  <1>4. c \notin LateWrite
    BY DEF LateWrite
  <1>5. faults' \in [FaultKinds -> Nat] /\ faults'.preemptions = faults.preemptions + 1
    BY CountStep, Kinds DEF Preempted, IndInv, TypeInv
  <1>6. faults'.preemptions # 0
    BY <1>1, <1>5
  <1>7. \A a \in Brokers : late'[a] \cap LateWrite \subseteq late[a]
    BY <1>3, <1>4
  <1>8. QED
    BY <1>2, <1>3, <1>5, <1>6, <1>7 DEF LateKept

\* A step of one follower: its fetcher, its log, its checkpoint, its commands.
LEMMA FollowerStep ==
  ASSUME IndInv, NEW f \in Brokers, NEW x \in FetcherState, SetFetcher(f, x),
         UNCHANGED <<meta, alive, up, rt, produced, acked>>,
         NEW ls \in Seq(Ids), NEW es \in Seq(CheckpointEntry),
         log' = [log EXCEPT ![f] = ls], epochs' = [epochs EXCEPT ![f] = es],
         Len(ls) <= Cardinality(Written),
         \A i \in DOMAIN es : es[i].start <= Len(ls),
         LateKept,
         x.phase = "append" => x = rep[f].fetcher \/ Short(x),
         rep[f].is_leader => x.phase \in Ended
  PROVE  IndInv'
  <1>1. rep[f] \in Replica
    BY ReplicaType
  <1> DEFINE r == [rep[f] EXCEPT !.fetcher = x]
  <1>2. r \in Replica /\ r.fetcher = x /\ r.is_leader = rep[f].is_leader
    BY <1>1 DEF Replica
  <1>3. rep' = [rep EXCEPT ![f] = r]
    BY DEF SetFetcher
  <1> HIDE DEF r
  <1>4. /\ meta' \in Tuple /\ alive' \in SUBSET Brokers /\ up' \in SUBSET Brokers
        /\ rt' \in [Brokers -> Call] /\ acked' \in SUBSET Pairs /\ produced' = produced
        /\ log \in [Brokers -> Seq(Ids)] /\ epochs \in [Brokers -> Seq(CheckpointEntry)]
        /\ rep \in [Brokers -> Replica]
    BY DEF IndInv, TypeInv
  <1>5. /\ log' \in [Brokers -> Seq(Ids)] /\ epochs' \in [Brokers -> Seq(CheckpointEntry)]
        /\ rep' \in [Brokers -> Replica]
    BY <1>2, <1>3, <1>4
  <1>6. \A b \in Brokers : Len(log'[b]) <= Cardinality(Written)
    BY <1>4 DEF IndInv, LengthInv, LogEnd
  <1>7. StartInv'
    <2> SUFFICES ASSUME NEW c \in Brokers, NEW i \in DOMAIN epochs'[c]
                 PROVE  epochs'[c][i].start <= LogEnd(c)'
      BY DEF StartInv
    <2>1. CASE c = f
      BY <1>4, <2>1 DEF LogEnd
    <2>2. CASE c # f
      BY <1>4, <2>2 DEF LogEnd, IndInv, StartInv
    <2>3. QED
      BY <2>1, <2>2
  <1>8. rep'[f] = r /\ \A c \in Brokers \ {f} : rep'[c] = rep[c]
    BY <1>3, <1>4
  <1>9. \A b \in Brokers : rep[b].is_leader => rep[b].fetcher.phase \in Ended
    BY DEF IndInv, LeaderInv
  <1>10. \A b \in Brokers :
            /\ rep'[b].fetcher.phase = "append" =>
                  rep'[b].fetcher = rep[b].fetcher \/ Short(rep'[b].fetcher)
            /\ rep'[b].is_leader => rep'[b].fetcher.phase \in Ended
    BY <1>2, <1>8, <1>9
  <1>11. QED
    BY <1>4, <1>5, <1>6, <1>7, <1>10, DiskStep DEF LateKept

\* The same, when the disk stays as it is.
LEMMA FollowerRests ==
  ASSUME IndInv, NEW f \in Brokers, NEW x \in FetcherState, SetFetcher(f, x),
         UNCHANGED <<meta, alive, up, rt, produced, acked>>, UNCHANGED disk, LateKept,
         x.phase = "append" => x = rep[f].fetcher \/ Short(x),
         rep[f].is_leader => x.phase \in Ended
  PROVE  IndInv'
  <1>1. log \in [Brokers -> Seq(Ids)] /\ epochs \in [Brokers -> Seq(CheckpointEntry)]
    BY DEF IndInv, TypeInv
  <1>2. log' = [log EXCEPT ![f] = log[f]] /\ epochs' = [epochs EXCEPT ![f] = epochs[f]]
    BY <1>1 DEF disk
  <1>3. /\ log[f] \in Seq(Ids) /\ epochs[f] \in Seq(CheckpointEntry)
        /\ Len(log[f]) <= Cardinality(Written)
        /\ \A i \in DOMAIN epochs[f] : epochs[f][i].start <= Len(log[f])
    BY DiskType DEF LogEnd
  <1>4. QED
    BY <1>2, <1>3, FollowerStep

\* Cutting a log and its checkpoint.
LEMMA TruncateToValue ==
  ASSUME NEW es \in Seq(CheckpointEntry), NEW n \in Nat
  PROVE  /\ TruncateTo(es, n) \in Seq(CheckpointEntry)
         /\ \A i \in DOMAIN TruncateTo(es, n) : TruncateTo(es, n)[i].start < n
         /\ \A i \in DOMAIN TruncateTo(es, n) : \E j \in DOMAIN es : TruncateTo(es, n)[i] = es[j]
  <1> DEFINE obsolete == {i \in DOMAIN es : es[i].start >= n}
             m == Min(obsolete)
  <1>1. DOMAIN es = 1 .. Len(es) /\ Len(es) \in Nat
    OBVIOUS
  <1>2. \A i \in DOMAIN es : es[i].start \in Nat
    <2>1. \A i \in DOMAIN es : es[i] \in CheckpointEntry
      BY ElementOfSeq
    <2>2. QED
      BY <2>1 DEF CheckpointEntry
  <1>3. CASE obsolete = {}
    <2>1. TruncateTo(es, n) = es
      BY <1>3 DEF TruncateTo
    <2>2. \A i \in DOMAIN es : es[i].start < n
      BY <1>2, <1>3
    <2>3. \A i \in DOMAIN es : \E j \in DOMAIN es : es[i] = es[j]
      OBVIOUS
    <2>4. QED
      BY <2>1, <2>2, <2>3
  <1>4. CASE obsolete # {}
    <2>1. obsolete \in SUBSET Nat
      BY <1>1
    <2>2. m \in obsolete /\ \A i \in obsolete : m <= i
      BY <1>4, <2>1, MinIsLeast
    <2>3. m - 1 \in 0 .. Len(es) /\ m \in Nat
      BY <1>1, <2>2
    <2>4. TruncateTo(es, n) = SubSeq(es, 1, m - 1)
      BY <1>4 DEF TruncateTo
    <2> DEFINE k == m - 1
               s == SubSeq(es, 1, k)
    <2> HIDE DEF m
    <2>10. k \in 0 .. Len(es) /\ \A i \in 1 .. k : i < m /\ i \in Nat
      <3>1. k = m - 1 /\ m - 1 \in 0 .. Len(es)
        BY <2>3
      <3>2. k \in Nat /\ m = k + 1
        BY <2>3, <3>1, <1>1
      <3> HIDE DEF k
      <3>3. QED
        BY <3>1, <3>2
    <2> HIDE DEF k
    <2>5. s \in Seq(CheckpointEntry) /\ Len(s) = k
          /\ \A i \in 1 .. k : s[i] = es[i]
      BY <1>1, <2>10
    <2>6. \A i \in 1 .. k : i \in DOMAIN es /\ i \notin obsolete
      <3>1. \A i \in 1 .. k : i \in DOMAIN es
        BY <1>1, <2>10
      <3>2. \A i \in obsolete : ~ (i < m)
        BY <1>1, <2>2, <2>3
      <3>3. QED
        BY <3>1, <3>2, <2>10
    <2>7. \A i \in 1 .. k : es[i].start < n
      BY <1>2, <2>6
    <2> HIDE DEF s
    <2>8. DOMAIN s = 1 .. k
      BY <2>5
    <2>9. \A i \in DOMAIN s : \E j \in DOMAIN es : s[i] = es[j]
      BY <2>5, <2>6, <2>8
    <2>11. TruncateTo(es, n) = s
      BY <2>4 DEF s, k
    <2>12. QED
      BY <2>5, <2>7, <2>8, <2>9, <2>11
  <1>5. QED
    BY <1>3, <1>4

\* Truncating a replica leaves a disk that the invariant accepts.
LEMMA TruncateType ==
  ASSUME IndInv, NEW f \in Brokers, NEW n \in Nat, Truncate(f, n)
  PROVE  \E ls \in Seq(Ids), es \in Seq(CheckpointEntry) :
            /\ log' = [log EXCEPT ![f] = ls] /\ epochs' = [epochs EXCEPT ![f] = es]
            /\ Len(ls) <= Cardinality(Written)
            /\ \A i \in DOMAIN es : es[i].start <= Len(ls)
  <1>1. /\ log[f] \in Seq(Ids) /\ epochs[f] \in Seq(CheckpointEntry)
        /\ LogEnd(f) = Len(log[f]) /\ Len(log[f]) <= Cardinality(Written)
        /\ \A i \in DOMAIN epochs[f] : epochs[f][i].start <= Len(log[f])
    BY DiskType DEF LogEnd
  <1>2. CASE n < LogEnd(f)
    <2> DEFINE ls == SubSeq(log[f], 1, n)
               es == TruncateTo(epochs[f], n)
    <2>1. ls \in Seq(Ids) /\ Len(ls) = n
      BY <1>1, <1>2
    <2>2. es \in Seq(CheckpointEntry) /\ \A i \in DOMAIN es : es[i].start < n
      BY <1>1, TruncateToValue
    <2>3. \A i \in DOMAIN es : es[i].start \in Nat
      <3>1. \A i \in DOMAIN es : es[i] \in CheckpointEntry
        BY <2>2, ElementOfSeq
      <3>2. QED
        BY <3>1 DEF CheckpointEntry
    <2>4. log' = [log EXCEPT ![f] = ls] /\ epochs' = [epochs EXCEPT ![f] = es]
      BY <1>2 DEF Truncate
    <2>5. Cardinality(Written) \in Nat
      BY WrittenSize DEF IndInv, TypeInv
    <2> HIDE DEF ls, es
    <2>6. Len(ls) <= Cardinality(Written)
      BY <1>1, <1>2, <2>1, <2>5
    <2>7. \A i \in DOMAIN es : es[i].start <= Len(ls)
      BY <2>1, <2>2, <2>3
    <2>8. QED
      BY <2>1, <2>2, <2>4, <2>6, <2>7
  <1>3. CASE ~ (n < LogEnd(f))
    <2>1. log \in [Brokers -> Seq(Ids)] /\ epochs \in [Brokers -> Seq(CheckpointEntry)]
      BY DEF IndInv, TypeInv
    <2>2. log' = [log EXCEPT ![f] = log[f]] /\ epochs' = [epochs EXCEPT ![f] = epochs[f]]
      BY <1>3, <2>1 DEF Truncate, disk
    <2>3. QED
      BY <1>1, <2>2
  <1>4. QED
    BY <1>2, <1>3

\* The answer to EpochCheck is an offset.
LEMMA EndOffsetType ==
  ASSUME IndInv, NEW l \in Brokers, NEW e
  PROVE  EndOffsetFor(epochs[l], e, LogEnd(l)) \in Nat
  <1> DEFINE es == epochs[l]
             later == {i \in DOMAIN es : es[i].epoch > e}
  <1>1. /\ es \in Seq(CheckpointEntry) /\ LogEnd(l) \in Nat
        /\ \A i \in DOMAIN es : es[i].start \in Nat
    BY DiskType DEF CheckpointEntry
  <1>2. later \in SUBSET Nat /\ later \in SUBSET DOMAIN es
    BY <1>1
  <1> DEFINE m == Min(later)
  <1>3. later # {} => m \in DOMAIN es
    BY <1>2, MinIsLeast
  <1>4. EndOffsetFor(es, e, LogEnd(l)) \in {0, LogEnd(l)}
        \/ (later # {} /\ EndOffsetFor(es, e, LogEnd(l)) = es[m].start)
    BY DEF EndOffsetFor
  <1> HIDE DEF m, later
  <1>5. later # {} => es[m].start \in Nat
    BY <1>1, <1>3
  <1>6. EndOffsetFor(es, e, LogEnd(l)) \in Nat
    BY <1>1, <1>4, <1>5
  <1>7. QED
    BY <1>6

LEMMA EpochCheckStep ==
  ASSUME IndInv, NEW f \in Brokers, EpochCheck(f)
  PROVE  IndInv'
  <1> DEFINE x == rep[f].fetcher
             l == x.leader
             local == CurrentEpoch(epochs[f])
             end == EndOffsetFor(epochs[l], local, LogEnd(l))
             pull == Fetcher("fetch", l, x.epoch, local, <<>>)
             wait == Fetcher("reconcile", l, x.epoch, local, end)
  <1>1. x.phase = "connect"
    BY DEF EpochCheck
  <1>2. l \in Brokers /\ x.epoch \in Epochs
    <2>1. x \in Live({"connect", "fetch"}, {<<>>})
      BY <1>1, FetcherKinds
    <2>2. QED
      BY <2>1 DEF Live
  <1>3. ~ rep[f].is_leader
    BY <1>1, ReplicaType DEF Ended
  <1>4. local \in 0 .. MaxEpoch
    BY DiskType
  <1>5. end \in Nat
    BY <1>2, EndOffsetType
  <1>6. pull \in FetcherState /\ pull.phase = "fetch"
    <2>1. pull \in Live({"connect", "fetch"}, {<<>>}) /\ pull.phase = "fetch"
      BY <1>2, <1>4 DEF Live, Fetcher
    <2> HIDE DEF pull
    <2>2. QED
      BY <2>1 DEF FetcherState
  <1>7. wait \in FetcherState /\ wait.phase = "reconcile"
    <2>1. wait \in Cut /\ wait.phase = "reconcile"
      BY <1>2, <1>4, <1>5 DEF Live, Fetcher, Cut
    <2> HIDE DEF wait
    <2>2. QED
      BY <2>1 DEF FetcherState
  <1>8. /\ UNCHANGED <<meta, alive, up, rt, produced, acked>> /\ late' = late
        /\ \/ SetFetcher(f, Pinged) /\ UNCHANGED disk /\ faults' = faults
           \/ Truncate(f, end) /\ SetFetcher(f, pull) /\ Count(Miscut(f, l, end))
           \/ /\ Count({"delays"} \cup Miscut(f, l, end))
              /\ SetFetcher(f, wait) /\ UNCHANGED disk
    BY DEF EpochCheck
  <1>9. faults' \in [FaultKinds -> Nat] /\ faults.preemptions <= faults'.preemptions
    BY <1>8, SameFaults, MoreFaults
  <1>10. LateKept
    BY <1>8, <1>9, SameLate
  <1>11. Pinged \in FetcherState /\ Pinged.phase \in Ended /\ Pinged.phase # "append"
    BY SpawnType DEF IndInv, TypeInv
  <1> HIDE DEF x, l, local, end, pull, wait
  <1>12. CASE SetFetcher(f, Pinged) /\ UNCHANGED disk
    BY <1>8, <1>10, <1>11, <1>12, FollowerRests
  <1>13. CASE Truncate(f, end) /\ SetFetcher(f, pull)
    <2>1. PICK ls \in Seq(Ids), es \in Seq(CheckpointEntry) :
              /\ log' = [log EXCEPT ![f] = ls] /\ epochs' = [epochs EXCEPT ![f] = es]
              /\ Len(ls) <= Cardinality(Written)
              /\ \A i \in DOMAIN es : es[i].start <= Len(ls)
      BY <1>5, <1>13, TruncateType
    <2>2. QED
      BY <1>3, <1>6, <1>8, <1>10, <1>13, <2>1, FollowerStep
  <1>14. CASE SetFetcher(f, wait) /\ UNCHANGED disk
    BY <1>3, <1>7, <1>8, <1>10, <1>14, FollowerRests
  <1>15. QED
    BY <1>8, <1>12, <1>13, <1>14

LEMMA PullType ==
  ASSUME NEW x \in Cut \cup Filled
  PROVE  /\ Pull(x) \in FetcherState /\ Pull(x).phase = "fetch"
         /\ \A e \in 0 .. MaxEpoch : [Pull(x) EXCEPT !.local = e] \in FetcherState
         /\ \A e \in 0 .. MaxEpoch : [Pull(x) EXCEPT !.local = e].phase = "fetch"
  <1>1. Pull(x) \in Live({"connect", "fetch"}, {<<>>}) /\ Pull(x).phase = "fetch"
    BY DEF Pull, Cut, Filled, Live
  <1>2. \A e \in 0 .. MaxEpoch :
            /\ [Pull(x) EXCEPT !.local = e] \in Live({"connect", "fetch"}, {<<>>})
            /\ [Pull(x) EXCEPT !.local = e].phase = "fetch"
    BY <1>1 DEF Live
  <1>3. QED
    BY <1>1, <1>2 DEF FetcherState

LEMMA LateFetcherType ==
  ASSUME NEW x \in Cut \cup Filled
  PROVE  /\ [x EXCEPT !.phase = "late"] \in FetcherState
         /\ [x EXCEPT !.phase = "late"].phase = "late"
  <1>1. [x EXCEPT !.phase = "late"] \in Live({"late"}, Nat \cup Answer)
        /\ [x EXCEPT !.phase = "late"].phase = "late"
    BY DEF Cut, Filled, Live
  <1>2. QED
    BY <1>1 DEF FetcherState

LEMMA ReconcileStep ==
  ASSUME IndInv, NEW f \in Brokers, Reconcile(f)
  PROVE  IndInv'
  <1> DEFINE x == rep[f].fetcher
             c == [cmd |-> "truncate", answer |-> x]
             y == [x EXCEPT !.phase = "late"]
  <1>1. x.phase = "reconcile"
    BY DEF Reconcile
  <1>2. x \in Cut
    BY <1>1, FetcherKinds
  <1>3. x.data \in Nat
    BY <1>2 DEF Cut, Live
  <1>4. ~ rep[f].is_leader
    BY <1>1, ReplicaType DEF Ended
  <1>5. Pull(x) \in FetcherState /\ Pull(x).phase = "fetch"
    BY <1>2, PullType
  <1>6. y \in FetcherState /\ y.phase = "late"
    BY <1>2, LateFetcherType
  <1>7. c \in Command /\ c.cmd = "truncate"
    BY <1>2 DEF Command
  <1>8. /\ UNCHANGED <<meta, alive, up, rt, produced, acked>>
        /\ \/ Truncate(f, x.data) /\ SetFetcher(f, Pull(x)) /\ late' = late /\ faults' = faults
           \/ /\ Preempted /\ late' = [late EXCEPT ![f] = @ \cup {c}]
              /\ SetFetcher(f, y) /\ UNCHANGED disk
    BY DEF Reconcile
  <1> HIDE DEF x, c, y
  <1>9. CASE Truncate(f, x.data) /\ SetFetcher(f, Pull(x)) /\ late' = late /\ faults' = faults
    <2>1. LateKept
      BY <1>9, SameFaults, SameLate
    <2>2. PICK ls \in Seq(Ids), es \in Seq(CheckpointEntry) :
              /\ log' = [log EXCEPT ![f] = ls] /\ epochs' = [epochs EXCEPT ![f] = es]
              /\ Len(ls) <= Cardinality(Written)
              /\ \A i \in DOMAIN es : es[i].start <= Len(ls)
      BY <1>3, <1>9, TruncateType
    <2>3. QED
      BY <1>4, <1>5, <1>8, <1>9, <2>1, <2>2, FollowerStep
  <1>10. CASE /\ Preempted /\ late' = [late EXCEPT ![f] = @ \cup {c}]
              /\ SetFetcher(f, y) /\ UNCHANGED disk
    <2>1. LateKept
      BY <1>7, <1>10, MoreLate
    <2>2. QED
      BY <1>4, <1>6, <1>8, <1>10, <2>1, FollowerRests
  <1>11. QED
    BY <1>8, <1>9, <1>10

\* Appending an answer leaves a disk and a fetcher that the invariant accepts.
LEMMA AppendType ==
  ASSUME IndInv, NEW f \in Brokers, NEW x \in Filled, Short(x), AppendReplicated(f, x)
  PROVE  \E ls \in Seq(Ids), es \in Seq(CheckpointEntry), y \in FetcherState :
            /\ log' = [log EXCEPT ![f] = ls] /\ epochs' = [epochs EXCEPT ![f] = es]
            /\ SetFetcher(f, y)
            /\ Len(ls) <= Cardinality(Written)
            /\ \A i \in DOMAIN es : es[i].start <= Len(ls)
            /\ y.phase = "append" => y = rep[f].fetcher
            /\ rep[f].is_leader => y.phase \in Ended
  <1>1. /\ log[f] \in Seq(Ids) /\ epochs[f] \in Seq(CheckpointEntry)
        /\ LogEnd(f) = Len(log[f]) /\ LogEnd(f) \in Nat
        /\ LogEnd(f) <= Cardinality(Written)
        /\ \A i \in DOMAIN epochs[f] : epochs[f][i].start <= LogEnd(f)
    BY DiskType
  <1>2. x.data \in Answer /\ x.epoch \in Epochs /\ x.local \in 0 .. MaxEpoch
    BY DEF Filled, Live
  <1>3. /\ x.data.from \in Nat /\ x.data.records \in Seq(Ids)
        /\ x.data.from + Len(x.data.records) <= Cardinality(Written)
    BY <1>2 DEF Answer, Short
  <1> DEFINE recs == x.data.records
             fits == recs = <<>> \/ x.data.from = LogEnd(f)
             ls == IF fits THEN log[f] \o recs ELSE log[f]
             es == IF x.epoch > x.local THEN RecordEpoch(epochs[f], x.epoch, LogEnd(f))
                   ELSE epochs[f]
             mine == rep[f].fetcher.phase \notin Ended /\ rep[f].fetcher.epoch = x.epoch
             top == Max({x.local, x.epoch})
             y == IF ~ mine THEN rep[f].fetcher
                  ELSE IF fits THEN [Pull(x) EXCEPT !.local = top] ELSE NoFetcher
  <1>4. ls \in Seq(Ids) /\ LogEnd(f) <= Len(ls) /\ Len(ls) <= Cardinality(Written)
    <2>1. Cardinality(Written) \in Nat
      BY WrittenSize DEF IndInv, TypeInv
    <2>2. (log[f] \o recs) \in Seq(Ids) /\ Len(log[f] \o recs) = LogEnd(f) + Len(recs)
          /\ Len(recs) \in Nat
      BY <1>1, <1>3
    <2>3. recs = <<>> => Len(recs) = 0
      OBVIOUS
    <2>4. CASE fits
      <3>1. x.data.from + Len(recs) <= Cardinality(Written)
        BY <1>3
      <3>2. recs = <<>> \/ x.data.from = LogEnd(f)
        BY <2>4
      <3>3. ls = log[f] \o recs
        BY <2>4
      <3> DEFINE n == Len(recs)
                 m == Cardinality(Written)
                 e == LogEnd(f)
      <3>4. n \in Nat /\ m \in Nat /\ e \in Nat /\ e <= m
        BY <1>1, <2>1, <2>2
      <3>5. n = 0 \/ e + n <= m
        BY <2>3, <3>1, <3>2
      <3> HIDE DEF n, m, e, ls, recs
      <3>6. e <= e + n /\ e + n <= m
        BY <3>4, <3>5
      <3>7. QED
        BY <2>2, <3>3, <3>6 DEF n, m, e
    <2>5. CASE ~ fits
      BY <1>1, <2>5
    <2>6. QED
      BY <2>4, <2>5
  <1>5. es \in Seq(CheckpointEntry) /\ \A i \in DOMAIN es : es[i].start <= LogEnd(f)
    BY <1>1, <1>2, RecordType
  <1>6. top \in 0 .. MaxEpoch
    <2>1. x.local \in Nat /\ x.epoch \in Nat /\ x.epoch \in 0 .. MaxEpoch
      BY <1>2, BoundsAssumption DEF Epochs, BoundsAssumption
    <2> DEFINE a == x.local
               b == x.epoch
    <2> HIDE DEF a, b
    <2>2. Max({a, b}) \in {a, b}
      BY <2>1, MaxOfTwo DEF a, b
    <2>3. QED
      BY <1>2, <2>1, <2>2 DEF a, b
  <1>7. /\ y \in FetcherState /\ (y.phase = "append" => y = rep[f].fetcher)
        /\ rep[f].is_leader => y.phase \in Ended
    <2>1. /\ rep[f].fetcher \in FetcherState
          /\ rep[f].is_leader => rep[f].fetcher.phase \in Ended
      BY ReplicaType
    <2>2. /\ NoFetcher \in FetcherState /\ NoFetcher.phase \in Ended
          /\ NoFetcher.phase # "append"
      BY SpawnType DEF IndInv, TypeInv
    <2> DEFINE z == [Pull(x) EXCEPT !.local = top]
    <2>3. z \in FetcherState /\ z.phase = "fetch"
      BY <1>6, PullType
    <2> HIDE DEF z, top, fits
    <2>4. y = IF ~ mine THEN rep[f].fetcher ELSE IF fits THEN z ELSE NoFetcher
      BY DEF z
    <2>5. CASE ~ mine
      BY <2>1, <2>4, <2>5
    <2>6. CASE mine
      <3>1. ~ rep[f].is_leader
        BY <2>1, <2>6
      <3>2. QED
        BY <2>2, <2>3, <2>4, <2>6, <3>1
    <2>7. QED
      BY <2>5, <2>6
  <1>8. log' = [log EXCEPT ![f] = ls] /\ epochs' = [epochs EXCEPT ![f] = es]
    BY DEF AppendReplicated
  <1>9. SetFetcher(f, y)
    BY DEF AppendReplicated, SetFetcher
  <1> HIDE DEF ls, es, y
  <1>10. \A i \in DOMAIN es : es[i].start <= Len(ls)
    <2>1. \A i \in DOMAIN es : es[i].start \in Nat
      <3>1. \A i \in DOMAIN es : es[i] \in CheckpointEntry
        BY <1>5, ElementOfSeq
      <3>2. QED
        BY <3>1 DEF CheckpointEntry
    <2>2. Len(ls) \in Nat
      BY <1>4
    <2>3. QED
      BY <1>1, <1>4, <1>5, <2>1, <2>2
  <1>11. QED
    BY <1>4, <1>5, <1>7, <1>8, <1>9, <1>10

\* A step that appends an answer keeps the invariant.
LEMMA AppendStep ==
  ASSUME IndInv, NEW f \in Brokers, NEW x \in Filled, Short(x), AppendReplicated(f, x),
         UNCHANGED <<meta, alive, up, rt, produced, acked>>, LateKept
  PROVE  IndInv'
  <1>1. PICK ls \in Seq(Ids), es \in Seq(CheckpointEntry), y \in FetcherState :
            /\ log' = [log EXCEPT ![f] = ls] /\ epochs' = [epochs EXCEPT ![f] = es]
            /\ SetFetcher(f, y)
            /\ Len(ls) <= Cardinality(Written)
            /\ \A i \in DOMAIN es : es[i].start <= Len(ls)
            /\ y.phase = "append" => y = rep[f].fetcher
            /\ rep[f].is_leader => y.phase \in Ended
    BY AppendType
  <1>2. QED
    BY <1>1, FollowerStep

LEMMA ReplicaReadStep ==
  ASSUME IndInv, NEW f \in Brokers, ReplicaRead(f)
  PROVE  IndInv'
  <1> DEFINE x == rep[f].fetcher
             l == x.leader
             recs == SubSeq(log[l], x.data + 1, LogEnd(l))
             data == [from |-> x.data, records |-> recs]
             answer == [x EXCEPT !.phase = "append", !.data = data]
  <1>1. x.phase = "wait"
    BY DEF ReplicaRead
  <1>2. x \in Live({"wait"}, Nat)
    BY <1>1, FetcherKinds
  <1>3. l \in Brokers /\ x.data \in Nat
    BY <1>2 DEF Live
  <1>4. ~ rep[f].is_leader
    BY <1>1, ReplicaType DEF Ended
  <1>5. /\ log[l] \in Seq(Ids) /\ LogEnd(l) \in Nat /\ LogEnd(l) = Len(log[l])
        /\ LogEnd(l) <= Cardinality(Written)
    BY <1>3, DiskType
  <1>6. ASSUME x.data <= LogEnd(l)
        PROVE  /\ answer \in Filled /\ answer \in FetcherState
               /\ answer.phase = "append" /\ Short(answer)
    <2>1. recs \in Seq(Ids) /\ Len(recs) = LogEnd(l) - x.data
      BY <1>3, <1>5, <1>6
    <2>2. data \in Answer
      BY <1>3, <2>1 DEF Answer
    <2>3. data.from + Len(data.records) <= Cardinality(Written)
      BY <1>3, <1>5, <2>1
    <2> HIDE DEF data
    <2>4. answer \in Filled /\ answer.phase = "append" /\ answer.data = data
      BY <1>2, <2>2 DEF Filled, Live
    <2>5. Short(answer)
      BY <2>3, <2>4 DEF Short
    <2> HIDE DEF answer
    <2>6. QED
      BY <2>4, <2>5 DEF FetcherState
  <1>7. /\ UNCHANGED <<meta, alive, up, rt, produced, acked>> /\ late' = late
        /\ \/ SetFetcher(f, Pinged) /\ UNCHANGED disk /\ faults' = faults
           \/ x.data <= LogEnd(l) /\ AppendReplicated(f, answer) /\ faults' = faults
           \/ x.data <= LogEnd(l) /\ Delayed /\ SetFetcher(f, answer) /\ UNCHANGED disk
    BY DEF ReplicaRead
  <1>8. faults' \in [FaultKinds -> Nat] /\ faults.preemptions <= faults'.preemptions
    BY <1>7, SameFaults, MoreFaults DEF Delayed
  <1>9. LateKept
    BY <1>7, <1>8, SameLate
  <1>10. Pinged \in FetcherState /\ Pinged.phase \in Ended /\ Pinged.phase # "append"
    BY SpawnType DEF IndInv, TypeInv
  <1> HIDE DEF x, l, recs, data, answer
  <1>11. CASE SetFetcher(f, Pinged) /\ UNCHANGED disk
    BY <1>7, <1>9, <1>10, <1>11, FollowerRests
  <1>12. CASE x.data <= LogEnd(l) /\ AppendReplicated(f, answer)
    BY <1>6, <1>7, <1>9, <1>12, AppendStep
  <1>13. CASE x.data <= LogEnd(l) /\ SetFetcher(f, answer) /\ UNCHANGED disk
    BY <1>4, <1>6, <1>7, <1>9, <1>13, FollowerRests
  <1>14. QED
    BY <1>7, <1>11, <1>12, <1>13

LEMMA ReplicaAppendStep ==
  ASSUME IndInv, NEW f \in Brokers, ReplicaAppend(f)
  PROVE  IndInv'
  <1> DEFINE x == rep[f].fetcher
             c == [cmd |-> "append", answer |-> x]
             y == [x EXCEPT !.phase = "late"]
  <1>1. x.phase = "append"
    BY DEF ReplicaAppend
  <1>2. x \in Filled /\ Short(x)
    BY <1>1, FetcherKinds DEF IndInv, LengthInv
  <1>3. ~ rep[f].is_leader
    BY <1>1, ReplicaType DEF Ended
  <1>4. y \in FetcherState /\ y.phase = "late"
    BY <1>2, LateFetcherType
  <1>5. c \in Command /\ c.cmd = "append" /\ c.answer = x
    BY <1>2 DEF Command
  <1>6. /\ UNCHANGED <<meta, alive, up, rt, produced, acked>>
        /\ \/ AppendReplicated(f, x) /\ late' = late /\ faults' = faults
           \/ /\ Preempted /\ late' = [late EXCEPT ![f] = @ \cup {c}]
              /\ SetFetcher(f, y) /\ UNCHANGED disk
    BY DEF ReplicaAppend
  <1> HIDE DEF x, c, y
  <1>7. CASE AppendReplicated(f, x) /\ late' = late /\ faults' = faults
    <2>1. LateKept
      BY <1>7, SameFaults, SameLate
    <2>2. QED
      BY <1>2, <1>6, <1>7, <2>1, AppendStep
  <1>8. CASE /\ Preempted /\ late' = [late EXCEPT ![f] = @ \cup {c}]
             /\ SetFetcher(f, y) /\ UNCHANGED disk
    <2>1. LateKept
      BY <1>2, <1>5, <1>8, MoreLate
    <2>2. QED
      BY <1>3, <1>4, <1>6, <1>8, <2>1, FollowerRests
  <1>9. QED
    BY <1>6, <1>7, <1>8

------------------------------------------------------------------------------
(* Writes *)

\* A write of the only record of its produce call.
LEMMA WriteStep ==
  ASSUME IndInv, NEW b \in Brokers, NEW v \in Ids, NEW all \in BOOLEAN, Write(b, v, all),
         UNCHANGED <<meta, alive, up, epochs, rt, acked>>,
         produced' \in 0 .. MaxRecords, faults' = faults,
         late' \in [Brokers -> SUBSET Command],
         \A c \in Brokers : late'[c] \subseteq late[c],
         LateInv', v \notin Written, Written' = Written \cup {v}
  PROVE  IndInv'
  <1>1. /\ log[b] \in Seq(Ids) /\ LogEnd(b) \in Nat /\ LogEnd(b) = Len(log[b])
        /\ log \in [Brokers -> Seq(Ids)]
    BY DiskType DEF IndInv, TypeInv
  <1>2. LogEnd(b) \in 0 .. MaxRecords /\ rep[b] \in Replica
    BY ReplicaType
  <1>3. Cardinality(Written') = Cardinality(Written) + 1 /\ Cardinality(Written) \in Nat
    BY WrittenSize, FS_AddElement DEF IndInv, TypeInv
  <1> DEFINE ls == Append(log[b], v)
             p == IF all THEN rep[b].appended \cup {<<LogEnd(b), v>>} ELSE rep[b].appended
             r == [rep[b] EXCEPT !.appended = p]
  <1>4. ls \in Seq(Ids) /\ Len(ls) = LogEnd(b) + 1
    BY <1>1
  <1>5. p \in SUBSET Pairs
    BY <1>2 DEF Pairs, Ids, Replica
  <1>6. r \in Replica /\ r.fetcher = rep[b].fetcher /\ r.is_leader = rep[b].is_leader
    <2> HIDE DEF p
    <2>1. QED
      BY <1>2, <1>5 DEF Replica
  <1>7. log' = [log EXCEPT ![b] = ls] /\ rep' = [rep EXCEPT ![b] = r]
    BY DEF Write
  <1> HIDE DEF ls, p, r
  <1>8. /\ log' \in [Brokers -> Seq(Ids)] /\ rep' \in [Brokers -> Replica]
        /\ rep \in [Brokers -> Replica]
    BY <1>1, <1>4, <1>6, <1>7 DEF IndInv, TypeInv
  <1>9. TypeInv'
    BY <1>8 DEF IndInv, TypeInv
  <1>10. \A c \in Brokers : rep'[c].fetcher = rep[c].fetcher /\ rep'[c].is_leader = rep[c].is_leader
    BY <1>6, <1>7, <1>8
  <1>11. \A c \in Brokers : LogEnd(c)' <= LogEnd(c) + 1 /\ LogEnd(c) <= LogEnd(c)'
    <2> SUFFICES ASSUME NEW c \in Brokers
                 PROVE  LogEnd(c)' <= LogEnd(c) + 1 /\ LogEnd(c) <= LogEnd(c)'
      OBVIOUS
    <2>1. LogEnd(c) \in Nat
      BY DiskType
    <2>2. c = b => LogEnd(c)' = LogEnd(c) + 1
      BY <1>1, <1>4, <1>7 DEF LogEnd
    <2>3. c # b => LogEnd(c)' = LogEnd(c)
      BY <1>1, <1>7 DEF LogEnd
    <2>4. QED
      BY <2>1, <2>2, <2>3
  <1>12. \A x \in Filled : Short(x) =>
              x.data.from + Len(x.data.records) <= Cardinality(Written')
    <2> SUFFICES ASSUME NEW x \in Filled, Short(x)
                 PROVE  x.data.from + Len(x.data.records) <= Cardinality(Written')
      OBVIOUS
    <2>1. x.data \in Answer
      BY DEF Filled, Live
    <2>2. x.data.from \in Nat /\ Len(x.data.records) \in Nat
      BY <2>1 DEF Answer
    <2>3. QED
      BY <1>3, <2>2 DEF Short
  <1>13. LengthInv'
    <2>1. \A c \in Brokers : LogEnd(c)' <= Cardinality(Written')
      <3> SUFFICES ASSUME NEW c \in Brokers PROVE LogEnd(c)' <= Cardinality(Written')
        OBVIOUS
      <3>1. LogEnd(c) \in Nat /\ LogEnd(c) <= Cardinality(Written)
        BY DiskType
      <3>2. LogEnd(c)' \in Nat
        BY <1>8 DEF LogEnd
      <3>3. QED
        BY <1>3, <1>11, <3>1, <3>2
    <2>2. \A c \in Brokers : (rep[c].fetcher.phase = "append" => Short(rep[c].fetcher))'
      <3> SUFFICES ASSUME NEW c \in Brokers, rep'[c].fetcher.phase = "append"
                   PROVE  Short(rep[c].fetcher)'
        OBVIOUS
      <3>1. rep[c].fetcher \in Filled /\ Short(rep[c].fetcher)
        BY <1>10, FetcherKinds DEF IndInv, LengthInv
      <3>2. QED
        BY <1>10, <1>12, <3>1 DEF Short
    <2>3. \A c \in Brokers : \A x \in late'[c] : x.cmd = "append" => Short(x.answer)'
      <3> SUFFICES ASSUME NEW c \in Brokers, NEW x \in late'[c], x.cmd = "append"
                   PROVE  Short(x.answer)'
        OBVIOUS
      <3>1. x \in Command /\ x \in late[c]
        OBVIOUS
      <3>2. x.answer \in Filled /\ Short(x.answer)
        BY <3>1 DEF Command, LateWrite, IndInv, LengthInv
      <3>3. QED
        BY <1>12, <3>2 DEF Short
    <2>4. QED
      BY <2>1, <2>2, <2>3 DEF LengthInv
  <1>14. StartInv'
    <2> SUFFICES ASSUME NEW c \in Brokers, NEW i \in DOMAIN epochs[c]
                 PROVE  epochs[c][i].start <= LogEnd(c)'
      BY DEF StartInv
    <2>1. epochs[c][i].start <= LogEnd(c) /\ epochs[c][i].start \in Nat /\ LogEnd(c) \in Nat
      BY DiskType DEF CheckpointEntry
    <2>2. LogEnd(c)' \in Nat
      BY <1>8 DEF LogEnd
    <2>3. QED
      BY <1>11, <2>1, <2>2
  <1>15. LeaderInv'
    BY <1>10 DEF IndInv, LeaderInv
  <1>16. QED
    BY <1>9, <1>13, <1>14, <1>15 DEF IndInv

LEMMA ProduceStep ==
  ASSUME IndInv, NEW b \in Brokers, NEW all \in BOOLEAN, Produce(b, all)
  PROVE  IndInv'
  <1> DEFINE v == produced + 1
  <1>1. produced \in 0 .. MaxRecords /\ produced \in Nat /\ produced < MaxRecords
    BY BoundsAssumption DEF Produce, IndInv, TypeInv, BoundsAssumption
  <1>2. produced' = v /\ v \in Ids /\ v \in 0 .. MaxRecords
    BY <1>1, BoundsAssumption DEF Produce, BoundsAssumption, Ids
  <1>3. \A c \in Brokers : \A x \in late[c] :
            x.cmd = "write" => x \in LateWrite /\ x.value \in Nat /\ x.value <= produced
    <2> SUFFICES ASSUME NEW c \in Brokers, NEW x \in late[c], x.cmd = "write"
                 PROVE  x \in LateWrite /\ x.value \in Nat /\ x.value <= produced
      OBVIOUS
    <2>1. x \in Command
      BY DEF IndInv, TypeInv
    <2>2. x \in LateWrite
      BY <2>1 DEF Command, LateWrite
    <2>3. x.value \in Nat
      BY <2>2 DEF LateWrite, Ids
    <2>4. QED
      BY <2>2, <2>3 DEF IndInv, LateInv
  <1>4. \A w \in Waiting : w <= produced /\ w \in Nat
    BY <1>3 DEF Waiting, LateWrite
  <1>5. v \notin Written /\ v \notin Waiting
    BY <1>1, <1>4 DEF Written
  <1>6. UNCHANGED <<meta, alive, up, epochs, rt, acked>>
    BY DEF Produce
  <1>7. CASE Write(b, v, all) /\ late' = late /\ faults' = faults
    <2>1. Waiting' = Waiting
      BY <1>7 DEF Waiting
    <2>2. Written' = Written \cup {v}
      BY <1>1, <1>2, <1>4, <2>1 DEF Written
    <2>3. LateInv'
      BY <1>1, <1>2, <1>3, <1>7 DEF IndInv, LateInv
    <2>4. late' \in [Brokers -> SUBSET Command] /\ \A c \in Brokers : late'[c] \subseteq late[c]
      BY <1>7 DEF IndInv, TypeInv
    <2> HIDE DEF v
    <2>5. QED
      BY <1>2, <1>5, <1>6, <1>7, <2>2, <2>3, <2>4, WriteStep
  <1> DEFINE w == [cmd |-> "write", value |-> v, all |-> all]
  <1>8. CASE /\ Preempted /\ late' = [late EXCEPT ![b] = @ \cup {w}]
             /\ log' = log /\ rep' = rep
    <2>1. w \in LateWrite /\ w.value = v /\ w.cmd = "write"
      BY <1>2 DEF LateWrite
    <2>2. w \in Command
      BY <2>1 DEF Command
    <2>3. late \in [Brokers -> SUBSET Command]
      BY DEF IndInv, TypeInv
    <2> HIDE DEF v, w
    <2>4. late' \in [Brokers -> SUBSET Command]
      BY <1>8, <2>2, <2>3
    <2>5. \A c \in Brokers : \A x \in late'[c] : x \in late[c] \/ (x = w /\ c = b)
      BY <1>8, <2>3
    <2>6. \A c \in Brokers : late[c] \subseteq late'[c]
      BY <1>8, <2>3
    <2>7. w \in late'[b]
      BY <1>8, <2>3
    <2>8. Waiting' = Waiting \cup {v}
      BY <2>1, <2>5, <2>6, <2>7 DEF Waiting
    <2>9. Written' = Written
      BY <1>1, <1>2, <1>4, <2>8 DEF Written, v
    <2>10. faults' \in [FaultKinds -> Nat] /\ faults'.preemptions # 0
      <3>1. faults \in [FaultKinds -> Nat] /\ faults.preemptions \in Nat
        BY Kinds DEF IndInv, TypeInv
      <3>2. faults'.preemptions = faults.preemptions + 1 /\ faults' \in [FaultKinds -> Nat]
        BY <1>8, <3>1, CountStep, Kinds DEF Preempted
      <3>3. QED
        BY <3>1, <3>2
    <2>11. TypeInv'
      BY <1>2, <1>6, <1>8, <2>4, <2>10 DEF IndInv, TypeInv
    <2>12. LateInv'
      <3> SUFFICES ASSUME NEW c \in Brokers, NEW d \in Brokers,
                          NEW x \in late'[c], NEW y \in late'[d],
                          x.cmd = "write", y.cmd = "write"
                   PROVE  x.value <= produced' /\ (x.value = y.value => c = d /\ x = y)
        BY DEF LateInv
      <3>1. v = produced + 1
        BY DEF v
      <3>2. (x \in late[c] /\ x.value <= produced /\ x.value \in Nat) \/ (x = w /\ c = b)
        BY <1>3, <2>5
      <3>3. (y \in late[d] /\ y.value <= produced /\ y.value \in Nat) \/ (y = w /\ d = b)
        BY <1>3, <2>5
      <3>4. x.value <= produced'
        BY <1>1, <1>2, <2>1, <3>1, <3>2
      <3>5. CASE x \in late[c] /\ y \in late[d]
        BY <3>4, <3>5 DEF IndInv, LateInv
      <3>6. CASE x \in late[c] /\ x.value <= produced /\ x.value \in Nat /\ y = w
        BY <1>1, <2>1, <3>1, <3>4, <3>6
      <3>7. CASE y \in late[d] /\ y.value <= produced /\ y.value \in Nat /\ x = w
        BY <1>1, <2>1, <3>1, <3>4, <3>7
      <3>8. CASE x = w /\ c = b /\ y = w /\ d = b
        BY <3>4, <3>8
      <3>9. QED
        BY <3>2, <3>3, <3>5, <3>6, <3>7, <3>8
    <2>13. LengthInv'
      <3>1. \A c \in Brokers : \A x \in late'[c] : x.cmd = "append" => x \in late[c]
        BY <2>1, <2>5
      <3>2. QED
        BY <1>8, <2>9, <3>1 DEF IndInv, LengthInv, LogEnd, Short
    <2>14. StartInv' /\ LeaderInv'
      BY <1>6, <1>8, <2>10 DEF IndInv, StartInv, LeaderInv, LogEnd
    <2>15. QED
      BY <2>11, <2>12, <2>13, <2>14 DEF IndInv
  <1>9. QED
    BY <1>2, <1>7, <1>8 DEF Produce

------------------------------------------------------------------------------
(* Preempted senders, crashes *)

LEMMA RunLateStep ==
  ASSUME IndInv, NEW b \in Brokers, NEW c \in late[b], RunLate(b, c)
  PROVE  IndInv'
  <1>1. c \in Command
    BY DEF IndInv, TypeInv
  <1>2. /\ late' = [late EXCEPT ![b] = @ \ {c}] /\ faults' = faults
        /\ UNCHANGED <<meta, alive, up, rt, produced, acked>>
    BY DEF RunLate
  <1>3. LateKept
    BY <1>2, LessLate
  <1>4. /\ rep[b].fetcher \in FetcherState
        /\ rep[b].is_leader => rep[b].fetcher.phase \in Ended
    BY ReplicaType
  <1>5. SetFetcher(b, rep[b].fetcher) \/ rep' # rep
    BY ReplicaType DEF SetFetcher, IndInv, TypeInv, Replica
  <1>6. CASE c.cmd = "epoch"
    <2>1. c.epoch \in Epochs
      BY <1>1, <1>6 DEF Command, LateWrite
    <2>2. /\ epochs' = [epochs EXCEPT ![b] = RecordEpoch(@, c.epoch, LogEnd(b))]
          /\ log' = log /\ rep' = rep
      BY <1>6 DEF RunLate
    <2> DEFINE es == RecordEpoch(epochs[b], c.epoch, LogEnd(b))
    <2>3. /\ log[b] \in Seq(Ids) /\ epochs[b] \in Seq(CheckpointEntry)
          /\ LogEnd(b) \in Nat /\ LogEnd(b) = Len(log[b]) /\ LogEnd(b) <= Cardinality(Written)
          /\ \A i \in DOMAIN epochs[b] : epochs[b][i].start <= LogEnd(b)
      BY DiskType
    <2>4. es \in Seq(CheckpointEntry) /\ \A i \in DOMAIN es : es[i].start <= LogEnd(b)
      BY <2>1, <2>3, RecordType
    <2>5. log' = [log EXCEPT ![b] = log[b]] /\ epochs' = [epochs EXCEPT ![b] = es]
      BY <2>2 DEF IndInv, TypeInv
    <2>6. SetFetcher(b, rep[b].fetcher)
      BY <1>5, <2>2
    <2> HIDE DEF es
    <2>7. Len(log[b]) <= Cardinality(Written) /\ \A i \in DOMAIN es : es[i].start <= Len(log[b])
      BY <2>3, <2>4
    <2>8. QED
      BY <1>2, <1>3, <1>4, <2>3, <2>4, <2>5, <2>6, <2>7, FollowerStep
  <1>7. CASE c.cmd = "write"
    <2>1. c \in LateWrite
      BY <1>1, <1>7 DEF Command, LateWrite
    <2> DEFINE v == c.value
    <2>2. v \in Ids /\ c.all \in BOOLEAN
      BY <2>1 DEF LateWrite
    <2>3. Write(b, v, c.all) /\ epochs' = epochs
      BY <1>7 DEF RunLate
    <2>4. late \in [Brokers -> SUBSET Command] /\ produced \in 0 .. MaxRecords
      BY DEF IndInv, TypeInv
    <2>5. late' \in [Brokers -> SUBSET Command]
      BY <1>3 DEF LateKept
    <2>6. \A a \in Brokers : late'[a] \subseteq late[a]
      BY <1>2, <2>4
    <2>7. LateInv'
      BY <1>2, <2>6 DEF IndInv, LateInv
    <2>8. v \in Waiting
      BY <2>1, <2>4 DEF Waiting
    <2>9. v <= produced
      BY <1>7 DEF IndInv, LateInv
    <2>10. Waiting' = Waiting \ {v}
      <3>1. \A a \in Brokers : \A x \in late[a] \cap LateWrite : x.value = v => a = b /\ x = c
        BY <1>7 DEF IndInv, LateInv, LateWrite
      <3>2. \A a \in Brokers : \A x \in late'[a] \cap LateWrite : x.value # v
        BY <1>2, <2>4, <2>6, <3>1
      <3>3. Waiting' \subseteq Waiting \ {v}
        BY <2>6, <3>2 DEF Waiting
      <3>4. \A a \in Brokers : \A x \in late[a] \cap LateWrite : x.value # v => x \in late'[a]
        BY <1>2, <2>4
      <3>5. Waiting \ {v} \subseteq Waiting'
        BY <3>4 DEF Waiting
      <3>6. QED
        BY <3>3, <3>5
    <2>11. v \notin Written /\ Written' = Written \cup {v}
      <3>1. v \in 1 .. produced
        BY <2>2, <2>4, <2>9, BoundsAssumption DEF Ids, BoundsAssumption
      <3> HIDE DEF v
      <3>2. QED
        BY <1>2, <2>8, <2>10, <3>1 DEF Written
    <2>12. produced' \in 0 .. MaxRecords
      BY <1>2, <2>4
    <2> HIDE DEF v
    <2>13. QED
      BY <1>2, <2>2, <2>3, <2>5, <2>6, <2>7, <2>11, <2>12, WriteStep
  <1>8. CASE c.cmd = "truncate"
    <2>1. c.answer \in Cut
      BY <1>1, <1>8 DEF Command, LateWrite
    <2>2. c.answer.data \in Nat
      BY <2>1 DEF Cut, Live
    <2>3. /\ Truncate(b, c.answer.data)
          /\ IF rep[b].fetcher.phase = "late" THEN SetFetcher(b, Pull(c.answer)) ELSE rep' = rep
      BY <1>8 DEF RunLate
    <2>4. PICK ls \in Seq(Ids), es \in Seq(CheckpointEntry) :
              /\ log' = [log EXCEPT ![b] = ls] /\ epochs' = [epochs EXCEPT ![b] = es]
              /\ Len(ls) <= Cardinality(Written)
              /\ \A i \in DOMAIN es : es[i].start <= Len(ls)
      BY <2>2, <2>3, TruncateType
    <2>5. CASE rep[b].fetcher.phase = "late" /\ SetFetcher(b, Pull(c.answer))
      <3>1. Pull(c.answer) \in FetcherState /\ Pull(c.answer).phase = "fetch"
        BY <2>1, PullType
      <3>2. ~ rep[b].is_leader
        BY <1>4, <2>5 DEF Ended
      <3>3. QED
        BY <1>2, <1>3, <2>4, <2>5, <3>1, <3>2, FollowerStep
    <2>6. CASE SetFetcher(b, rep[b].fetcher)
      BY <1>2, <1>3, <1>4, <2>4, <2>6, FollowerStep
    <2>7. QED
      BY <1>5, <2>3, <2>5, <2>6
  <1>9. CASE c.cmd = "append"
    <2>1. c.answer \in Filled /\ Short(c.answer)
      BY <1>1, <1>9 DEF Command, LateWrite, IndInv, LengthInv
    <2>2. AppendReplicated(b, c.answer)
      BY <1>9 DEF RunLate
    <2>3. QED
      BY <1>2, <1>3, <2>1, <2>2, AppendStep
  <1>10. QED
    BY <1>1, <1>6, <1>7, <1>8, <1>9 DEF Command, LateWrite

LEMMA NewReplicaType ==
  /\ NewReplica \in Replica /\ ~ NewReplica.is_leader
  /\ NewReplica.fetcher = NoFetcher
  /\ \A b \in Brokers : \A r \in Replica :
        /\ [r EXCEPT !.fetcher = Pinged] \in Replica
        /\ [r EXCEPT !.fetcher = Pinged].fetcher = Pinged
  <1>1. 0 \in 0 .. MaxEpoch /\ 0 \in 0 .. MaxRecords
    BY BoundsAssumption DEF BoundsAssumption
  <1>2. NoFetcher \in FetcherState /\ Pinged \in FetcherState
    BY DEF FetcherState
  <1> DEFINE zeros == [f \in Brokers |-> 0]
  <1>3. zeros \in [Brokers -> Nat]
    OBVIOUS
  <1>4. NewReplica = [epoch |-> 0, is_leader |-> FALSE, isr |-> {},
                      match_offsets |-> zeros, recent |-> {}, hwm |-> 0,
                      appended |-> {}, pending_all |-> {}, fetcher |-> NoFetcher]
    BY DEF NewReplica
  <1> HIDE DEF zeros
  <1>5. QED
    BY <1>1, <1>2, <1>3, <1>4 DEF Replica

LEMMA CrashStep ==
  ASSUME IndInv, NEW b \in Brokers, Crash(b)
  PROVE  IndInv'
  <1>1. /\ meta' \in Tuple /\ alive' \in SUBSET Brokers /\ up' \in SUBSET Brokers
        /\ log' \in [Brokers -> Seq(Ids)] /\ epochs' \in [Brokers -> Seq(CheckpointEntry)]
        /\ acked' \in SUBSET Pairs /\ produced' = produced
        /\ UNCHANGED disk
    BY DEF Crash, disk, IndInv, TypeInv
  <1>2. rt' \in [Brokers -> Call]
    BY DEF Crash, Call, IndInv, TypeInv
  <1>3. late \in [Brokers -> SUBSET Command] /\ late' = [late EXCEPT ![b] = {}]
    BY DEF Crash, IndInv, TypeInv
  <1>4. /\ late' \in [Brokers -> SUBSET Command]
        /\ \A c \in Brokers : late'[c] \subseteq late[c]
    BY <1>3
  <1>5. faults' \in [FaultKinds -> Nat] /\ faults.preemptions <= faults'.preemptions
    BY MoreFaults DEF Crash, Crashes
  <1>6. faults'.preemptions = 0 => \A c \in Brokers : late'[c] = {}
    <2>1. faults.preemptions \in Nat /\ faults'.preemptions \in Nat
      BY <1>5, Kinds DEF IndInv, TypeInv
    <2>2. faults'.preemptions = 0 => \A c \in Brokers : late[c] = {}
      BY <1>5, <2>1 DEF IndInv, LeaderInv
    <2>3. QED
      BY <1>4, <2>2
  <1>7. \A c \in Brokers :
            /\ rep'[c] \in Replica
            /\ rep'[c].fetcher.phase = "append" => rep'[c].fetcher = rep[c].fetcher
            /\ rep'[c].is_leader => rep'[c].fetcher.phase \in Ended
    <2> SUFFICES ASSUME NEW c \in Brokers
                 PROVE  /\ rep'[c] \in Replica
                        /\ rep'[c].fetcher.phase = "append" => rep'[c].fetcher = rep[c].fetcher
                        /\ rep'[c].is_leader => rep'[c].fetcher.phase \in Ended
      OBVIOUS
    <2>1. rep[c] \in Replica /\ (rep[c].is_leader => rep[c].fetcher.phase \in Ended)
      BY ReplicaType
    <2>2. \/ rep'[c] = NewReplica
          \/ rep'[c] = [rep[c] EXCEPT !.fetcher = Pinged]
          \/ rep'[c] = rep[c]
      BY DEF Crash
    <2>3. /\ NoFetcher.phase \in Ended /\ NoFetcher.phase # "append"
          /\ Pinged.phase \in Ended /\ Pinged.phase # "append"
      BY DEF NoFetcher, Pinged, Ended
    <2>4. CASE rep'[c] = NewReplica
      BY <2>3, <2>4, NewReplicaType
    <2>5. CASE rep'[c] = [rep[c] EXCEPT !.fetcher = Pinged]
      BY <2>1, <2>3, <2>5, NewReplicaType
    <2>6. CASE rep'[c] = rep[c]
      BY <2>1, <2>6
    <2>7. QED
      BY <2>2, <2>4, <2>5, <2>6
  <1>8. rep' \in [Brokers -> Replica]
    BY <1>7 DEF Crash
  <1>9. StartInv' /\ \A c \in Brokers : Len(log'[c]) <= Cardinality(Written)
    BY <1>1 DEF disk, IndInv, StartInv, LengthInv, LogEnd
  <1>10. QED
    BY <1>1, <1>2, <1>4, <1>5, <1>6, <1>7, <1>8, <1>9, DiskStep

LEMMA StartBrokerStep ==
  ASSUME IndInv, NEW b \in Brokers, StartBroker(b)
  PROVE  IndInv'
  <1>1. /\ meta' \in Tuple /\ alive' \in SUBSET Brokers /\ up' \in SUBSET Brokers
        /\ UNCHANGED <<disk, late>> /\ produced' = produced /\ faults' = faults
        /\ rep' = rep /\ rt' = rt /\ acked' = acked
    BY DEF StartBroker, IndInv, TypeInv
  <1>2. faults' \in [FaultKinds -> Nat] /\ faults.preemptions <= faults'.preemptions
    BY <1>1, SameFaults
  <1>3. QED
    BY <1>1, <1>2, MemoryStep DEF IndInv, TypeInv, LeaderInv

------------------------------------------------------------------------------
(* The specification *)

LEMMA InitInv ==
  ASSUME Init
  PROVE  IndInv
  <1>1. /\ 1 \in Epochs /\ 0 \in 0 .. MaxRecords
        /\ 0 \in Nat
    BY BoundsAssumption DEF BoundsAssumption, Epochs
  <1>2. meta \in Tuple
    BY <1>1 DEF Init, Tuple, NewPartition, PartitionState
  <1>3. \A b \in Brokers : rep[b] = NewReplica /\ late[b] = {} /\ log[b] = <<>> /\ epochs[b] = <<>>
    BY DEF Init
  <1>4. rep \in [Brokers -> Replica]
    BY NewReplicaType DEF Init
  <1>5. /\ log \in [Brokers -> Seq(Ids)] /\ epochs \in [Brokers -> Seq(CheckpointEntry)]
        /\ rt \in [Brokers -> Call] /\ late \in [Brokers -> SUBSET Command]
        /\ faults \in [FaultKinds -> Nat] /\ acked \in SUBSET Pairs
    BY DEF Init, Call
  <1>6. TypeInv
    BY <1>1, <1>2, <1>4, <1>5 DEF Init, TypeInv
  <1>7. LateInv /\ StartInv
    BY <1>3 DEF LateInv, StartInv
  <1>8. LengthInv
    <2>1. Cardinality(Written) \in Nat
      BY <1>6, WrittenSize DEF TypeInv
    <2>2. \A b \in Brokers : LogEnd(b) = 0
      <3>1. Len(<<>>) = 0
        OBVIOUS
      <3>2. \A b \in Brokers : log[b] = <<>>
        BY <1>3
      <3>3. QED
        BY <3>1, <3>2 DEF LogEnd
    <2>3. \A b \in Brokers : rep[b].fetcher.phase # "append"
      <3>1. NewReplica.fetcher = NoFetcher
        BY NewReplicaType
      <3>2. NoFetcher.phase # "append"
        BY DEF NoFetcher
      <3>3. \A b \in Brokers : rep[b] = NewReplica
        BY <1>3
      <3>4. QED
        BY <3>1, <3>2, <3>3
    <2>4. QED
      BY <1>3, <2>1, <2>2, <2>3 DEF LengthInv
  <1>9. LeaderInv
    BY <1>3, NewReplicaType DEF LeaderInv
  <1>10. QED
    BY <1>6, <1>7, <1>8, <1>9 DEF IndInv

LEMMA NextInv ==
  ASSUME IndInv, [Next]_vars
  PROVE  IndInv'
  <1>1. CASE ControllerNext
    BY <1>1, ExpireStep, ControllerRestartStep, ReviveStep, DecideIsrStep DEF ControllerNext
  <1>2. CASE RuntimeNext
    BY <1>2, RefreshMetadataStep, RequestMetadataStep, ReceiveMetadataStep, ChangeIsrStep,
       ProposeIsrStep, AdoptIsrStep, LoseCallStep, LagExpiresStep DEF RuntimeNext
  <1>3. CASE DataNext
    <2>1. PICK b \in Brokers :
            \/ \E all \in BOOLEAN : Produce(b, all)
            \/ \E a \in rep[b].appended : ParkProduce(b, a)
            \/ \E a \in rep[b].pending_all : ProduceTimeout(b, a)
            \/ EpochCheck(b) \/ Reconcile(b)
            \/ ReplicaFetch(b) \/ ReplicaRead(b) \/ ReplicaAppend(b)
            \/ LoseFetch(b)
            \/ \E c \in late[b] : RunLate(b, c)
      BY <1>3 DEF DataNext
    <2>2. QED
      BY <2>1, ProduceStep, ParkProduceStep, ProduceTimeoutStep, EpochCheckStep, ReconcileStep,
         ReplicaFetchStep, ReplicaReadStep, ReplicaAppendStep, LoseFetchStep, RunLateStep
  <1>4. CASE CrashNext
    BY <1>4, CrashStep, StartBrokerStep DEF CrashNext
  <1>5. CASE UNCHANGED vars
    <2>1. /\ UNCHANGED <<disk, late>> /\ produced' = produced /\ meta' = meta
          /\ alive' = alive /\ up' = up /\ rep' = rep /\ rt' = rt /\ acked' = acked
          /\ faults' = faults
      BY <1>5 DEF vars, disk
    <2>2. faults' \in [FaultKinds -> Nat] /\ faults.preemptions <= faults'.preemptions
      BY <2>1, SameFaults
    <2>3. QED
      BY <2>1, <2>2, MemoryStep DEF IndInv, TypeInv, LeaderInv
  <1>6. QED
    BY <1>1, <1>2, <1>3, <1>4, <1>5 DEF Next

\* The inductive invariant holds in every reachable state.
THEOREM Invariance == Spec => []IndInv
  <1>1. Init => IndInv
    BY InitInv
  <1>2. IndInv /\ [Next]_vars => IndInv'
    BY NextInv
  <1>3. QED
    BY <1>1, <1>2, PTL DEF Spec

LEMMA IndInvTypes == IndInv => TypeOK
  <1> SUFFICES ASSUME IndInv PROVE TypeOK
    OBVIOUS
  <1>1. /\ meta \in PartitionState /\ alive \subseteq Brokers /\ up \subseteq Brokers
        /\ produced \in 0 .. MaxRecords /\ acked \subseteq Pairs /\ faults \in [FaultKinds -> Nat]
    BY DEF IndInv, TypeInv, Tuple
  <1>2. ASSUME NEW b \in Brokers
        PROVE  /\ log[b] \in Seq(1 .. MaxRecords)
               /\ \A i \in DOMAIN epochs[b] :
                     epochs[b][i].epoch \in 1 .. MaxEpoch /\ epochs[b][i].start \in 0 .. LogEnd(b)
               /\ rep[b].epoch \in 0 .. MaxEpoch
               /\ rep[b].isr \subseteq Brokers
               /\ rep[b].hwm \in 0 .. MaxRecords
               /\ rep[b].pending_all \cup rep[b].appended \subseteq Pairs
               /\ rep[b].fetcher.phase \in Phases
               /\ rt[b].call \in CallKinds
    <2>1. log[b] \in Seq(1 .. MaxRecords)
      BY DEF IndInv, TypeInv, Ids
    <2>2. ASSUME NEW i \in DOMAIN epochs[b]
          PROVE  epochs[b][i].epoch \in 1 .. MaxEpoch /\ epochs[b][i].start \in 0 .. LogEnd(b)
      <3>1. epochs[b][i] \in CheckpointEntry /\ epochs[b][i].start <= LogEnd(b) /\ LogEnd(b) \in Nat
        BY DiskType
      <3>2. QED
        BY <3>1 DEF CheckpointEntry, Epochs
    <2>3. rep[b] \in Replica /\ rt[b] \in Call /\ rep[b].fetcher \in FetcherState
      BY ReplicaType
    <2>4. rep[b].fetcher.phase \in Phases /\ rt[b].call \in CallKinds
      BY <2>3 DEF FetcherState, NoFetcher, Pinged, Live, Cut, Filled, Phases, Call, Idle, CallKinds
    <2>5. QED
      BY <2>1, <2>2, <2>3, <2>4 DEF Replica
  <1>3. QED
    BY <1>1, <1>2 DEF TypeOK

\* State is well typed: in particular marks and offsets stay within the number
\* of produce calls, and no epoch checkpoint (src/storage/epoch.rs) points past
\* the end of its log, whatever crashes, truncations and preempted tasks do.
THEOREM TypeCorrect == Spec => []TypeOK
  <1>1. IndInv => TypeOK
    BY IndInvTypes
  <1>2. QED
    BY <1>1, Invariance, PTL

------------------------------------------------------------------------------
(* Leaders only append *)

LEMMA PrefixOfGrown ==
  ASSUME NEW s \in Seq(Ids)
  PROVE  /\ IsPrefixOf(s, s)
         /\ \A t \in Seq(Ids) : IsPrefixOf(s, s \o t)
         /\ \A v \in Ids : IsPrefixOf(s, Append(s, v))
  <1>1. SubSeq(s, 1, Len(s)) = s /\ Len(s) \in Nat
    BY SubSeqFull
  <1>2. ASSUME NEW u \in Seq(Ids), Len(s) <= Len(u), \A i \in 1 .. Len(s) : u[i] = s[i]
        PROVE  IsPrefixOf(s, u)
    <2> DEFINE n == Len(s)
               w == SubSeq(u, 1, n)
    <2>1. n \in Nat /\ Len(u) \in Nat
      OBVIOUS
    <2> HIDE DEF n
    <2>2. n <= Len(u) /\ \A i \in 1 .. n : u[i] = s[i]
      BY <1>2 DEF n
    <2>3. w \in Seq(Ids) /\ Len(w) = n /\ \A i \in 1 .. n : w[i] = u[i]
      BY <2>1, <2>2
    <2> HIDE DEF w
    <2>4. Len(w) = Len(s) /\ \A i \in 1 .. Len(w) : w[i] = s[i]
      BY <2>2, <2>3 DEF n
    <2>5. w = s
      BY <2>3, <2>4, SeqEqual
    <2>6. QED
      BY <1>2, <2>5 DEF w, n, IsPrefixOf
  <1>3. \A t \in Seq(Ids) : IsPrefixOf(s, s \o t)
    <2> SUFFICES ASSUME NEW t \in Seq(Ids) PROVE IsPrefixOf(s, s \o t)
      OBVIOUS
    <2>1. /\ (s \o t) \in Seq(Ids) /\ Len(s) <= Len(s \o t)
          /\ \A i \in 1 .. Len(s) : (s \o t)[i] = s[i]
      OBVIOUS
    <2> DEFINE u == s \o t
    <2> HIDE DEF u
    <2>2. IsPrefixOf(s, u)
      BY <1>2, <2>1 DEF u
    <2>3. QED
      BY <2>2 DEF u
  <1>4. \A v \in Ids : IsPrefixOf(s, Append(s, v))
    <2> SUFFICES ASSUME NEW v \in Ids PROVE IsPrefixOf(s, Append(s, v))
      OBVIOUS
    <2>1. /\ Append(s, v) \in Seq(Ids) /\ Len(s) <= Len(Append(s, v))
          /\ \A i \in 1 .. Len(s) : Append(s, v)[i] = s[i]
      OBVIOUS
    <2> DEFINE u == Append(s, v)
    <2> HIDE DEF u
    <2>2. IsPrefixOf(s, u)
      BY <1>2, <2>1 DEF u
    <2>3. QED
      BY <2>2 DEF u
  <1>5. QED
    BY <1>1, <1>3, <1>4 DEF IsPrefixOf

\* What may be done to a log: without a preemption, only a follower's is cut.
LEMMA LogChanges ==
  ASSUME IndInv, [Next]_vars
  PROVE  \/ log' = log
         \/ faults'.preemptions # 0
         \/ \E f \in Brokers, n \in Nat : Truncate(f, n) /\ ~ rep[f].is_leader
         \/ \E f \in Brokers, x \in Filled : AppendReplicated(f, x)
         \/ \E b \in Brokers, v \in Ids, all \in BOOLEAN : Write(b, v, all)
  <1> DEFINE Goal ==
         \/ log' = log
         \/ faults'.preemptions # 0
         \/ \E f \in Brokers, n \in Nat : Truncate(f, n) /\ ~ rep[f].is_leader
         \/ \E f \in Brokers, x \in Filled : AppendReplicated(f, x)
         \/ \E b \in Brokers, v \in Ids, all \in BOOLEAN : Write(b, v, all)
  <1>1. CASE ControllerNext
    <2>1. log' = log
      BY <1>1 DEF ControllerNext, Expire, ControllerRestart, Revive, DecideIsr, disk
    <2>2. QED
      BY <2>1
  <1>2. CASE RuntimeNext
    <2>1. log' = log
      BY <1>2 DEF RuntimeNext, RefreshMetadata, RequestMetadata, ReceiveMetadata, ChangeIsr,
         ProposeIsr, AdoptIsr, LoseCall, LagExpires, disk
    <2>2. QED
      BY <2>1
  <1>3. CASE CrashNext
    <2>1. log' = log
      BY <1>3 DEF CrashNext, Crash, StartBroker, disk
    <2>2. QED
      BY <2>1
  <1>4. CASE UNCHANGED vars
    BY <1>4 DEF vars
  <1>5. CASE DataNext
    <2>1. PICK b \in Brokers :
            \/ \E all \in BOOLEAN : Produce(b, all)
            \/ \E a \in rep[b].appended : ParkProduce(b, a)
            \/ \E a \in rep[b].pending_all : ProduceTimeout(b, a)
            \/ EpochCheck(b) \/ Reconcile(b)
            \/ ReplicaFetch(b) \/ ReplicaRead(b) \/ ReplicaAppend(b)
            \/ LoseFetch(b)
            \/ \E c \in late[b] : RunLate(b, c)
      BY <1>5 DEF DataNext
    <2> USE ReplicaType
    <2>2. CASE \E all \in BOOLEAN : Produce(b, all)
      <3>1. PICK all \in BOOLEAN : Produce(b, all)
        BY <2>2
      <3>2. produced' \in Ids
        BY <3>1, BoundsAssumption DEF Produce, IndInv, TypeInv, BoundsAssumption, Ids
      <3>3. Write(b, produced', all) \/ log' = log
        BY <3>1 DEF Produce
      <3> DEFINE v == produced'
      <3> HIDE DEF v
      <3>4. v \in Ids /\ (Write(b, v, all) \/ log' = log)
        BY <3>2, <3>3 DEF v
      <3>5. QED
        BY <3>4
    <2>3. CASE \/ \E a \in rep[b].appended : ParkProduce(b, a)
               \/ \E a \in rep[b].pending_all : ProduceTimeout(b, a)
               \/ ReplicaFetch(b) \/ LoseFetch(b)
      <3>1. log' = log
        BY <2>3 DEF ParkProduce, ProduceTimeout, ReplicaFetch, LoseFetch, disk
      <3>2. QED
        BY <3>1
    <2>4. CASE EpochCheck(b)
      <3> DEFINE x == rep[b].fetcher
                 end == EndOffsetFor(epochs[x.leader], CurrentEpoch(epochs[b]), LogEnd(x.leader))
      <3>1. x.phase = "connect"
        BY <2>4 DEF EpochCheck
      <3>2. x.leader \in Brokers /\ ~ rep[b].is_leader
        BY <3>1, FetcherKinds DEF Live, Ended
      <3>3. end \in Nat
        BY <3>2, EndOffsetType
      <3>4. Truncate(b, end) \/ log' = log
        BY <2>4 DEF EpochCheck, disk
      <3> HIDE DEF end
      <3>5. QED
        BY <3>2, <3>3, <3>4
    <2>5. CASE Reconcile(b)
      <3> DEFINE x == rep[b].fetcher
      <3>1. x.phase = "reconcile"
        BY <2>5 DEF Reconcile
      <3>2. x.data \in Nat /\ ~ rep[b].is_leader
        BY <3>1, FetcherKinds DEF Live, Cut, Ended
      <3>3. Truncate(b, x.data) \/ log' = log
        BY <2>5 DEF Reconcile, disk
      <3>4. QED
        BY <3>2, <3>3
    <2>6. CASE ReplicaRead(b)
      <3> DEFINE x == rep[b].fetcher
                 l == x.leader
                 recs == SubSeq(log[l], x.data + 1, LogEnd(l))
                 data == [from |-> x.data, records |-> recs]
                 answer == [x EXCEPT !.phase = "append", !.data = data]
      <3>1. x.phase = "wait"
        BY <2>6 DEF ReplicaRead
      <3>2. x \in Live({"wait"}, Nat)
        BY <3>1, FetcherKinds
      <3>3. l \in Brokers /\ x.data \in Nat
        BY <3>2 DEF Live
      <3>4. log[l] \in Seq(Ids) /\ LogEnd(l) \in Nat /\ LogEnd(l) = Len(log[l])
        BY <3>3, DiskType
      <3>5. x.data <= LogEnd(l) => answer \in Filled
        <4>1. x.data <= LogEnd(l) => recs \in Seq(Ids)
          BY <3>3, <3>4
        <4>2. x.data <= LogEnd(l) => data \in Answer
          BY <3>3, <4>1 DEF Answer
        <4> HIDE DEF data
        <4>3. QED
          BY <3>2, <4>2 DEF Filled, Live
      <3>6. (x.data <= LogEnd(l) /\ AppendReplicated(b, answer)) \/ log' = log
        BY <2>6 DEF ReplicaRead, disk
      <3> HIDE DEF answer
      <3>7. QED
        BY <3>5, <3>6
    <2>7. CASE ReplicaAppend(b)
      <3>1. rep[b].fetcher \in Filled
        BY <2>7, FetcherKinds DEF ReplicaAppend
      <3>2. AppendReplicated(b, rep[b].fetcher) \/ log' = log
        BY <2>7 DEF ReplicaAppend, disk
      <3>3. QED
        BY <3>1, <3>2
    <2>8. CASE \E c \in late[b] : RunLate(b, c)
      <3>1. late[b] # {} /\ faults' = faults
        BY <2>8 DEF RunLate
      <3>2. faults'.preemptions # 0
        BY <3>1 DEF IndInv, LeaderInv
      <3>3. QED
        BY <3>2
    <2>9. QED
      BY <2>1, <2>2, <2>3, <2>4, <2>5, <2>6, <2>7, <2>8
  <1>6. QED
    BY <1>1, <1>2, <1>3, <1>4, <1>5 DEF Next

LEMMA LeaderGrows ==
  ASSUME IndInv, [Next]_vars, faults'.preemptions = 0, NEW b \in Brokers, rep[b].is_leader
  PROVE  IsPrefixOf(log[b], log'[b])
  <1>1. log[b] \in Seq(Ids) /\ log \in [Brokers -> Seq(Ids)] /\ IsPrefixOf(log[b], log[b])
    BY PrefixOfGrown DEF IndInv, TypeInv
  <1>2. CASE log' = log
    BY <1>1, <1>2
  <1>3. CASE \E f \in Brokers, n \in Nat : Truncate(f, n) /\ ~ rep[f].is_leader
    <2>1. log'[b] = log[b]
      BY <1>1, <1>3 DEF Truncate, disk
    <2>2. QED
      BY <1>1, <2>1
  <1>4. CASE \E f \in Brokers, x \in Filled : AppendReplicated(f, x)
    <2>1. PICK f \in Brokers, x \in Filled : AppendReplicated(f, x)
      BY <1>4
    <2>2. x.data.records \in Seq(Ids)
      BY DEF Filled, Live, Answer
    <2>3. \/ log'[b] = log[b]
          \/ log'[b] = log[b] \o x.data.records
      BY <1>1, <2>1 DEF AppendReplicated
    <2>4. QED
      BY <1>1, <2>2, <2>3, PrefixOfGrown
  <1>5. CASE \E c \in Brokers, v \in Ids, all \in BOOLEAN : Write(c, v, all)
    <2>1. PICK c \in Brokers, v \in Ids, all \in BOOLEAN : Write(c, v, all)
      BY <1>5
    <2>2. log'[b] = log[b] \/ log'[b] = Append(log[b], v)
      BY <1>1, <2>1 DEF Write
    <2>3. QED
      BY <1>1, <2>2, PrefixOfGrown
  <1>6. QED
    BY <1>2, <1>3, <1>4, <1>5, LogChanges

\* The log of a leader only grows while it leads: neither the fetcher of its
\* time as a follower nor a reconciliation that began then cuts it ("this
\* fetcher no longer speaks for the replica", src/broker/cluster.rs), unless a
\* task was preempted between that check and its command.
THEOREM LeadersOnlyAppend == Spec => LeaderAppendOnly
  <1>1. IndInv /\ [Next]_vars =>
          [faults'.preemptions = 0 => \A b \in Brokers : AppendOnly(b)]_vars
    BY LeaderGrows DEF AppendOnly
  <1>2. QED
    BY <1>1, Invariance, PTL DEF Spec, LeaderAppendOnly

------------------------------------------------------------------------------
(* The inductive invariant about epochs, leaders and followers *)

\* Some part of the system holds l for the leader at epoch e: the controller, an
\* answer of its under way, a broker of itself, or a fetcher.
IsView(l, e) ==
    \/ l = meta.leader /\ e = meta.leader_epoch
    \/ \E b \in Brokers : /\ rt[b].call = "metadata"
                         /\ l = rt[b].meta.leader /\ e = rt[b].meta.leader_epoch
    \/ rep[l].is_leader /\ e = rep[l].epoch
    \/ \E b \in Brokers : /\ rep[b].fetcher.phase \notin Ended
                         /\ l = rep[b].fetcher.leader /\ e = rep[b].fetcher.epoch

\* Broker b leads at epoch e, or will once it handles the answer under way.
IsReign(b, e) ==
    \/ rep[b].is_leader /\ e = rep[b].epoch
    \/ rt[b].call = "metadata" /\ rt[b].meta.leader = b /\ e = rt[b].meta.leader_epoch

\* Nobody but b is held for the leader at an epoch in from .. to.
Owns(b, from, to) ==
    \A l \in Brokers, e \in Nat : IsView(l, e) /\ from <= e /\ e <= to => l = b

\* A broker learns of epochs in their order, and of none the controller has not
\* reached; a fetcher that goes on is of the broker's epoch and not its own.
EpochInv ==
    /\ \A b \in Brokers : rep[b].epoch <= meta.leader_epoch
    /\ \A b \in Brokers : rt[b].call = "metadata" =>
          /\ rep[b].epoch <= rt[b].meta.leader_epoch
          /\ rt[b].meta.leader_epoch <= meta.leader_epoch
    /\ \A b \in Brokers : rep[b].fetcher.phase \notin Ended =>
          rep[b].fetcher.epoch = rep[b].epoch /\ rep[b].fetcher.leader # b

\* An epoch has one leader.
OneLeader == \A l, k \in Brokers, e \in Nat : IsView(l, e) /\ IsView(k, e) => l = k

\* While the partition is offline no ISR member is alive.
OfflineInv == meta.leader = NoLeader => meta.isr \cap alive = {}

\* A deposed leader that is still in the ISR is all of it, and its successor.
DeposedInv ==
    \A b \in Brokers, e \in Nat :
        IsReign(b, e) /\ e < meta.leader_epoch /\ b \in meta.isr =>
            meta.isr = {b} /\ Owns(b, e, meta.leader_epoch)

\* A leader that is elected again has not missed another's epoch.
ReelectedInv ==
    \A b \in Brokers, e, u \in Nat : IsReign(b, e) /\ IsView(b, u) => Owns(b, e, u)

\* The first n records of s are those of t.
Shares(s, n, t) == n <= Len(t) /\ \A i \in 1 .. n : t[i] = s[i]

\* What a reconciliation under way leaves of the log of f.
KeptLen(f) ==
    IF rep[f].fetcher.phase = "reconcile" /\ rep[f].fetcher.data < LogEnd(f)
    THEN rep[f].fetcher.data ELSE LogEnd(f)

\* What f has and is about to append comes from its leader's log.
Agrees(f) ==
    LET x == rep[f].fetcher
        l == log[x.leader]
    IN  /\ Shares(log[f], KeptLen(f), l)
        /\ x.phase = "wait" => x.data = LogEnd(f)
        /\ x.phase = "append" =>
              /\ x.data.from = LogEnd(f)
              /\ LogEnd(f) + Len(x.data.records) <= Len(l)
              /\ \A i \in 1 .. Len(x.data.records) : l[LogEnd(f) + i] = x.data.records[i]

\* The fetcher of f has heard of its leader, which has not heard of a later epoch.
Current(f) ==
    /\ rep[f].fetcher.phase \in Connected
    /\ rep[rep[f].fetcher.leader].epoch <= rep[f].fetcher.epoch

FollowInv ==
    \A f \in Brokers : Current(f) =>
        LET l == rep[f].fetcher.leader
        IN  /\ rep[l].fetcher.phase \in Ended
            /\ Owns(l, rep[l].epoch, rep[f].fetcher.epoch)
            /\ Agrees(f)

ControlInv == EpochInv /\ OneLeader /\ OfflineInv /\ DeposedInv /\ ReelectedInv

FollowersInv == Undisturbed => ControlInv /\ FollowInv

------------------------------------------------------------------------------
(* Types *)

\* A live fetcher has a leader and an epoch.
LEMMA LiveFetcher ==
  ASSUME IndInv, NEW f \in Brokers, rep[f].fetcher.phase \notin Ended
  PROVE  /\ rep[f].fetcher.leader \in Brokers
         /\ rep[f].fetcher.epoch \in Epochs /\ rep[f].fetcher.epoch \in Nat
  <1>1. rep[f].fetcher \in FetcherState
    BY ReplicaType
  <1>2. rep[f].fetcher \notin {NoFetcher, Pinged}
    BY DEF Ended, NoFetcher, Pinged
  <1>3. rep[f].fetcher.leader \in Brokers /\ rep[f].fetcher.epoch \in Epochs
    BY <1>1, <1>2 DEF FetcherState, Live, Cut, Filled
  <1>4. QED
    BY <1>3 DEF Epochs

\* Epochs are naturals.
LEMMA EpochTypes ==
  ASSUME IndInv
  PROVE  /\ meta.leader_epoch \in Nat /\ meta.leader \in Brokers \cup {NoLeader}
         /\ meta.isr \in SUBSET Brokers /\ alive \in SUBSET Brokers
         /\ \A b \in Brokers :
              /\ rep[b].epoch \in Nat /\ rep[b].is_leader \in BOOLEAN
              /\ rt[b].call = "metadata" =>
                    /\ rt[b].meta \in Tuple /\ rt[b].meta.leader_epoch \in Nat
                    /\ rt[b].meta.leader \in Brokers \cup {NoLeader}
  <1>1. meta \in Tuple
    BY DEF IndInv, TypeInv
  <1>2. ASSUME NEW m \in Tuple
        PROVE  m.leader_epoch \in Nat /\ m.leader \in Brokers \cup {NoLeader} /\ m.isr \in SUBSET Brokers
    BY DEF Tuple, PartitionState
  <1>3. ASSUME NEW b \in Brokers
        PROVE  /\ rep[b].epoch \in Nat /\ rep[b].is_leader \in BOOLEAN
               /\ rt[b].call = "metadata" => rt[b].meta \in Tuple
    <2>1. rep[b] \in Replica /\ rt[b] \in Call
      BY ReplicaType
    <2>2. rt[b].call = "metadata" => rt[b].meta \in Tuple
      BY <2>1 DEF Call, Idle
    <2>3. QED
      BY <2>1, <2>2 DEF Replica
  <1>4. alive \in SUBSET Brokers
    BY DEF IndInv, TypeInv
  <1>5. QED
    BY <1>1, <1>2, <1>3, <1>4

\* Logs and what fetchers wait for or hold.
LEMMA LogTypes ==
  ASSUME IndInv, NEW b \in Brokers
  PROVE  /\ log[b] \in Seq(Ids) /\ LogEnd(b) = Len(log[b]) /\ LogEnd(b) \in Nat
         /\ rep[b].fetcher.phase \in {"reconcile", "wait"} => rep[b].fetcher.data \in Nat
         /\ rep[b].fetcher.phase = "append" =>
               /\ rep[b].fetcher.data \in Answer
               /\ rep[b].fetcher.data.from \in Nat
               /\ rep[b].fetcher.data.records \in Seq(Ids)
               /\ Len(rep[b].fetcher.data.records) \in Nat
         /\ KeptLen(b) \in Nat /\ KeptLen(b) <= LogEnd(b)
  <1>1. log[b] \in Seq(Ids) /\ LogEnd(b) = Len(log[b]) /\ LogEnd(b) \in Nat
    BY DiskType
  <1>2. PICK x \in FetcherState : x = rep[b].fetcher
    BY ReplicaType
  <1>3. x.phase \in {"reconcile", "wait"} => x.data \in Nat
    BY DEF FetcherState, NoFetcher, Pinged, Live, Cut, Filled
  <1>4. x.phase = "append" => x.data \in Answer
    BY DEF FetcherState, NoFetcher, Pinged, Live, Cut, Filled
  <1>5. \A a \in Answer : a.from \in Nat /\ a.records \in Seq(Ids) /\ Len(a.records) \in Nat
    BY DEF Answer
  <1>6. KeptLen(b) \in Nat /\ KeptLen(b) <= LogEnd(b)
    BY <1>1, <1>2, <1>3 DEF KeptLen
  <1>7. QED
    BY <1>1, <1>2, <1>3, <1>4, <1>5, <1>6

\* No epoch is past the controller's.
LEMMA ViewEpochs ==
  ASSUME IndInv, EpochInv, NEW l \in Brokers, NEW e \in Nat, IsView(l, e)
  PROVE  e <= meta.leader_epoch
  <1>1. CASE l = meta.leader /\ e = meta.leader_epoch
    BY <1>1
  <1>2. CASE \E b \in Brokers : /\ rt[b].call = "metadata"
                               /\ l = rt[b].meta.leader /\ e = rt[b].meta.leader_epoch
    BY <1>2 DEF EpochInv
  <1>3. CASE rep[l].is_leader /\ e = rep[l].epoch
    BY <1>3 DEF EpochInv
  <1>4. CASE \E b \in Brokers : /\ rep[b].fetcher.phase \notin Ended
                               /\ l = rep[b].fetcher.leader /\ e = rep[b].fetcher.epoch
    BY <1>4 DEF EpochInv
  <1>5. QED
    BY <1>1, <1>2, <1>3, <1>4 DEF IsView

------------------------------------------------------------------------------
(* Steps that elect nobody *)

\* Nobody holds a broker for a leader that nobody held for one before, and who
\* comes to lead is whom the controller has elected last.
ViewsKept ==
    /\ meta'.leader = meta.leader /\ meta'.leader_epoch = meta.leader_epoch
    /\ \A l \in Brokers, e \in Nat : IsView(l, e)' => IsView(l, e)
    /\ \A b \in Brokers, e \in Nat :
          IsReign(b, e)' => IsReign(b, e) \/ (b = meta.leader /\ e = meta.leader_epoch)

\* No replica changes its role or epoch, a fetcher goes on as it is or ends, and an
\* answer with metadata has what the controller has.
Mild ==
    /\ meta'.leader = meta.leader /\ meta'.leader_epoch = meta.leader_epoch
    /\ \A b \in Brokers :
        /\ rep'[b].epoch = rep[b].epoch /\ rep'[b].is_leader = rep[b].is_leader
        /\ \/ rep'[b].fetcher.phase \in Ended
           \/ /\ rep[b].fetcher.phase \notin Ended
              /\ rep'[b].fetcher.leader = rep[b].fetcher.leader
              /\ rep'[b].fetcher.epoch = rep[b].fetcher.epoch
        /\ rt'[b].call = "metadata" => rt'[b] = rt[b] \/ rt'[b].meta = meta

LEMMA MildViews ==
  ASSUME EpochInv, IndInv, Mild
  PROVE  ViewsKept /\ EpochInv'
  <1>1. ASSUME NEW l \in Brokers, NEW e \in Nat, IsView(l, e)'
        PROVE  IsView(l, e)
    <2>1. CASE l = meta'.leader /\ e = meta'.leader_epoch
      BY <2>1 DEF Mild, IsView
    <2>2. CASE \E b \in Brokers : /\ rt'[b].call = "metadata"
                                 /\ l = rt'[b].meta.leader /\ e = rt'[b].meta.leader_epoch
      <3>1. PICK b \in Brokers : /\ rt'[b].call = "metadata"
                                /\ l = rt'[b].meta.leader /\ e = rt'[b].meta.leader_epoch
        BY <2>2
      <3>2. rt'[b] = rt[b] \/ rt'[b].meta = meta
        BY <3>1 DEF Mild
      <3>3. QED
        BY <3>1, <3>2 DEF IsView
    <2>3. CASE rep'[l].is_leader /\ e = rep'[l].epoch
      BY <2>3 DEF Mild, IsView
    <2>4. CASE \E b \in Brokers : /\ rep'[b].fetcher.phase \notin Ended
                                 /\ l = rep'[b].fetcher.leader /\ e = rep'[b].fetcher.epoch
      BY <2>4 DEF Mild, IsView
    <2>5. QED
      BY <1>1, <2>1, <2>2, <2>3, <2>4 DEF IsView
  <1>2. ASSUME NEW b \in Brokers, NEW e \in Nat, IsReign(b, e)'
        PROVE  IsReign(b, e) \/ (b = meta.leader /\ e = meta.leader_epoch)
    BY <1>2 DEF IsReign, Mild
  <1>3. EpochInv'
    <2>1. ASSUME NEW b \in Brokers
          PROVE  /\ rep'[b].epoch <= meta'.leader_epoch
                 /\ rt'[b].call = "metadata" =>
                       /\ rep'[b].epoch <= rt'[b].meta.leader_epoch
                       /\ rt'[b].meta.leader_epoch <= meta'.leader_epoch
                 /\ rep'[b].fetcher.phase \notin Ended =>
                       rep'[b].fetcher.epoch = rep'[b].epoch /\ rep'[b].fetcher.leader # b
      <3>1. /\ rep[b].epoch <= meta.leader_epoch
            /\ rt[b].call = "metadata" =>
                  /\ rep[b].epoch <= rt[b].meta.leader_epoch
                  /\ rt[b].meta.leader_epoch <= meta.leader_epoch
            /\ rep[b].fetcher.phase \notin Ended =>
                  rep[b].fetcher.epoch = rep[b].epoch /\ rep[b].fetcher.leader # b
        BY DEF EpochInv
      <3>2. meta'.leader_epoch = meta.leader_epoch /\ meta.leader_epoch \in Nat
        BY EpochTypes DEF Mild
      <3>3. /\ rep'[b].epoch = rep[b].epoch
            /\ \/ rep'[b].fetcher.phase \in Ended
               \/ /\ rep[b].fetcher.phase \notin Ended
                  /\ rep'[b].fetcher.leader = rep[b].fetcher.leader
                  /\ rep'[b].fetcher.epoch = rep[b].fetcher.epoch
            /\ rt'[b].call = "metadata" => rt'[b] = rt[b] \/ rt'[b].meta = meta
        BY DEF Mild
      <3>4. rt'[b].call = "metadata" =>
                /\ rep'[b].epoch <= rt'[b].meta.leader_epoch
                /\ rt'[b].meta.leader_epoch <= meta'.leader_epoch
        BY <3>1, <3>2, <3>3
      <3>5. QED
        BY <3>1, <3>2, <3>3, <3>4
    <2>2. QED
      BY <2>1 DEF EpochInv
  <1>4. QED
    BY <1>1, <1>2, <1>3 DEF ViewsKept, Mild

\* A change of the ISR that keeps every deposed leader it finds in place.
LEMMA ControlKept ==
  ASSUME ControlInv, IndInv, ViewsKept, EpochInv', OfflineInv',
         \A b \in meta'.isr, e \in Nat :
            IsReign(b, e) /\ e < meta.leader_epoch => b \in meta.isr /\ meta'.isr \subseteq meta.isr
  PROVE  ControlInv'
  <1>1. OneLeader'
    BY DEF ControlInv, OneLeader, ViewsKept
  <1>2. ASSUME NEW b \in Brokers, NEW from \in Nat, NEW to \in Nat, Owns(b, from, to)
        PROVE  Owns(b, from, to)'
    BY <1>2 DEF Owns, ViewsKept
  <1>3. meta.leader_epoch \in Nat /\ meta'.leader_epoch = meta.leader_epoch
    BY EpochTypes DEF ViewsKept
  <1>4. DeposedInv'
    <2>1. PICK k \in Nat : k = meta.leader_epoch /\ k = meta'.leader_epoch
      BY <1>3
    <2>2. ASSUME NEW b \in Brokers, NEW e \in Nat, IsReign(b, e)', e < k, b \in meta'.isr
          PROVE  meta'.isr = {b} /\ Owns(b, e, k)'
      <3>1. IsReign(b, e) /\ e < meta.leader_epoch
        BY <2>1, <2>2 DEF ViewsKept
      <3>2. b \in meta.isr /\ meta'.isr \subseteq meta.isr
        BY <2>2, <3>1
      <3>3. meta.isr = {b} /\ Owns(b, e, k)
        BY <2>1, <3>1, <3>2 DEF ControlInv, DeposedInv
      <3>4. Owns(b, e, k)'
        BY <1>2, <3>3
      <3>5. QED
        BY <2>2, <3>2, <3>3, <3>4
    <2>3. QED
      BY <2>1, <2>2 DEF DeposedInv
  <1>5. ReelectedInv'
    <2> SUFFICES ASSUME NEW b \in Brokers, NEW e \in Nat, NEW u \in Nat,
                        IsReign(b, e)', IsView(b, u)'
                 PROVE  Owns(b, e, u)'
      BY DEF ReelectedInv
    <2>1. IsView(b, u)
      BY DEF ViewsKept
    <2>2. CASE IsReign(b, e)
      BY <1>2, <2>1, <2>2 DEF ControlInv, ReelectedInv
    <2>3. CASE b = meta.leader /\ e = meta.leader_epoch
      <3>1. \A l \in Brokers, w \in Nat : IsView(l, w) => w <= meta.leader_epoch
        BY ViewEpochs DEF ControlInv
      <3>2. ASSUME NEW l \in Brokers, NEW w \in Nat, IsView(l, w), e <= w
            PROVE  l = b
        <4>1. w = e
          BY <1>3, <2>3, <3>1, <3>2
        <4>2. IsView(b, e)
          BY <2>3 DEF IsView
        <4>3. QED
          BY <3>2, <4>1, <4>2 DEF ControlInv, OneLeader
      <3>3. Owns(b, e, u)
        BY <3>2 DEF Owns
      <3>4. QED
        BY <1>2, <3>3
    <2>4. QED
      BY <2>2, <2>3 DEF ViewsKept
  <1>6. QED
    BY <1>1, <1>4, <1>5 DEF ControlInv

\* A follower whose own log and fetcher a step leaves alone still agrees with its
\* leader, when the logs of those who follow nobody at most grow.
LEMMA FollowOther ==
  ASSUME IndInv, IndInv', FollowInv, Mild, ViewsKept, NEW g \in Brokers,
         rep'[g].fetcher.phase \in Ended \/ rep'[g].fetcher = rep[g].fetcher,
         log'[g] = log[g],
         \A l \in Brokers : rep[l].fetcher.phase \in Ended => Shares(log[l], LogEnd(l), log'[l]),
         Current(g)'
  PROVE  /\ rep'[rep'[g].fetcher.leader].fetcher.phase \in Ended
         /\ Owns(rep[g].fetcher.leader, rep[rep[g].fetcher.leader].epoch, rep[g].fetcher.epoch)'
         /\ Agrees(g)'
  <1>1. Connected \cap Ended = {}
    BY DEF Connected, Ended
  <1>2. rep'[g].fetcher = rep[g].fetcher /\ rep[g].fetcher.phase \notin Ended
    BY <1>1 DEF Current
  <1>3. PICK l \in Brokers, x \in FetcherState : x = rep[g].fetcher /\ l = x.leader
    BY <1>2, LiveFetcher, ReplicaType
  <1>4. rep'[l].epoch = rep[l].epoch /\ rep[l].epoch \in Nat /\ x.epoch \in Nat
    BY <1>2, <1>3, EpochTypes, LiveFetcher DEF Mild
  <1>5. Current(g)
    BY <1>2, <1>3, <1>4 DEF Current
  <1>6. rep[l].fetcher.phase \in Ended /\ Owns(l, rep[l].epoch, x.epoch) /\ Agrees(g)
    BY <1>3, <1>5 DEF FollowInv
  <1>7. rep'[l].fetcher.phase \in Ended
    BY <1>6 DEF Mild
  <1>8. Owns(l, rep[l].epoch, x.epoch)'
    <2>1. PICK a \in Nat, u \in Nat : a = rep[l].epoch /\ u = x.epoch /\ a = rep'[l].epoch
      BY <1>4
    <2>2. Owns(l, a, u)
      BY <1>6, <2>1
    <2>3. Owns(l, a, u)'
      BY <2>2 DEF Owns, ViewsKept
    <2>4. QED
      BY <2>1, <2>3
  <1>9. Agrees(g)'
    <2>1. LogEnd(g)' = LogEnd(g) /\ KeptLen(g)' = KeptLen(g)
      BY <1>2 DEF LogEnd, KeptLen
    <2>2. Shares(log[l], LogEnd(l), log'[l]) /\ LogEnd(l) = Len(log[l])
      BY <1>6 DEF LogEnd
    <2>3. /\ Shares(log[g], KeptLen(g), log[l])
          /\ x.phase = "wait" => x.data = LogEnd(g)
          /\ x.phase = "append" =>
                /\ x.data.from = LogEnd(g)
                /\ LogEnd(g) + Len(x.data.records) <= Len(log[l])
                /\ \A i \in 1 .. Len(x.data.records) : log[l][LogEnd(g) + i] = x.data.records[i]
      BY <1>3, <1>6 DEF Agrees
    <2>4. Len(log[l]) \in Nat /\ Len(log'[l]) \in Nat /\ LogEnd(g) \in Nat /\ KeptLen(g) \in Int
      <3>1. l \in Brokers
        BY <1>2, <1>3, LiveFetcher
      <3>2. log[l] \in Seq(Ids) /\ LogEnd(g) \in Nat /\ KeptLen(g) \in Nat
        BY <3>1, LogTypes
      <3>3. log'[l] \in Seq(Ids)
        BY <3>1 DEF IndInv, TypeInv
      <3>4. QED
        BY <3>2, <3>3
    <2>5. Shares(log[g], KeptLen(g), log'[l])
      <3>1. KeptLen(g) <= Len(log[l]) /\ Len(log[l]) <= Len(log'[l])
        BY <2>2, <2>3 DEF Shares
      <3>2. ASSUME NEW i \in 1 .. KeptLen(g) PROVE log'[l][i] = log[g][i]
        <4>1. i \in 1 .. Len(log[l])
          BY <2>4, <3>1
        <4>2. QED
          BY <2>2, <2>3, <4>1 DEF Shares
      <3>3. QED
        BY <2>4, <3>1, <3>2 DEF Shares
    <2>6. ASSUME x.phase = "append"
          PROVE  /\ LogEnd(g) + Len(x.data.records) <= Len(log'[l])
                 /\ \A i \in 1 .. Len(x.data.records) : log'[l][LogEnd(g) + i] = x.data.records[i]
      <3>1. PICK n \in Nat : n = Len(x.data.records)
        BY <1>3, <2>6, LogTypes
      <3>2. LogEnd(g) + n <= Len(log[l]) /\ Len(log[l]) <= Len(log'[l])
        BY <2>2, <2>3, <2>6, <3>1 DEF Shares
      <3>3. ASSUME NEW i \in 1 .. n PROVE log'[l][LogEnd(g) + i] = x.data.records[i]
        <4>1. LogEnd(g) + i \in 1 .. Len(log[l])
          BY <2>4, <3>2
        <4>2. QED
          BY <2>2, <2>3, <2>6, <3>1, <4>1 DEF Shares
      <3>4. LogEnd(g) + n <= Len(log'[l])
        BY <2>4, <3>2
      <3>5. QED
        BY <3>1, <3>3, <3>4
    <2>7. QED
      BY <1>2, <1>3, <2>1, <2>3, <2>5, <2>6 DEF Agrees
  <1>10. QED
    BY <1>2, <1>3, <1>7, <1>8, <1>9

\* What a step must see to about follower f by itself.
Settles(f) ==
    Current(f)' =>
        /\ rep'[rep'[f].fetcher.leader].fetcher.phase \in Ended
        /\ Owns(rep[f].fetcher.leader, rep[rep[f].fetcher.leader].epoch, rep[f].fetcher.epoch)'
        /\ Agrees(f)'

\* The steps of the replicas and the controller that elect nobody.
LEMMA MildStep ==
  ASSUME IndInv, IndInv', ControlInv, FollowInv, Mild, OfflineInv',
         \A b \in meta'.isr, e \in Nat :
            IsReign(b, e) /\ e < meta.leader_epoch => b \in meta.isr /\ meta'.isr \subseteq meta.isr,
         \A l \in Brokers : rep[l].fetcher.phase \in Ended => Shares(log[l], LogEnd(l), log'[l]),
         \A g \in Brokers : \/ rep'[g].fetcher.phase \in Ended
                            \/ rep'[g].fetcher = rep[g].fetcher /\ log'[g] = log[g]
                            \/ Settles(g)
  PROVE  ControlInv' /\ FollowInv'
  <1>1. ViewsKept /\ EpochInv'
    BY MildViews DEF ControlInv
  <1>2. ControlInv'
    BY <1>1, ControlKept
  <1>3. ASSUME NEW g \in Brokers PROVE Settles(g)
    <2>1. CASE rep'[g].fetcher.phase \in Ended
      BY <2>1 DEF Settles, Current, Connected, Ended
    <2>2. CASE rep'[g].fetcher = rep[g].fetcher /\ log'[g] = log[g]
      BY <1>1, <2>2, FollowOther DEF Settles
    <2>3. QED
      BY <2>1, <2>2
  <1>4. FollowInv'
    BY <1>3 DEF Settles, FollowInv
  <1>5. QED
    BY <1>2, <1>4

\* No log changes, and no fetcher goes on otherwise than before.
LEMMA QuietStep ==
  ASSUME IndInv, IndInv', ControlInv, FollowInv, Mild,
         meta' = meta, alive' \subseteq alive, log' = log,
         \A g \in Brokers : rep'[g].fetcher.phase \in Ended \/ rep'[g].fetcher = rep[g].fetcher
  PROVE  ControlInv' /\ FollowInv'
  <1>1. OfflineInv'
    BY DEF ControlInv, OfflineInv
  <1>2. ASSUME NEW l \in Brokers PROVE Shares(log[l], LogEnd(l), log'[l])
    BY LogTypes DEF Shares
  <1>3. QED
    BY <1>1, <1>2, MildStep

------------------------------------------------------------------------------
(* Counting *)

\* Counters do not go down.
LEMMA FaultsGrow ==
  ASSUME IndInv, [Next]_vars
  PROVE  \A k \in FaultKinds : faults[k] \in Nat /\ faults'[k] \in Nat /\ faults[k] <= faults'[k]
  <1>1. faults \in [FaultKinds -> Nat]
    BY DEF IndInv, TypeInv
  <1>2. faults' = faults \/ \E K : Count(K)
    <2>1. CASE ControllerNext
      BY <2>1 DEF ControllerNext, Expire, Revive, ControllerRestart, DecideIsr, AlterIsr, Readmit, Expiry
    <2>2. CASE RuntimeNext
      <3>1. PICK b \in Brokers :
              \/ RefreshMetadata(b) \/ RequestMetadata(b) \/ ReceiveMetadata(b)
              \/ ChangeIsr(b) \/ ProposeIsr(b) \/ AdoptIsr(b)
              \/ LoseCall(b)
              \/ \E f \in Brokers : LagExpires(b, f)
        BY <2>2 DEF RuntimeNext
      <3>2. CASE RefreshMetadata(b) \/ ReceiveMetadata(b)
        <4>1. \E m : Apply(b, m)
          BY <3>2 DEF RefreshMetadata, ReceiveMetadata
        <4>2. QED
          BY <4>1 DEF Apply, Preempted
      <3>3. CASE RequestMetadata(b) \/ ProposeIsr(b)
        BY <3>3 DEF RequestMetadata, ProposeIsr, Delayed
      <3>4. CASE ChangeIsr(b)
        BY <3>4 DEF ChangeIsr, AlterIsr, Readmit
      <3>5. CASE AdoptIsr(b) \/ LoseCall(b) \/ \E f \in Brokers : LagExpires(b, f)
        BY <3>5 DEF AdoptIsr, LoseCall, LagExpires
      <3>6. QED
        BY <3>1, <3>2, <3>3, <3>4, <3>5
    <2>3. CASE DataNext
      <3>1. PICK b \in Brokers :
              \/ \E all \in BOOLEAN : Produce(b, all)
              \/ \E a \in rep[b].appended : ParkProduce(b, a)
              \/ \E a \in rep[b].pending_all : ProduceTimeout(b, a)
              \/ EpochCheck(b) \/ Reconcile(b)
              \/ ReplicaFetch(b) \/ ReplicaRead(b) \/ ReplicaAppend(b)
              \/ LoseFetch(b)
              \/ \E c \in late[b] : RunLate(b, c)
        BY <2>3 DEF DataNext
      <3>2. CASE \E all \in BOOLEAN : Produce(b, all)
        BY <3>2 DEF Produce, Preempted
      <3>3. CASE \E a \in rep[b].appended : ParkProduce(b, a)
        BY <3>3 DEF ParkProduce
      <3>4. CASE \E a \in rep[b].pending_all : ProduceTimeout(b, a)
        BY <3>4 DEF ProduceTimeout
      <3>5. CASE EpochCheck(b)
        BY <3>5 DEF EpochCheck
      <3>6. CASE Reconcile(b) \/ ReplicaAppend(b)
        BY <3>6 DEF Reconcile, ReplicaAppend, Preempted
      <3>7. CASE ReplicaFetch(b) \/ ReplicaRead(b) \/ LoseFetch(b)
        BY <3>7 DEF ReplicaFetch, ReplicaRead, LoseFetch, Delayed, Dropped
      <3>8. CASE \E c \in late[b] : RunLate(b, c)
        BY <3>8 DEF RunLate
      <3>9. QED
        BY <3>1, <3>2, <3>3, <3>4, <3>5, <3>6, <3>7, <3>8
    <2>4. CASE CrashNext \/ UNCHANGED vars
      BY <2>4 DEF CrashNext, Crash, StartBroker, Crashes, vars
    <2>5. QED
      BY <2>1, <2>2, <2>3, <2>4 DEF Next
  <1>3. CASE faults' = faults
    BY <1>1, <1>3
  <1>4. CASE \E K : Count(K)
    BY <1>1, <1>4, CountStep
  <1>5. QED
    BY <1>2, <1>3, <1>4

Disturbances == {"stale", "strays", "preemptions", "miscuts"}

LEMMA UndisturbedBefore ==
  ASSUME IndInv, [Next]_vars, Undisturbed'
  PROVE  Undisturbed /\ \A b \in Brokers : late[b] = {}
  <1>1. \A k \in FaultKinds : faults[k] \in Nat /\ faults'[k] \in Nat /\ faults[k] <= faults'[k]
    BY FaultsGrow
  <1>2. Disturbances \subseteq FaultKinds
    BY Kinds DEF Disturbances
  <1>3. \A k \in Disturbances : faults[k] = 0
    <2>1. \A k \in Disturbances : faults'[k] = 0
      BY DEF Undisturbed, NoRace, Disturbances
    <2>2. QED
      BY <1>1, <1>2, <2>1
  <1>4. Undisturbed /\ faults.preemptions = 0
    BY <1>3 DEF Undisturbed, NoRace, Disturbances
  <1>5. QED
    BY <1>4 DEF IndInv, LeaderInv

\* A step that counts a disturbance leaves no undisturbed state.
LEMMA NoneCounted ==
  ASSUME IndInv, NEW K, Count(K), Undisturbed'
  PROVE  K \cap Disturbances = {}
  <1>1. faults \in [FaultKinds -> Nat]
    BY DEF IndInv, TypeInv
  <1>2. \A k \in FaultKinds : faults'[k] = faults[k] + IF k \in K THEN 1 ELSE 0
    BY <1>1, CountStep
  <1>3. Disturbances \subseteq FaultKinds
    BY Kinds DEF Disturbances
  <1>4. \A k \in Disturbances : faults'[k] = 0
    BY DEF Undisturbed, NoRace, Disturbances
  <1>5. ASSUME NEW k \in Disturbances, k \in K PROVE FALSE
    <2>1. faults[k] \in Nat /\ faults'[k] = faults[k] + 1
      BY <1>1, <1>2, <1>3, <1>5
    <2>2. QED
      BY <1>4, <2>1
  <1>6. QED
    BY <1>5

------------------------------------------------------------------------------
(* Steps that leave the logs and the fetchers alone *)

\* No replica changes its role, epoch or fetcher.
Frame ==
    \A c \in Brokers : /\ rep'[c].epoch = rep[c].epoch /\ rep'[c].is_leader = rep[c].is_leader
                       /\ rep'[c].fetcher = rep[c].fetcher

LEMMA FrameMild ==
  ASSUME IndInv, Frame, meta'.leader = meta.leader, meta'.leader_epoch = meta.leader_epoch,
         \A b \in Brokers : rt'[b].call = "metadata" => rt'[b] = rt[b] \/ rt'[b].meta = meta
  PROVE  Mild
  BY DEF Frame, Mild

LEMMA FrameStep ==
  ASSUME IndInv, IndInv', ControlInv, FollowInv, Frame,
         meta' = meta, alive' \subseteq alive, log' = log,
         \A b \in Brokers : rt'[b].call = "metadata" => rt'[b] = rt[b] \/ rt'[b].meta = meta
  PROVE  ControlInv' /\ FollowInv'
  <1>1. Mild
    BY FrameMild
  <1>2. QED
    BY <1>1, QuietStep DEF Frame

\* One replica changes in other fields.
LEMMA UpdateFrame ==
  ASSUME IndInv, NEW b \in Brokers, NEW r, rep' = [rep EXCEPT ![b] = r],
         r.epoch = rep[b].epoch, r.is_leader = rep[b].is_leader, r.fetcher = rep[b].fetcher
  PROVE  Frame
  <1>1. rep \in [Brokers -> Replica]
    BY DEF IndInv, TypeInv
  <1>2. QED
    BY <1>1 DEF Frame

LEMMA AdvanceFrame ==
  ASSUME IndInv, NEW b \in Brokers, NEW r \in Replica, Advance(b, r, LogEnd(b)),
         r.epoch = rep[b].epoch, r.is_leader = rep[b].is_leader, r.fetcher = rep[b].fetcher
  PROVE  Frame
  <1> DEFINE n == AdvanceHwm(b, r, LogEnd(b))
  <1>1. n.epoch = r.epoch /\ n.is_leader = r.is_leader /\ n.fetcher = r.fetcher
    <2>1. PICK e \in 0 .. MaxRecords : e = LogEnd(b)
      BY ReplicaType
    <2>2. PICK x : x = AdvanceHwm(b, r, e)
      OBVIOUS
    <2>3. x.epoch = r.epoch /\ x.is_leader = r.is_leader /\ x.fetcher = r.fetcher
      BY <2>2, AdvanceType
    <2>4. QED
      BY <2>1, <2>2, <2>3
  <1>2. rep' = [rep EXCEPT ![b] = n]
    BY DEF Advance
  <1> HIDE DEF n
  <1>3. QED
    BY <1>1, <1>2, UpdateFrame

LEMMA ControllerRestartFollow ==
  ASSUME IndInv, IndInv', ControlInv, FollowInv, ControllerRestart
  PROVE  ControlInv' /\ FollowInv'
  <1>1. /\ meta' = meta /\ alive' = {} /\ log' = log /\ rep' = rep
        /\ rt' = [b \in Brokers |-> Idle]
    BY DEF ControllerRestart, disk
  <1>2. \A b \in Brokers : rt'[b].call # "metadata"
    BY <1>1 DEF Idle
  <1>3. Frame
    BY <1>1 DEF Frame
  <1>4. QED
    BY <1>1, <1>2, <1>3, FrameStep

LEMMA RequestMetadataFollow ==
  ASSUME IndInv, IndInv', ControlInv, FollowInv, NEW b \in Brokers, RequestMetadata(b)
  PROVE  ControlInv' /\ FollowInv'
  <1>1. /\ meta' = meta /\ alive' = alive /\ log' = log
        /\ rt' = [rt EXCEPT ![b] = [call |-> "metadata", meta |-> meta]]
        /\ rep' = [rep EXCEPT ![b].fetcher = IF @ = Pinged THEN NoFetcher ELSE @]
    BY DEF RequestMetadata, disk
  <1>2. rep \in [Brokers -> Replica] /\ rt \in [Brokers -> Call]
    BY DEF IndInv, TypeInv
  <1>3. \A c \in Brokers : rt'[c].call = "metadata" => rt'[c] = rt[c] \/ rt'[c].meta = meta
    BY <1>1, <1>2
  <1>4. \A c \in Brokers :
           /\ rep'[c].epoch = rep[c].epoch /\ rep'[c].is_leader = rep[c].is_leader
           /\ rep'[c].fetcher = rep[c].fetcher \/ rep'[c].fetcher = NoFetcher
    BY <1>1, <1>2 DEF Replica
  <1>5. \A c \in Brokers : rep'[c].fetcher.phase \in Ended \/ rep'[c].fetcher = rep[c].fetcher
    BY <1>4 DEF NoFetcher, Ended
  <1>6. Mild
    BY <1>1, <1>3, <1>4, <1>5 DEF Mild, Ended
  <1>7. QED
    BY <1>1, <1>5, <1>6, QuietStep

LEMMA ProposeIsrFollow ==
  ASSUME IndInv, IndInv', ControlInv, FollowInv, NEW b \in Brokers, ProposeIsr(b)
  PROVE  ControlInv' /\ FollowInv'
  <1>1. /\ meta' = meta /\ alive' = alive /\ log' = log /\ rep' = rep
        /\ rt' = [rt EXCEPT ![b] = [call |-> "alter", epoch |-> rep[b].epoch, isr |-> Desired(b)]]
    BY DEF ProposeIsr, disk
  <1>2. \A c \in Brokers : rt'[c].call = "metadata" => rt'[c] = rt[c]
    BY <1>1 DEF IndInv, TypeInv
  <1>3. Frame
    BY <1>1 DEF Frame
  <1>4. QED
    BY <1>1, <1>2, <1>3, FrameStep

LEMMA LoseCallFollow ==
  ASSUME IndInv, IndInv', ControlInv, FollowInv, NEW b \in Brokers, LoseCall(b)
  PROVE  ControlInv' /\ FollowInv'
  <1>1. /\ meta' = meta /\ alive' = alive /\ log' = log /\ rep' = rep
        /\ rt' = [rt EXCEPT ![b] = Idle]
    BY DEF LoseCall, disk
  <1>2. \A c \in Brokers : rt'[c].call = "metadata" => rt'[c] = rt[c]
    BY <1>1 DEF IndInv, TypeInv, Idle
  <1>3. Frame
    BY <1>1 DEF Frame
  <1>4. QED
    BY <1>1, <1>2, <1>3, FrameStep

LEMMA LagExpiresFollow ==
  ASSUME IndInv, IndInv', ControlInv, FollowInv, NEW b \in Brokers, NEW f \in Brokers,
         LagExpires(b, f)
  PROVE  ControlInv' /\ FollowInv'
  <1>1. /\ meta' = meta /\ alive' = alive /\ log' = log /\ rt' = rt
        /\ rep' = [rep EXCEPT ![b].recent = @ \ {f}]
    BY DEF LagExpires, disk
  <1> DEFINE r == [rep[b] EXCEPT !.recent = @ \ {f}]
  <1>2. r.epoch = rep[b].epoch /\ r.is_leader = rep[b].is_leader /\ r.fetcher = rep[b].fetcher
    BY ReplicaType DEF Replica
  <1>3. rep' = [rep EXCEPT ![b] = r]
    BY <1>1
  <1> HIDE DEF r
  <1>4. Frame
    BY <1>2, <1>3, UpdateFrame
  <1>5. QED
    BY <1>1, <1>4, FrameStep

LEMMA ProduceTimeoutFollow ==
  ASSUME IndInv, IndInv', ControlInv, FollowInv, NEW b \in Brokers, NEW a, ProduceTimeout(b, a)
  PROVE  ControlInv' /\ FollowInv'
  <1>1. /\ meta' = meta /\ alive' = alive /\ log' = log /\ rt' = rt
        /\ rep' = [rep EXCEPT ![b].pending_all = @ \ {a}]
    BY DEF ProduceTimeout, disk
  <1>2. Frame
    BY SMTT(30), <1>1 DEF Frame, IndInv, TypeInv, Replica
  <1>3. QED
    BY <1>1, <1>2, FrameStep

LEMMA StartBrokerFollow ==
  ASSUME IndInv, IndInv', ControlInv, FollowInv, NEW b \in Brokers, StartBroker(b)
  PROVE  ControlInv' /\ FollowInv'
  <1>1. meta' = meta /\ alive' = alive /\ log' = log /\ rt' = rt /\ rep' = rep
    BY DEF StartBroker, disk
  <1>2. Frame
    BY <1>1 DEF Frame
  <1>3. QED
    BY <1>1, <1>2, FrameStep

LEMMA ParkProduceFollow ==
  ASSUME IndInv, IndInv', ControlInv, FollowInv, NEW b \in Brokers, NEW a \in rep[b].appended,
         ParkProduce(b, a)
  PROVE  ControlInv' /\ FollowInv'
  <1>1. rep[b] \in Replica
    BY ReplicaType
  <1>2. rep[b].appended \in SUBSET Pairs /\ rep[b].pending_all \in SUBSET Pairs
    BY <1>1 DEF Replica
  <1> DEFINE m == rep[b].appended \ {a}
             p == rep[b].pending_all \cup {a}
             n == [rep[b] EXCEPT !.appended = m, !.pending_all = p]
  <1>3. m \in SUBSET Pairs /\ p \in SUBSET Pairs
    BY <1>2
  <1>4. /\ n \in Replica /\ n.fetcher = rep[b].fetcher /\ n.is_leader = rep[b].is_leader
        /\ n.epoch = rep[b].epoch
    <2> HIDE DEF m, p
    <2>1. QED
      BY <1>1, <1>3 DEF Replica
  <1>5. Advance(b, n, LogEnd(b))
    BY DEF ParkProduce
  <1> HIDE DEF n
  <1>6. Frame
    BY <1>4, <1>5, AdvanceFrame
  <1>7. meta' = meta /\ alive' = alive /\ log' = log /\ rt' = rt
    BY DEF ParkProduce, disk
  <1>8. QED
    BY <1>6, <1>7, FrameStep

LEMMA AdoptFrame ==
  ASSUME IndInv, NEW b \in Brokers, NEW epoch, NEW isr \in SUBSET Brokers, NEW ok,
         Adopt(b, epoch, isr, ok)
  PROVE  Frame
  <1>1. rep[b] \in Replica
    BY ReplicaType
  <1> DEFINE n == [rep[b] EXCEPT !.isr = isr]
  <1>2. /\ n \in Replica /\ n.fetcher = rep[b].fetcher /\ n.is_leader = rep[b].is_leader
        /\ n.epoch = rep[b].epoch
    BY <1>1 DEF Replica
  <1>3. Advance(b, n, LogEnd(b)) \/ Advance(b, rep[b], LogEnd(b))
    BY DEF Adopt
  <1> HIDE DEF n
  <1>4. CASE Advance(b, n, LogEnd(b))
    BY <1>2, <1>4, AdvanceFrame
  <1>5. CASE Advance(b, rep[b], LogEnd(b))
    BY <1>1, <1>5, AdvanceFrame
  <1>6. QED
    BY <1>3, <1>4, <1>5

LEMMA AdoptIsrFollow ==
  ASSUME IndInv, IndInv', ControlInv, FollowInv, NEW b \in Brokers, AdoptIsr(b)
  PROVE  ControlInv' /\ FollowInv'
  <1>1. rt[b].isr \in SUBSET Brokers
    BY ReplicaType DEF AdoptIsr, Call, Idle
  <1>2. Frame
    BY <1>1, AdoptFrame DEF AdoptIsr
  <1>3. meta' = meta /\ alive' = alive /\ log' = log /\ rt' = [rt EXCEPT ![b] = Idle]
    BY DEF AdoptIsr, disk
  <1>4. \A c \in Brokers : rt'[c].call = "metadata" => rt'[c] = rt[c]
    BY <1>3 DEF IndInv, TypeInv, Idle
  <1>5. QED
    BY <1>2, <1>3, <1>4, FrameStep

\* A fetcher ends.
LEMMA FetcherEnds ==
  ASSUME IndInv, IndInv', ControlInv, FollowInv, NEW f \in Brokers, SetFetcher(f, Pinged),
         meta' = meta, alive' = alive, log' = log, rt' = rt
  PROVE  ControlInv' /\ FollowInv'
  <1>1. rep \in [Brokers -> Replica] /\ rep' = [rep EXCEPT ![f].fetcher = Pinged]
    BY DEF IndInv, TypeInv, SetFetcher
  <1>2. \A c \in Brokers :
           /\ rep'[c].epoch = rep[c].epoch /\ rep'[c].is_leader = rep[c].is_leader
           /\ rep'[c].fetcher = rep[c].fetcher \/ rep'[c].fetcher = Pinged
    BY <1>1 DEF Replica
  <1>3. Pinged.phase \in Ended
    BY DEF Pinged, Ended
  <1>4. Mild
    BY <1>2, <1>3 DEF Mild
  <1>5. QED
    BY <1>2, <1>3, <1>4, QuietStep

LEMMA LoseFetchFollow ==
  ASSUME IndInv, IndInv', ControlInv, FollowInv, NEW f \in Brokers, LoseFetch(f)
  PROVE  ControlInv' /\ FollowInv'
  BY FetcherEnds DEF LoseFetch, disk

------------------------------------------------------------------------------
(* Changes of the ISR *)

\* The controller takes an ISR from the leader of its epoch only, and never without
\* the leader.
LEMMA AlterIsrTakes ==
  ASSUME IndInv, NEW b, NEW epoch, NEW isr \in SUBSET Brokers, NEW ok, NEW atOnce,
         AlterIsr(b, epoch, isr, ok, atOnce)
  PROVE  \/ meta' = meta
         \/ /\ meta' = [meta EXCEPT !.isr = isr] /\ meta'.isr = isr
            /\ meta'.leader = meta.leader /\ meta'.leader_epoch = meta.leader_epoch
            /\ ok /\ epoch = meta.leader_epoch /\ meta.leader \in isr
  <1>1. meta \in PartitionState
    BY DEF IndInv, TypeInv, Tuple
  <1>2. ~ ok => meta' = meta
    BY DEF AlterIsr
  <1>3. ASSUME ok
        PROVE  /\ meta' = [meta EXCEPT !.isr = isr]
               /\ epoch = meta.leader_epoch /\ meta.leader \in isr
    <2>1. meta' = [meta EXCEPT !.isr = isr] /\ AlterIsrError(meta, epoch, isr) = "None"
      BY <1>3 DEF AlterIsr
    <2>2. epoch = meta.leader_epoch
      BY <2>1 DEF AlterIsrError
    <2>3. meta.leader \in isr
      BY <2>1, <2>2 DEF AlterIsrError
    <2>4. QED
      BY <2>1, <2>2, <2>3
  <1>4. QED
    BY <1>1, <1>2, <1>3 DEF PartitionState

\* An ISR that only shrinks, or one that is asked for and got in one step.
LEMMA IsrStep ==
  ASSUME IndInv, IndInv', ControlInv, FollowInv, Frame,
         meta'.leader = meta.leader, meta'.leader_epoch = meta.leader_epoch,
         meta' = meta \/ meta.leader \in meta'.isr,
         alive' = alive, log' = log,
         \A b \in Brokers : rt'[b].call = "metadata" => rt'[b] = rt[b] \/ rt'[b].meta = meta,
         \A b \in meta'.isr, e \in Nat :
            IsReign(b, e) /\ e < meta.leader_epoch => b \in meta.isr /\ meta'.isr \subseteq meta.isr
  PROVE  ControlInv' /\ FollowInv'
  <1>1. Mild
    BY FrameMild
  <1>2. meta' \in Tuple
    BY DEF IndInv, TypeInv
  <1>3. OfflineInv'
    <2>1. CASE meta' = meta
      BY <2>1 DEF ControlInv, OfflineInv
    <2>2. CASE meta.leader \in meta'.isr
      <3>1. meta'.isr \in SUBSET Brokers
        BY <1>2 DEF Tuple, PartitionState
      <3>2. meta'.leader # NoLeader
        BY <2>2, <3>1, NoLeaderAssumption
      <3>3. QED
        BY <3>2 DEF OfflineInv
    <2>3. QED
      BY <2>1, <2>2
  <1>4. ASSUME NEW l \in Brokers PROVE Shares(log[l], LogEnd(l), log'[l])
    BY LogTypes DEF Shares
  <1>5. QED
    BY <1>1, <1>3, <1>4, MildStep DEF Frame

LEMMA DecideIsrFollow ==
  ASSUME IndInv, IndInv', ControlInv, FollowInv, Undisturbed', NEW b \in Brokers, DecideIsr(b)
  PROVE  ControlInv' /\ FollowInv'
  <1>1. PICK ok \in BOOLEAN :
            /\ AlterIsr(b, rt[b].epoch, rt[b].isr, ok, FALSE)
            /\ rt' = [rt EXCEPT ![b] = [call |-> "altered", ok |-> ok,
                                        epoch |-> rt[b].epoch, isr |-> rt[b].isr]]
    BY DEF DecideIsr
  <1>2. rt[b].isr \in SUBSET Brokers
    BY ReplicaType DEF DecideIsr, Call, Idle
  <1>3. \/ meta' = meta
        \/ /\ meta'.leader = meta.leader /\ meta'.leader_epoch = meta.leader_epoch
           /\ meta.leader \in meta'.isr
    BY <1>1, <1>2, AlterIsrTakes
  <1>4. meta'.isr \subseteq meta.isr
    <2>1. \/ meta'.isr \ meta.isr = {}
          \/ Count({"stale"})
      BY <1>1 DEF AlterIsr, Readmit
    <2>2. ~ Count({"stale"})
      BY NoneCounted DEF Disturbances
    <2>3. QED
      BY <2>1, <2>2
  <1>5. \A c \in Brokers : rt'[c].call = "metadata" => rt'[c] = rt[c]
    BY <1>1 DEF IndInv, TypeInv
  <1>6. alive' = alive /\ log' = log /\ rep' = rep
    BY DEF DecideIsr, disk
  <1>7. Frame
    BY <1>6 DEF Frame
  <1>8. QED
    BY <1>3, <1>4, <1>5, <1>6, <1>7, IsrStep

LEMMA ChangeIsrFollow ==
  ASSUME IndInv, IndInv', ControlInv, FollowInv, Undisturbed', NEW b \in Brokers, ChangeIsr(b)
  PROVE  ControlInv' /\ FollowInv'
  <1>1. PICK ok \in BOOLEAN :
            /\ AlterIsr(b, rep[b].epoch, Desired(b), ok, TRUE)
            /\ Adopt(b, rep[b].epoch, Desired(b), ok)
    BY DEF ChangeIsr
  <1>2. Desired(b) \in SUBSET Brokers
    BY DesiredType
  <1>3. \/ meta' = meta
        \/ /\ meta'.leader = meta.leader /\ meta'.leader_epoch = meta.leader_epoch
           /\ meta.leader \in meta'.isr /\ rep[b].epoch = meta.leader_epoch
    <2>1. PICK d \in SUBSET Brokers, u \in {rep[b].epoch} : AlterIsr(b, u, d, ok, TRUE)
      BY <1>1, <1>2
    <2>2. \/ meta' = meta
          \/ /\ meta'.isr = d /\ meta'.leader = meta.leader /\ meta'.leader_epoch = meta.leader_epoch
             /\ u = meta.leader_epoch /\ meta.leader \in d
      BY <2>1, AlterIsrTakes
    <2>3. QED
      BY <2>2
  <1>4. alive' = alive /\ log' = log /\ rt' = rt
    BY DEF ChangeIsr, disk
  <1>5. Frame
    BY <1>1, <1>2, AdoptFrame
  <1>6. rep[b].is_leader /\ rt[b] = Idle
    BY DEF ChangeIsr, WantsIsr, Heartbeats
  <1>7. \A f \in meta'.isr \ meta.isr : Follows(f, b)
    <2>1. \/ meta'.isr \ meta.isr = {}
          \/ \A f \in meta'.isr \ meta.isr : Follows(f, b)
          \/ Count({"stale"})
      BY <1>1 DEF AlterIsr, Readmit
    <2>2. ~ Count({"stale"})
      BY NoneCounted DEF Disturbances
    <2>3. QED
      BY <2>1, <2>2
  <1>8. ASSUME rep[b].epoch = meta.leader_epoch, meta.leader \in meta'.isr,
               NEW z \in meta'.isr, NEW e \in Nat, IsReign(z, e), e < meta.leader_epoch
        PROVE  FALSE
    <2>1. z \in Brokers /\ rep[z].epoch \in Nat /\ meta.leader_epoch \in Nat /\ meta.leader \in Brokers
          /\ (rt[z].call = "metadata" => rt[z].meta.leader_epoch \in Nat)
      <3>1. meta' \in Tuple
        BY DEF IndInv, TypeInv
      <3>2. meta'.isr \in SUBSET Brokers
        BY <3>1 DEF Tuple, PartitionState
      <3>3. QED
        BY <1>8, <3>2, EpochTypes
    <2>2. CASE z \in meta.isr
      <3>1. Owns(z, e, meta.leader_epoch)
        BY <1>8, <2>1, <2>2 DEF ControlInv, DeposedInv
      <3>2. IsView(b, meta.leader_epoch)
        BY <1>6, <1>8 DEF IsView
      <3>3. b = z
        BY <1>8, <2>1, <3>1, <3>2 DEF Owns
      <3>4. QED
        BY <1>6, <1>8, <2>1, <3>3 DEF IsReign, Idle
    <2>3. CASE z \notin meta.isr
      <3>1. Follows(z, b)
        BY <1>7, <1>8, <2>3
      <3>2. rep[z].fetcher.phase \notin Ended /\ rep[z].fetcher.epoch = rep[b].epoch
        BY <3>1 DEF Follows, Connected, Ended
      <3>3. rep[z].epoch = meta.leader_epoch
        BY <1>8, <2>1, <3>2 DEF ControlInv, EpochInv
      <3>4. ~ rep[z].is_leader
        BY <2>1, <3>2, ReplicaType
      <3>5. rt[z].call = "metadata" => rep[z].epoch <= rt[z].meta.leader_epoch
        BY <2>1 DEF ControlInv, EpochInv
      <3>6. QED
        BY <1>8, <2>1, <3>3, <3>4, <3>5 DEF IsReign
    <2>4. QED
      BY <2>2, <2>3
  <1>9. CASE meta' = meta
    BY <1>4, <1>5, <1>9, IsrStep
  <1>10. CASE /\ meta'.leader = meta.leader /\ meta'.leader_epoch = meta.leader_epoch
              /\ meta.leader \in meta'.isr /\ rep[b].epoch = meta.leader_epoch
    BY <1>4, <1>5, <1>8, <1>10, IsrStep
  <1>11. QED
    BY <1>3, <1>9, <1>10

------------------------------------------------------------------------------
(* Produce *)

LEMMA ProduceFollow ==
  ASSUME IndInv, IndInv', ControlInv, FollowInv, Undisturbed', NEW b \in Brokers,
         NEW all \in BOOLEAN, Produce(b, all)
  PROVE  ControlInv' /\ FollowInv'
  <1>1. ~ Preempted
    <2>1. ~ Count({"delays", "preemptions"})
      BY NoneCounted DEF Disturbances
    <2>2. QED
      BY <2>1 DEF Preempted
  <1>2. PICK v \in {produced'} : Write(b, v, all)
    BY <1>1 DEF Produce
  <1>3. /\ meta' = meta /\ alive' = alive /\ rt' = rt
        /\ rep' = [rep EXCEPT ![b].appended = IF all THEN @ \cup {<<LogEnd(b), v>>} ELSE @]
        /\ log' = [log EXCEPT ![b] = Append(@, v)]
    BY <1>2 DEF Produce, Write
  <1>4. rep[b].fetcher.phase \in Ended
    BY ReplicaType DEF Produce
  <1> DEFINE r == [rep[b] EXCEPT !.appended = IF all THEN @ \cup {<<LogEnd(b), v>>} ELSE @]
  <1>5. r.epoch = rep[b].epoch /\ r.is_leader = rep[b].is_leader /\ r.fetcher = rep[b].fetcher
    BY ReplicaType DEF Replica
  <1>6. rep' = [rep EXCEPT ![b] = r]
    BY <1>3
  <1> HIDE DEF r
  <1>7. Frame
    BY <1>5, <1>6, UpdateFrame
  <1>8. Mild
    BY <1>3, <1>7, FrameMild
  <1>9. OfflineInv'
    BY <1>3 DEF ControlInv, OfflineInv
  <1>10. log \in [Brokers -> Seq(Ids)]
    BY DEF IndInv, TypeInv
  <1>11. \A g \in Brokers : g # b => log'[g] = log[g]
    BY <1>3, <1>10
  <1>12. ASSUME NEW l \in Brokers PROVE Shares(log[l], LogEnd(l), log'[l])
    <2>1. CASE l # b
      BY <1>11, <2>1, LogTypes DEF Shares
    <2>2. CASE l = b
      <3>1. PICK s \in Seq(Ids) : s = log[b] /\ LogEnd(b) = Len(s)
        BY LogTypes
      <3>2. log'[b] = Append(s, v)
        BY <1>3, <1>10, <3>1
      <3>3. /\ Len(Append(s, v)) = Len(s) + 1 /\ Len(s) \in Nat
            /\ \A i \in 1 .. Len(s) : Append(s, v)[i] = s[i]
        OBVIOUS
      <3>4. QED
        BY <2>2, <3>1, <3>2, <3>3 DEF Shares
    <2>3. QED
      BY <2>1, <2>2
  <1>13. QED
    BY <1>3, <1>4, <1>7, <1>8, <1>9, <1>11, <1>12, MildStep DEF Frame

------------------------------------------------------------------------------
(* Elections *)

\* Whoever leads or is about to is held for the leader.
LEMMA ReignIsView ==
  ASSUME NEW b \in Brokers, NEW e, IsReign(b, e)
  PROVE  IsView(b, e)
  BY DEF IsReign, IsView

\* What an election does.
LEMMA Elects ==
  ASSUME IndInv, NEW live \in SUBSET Brokers, ElectAmong(live)
  PROVE  \/ meta' = meta /\ meta.leader \in live
         \/ /\ meta.isr \cap live = {} /\ meta.leader \notin live
            /\ meta'.leader = NoLeader /\ meta'.leader_epoch = meta.leader_epoch
            /\ meta'.isr = meta.isr
         \/ /\ meta.leader \notin live
            /\ meta'.leader \in meta.isr \cap live
            /\ meta'.leader_epoch = meta.leader_epoch + 1
            /\ meta'.isr = meta.isr \cap live
  <1>1. PICK c \in Candidates(meta, live) : meta' = Elect(meta, c, live)
    BY DEF ElectAmong
  <1>2. meta \in PartitionState
    BY DEF IndInv, TypeInv, Tuple
  <1>3. meta.isr \in SUBSET Brokers
    BY <1>2 DEF PartitionState
  <1>4. CASE meta.leader \in live
    BY <1>1, <1>4 DEF Elect
  <1>5. CASE meta.leader \notin live /\ meta.isr \cap live = {}
    <2>1. c = NoLeader
      BY <1>1, <1>5 DEF Candidates
    <2>2. meta' = [meta EXCEPT !.leader = NoLeader]
      BY <1>1, <1>5, <2>1 DEF Elect
    <2>3. QED
      BY <1>2, <1>5, <2>2 DEF PartitionState
  <1>6. CASE meta.leader \notin live /\ meta.isr \cap live # {}
    <2>1. c \in meta.isr \cap live
      BY <1>1, <1>6 DEF Candidates
    <2>2. c # NoLeader
      BY <1>3, <2>1, NoLeaderAssumption
    <2>3. meta' = [meta EXCEPT !.leader = c, !.leader_epoch = @ + 1, !.isr = @ \cap live]
      BY <1>1, <1>6, <2>2 DEF Elect
    <2>4. QED
      BY <1>2, <1>6, <2>1, <2>3 DEF PartitionState
  <1>7. QED
    BY <1>4, <1>5, <1>6

\* A deposed leader that can be elected again is the only candidate of a partition
\* that was offline, and nobody has led since.
LEMMA DeposedCandidate ==
  ASSUME IndInv, ControlInv, NEW live \in SUBSET Brokers, meta.leader \notin live,
         NEW r \in Brokers, live \subseteq alive \cup {r},
         NEW b \in meta.isr \cap live, NEW e \in Nat, IsReign(b, e)
  PROVE  meta.isr \cap live = {b} /\ Owns(b, e, meta.leader_epoch)
  <1>1. /\ b \in Brokers /\ meta.leader_epoch \in Nat /\ meta.leader \in Brokers \cup {NoLeader}
    BY EpochTypes
  <1>2. IsView(b, e) /\ e <= meta.leader_epoch
    BY <1>1, ReignIsView, ViewEpochs DEF ControlInv
  <1>3. Owns(b, e, meta.leader_epoch)
    <2>1. CASE e < meta.leader_epoch
      BY <1>1, <2>1 DEF ControlInv, DeposedInv
    <2>2. CASE e = meta.leader_epoch
      <3>1. ASSUME NEW l \in Brokers, NEW u \in Nat, IsView(l, u), e <= u, u <= meta.leader_epoch
            PROVE  l = b
        <4>1. u = e
          BY <1>1, <2>2, <3>1
        <4>2. QED
          BY <1>1, <1>2, <3>1, <4>1 DEF ControlInv, OneLeader
      <3>2. QED
        BY <3>1 DEF Owns
    <2>3. QED
      BY <1>1, <1>2, <2>1, <2>2
  <1>4. meta.leader = NoLeader
    <2>1. IsView(meta.leader, meta.leader_epoch)
      BY DEF IsView
    <2>2. meta.leader \in Brokers => meta.leader = b
      BY <1>1, <1>2, <1>3, <2>1 DEF Owns
    <2>3. QED
      BY <1>1, <2>2
  <1>5. meta.isr \cap alive = {}
    BY <1>4 DEF ControlInv, OfflineInv
  <1>6. QED
    BY <1>3, <1>5

\* Elections keep the invariant.
LEMMA ElectFollow ==
  ASSUME IndInv, IndInv', ControlInv, FollowInv, NEW r \in Brokers,
         alive' \subseteq alive \cup {r}, ElectAmong(alive'),
         rep' = rep, rt' = rt, log' = log
  PROVE  ControlInv' /\ FollowInv'
  <1>1. PICK live \in SUBSET Brokers : live = alive'
    BY DEF IndInv, TypeInv
  <1>2. PICK n \in Nat : n = meta.leader_epoch
    BY EpochTypes
  <1>3. \A l \in Brokers, e \in Nat : IsView(l, e) => e <= n
    BY <1>2, ViewEpochs DEF ControlInv
  <1>4. \A b \in Brokers, e \in Nat : IsReign(b, e)' <=> IsReign(b, e)
    BY DEF IsReign
  <1>5. \A b \in Brokers, e \in Nat : IsReign(b, e) => IsView(b, e)
    BY ReignIsView
  <1>6. CASE meta' = meta /\ meta.leader \in live
    <2>1. OfflineInv'
      <3>1. meta.leader # NoLeader
        BY <1>6, NoLeaderAssumption
      <3>2. QED
        BY <1>6, <3>1 DEF OfflineInv
    <2>2. ASSUME NEW l \in Brokers PROVE Shares(log[l], LogEnd(l), log'[l])
      BY LogTypes DEF Shares
    <2>3. Mild
      BY <1>6, FrameMild DEF Frame
    <2>4. QED
      BY <1>6, <2>1, <2>2, <2>3, MildStep
  <1>7. CASE /\ meta.isr \cap live = {}
             /\ meta'.leader = NoLeader /\ meta'.leader_epoch = meta.leader_epoch
             /\ meta'.isr = meta.isr
    <2>1. \A l \in Brokers, e \in Nat : IsView(l, e)' => IsView(l, e)
      BY <1>7, NoLeaderAssumption DEF IsView
    <2>2. \A b \in Brokers, a, u \in Nat : Owns(b, a, u) => Owns(b, a, u)'
      BY <2>1 DEF Owns
    <2>3. EpochInv'
      BY <1>7 DEF ControlInv, EpochInv
    <2>4. OneLeader'
      BY <2>1 DEF ControlInv, OneLeader
    <2>5. OfflineInv'
      BY <1>1, <1>7 DEF OfflineInv
    <2>6. DeposedInv'
      <3>1. ASSUME NEW b \in Brokers, NEW e \in Nat, IsReign(b, e)', e < n, b \in meta'.isr
            PROVE  meta'.isr = {b} /\ Owns(b, e, n)'
        <4>1. meta.isr = {b} /\ Owns(b, e, n)
          BY <1>2, <1>4, <1>7, <3>1 DEF ControlInv, DeposedInv
        <4>2. QED
          BY <1>7, <2>2, <4>1
      <3>2. QED
        BY <1>2, <1>7, <3>1 DEF DeposedInv
    <2>7. ReelectedInv'
      BY <1>4, <2>1, <2>2 DEF ControlInv, ReelectedInv
    <2>8. FollowInv'
      <3>1. ASSUME NEW f \in Brokers, Current(f)'
            PROVE  /\ rep[rep[f].fetcher.leader].fetcher.phase \in Ended
                   /\ Owns(rep[f].fetcher.leader, rep[rep[f].fetcher.leader].epoch, rep[f].fetcher.epoch)'
                   /\ Agrees(f)'
        <4>1. PICK l \in Brokers, u \in Nat : l = rep[f].fetcher.leader /\ u = rep[f].fetcher.epoch
          BY <3>1, LiveFetcher DEF Current, Connected, Ended
        <4>2. PICK a \in Nat : a = rep[l].epoch
          BY EpochTypes
        <4>3. rep[l].fetcher.phase \in Ended /\ Owns(l, a, u) /\ Agrees(f)
          BY <3>1, <4>1, <4>2 DEF FollowInv, Current
        <4>4. Owns(l, a, u)'
          BY <2>2, <4>3
        <4>5. Agrees(f)'
          BY <4>3 DEF Agrees, KeptLen, LogEnd
        <4>6. QED
          BY <4>1, <4>2, <4>3, <4>4, <4>5
      <3>2. QED
        BY <3>1 DEF FollowInv
    <2>9. QED
      BY <2>3, <2>4, <2>5, <2>6, <2>7, <2>8 DEF ControlInv
  <1>8. CASE /\ meta.leader \notin live
             /\ meta'.leader \in meta.isr \cap live
             /\ meta'.leader_epoch = meta.leader_epoch + 1
             /\ meta'.isr = meta.isr \cap live
    <2>1. PICK c \in Brokers : c = meta'.leader
      BY <1>1, <1>8
    <2>2. \A l \in Brokers, e \in Nat : IsView(l, e)' => IsView(l, e) \/ (l = c /\ e = n + 1)
      BY <1>2, <1>8, <2>1 DEF IsView
    <2>3. ASSUME NEW b \in Brokers, NEW a \in Nat, NEW u \in Nat, Owns(b, a, u), u <= n
          PROVE  Owns(b, a, u)'
      BY <2>2, <2>3 DEF Owns
    <2>4. EpochInv'
      <3>1. ASSUME NEW b \in Brokers
            PROVE  /\ rep[b].epoch <= n + 1
                   /\ rt[b].call = "metadata" => rt[b].meta.leader_epoch <= n + 1
        BY <1>2, EpochTypes DEF ControlInv, EpochInv
      <3>2. QED
        BY <1>2, <1>8, <3>1 DEF ControlInv, EpochInv
    <2>5. OneLeader'
      BY <1>3, <2>2 DEF ControlInv, OneLeader
    <2>6. OfflineInv'
      BY <2>1, NoLeaderAssumption DEF OfflineInv
    <2>7. ASSUME NEW b \in meta.isr \cap live, NEW e \in Nat, IsReign(b, e)
          PROVE  b = c /\ meta'.isr = {b} /\ Owns(b, e, n + 1)'
      <3>1. meta.isr \cap live = {b} /\ Owns(b, e, n)
        BY <1>1, <1>2, <1>8, <2>7, DeposedCandidate
      <3>2. b = c
        BY <1>8, <2>1, <3>1
      <3>3. Owns(b, e, n + 1)'
        BY <1>1, <1>3, <2>2, <3>1, <3>2 DEF Owns
      <3>4. QED
        BY <1>8, <3>1, <3>2, <3>3
    <2>8. DeposedInv'
      <3>1. ASSUME NEW b \in Brokers, NEW e \in Nat, IsReign(b, e)', b \in meta'.isr
            PROVE  meta'.isr = {b} /\ Owns(b, e, n + 1)'
        BY <1>4, <1>8, <2>7, <3>1
      <3>2. meta'.leader_epoch = n + 1
        BY <1>2, <1>8
      <3>3. QED
        BY <3>1, <3>2 DEF DeposedInv
    <2>9. ReelectedInv'
      <3>1. ASSUME NEW b \in Brokers, NEW e \in Nat, NEW u \in Nat, IsReign(b, e)', IsView(b, u)'
            PROVE  Owns(b, e, u)'
        <4>1. CASE IsView(b, u)
          BY <1>3, <1>4, <2>3, <3>1, <4>1 DEF ControlInv, ReelectedInv
        <4>2. CASE b = c /\ u = n + 1
          BY <1>4, <1>8, <2>1, <2>7, <3>1, <4>2
        <4>3. QED
          BY <2>2, <3>1, <4>1, <4>2
      <3>2. QED
        BY <3>1 DEF ReelectedInv
    <2>10. FollowInv'
      <3>1. ASSUME NEW f \in Brokers, Current(f)'
            PROVE  /\ rep[rep[f].fetcher.leader].fetcher.phase \in Ended
                   /\ Owns(rep[f].fetcher.leader, rep[rep[f].fetcher.leader].epoch, rep[f].fetcher.epoch)'
                   /\ Agrees(f)'
        <4>1. PICK l \in Brokers, u \in Nat : l = rep[f].fetcher.leader /\ u = rep[f].fetcher.epoch
          BY <3>1, LiveFetcher DEF Current, Connected, Ended
        <4>2. PICK a \in Nat : a = rep[l].epoch
          BY EpochTypes
        <4>3. rep[l].fetcher.phase \in Ended /\ Owns(l, a, u) /\ Agrees(f)
          BY <3>1, <4>1, <4>2 DEF FollowInv, Current
        <4>4. u <= n
          <5>1. IsView(l, u)
            BY <3>1, <4>1 DEF IsView, Current, Connected, Ended
          <5>2. QED
            BY <1>3, <5>1
        <4>5. Owns(l, a, u)'
          BY <2>3, <4>3, <4>4
        <4>6. Agrees(f)'
          BY <4>3 DEF Agrees, KeptLen, LogEnd
        <4>7. QED
          BY <4>1, <4>2, <4>3, <4>5, <4>6
      <3>2. QED
        BY <3>1 DEF FollowInv
    <2>11. QED
      BY <2>4, <2>5, <2>6, <2>8, <2>9, <2>10 DEF ControlInv
  <1>9. QED
    BY <1>1, <1>6, <1>7, <1>8, Elects

LEMMA ExpireFollow ==
  ASSUME IndInv, IndInv', ControlInv, FollowInv, NEW dead \in SUBSET alive, Expire(dead)
  PROVE  ControlInv' /\ FollowInv'
  <1>1. PICK r \in dead : TRUE
    BY DEF Expire
  <1>2. r \in Brokers
    BY <1>1, EpochTypes
  <1>3. alive' \subseteq alive \cup {r} /\ ElectAmong(alive') /\ rep' = rep /\ rt' = rt /\ log' = log
    BY DEF Expire, disk
  <1>4. QED
    BY <1>2, <1>3, ElectFollow

LEMMA ReviveFollow ==
  ASSUME IndInv, IndInv', ControlInv, FollowInv, NEW b \in Brokers, Revive(b)
  PROVE  ControlInv' /\ FollowInv'
  <1>1. alive' \subseteq alive \cup {b} /\ ElectAmong(alive') /\ rep' = rep /\ rt' = rt /\ log' = log
    BY DEF Revive, disk
  <1>2. QED
    BY <1>1, ElectFollow

------------------------------------------------------------------------------
(* Metadata *)

\* What a broker is once it has applied the tuple m.
LEMMA ApplyRole ==
  ASSUME IndInv, NEW b \in Brokers, NEW m \in Tuple, Apply(b, m)
  PROVE  /\ \A c \in Brokers \ {b} : rep'[c] = rep[c]
         /\ rep'[b].epoch = m.leader_epoch /\ rep'[b].is_leader = (m.leader = b)
         /\ \/ rep'[b].fetcher.phase \in Ended
            \/ rep'[b].fetcher = rep[b].fetcher /\ rep[b].epoch = m.leader_epoch
            \/ /\ m.leader \in Brokers \ {b} /\ rep'[b].fetcher.phase = "connect"
               /\ rep'[b].fetcher.leader = m.leader /\ rep'[b].fetcher.epoch = m.leader_epoch
  <1>1. rep[b] \in Replica /\ rep \in [Brokers -> Replica] /\ LogEnd(b) \in 0 .. MaxRecords
    BY ReplicaType DEF IndInv, TypeInv
  <1>2. m.leader \in Brokers \cup {NoLeader}
    BY DEF Tuple, PartitionState
  <1>3. NoFetcher.phase \in Ended
    BY DEF NoFetcher, Ended
  <1>4. \/ SpawnFetcher(m) = NoFetcher
        \/ /\ m.leader \in Brokers /\ SpawnFetcher(m).phase = "connect"
           /\ SpawnFetcher(m).leader = m.leader /\ SpawnFetcher(m).epoch = m.leader_epoch
    BY <1>2 DEF SpawnFetcher, Fetcher
  <1>5. ASSUME NEW r \in Replica, Advance(b, r, LogEnd(b))
        PROVE  /\ \A c \in Brokers \ {b} : rep'[c] = rep[c]
               /\ rep'[b].epoch = r.epoch /\ rep'[b].is_leader = r.is_leader
               /\ rep'[b].fetcher = r.fetcher
    <2>1. PICK e \in 0 .. MaxRecords : e = LogEnd(b)
      BY <1>1
    <2>2. PICK n : n = AdvanceHwm(b, r, e)
      OBVIOUS
    <2>3. n.epoch = r.epoch /\ n.is_leader = r.is_leader /\ n.fetcher = r.fetcher
      BY <2>2, AdvanceType
    <2>4. rep' = [rep EXCEPT ![b] = n]
      BY <1>5, <2>1, <2>2 DEF Advance
    <2>5. QED
      BY <1>1, <2>3, <2>4
  <1>6. CASE /\ rep[b].epoch = m.leader_epoch /\ rep[b].is_leader = (m.leader = b)
             /\ Advance(b, Refreshed(rep[b], m), LogEnd(b))
    <2>1. PICK r \in Replica : r = Refreshed(rep[b], m)
      BY RefreshedType
    <2>2. /\ r.epoch = rep[b].epoch /\ r.is_leader = rep[b].is_leader
          /\ \/ r.fetcher = rep[b].fetcher
             \/ ~ rep[b].is_leader /\ r.fetcher = SpawnFetcher(m)
      BY <1>1, <2>1 DEF Refreshed, Replica
    <2>3. Advance(b, r, LogEnd(b))
      BY <1>6, <2>1
    <2>4. /\ \A c \in Brokers \ {b} : rep'[c] = rep[c]
          /\ rep'[b].epoch = r.epoch /\ rep'[b].is_leader = r.is_leader
          /\ rep'[b].fetcher = r.fetcher
      BY <1>5, <2>3
    <2>5. QED
      BY <1>3, <1>4, <1>6, <2>2, <2>4
  <1>7. CASE m.leader # b /\ rep' = [rep EXCEPT ![b] = Demoted(rep[b], m)]
    <2>1. PICK r \in Replica : r = Demoted(rep[b], m)
      BY DemotedType
    <2>2. r.epoch = m.leader_epoch /\ r.is_leader = FALSE /\ r.fetcher = SpawnFetcher(m)
      BY <1>1, <2>1 DEF Demoted, Replica
    <2>3. rep'[b] = r /\ \A c \in Brokers \ {b} : rep'[c] = rep[c]
      BY <1>1, <1>7, <2>1
    <2>4. QED
      BY <1>3, <1>4, <1>7, <2>2, <2>3
  <1>8. CASE m.leader = b /\ Advance(b, Promoted(b, rep[b], m), LogEnd(b))
    <2>1. PICK r \in Replica : r = Promoted(b, rep[b], m)
      BY PromotedType
    <2>2. r.epoch = m.leader_epoch /\ r.is_leader = TRUE /\ r.fetcher = NoFetcher
      BY <1>1, <2>1 DEF Promoted, Replica
    <2>3. Advance(b, r, LogEnd(b))
      BY <1>8, <2>1
    <2>4. /\ \A c \in Brokers \ {b} : rep'[c] = rep[c]
          /\ rep'[b].epoch = r.epoch /\ rep'[b].is_leader = r.is_leader
          /\ rep'[b].fetcher = r.fetcher
      BY <1>5, <2>3
    <2>5. QED
      BY <1>3, <1>8, <2>2, <2>4
  <1>9. QED
    BY <1>6, <1>7, <1>8 DEF Apply

LEMMA ApplyFollow ==
  ASSUME IndInv, IndInv', ControlInv, FollowInv, NEW b \in Brokers, NEW m \in Tuple, Apply(b, m),
         meta' = meta, alive' = alive, log' = log,
         \/ m = meta /\ rt[b] = Idle /\ rt' = rt
         \/ /\ rt[b].call = "metadata" /\ m = rt[b].meta
            /\ rt' = [rt EXCEPT ![b] = Idle]
  PROVE  ControlInv' /\ FollowInv'
  <1>1. PICK n \in Nat : n = m.leader_epoch
    BY DEF Tuple, PartitionState
  <1>2. /\ \A c \in Brokers \ {b} : rep'[c] = rep[c]
        /\ rep'[b].epoch = n /\ rep'[b].is_leader = (m.leader = b)
        /\ \/ rep'[b].fetcher.phase \in Ended
           \/ rep'[b].fetcher = rep[b].fetcher /\ rep[b].epoch = n
           \/ /\ m.leader \in Brokers \ {b} /\ rep'[b].fetcher.phase = "connect"
              /\ rep'[b].fetcher.leader = m.leader /\ rep'[b].fetcher.epoch = n
    BY <1>1, ApplyRole
  <1>3. rt \in [Brokers -> Call]
    BY DEF IndInv, TypeInv
  <1>4. /\ \A c \in Brokers : rt'[c].call = "metadata" => rt'[c] = rt[c]
        /\ rt'[b].call # "metadata"
    BY <1>3 DEF Idle
  <1>5. IsView(m.leader, n) /\ rep[b].epoch <= n /\ n <= meta.leader_epoch /\ rep[b].epoch \in Nat
    BY <1>1, EpochTypes DEF IsView, ControlInv, EpochInv
  <1>6. ASSUME NEW l \in Brokers, NEW e \in Nat, IsView(l, e)'
        PROVE  IsView(l, e)
    <2>1. CASE l = meta.leader /\ e = meta.leader_epoch
      BY <2>1 DEF IsView
    <2>2. CASE \E c \in Brokers : /\ rt'[c].call = "metadata"
                                 /\ l = rt'[c].meta.leader /\ e = rt'[c].meta.leader_epoch
      BY <1>4, <2>2 DEF IsView
    <2>3. CASE rep'[l].is_leader /\ e = rep'[l].epoch
      <3>1. CASE l = b
        BY <1>2, <1>5, <2>3, <3>1
      <3>2. CASE l # b
        BY <1>2, <2>3, <3>2 DEF IsView
      <3>3. QED
        BY <3>1, <3>2
    <2>4. CASE \E c \in Brokers : /\ rep'[c].fetcher.phase \notin Ended
                                 /\ l = rep'[c].fetcher.leader /\ e = rep'[c].fetcher.epoch
      <3>1. PICK c \in Brokers : /\ rep'[c].fetcher.phase \notin Ended
                                /\ l = rep'[c].fetcher.leader /\ e = rep'[c].fetcher.epoch
        BY <2>4
      <3>2. CASE rep'[c].fetcher = rep[c].fetcher
        BY <3>1, <3>2 DEF IsView
      <3>3. CASE rep'[c].fetcher # rep[c].fetcher
        BY <1>2, <1>5, <3>1, <3>3
      <3>4. QED
        BY <3>2, <3>3
    <2>5. QED
      BY <1>6, <2>1, <2>2, <2>3, <2>4 DEF IsView
  <1>7. ASSUME NEW c \in Brokers, NEW e \in Nat, IsReign(c, e)'
        PROVE  IsReign(c, e) \/ (c = meta.leader /\ e = meta.leader_epoch)
    <2>1. CASE c = b
      <3>1. m.leader = b /\ e = n
        BY <1>2, <1>4, <1>7, <2>1 DEF IsReign
      <3>2. QED
        BY <1>1, <2>1, <3>1 DEF IsReign
    <2>2. CASE c # b
      BY <1>2, <1>4, <1>7, <2>2 DEF IsReign
    <2>3. QED
      BY <2>1, <2>2
  <1>8. ViewsKept
    BY <1>6, <1>7 DEF ViewsKept
  <1>9. EpochInv'
    <2>1. ASSUME NEW c \in Brokers
          PROVE  /\ rep'[c].epoch <= meta'.leader_epoch
                 /\ rt'[c].call = "metadata" =>
                       /\ rep'[c].epoch <= rt'[c].meta.leader_epoch
                       /\ rt'[c].meta.leader_epoch <= meta'.leader_epoch
                 /\ rep'[c].fetcher.phase \notin Ended =>
                       rep'[c].fetcher.epoch = rep'[c].epoch /\ rep'[c].fetcher.leader # c
      <3>1. CASE c = b
        <4>1. rep[b].fetcher.phase \notin Ended =>
                  rep[b].fetcher.epoch = rep[b].epoch /\ rep[b].fetcher.leader # b
          BY DEF ControlInv, EpochInv
        <4>2. QED
          BY <1>2, <1>4, <1>5, <3>1, <4>1
      <3>2. CASE c # b
        BY <1>2, <1>4, <3>2 DEF ControlInv, EpochInv
      <3>3. QED
        BY <3>1, <3>2
    <2>2. QED
      BY <2>1 DEF EpochInv
  <1>10. ControlInv'
    <2>1. OfflineInv'
      BY DEF ControlInv, OfflineInv
    <2>2. QED
      BY <1>8, <1>9, <2>1, ControlKept
  <1>11. FollowInv'
    <2>1. ASSUME NEW f \in Brokers, Current(f)'
          PROVE  /\ rep'[f].fetcher = rep[f].fetcher
                 /\ rep'[rep[f].fetcher.leader].fetcher.phase \in Ended
                 /\ Owns(rep[f].fetcher.leader, rep[rep[f].fetcher.leader].epoch, rep[f].fetcher.epoch)'
                 /\ Agrees(f)'
      <3>1. rep'[f].fetcher = rep[f].fetcher /\ rep[f].fetcher.phase \notin Ended
        BY <1>2, <2>1 DEF Current, Connected, Ended
      <3>2. PICK l \in Brokers, u \in Nat : l = rep[f].fetcher.leader /\ u = rep[f].fetcher.epoch
        BY <3>1, LiveFetcher
      <3>3. PICK a \in Nat, z \in Nat : a = rep[l].epoch /\ z = rep'[l].epoch
        BY <1>2, EpochTypes
      <3>4. z <= u /\ a <= z /\ l # f
        BY <1>2, <1>5, <2>1, <3>1, <3>2, <3>3 DEF Current, ControlInv, EpochInv
      <3>5. Current(f)
        BY <2>1, <3>1, <3>2, <3>3, <3>4 DEF Current
      <3>6. rep[l].fetcher.phase \in Ended /\ Owns(l, a, u) /\ Agrees(f)
        BY <3>2, <3>3, <3>5 DEF FollowInv
      <3>7. Owns(l, z, u)'
        BY <1>8, <3>4, <3>6 DEF Owns, ViewsKept
      <3>8. rep'[l].fetcher.phase \in Ended
        <4>1. CASE l # b
          BY <1>2, <3>6, <4>1
        <4>2. CASE l = b
          <5>1. m.leader \in Brokers => m.leader = b
            BY <1>2, <1>5, <3>3, <3>4, <3>6, <4>2 DEF Owns
          <5>2. QED
            BY <1>2, <3>6, <4>2, <5>1
        <4>3. QED
          BY <4>1, <4>2
      <3>9. Agrees(f)'
        BY <3>1, <3>6 DEF Agrees, KeptLen, LogEnd
      <3>10. QED
        BY <3>1, <3>2, <3>3, <3>7, <3>8, <3>9
    <2>2. QED
      BY <2>1 DEF FollowInv
  <1>12. QED
    BY <1>10, <1>11

LEMMA RefreshMetadataFollow ==
  ASSUME IndInv, IndInv', ControlInv, FollowInv, NEW b \in Brokers, RefreshMetadata(b)
  PROVE  ControlInv' /\ FollowInv'
  <1>1. meta \in Tuple
    BY DEF IndInv, TypeInv
  <1>2. QED
    BY <1>1, ApplyFollow DEF RefreshMetadata, Heartbeats

LEMMA ReceiveMetadataFollow ==
  ASSUME IndInv, IndInv', ControlInv, FollowInv, NEW b \in Brokers, ReceiveMetadata(b)
  PROVE  ControlInv' /\ FollowInv'
  <1>1. rt[b].call = "metadata" /\ rt[b].meta \in Tuple
    BY EpochTypes DEF ReceiveMetadata
  <1>2. PICK m \in Tuple : m = rt[b].meta
    BY <1>1
  <1>3. QED
    BY <1>1, <1>2, ApplyFollow DEF ReceiveMetadata

------------------------------------------------------------------------------
(* Crashes *)

LEMMA CrashFollow ==
  ASSUME IndInv, IndInv', ControlInv, FollowInv, NEW b \in Brokers, Crash(b)
  PROVE  ControlInv' /\ FollowInv'
  <1>1. /\ meta' = meta /\ alive' = alive /\ log' = log
        /\ rep' = [c \in Brokers |->
                 IF c = b THEN NewReplica
                 ELSE IF /\ rep[c].fetcher.phase \in Connected
                         /\ rep[c].fetcher.leader = b
                      THEN [rep[c] EXCEPT !.fetcher = Pinged]
                      ELSE rep[c]]
        /\ rt' = [rt EXCEPT ![b] = Idle]
    BY DEF Crash, disk
  <1>2. /\ rep'[b].epoch = 0 /\ rep'[b].is_leader = FALSE /\ rep'[b].fetcher.phase \in Ended
    BY <1>1 DEF NewReplica, NoFetcher, Ended
  <1>3. rep \in [Brokers -> Replica] /\ rt \in [Brokers -> Call]
    BY DEF IndInv, TypeInv
  <1>4. Pinged.phase \in Ended /\ Ended \cap Connected = {}
    BY DEF Pinged, Ended, Connected
  <1>5. ASSUME NEW c \in Brokers \ {b}
        PROVE  /\ rep'[c].epoch = rep[c].epoch /\ rep'[c].is_leader = rep[c].is_leader
               /\ \/ rep'[c].fetcher = Pinged /\ rep[c].fetcher.phase \in Connected
                  \/ /\ rep'[c].fetcher = rep[c].fetcher
                     /\ rep[c].fetcher.phase \in Connected => rep[c].fetcher.leader # b
    <2>1. rep[c] \in Replica
      BY <1>3
    <2>2. CASE rep[c].fetcher.phase \in Connected /\ rep[c].fetcher.leader = b
      <3>1. rep'[c] = [rep[c] EXCEPT !.fetcher = Pinged]
        BY <1>1, <2>2
      <3>2. QED
        BY <2>1, <2>2, <3>1 DEF Replica
    <2>3. CASE ~ (rep[c].fetcher.phase \in Connected /\ rep[c].fetcher.leader = b)
      BY <1>1, <2>3
    <2>4. QED
      BY <2>2, <2>3
  <1>6. /\ \A c \in Brokers : rt'[c].call = "metadata" => rt'[c] = rt[c]
        /\ rt'[b].call # "metadata"
    BY <1>1, <1>3 DEF Idle
  <1>7. ASSUME NEW l \in Brokers, NEW e \in Nat, IsView(l, e)'
        PROVE  IsView(l, e)
    <2>1. CASE l = meta.leader /\ e = meta.leader_epoch
      BY <2>1 DEF IsView
    <2>2. CASE \E c \in Brokers : /\ rt'[c].call = "metadata"
                                 /\ l = rt'[c].meta.leader /\ e = rt'[c].meta.leader_epoch
      BY <1>6, <2>2 DEF IsView
    <2>3. CASE rep'[l].is_leader /\ e = rep'[l].epoch
      BY <1>2, <1>5, <2>3 DEF IsView
    <2>4. CASE \E c \in Brokers : /\ rep'[c].fetcher.phase \notin Ended
                                 /\ l = rep'[c].fetcher.leader /\ e = rep'[c].fetcher.epoch
      BY <1>2, <1>4, <1>5, <2>4 DEF IsView
    <2>5. QED
      BY <1>1, <1>7, <2>1, <2>2, <2>3, <2>4 DEF IsView
  <1>8. \A c \in Brokers, e \in Nat : IsReign(c, e)' => IsReign(c, e)
    BY <1>2, <1>5, <1>6 DEF IsReign
  <1>9. ViewsKept
    BY <1>1, <1>7, <1>8 DEF ViewsKept
  <1>10. EpochInv'
    <2>1. ASSUME NEW c \in Brokers
          PROVE  /\ rep'[c].epoch <= meta'.leader_epoch
                 /\ rt'[c].call = "metadata" =>
                       /\ rep'[c].epoch <= rt'[c].meta.leader_epoch
                       /\ rt'[c].meta.leader_epoch <= meta'.leader_epoch
                 /\ rep'[c].fetcher.phase \notin Ended =>
                       rep'[c].fetcher.epoch = rep'[c].epoch /\ rep'[c].fetcher.leader # c
      <3>1. CASE c = b
        BY <1>1, <1>2, <1>6, <3>1, EpochTypes
      <3>2. CASE c # b
        BY <1>1, <1>4, <1>5, <1>6, <3>2 DEF ControlInv, EpochInv
      <3>3. QED
        BY <3>1, <3>2
    <2>2. QED
      BY <2>1 DEF EpochInv
  <1>11. ControlInv'
    <2>1. OfflineInv'
      BY <1>1 DEF ControlInv, OfflineInv
    <2>2. QED
      BY <1>1, <1>9, <1>10, <2>1, ControlKept
  <1>12. FollowInv'
    <2>1. ASSUME NEW f \in Brokers, Current(f)'
          PROVE  /\ rep'[f].fetcher = rep[f].fetcher
                 /\ rep'[rep[f].fetcher.leader].fetcher.phase \in Ended
                 /\ Owns(rep[f].fetcher.leader, rep[rep[f].fetcher.leader].epoch, rep[f].fetcher.epoch)'
                 /\ Agrees(f)'
      <3>1. rep'[f].fetcher = rep[f].fetcher /\ rep[f].fetcher.phase \in Connected
            /\ rep[f].fetcher.leader # b
        BY <1>2, <1>4, <1>5, <2>1 DEF Current
      <3>2. PICK l \in Brokers, u \in Nat : l = rep[f].fetcher.leader /\ u = rep[f].fetcher.epoch
        BY <1>4, <3>1, LiveFetcher
      <3>3. PICK a \in Nat : a = rep[l].epoch /\ a = rep'[l].epoch
        BY <1>5, <3>1, <3>2, EpochTypes
      <3>4. Current(f)
        BY <2>1, <3>1, <3>2, <3>3 DEF Current
      <3>5. rep[l].fetcher.phase \in Ended /\ Owns(l, a, u) /\ Agrees(f)
        BY <3>2, <3>3, <3>4 DEF FollowInv
      <3>6. Owns(l, a, u)'
        BY <1>9, <3>5 DEF Owns, ViewsKept
      <3>7. rep'[l].fetcher.phase \in Ended
        BY <1>4, <1>5, <3>1, <3>2, <3>5
      <3>8. Agrees(f)'
        BY <1>1, <3>1, <3>5 DEF Agrees, KeptLen, LogEnd
      <3>9. QED
        BY <3>1, <3>2, <3>3, <3>6, <3>7, <3>8
    <2>2. QED
      BY <2>1 DEF FollowInv
  <1>13. QED
    BY <1>11, <1>12

------------------------------------------------------------------------------
(* Fetchers *)

\* The fetcher of f goes on with the same leader under the same epoch.
LEMMA FetchStep ==
  ASSUME IndInv, IndInv', ControlInv, FollowInv, NEW f \in Brokers, NEW l \in Brokers,
         rep[f].fetcher.phase \notin Ended, rep[f].fetcher.leader = l,
         rep'[f].fetcher.leader = l, rep'[f].fetcher.epoch = rep[f].fetcher.epoch,
         \A c \in Brokers :
            /\ rep'[c].epoch = rep[c].epoch /\ rep'[c].is_leader = rep[c].is_leader
            /\ c # f => rep'[c].fetcher = rep[c].fetcher /\ log'[c] = log[c],
         meta' = meta, alive' = alive, rt' = rt,
         rep[l].epoch <= rep[f].fetcher.epoch =>
            /\ rep[l].fetcher.phase \in Ended
            /\ Owns(l, rep[l].epoch, rep[f].fetcher.epoch)
            /\ Agrees(f)'
  PROVE  ControlInv' /\ FollowInv'
  <1>1. l # f
    BY DEF ControlInv, EpochInv
  <1>2. Mild
    BY DEF Mild
  <1>3. ViewsKept
    BY <1>2, MildViews DEF ControlInv
  <1>4. PICK a \in Nat, u \in Nat : a = rep[l].epoch /\ u = rep[f].fetcher.epoch
    BY EpochTypes, LiveFetcher
  <1>5. ASSUME Current(f)' PROVE a <= u
    BY <1>4, <1>5 DEF Current
  <1>6. Owns(l, a, u) => Owns(l, a, u)'
    BY <1>3 DEF Owns, ViewsKept
  <1>7. Settles(f)
    BY <1>1, <1>4, <1>5, <1>6 DEF Settles
  <1>8. OfflineInv'
    BY DEF ControlInv, OfflineInv
  <1>9. ASSUME NEW c \in Brokers, rep[c].fetcher.phase \in Ended
        PROVE  Shares(log[c], LogEnd(c), log'[c])
    BY <1>9, LogTypes DEF Shares
  <1>10. QED
    BY <1>2, <1>7, <1>8, <1>9, MildStep

\* One replica changes its fetcher.
LEMMA FetcherFrame ==
  ASSUME IndInv, NEW f \in Brokers, NEW y, SetFetcher(f, y)
  PROVE  /\ rep'[f].fetcher = y
         /\ \A c \in Brokers :
              /\ rep'[c].epoch = rep[c].epoch /\ rep'[c].is_leader = rep[c].is_leader
              /\ c # f => rep'[c] = rep[c]
  <1>1. rep \in [Brokers -> Replica] /\ rep' = [rep EXCEPT ![f].fetcher = y]
    BY DEF IndInv, TypeInv, SetFetcher
  <1>2. QED
    BY <1>1 DEF Replica

\* Where a log cut to n entries ends.
CutAt(f, n) == IF n < LogEnd(f) THEN n ELSE LogEnd(f)

\* An answer that is no miscut leaves what the leader has too.
LEMMA PartsShares ==
  ASSUME IndInv, NEW f \in Brokers, NEW l \in Brokers, NEW n \in Nat, Parts(f, l, n)
  PROVE  Shares(log[f], CutAt(f, n), log[l])
  <1> DEFINE s == log[f]
             t == log[l]
             k == CutAt(f, n)
             p == SubSeq(s, 1, k)
             q == SubSeq(t, 1, k)
  <1>1. s \in Seq(Ids) /\ t \in Seq(Ids) /\ LogEnd(f) = Len(s) /\ Len(s) \in Nat /\ Len(t) \in Nat
    BY LogTypes
  <1>2. k \in Nat /\ k <= Len(s) /\ Min({n, LogEnd(f)}) = k
    BY <1>1, MinOfTwo DEF CutAt
  <1>3. IsPrefixOf(p, t)
    BY <1>2 DEF Parts
  <1> HIDE DEF k
  <1>4. Len(p) = k /\ \A i \in 1 .. k : p[i] = s[i]
    BY <1>1, <1>2
  <1>5. k <= Len(t) /\ q = p
    BY <1>3, <1>4 DEF IsPrefixOf
  <1>6. \A i \in 1 .. k : q[i] = t[i]
    BY <1>1, <1>2, <1>5
  <1> HIDE DEF s, t, p, q
  <1>7. Shares(s, k, t)
    BY <1>4, <1>5, <1>6 DEF Shares
  <1>8. QED
    BY <1>7 DEF s, t, k

\* A log cut where it stops to be the leader's agrees with the leader's.
LEMMA CutAgrees ==
  ASSUME IndInv, IndInv', NEW f \in Brokers, NEW l \in Brokers, NEW n \in Nat, l # f,
         Truncate(f, n), Shares(log[f], CutAt(f, n), log[l]),
         rep'[f].fetcher.phase = "fetch", rep'[f].fetcher.leader = l
  PROVE  Agrees(f)' /\ \A c \in Brokers : c # f => log'[c] = log[c]
  <1> DEFINE k == CutAt(f, n)
  <1>1. log \in [Brokers -> Seq(Ids)] /\ LogEnd(f) = Len(log[f]) /\ Len(log[f]) \in Nat
    BY LogTypes DEF IndInv, TypeInv
  <1>2. k \in Nat /\ k <= Len(log[f])
    BY <1>1 DEF CutAt
  <1>3. /\ \A c \in Brokers : c # f => log'[c] = log[c]
        /\ Len(log'[f]) = k /\ \A i \in 1 .. k : log'[f][i] = log[f][i]
    <2>1. CASE n < LogEnd(f)
      <3>1. log' = [log EXCEPT ![f] = SubSeq(@, 1, n)]
        BY <2>1 DEF Truncate
      <3>2. log'[f] = SubSeq(log[f], 1, n) /\ k = n
        BY <1>1, <2>1, <3>1 DEF CutAt
      <3>3. QED
        BY <1>1, <1>2, <3>1, <3>2
    <2>2. CASE ~ (n < LogEnd(f))
      BY <1>1, <2>2 DEF Truncate, disk, CutAt
    <2>3. QED
      BY <2>1, <2>2
  <1>4. log'[l] = log[l] /\ LogEnd(f)' = k
    BY <1>3 DEF LogEnd
  <1> HIDE DEF k
  <1>5. KeptLen(f)' = k
    BY <1>4 DEF KeptLen
  <1>6. Shares(log[f], k, log[l])
    BY DEF k
  <1>7. Shares(log'[f], k, log'[l])
    BY <1>3, <1>4, <1>6 DEF Shares
  <1>8. QED
    BY <1>3, <1>5, <1>7 DEF Agrees

\* Who leads under its own epoch is followed by a fetcher that found it leading.
LEMMA LeaderOwns ==
  ASSUME IndInv, ControlInv, NEW f \in Brokers, NEW l \in Brokers, NEW e \in Nat,
         rep[f].fetcher.phase \notin Ended, rep[f].fetcher.leader = l, rep[f].fetcher.epoch = e,
         rep[l].is_leader
  PROVE  rep[l].fetcher.phase \in Ended /\ Owns(l, rep[l].epoch, e)
  <1>1. rep[l].fetcher.phase \in Ended
    BY ReplicaType
  <1>2. PICK a \in Nat : a = rep[l].epoch
    BY EpochTypes
  <1>3. IsReign(l, a) /\ IsView(l, e)
    BY <1>2 DEF IsReign, IsView
  <1>4. Owns(l, a, e)
    BY <1>3 DEF ControlInv, ReelectedInv
  <1>5. QED
    BY <1>1, <1>2, <1>4

LEMMA EpochCheckFollow ==
  ASSUME IndInv, IndInv', ControlInv, FollowInv, Undisturbed', NEW f \in Brokers, EpochCheck(f)
  PROVE  ControlInv' /\ FollowInv'
  <1> DEFINE x == rep[f].fetcher
             l == x.leader
             local == CurrentEpoch(epochs[f])
             end == EndOffsetFor(epochs[l], local, LogEnd(l))
             pull == Fetcher("fetch", l, x.epoch, local, <<>>)
             wait == Fetcher("reconcile", l, x.epoch, local, end)
  <1>1. x.phase = "connect" /\ x.phase \notin Ended
    BY DEF EpochCheck, Ended
  <1>2. l \in Brokers /\ x.epoch \in Nat
    BY <1>1, LiveFetcher
  <1>3. end \in Nat
    BY <1>2, EndOffsetType
  <1>4. /\ meta' = meta /\ alive' = alive /\ rt' = rt
        /\ \/ SetFetcher(f, Pinged) /\ log' = log
           \/ rep[l].is_leader /\ Truncate(f, end) /\ SetFetcher(f, pull) /\ Count(Miscut(f, l, end))
           \/ /\ rep[l].is_leader /\ Count({"delays"} \cup Miscut(f, l, end))
              /\ SetFetcher(f, wait) /\ log' = log
    BY DEF EpochCheck, disk
  <1>5. pull.phase = "fetch" /\ pull.leader = l /\ pull.epoch = x.epoch
    BY DEF Fetcher
  <1>6. /\ wait.phase = "reconcile" /\ wait.leader = l /\ wait.epoch = x.epoch
        /\ wait.data = end
    BY DEF Fetcher
  <1>7. l # f
    BY <1>1 DEF ControlInv, EpochInv
  <1>8. x = rep[f].fetcher
    OBVIOUS
  <1> HIDE DEF x, l, end, pull, wait, local
  <1>9. CASE SetFetcher(f, Pinged) /\ log' = log
    BY <1>4, <1>9, FetcherEnds
  <1>10. ASSUME NEW K, Count(K), Miscut(f, l, end) \subseteq K
         PROVE  Shares(log[f], CutAt(f, end), log[l])
    <2>1. "miscuts" \notin Miscut(f, l, end)
      BY <1>10, NoneCounted DEF Disturbances
    <2>2. Parts(f, l, end)
      BY <2>1 DEF Miscut
    <2>3. QED
      BY <1>2, <1>3, <2>2, PartsShares
  <1>11. rep[l].is_leader => rep[l].fetcher.phase \in Ended /\ Owns(l, rep[l].epoch, x.epoch)
    BY <1>1, <1>2, <1>8, LeaderOwns DEF l
  <1>12. CASE rep[l].is_leader /\ Truncate(f, end) /\ SetFetcher(f, pull) /\ Count(Miscut(f, l, end))
    <2>1. /\ rep'[f].fetcher = pull
          /\ \A c \in Brokers :
              /\ rep'[c].epoch = rep[c].epoch /\ rep'[c].is_leader = rep[c].is_leader
              /\ c # f => rep'[c] = rep[c]
      BY <1>12, FetcherFrame
    <2>2. Shares(log[f], CutAt(f, end), log[l])
      BY <1>10, <1>12
    <2>3. Agrees(f)' /\ \A c \in Brokers : c # f => log'[c] = log[c]
      BY <1>2, <1>3, <1>5, <1>7, <1>12, <2>1, <2>2, CutAgrees
    <2>4. QED
      BY <1>1, <1>2, <1>4, <1>5, <1>8, <1>11, <1>12, <2>1, <2>3, FetchStep DEF l
  <1>13. CASE /\ rep[l].is_leader /\ Count({"delays"} \cup Miscut(f, l, end))
              /\ SetFetcher(f, wait) /\ log' = log
    <2>1. /\ rep'[f].fetcher = wait
          /\ \A c \in Brokers :
              /\ rep'[c].epoch = rep[c].epoch /\ rep'[c].is_leader = rep[c].is_leader
              /\ c # f => rep'[c] = rep[c]
      BY <1>13, FetcherFrame
    <2>2. Shares(log[f], CutAt(f, end), log[l])
      BY <1>10, <1>13
    <2>3. KeptLen(f)' = CutAt(f, end)
      BY <1>6, <1>13, <2>1 DEF KeptLen, CutAt, LogEnd
    <2>4. Agrees(f)'
      BY <1>6, <1>13, <2>1, <2>2, <2>3 DEF Agrees
    <2>5. QED
      BY <1>1, <1>2, <1>4, <1>6, <1>8, <1>11, <1>13, <2>1, <2>4, FetchStep DEF l
  <1>14. QED
    BY <1>4, <1>9, <1>12, <1>13

\* What the invariant says of a fetcher that has heard of its leader.
LEMMA Following ==
  ASSUME IndInv, ControlInv, FollowInv, NEW f \in Brokers, rep[f].fetcher.phase \in Connected
  PROVE  /\ rep[f].fetcher.phase \notin Ended
         /\ rep[f].fetcher.leader \in Brokers /\ rep[f].fetcher.epoch \in Nat
         /\ rep[f].fetcher.leader # f
         /\ rep[rep[f].fetcher.leader].epoch <= rep[f].fetcher.epoch =>
              /\ rep[rep[f].fetcher.leader].fetcher.phase \in Ended
              /\ Owns(rep[f].fetcher.leader, rep[rep[f].fetcher.leader].epoch, rep[f].fetcher.epoch)
              /\ Agrees(f)
  <1>1. rep[f].fetcher.phase \notin Ended
    BY DEF Connected, Ended
  <1>2. rep[f].fetcher.leader # f
    BY <1>1 DEF ControlInv, EpochInv
  <1>3. QED
    BY <1>1, <1>2, LiveFetcher DEF FollowInv, Current

\* No sender is preempted.
LEMMA NotPreempted ==
  ASSUME IndInv, Undisturbed'
  PROVE  ~ Preempted
  <1>1. SUFFICES ASSUME Preempted PROVE FALSE
    OBVIOUS
  <1>2. {"delays", "preemptions"} \cap Disturbances = {}
    BY <1>1, NoneCounted DEF Preempted
  <1>3. QED
    BY <1>2 DEF Disturbances

LEMMA ReconcileFollow ==
  ASSUME IndInv, IndInv', ControlInv, FollowInv, Undisturbed', NEW f \in Brokers, Reconcile(f)
  PROVE  ControlInv' /\ FollowInv'
  <1> DEFINE x == rep[f].fetcher
             l == x.leader
  <1>1. x.phase = "reconcile" /\ x.phase \in Connected
    BY DEF Reconcile, Connected
  <1>2. x.data \in Nat /\ x \in Cut
    BY <1>1, LogTypes, FetcherKinds
  <1>3. /\ meta' = meta /\ alive' = alive /\ rt' = rt
        /\ Truncate(f, x.data) /\ SetFetcher(f, Pull(x))
    BY NotPreempted DEF Reconcile
  <1>4. Pull(x).phase = "fetch" /\ Pull(x).leader = l /\ Pull(x).epoch = x.epoch
    BY <1>2 DEF Pull, Cut, Live
  <1>5. /\ rep'[f].fetcher = Pull(x)
        /\ \A c \in Brokers :
              /\ rep'[c].epoch = rep[c].epoch /\ rep'[c].is_leader = rep[c].is_leader
              /\ c # f => rep'[c] = rep[c]
    BY <1>3, FetcherFrame
  <1>6. \A c \in Brokers : c # f => log'[c] = log[c]
    BY <1>3 DEF Truncate, disk, IndInv, TypeInv
  <1>7. KeptLen(f) = CutAt(f, x.data)
    BY <1>1 DEF KeptLen, CutAt
  <1>8. /\ x.phase \notin Ended /\ l \in Brokers /\ x.epoch \in Nat /\ l # f
        /\ rep[l].epoch <= x.epoch =>
              rep[l].fetcher.phase \in Ended /\ Owns(l, rep[l].epoch, x.epoch) /\ Agrees(f)
    BY <1>1, Following
  <1>9. ASSUME rep[l].epoch <= x.epoch PROVE Agrees(f)'
    <2>1. Shares(log[f], CutAt(f, x.data), log[l])
      BY <1>7, <1>8, <1>9 DEF Agrees
    <2>2. QED
      BY <1>2, <1>3, <1>4, <1>5, <1>8, <2>1, CutAgrees
  <1>10. QED
    BY <1>3, <1>4, <1>5, <1>6, <1>8, <1>9, FetchStep

LEMMA ReplicaFetchFollow ==
  ASSUME IndInv, IndInv', ControlInv, FollowInv, NEW f \in Brokers, ReplicaFetch(f)
  PROVE  ControlInv' /\ FollowInv'
  <1> DEFINE x == rep[f].fetcher
             l == x.leader
             y == [x EXCEPT !.phase = "wait", !.data = LogEnd(f)]
             r == [rep[l] EXCEPT !.match_offsets[f] = LogEnd(f),
                            !.recent = IF LogEnd(f) >= LogEnd(l) THEN @ \cup {f} ELSE @]
  <1>1. x.phase = "fetch" /\ x.phase \in Connected
    BY DEF ReplicaFetch, Connected
  <1>2. /\ meta' = meta /\ alive' = alive /\ rt' = rt /\ log' = log
        /\ \/ rep' = [rep EXCEPT ![l] = AdvanceHwm(l, r, LogEnd(l)), ![f].fetcher = y]
           \/ SetFetcher(f, Pinged)
    BY DEF ReplicaFetch, disk
  <1>3. /\ x.phase \notin Ended /\ l \in Brokers /\ x.epoch \in Nat /\ l # f
        /\ rep[l].epoch <= x.epoch =>
              rep[l].fetcher.phase \in Ended /\ Owns(l, rep[l].epoch, x.epoch) /\ Agrees(f)
    BY <1>1, Following
  <1>4. rep \in [Brokers -> Replica]
    BY DEF IndInv, TypeInv
  <1>5. CASE SetFetcher(f, Pinged)
    BY <1>2, <1>5, FetcherEnds
  <1>6. CASE rep' = [rep EXCEPT ![l] = AdvanceHwm(l, r, LogEnd(l)), ![f].fetcher = y]
    <2>1. x \in Live({"connect", "fetch"}, {<<>>})
      BY <1>1, FetcherKinds
    <2>2. y.phase = "wait" /\ y.leader = l /\ y.epoch = x.epoch /\ y.data = LogEnd(f)
      BY <2>1 DEF Live
    <2>3. /\ AdvanceHwm(l, r, LogEnd(l)).epoch = rep[l].epoch
          /\ AdvanceHwm(l, r, LogEnd(l)).is_leader = rep[l].is_leader
          /\ AdvanceHwm(l, r, LogEnd(l)).fetcher = rep[l].fetcher
      BY <1>3, <1>4 DEF AdvanceHwm, Replica
    <2> HIDE DEF x, l, r, y
    <2>4. rep'[f].fetcher = y /\ rep'[f].epoch = rep[f].epoch /\ rep'[f].is_leader = rep[f].is_leader
      BY <1>3, <1>4, <1>6 DEF Replica
    <2>5. rep'[l].epoch = rep[l].epoch /\ rep'[l].is_leader = rep[l].is_leader
          /\ rep'[l].fetcher = rep[l].fetcher
      BY <1>3, <1>4, <1>6, <2>3
    <2>6. \A c \in Brokers : c # f /\ c # l => rep'[c] = rep[c]
      BY <1>3, <1>4, <1>6
    <2>7. \A c \in Brokers :
            /\ rep'[c].epoch = rep[c].epoch /\ rep'[c].is_leader = rep[c].is_leader
            /\ c # f => rep'[c].fetcher = rep[c].fetcher /\ log'[c] = log[c]
      BY <1>2, <2>4, <2>5, <2>6
    <2>8. ASSUME rep[l].epoch <= x.epoch PROVE Agrees(f)'
      <3>1. KeptLen(f) = LogEnd(f) /\ KeptLen(f)' = LogEnd(f) /\ LogEnd(f)' = LogEnd(f)
        BY <1>1, <1>2, <2>2, <2>4 DEF x, KeptLen, LogEnd
      <3>2. Shares(log[f], LogEnd(f), log[l])
        BY <1>3, <2>8, <3>1 DEF Agrees, x, l
      <3>3. QED
        BY <1>2, <2>2, <2>4, <3>1, <3>2 DEF Agrees
    <2>9. QED
      BY <1>2, <1>3, <2>2, <2>4, <2>7, <2>8, FetchStep DEF x, l
  <1>7. QED
    BY <1>2, <1>5, <1>6

\* The answer in x continues the log of f as the leader's log does.
Feeds(f, x) ==
    LET l == log[x.leader]
    IN  /\ Shares(log[f], LogEnd(f), l)
        /\ x.data.from = LogEnd(f)
        /\ LogEnd(f) + Len(x.data.records) <= Len(l)
        /\ \A i \in 1 .. Len(x.data.records) : l[LogEnd(f) + i] = x.data.records[i]

\* A follower appends what its fetcher was sent.
LEMMA AppendFollow ==
  ASSUME IndInv, IndInv', ControlInv, FollowInv, NEW f \in Brokers, NEW x \in Filled,
         rep[f].fetcher.phase \in Connected,
         x.leader = rep[f].fetcher.leader, x.epoch = rep[f].fetcher.epoch,
         AppendReplicated(f, x), meta' = meta, alive' = alive, rt' = rt,
         rep[x.leader].epoch <= x.epoch => Feeds(f, x)
  PROVE  ControlInv' /\ FollowInv'
  <1> DEFINE l == x.leader
             rs == x.data.records
             fits == rs = <<>> \/ x.data.from = LogEnd(f)
             y == [Pull(x) EXCEPT !.local = Max({x.local, x.epoch})]
  <1>1. /\ rep[f].fetcher.phase \notin Ended /\ l \in Brokers /\ x.epoch \in Nat /\ l # f
        /\ rep[l].epoch <= x.epoch =>
              rep[l].fetcher.phase \in Ended /\ Owns(l, rep[l].epoch, x.epoch)
    BY Following
  <1>2. /\ log' = [log EXCEPT ![f] = IF fits THEN @ \o rs ELSE @]
        /\ rep' = [rep EXCEPT ![f].fetcher = IF fits THEN y ELSE NoFetcher]
    BY <1>1 DEF AppendReplicated
  <1>3. rep \in [Brokers -> Replica] /\ log \in [Brokers -> Seq(Ids)]
    BY DEF IndInv, TypeInv
  <1>4. x.data \in Answer /\ rs \in Seq(Ids) /\ Len(rs) \in Nat
    BY DEF Filled, Live, Answer
  <1>5. log[f] \in Seq(Ids) /\ LogEnd(f) = Len(log[f]) /\ LogEnd(f) \in Nat /\ Len(log[l]) \in Nat
    BY <1>1, <1>3, LogTypes
  <1>6. y.phase = "fetch" /\ y.leader = l /\ y.epoch = x.epoch
    BY DEF Pull, Filled, Live
  <1>7. /\ rep'[f].fetcher = IF fits THEN y ELSE NoFetcher
        /\ \A c \in Brokers :
              /\ rep'[c].epoch = rep[c].epoch /\ rep'[c].is_leader = rep[c].is_leader
              /\ c # f => rep'[c] = rep[c]
    <2> DEFINE z == IF fits THEN y ELSE NoFetcher
    <2>1. SetFetcher(f, z)
      BY <1>2 DEF SetFetcher
    <2> HIDE DEF z
    <2>2. rep'[f].fetcher = z
          /\ \A c \in Brokers :
              /\ rep'[c].epoch = rep[c].epoch /\ rep'[c].is_leader = rep[c].is_leader
              /\ c # f => rep'[c] = rep[c]
      BY <2>1, FetcherFrame
    <2>3. QED
      BY <2>2 DEF z
  <1> HIDE DEF y
  <1>8. CASE ~ fits
    <2>1. log' = log
      BY <1>2, <1>3, <1>8
    <2>2. rep'[f].fetcher.phase \in Ended
      BY <1>7, <1>8 DEF NoFetcher, Ended
    <2>3. Mild
      BY <1>7, <2>2 DEF Mild
    <2>4. QED
      BY <1>7, <2>1, <2>2, <2>3, QuietStep
  <1>9. CASE fits
    <2>1. /\ log'[f] = log[f] \o rs /\ rep'[f].fetcher = y
          /\ \A c \in Brokers : c # f => log'[c] = log[c]
      BY <1>2, <1>3, <1>7, <1>9
    <2>2. ASSUME rep[l].epoch <= x.epoch PROVE Agrees(f)'
      <3> DEFINE m == LogEnd(f)
                 n == Len(rs)
                 t == log[l]
                 u == log'[f]
      <3>1. /\ Shares(log[f], m, t) /\ m + n <= Len(t)
            /\ \A i \in 1 .. n : t[m + i] = rs[i]
        BY <2>2 DEF Feeds
      <3>2. m \in Nat /\ n \in Nat
        BY <1>4, <1>5
      <3>3. /\ Len(u) = m + n /\ \A i \in 1 .. m : u[i] = log[f][i]
            /\ \A i \in m + 1 .. m + n : u[i] = rs[i - m]
        <4>1. \A p, q \in Seq(Ids) :
                 /\ Len(p \o q) = Len(p) + Len(q) /\ \A i \in 1 .. Len(p) : (p \o q)[i] = p[i]
                 /\ \A i \in Len(p) + 1 .. Len(p) + Len(q) : (p \o q)[i] = q[i - Len(p)]
          OBVIOUS
        <4>2. u = log[f] \o rs /\ m = Len(log[f]) /\ log[f] \in Seq(Ids) /\ rs \in Seq(Ids)
          BY <1>4, <1>5, <2>1
        <4> HIDE DEF u, m, rs
        <4>3. QED
          BY <4>1, <4>2
      <3>4. LogEnd(f)' = m + n
        BY <3>3 DEF LogEnd
      <3>5. KeptLen(f)' = m + n
        BY <1>6, <2>1, <3>4 DEF KeptLen
      <3>6. log'[l] = t
        BY <1>1, <2>1
      <3> HIDE DEF m, n, t, u
      <3>7. Shares(u, m + n, t)
        <4>1. ASSUME NEW i \in 1 .. m + n PROVE t[i] = u[i]
          <5>1. CASE i \in 1 .. m
            BY <3>1, <3>3, <5>1 DEF Shares
          <5>2. CASE i \in m + 1 .. m + n
            <6>1. i - m \in 1 .. n /\ m + (i - m) = i
              BY <3>2, <5>2
            <6>2. t[m + (i - m)] = rs[i - m]
              BY <3>1, <6>1
            <6>3. QED
              BY <3>3, <5>2, <6>1, <6>2
          <5>3. QED
            BY <3>2, <5>1, <5>2
        <4>2. QED
          BY <3>1, <4>1 DEF Shares
      <3>8. QED
        BY <1>6, <2>1, <3>5, <3>6, <3>7 DEF Agrees, u
    <2>3. QED
      BY <1>1, <1>6, <1>7, <2>1, <2>2, FetchStep
  <1>10. QED
    BY <1>8, <1>9

\* What the leader's log has past the follower's continues it.
LEMMA ReadFeeds ==
  ASSUME IndInv, NEW f \in Brokers, NEW l \in Brokers, NEW n \in Nat, NEW x,
         Shares(log[f], LogEnd(f), log[l]), n = LogEnd(f),
         x.leader = l, x.data.from = n, x.data.records = SubSeq(log[l], n + 1, LogEnd(l))
  PROVE  Feeds(f, x)
  <1> DEFINE t == log[l]
             rs == SubSeq(t, n + 1, Len(t))
  <1>1. t \in Seq(Ids) /\ LogEnd(l) = Len(t) /\ Len(t) \in Nat
    BY LogTypes
  <1>2. n <= Len(t)
    BY DEF Shares
  <1>3. Len(rs) = Len(t) - n /\ \A i \in 1 .. Len(t) - n : rs[i] = t[n + i]
    BY SMTT(30), <1>1, <1>2
  <1>4. x.data.records = rs
    BY <1>1
  <1> HIDE DEF rs
  <1>5. n + Len(rs) <= Len(t) /\ \A i \in 1 .. Len(rs) : t[n + i] = rs[i]
    BY <1>1, <1>2, <1>3
  <1>6. QED
    BY <1>4, <1>5 DEF Feeds

LEMMA ReplicaAppendFollow ==
  ASSUME IndInv, IndInv', ControlInv, FollowInv, Undisturbed', NEW f \in Brokers,
         ReplicaAppend(f)
  PROVE  ControlInv' /\ FollowInv'
  <1> DEFINE x == rep[f].fetcher
  <1>1. x.phase = "append" /\ x.phase \in Connected /\ x.phase # "reconcile"
    BY DEF ReplicaAppend, Connected
  <1>2. x \in Filled
    BY <1>1, FetcherKinds
  <1>3. AppendReplicated(f, x) /\ meta' = meta /\ alive' = alive /\ rt' = rt
    BY NotPreempted DEF ReplicaAppend
  <1>4. rep[x.leader].epoch <= x.epoch => Agrees(f)
    BY <1>1, Following
  <1>5. KeptLen(f) = LogEnd(f)
    BY <1>1 DEF KeptLen
  <1>6. Agrees(f) => Feeds(f, x)
    BY <1>1, <1>5 DEF Agrees, Feeds
  <1> HIDE DEF x
  <1>7. QED
    BY <1>1, <1>2, <1>3, <1>4, <1>6, AppendFollow DEF x

LEMMA ReplicaReadFollow ==
  ASSUME IndInv, IndInv', ControlInv, FollowInv, NEW f \in Brokers, ReplicaRead(f)
  PROVE  ControlInv' /\ FollowInv'
  <1> DEFINE x == rep[f].fetcher
             l == x.leader
             recs == SubSeq(log[l], x.data + 1, LogEnd(l))
             data == [from |-> x.data, records |-> recs]
             answer == [x EXCEPT !.phase = "append", !.data = data]
  <1>1. x.phase = "wait" /\ x.phase \in Connected
    BY DEF ReplicaRead, Connected
  <1>2. x \in Live({"wait"}, Nat)
    BY <1>1, FetcherKinds
  <1>3. /\ x.phase \notin Ended /\ l \in Brokers /\ x.epoch \in Nat /\ l # f
        /\ rep[l].epoch <= x.epoch =>
              rep[l].fetcher.phase \in Ended /\ Owns(l, rep[l].epoch, x.epoch) /\ Agrees(f)
    BY <1>1, Following
  <1>4. /\ meta' = meta /\ alive' = alive /\ rt' = rt
        /\ \/ SetFetcher(f, Pinged) /\ log' = log
           \/ AppendReplicated(f, answer)
           \/ SetFetcher(f, answer) /\ log' = log
    BY DEF ReplicaRead, disk
  <1>5. x.data \in Nat
    BY <1>2 DEF Live
  <1>6. recs \in Seq(Ids)
    <2>1. log[l] \in Seq(Ids) /\ LogEnd(l) = Len(log[l])
      BY <1>3, LogTypes
    <2>2. \A s \in Seq(Ids), i \in Nat : SubSeq(s, i + 1, Len(s)) \in Seq(Ids)
      <3>1. \A s \in Seq(Ids), i \in Nat : \A j \in i + 1 .. Len(s) : s[j] \in Ids
        OBVIOUS
      <3>2. QED
        BY <3>1
    <2>3. QED
      BY <1>5, <2>1, <2>2
  <1>7. /\ answer.phase = "append" /\ answer.leader = l /\ answer.epoch = x.epoch
        /\ answer.data = data
    BY <1>2 DEF Live
  <1>8. data.from = x.data /\ data.records = recs /\ data \in Answer
    BY <1>5, <1>6 DEF Answer
  <1>9. answer \in Filled
    BY <1>2, <1>8 DEF Live, Filled
  <1>10. KeptLen(f) = LogEnd(f)
    BY <1>1 DEF KeptLen
  <1>11. x.data \in Nat /\ Agrees(f) => Shares(log[f], LogEnd(f), log[l]) /\ x.data = LogEnd(f)
    BY <1>1, <1>10 DEF Agrees
  <1> HIDE DEF answer, data
  <1>12. Agrees(f) => Feeds(f, answer)
    BY <1>3, <1>5, <1>7, <1>8, <1>11, ReadFeeds
  <1>13. CASE SetFetcher(f, Pinged) /\ log' = log
    BY <1>4, <1>13, FetcherEnds
  <1>14. CASE AppendReplicated(f, answer)
    BY <1>1, <1>3, <1>4, <1>7, <1>9, <1>12, <1>14, AppendFollow
  <1>15. CASE SetFetcher(f, answer) /\ log' = log
    <2>1. /\ rep'[f].fetcher = answer
          /\ \A c \in Brokers :
              /\ rep'[c].epoch = rep[c].epoch /\ rep'[c].is_leader = rep[c].is_leader
              /\ c # f => rep'[c] = rep[c]
      BY <1>15, FetcherFrame
    <2>2. ASSUME Agrees(f) PROVE Agrees(f)'
      <3>1. KeptLen(f)' = LogEnd(f) /\ LogEnd(f)' = LogEnd(f)
        BY <1>7, <1>15, <2>1 DEF KeptLen, LogEnd
      <3>2. Feeds(f, answer)
        BY <1>12, <2>2
      <3>3. QED
        BY <1>7, <1>15, <2>1, <3>1, <3>2 DEF Agrees, Feeds
    <2>3. QED
      BY <1>3, <1>4, <1>7, <1>15, <2>1, <2>2, FetchStep
  <1>16. QED
    BY <1>4, <1>13, <1>14, <1>15

------------------------------------------------------------------------------
(* The invariant about followers holds *)

LEMMA FollowInit ==
  ASSUME Init
  PROVE  ControlInv /\ FollowInv
  <1>1. PICK k \in Brokers : meta = NewPartition(k, Brokers)
    BY DEF Init
  <1>2. meta.leader = k /\ meta.leader_epoch = 1 /\ meta.isr = Brokers
    BY <1>1 DEF NewPartition
  <1>3. \A b \in Brokers : /\ rep[b].epoch = 0 /\ rep[b].is_leader = FALSE
                           /\ rep[b].fetcher.phase = "dead" /\ rt[b].call = "idle"
    BY DEF Init, NewReplica, NoFetcher, Idle
  <1>4. "dead" \in Ended /\ "dead" \notin Connected
    BY DEF Ended, Connected
  <1>5. \A l \in Brokers, e \in Nat : IsView(l, e) => l = k
    BY <1>2, <1>3, <1>4 DEF IsView
  <1>6. \A b \in Brokers, e \in Nat : ~ IsReign(b, e)
    BY <1>3 DEF IsReign
  <1>7. EpochInv
    BY <1>2, <1>3, <1>4 DEF EpochInv
  <1>8. OneLeader /\ DeposedInv /\ ReelectedInv
    BY <1>5, <1>6 DEF OneLeader, DeposedInv, ReelectedInv
  <1>9. OfflineInv
    BY <1>2, NoLeaderAssumption DEF OfflineInv
  <1>10. FollowInv
    BY <1>3, <1>4 DEF FollowInv, Current
  <1>11. QED
    BY <1>7, <1>8, <1>9, <1>10 DEF ControlInv

LEMMA NextFollow ==
  ASSUME IndInv, IndInv', ControlInv, FollowInv, [Next]_vars, Undisturbed'
  PROVE  ControlInv' /\ FollowInv'
  <1>1. CASE ControllerNext
    BY <1>1, ExpireFollow, ControllerRestartFollow, ReviveFollow, DecideIsrFollow
       DEF ControllerNext
  <1>2. CASE RuntimeNext
    BY <1>2, RefreshMetadataFollow, RequestMetadataFollow, ReceiveMetadataFollow,
       ChangeIsrFollow, ProposeIsrFollow, AdoptIsrFollow, LoseCallFollow, LagExpiresFollow
       DEF RuntimeNext
  <1>3. CASE DataNext
    <2>1. PICK b \in Brokers :
            \/ \E all \in BOOLEAN : Produce(b, all)
            \/ \E a \in rep[b].appended : ParkProduce(b, a)
            \/ \E a \in rep[b].pending_all : ProduceTimeout(b, a)
            \/ EpochCheck(b) \/ Reconcile(b)
            \/ ReplicaFetch(b) \/ ReplicaRead(b) \/ ReplicaAppend(b)
            \/ LoseFetch(b)
            \/ \E c \in late[b] : RunLate(b, c)
      BY <1>3 DEF DataNext
    <2>2. late[b] = {}
      BY UndisturbedBefore
    <2>3. QED
      BY <2>1, <2>2, ProduceFollow, ParkProduceFollow, ProduceTimeoutFollow, EpochCheckFollow,
         ReconcileFollow, ReplicaFetchFollow, ReplicaReadFollow, ReplicaAppendFollow,
         LoseFetchFollow
  <1>4. CASE CrashNext
    BY <1>4, CrashFollow, StartBrokerFollow DEF CrashNext
  <1>5. CASE UNCHANGED vars
    <2>1. meta' = meta /\ alive' = alive /\ log' = log /\ rep' = rep /\ rt' = rt
      BY <1>5 DEF vars
    <2>2. Frame
      BY <2>1 DEF Frame
    <2>3. QED
      BY <2>1, <2>2, FrameStep
  <1>6. QED
    BY <1>1, <1>2, <1>3, <1>4, <1>5 DEF Next

\* As long as nothing of what ReconciledPrefix excludes has happened, the invariant
\* about epochs, reigns and followers holds in every reachable state.
THEOREM FollowersInvariance == Spec => []FollowersInv
  <1>1. Init => FollowersInv
    BY FollowInit DEF FollowersInv
  <1>2. ASSUME IndInv, IndInv', FollowersInv, [Next]_vars PROVE FollowersInv'
    <2>1. SUFFICES ASSUME Undisturbed' PROVE ControlInv' /\ FollowInv'
      BY DEF FollowersInv
    <2>2. ControlInv /\ FollowInv
      BY <1>2, <2>1, UndisturbedBefore DEF FollowersInv
    <2>3. QED
      BY <1>2, <2>1, <2>2, NextFollow
  <1>3. QED
    BY <1>1, <1>2, Invariance, PTL DEF Spec

------------------------------------------------------------------------------
(* What follows for the logs and the leaders *)

\* A log that is shared from its first to its last record is a prefix.
LEMMA SharedPrefix ==
  ASSUME NEW s \in Seq(Ids), NEW t \in Seq(Ids), Shares(s, Len(s), t)
  PROVE  IsPrefixOf(s, t)
  <1> DEFINE n == Len(s)
             w == SubSeq(t, 1, n)
  <1>1. n \in Nat /\ Len(t) \in Nat /\ n <= Len(t) /\ \A i \in 1 .. n : t[i] = s[i]
    BY DEF Shares
  <1> HIDE DEF n
  <1>2. w \in Seq(Ids) /\ Len(w) = n /\ \A i \in 1 .. n : w[i] = t[i]
    BY <1>1
  <1> HIDE DEF w
  <1>3. Len(w) = Len(s) /\ \A i \in 1 .. Len(w) : w[i] = s[i]
    BY <1>1, <1>2 DEF n
  <1>4. w = s
    BY <1>2, <1>3, SeqEqual
  <1>5. QED
    BY <1>1, <1>4 DEF w, n, IsPrefixOf

\* Between two brokers that follow one another nothing but a wrong cut makes their
\* logs differ: a follower that is done reconciling (src/storage/epoch.rs,
\* fetcher_loop) holds a prefix of its leader's log, whatever crashes, failovers,
\* re-elections and delayed answers both went through.
THEOREM ReconciledHolds == Spec => []ReconciledPrefix
  <1>1. IndInv /\ FollowersInv => ReconciledPrefix
    <2> SUFFICES ASSUME IndInv, FollowersInv, Undisturbed PROVE NoDivergence
      BY DEF ReconciledPrefix
    <2>1. ControlInv /\ FollowInv
      BY DEF FollowersInv
    <2>2. ASSUME NEW f \in Brokers, rep[f].fetcher.phase \in {"fetch", "wait", "append"},
                 rep[rep[f].fetcher.leader].epoch = rep[f].fetcher.epoch
          PROVE  IsPrefixOf(log[f], log[rep[f].fetcher.leader])
      <3>1. PICK l \in Brokers, e \in Nat : l = rep[f].fetcher.leader /\ e = rep[f].fetcher.epoch
        BY <2>2, LiveFetcher DEF Ended
      <3>2. rep[f].fetcher.phase \in Connected /\ rep[f].fetcher.phase # "reconcile"
        BY <2>2 DEF Connected
      <3>3. Agrees(f)
        BY <2>1, <2>2, <3>1, <3>2, Following
      <3>4. KeptLen(f) = Len(log[f])
        BY <3>2 DEF KeptLen, LogEnd
      <3>5. Shares(log[f], Len(log[f]), log[l])
        BY <3>1, <3>3, <3>4 DEF Agrees
      <3>6. QED
        BY <3>1, <3>5, LogTypes, SharedPrefix
    <2>3. QED
      BY <2>2 DEF NoDivergence
  <1>2. QED
    BY <1>1, Invariance, FollowersInvariance, PTL

------------------------------------------------------------------------------
(* One leader per epoch, whatever has happened *)

\* No epoch is the controller's before its time, and those who lead at an epoch, or
\* are about to, are the same broker.
SeatInv ==
    /\ \A b \in Brokers, e \in Nat : IsReign(b, e) =>
          e <= meta.leader_epoch /\ (e = meta.leader_epoch /\ meta.leader \in Brokers => b = meta.leader)
    /\ \A b, c \in Brokers, e \in Nat : IsReign(b, e) /\ IsReign(c, e) => b = c

\* No replica takes over.
Roles ==
    \A c \in Brokers : rep'[c].is_leader => rep[c].is_leader /\ rep'[c].epoch = rep[c].epoch

LEMMA FrameRoles ==
  ASSUME Frame PROVE Roles
  BY DEF Frame, Roles

\* Only the answer with the controller's metadata makes a broker a leader.
LEMMA RoleChanges ==
  ASSUME IndInv, [Next]_vars
  PROVE  \/ Roles
         \/ \E b \in Brokers : RefreshMetadata(b) \/ ReceiveMetadata(b)
  <1>1. rep \in [Brokers -> Replica]
    BY DEF IndInv, TypeInv
  <1>2. ASSUME NEW f \in Brokers, NEW y, rep' = [rep EXCEPT ![f].fetcher = y]
        PROVE  Roles
    BY <1>1, <1>2 DEF Roles, Replica
  <1>3. CASE rep' = rep
    BY <1>3 DEF Roles
  <1>4. ASSUME NEW b \in Brokers, NEW v, NEW all, Write(b, v, all)
        PROVE  Roles
    BY <1>1, <1>4 DEF Write, Roles, Replica
  <1>5. CASE ControllerNext
    BY <1>3, <1>5 DEF ControllerNext, Expire, ControllerRestart, Revive, DecideIsr
  <1>6. CASE CrashNext
    <2>1. CASE \E b \in Brokers : StartBroker(b)
      BY <1>3, <2>1 DEF StartBroker
    <2>2. ASSUME NEW b \in Brokers, Crash(b) PROVE Roles
      <3>1. ASSUME NEW c \in Brokers, rep'[c].is_leader
            PROVE  rep[c].is_leader /\ rep'[c].epoch = rep[c].epoch
        <4>1. rep'[c] = NewReplica \/ rep'[c] = [rep[c] EXCEPT !.fetcher = Pinged] \/ rep'[c] = rep[c]
          BY <2>2 DEF Crash
        <4>2. NewReplica.is_leader = FALSE
          BY DEF NewReplica
        <4>3. rep[c] \in Replica
          BY <1>1
        <4>4. QED
          BY <3>1, <4>1, <4>2, <4>3 DEF Replica
      <3>2. QED
        BY <3>1 DEF Roles
    <2>3. QED
      BY <1>6, <2>1, <2>2 DEF CrashNext
  <1>7. CASE RuntimeNext
    <2>1. PICK b \in Brokers :
            \/ RefreshMetadata(b) \/ RequestMetadata(b) \/ ReceiveMetadata(b)
            \/ ChangeIsr(b) \/ ProposeIsr(b) \/ AdoptIsr(b)
            \/ LoseCall(b)
            \/ \E f \in Brokers : LagExpires(b, f)
      BY <1>7 DEF RuntimeNext
    <2>2. CASE RequestMetadata(b)
      BY <1>2, <2>2 DEF RequestMetadata
    <2>3. CASE ChangeIsr(b)
      <3>1. Desired(b) \in SUBSET Brokers
        BY DesiredType
      <3>2. PICK ok \in BOOLEAN : Adopt(b, rep[b].epoch, Desired(b), ok)
        BY <2>3 DEF ChangeIsr
      <3>3. Frame
        BY <3>1, <3>2, AdoptFrame
      <3>4. QED
        BY <3>3, FrameRoles
    <2>4. CASE AdoptIsr(b)
      <3>1. rt[b].isr \in SUBSET Brokers
        BY <2>4, ReplicaType DEF AdoptIsr, Call, Idle
      <3>2. Frame
        BY <2>4, <3>1, AdoptFrame DEF AdoptIsr
      <3>3. QED
        BY <3>2, FrameRoles
    <2>5. CASE ProposeIsr(b) \/ LoseCall(b)
      BY <1>3, <2>5 DEF ProposeIsr, LoseCall
    <2>6. CASE \E f \in Brokers : LagExpires(b, f)
      BY <1>1, <2>6 DEF LagExpires, Roles, Replica
    <2>7. QED
      BY <2>1, <2>2, <2>3, <2>4, <2>5, <2>6
  <1>8. CASE DataNext
    <2>1. PICK b \in Brokers :
            \/ \E all \in BOOLEAN : Produce(b, all)
            \/ \E a \in rep[b].appended : ParkProduce(b, a)
            \/ \E a \in rep[b].pending_all : ProduceTimeout(b, a)
            \/ EpochCheck(b) \/ Reconcile(b)
            \/ ReplicaFetch(b) \/ ReplicaRead(b) \/ ReplicaAppend(b)
            \/ LoseFetch(b)
            \/ \E c \in late[b] : RunLate(b, c)
      BY <1>8 DEF DataNext
    <2>2. CASE \E all \in BOOLEAN : Produce(b, all)
      BY <1>3, <1>4, <2>2 DEF Produce
    <2>3. CASE \E a \in rep[b].appended : ParkProduce(b, a)
      <3>1. PICK a \in rep[b].appended : ParkProduce(b, a)
        BY <2>3
      <3> DEFINE r == [rep[b] EXCEPT !.appended = @ \ {a}, !.pending_all = @ \cup {a}]
      <3>2. rep[b] \in Replica
        BY <1>1
      <3>3. /\ r \in Replica /\ r.epoch = rep[b].epoch /\ r.is_leader = rep[b].is_leader
            /\ r.fetcher = rep[b].fetcher
        BY <3>1, <3>2 DEF Replica
      <3>4. Advance(b, r, LogEnd(b))
        BY <3>1 DEF ParkProduce
      <3> HIDE DEF r
      <3>5. Frame
        BY <3>3, <3>4, AdvanceFrame
      <3>6. QED
        BY <3>5, FrameRoles
    <2>4. CASE \E a \in rep[b].pending_all : ProduceTimeout(b, a)
      BY <1>1, <2>4 DEF ProduceTimeout, Roles, Replica
    <2>5. CASE EpochCheck(b) \/ Reconcile(b) \/ LoseFetch(b)
      BY <1>2, <2>5 DEF EpochCheck, Reconcile, LoseFetch, SetFetcher
    <2>6. CASE ReplicaFetch(b)
      <3> DEFINE x == rep[b].fetcher
                 l == x.leader
                 y == [x EXCEPT !.phase = "wait", !.data = LogEnd(b)]
                 r == [rep[l] EXCEPT !.match_offsets[b] = LogEnd(b),
                                !.recent = IF LogEnd(b) >= LogEnd(l) THEN @ \cup {b} ELSE @]
                 n == AdvanceHwm(l, r, LogEnd(l))
      <3>1. rep' = [rep EXCEPT ![l] = n, ![b].fetcher = y] \/ SetFetcher(b, Pinged)
        BY <2>6 DEF ReplicaFetch
      <3>2. x.phase = "fetch" /\ x.phase \notin Ended
        BY <2>6 DEF ReplicaFetch, Ended
      <3>3. l \in Brokers
        BY <3>2, LiveFetcher
      <3>4. n.epoch = rep[l].epoch /\ n.is_leader = rep[l].is_leader
        BY <1>1, <3>3 DEF AdvanceHwm, Replica
      <3> HIDE DEF n, y, l
      <3>5. CASE rep' = [rep EXCEPT ![l] = n, ![b].fetcher = y]
        <4>1. \A c \in Brokers : \/ rep'[c].is_leader = rep[c].is_leader /\ rep'[c].epoch = rep[c].epoch
                                 \/ c \in {b, l}
          BY <1>1, <3>3, <3>5
        <4>2. CASE b # l
          <5>1. rep'[l] = n
            BY <1>1, <3>3, <3>5, <4>2
          <5>2. rep'[b] = [rep[b] EXCEPT !.fetcher = y]
            BY <1>1, <3>3, <3>5, <4>2
          <5>3. rep'[b].is_leader = rep[b].is_leader /\ rep'[b].epoch = rep[b].epoch
            BY <1>1, <5>2 DEF Replica
          <5>4. QED
            BY <3>4, <4>1, <5>1, <5>3 DEF Roles
        <4>3. CASE b = l
          <5>1. rep'[b] = [n EXCEPT !.fetcher = y]
            BY <1>1, <3>3, <3>5, <4>3
          <5>2. rep'[b].is_leader = n.is_leader /\ rep'[b].epoch = n.epoch
            BY <5>1
          <5>3. QED
            BY <3>4, <4>1, <4>3, <5>2 DEF Roles
        <4>4. QED
          BY <4>2, <4>3
      <3>6. QED
        BY <1>2, <3>1, <3>5 DEF SetFetcher
    <2>7. CASE ReplicaRead(b) \/ ReplicaAppend(b)
      BY <1>2, <2>7 DEF ReplicaRead, ReplicaAppend, AppendReplicated, SetFetcher
    <2>8. CASE \E c \in late[b] : RunLate(b, c)
      <3>1. PICK c \in late[b] : RunLate(b, c)
        BY <2>8
      <3>2. \/ rep' = rep
            \/ \E all : Write(b, c.value, all)
            \/ \E y : rep' = [rep EXCEPT ![b].fetcher = y]
        <4>1. c \in Command
          BY DEF IndInv, TypeInv
        <4>2. c.cmd \in {"epoch", "write", "truncate", "append"}
          BY <4>1 DEF Command, LateWrite
        <4>3. QED
          BY <3>1, <4>2 DEF RunLate, SetFetcher, AppendReplicated
      <3>3. QED
        BY <1>2, <1>3, <1>4, <3>2
    <2>9. QED
      BY <2>1, <2>2, <2>3, <2>4, <2>5, <2>6, <2>7, <2>8
  <1>9. QED
    BY <1>3, <1>5, <1>6, <1>7, <1>8 DEF Next, vars

\* Producers and fetchers leave the controller and its calls alone.
LEMMA DataFrame ==
  ASSUME DataNext
  PROVE  meta' = meta /\ rt' = rt
  <1>1. PICK b \in Brokers :
            \/ \E all \in BOOLEAN : Produce(b, all)
            \/ \E a \in rep[b].appended : ParkProduce(b, a)
            \/ \E a \in rep[b].pending_all : ProduceTimeout(b, a)
            \/ EpochCheck(b) \/ Reconcile(b)
            \/ ReplicaFetch(b) \/ ReplicaRead(b) \/ ReplicaAppend(b)
            \/ LoseFetch(b)
            \/ \E c \in late[b] : RunLate(b, c)
    BY DEF DataNext
  <1>2. \A all \in BOOLEAN : Produce(b, all) => meta' = meta /\ rt' = rt
    BY DEF Produce
  <1>3. \A a : ParkProduce(b, a) \/ ProduceTimeout(b, a) => meta' = meta /\ rt' = rt
    BY DEF ParkProduce, ProduceTimeout
  <1>4. EpochCheck(b) \/ Reconcile(b) \/ LoseFetch(b) => meta' = meta /\ rt' = rt
    BY DEF EpochCheck, Reconcile, LoseFetch
  <1>5. ReplicaFetch(b) => meta' = meta /\ rt' = rt
    BY DEF ReplicaFetch
  <1>6. ReplicaRead(b) \/ ReplicaAppend(b) => meta' = meta /\ rt' = rt
    BY DEF ReplicaRead, ReplicaAppend
  <1>7. \A c : RunLate(b, c) => meta' = meta /\ rt' = rt
    BY DEF RunLate
  <1>8. QED
    BY <1>1, <1>2, <1>3, <1>4, <1>5, <1>6, <1>7

\* A call under way for metadata began before the step, or gets what the controller has.
LEMMA AnswerChanges ==
  ASSUME IndInv, [Next]_vars, NEW c \in Brokers, rt'[c].call = "metadata"
  PROVE  rt'[c] = rt[c] \/ rt'[c].meta = meta
  <1>1. rt \in [Brokers -> Call]
    BY DEF IndInv, TypeInv
  <1>2. ASSUME NEW b \in Brokers, rt' = [rt EXCEPT ![b] = Idle] PROVE rt'[c] = rt[c]
    BY <1>1, <1>2 DEF Idle
  <1>3. CASE ControllerNext
    <2>1. CASE ControllerRestart
      BY <2>1 DEF ControllerRestart, Idle
    <2>2. CASE \E b \in Brokers : DecideIsr(b)
      BY <1>1, <2>2 DEF DecideIsr
    <2>3. CASE (\E dead \in SUBSET alive : Expire(dead)) \/ (\E b \in Brokers : Revive(b))
      BY <2>3 DEF Expire, Revive
    <2>4. QED
      BY <1>3, <2>1, <2>2, <2>3 DEF ControllerNext
  <1>4. CASE RuntimeNext
    <2>1. PICK b \in Brokers :
            \/ RefreshMetadata(b) \/ RequestMetadata(b) \/ ReceiveMetadata(b)
            \/ ChangeIsr(b) \/ ProposeIsr(b) \/ AdoptIsr(b)
            \/ LoseCall(b)
            \/ \E f \in Brokers : LagExpires(b, f)
      BY <1>4 DEF RuntimeNext
    <2>2. CASE RequestMetadata(b) \/ ProposeIsr(b)
      BY <1>1, <2>2 DEF RequestMetadata, ProposeIsr
    <2>3. CASE ReceiveMetadata(b) \/ AdoptIsr(b) \/ LoseCall(b)
      BY <1>2, <2>3 DEF ReceiveMetadata, AdoptIsr, LoseCall
    <2>4. CASE RefreshMetadata(b) \/ ChangeIsr(b) \/ \E f \in Brokers : LagExpires(b, f)
      BY <2>4 DEF RefreshMetadata, ChangeIsr, LagExpires
    <2>5. QED
      BY <2>1, <2>2, <2>3, <2>4
  <1>5. CASE DataNext
    BY <1>5, DataFrame
  <1>6. CASE CrashNext
    BY <1>2, <1>6 DEF CrashNext, Crash, StartBroker
  <1>7. QED
    BY <1>3, <1>4, <1>5, <1>6 DEF Next, vars

\* Only an election names another leader or begins an epoch.
LEMMA LeaderChanges ==
  ASSUME IndInv, [Next]_vars
  PROVE  \/ meta'.leader = meta.leader /\ meta'.leader_epoch = meta.leader_epoch
         \/ /\ \E live \in SUBSET Brokers : ElectAmong(live)
            /\ rep' = rep /\ rt' = rt
  <1>1. CASE ControllerNext
    <2>1. CASE ControllerRestart
      BY <2>1 DEF ControllerRestart
    <2>2. ASSUME NEW b \in Brokers, DecideIsr(b)
          PROVE  meta'.leader = meta.leader /\ meta'.leader_epoch = meta.leader_epoch
      <3>1. PICK ok \in BOOLEAN : AlterIsr(b, rt[b].epoch, rt[b].isr, ok, FALSE)
        BY <2>2 DEF DecideIsr
      <3>2. rt[b].isr \in SUBSET Brokers
        BY <2>2, ReplicaType DEF DecideIsr, Call, Idle
      <3>3. QED
        BY <3>1, <3>2, AlterIsrTakes
    <2>3. CASE (\E dead \in SUBSET alive : Expire(dead)) \/ (\E b \in Brokers : Revive(b))
      <3>1. alive' \in SUBSET Brokers
        BY <2>3 DEF Expire, Revive, IndInv, TypeInv
      <3>2. ElectAmong(alive') /\ rep' = rep /\ rt' = rt
        BY <2>3 DEF Expire, Revive
      <3>3. QED
        BY <3>1, <3>2
    <2>4. QED
      BY <1>1, <2>1, <2>2, <2>3 DEF ControllerNext
  <1>2. CASE RuntimeNext
    <2>1. CASE \E b \in Brokers : ChangeIsr(b)
      <3>1. PICK b \in Brokers, ok \in BOOLEAN : AlterIsr(b, rep[b].epoch, Desired(b), ok, TRUE)
        BY <2>1 DEF ChangeIsr
      <3>2. Desired(b) \in SUBSET Brokers
        BY DesiredType
      <3>3. QED
        BY <3>1, <3>2, AlterIsrTakes
    <2>2. CASE ~ \E b \in Brokers : ChangeIsr(b)
      BY <1>2, <2>2 DEF RuntimeNext, RefreshMetadata, RequestMetadata, ReceiveMetadata,
         ProposeIsr, AdoptIsr, LoseCall, LagExpires
    <2>3. QED
      BY <2>1, <2>2
  <1>3. CASE DataNext
    BY <1>3, DataFrame
  <1>4. CASE CrashNext
    BY <1>4 DEF CrashNext, Crash, StartBroker
  <1>5. QED
    BY <1>1, <1>2, <1>3, <1>4 DEF Next, vars

\* Nobody begins to lead whom the controller has not named at its present epoch.
LEMMA SeatKept ==
  ASSUME IndInv, SeatInv,
         meta'.leader = meta.leader, meta'.leader_epoch = meta.leader_epoch,
         \A b \in Brokers, e \in Nat :
            IsReign(b, e)' => IsReign(b, e) \/ (b = meta.leader /\ e = meta.leader_epoch)
  PROVE  SeatInv'
  <1>1. meta.leader_epoch \in Nat
    BY EpochTypes
  <1>2. ASSUME NEW b \in Brokers, NEW e \in Nat, IsReign(b, e)'
        PROVE  /\ e <= meta'.leader_epoch
               /\ e = meta'.leader_epoch /\ meta'.leader \in Brokers => b = meta'.leader
    BY <1>1, <1>2 DEF SeatInv
  <1>3. ASSUME NEW b \in Brokers, NEW c \in Brokers, NEW e \in Nat, IsReign(b, e)', IsReign(c, e)'
        PROVE  b = c
    BY <1>3 DEF SeatInv
  <1>4. QED
    BY <1>2, <1>3 DEF SeatInv

LEMMA SeatNext ==
  ASSUME IndInv, SeatInv, [Next]_vars
  PROVE  SeatInv'
  <1>1. CASE /\ \E live \in SUBSET Brokers : ElectAmong(live)
             /\ rep' = rep /\ rt' = rt
    <2>1. \A b \in Brokers, e \in Nat : IsReign(b, e)' <=> IsReign(b, e)
      BY <1>1 DEF IsReign
    <2>2. PICK n \in Nat : n = meta.leader_epoch
      BY EpochTypes
    <2>3. \/ meta' = meta
          \/ meta'.leader = NoLeader /\ meta'.leader_epoch = n
          \/ meta'.leader_epoch = n + 1
      BY <1>1, <2>2, Elects
    <2>4. QED
      BY <2>1, <2>2, <2>3, NoLeaderAssumption DEF SeatInv
  <1>2. CASE meta'.leader = meta.leader /\ meta'.leader_epoch = meta.leader_epoch /\ Roles
    <2>1. ASSUME NEW b \in Brokers, NEW e \in Nat, IsReign(b, e)'
          PROVE  IsReign(b, e) \/ (b = meta.leader /\ e = meta.leader_epoch)
      BY <1>2, <2>1, AnswerChanges DEF IsReign, Roles
    <2>2. QED
      BY <1>2, <2>1, SeatKept
  <1>3. ASSUME NEW b \in Brokers, NEW m \in Tuple, Apply(b, m), meta' = meta,
               m = meta \/ (rt[b].call = "metadata" /\ m = rt[b].meta),
               \A c \in Brokers : rt'[c].call = "metadata" => rt'[c] = rt[c]
        PROVE  SeatInv'
    <2>1. /\ \A c \in Brokers \ {b} : rep'[c] = rep[c]
          /\ rep'[b].epoch = m.leader_epoch /\ rep'[b].is_leader = (m.leader = b)
      BY <1>3, ApplyRole
    <2>2. ASSUME NEW c \in Brokers, NEW e \in Nat, IsReign(c, e)'
          PROVE  IsReign(c, e) \/ (c = meta.leader /\ e = meta.leader_epoch)
      BY <1>3, <2>1, <2>2 DEF IsReign
    <2>3. QED
      BY <1>3, <2>2, SeatKept
  <1>4. ASSUME NEW b \in Brokers, RefreshMetadata(b) PROVE SeatInv'
    <2>1. meta \in Tuple /\ Apply(b, meta) /\ meta' = meta /\ rt' = rt
      BY <1>4 DEF RefreshMetadata, IndInv, TypeInv
    <2>2. PICK m \in Tuple : m = meta
      BY <2>1
    <2>3. QED
      BY <1>3, <2>1, <2>2
  <1>5. ASSUME NEW b \in Brokers, ReceiveMetadata(b) PROVE SeatInv'
    <2>1. rt[b].meta \in Tuple /\ rt[b].call = "metadata"
      BY <1>5, EpochTypes DEF ReceiveMetadata
    <2>2. PICK m \in Tuple : m = rt[b].meta
      BY <2>1
    <2>3. Apply(b, m) /\ meta' = meta /\ rt' = [rt EXCEPT ![b] = Idle]
      BY <1>5, <2>2 DEF ReceiveMetadata
    <2>4. \A c \in Brokers : rt'[c].call = "metadata" => rt'[c] = rt[c]
      BY <2>3 DEF IndInv, TypeInv, Idle
    <2>5. QED
      BY <1>3, <2>1, <2>2, <2>3, <2>4
  <1>6. QED
    BY <1>1, <1>2, <1>4, <1>5, LeaderChanges, RoleChanges

\* Two brokers that take themselves for the leader do not do so at the same epoch:
\* what lets an epoch stand for one history (apply_metadata, sweep_liveness).
OneLeaderPerEpoch ==
    \A b, c \in Brokers :
        rep[b].is_leader /\ rep[c].is_leader /\ rep[b].epoch = rep[c].epoch => b = c

\* An epoch has one leader, whatever crashes, restarts of the controller, answers
\* that come late and preempted tasks do; nothing of what the other theorems exclude
\* is excluded here.
THEOREM OneLeaderHolds == Spec => []OneLeaderPerEpoch
  <1>1. Init => SeatInv
    <2>1. ASSUME Init, NEW b \in Brokers, NEW e \in Nat PROVE ~ IsReign(b, e)
      BY <2>1 DEF Init, NewReplica, Idle, IsReign
    <2>2. QED
      BY <2>1 DEF SeatInv
  <1>2. IndInv /\ SeatInv /\ [Next]_vars => SeatInv'
    BY SeatNext
  <1>3. IndInv /\ SeatInv => OneLeaderPerEpoch
    <2> SUFFICES ASSUME IndInv, SeatInv, NEW b \in Brokers, NEW c \in Brokers,
                        rep[b].is_leader, rep[c].is_leader, rep[b].epoch = rep[c].epoch
                 PROVE  b = c
      BY DEF OneLeaderPerEpoch
    <2>1. PICK e \in Nat : e = rep[b].epoch
      BY EpochTypes
    <2>2. IsReign(b, e) /\ IsReign(c, e)
      BY <2>1 DEF IsReign
    <2>3. QED
      BY <2>2 DEF SeatInv
  <1>4. QED
    BY <1>1, <1>2, <1>3, Invariance, PTL DEF Spec

====================
