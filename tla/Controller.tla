----------------------------- MODULE Controller ------------------------------
(***************************************************************************)
(* The controller (src/controller/mod.rs): broker registration and         *)
(* liveness, topic creation, leader election from the ISR, ISR changes     *)
(* proposed by leaders, the metadata version and the durable snapshot.     *)
(*                                                                         *)
(* Every request and every sweep runs under one mutex (mutate), persist    *)
(* included, so each is one action.  A crash in the middle of one is       *)
(* either a crash before it (the rename has not happened, nobody saw the   *)
(* change) or after it.  Heartbeat clocks are abstracted: any set of live  *)
(* brokers may be found expired by a sweep.                                *)
(***************************************************************************)
EXTENDS PartitionMeta, FiniteSets

CONSTANTS Topics,              \* topic names
          MaxPartitions,       \* bound on the partition count of a request (1024)
          MaxVersion,          \* bound on the metadata version
          MaxPersistFailures   \* bound on failed snapshot writes

ASSUME BrokersAssumption == Brokers \subseteq Nat /\ IsFiniteSet(Brokers)
ASSUME MaxPartitionsAssumption == MaxPartitions \in Nat \ {0}

VARIABLES version,    \* State.version
          known,      \* ids in State.brokers
          alive,      \* those with alive = true
          parts,      \* State.topics, as a function on <<topic, index>>
          snapshot,   \* contents of the state file
          failures,   \* history: snapshot writes that failed
          reigns,     \* history: every (partition, epoch, leader) ever in force
          reply       \* error code of the last response

vars == <<version, known, alive, parts, snapshot, failures, reigns, reply>>

Errors == {"None", "UnknownMember", "TopicExists", "Malformed",
           "UnknownTopicOrPartition", "FencedEpoch"}

Keys == Topics \X (0 .. MaxPartitions - 1)

Reign == [key : Keys, epoch : Nat, leader : Brokers]

ReignsOf(ps) ==
    {[key |-> k, epoch |-> ps[k].leader_epoch, leader |-> ps[k].leader] :
        k \in {j \in DOMAIN ps : ps[j].leader # NoLeader}}

EmptyParts == [k \in {} |-> NewPartition(NoLeader, {})]

------------------------------------------------------------------------------
(* mutate: bump the version and persist, when the closure reports a change *)

Snapshot(v, bs, ps) == [version |-> v, known |-> bs, parts |-> ps]

\* persist_snapshot writes a temporary file and renames it.  A failure is
\* reported on stderr only: the change stays in memory and is answered.
PersistSnapshot(s) ==
    \/ snapshot' = s /\ UNCHANGED failures
    \/ /\ failures < MaxPersistFailures
       /\ failures' = failures + 1
       /\ UNCHANGED snapshot

\* Mutant of Mutate: the snapshot is taken before the version is bumped.
MutantPersistFirst(changed) ==
    /\ \/ /\ changed
          /\ version < MaxVersion
          /\ version' = version + 1
          /\ PersistSnapshot(Snapshot(version, known', parts'))
       \/ /\ ~ changed
          /\ UNCHANGED <<version, snapshot, failures>>
    /\ reigns' = reigns \cup ReignsOf(parts')

\* Mutant of Mutate: a change is persisted under the old version.
MutantSameVersion(changed) ==
    /\ \/ changed /\ PersistSnapshot(Snapshot(version, known', parts'))
       \/ ~ changed /\ UNCHANGED <<snapshot, failures>>
    /\ reigns' = reigns \cup ReignsOf(parts')
    /\ UNCHANGED version

Mutate(changed) ==
    /\ \/ /\ changed
          /\ version < MaxVersion
          /\ version' = version + 1
          /\ PersistSnapshot(Snapshot(version', known', parts'))
       \/ /\ ~ changed
          /\ UNCHANGED <<version, snapshot, failures>>
    /\ reigns' = reigns \cup ReignsOf(parts')

\* elect_where_needed over every partition; cand names who is chosen where.
ElectWhereNeeded(cand, live) ==
    /\ \A k \in DOMAIN parts : cand[k] \in Candidates(parts[k], live)
    /\ parts' = [k \in DOMAIN parts |-> Elect(parts[k], cand[k], live)]

Choices == [DOMAIN parts -> Brokers \cup {NoLeader}]

------------------------------------------------------------------------------
(* Requests *)

\* moved: the broker announces an address the controller does not have.
RegisterBroker(b, moved) ==
    /\ known' = known \cup {b}
    /\ alive' = alive \cup {b}
    /\ \E cand \in Choices : ElectWhereNeeded(cand, alive')
    /\ Mutate(b \notin alive \/ moved \/ parts' # parts)
    /\ reply' = "None"

\* Mutant of BrokerHeartbeat: a heartbeat of an unknown broker counts.
MutantHeartbeatUnknown(b) ==
    /\ UNCHANGED known
    /\ alive' = alive \cup {b}
    /\ \E cand \in Choices : ElectWhereNeeded(cand, alive')
    /\ reply' = "None"
    /\ Mutate(parts' # parts)

\* Mutant of BrokerHeartbeat: a revival does not lead to an election.
MutantHeartbeatNoElection(b) ==
    /\ UNCHANGED <<known, parts>>
    /\ alive' = IF b \in known THEN alive \cup {b} ELSE alive
    /\ reply' = IF b \in known THEN "None" ELSE "UnknownMember"
    /\ Mutate(FALSE)

\* A heartbeat of a broker thought dead revives it without a re-registration.
BrokerHeartbeat(b) ==
    /\ UNCHANGED known
    /\ \/ /\ b \notin known
          /\ UNCHANGED <<alive, parts>>
          /\ reply' = "UnknownMember"
       \/ /\ b \in alive
          /\ UNCHANGED <<alive, parts>>
          /\ reply' = "None"
       \/ /\ b \in known \ alive
          /\ alive' = alive \cup {b}
          /\ \E cand \in Choices : ElectWhereNeeded(cand, alive')
          /\ reply' = "None"
    /\ Mutate(parts' # parts)

TopicExists(t) == \E k \in DOMAIN parts : k[1] = t

\* The sorted list of live broker ids, as the only increasing enumeration.
SortedAlive ==
    {s \in [0 .. Cardinality(alive) - 1 -> alive] :
        \A i, j \in DOMAIN s : i < j => s[i] < s[j]}

\* Replicas of partition i: rf consecutive entries of the sorted list.
ReplicasAt(s, i, rf) == {s[(i + n) % Cardinality(alive)] : n \in 0 .. rf - 1}

AddTopic(t, n, rf, s) ==
    LET new == {t} \X (0 .. n - 1)
    IN  parts' = [k \in DOMAIN parts \cup new |->
                    IF k \in new
                    THEN NewPartition(s[k[2] % Cardinality(alive)],
                                      ReplicasAt(s, k[2], rf))
                    ELSE parts[k]]

\* A replication factor of 0 is read as 1.
Rf(requested) == IF requested = 0 THEN 1 ELSE requested

CreateTopic(t, n, requested) ==
    LET bad == n = 0 \/ n > MaxPartitions \/ Rf(requested) > Cardinality(alive)
    IN  /\ UNCHANGED <<known, alive>>
        /\ \/ /\ TopicExists(t)
              /\ UNCHANGED parts
              /\ reply' = "TopicExists"
           \/ /\ ~ TopicExists(t) /\ bad
              /\ UNCHANGED parts
              /\ reply' = "Malformed"
           \/ /\ ~ TopicExists(t) /\ ~ bad
              /\ \E s \in SortedAlive : AddTopic(t, n, Rf(requested), s)
              /\ reply' = "None"
        /\ Mutate(reply' = "None")

\* reordered: the proposal lists the present members in another order, which
\* the vector comparison takes for a change.
AlterIsr(k, epoch, isr, reordered) ==
    /\ UNCHANGED <<known, alive>>
    /\ \/ /\ k \notin DOMAIN parts
          /\ UNCHANGED parts
          /\ reply' = "UnknownTopicOrPartition"
          /\ Mutate(FALSE)
       \/ /\ k \in DOMAIN parts
          /\ reply' = AlterIsrError(parts[k], epoch, isr)
          /\ reply' # "None"
          /\ UNCHANGED parts
          /\ Mutate(FALSE)
       \/ /\ k \in DOMAIN parts
          /\ reply' = AlterIsrError(parts[k], epoch, isr)
          /\ reply' = "None"
          /\ parts' = [parts EXCEPT ![k].isr = isr]
          /\ Mutate(parts' # parts \/ reordered)

------------------------------------------------------------------------------
(* Sweeps and restarts *)

SweepLiveness(expired) ==
    /\ expired # {}
    /\ alive' = alive \ expired
    /\ UNCHANGED known
    /\ \E cand \in Choices : ElectWhereNeeded(cand, alive')
    /\ Mutate(TRUE)
    /\ UNCHANGED reply

\* Mutant of Restart: the brokers in the snapshot are taken for alive.
MutantRestartAlive ==
    /\ version' = snapshot.version
    /\ known' = snapshot.known
    /\ parts' = snapshot.parts
    /\ alive' = known'
    /\ reigns' = reigns \cup ReignsOf(parts')
    /\ UNCHANGED <<snapshot, failures, reply>>

\* Crash and restart: load_snapshot, with nobody trusted as alive.
Restart ==
    /\ version' = snapshot.version
    /\ known' = snapshot.known
    /\ parts' = snapshot.parts
    /\ alive' = {}
    /\ reigns' = reigns \cup ReignsOf(parts')
    /\ UNCHANGED <<snapshot, failures, reply>>

------------------------------------------------------------------------------
(* Specification *)

Init ==
    /\ version = 0
    /\ known = {}
    /\ alive = {}
    /\ parts = EmptyParts
    /\ snapshot = Snapshot(0, {}, EmptyParts)
    /\ failures = 0
    /\ reigns = {}
    /\ reply = "None"

Next ==
    \/ \E b \in Brokers, moved \in BOOLEAN : RegisterBroker(b, moved)
    \/ \E b \in Brokers : BrokerHeartbeat(b)
    \/ \E t \in Topics, n \in 0 .. MaxPartitions + 1,
          rf \in 0 .. Cardinality(Brokers) : CreateTopic(t, n, rf)
    \/ \E k \in Keys, epoch \in 1 .. MaxVersion, isr \in SUBSET Brokers,
          reordered \in BOOLEAN : AlterIsr(k, epoch, isr, reordered)
    \/ \E expired \in SUBSET alive : SweepLiveness(expired)
    \/ Restart

Spec == Init /\ [][Next]_vars

------------------------------------------------------------------------------
(* Properties *)

\* State is well typed: a known-broker table, live brokers among them, and one
\* metadata tuple per partition of an existing topic, in memory and on disk.
PartsOK(ps) ==
    /\ DOMAIN ps \subseteq Keys
    /\ ps \in [DOMAIN ps -> PartitionState]

TypeOK ==
    /\ version \in Nat
    /\ known \subseteq Brokers
    /\ alive \subseteq known
    /\ PartsOK(parts)
    /\ snapshot = Snapshot(snapshot.version, snapshot.known, snapshot.parts)
    /\ snapshot.version \in Nat
    /\ snapshot.known \subseteq Brokers
    /\ PartsOK(snapshot.parts)
    /\ failures \in Nat
    /\ reigns \subseteq Reign
    /\ reply \in Errors

\* As long as every snapshot write succeeded, no (partition, epoch) ever has
\* two different leaders, restarts included: the epoch a broker was elected
\* under identifies it, which is what epoch fencing on the brokers relies on.
OneLeaderPerEpoch ==
    failures = 0 =>
        \A r, s \in reigns : r.key = s.key /\ r.epoch = s.epoch => r = s

\* The leader is always in the ISR, the ISR never empties, and it never leaves
\* the replica set, also in the snapshot a restart will load.
WellFormed(ps) ==
    \A k \in DOMAIN ps :
        /\ ps[k].isr # {} /\ ps[k].isr \subseteq ps[k].replicas
        /\ ps[k].leader \in ps[k].isr \cup {NoLeader}

LeaderInIsr == WellFormed(parts) /\ WellFormed(snapshot.parts)

\* elect_where_needed is called often enough: a partition with a live ISR
\* member has a live leader after every request and sweep, and one without is
\* marked offline (or nobody has come back since a restart).
LedWhenAvailable ==
    \A k \in DOMAIN parts :
        \/ parts[k].leader \in alive
        \/ /\ parts[k].isr \cap alive = {}
           /\ parts[k].leader = NoLeader \/ alive = {}

\* mutate persists before it answers: with no failed write, a restart loses
\* neither a partition change, nor a registration, nor a version.
RestartLosesNothing ==
    failures = 0 => snapshot = Snapshot(version, known, parts)

\* No unclean election: leadership only moves to a live member of the ISR it
\* was taken from, under an epoch one higher, and an election never adds to
\* the ISR.  A restart that loads an older snapshot is exempt.
CleanElection ==
    [][failures = 0 => \A k \in DOMAIN parts :
        LET p == parts[k]
            q == parts'[k]
        IN  q.leader # p.leader /\ q.leader # NoLeader =>
                /\ q.leader \in p.isr \cap alive'
                /\ q.leader_epoch = p.leader_epoch + 1
                /\ q.isr = p.isr \cap alive']_vars

\* An offline partition remembers its last ISR until one of its members leads
\* again: the deposed leader still holds the current epoch, and its AlterIsr
\* must not get through.
OfflineIsrFrozen ==
    [][failures = 0 => \A k \in DOMAIN parts :
        LET p == parts[k]
            q == parts'[k]
        IN  p.leader = NoLeader /\ q.leader = NoLeader => q = p]_vars

\* Brokers refetch metadata only when the version in a heartbeat reply differs
\* from theirs: every change of a partition must come with a new version.
EveryChangeVersioned ==
    [][failures = 0 /\ parts' # parts => version' > version]_vars

====================
