# replog: TLA+ models and proofs

replog is a replicated log: brokers keep partitions on disk and copy them to
each other, a single controller owns the metadata, clients produce and consume
through the brokers. This directory holds TLA+ models of its core, the TLC
configurations that check them, and TLAPS proofs. Source paths below are
relative to the repository.

## The system and its parts

| Part | State it keeps | Operations | Hard behaviour |
|---|---|---|---|
| Controller (`src/controller/mod.rs`) | brokers and their liveness; per partition (replicas, leader, leader_epoch, ISR); metadata version; a snapshot file | RegisterBroker, BrokerHeartbeat, CreateTopic, AlterIsr, liveness sweep, restart | elections racing late heartbeats and proposals of deposed leaders; restarts; failed snapshot writes |
| Replication (`src/broker/mod.rs`, `src/broker/cluster.rs`) | per replica: epoch, role, ISR, match offsets, high-water mark, parked produces, fetcher task | apply_metadata, isr_maintenance, Produce, ReplicaFetch, EpochCheck, fetcher loop | brokers acting on different metadata, answers overtaken by role changes, zombie leaders, tasks between check and use |
| Partition thread (`src/broker/partition.rs`) | one log, its epoch checkpoint, pending durable acks | Append, AppendReplicated, Read, TruncateTo, RecordEpoch, EpochStatus, EpochEndFor, flush timer | ordering of commands from several tasks, write errors, crash between two files |
| Epoch checkpoint (`src/storage/epoch.rs`) | list of (epoch, start offset) | append, end_offset_for, truncate_to, load | disagreement with the log after a crash |
| Storage log (`src/storage/log.rs`, `segment.rs`, `index.rs`, `record.rs`) | segments, sparse index, durable offset | append, roll, read, flush, recover, truncate_suffix | torn tails, several files changed by one operation |
| Consumer groups (`src/broker/groups.rs`, `src/client/group.rs`) | members, generation, assignment | join, heartbeat, leave, expire, commit check; client poll loop | rebalances racing commits and polls, cancelled calls |
| Committed offsets (`src/broker/offsets.rs`) | append-only commit log, table | commit, fetch, open | commit applied after its generation ended; two orders of overlapping commits |
| Wire protocol (`src/proto`) | none | encode and decode every message, frames | drift between hand-written encoders and decoders |
| Connection (`src/client/mod.rs`) and request serving (`src/broker/mod.rs`, `serve_connection`, `dispatch`) | correlation table, reader and writer tasks; the broker's topics, offsets and reply tasks | call, send_only; one handler per request | waiters registered while a connection dies; answers out of order; stop in the middle |
| Cluster client (`src/client/cluster.rs`) | cached metadata, connection table | refresh_metadata, create_topic, produce, fetch with retries | stale metadata from zombies, retries of what was done, tasks sharing one cache |
| Checker (`src/checker/mod.rs`), torture workload (`src/torture`) | recorded histories | verify, verify_from_start; producer and reader loops | a verdict that misses a loss, or accuses a correct run |
| Rest of the harness, binaries, benchmarks | - | - | not modelled: test equipment, process start |

Interaction: brokers call the controller (register, heartbeat, metadata,
AlterIsr); the controller never calls. A broker's `cluster_runtime` loop applies
metadata to its replicas and may turn one into a leader or spawn a fetcher;
a fetcher calls the leader's broker (EpochCheck, ReplicaFetch). Inside a broker,
request tasks, the runtime and fetchers share `ReplState` under a mutex and send
commands to the partition thread over a channel.

What makes each part correct: the controller never elects uncleanly, never
reuses an epoch for another leader and loses nothing in a restart; replication
never loses an acknowledged record, lets followers converge to the leader's log
and eventually brings everybody back; the checkpoint answers where an epoch
ended; storage recovers a prefix of what was written that contains everything
durable; a durable ack is for a record on stable storage and is always sent; a
group never has two owners of a partition in one generation and commits only what
was delivered; a call returns, with the answer to its own request; an acknowledged
produce is in the log however often it was retried; and the checker says so.

## Modules

| Module | Models | Theorems |
|---|---|---|
| `PartitionMeta` | the tuple of a partition, election and the AlterIsr verdict, as operators | used by both below |
| `Controller`, `MCController` | the controller | `Controller_proofs` |
| `EpochCheckpoint` | the checkpoint's operations, as operators | - |
| `Replication`, `MCReplication` | one partition with its controller tuple, brokers, fetchers, producers and faults; composes `PartitionMeta` and `EpochCheckpoint` | `Replication_proofs`, `Committed_proofs` |
| `DurableLog` | abstract: what a log promises, a sequence with a stable prefix | - |
| `SegmentLog`, `MCSegmentLog` | the log on disk, as file operations; implements `DurableLog` | - |
| `PartitionThread`, `MCPartitionThread` | the writer thread of a partition: a `DurableLog` beside an `EpochCheckpoint`, durable acks, the flush timer | `PartitionThread_proofs` |
| `Groups`, `MCGroups` | coordinator, committed offsets and group consumers | `Groups_proofs` |
| `Wire` | the byte layout of every message, as tables of fields and the walk over them | - |
| `Connection`, `MCConnection` | one connection, client and broker side; the codec is a parameter, for which `MCConnection` takes `Wire` | `Connection_proofs` |
| `Checker` | the checker's verdict, and the reference definition it is compared with | `ClusterClient_proofs` |
| `ClusterClient`, `MCClusterClient` | the cluster client under the torture workload, judged by `Checker` | `ClusterClient_proofs` |
| `ProofLemmas` | what the proofs share: sequences, prefixes, induction over naturals | - |

Operators named `Mutant...` are wrong versions of the definition that follows
them. They are used by no specification; each shows, when put in the place of
the original, that a property can fail.

### Controller

Every request and sweep runs under one mutex in the source, including the write
of the snapshot, so each is one action. `parts` is `State.topics` as a function
on (topic, index); `known` and `alive` are the broker table; `snapshot` the file.
`reigns` and `failures` are history variables: every (partition, epoch, leader)
that was ever in force, and the snapshot writes that failed. The ISR is a set:
the source elects the first live entry of a vector, the model any live member, so
what holds for the model holds whatever the order. Heartbeat clocks are
abstracted: any set of live brokers may be found expired. Addresses are reduced
to whether a registration changes one.

### Replication

A record is the number of the produce call that made it, a log a sequence of
records. What the source does under one lock, or as one command of the partition
thread, is one action; an await separates actions. `rep[b]` is `ReplState` plus
the high-water mark and the fetcher (a record whose `phase` says where in
`fetcher_loop` it is; the generation check of the source is the replacement of
this record by a role change). `appended` are acks=all produces between their
append and the lock that parks them, `recent` are the followers whose last
caught-up time lies within the lag window (a lag window may run out at any time).
`rt[b]` is the controller call the runtime waits for.

Remote calls are prompt (request, handling and use of the answer in one action)
or delayed (separate actions). `ReplicaFetch` always has its own step for the
acceptance and one for the read at the end of the long poll, because the source
checks role and epoch only at the first. A delayed request is not modelled apart
from a delayed answer for the fetcher, whose own log does not move while it waits.
`EpochCheck` is one step at the leader: the check of the role (`src/broker/mod.rs:1205`)
and the query of the partition thread that a task makes after it (line 1217) are not
taken apart, so an answer given by a broker deposed between the two is not modelled.
A metadata or AlterIsr call is made by a broker the controller holds for alive,
since each turn of the loop heartbeats first.

Four events of the source are counted in `faults` so that properties can be
stated with and without them: `stale` (a re-admission to the ISR of a follower
that did not join this reign or lacks committed records), `strays` (a produce
parked after its leader fell), `preemptions` (a task stopped between a check
and the command that relies on it; it uses up a delay as well) and `miscuts` (an
`EpochCheck` answer that makes the follower keep a record the leader has another
one for; or cut one its leader counts it to have; or, if it is in the ISR or about to
lead, cut one that both have). `Undisturbed` says none happened;
`ReconcilesSafely` says that while there are only two brokers, and none of the other
events, a reconciliation is never such a miscut. It does not say that the cut falls
where the histories part: a follower outside the ISR that filed a record under a
later epoch than it was written in may cut what both share, also with two brokers,
and fetches it again. What each
race leads to is told under "What the models show"; the passing runs show that
nothing else goes wrong.

Simplifications: one partition; a crash keeps the whole log (kill -9, not power
loss); a fetcher's ping and its being marked dead are one step; the entry a timed
out produce leaves in `pending_all`, which nobody waits for, is removed;
graceful shutdown is left out (a crash does more).

### Storage log

`SegmentLog` sees a file as a sequence of cells (a record is a head cell and as
many body cells as its size), and every call of `Log` as the list of file
operations it makes, in order. `Serve` makes all of them and updates the fields in
memory; `Crash` makes a prefix, and a power loss then takes unsynced cells of log
files and any entries of index files. `Open` is `Log::open` with
`Segment::recover`: it scans, cuts the torn tail of the last segment, refuses
holes and damage elsewhere, and rebuilds indexes. `held` is what the files hold,
recomputed from them after every step, and is the refinement mapping to
`DurableLog`. The batch policy is modelled with its byte trigger and a time trigger
that may fire at any append, which includes what `always` does; under `os` the
log flushes only when it rolls (`PartitionThread` has all three). Taken for granted: creating and removing a file is durable and ordered, and a failed write
is not modelled.

### Partition thread

`PartitionThread` has the channel as a queue, one action per command, the timer
and the graceful stop. Its senders are the tasks of the replica it serves, in as much
detail as their commands show: `stage` says how far the leader is (its role is set
under the lock, `record_epoch` goes out after it, produces come before and after) or
the fetcher (it asks for the epoch on file, reconciles, files its epoch if it is later
than `local`, its `local_epoch`, and passes on records). Roles change at any point; a
fetcher that was stopped between `is_current` and its append leaves a `stray`. What
leaders' logs hold is not modelled: a fetched record was written in any epoch up to the
follower's, and a truncation goes to any offset. A record carries both epochs, the one
it was written in and the one the replica was in when it `came`. Offsets are counts, a
record is one byte.

`promised`, `cut`, `deposed` and `lapses` are history variables. `lapses` names what
kept the checkpoint from describing the log: a restart found it ahead of the log, a
produce came early (before its epoch was on file), the entry of the fetcher's own epoch
was dropped by its truncation, a stray came late. `AnswersUnlessLapsed` says what
an answer about epoch e is good for while none of them happened: nothing before it was
written later than e, and everything from there on came later than e. On a leader's own
records that is exactly where e ended. On fetched ones it may be lower, because they are
filed under the epoch they were fetched in. Each of the four lapses alone breaks it.

### Consumer groups

`Groups` has one group. A consumer's `rejoin` is a join followed by one offset
fetch per partition, each a step; a commit is one call per partition; any of these
may be cancelled half way, as a dropped future is. The broker checks a commit's
generation when it arrives and applies it in a task of two steps, append and table
update. Expiry of members whose consumer has gone is certain, expiry of a slow
one is a fault. A restart forgets the membership and replays the offsets log; it ends
every consumer, because a `GroupConsumer` owns one connection and never opens another:
nobody comes back with a member id or generation of before the restart.

### Connection and wire

`Wire` lists, for every message and both directions separately, the fields in the
order the encoder writes and the decoder reads them, with their widths; one walk
over such a list does the encoding, another the decoding, so a disagreement
between the two sides of the source would be one between two lists. `Connection`
sends these bytes: `call_start` is two steps (park the waiter under the lock, then
queue the frame), the reader task's exit is one step under the same lock, replies
of the broker come from tasks in any order. Group, replication and controller
requests are answered from a set of answers (`PeerAnswers`), because other modules
say which one; what matters here is that they travel and return. A cut connection
loses a suffix of each direction.

### Cluster client

`ClusterClient` has a small cluster around the client: the controller's metadata,
brokers whose view lags, requests that outlive their caller, and the committed log.
Several tasks share one metadata cache and one table of connections, in which a
broken connection stays until somebody fails on it. One candidate of a refresh is one
step (connect, the metadata call and, if it fails, `drop_conn`,
`src/client/cluster.rs:69`); removing another task's new connection by its address is
therefore modelled for produce, fetch and create only. `faults` bounds all mishaps
together; two of them (`Lose`, `Misserve`) break the cluster on purpose, to give
the checker wrong histories to find. `intact` says neither happened.

## Runs

Passing runs:

| Run | Instance | Shows |
|---|---|---|
| `controller` | 3 brokers, 1 topic, up to 2 partitions, 6 versions, 1 silent snapshot failure | no unclean election, no epoch reused, led when available, offline ISR frozen, every change versioned, snapshot equals state |
| `replication` | 2 brokers, 3 epochs, 2 records, 2 expiries, 1 sound re-admission, 1 delayed call or preempted task, 1 stray, 1 miscut | acked and readable records are on every ISR member and a reconciled follower holds a prefix of its leader's log unless one of the counted events happened; reconciliation between two brokers keeps nothing that differs and cuts nothing others count on; late answers do not touch a leader's log |
| `replication_liveness` | 2 brokers, crash, expiry, lag, lost fetch | convergence |
| `segment_log` | 5 appends of 1 or 2 cells, segments of 2, an index entry per cell, fsync after 3 cells, 2 crashes | reads through the index return what was appended; every crash outside a removal of segments leaves a log that opens; the log implements `DurableLog`: nothing fsynced is lost, cuts remove exactly the suffix |
| `partition_thread` | 2 records, 3 epochs, 3 policies, 1 command in the channel, 2 crashes or stops, 1 truncation | durable acks are kept and always sent; an answer about an epoch separates the records written up to it from those that came later, unless a lapse kept an epoch off the checkpoint |
| `groups` | 2 consumers, 2 partitions of one record, 3 member ids, 2 commits, 1 fault | one owner per partition and generation; commits cover delivered records only, survive restarts and advance; the group settles |
| `connection` | 2 calls, the first any of 25, a cut or a stop | callers get their own answer, byte for byte; produces keep their order; offsets are true; connections close only for a cut, a stop or a frame over the limit; every call returns |
| `cluster_client` | 2 brokers, 1 producer, 1 reader, 2 batches, 2 mishaps | acknowledged ids are in the log in order; the verdict equals its reference definition on every history that arises, right or wrong; a produce returns |

Runs that exhibit a disagreement between the code and what its documents say (the
findings of `PROJECT.json` quote them):

| Run | What happens |
|---|---|
| `replication_stale_admission` | a follower shrunk out a moment ago is put back because it *was* caught up within the lag window; it lacks a record acknowledged meanwhile, is elected, and the record is gone |
| `replication_fast_failover` | two failovers in a row: a follower holds a record of an epoch its new leader has never seen; `EpochCheck` answers with an offset of the leader's own history, above the point where the logs part, and the follower keeps the record |
| `segment_torn_truncate` | a truncation removes segments oldest first; killed after the first, it leaves a hole, and the log does not open any more |
| `groups_zombie` | a commit passes the generation check, the group rebalances, the new owner commits, and the old commit is applied last |

### What the models show beyond these runs

Each of the following is a behaviour of a model that a property is worded around;
setting the bound named makes TLC exhibit it.

- `min_insync_replicas` is compared with the ISR before the append only
  (`src/broker/mod.rs:896`): a shrink in between acknowledges the write on fewer
  replicas (`NoAckBelowMinIsr`, three brokers, `MinIsr` 2, one lag).
- A produce parked after its leader fell (`src/broker/mod.rs:958`) survives the
  truncation of its record and is acknowledged by the next reign (`AcksAreTrue`,
  `MaxStrays` 1).
- An `EpochCheck` for an epoch older than everything the leader has on file is
  answered with 0 (`src/storage/epoch.rs:105`), and records are filed under the epoch
  in which they were fetched, which may be later than the one they were written in
  (`src/broker/cluster.rs:246`; in `PartitionThread`, a record with `came` above
  `epoch`): in both cases a follower cuts more than what
  differs, even records that were acknowledged. With four brokers a member of the ISR
  cut in this way and elected before it has caught up loses one (`miscuts`; checked
  with four brokers and three expiries).
- A fetcher stopped between its check and its truncation cuts the log of a broker
  that has become leader (`LeaderAppendOnly`, `MaxPreemptions` 1).
- The refresh asked for by a dying fetcher is consumed before a controller call
  that may fail (`src/broker/mod.rs:570`); then nothing asks again
  (`EventuallySettled`, `MaxDelays` 1).
- A crash between the two halves of `TruncateTo` (`src/broker/partition.rs:348`),
  or a power loss that takes records older than the last entry, leaves the
  checkpoint ahead of the log; the next epoch's entry is refused
  (`AnswersEpochEnd` with "ahead" as the only lapse).
- Between the change of role and `record_epoch` (`src/broker/mod.rs:599` to 639) a
  produce may be appended. It is of the new epoch and counted to the one before
  (`AnswersEpochEnd`, "early").
- A fetcher that finds its own epoch on file, restarted within it, and truncates to
  or below that entry's start removes the entry; `local_epoch` keeps its value, so the
  comparison at `src/broker/cluster.rs:246` does not file it again, and the
  records it then fetches are counted to the epoch before ("dropped"). It takes a
  leader that has lost records of its own, as a power loss may do to it.
- A fetcher stopped between `is_current` and `append_replicated` adds a record to the
  log of the next role, if the offsets fit ("late").
- A deposed leader's parked durable acks: `AppendReplicated` does not drain them
  and may disarm the timer, `TruncateTo` leaves acks for records that are gone
  (`deposed` in `AcksAnswered`), while `src/broker/partition.rs:10` says an ack "is
  never stranded". Commands that keep arriving also postpone the timer, which only
  an idle `recv_timeout` serves.
- Two overlapping commits of one partition may be logged in one order and cached in
  the other; the restart then serves the other offset (`overlap` in
  `RestartKeepsOffsets`).
- The torture run's drain does not wait for producers to end before it compares ids
  (`src/torture/schedule.rs:378`): a batch acknowledged after that is reported
  missing although it is in the log. `NoFalseAlarm` therefore speaks of a reader at
  the end of the log.

### Bounds

Bounds are constants, named in the modules' headers, and appear as guards. Two
records suffice for an acknowledged and a conflicting one at the same offset;
three epochs for a leader that falls, misses an epoch and returns; two expiries
for both elections; one re-admission for the return. Crashes and lags are left to
`replication_liveness` and `replication_stale_admission`: `replication` spends its
states on a late answer or a late task across two elections, and a broker that
expires and comes back meets the same code as one that crashed. `MaxVersion` 6 allows three registrations, a
topic and two of expiry, election after a revival and ISR change. Five appends
into segments of two cells make up to five segments, so that truncations remove
several and recovery meets closed and active ones; the second crash hits the
recovered log. In `partition_thread` two records let one be durable or cut while the
other is parked or under another epoch, and three epochs leave one that the replica
missed between two it was in; with one command in the channel the senders' order is
still free, since each enqueues as soon as the one before is taken. Three
member ids are two consumers and one that comes back as a stranger; two commits are
what an overlap or a zombie needs. Two calls are enough for one answer to overtake
another; the second is taken from the five requests that differ in how they are
answered. Two mishaps are a leader change and a fault that hides it. With one reader a
divergent offset always is a step back of that reader too, so `cluster_client` checks
`VerdictIsOneLog` for what one reader sees; two readers, who may diverge without
either going back, are beyond TLC here, and covered by the theorems `CheckerDecides`
and `VerdictsAreRight` for any number of them. TLC's
symmetry over brokers is used for the safety runs of `Replication` only.
Deadlock is checked where the system cannot stop; the other configurations say
`CHECK_DEADLOCK FALSE` because the bounds, or a client that is done, end them.

### Fairness

- `Replication`: weak fairness of what the loops do of their own accord: a running
  broker heartbeats (tick of 300 ms), refreshes metadata that changed or was asked
  for, maintains its ISR, its fetcher and produce tasks go on, the 15 s produce
  timeout fires, and a call in flight is answered. Nothing is assumed of clients,
  clocks, crashes, restarts, lost calls or of a refresh nobody asked for.
  `EventuallySettled` further presupposes that all brokers are eventually up for good.
- `PartitionThread`: the thread serves its channel (weak), and the channel is idle
  for `max_ms` again and again (strong fairness of `TimerFlush`): recv_timeout
  prefers commands to the timer, so under a queue that is never empty the code
  promises nothing.
- `Groups`: a consumer that is in a rejoin, a load or a commit goes on, heartbeats
  while it runs (the poll loop does), commit tasks run, the 200 ms sweep expires
  members that are gone. Not: polls, commits, joins of new consumers.
- `Connection`: the tasks on both sides run. Not: new calls, drops, faults, nor that
  a fetch's long poll is woken rather than timed out.
- `ClusterClient`: tasks go on, crashed brokers restart, the broker the controller
  has elected learns of it, an awaited request is handled. A deposed leader may never
  learn, and the deadline need not fire: `ProduceReturns` shows that the retries
  find the leader by themselves.

## Proofs

Each `..._proofs` module proves its component for every value of the constants
that satisfies the assumptions named in the model (`BrokersAssumption`,
`ConnectionAssumption` and so on): sets of brokers, consumers and readers of any
size, any number of partitions, records, calls and faults. A safety theorem has
the form `Spec => []P`, by an inductive invariant; TLC checked each of these
invariants on the small instance first. `ProofLemmas` has what they share:
sequences, prefixes, and induction over the naturals stated for a set
(`SetInduction`), since the library's induction theorems take an operator.

**Controller.** `IndInv` conjoins the checked invariants with `ReignsBehind`: every
reign on record is at most the partition's present epoch, and one under the present
epoch is the present leader's. Without it `OneLeaderPerEpoch` does not exclude
electing again under an epoch already taken. `RestartLosesNothing` is part of it
because a restart must not bring back an older tuple whose epochs are on record.
The three action properties follow from the same invariant: `CleanTuple` says what
an election may do to one tuple, and every step that touches tuples ends in it.

**Partition thread.** `TypeInv` knows that a truncation is sent into an empty
channel, so it still is within the log when it is served. `AckInv` is about queued
acks as well as sent ones: `DurableAckKept` alone says nothing of an ack that is
parked, and a parked one is sent later without another look at the log. After a
restart the log counts as durable what was merely written, hence `Placed` relates
the ack's offset to both ends. `EpochEndsAreRight` uses a second invariant,
`EpochInv`, for as long as no lapse happened. The checkpoint describes the log
(`Describes`): between two starts, or after the last, records were written in the
entry's epoch or before and came in it or later, and none lies in front of the first entry.
That survives a step only if the current epoch is on file before a record of it
arrives, so the invariant also says of queued commands (`CommandFiled`) and of the
sender's stage (`SenderFiled`) that the entry is there or ahead of the record in the
channel. `EndOffsetSeparates` then is a fact about `EndOffsetFor` on such a log.

**Groups.** The range assignment is arithmetic: shares are consecutive intervals
(`SharesPartition`), members' ranks are their places (`RanksArePlaces`), so every
partition of a subscribed topic has one owner (`AssignOwners`), which is not
linear and is proved once for all counts. `ViewInv` extends `OneOwner` to what a
consumer that is in the middle of a rejoin has been promised. `SettledInv` relates
the tasks of a partition, the log's last record of it and the cache. `FenceInv` is
why an offset never goes back: a commit let in under the current generation has
come from the consumer that owns the partition in it, and nobody else can take
that partition up in this generation.

**Replication.** `LengthInv` counts: every log, and every log an answer on its way
would make, is no longer than the number of records written, which bounds all
offsets and marks; a produce that was preempted has a number and no record yet.
`StartInv` keeps checkpoints within their logs through late truncations, and
`LeaderInv` says that a leader has no fetcher and, without a preemption, no
command under way, from which `LeadersOnlyAppend` follows.

*Followers.* `OneLeaderHolds` needs no more than who leads, or is
about to when the answer under way arrives (`IsReign`), at no later epoch than the
controller's (`SeatInv`). `ReconciledHolds` needs to know why a leader that a follower
keeps fetching from has not taken anything over from somebody else in between, though
it may have crashed, been deposed and been elected again, while the follower knows one
of its reigns only. `ControlInv` says so in terms of *views*: whom any part of the
system (the controller, an answer under way, a broker, a fetcher) holds for the leader
at which epoch. An epoch has one leader in all views. A deposed leader that is still
in the ISR is all of it, and nobody else has been leader since: the controller elects
from the ISR only and drops those that are not alive from it (`OfflineInv`). Hence a
broker that is elected while it still acts as the leader of an earlier epoch has missed
nobody's reign (`ReelectedInv`), and its log has only grown. With that, `FollowInv` is
kept by every step: as long as the leader has not heard of a later epoch than the
fetcher's, it fetches from nobody, and the follower's log, what a delayed cut will
leave of it, and the records of an answer under way are the leader's (`Agrees`). The
one step that cannot be proved to establish this is the answer to `EpochCheck`, and the
run `replication_fast_failover` shows that it does not; that is what `miscuts` counts.

*What was committed* (`Committed_proofs`). `AckedInIsr` and `HwmInIsr` speak of the
controller's ISR and are not inductive: a leader computes its mark from the ISR and the
match offsets *it* holds, which are old when it has been deposed, and a broker out of
the ISR may be about to lead. `Backed(s, n, e)` says what it means that the first `n`
records of `s` were committed at epoch `e`: every *keeper* (a member of the ISR, or who
leads or is about to at a view no earlier than `e`) has learned of `e`, so it follows
no earlier leader, and has these records beyond the reach of a cut that is under way;
and once the present leader's reign has begun, they are among what it inherited.
`MarkInv` says this of every broker's mark and `AckedInv` of every acknowledged record,
each for some epoch. A keeper loses nothing of it, since the leaders it may
still follow are keepers as well, and a new keeper is elected from the ISR or admitted
after it has fetched past the mark; here the counted events come in (`stale`, `miscuts`).

That a mark covers only such records is the harder half. It needs to know of every
leader, deposed ones included, that its match offsets are true of the followers that
may still follow it (`MatchInv`), and that its ISR, now or after the answer under way,
is not too small (`CoverInv`): it has every keeper that has not *gone* (will follow the
leader of a later epoch), and if a keeper is missing, a member of it has gone, whose
match offset stays where it is. Hence a deposed leader's mark can only pass
what the gone members had before they went, and `GoneInv` says that this is backed
already. `LeadInv` (the leader is in the controller's ISR), `PendInv` (a
waiting producer's record is in the leader's log) and `FileInv` (a checkpoint files
only epochs its broker has learned of) are what these rest on.

`AckedSurvivesHolds` draws the conclusion: the claim of `SPEC.md` that the run
`replication_stale_admission` refutes (`AckedSurvives`) holds in every reachable state
that comes without one of the counted events.

**Connection.** The codec is a parameter, and the theorems have the form
`Spec /\ []CodecInverts => []P`: *if* what is read from a frame within the limit is
what was put into it, for the requests that were called and the answers that were
given, *then* P. `CodecInverts` is a statement about every state and not an
assumption on constants, so it asks nothing of messages that never occur; for
`Wire` it holds in every state of the run `connection` (`Wire` itself walks its
tables with RECURSIVE operators and is out of the prover's reach, which is why the
codec is a parameter). `Inv(base)` says that the broker has taken the first `base`
frames sent: those in flight are the next ones, every task and answer belongs to
one of the taken requests, no request has two, waiters belong to calls that have
not returned, and what a call returned is the answer under its id. Ids are apart
because no more calls are made than ids exist (`ConnectionAssumption`); that the
2^32 ids of the code do not wrap during one call is that assumption. `CloseInv`
keeps a reason for every connection that is closed. `LogInv(base)` adds the logs:
a partition found at the start holds the concatenation (`Sums`) of the accepted
batches of the first `n` frames sent, with `n = base` while the session reads (a
frame over the limit is taken and ends it), and answers held by a task are true as
well as those given. An answer is prepared long before it is sent, and remains
true because logs only grow (`JustifiedStays`).

**Checker.** `CheckerDecides` is about histories of any length: each pass of
`verify` compares a record with one remembered value (the last of its stream, the
first of its offset, a count below the highest offset), and the lemmas show, by
least counterexample and by counting, that this finds every violation there is.

**Cluster client.** The producer's call in progress and the one awaited request
carry the id in use; while nothing was lost, acknowledged ids are in the log before
every larger id (`AckInv`, needed because a retry appends the same id again), and
each reader has been given a prefix of the log (`ReadInv`), from which
`CheckerDecides` yields that the checker accuses nobody.

Assumptions on constants are named in the models: brokers (controller) are a finite
set of naturals, `NoLeader` is no broker, bounds are naturals, at least one
partition per topic is allowed, a batch has at least one record, and on a connection
the requests are well formed and the answers of other modules have the type of
their request.

Only model-checked:

- Liveness (`EventuallySettled`, `AcksAnswered`, `Settles`, `EveryCallReturns`,
  `ProduceReturns`): the prover has neither fairness nor ENABLED.
- `ReconcilesSafely` of `Replication`: it is true of two brokers only (with three,
  `replication_fast_failover` refutes it), so there is no theorem for every set of them.
- `SegmentLog`: recovery is a scan, written as a recursive definition over cells;
  what such a definition computes for every input needs induction over data.
- The layout of messages (`Wire`), for the same reason.

## Not modelled

- I/O errors of a running process (a full disk, a failing fsync): what a failed
  write leaves is not determined by the code.
- Several partitions sharing one `cluster_runtime`, and its graceful stop.
- `Producer`, `TopicProducer` and `Consumer`: buffers in one task over `Connection`.
  `Producer::flush` empties its buffer before the call, so a failed call loses it.
- Silent packet loss: a call has no timeout of its own, so a frozen broker holds it.
- Correlation ids that wrap (2^32 calls during one) and broker ids of 2^31 or more,
  which the controller's i32 leader field reads back as offline.
- The ping a fetcher sends before it is marked dead: one step here.
- The text format of saved histories, the fault schedule, containers, proxies,
  comparison with other systems, binaries and benchmarks.

## Plan

1. An abstract commit log (a committed sequence that only grows) implemented by
   `Replication` while `Undisturbed`.
2. The refinement of `DurableLog` by `SegmentLog` for the operations that do not scan.
3. Several partitions under one runtime; the buffering producers and consumers.
