----------------------------- MODULE Replication -----------------------------
(***************************************************************************)
(* One replicated partition: the controller's tuple, the brokers that host *)
(* it (src/broker/mod.rs, src/broker/cluster.rs, and the log and epoch     *)
(* commands of src/broker/partition.rs), acks=all produce, the follower's  *)
(* reconcile-and-pull loop, high-water marks, ISR upkeep, crashes and      *)
(* failover.                                                               *)
(*                                                                         *)
(* A record is the number of the produce call that made it, a log the      *)
(* sequence of its records; offset o is the record at index o + 1.  Every  *)
(* step the code takes under one lock, or as one command of the partition  *)
(* thread, is one action.  An await separates actions.  A remote call is   *)
(* either prompt (request, handling and the use of the answer are one      *)
(* action) or delayed (they are separate actions, anything may happen in   *)
(* between); MaxDelays bounds the delayed ones.  Clocks are abstracted: a  *)
(* lag window or a session may run out at any time.                        *)
(***************************************************************************)
EXTENDS PartitionMeta, EpochCheckpoint, FiniteSets

CONSTANTS MinIsr,           \* min_insync_replicas
          MaxRecords,       \* bound on produce calls
          MaxEpoch,         \* bound on leader epochs
          MaxCrashes,       \* bound on broker crashes
          MaxExpiries,      \* bound on session expiries and controller restarts
          MaxLags,          \* bound on lag windows that run out
          MaxDelays,        \* bound on calls and tasks that others overtake
          MaxDrops,         \* bound on fetches lost to a broken connection
          MaxExpansions,    \* bound on followers' re-admissions to the ISR
          MaxStale,         \* ... of followers that lack committed records
          MaxMiscuts,       \* bound on EpochCheck answers that miss the fork
          MaxStrays,        \* bound on produces parked after their leader's fall
          MaxPreemptions    \* ... of tasks, between a check and a command

ASSUME BoundsAssumption ==
    /\ MinIsr \in Nat /\ MaxRecords \in Nat /\ MaxEpoch \in Nat \ {0}
    /\ MaxCrashes \in Nat /\ MaxExpiries \in Nat /\ MaxLags \in Nat
    /\ MaxDelays \in Nat /\ MaxDrops \in Nat
    /\ MaxExpansions \in Nat /\ MaxStale \in Nat /\ MaxMiscuts \in Nat
    /\ MaxStrays \in Nat /\ MaxPreemptions \in Nat

VARIABLES meta,      \* the controller's tuple for the partition
          alive,     \* brokers the controller holds for alive
          up,        \* brokers whose process runs
          log,       \* per broker, the partition log (survives a crash)
          epochs,    \* per broker, the epoch checkpoint (survives a crash)
          rep,       \* per broker, ReplState, high-water mark and fetcher task
          rt,        \* per broker, the call its cluster_runtime is waiting for
          late,      \* per broker, commands whose sender was preempted
          produced,  \* number of produce calls so far
          acked,     \* history: acknowledged <<offset, record>> pairs
          faults     \* history: how often each bounded event happened

vars == <<meta, alive, up, log, epochs, rep, rt, late, produced, acked, faults>>

disk == <<log, epochs>>

\* How often a bounded event of each kind may happen.
Bounds ==
    [crashes |-> MaxCrashes, expiries |-> MaxExpiries, lags |-> MaxLags,
     delays |-> MaxDelays, drops |-> MaxDrops, expansions |-> MaxExpansions,
     stale |-> MaxStale, miscuts |-> MaxMiscuts, strays |-> MaxStrays,
     preemptions |-> MaxPreemptions]

FaultKinds == DOMAIN Bounds

\* One bounded event of each of these kinds happens.
Count(kinds) ==
    /\ \A k \in kinds : faults[k] < Bounds[k]
    /\ faults' = [k \in FaultKinds |-> faults[k] + IF k \in kinds THEN 1 ELSE 0]

Crashes == Count({"crashes"})
Expiry == Count({"expiries"})
Delayed == Count({"delays"})
Dropped == Count({"drops"})
Preempted == Count({"delays", "preemptions"})

------------------------------------------------------------------------------
(* Broker state *)

\* A fetcher that ended: silently, or after it asked the runtime for a refresh.
NoFetcher == [phase |-> "dead"]
Pinged == [phase |-> "pinged"]
Ended == {"dead", "pinged"}
Connected == {"reconcile", "fetch", "wait", "append"}
Idle == [call |-> "idle"]

\* Replica::new: what a broker knows of the partition when its process starts.
NewReplica ==
    [epoch |-> 0, is_leader |-> FALSE, isr |-> {},
     match_offsets |-> [f \in Brokers |-> 0],
     recent |-> {},          \* followers caught up within the lag window
     hwm |-> 0,
     appended |-> {},        \* acks=all appends whose task still awaits the log
     pending_all |-> {},     \* acks=all appends waiting for the high-water mark
     fetcher |-> NoFetcher]

LogEnd(b) == Len(log[b])

Holds(b, a) == a[1] < LogEnd(b) /\ log[b][a[1] + 1] = a[2]

IsPrefixOf(s, t) == Len(s) <= Len(t) /\ SubSeq(t, 1, Len(s)) = s

\* Where the reign of leader b began.
ReignStart(b) == IF epochs[b] = <<>> THEN 0 ELSE Last(epochs[b]).start

\* What leader b inherited, and what it has shown to consumers and acknowledged
\* to producers since.
Committed(b) == SubSeq(log[b], 1, Max({Min({rep[b].hwm, LogEnd(b)}), ReignStart(b)}))

\* The follower side of a fetcher that talks to leader l under the epoch.
Fetcher(phase, l, epoch, local, data) ==
    [phase |-> phase, leader |-> l, epoch |-> epoch, local |-> local, data |-> data]

------------------------------------------------------------------------------
(* High-water mark *)

\* Mutant of NewHwm: a follower that has not fetched does not hold it back.
MutantNewHwm(b, r, end) ==
    LET known == {f \in r.isr \ {b} : r.match_offsets[f] > 0}
    IN  Max({r.hwm, Min({end} \cup {r.match_offsets[f] : f \in known})})

\* min(log end, match offset of every in-sync follower), never going back.
\* match_offsets has 0 for a follower that has not fetched.
NewHwm(b, r, end) ==
    Max({r.hwm, Min({end} \cup {r.match_offsets[f] : f \in r.isr \ {b}})})

\* Mutant of Covered: the mark is taken for the last committed offset.
MutantCovered(b, r, end) ==
    IF r.is_leader THEN {a \in r.pending_all : a[1] <= NewHwm(b, r, end)} ELSE {}

\* drain_pending: the produces the mark covers.
Covered(b, r, end) ==
    IF r.is_leader THEN {a \in r.pending_all : a[1] < NewHwm(b, r, end)} ELSE {}

\* Replica::advance_hwm on state r of broker b, whose log ends at end.
AdvanceHwm(b, r, end) ==
    IF r.is_leader
    THEN [r EXCEPT !.hwm = NewHwm(b, r, end),
                   !.pending_all = @ \ Covered(b, r, end)]
    ELSE r

\* Broker b moves to state r, then recomputes its mark and answers producers.
Advance(b, r, end) ==
    /\ rep' = [rep EXCEPT ![b] = AdvanceHwm(b, r, end)]
    /\ acked' = acked \cup Covered(b, r, end)

------------------------------------------------------------------------------
(* Controller *)

ElectAmong(live) ==
    \E c \in Candidates(meta, live) :
        /\ meta' = Elect(meta, c, live)
        /\ meta'.leader_epoch <= MaxEpoch

\* sweep_liveness: some brokers, stopped or merely silent, have expired.
Expire(dead) ==
    /\ dead # {}
    /\ Expiry
    /\ alive' = alive \ dead
    /\ ElectAmong(alive')
    /\ UNCHANGED <<up, disk, rep, rt, late, produced, acked>>

\* Registration or heartbeat of a broker the controller held for dead.
Revive(b) ==
    /\ b \in up \ alive /\ rt[b] = Idle
    /\ alive' = alive \cup {b}
    /\ ElectAmong(alive')
    /\ UNCHANGED <<up, disk, rep, rt, late, produced, acked, faults>>

\* The controller restarts from its snapshot and trusts nobody as alive; calls
\* in flight break.
ControllerRestart ==
    /\ alive # {}
    /\ Expiry
    /\ alive' = {}
    /\ rt' = [b \in Brokers |-> Idle]
    /\ UNCHANGED <<meta, up, disk, rep, late, produced, acked>>

\* f has reconciled with leader b under its epoch, and has what b committed and
\* what was acknowledged (b may have restarted since, its mark at 0 again).
Follows(f, b) ==
    /\ rep[f].fetcher.phase \in Connected \ {"reconcile"}
    /\ rep[f].fetcher.leader = b /\ rep[f].fetcher.epoch = rep[b].epoch
    /\ IsPrefixOf(Committed(b), log[f])
    /\ \A a \in acked : Holds(f, a)

\* The history of a re-admission: sound when every follower it adds follows b
\* closely enough, and b learns of it at once.
Readmit(b, added, atOnce) ==
    LET sound == atOnce /\ \A f \in added : Follows(f, b)
    IN  \/ added = {} /\ UNCHANGED faults
        \/ added # {} /\ sound /\ Count({"expansions"})
        \/ added # {} /\ ~ sound /\ Count({"stale"})

\* The controller's handling of AlterIsr(epoch, isr) of b, with its verdict.
AlterIsr(b, epoch, isr, ok, atOnce) ==
    /\ ok = (AlterIsrError(meta, epoch, isr) = "None")
    /\ meta' = IF ok THEN [meta EXCEPT !.isr = isr] ELSE meta
    /\ Readmit(b, meta'.isr \ meta.isr, atOnce)

------------------------------------------------------------------------------
(* cluster_runtime: metadata *)

SpawnFetcher(m) ==
    IF m.leader = NoLeader THEN NoFetcher
    ELSE Fetcher("connect", m.leader, m.leader_epoch, 0, <<>>)

\* Mutant of Refreshed: a fetcher that ended is not respawned.
MutantRefreshed(r, m) == [r EXCEPT !.isr = m.isr]

\* apply_metadata, no role or epoch change: adopt the ISR, respawn a dead fetcher.
Refreshed(r, m) ==
    [r EXCEPT !.isr = m.isr,
              !.fetcher = IF ~ r.is_leader /\ @.phase \in Ended THEN SpawnFetcher(m) ELSE @]

\* Mutant of Promoted: the fetcher of the time as a follower goes on.
MutantPromoted(b, r, m) ==
    [r EXCEPT !.epoch = m.leader_epoch, !.isr = m.isr, !.is_leader = TRUE,
              !.match_offsets = [f \in Brokers |-> 0],
              !.recent = Brokers \ {b}]

\* ... this broker takes over.  pending_all is left as it is.
Promoted(b, r, m) ==
    [r EXCEPT !.epoch = m.leader_epoch, !.isr = m.isr, !.is_leader = TRUE,
              !.match_offsets = [f \in Brokers |-> 0],
              !.recent = Brokers \ {b},
              !.fetcher = NoFetcher]

\* ... this broker follows: producers waiting for the mark get NotLeader.
\* Only a leader reads match offsets and lag windows, and a promotion sets them
\* anew: a follower's are kept empty.
Demoted(r, m) ==
    [r EXCEPT !.epoch = m.leader_epoch, !.isr = m.isr, !.is_leader = FALSE,
              !.match_offsets = [f \in Brokers |-> 0],
              !.recent = {},
              !.pending_all = {},
              !.fetcher = SpawnFetcher(m)]

\* apply_metadata of broker b for the tuple m.
Apply(b, m) ==
    LET r == rep[b]
        leads == m.leader = b
        same == r.epoch = m.leader_epoch /\ r.is_leader = leads
    IN  \/ /\ same
           /\ Advance(b, Refreshed(r, m), LogEnd(b))
           /\ UNCHANGED <<epochs, late, faults>>
        \/ /\ ~ same /\ ~ leads
           /\ rep' = [rep EXCEPT ![b] = Demoted(r, m)]
           /\ UNCHANGED <<acked, epochs, late, faults>>
        \/ /\ ~ same /\ leads
           /\ Advance(b, Promoted(b, r, m), LogEnd(b))
           /\ \/ /\ epochs' = [epochs EXCEPT ![b] = RecordEpoch(@, m.leader_epoch, LogEnd(b))]
                 /\ UNCHANGED <<late, faults>>
              \/ \* preempted between releasing the lock and record_epoch
                 /\ Preempted
                 /\ late' = [late EXCEPT ![b] = @ \cup {[cmd |-> "epoch", epoch |-> m.leader_epoch]}]
                 /\ UNCHANGED epochs

\* Every turn of the loop registers or heartbeats first.
Heartbeats(b) == b \in up \cap alive /\ rt[b] = Idle

\* A heartbeat reply carried a new version (a change of this partition or of
\* anything else the controller keeps), or a task asked for a refresh.
RefreshMetadata(b) ==
    /\ Heartbeats(b)
    /\ Apply(b, meta)
    /\ UNCHANGED <<meta, alive, up, log, rt, produced>>

\* The refreshes that are bound to happen: the partition changed, or a ping.
RefreshDue(b) ==
    \/ rep[b].epoch # meta.leader_epoch
    \/ rep[b].is_leader # (meta.leader = b)
    \/ rep[b].isr # meta.isr
    \/ rep[b].fetcher.phase = "pinged"

\* The same, with the answer in flight while others move on.  The ping, if
\* there was one, is taken off its channel before the call.
RequestMetadata(b) ==
    /\ Heartbeats(b)
    /\ Delayed
    /\ rt' = [rt EXCEPT ![b] = [call |-> "metadata", meta |-> meta]]
    /\ rep' = [rep EXCEPT ![b].fetcher = IF @ = Pinged THEN NoFetcher ELSE @]
    /\ UNCHANGED <<meta, alive, up, disk, late, produced, acked>>

ReceiveMetadata(b) ==
    /\ rt[b].call = "metadata"
    /\ rt' = [rt EXCEPT ![b] = Idle]
    /\ Apply(b, rt[b].meta)
    /\ UNCHANGED <<meta, alive, up, log, produced>>

------------------------------------------------------------------------------
(* cluster_runtime: ISR upkeep *)

Desired(b) == {b} \cup rep[b].recent

\* isr_maintenance calls AlterIsr when the desired ISR is not the present one.
WantsIsr(b) ==
    /\ Heartbeats(b)
    /\ rep[b].is_leader /\ Desired(b) # rep[b].isr

\* The use of the answer: adopt the ISR if still leader under that epoch.
Adopt(b, epoch, isr, ok) ==
    LET r == rep[b]
        current == ok /\ r.is_leader /\ r.epoch = epoch
    IN  Advance(b, IF current THEN [r EXCEPT !.isr = isr] ELSE r, LogEnd(b))

ChangeIsr(b) ==
    /\ WantsIsr(b)
    /\ \E ok \in BOOLEAN :
        /\ AlterIsr(b, rep[b].epoch, Desired(b), ok, TRUE)
        /\ Adopt(b, rep[b].epoch, Desired(b), ok)
    /\ UNCHANGED <<alive, up, disk, rt, late, produced>>

\* The same call in three steps: proposed, decided, answered.
ProposeIsr(b) ==
    /\ WantsIsr(b)
    /\ Delayed
    /\ rt' = [rt EXCEPT ![b] = [call |-> "alter", epoch |-> rep[b].epoch, isr |-> Desired(b)]]
    /\ UNCHANGED <<meta, alive, up, disk, rep, late, produced, acked>>

DecideIsr(b) ==
    /\ rt[b].call = "alter"
    /\ \E ok \in BOOLEAN :
        /\ AlterIsr(b, rt[b].epoch, rt[b].isr, ok, FALSE)
        /\ rt' = [rt EXCEPT ![b] = [call |-> "altered", ok |-> ok,
                                    epoch |-> rt[b].epoch, isr |-> rt[b].isr]]
    /\ UNCHANGED <<alive, up, disk, rep, late, produced, acked>>

AdoptIsr(b) ==
    /\ rt[b].call = "altered"
    /\ Adopt(b, rt[b].epoch, rt[b].isr, rt[b].ok)
    /\ rt' = [rt EXCEPT ![b] = Idle]
    /\ UNCHANGED <<meta, alive, up, disk, late, produced, faults>>

\* A follower's lag window runs out at leader b.
LagExpires(b, f) ==
    /\ rep[b].is_leader /\ f \in rep[b].recent
    /\ Count({"lags"})
    /\ rep' = [rep EXCEPT ![b].recent = @ \ {f}]
    /\ UNCHANGED <<meta, alive, up, disk, rt, late, produced, acked>>

\* The controller connection breaks under a delayed call: request or answer
\* is lost, before or after the controller acted on it.
LoseCall(b) ==
    /\ rt[b] # Idle
    /\ rt' = [rt EXCEPT ![b] = Idle]
    /\ UNCHANGED <<meta, alive, up, disk, rep, late, produced, acked, faults>>

------------------------------------------------------------------------------
(* Produce *)

\* The append; with acks=all a task goes on once it knows the offset.
Write(b, v, all) ==
    /\ log' = [log EXCEPT ![b] = Append(@, v)]
    /\ rep' = [rep EXCEPT ![b].appended = IF all THEN @ \cup {<<LogEnd(b), v>>} ELSE @]

\* The leadership check and, for acks=all, the ISR-size check, then the append.
\* The client's epoch is either 0 (unchecked) or the one the check demands.
Produce(b, all) ==
    /\ b \in up /\ produced < MaxRecords
    /\ rep[b].is_leader /\ (all => Cardinality(rep[b].isr) >= MinIsr)
    /\ produced' = produced + 1
    /\ \/ /\ Write(b, produced', all)
          /\ UNCHANGED <<late, faults>>
       \/ \* preempted between the checks and append_start
          /\ Preempted
          /\ late' = [late EXCEPT ![b] =
                        @ \cup {[cmd |-> "write", value |-> produced', all |-> all]}]
          /\ UNCHANGED <<log, rep>>
    /\ UNCHANGED <<meta, alive, up, epochs, rt, acked>>

\* The task learns the offset, parks the produce and recomputes the mark,
\* whatever the replica has become since the append.
ParkProduce(b, a) ==
    LET r == [rep[b] EXCEPT !.appended = @ \ {a}, !.pending_all = @ \cup {a}]
    IN  /\ a \in rep[b].appended
        /\ Advance(b, r, LogEnd(b))
        /\ \/ r.is_leader /\ Holds(b, a) /\ UNCHANGED faults
           \/ ~ (r.is_leader /\ Holds(b, a)) /\ Count({"strays"})
        /\ UNCHANGED <<meta, alive, up, disk, rt, late, produced>>

\* The producer's 15 s are over: it is told NotEnoughReplicas.  The entry that
\* stays in the source's pending_all has nobody to answer any more.
ProduceTimeout(b, a) ==
    /\ a \in rep[b].pending_all
    /\ rep' = [rep EXCEPT ![b].pending_all = @ \ {a}]
    /\ UNCHANGED <<meta, alive, up, disk, rt, late, produced, acked, faults>>

------------------------------------------------------------------------------
(* fetcher_loop *)

SetFetcher(f, x) == rep' = [rep EXCEPT ![f].fetcher = x]

\* Mutant of Truncate: one record too many is kept.
MutantTruncateLess(b, n) ==
    IF n + 1 < LogEnd(b)
    THEN /\ log' = [log EXCEPT ![b] = SubSeq(@, 1, n + 1)]
         /\ epochs' = [epochs EXCEPT ![b] = TruncateTo(@, n + 1)]
    ELSE UNCHANGED disk

\* Mutant of Truncate: the checkpoint keeps its entries.
MutantTruncateLogOnly(b, n) ==
    IF n < LogEnd(b)
    THEN log' = [log EXCEPT ![b] = SubSeq(@, 1, n)] /\ UNCHANGED epochs
    ELSE UNCHANGED disk

Truncate(b, n) ==
    IF n < LogEnd(b)
    THEN /\ log' = [log EXCEPT ![b] = SubSeq(@, 1, n)]
         /\ epochs' = [epochs EXCEPT ![b] = TruncateTo(@, n)]
    ELSE UNCHANGED disk

\* Others count on what f has: it is in the ISR, or about to lead.
CountedOn(f) ==
    f \in meta.isr \/ (rt[f].call = "metadata" /\ rt[f].meta.leader = f)

\* To cut the log of f to n entries takes off what l does not have, and nothing
\* that others count on: what such a broker shares with l, what l knows f has.
Parts(f, l, n) ==
    LET kept == Min({n, LogEnd(f)})
    IN  /\ IsPrefixOf(SubSeq(log[f], 1, kept), log[l])
        /\ rep[l].match_offsets[f] <= kept
        /\ \/ ~ CountedOn(f) \/ kept = LogEnd(f) \/ kept = LogEnd(l)
           \/ log[f][kept + 1] # log[l][kept + 1]

\* The history of an answer of l to the EpochCheck of f.
Miscut(f, l, n) == IF Parts(f, l, n) THEN {} ELSE {"miscuts"}

Pull(x) == [x EXCEPT !.phase = "fetch", !.data = <<>>]

\* Connect, read the own epoch, let the leader answer EpochCheck, and drop the
\* suffix the leader does not have.  The leader checks that it leads, not
\* under which epoch.
EpochCheck(f) ==
    LET x == rep[f].fetcher
        l == x.leader
        local == CurrentEpoch(epochs[f])
        end == EndOffsetFor(epochs[l], local, LogEnd(l))
    IN  /\ x.phase = "connect" /\ l \in up
        /\ \/ /\ ~ rep[l].is_leader
              /\ SetFetcher(f, Pinged)
              /\ UNCHANGED <<disk, faults>>
           \/ /\ rep[l].is_leader
              /\ Truncate(f, end)
              /\ SetFetcher(f, Fetcher("fetch", l, x.epoch, local, <<>>))
              /\ Count(Miscut(f, l, end))
           \/ /\ rep[l].is_leader
              /\ Count({"delays"} \cup Miscut(f, l, end))
              /\ SetFetcher(f, Fetcher("reconcile", l, x.epoch, local, end))
              /\ UNCHANGED disk
        /\ UNCHANGED <<meta, alive, up, rt, late, produced, acked>>

\* A delayed answer to EpochCheck arrives, and the fetcher is still current.
Reconcile(f) ==
    LET x == rep[f].fetcher
    IN  /\ x.phase = "reconcile"
        /\ \/ /\ Truncate(f, x.data)
              /\ SetFetcher(f, Pull(x))
              /\ UNCHANGED <<late, faults>>
           \/ \* preempted between is_current and truncate_to
              /\ x.data < LogEnd(f)
              /\ Preempted
              /\ late' = [late EXCEPT ![f] = @ \cup {[cmd |-> "truncate", answer |-> x]}]
              /\ SetFetcher(f, [x EXCEPT !.phase = "late"])
              /\ UNCHANGED disk
        /\ UNCHANGED <<meta, alive, up, rt, produced, acked>>

\* The leader accepts a ReplicaFetch at the follower's log end: the offset is
\* the follower's progress, and reaching the log end restarts its lag window.
ReplicaFetch(f) ==
    LET x == rep[f].fetcher
        l == x.leader
        r == [rep[l] EXCEPT !.match_offsets[f] = LogEnd(f),
                            !.recent = IF LogEnd(f) >= LogEnd(l) THEN @ \cup {f} ELSE @]
    IN  /\ x.phase = "fetch" /\ l \in up
        /\ IF rep[l].is_leader /\ rep[l].epoch = x.epoch
           THEN /\ rep' = [rep EXCEPT ![l] = AdvanceHwm(l, r, LogEnd(l)),
                                      ![f].fetcher = [x EXCEPT !.phase = "wait", !.data = LogEnd(f)]]
                /\ acked' = acked \cup Covered(l, r, LogEnd(l))
           ELSE SetFetcher(f, Pinged) /\ UNCHANGED acked
        /\ UNCHANGED <<meta, alive, up, disk, rt, late, produced, faults>>

\* record_epoch and append_replicated of the answer in x; records that do not
\* continue the log are an error that ends the fetcher.
AppendReplicated(f, x) ==
    LET fits == x.data.records = <<>> \/ x.data.from = LogEnd(f)
        mine == rep[f].fetcher.phase \notin Ended /\ rep[f].fetcher.epoch = x.epoch
    IN  /\ epochs' = [epochs EXCEPT ![f] =
                        IF x.epoch > x.local THEN RecordEpoch(@, x.epoch, LogEnd(f)) ELSE @]
        /\ log' = [log EXCEPT ![f] = IF fits THEN @ \o x.data.records ELSE @]
        /\ rep' = [rep EXCEPT ![f].fetcher =
                        IF ~ mine THEN @
                        ELSE IF fits THEN [Pull(x) EXCEPT !.local = Max({x.local, x.epoch})]
                        ELSE NoFetcher]

\* handle_replica_fetch reads the log when the long poll ends, whatever the
\* replica has become meanwhile, and the follower appends what it is sent.
\* Reading past the end is an error that ends the fetcher.
ReplicaRead(f) ==
    LET x == rep[f].fetcher
        l == x.leader
        answer == [x EXCEPT !.phase = "append",
                            !.data = [from |-> x.data,
                                      records |-> SubSeq(log[l], x.data + 1, LogEnd(l))]]
    IN  /\ x.phase = "wait" /\ l \in up
        /\ \/ /\ x.data > LogEnd(l)
              /\ SetFetcher(f, Pinged)
              /\ UNCHANGED <<disk, faults>>
           \/ /\ x.data <= LogEnd(l)
              /\ AppendReplicated(f, answer)
              /\ UNCHANGED faults
           \/ /\ x.data <= LogEnd(l)
              /\ Delayed
              /\ SetFetcher(f, answer)
              /\ UNCHANGED disk
        /\ UNCHANGED <<meta, alive, up, rt, late, produced, acked>>

\* A delayed answer arrives, and the fetcher is still current.
ReplicaAppend(f) ==
    LET x == rep[f].fetcher
    IN  /\ x.phase = "append"
        /\ \/ AppendReplicated(f, x) /\ UNCHANGED <<late, faults>>
           \/ \* preempted between is_current and the commands
              /\ Preempted
              /\ late' = [late EXCEPT ![f] = @ \cup {[cmd |-> "append", answer |-> x]}]
              /\ SetFetcher(f, [x EXCEPT !.phase = "late"])
              /\ UNCHANGED disk
        /\ UNCHANGED <<meta, alive, up, rt, produced, acked>>

\* The leader connection breaks under a call.
LoseFetch(f) ==
    /\ rep[f].fetcher.phase \in {"connect"} \cup Connected
    /\ Dropped
    /\ SetFetcher(f, Pinged)
    /\ UNCHANGED <<meta, alive, up, disk, rt, late, produced, acked>>

------------------------------------------------------------------------------
(* Preempted senders, crashes *)

\* A preempted sender runs again: its command reaches the partition thread.
RunLate(b, c) ==
    /\ c \in late[b]
    /\ late' = [late EXCEPT ![b] = @ \ {c}]
    /\ CASE c.cmd = "epoch" ->
              /\ epochs' = [epochs EXCEPT ![b] = RecordEpoch(@, c.epoch, LogEnd(b))]
              /\ UNCHANGED <<log, rep>>
         [] c.cmd = "write" ->
              Write(b, c.value, c.all) /\ UNCHANGED epochs
         [] c.cmd = "truncate" ->
              /\ Truncate(b, c.answer.data)
              /\ IF rep[b].fetcher.phase = "late"
                 THEN SetFetcher(b, Pull(c.answer)) ELSE UNCHANGED rep
         [] c.cmd = "append" ->
              AppendReplicated(b, c.answer)
    /\ UNCHANGED <<meta, alive, up, rt, produced, acked, faults>>

\* kill -9: memory is lost, the log and the checkpoint stay.  Connections to b
\* break.  (An answer b has sent before may arrive after the crash; nothing
\* tells that from an arrival before it.)
Crash(b) ==
    /\ b \in up
    /\ Crashes
    /\ up' = up \ {b}
    /\ rep' = [c \in Brokers |->
                 IF c = b THEN NewReplica
                 ELSE IF /\ rep[c].fetcher.phase \in Connected
                         /\ rep[c].fetcher.leader = b
                      THEN [rep[c] EXCEPT !.fetcher = Pinged]
                      ELSE rep[c]]
    /\ rt' = [rt EXCEPT ![b] = Idle]
    /\ late' = [late EXCEPT ![b] = {}]
    /\ UNCHANGED <<meta, alive, disk, produced, acked>>

StartBroker(b) ==
    /\ b \notin up
    /\ up' = up \cup {b}
    /\ UNCHANGED <<meta, alive, disk, rep, rt, late, produced, acked, faults>>

------------------------------------------------------------------------------
(* Specification *)

Init ==
    /\ meta \in {NewPartition(l, Brokers) : l \in Brokers}
    /\ alive = Brokers
    /\ up = Brokers
    /\ log = [b \in Brokers |-> <<>>]
    /\ epochs = [b \in Brokers |-> <<>>]
    /\ rep = [b \in Brokers |-> NewReplica]
    /\ rt = [b \in Brokers |-> Idle]
    /\ late = [b \in Brokers |-> {}]
    /\ produced = 0
    /\ acked = {}
    /\ faults = [k \in FaultKinds |-> 0]

ControllerNext ==
    \/ \E dead \in SUBSET alive : Expire(dead)
    \/ ControllerRestart
    \/ \E b \in Brokers : Revive(b) \/ DecideIsr(b)

RuntimeNext ==
    \E b \in Brokers :
        \/ RefreshMetadata(b) \/ RequestMetadata(b) \/ ReceiveMetadata(b)
        \/ ChangeIsr(b) \/ ProposeIsr(b) \/ AdoptIsr(b)
        \/ LoseCall(b)
        \/ \E f \in Brokers : LagExpires(b, f)

DataNext ==
    \E b \in Brokers :
        \/ \E all \in BOOLEAN : Produce(b, all)
        \/ \E a \in rep[b].appended : ParkProduce(b, a)
        \/ \E a \in rep[b].pending_all : ProduceTimeout(b, a)
        \/ EpochCheck(b) \/ Reconcile(b)
        \/ ReplicaFetch(b) \/ ReplicaRead(b) \/ ReplicaAppend(b)
        \/ LoseFetch(b)
        \/ \E c \in late[b] : RunLate(b, c)

CrashNext == \E b \in Brokers : Crash(b) \/ StartBroker(b)

Next == ControllerNext \/ RuntimeNext \/ DataNext \/ CrashNext

Spec == Init /\ [][Next]_vars

\* What the code's loops are bound to do: a running broker heartbeats, reads
\* metadata that changed or that a task asked for, and keeps up its ISR; calls
\* in flight are answered; the fetcher and the produce tasks go on.  Nothing
\* is assumed of clients, clocks, crashes, restarts and lost calls.
Fairness ==
    \A b \in Brokers :
        /\ WF_vars(Revive(b))
        /\ WF_vars(RefreshDue(b) /\ RefreshMetadata(b))
        /\ WF_vars(ReceiveMetadata(b))
        /\ WF_vars(ChangeIsr(b))
        /\ WF_vars(DecideIsr(b)) /\ WF_vars(AdoptIsr(b))
        /\ WF_vars(\E a \in rep[b].appended : ParkProduce(b, a))
        /\ WF_vars(\E a \in rep[b].pending_all : ProduceTimeout(b, a))
        /\ WF_vars(EpochCheck(b)) /\ WF_vars(Reconcile(b))
        /\ WF_vars(ReplicaFetch(b)) /\ WF_vars(ReplicaRead(b)) /\ WF_vars(ReplicaAppend(b))
        /\ WF_vars(\E c \in late[b] : RunLate(b, c))

FairSpec == Spec /\ Fairness

------------------------------------------------------------------------------
(* Properties *)

Pairs == (0 .. MaxRecords) \X (1 .. MaxRecords)
CallKinds == {"idle", "metadata", "alter", "altered"}
Phases == {"dead", "pinged", "connect", "reconcile", "fetch", "wait", "append", "late"}

\* State is well typed, and a checkpoint never points past the end of its log.
TypeOK ==
    /\ meta \in PartitionState
    /\ alive \subseteq Brokers /\ up \subseteq Brokers
    /\ produced \in 0 .. MaxRecords
    /\ acked \subseteq Pairs
    /\ faults \in [FaultKinds -> Nat]
    /\ \A b \in Brokers :
        /\ log[b] \in Seq(1 .. MaxRecords)
        /\ \A i \in DOMAIN epochs[b] :
              epochs[b][i].epoch \in 1 .. MaxEpoch /\ epochs[b][i].start \in 0 .. LogEnd(b)
        /\ rep[b].epoch \in 0 .. MaxEpoch
        /\ rep[b].isr \subseteq Brokers
        /\ rep[b].hwm \in 0 .. MaxRecords
        /\ rep[b].pending_all \cup rep[b].appended \subseteq Pairs
        /\ rep[b].fetcher.phase \in Phases
        /\ rt[b].call \in CallKinds

\* Three races of the source have not happened: every re-admission was sound,
\* every produce was parked under the leader that appended it, and no task was
\* preempted between a check and the command that relies on it.
NoRace == faults.stale = 0 /\ faults.strays = 0 /\ faults.preemptions = 0

\* Nor has the answer to an EpochCheck made a follower keep a record that its leader
\* has another one for, or cut one that others count on (Parts).
Undisturbed == NoRace /\ faults.miscuts = 0

\* "The leader answers with where that epoch ended; the follower truncates to
\* the smaller of the two" (src/storage/epoch.rs): between two brokers the follower
\* keeps nothing that its leader has another record for, loses nothing the leader
\* counts it to have, and, if it is in the ISR or about to lead, nothing both share.
\* Outside the ISR it may lose records that both share, and fetches them again.
\* Among three brokers it may keep too much: a leader elected without having seen the
\* epoch in between answers with an offset of its own history.
ReconcilesSafely == NoRace => faults.miscuts = 0

\* Failover alone loses nothing: every acknowledged record is in the log of
\* every ISR member, so whoever can be elected has it.
AckedInIsr ==
    Undisturbed => \A m \in meta.isr, a \in acked : Holds(m, a)

\* "This is what makes divergence detection possible" (src/storage/epoch.rs):
\* a follower that has reconciled with the leader of its epoch holds a prefix of
\* that leader's log, whatever both went through before.
NoDivergence ==
    \A f \in Brokers :
        LET x == rep[f].fetcher
        IN  /\ x.phase \in {"fetch", "wait", "append"}
            /\ rep[x.leader].is_leader /\ rep[x.leader].epoch = x.epoch
            => IsPrefixOf(log[f], log[x.leader])

\* The same as long as no reconciliation cut at the wrong place: nothing that
\* happens to either log afterwards makes them differ.
ReconciledPrefix == Undisturbed => NoDivergence

\* What the current leader lets consumers read is on every ISR member.
HwmInIsr ==
    Undisturbed => \A b \in Brokers :
        rep[b].is_leader /\ rep[b].epoch = meta.leader_epoch /\ meta.leader = b =>
            \A m \in meta.isr : IsPrefixOf(SubSeq(log[b], 1, rep[b].hwm), log[m])

\* A leader's log only grows while it leads: what a fetcher or a reconciliation
\* of the broker's time as a follower still does to the log ended before ("this
\* fetcher no longer speaks for the replica", src/broker/cluster.rs).
AppendOnly(b) ==
    rep[b].is_leader /\ rep'[b].is_leader /\ rep'[b].epoch = rep[b].epoch =>
        IsPrefixOf(log[b], log'[b])

LeaderAppendOnly ==
    [][faults'.preemptions = 0 => \A b \in Brokers : AppendOnly(b)]_vars

\* Once all brokers stay up and faults cease, every broker is back in the ISR,
\* has the leader's log, and nobody waits for the mark any more.
Settled ==
    /\ meta.leader \in Brokers /\ meta.isr = Brokers
    /\ \A b \in Brokers : log[b] = log[meta.leader]
    /\ \A b \in Brokers : rep[b].appended = {} /\ rep[b].pending_all = {}

EventuallySettled == <>[](up = Brokers) => <>[]Settled

\* "A write acknowledged at acks=all survives the crash of any single broker"
\* (SPEC.md): the leader of the current epoch has every acknowledged record.
AckedSurvives ==
    \A b \in Brokers :
        rep[b].is_leader /\ rep[b].epoch = meta.leader_epoch =>
            \A a \in acked : Holds(b, a)

\* "ack when the HWM covers the batch - i.e. every ISR member has it"
\* (src/broker/mod.rs): whoever acknowledges a produce has it in its log.  The code
\* does not keep to it once a stray produce was parked (MaxStrays = 1, MaxEpoch = 3).
AcksAreTrue ==
    [][\A a \in acked' \ acked :
        \E b \in Brokers : rep'[b].is_leader /\ Holds(b, a)']_vars

\* "acks=all is refused when the ISR is smaller than this" (min_insync_replicas,
\* src/broker/mod.rs): a produce is only acknowledged by a leader whose ISR is
\* large enough.  The code does not keep to it when the ISR shrinks between the
\* check and the acknowledgement (MinIsr = 2, MaxLags = 1).
NoAckBelowMinIsr ==
    [][\A a \in acked' \ acked :
        \E b \in Brokers : /\ rep'[b].is_leader /\ a \notin rep'[b].pending_all
                          /\ Holds(b, a)'
                          /\ Cardinality(rep'[b].isr) >= MinIsr]_vars

====================
