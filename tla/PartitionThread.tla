---------------------------- MODULE PartitionThread ----------------------------
(***************************************************************************)
(* The writer thread of one partition replica (src/broker/partition.rs):   *)
(* it owns the log and the leader-epoch checkpoint and serves the commands *)
(* of its channel one at a time.  An append that asks for a durable ack is *)
(* parked until a flush covers it; the timeout of the channel's recv is    *)
(* the group-commit timer.                                                 *)
(*                                                                         *)
(* The log is a DurableLog: records of one byte each, of which a prefix is *)
(* on stable storage.  Offsets are counts here: durable = n stands for     *)
(* durable_offset = n - 1, and 0 for None.                                 *)
(***************************************************************************)
EXTENDS EpochCheckpoint, FiniteSets

CONSTANTS Policies,     \* fsync policies to consider: "always", "batch", "os"
          MaxBytes,     \* FsyncPolicy::Batch's max_bytes
          MaxInbox,     \* bound on commands waiting in the channel
          MaxBatch,     \* bound on the records of one produce
          MaxRecords,   \* bound on records produced or replicated
          MaxEpoch,     \* bound on leader epochs
          MaxCrashes,   \* bound on crashes and shutdowns
          MaxCuts       \* bound on truncations asked for

ASSUME PartitionAssumption ==
    /\ Policies \subseteq {"always", "batch", "os"}
    /\ MaxBytes \in Nat \ {0} /\ MaxInbox \in Nat \ {0}
    /\ {MaxBatch, MaxRecords, MaxEpoch, MaxCrashes, MaxCuts} \subseteq Nat

VARIABLES policy,    \* the log's FsyncPolicy
          store,     \* the Log: its records, how many are on stable storage,
                     \* how many it takes to be, bytes since the last flush
          entries,   \* the EpochCheckpoint and its file
          inbox,     \* the commands in the thread's channel
          armed,     \* dirty_since is set
          pending,   \* the acks that wait for a flush, oldest first
          epoch,     \* the newest epoch the replica took part in
          leads,     \* the replica is the leader of that epoch
          stage,     \* how far its leader, or its fetcher, has come
          local,     \* the fetcher's local_epoch, 0 when none has asked for it yet
          stray,     \* a command that a stopped fetcher has yet to send, if any
          count,     \* the bounds: records, crashes, truncations so far
          promised,  \* history: records whose durable ack was sent
          cut,       \* history: records that a truncation removed
          deposed,   \* history: follower commands came while acks were pending
          lapses     \* history: what kept an epoch off the checkpoint, see Lapses

env == <<epoch, leads, stage, local, stray, count>>
vars == <<policy, store, entries, inbox, armed, pending, env, promised, cut, deposed, lapses>>

\* Who sends commands: nobody (after a restart), a leader that has yet to send
\* record_epoch, a leader that has; a fetcher that has yet to ask for the epoch on
\* file, to reconcile with its leader, to fetch.
Stages == {"out", "due", "led", "join", "check", "fetch"}

\* A restart found the checkpoint ahead of the log; a produce came between the change
\* of role and record_epoch; a fetcher cut the entry of the epoch it is in; a fetcher
\* was stopped between is_current and its append.
Lapses == {"ahead", "early", "dropped", "late"}

------------------------------------------------------------------------------
(* The log, as the thread uses it *)

\* The epoch a record was written in, and the one this replica was in when the record
\* was sent to its thread: a leader's is the same, a follower's may be later.
Record(id, written, came) == [id |-> id, epoch |-> written, came |-> came]

Size == Len(store.log)
Ids(records) == {records[i].id : i \in DOMAIN records}

\* Log::flush
Flushed(s) == [s EXCEPT !.synced = Len(s.log), !.durable = Len(s.log), !.dirty = 0]

\* Log::append_record.  The time trigger of the batch policy is off in this log
\* (spawn sets its max_ms to u64::MAX).
Appended1(s, r) ==
    LET w == [s EXCEPT !.log = Append(@, r), !.dirty = @ + 1]
    IN  IF policy = "always" \/ (policy = "batch" /\ w.dirty >= MaxBytes)
        THEN Flushed(w) ELSE w

Appended(records) ==
    LET after[i \in 0 .. Len(records)] ==
            IF i = 0 THEN store ELSE Appended1(after[i - 1], records[i])
    IN  after[Len(records)]

\* Log::truncate_suffix: the records that go are gone from the disk too.
Cut(n) ==
    IF n >= Size THEN store
    ELSE [store EXCEPT !.log = SubSeq(@, 1, n),
                       !.synced = Min({@, n}), !.durable = Min({@, n})]

\* is_dirty
IsDirty(s) == Len(s.log) > 0 /\ s.durable # Len(s.log)

\* Log::open after the crash left n records, of which stable ones are known to
\* the disk: whatever is found counts as durable.
Reopened(n, stable) ==
    [log |-> SubSeq(store.log, 1, n), synced |-> stable, durable |-> n, dirty |-> 0]

------------------------------------------------------------------------------
(* Acks *)

Covered(p, durable) == p.last <= durable

\* Mutant of Released: every pending ack is sent.
MutantReleased(queue, durable) == Len(queue)

\* drain_pending: how many acks it takes off the front of the queue.
Released(queue, durable) ==
    Max({n \in 0 .. Len(queue) : \A i \in 1 .. n : Covered(queue[i], durable)})

\* An ack tells the producer where its records are.
AckOf(p) == {[id |-> p.ids[i], offset |-> p.last - Len(p.ids) + i] : i \in DOMAIN p.ids}
Acks(queue) == UNION {AckOf(queue[i]) : i \in DOMAIN queue}

\* The thread leaves `queue` pending with a log whose durable end is `durable`,
\* having acked `now` at once.
Drain(queue, durable, now) ==
    LET n == Released(queue, durable)
    IN  /\ pending' = SubSeq(queue, n + 1, Len(queue))
        /\ promised' = promised \cup Acks(SubSeq(queue, 1, n)) \cup now

\* A follower command while acks are pending.
NoteFollower == deposed' = (deposed \/ pending # <<>>)

------------------------------------------------------------------------------
(* Commands.  Senders only enqueue: PartitionHandle *)

Send(c) == Len(inbox) < MaxInbox /\ inbox' = Append(inbox, c)

Sending == UNCHANGED <<policy, store, entries, armed, pending, promised, cut, deposed>>

Fresh(n) == [i \in 1 .. n |-> count.records + i]

\* append_start, append_no_reply: the leader passes on a produce of n records,
\* the first `good` of which the log will take (a record may be too large).
SendAppend(n, good, acks) ==
    /\ stage \in {"due", "led"} /\ count.records + n <= MaxRecords
    /\ Send([do |-> "append", ids |-> Fresh(n), good |-> good, acks |-> acks, epoch |-> epoch])
    /\ count' = [count EXCEPT !.records = @ + n]
    /\ lapses' = lapses \cup {x \in {"early"} : stage = "due" /\ CurrentEpoch(entries) < epoch}
    /\ UNCHANGED <<epoch, leads, stage, local, stray>> /\ Sending

\* apply_metadata takes the lead of epoch e, of a new one or after a restart.
TakeLead(e) ==
    /\ stage # "due" /\ (e > epoch \/ (e = epoch /\ leads /\ stage = "out"))
    /\ epoch' = e /\ leads' = TRUE /\ stage' = "due" /\ local' = 0
    /\ UNCHANGED <<stray, count, inbox, lapses>> /\ Sending

\* apply_metadata spawns a fetcher, in a new epoch or because the last one died.
Follow(e) ==
    /\ stage # "due" /\ (e > epoch \/ (e = epoch /\ ~leads))
    /\ epoch' = e /\ leads' = FALSE /\ stage' = "join" /\ local' = 0
    /\ UNCHANGED <<stray, count, inbox, lapses>> /\ Sending

\* epoch_status: the answer comes after everything that was in the channel.
LearnLocal ==
    /\ stage = "join" /\ inbox = <<>>
    /\ local' = CurrentEpoch(entries) /\ stage' = "check"
    /\ UNCHANGED <<epoch, leads, stray, count, inbox, lapses>> /\ Sending

\* truncate_to: the fetcher reconciles with its leader; the epoch it keeps in mind
\* is the one from before.
SendTruncate(n) ==
    /\ stage = "check" /\ inbox = <<>> /\ n < Size /\ count.cuts < MaxCuts
    /\ Send([do |-> "truncate", to |-> n])
    /\ count' = [count EXCEPT !.cuts = @ + 1]
    /\ stage' = "fetch"
    /\ lapses' = lapses \cup {x \in {"dropped"} :
                     local = epoch /\ CurrentEpoch(TruncateTo(entries, n)) < epoch}
    /\ UNCHANGED <<epoch, leads, local, stray>> /\ Sending

\* The fetcher finds nothing to cut.
Reconciled ==
    /\ stage = "check" /\ stage' = "fetch"
    /\ UNCHANGED <<epoch, leads, local, stray, count, inbox, lapses>> /\ Sending

\* A fetcher waits for the thread's answer to truncate_to and append_replicated.
Awaiting == \E i \in DOMAIN inbox : inbox[i].do \in {"truncate", "replicated"}

\* record_epoch: a leader once its role is set, a fetcher when the first answer comes
\* from an epoch later than the one it found on file.
SendEpoch ==
    /\ \/ stage = "due" /\ stage' = "led" /\ UNCHANGED local
       \/ stage = "fetch" /\ ~Awaiting /\ local < epoch /\ local' = epoch /\ UNCHANGED stage
    /\ Send([do |-> "epoch", epoch |-> epoch])
    /\ UNCHANGED <<epoch, leads, stray, count, lapses>> /\ Sending

\* append_replicated: the fetcher passes on a record of the leader's log, which some
\* leader wrote in epoch w, this one's or an earlier.  Its task may be stopped after
\* is_current and send the record later, when the replica has another role.
SendReplicated(w) ==
    LET c == [do |-> "replicated", id |-> count.records + 1, base |-> Size, epoch |-> w,
              came |-> epoch]
    IN  /\ stage = "fetch" /\ ~Awaiting /\ local = epoch
        /\ w <= epoch /\ count.records < MaxRecords
        /\ count' = [count EXCEPT !.records = @ + 1]
        /\ \/ Send(c) /\ UNCHANGED <<stage, local, stray, lapses>>
           \/ /\ stray = <<>> /\ stray' = <<c>> /\ stage' = "out" /\ local' = 0
              /\ lapses' = lapses \cup {"late"} /\ UNCHANGED inbox
    /\ UNCHANGED <<epoch, leads>> /\ Sending

SendStray ==
    /\ stray # <<>> /\ Send(stray[1]) /\ stray' = <<>>
    /\ UNCHANGED <<epoch, leads, stage, local, count, lapses>> /\ Sending

\* read, epoch_status, epoch_end_for: answered from the log and the checkpoint.
SendQuery ==
    /\ Send([do |-> "query"])
    /\ UNCHANGED <<env, lapses>> /\ Sending

------------------------------------------------------------------------------
(* The thread: run *)

Cmd == Head(inbox)
Take(kind) ==
    /\ inbox # <<>> /\ Cmd.do = kind
    /\ inbox' = Tail(inbox)
    /\ UNCHANGED <<policy, env, lapses>>

\* dirty_since after records were written; only the batch policy acts on it.
Rearm(s) == armed' = (IsDirty(s) /\ policy = "batch")

\* Cmd::Append.  A batch that fails half way is answered with an error; the
\* records before the failure stay.
HandleAppend ==
    /\ Take("append")
    /\ LET records == [i \in 1 .. Cmd.good |-> Record(Cmd.ids[i], Cmd.epoch, Cmd.epoch)]
           s == Appended(records)
           ack == [ids |-> Cmd.ids, last |-> Len(s.log)]
           waits == Cmd.good = Len(Cmd.ids) /\ Cmd.acks = "durable" /\ policy # "os"
           now == waits /\ s.durable >= ack.last
       IN  /\ store' = s
           /\ Rearm(s)
           /\ Drain(IF waits /\ ~now THEN Append(pending, ack) ELSE pending, s.durable,
                    IF now THEN AckOf(ack) ELSE {})
    /\ UNCHANGED <<entries, cut, deposed>>

\* Cmd::AppendReplicated: a record that does not continue the log is refused.
HandleReplicated ==
    /\ Take("replicated")
    /\ LET s == IF Cmd.base = Size
                THEN Appended(<<Record(Cmd.id, Cmd.epoch, Cmd.came)>>) ELSE store
       IN  store' = s /\ Rearm(s)
    /\ NoteFollower
    /\ UNCHANGED <<entries, pending, promised, cut>>

\* Cmd::TruncateTo: the log, then the checkpoint; the timer stays as it is.
HandleTruncate ==
    /\ Take("truncate")
    /\ store' = Cut(Cmd.to)
    /\ entries' = TruncateTo(entries, Cmd.to)
    /\ cut' = cut \cup Ids(SubSeq(store.log, Cmd.to + 1, Size))
    /\ NoteFollower
    /\ UNCHANGED <<armed, pending, promised>>

\* Cmd::RecordEpoch
HandleEpoch ==
    /\ Take("epoch")
    /\ entries' = RecordEpoch(entries, Cmd.epoch, Size)
    /\ UNCHANGED <<store, armed, pending, promised, cut, deposed>>

\* Cmd::Read, Cmd::EpochStatus, Cmd::EpochEndFor
HandleQuery ==
    /\ Take("query")
    /\ UNCHANGED <<store, entries, armed, pending, promised, cut, deposed>>

\* Mutant of TimerFlush: the log is flushed, the rest of `flush` is skipped.
MutantTimerFlush ==
    /\ inbox = <<>> /\ armed
    /\ store' = Flushed(store)
    /\ UNCHANGED <<policy, entries, inbox, armed, pending, promised, env, cut, deposed, lapses>>

\* recv_timeout expires max_ms after dirty_since: group commit.
TimerFlush ==
    /\ inbox = <<>> /\ armed
    /\ store' = Flushed(store)
    /\ armed' = FALSE
    /\ Drain(pending, Size, {})
    /\ UNCHANGED <<policy, entries, inbox, env, cut, deposed, lapses>>

------------------------------------------------------------------------------
(* Stopping and starting: what spawn finds *)

Restarted(s) ==
    /\ count.crashes < MaxCrashes
    /\ count' = [count EXCEPT !.crashes = @ + 1]
    /\ store' = s
    /\ inbox' = <<>> /\ armed' = FALSE /\ pending' = <<>>
    /\ stage' = "out" /\ local' = 0 /\ stray' = <<>> /\ deposed' = FALSE
    /\ lapses' = lapses \cup {x \in {"ahead"} : entries # <<>> /\ Last(entries).start > Len(s.log)}
    /\ UNCHANGED <<policy, epoch, leads>>

\* The process is killed (what it wrote stays) or the machine loses power (at
\* least what was flushed stays).  Nobody is answered.
Crash ==
    /\ \/ Restarted(Reopened(Size, store.synced))
       \/ \E n \in store.synced .. Size : Restarted(Reopened(n, n))
    /\ UNCHANGED <<entries, promised, cut>>

\* The crash falls between the two files a truncation changes.
CrashInTruncate ==
    /\ inbox # <<>> /\ Cmd.do = "truncate"
    /\ Restarted(Reopened(Cmd.to, Min({store.synced, Cmd.to})))
    /\ cut' = cut \cup Ids(SubSeq(store.log, Cmd.to + 1, Size))
    /\ UNCHANGED <<entries, promised>>

\* Every handle is dropped: the thread serves what is queued, flushes and ends.
Shutdown ==
    /\ inbox = <<>>
    /\ Restarted(Reopened(Size, Size))
    /\ promised' = promised \cup Acks(SubSeq(pending, 1, Released(pending, Size)))
    /\ UNCHANGED <<entries, cut>>

------------------------------------------------------------------------------

Init ==
    /\ policy \in Policies
    /\ store = [log |-> <<>>, synced |-> 0, durable |-> 0, dirty |-> 0]
    /\ entries = <<>> /\ inbox = <<>> /\ armed = FALSE /\ pending = <<>>
    /\ epoch = 0 /\ leads = FALSE /\ stage = "out" /\ local = 0 /\ stray = <<>>
    /\ count = [records |-> 0, crashes |-> 0, cuts |-> 0]
    /\ promised = {} /\ cut = {} /\ deposed = FALSE /\ lapses = {}

Handle ==
    \/ HandleAppend \/ HandleReplicated \/ HandleTruncate \/ HandleEpoch \/ HandleQuery

Next ==
    \/ \E n \in 1 .. MaxBatch, acks \in {"written", "durable"} :
           \E good \in 0 .. n : SendAppend(n, good, acks)
    \/ \E e \in 1 .. MaxEpoch : TakeLead(e) \/ Follow(e) \/ SendReplicated(e)
    \/ LearnLocal \/ Reconciled
    \/ \E n \in 0 .. MaxRecords : SendTruncate(n)
    \/ SendEpoch \/ SendStray \/ SendQuery
    \/ Handle \/ TimerFlush
    \/ Crash \/ CrashInTruncate \/ Shutdown

\* The thread serves its channel; the channel is empty for max_ms again and again
\* (while commands keep coming, recv_timeout prefers them to the timer).
Spec == Init /\ [][Next]_vars /\ WF_vars(Handle) /\ SF_vars(TimerFlush)

------------------------------------------------------------------------------
(* Properties *)

\* Types of the state; the checkpoint file would load (EpochCheckpoint::load):
\* an entry out of order is a hard error that keeps the partition closed.
TypeOK ==
    /\ policy \in Policies
    /\ store.synced \in 0 .. Size /\ store.durable \in 0 .. Size /\ store.dirty \in Nat
    /\ \A i \in DOMAIN store.log : store.log[i].id \in 1 .. MaxRecords
    /\ \A i, j \in DOMAIN entries :
           i < j => /\ entries[i].epoch < entries[j].epoch
                    /\ entries[i].start <= entries[j].start
    /\ Len(inbox) <= MaxInbox
    /\ armed \in BOOLEAN /\ deposed \in BOOLEAN
    /\ stage \in Stages /\ {local, epoch} \subseteq 0 .. MaxEpoch /\ lapses \subseteq Lapses

\* A record whose durable ack was sent is on stable storage, at the offset the
\* ack named, through every later append, flush, crash and restart, until a
\* truncation removes it (the ack contract of the module comment).
DurableAckKept ==
    \A p \in promised :
        \/ p.id \in cut
        \/ p.offset <= store.synced /\ store.log[p.offset].id = p.id

\* "the leader answers with where that epoch ended in the leader's history"
\* (src/storage/epoch.rs): for every epoch asked for, known here or not, no record
\* before the answer was written under a later one, and every record from there on
\* was written, or on a follower fetched, when the replica was in a later one.
AnswersEpochEnd ==
    \A e \in 0 .. MaxEpoch : \A i \in DOMAIN store.log :
        LET r == store.log[i]
        IN  IF i <= EndOffsetFor(entries, e, Size) THEN r.epoch <= e ELSE r.came > e

\* It does so unless a crash between the two halves of TruncateTo, or a power loss,
\* left an entry past the end of the log (the next epoch's is refused then), a record
\* overtook the entry of its epoch or came late, or a fetcher cut the entry of the
\* epoch it is in, which its local_epoch says is on file.
AnswersUnlessLapsed == lapses = {} => AnswersEpochEnd

\* A parked ack is sent in the end, or the thread restarts and the producer's
\* connection with it (drain_pending, "never stranded"), provided no follower
\* command comes while acks wait: AppendReplicated may flush without draining,
\* and TruncateTo leaves acks for records that are gone.
AcksAnswered ==
    \A i \in 1 .. MaxRecords :
        (\E p \in DOMAIN pending : i \in {pending[p].ids[j] : j \in DOMAIN pending[p].ids})
            ~> (deposed \/ \A p \in DOMAIN pending :
                               i \notin {pending[p].ids[j] : j \in DOMAIN pending[p].ids})

====================
