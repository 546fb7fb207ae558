----------------------------- MODULE ClusterClient -----------------------------
(***************************************************************************)
(* The cluster-aware client (src/client/cluster.rs) under the torture      *)
(* workload (src/torture/replog.rs, the producer, reader and drain loops   *)
(* of src/torture/schedule.rs), with the checker judging what the tasks    *)
(* recorded.  One topic with one partition; all tasks share one client,    *)
(* that is one metadata cache and one table of connections.                *)
(*                                                                         *)
(* The cluster is what Controller and Replication promise a client, and no *)
(* more: brokers whose view of the metadata lags, leaders that are deposed *)
(* and do not know it, a request that takes effect long after its caller   *)
(* has given up on it, and a log of committed records that keeps them.     *)
(* Losses can be switched on, to see what the checker makes of them.       *)
(***************************************************************************)
EXTENDS Checker, TLC

CONSTANTS Brokers,       \* 1 .. n, in bootstrap order
          Readers,       \* reader tasks
          MaxIds,        \* bound on batches (of one record) produced
          MaxFaults      \* bound on the mishaps of all kinds: leader changes, connections
                         \* that break, crashes, acks=all waits that time out at the leader,
                         \* produces whose deadline passes, committed records lost

ASSUME ClusterClientAssumption ==
    /\ IsFiniteSet(Brokers) /\ Brokers # {} /\ Brokers = 1 .. Cardinality(Brokers)
    /\ "producer" \notin Readers
    /\ {MaxIds, MaxFaults} \subseteq Nat

VARIABLES truth,     \* the controller's metadata: version, leader, epoch
          view,      \* broker -> its cluster_meta
          up,        \* broker -> whether its process runs
          log,       \* the partition's committed ids
          requests,  \* produce requests that left the client
          meta,      \* ClusterClient.meta
          conns,     \* ClusterClient.conns: broker -> "none", "live", "dead"
          task,      \* task -> where it is: pc, the broker called, and in a refresh the
                     \* candidates left, the best answer, where to go on afterwards
          created,   \* what create_topic returned, "no" before
          nextId,    \* the workload's id counter
          position,  \* reader -> ReplogReader.position
          produced, consumed,   \* the History
          faults,    \* mishaps so far
          intact     \* whether none of them was a loss

cluster == <<truth, view, up, log>>
mishaps == <<faults, intact>>
workload == <<created, nextId, position, produced, consumed>>
vars == <<cluster, requests, meta, conns, task, workload, mishaps>>

Producer == "producer"
Tasks == Readers \cup {Producer}

NoBroker == 0
NoMeta == [version |-> 0, leader |-> NoBroker, epoch |-> 0]   \* ClusterMeta::default()
Bootstrap == [i \in 1 .. Cardinality(Brokers) |-> i]

\* The task is out of its call.
Goto(t, pc) == [task EXCEPT ![t].pc = pc, ![t].broker = NoBroker]
Mishap(harmless) == faults < MaxFaults /\ faults' = faults + 1 /\ intact' = (intact /\ harmless)
Replace(r, new) == requests' = (requests \ {r}) \cup new

------------------------------------------------------------------------------
(* The cluster *)

\* The controller gives the partition a leader: the topic's creation, or an election.
Lead(b) == truth' = [version |-> truth.version + 1, leader |-> b, epoch |-> truth.epoch + 1]

Elect(b) ==
    /\ truth.leader \notin {NoBroker, b} /\ up[b]
    /\ Lead(b)
    /\ Mishap(TRUE)
    /\ UNCHANGED <<view, up, log, requests, meta, conns, task, workload>>

Learn(b) ==
    /\ up[b] /\ view[b] # truth
    /\ view' = [view EXCEPT ![b] = truth]
    /\ UNCHANGED <<truth, up, log, requests, meta, conns, task, workload, mishaps>>

\* What a broker does with a produce: if it thinks it leads, at the epoch the client
\* believes, it keeps the batch until its in-sync replicas have it; a deposed leader's
\* replicas never will.  A request nobody waits for any more is handled all the same.
Accept(r) ==
    LET v == view[r.broker]
        st == IF v.leader = NoBroker THEN "UnknownTopicOrPartition"
              ELSE IF v.leader # r.broker THEN "NotLeader"
              ELSE IF r.epoch # 0 /\ r.epoch # v.epoch THEN "FencedEpoch"
              ELSE IF v = truth THEN "kept" ELSE "NotEnoughReplicas"
    IN  /\ r.st = "sent" /\ up[r.broker]
        /\ Replace(r, IF r.awaited \/ st = "kept" THEN {[r EXCEPT !.st = st]} ELSE {})
        /\ UNCHANGED <<cluster, meta, conns, task, workload, mishaps>>

\* The batch is committed: by the leader that took it, or, after an election, by the
\* successor that inherited it, and then nobody acknowledges it.
Commit(r) ==
    /\ r.st = "kept"
    /\ log' = Append(log, r.id)
    /\ Replace(r, IF ~r.awaited THEN {}
                  ELSE {[r EXCEPT !.st = IF truth.leader = r.broker /\ truth.epoch = r.epoch
                                         THEN "Ok" ELSE "NotLeader"]})
    /\ UNCHANGED <<truth, view, up, meta, conns, task, workload, mishaps>>

\* The leader's wait for its replicas times out; the batch stays in its log.
AckTimesOut(r) ==
    /\ r.st = "kept" /\ r.awaited
    /\ Replace(r, {[r EXCEPT !.st = "NotEnoughReplicas"], [r EXCEPT !.awaited = FALSE]})
    /\ Mishap(TRUE)
    /\ UNCHANGED <<cluster, meta, conns, task, workload>>

\* An election takes the batch from a leader that no longer has its replicas.
Drop(r) ==
    /\ r.st = "kept" /\ ~(truth.leader = r.broker /\ truth.epoch = r.epoch)
    /\ Replace(r, IF r.awaited THEN {[r EXCEPT !.st = "NotLeader"]} ELSE {})
    /\ UNCHANGED <<cluster, meta, conns, task, workload, mishaps>>

\* A connection breaks: its reader task ends, every call waiting on it fails with Closed.
\* Requests that the broker has read, or still can, are handled all the same.
Broken(b) ==
    /\ conns' = [conns EXCEPT ![b] = IF @ = "live" THEN "dead" ELSE @]
    /\ task' = [t \in Tasks |-> IF task[t].pc \in {"call", "creating"} /\ task[t].broker = b
                                THEN [task[t] EXCEPT !.pc = "closed"] ELSE task[t]]

Orphaned(b) == {[r EXCEPT !.awaited = @ /\ r.broker # b] : r \in requests}

Break(b) ==
    /\ conns[b] = "live" \/ \E t \in Tasks : task[t].pc = "call" /\ task[t].broker = b
    /\ Broken(b)
    /\ requests' = {r \in Orphaned(b) : r.awaited \/ r.st \in {"sent", "kept"}}
    /\ Mishap(TRUE)
    /\ UNCHANGED <<cluster, meta, workload>>

\* A crash also takes the requests the broker has not handled, and its view.
Crash(b) ==
    /\ up[b]
    /\ up' = [up EXCEPT ![b] = FALSE]
    /\ view' = [view EXCEPT ![b] = NoMeta]
    /\ Broken(b)
    /\ requests' = {r \in Orphaned(b) : \/ r.awaited \/ r.st = "kept"
                                        \/ r.st = "sent" /\ r.broker # b}
    /\ Mishap(TRUE)
    /\ UNCHANGED <<truth, log, meta, workload>>

Restart(b) ==
    /\ ~up[b]
    /\ up' = [up EXCEPT ![b] = TRUE]
    /\ UNCHANGED <<truth, view, log, requests, meta, conns, task, workload, mishaps>>

\* What must never happen, and the checker is there to notice.
Lose ==
    /\ log # <<>>
    /\ log' = SubSeq(log, 1, Len(log) - 1)
    /\ Mishap(FALSE)
    /\ UNCHANGED <<truth, view, up, requests, meta, conns, task, workload>>

------------------------------------------------------------------------------
(* ClusterClient *)

\* Mutant of ConnTo: a dial that fails is not noticed.
MutantConnTo(b) == IF conns[b] = "none" THEN "live" ELSE conns[b]

\* conn_to: the table's connection, or a new one; dialling a broker that is down fails.
\* A connection that broke is still in the table: it is handed out and fails the call.
ConnTo(b) == IF conns[b] = "none" /\ up[b] THEN "live" ELSE conns[b]

\* What the table holds after the call: drop_conn takes a connection that failed out.
Keep(b, c) == conns' = [conns EXCEPT ![b] = IF c = "live" THEN "live" ELSE "none"]

\* Mutant of Newer: the first answer is kept.
MutantNewer(best, answer) == IF best.heard THEN best ELSE [heard |-> TRUE, meta |-> answer]

\* refresh_metadata keeps the newest answer.
Newer(best, answer) ==
    IF best.heard /\ answer.version <= best.meta.version THEN best
    ELSE [heard |-> TRUE, meta |-> answer]

Unheard == [heard |-> FALSE, meta |-> NoMeta]

\* Refresh, and go on at next.
Refresh(t, next) ==
    task' = [task EXCEPT ![t] = [@ EXCEPT !.pc = "refresh", !.broker = NoBroker, !.cand = Bootstrap,
                                          !.best = Unheard, !.next = next]]

\* refresh_metadata, one candidate: connect, ask, drop the connection if that fails.
\* After the last, the best answer replaces the cache, whatever is in it by then.
RefreshNext(t) ==
    LET b == Head(task[t].cand)
        c == ConnTo(b)
        best == IF c = "live" THEN Newer(task[t].best, view[b]) ELSE task[t].best
        last == Len(task[t].cand) = 1
    IN  /\ task[t].pc = "refresh"
        /\ Keep(b, c)
        /\ meta' = IF last /\ best.heard THEN best.meta ELSE meta
        /\ task' = [task EXCEPT ![t] = [@ EXCEPT !.cand = IF last THEN Bootstrap ELSE Tail(task[t].cand),
                                                 !.best = IF last THEN Unheard ELSE best,
                                                 !.pc = IF last THEN task[t].next ELSE "refresh"]]
        /\ UNCHANGED <<cluster, requests, workload, mishaps>>

\* Where a call over a connection gets its task: a broken one fails it with Closed.
Called(c) == CASE c = "live" -> "call" [] c = "dead" -> "closed" [] c = "none" -> "retry"

\* One attempt of produce or fetch: leader_for, conn_to, the call.  (The number tells
\* requests apart that are otherwise the same.)
Attempt(t) ==
    LET b == meta.leader
        c == ConnTo(b)
        r == [id |-> nextId, broker |-> b, epoch |-> meta.epoch, st |-> "sent",
              awaited |-> TRUE, n |-> faults]
    IN  /\ task[t].pc = "route"
        /\ IF b = NoBroker
           THEN task' = Goto(t, "retry") /\ UNCHANGED <<conns, requests>>
           ELSE /\ conns' = [conns EXCEPT ![b] = c]
                /\ task' = [task EXCEPT ![t].pc = Called(c), ![t].broker = IF c = "none" THEN NoBroker ELSE b]
                /\ requests' = IF t = Producer /\ c = "live" THEN requests \cup {r} ELSE requests
        /\ UNCHANGED <<cluster, meta, workload, mishaps>>

\* drop_conn, after a call that failed with Closed: whatever the table has for that
\* address goes, a connection another task has made since included.
DropConn(t) == conns' = IF task[t].pc = "closed" THEN [conns EXCEPT ![task[t].broker] = "none"] ELSE conns

\* An attempt failed and there is time left: sleep for the backoff, refresh, try again.
Retry(t) ==
    /\ task[t].pc \in {"retry", "closed"} /\ created # "no"
    /\ DropConn(t)
    /\ Refresh(t, "route")
    /\ UNCHANGED <<cluster, requests, meta, workload, mishaps>>

\* The errors produce tries again after.
Retried == {"NotLeader", "FencedEpoch", "Offline", "NotEnoughReplicas", "UnknownTopicOrPartition"}

\* Mutant of Outcome: a batch that was not replicated in time is taken for done.
MutantOutcome(code) ==
    IF code \in {"Ok", "NotEnoughReplicas"} THEN "acked"
    ELSE IF code \in Retried THEN "retry" ELSE "failed"

\* What produce does with an answer.
Outcome(code) ==
    IF code = "Ok" THEN "acked"
    ELSE IF code \in Retried THEN "retry" ELSE "failed"

\* The answer to a produce; the workload records the id once it is acknowledged.
ProduceAnswered(r) ==
    /\ r.awaited /\ r.st \notin {"sent", "kept"} /\ up[r.broker]
    /\ requests' = requests \ {r}
    /\ IF Outcome(r.st) = "retry"
       THEN task' = Goto(Producer, "retry") /\ UNCHANGED workload
       ELSE /\ task' = Goto(Producer, "idle")
            /\ produced' = IF Outcome(r.st) = "acked" THEN Append(produced, r.id) ELSE produced
            /\ nextId' = nextId + 1
            /\ UNCHANGED <<created, position, consumed>>
    /\ UNCHANGED <<cluster, meta, conns, mishaps>>

\* The deadline has passed when an attempt fails: produce returns an error, and the
\* workload records nothing.
GiveUp ==
    /\ task[Producer].pc \in {"retry", "closed"} /\ created # "no"
    /\ DropConn(Producer)
    /\ task' = Goto(Producer, "idle")
    /\ nextId' = nextId + 1
    /\ Mishap(TRUE)
    /\ UNCHANGED <<cluster, requests, meta, created, position, produced, consumed>>

\* The workload's next batch; ids are never used again.
Produce ==
    /\ task[Producer].pc = "idle" /\ nextId <= MaxIds
    /\ task' = Goto(Producer, "route")
    /\ UNCHANGED <<cluster, requests, meta, conns, workload, mishaps>>

\* create_topic, one candidate.  A broker passes the request on to the controller, if it
\* has one; the answer is a step of its own, and can be lost after the topic was made.
CreateAt(t) ==
    LET b == Head(task[t].cand)
        c == ConnTo(b)
        known == view[b] # NoMeta
    IN  /\ task[t].pc = "create"
        /\ IF c = "live" /\ known
           THEN /\ conns' = [conns EXCEPT ![b] = c]
                /\ task' = [task EXCEPT ![t].pc = "creating", ![t].broker = b,
                                        ![t].next = IF truth.leader = NoBroker THEN "Ok" ELSE "TopicExists"]
                /\ IF truth.leader = NoBroker THEN Lead(b) ELSE UNCHANGED truth
           ELSE /\ Keep(b, IF known THEN c ELSE "none")
                /\ IF Len(task[t].cand) = 1 THEN Refresh(t, "create")
                   ELSE task' = [task EXCEPT ![t].cand = Tail(@)]
                /\ UNCHANGED truth
        /\ UNCHANGED <<view, up, log, requests, meta, workload, mishaps>>

\* create_topic returns; then the workload starts its tasks.
CreateAnswered(t) ==
    /\ task[t].pc = "creating"
    /\ created' = task[t].next
    /\ task' = [x \in Tasks |-> [task[x] EXCEPT !.cand = Bootstrap,
                                                !.broker = NoBroker, !.next = "route",
                                                !.pc = IF x = Producer THEN "idle" ELSE "route"]]
    /\ UNCHANGED <<cluster, requests, meta, conns, nextId, position, produced, consumed, mishaps>>

\* A candidate's connection closed during the call: the next one is asked, though the
\* topic may exist by now.
CreateClosed(t) ==
    /\ task[t].pc = "closed" /\ created = "no"
    /\ DropConn(t)
    /\ IF Len(task[t].cand) = 1 THEN Refresh(t, "create")
       ELSE task' = [Goto(t, "create") EXCEPT ![t].cand = Tail(@)]
    /\ UNCHANGED <<cluster, requests, meta, workload, mishaps>>

\* Mutant of NextPosition: the reader asks again for the last record it was given.
MutantNextPosition(offset, n) == IF n = 0 THEN offset ELSE offset + n - 1

\* ReplogReader.next: one past the last record it was given.
NextPosition(offset, n) == offset + n

\* The answer to a fetch.  A broker that leads in its own view gives committed records
\* from the position on, as far as it knows the mark; with none, or an error that fetch
\* does not retry, the reader asks again.
FetchAnswered(t) ==
    LET b == task[t].broker
        from == position[t]
    IN  /\ t \in Readers /\ task[t].pc = "call" /\ up[b]
        /\ IF view[b].leader # b
           THEN task' = Goto(t, "retry") /\ UNCHANGED <<position, consumed>>
           ELSE /\ task' = Goto(t, "route")
                /\ \E n \in {0} \cup 1 .. Len(log) - from :
                      /\ position' = [position EXCEPT ![t] = NextPosition(@, n)]
                      /\ consumed' = consumed \o
                            [i \in 1 .. n |-> [consumer |-> t, generation |-> 0, partition |-> 0,
                                               offset |-> from + i - 1, id |-> log[from + i]]]
        /\ UNCHANGED <<cluster, requests, meta, conns, created, nextId, produced, mishaps>>

\* A broken cluster: the fetch is answered with a record that is not where it says it is.
Misserve(t) ==
    /\ t \in Readers /\ task[t].pc = "call" /\ view[task[t].broker].leader = task[t].broker
    /\ task' = Goto(t, "route")
    /\ \E o \in 0 .. MaxIds, id \in 1 .. MaxIds :
          /\ position' = [position EXCEPT ![t] = NextPosition(o, 1)]
          /\ consumed' = Append(consumed, [consumer |-> t, generation |-> 0, partition |-> 0,
                                           offset |-> o, id |-> id])
    /\ Mishap(FALSE)
    /\ UNCHANGED <<cluster, requests, meta, conns, created, nextId, produced>>

------------------------------------------------------------------------------

Registered == [NoMeta EXCEPT !.version = 1]

\* ClusterClient::connect starts with a refresh; readers start with the workload.
Init ==
    /\ truth = Registered /\ view = [b \in Brokers |-> Registered]
    /\ up = [b \in Brokers |-> TRUE] /\ log = <<>> /\ requests = {}
    /\ meta = NoMeta /\ conns = [b \in Brokers |-> "none"]
    /\ task = [t \in Tasks |-> [pc |-> IF t = Producer THEN "refresh" ELSE "off", broker |-> NoBroker,
                                cand |-> Bootstrap, best |-> Unheard, next |-> "create"]]
    /\ created = "no" /\ nextId = 1
    /\ position = [t \in Readers |-> 0]
    /\ produced = <<>> /\ consumed = <<>>
    /\ faults = 0 /\ intact = TRUE

ClusterStep ==
    \/ \E b \in Brokers : Elect(b) \/ Learn(b) \/ Break(b) \/ Crash(b) \/ Restart(b)
    \/ \E r \in requests : Accept(r) \/ Commit(r) \/ AckTimesOut(r) \/ Drop(r)
    \/ Lose

ProduceStep ==
    \/ \E r \in requests : ProduceAnswered(r)
    \/ CreateAt(Producer) \/ CreateAnswered(Producer) \/ CreateClosed(Producer)
    \/ RefreshNext(Producer) \/ Attempt(Producer) \/ Retry(Producer)

ReadStep(t) == RefreshNext(t) \/ Attempt(t) \/ Retry(t) \/ FetchAnswered(t)
Misserved == \E t \in Readers : Misserve(t)

Next ==
    ClusterStep \/ ProduceStep \/ Produce \/ GiveUp \/ Misserved \/ \E t \in Readers : ReadStep(t)

\* The client's tasks and a running broker's handlers run; a broker that is down comes
\* back (the schedule heals every fault) and the elected one learns that it leads, while
\* a deposed one may be cut off from the controller for good; a leader's replicas do
\* fetch what a producer waits for.
Fairness ==
    /\ WF_vars(ProduceStep)
    /\ \A t \in Readers : WF_vars(ReadStep(t))
    /\ \A b \in Brokers : WF_vars(Restart(b))
    /\ WF_vars(\E b \in Brokers : truth.leader \in {b, NoBroker} /\ Learn(b))
    /\ WF_vars(\E r \in requests : r.awaited /\ (Accept(r) \/ Commit(r) \/ Drop(r)))

Spec == Init /\ [][Next]_vars
FairSpec == Spec /\ Fairness

------------------------------------------------------------------------------
(* Properties *)

Occurrences(id) == {i \in DOMAIN log : log[i] = id}
First(id) == CHOOSE i \in Occurrences(id) : \A j \in Occurrences(id) : i <= j

\* Only the call the producer is in has an awaited request, calls are only in progress at
\* brokers that run, caches hold metadata the controller issued, ids are acknowledged once
\* and in order.
TypeOK ==
    /\ \A r, q \in requests : r.awaited /\ q.awaited => r = q
    /\ \A r \in requests : r.awaited => task[Producer].pc = "call" /\ task[Producer].broker = r.broker
    /\ \A t \in Tasks : task[t].pc = "call" => up[task[t].broker]
    /\ \A m \in {meta} \cup {view[b] : b \in Brokers} :
          m.version <= truth.version /\ m.epoch <= truth.epoch
    /\ \A i, j \in DOMAIN produced : i < j => produced[i] < produced[j]

\* An acknowledged batch is in the log, and retries do not reorder what a producer was
\* told is done: first occurrences come in the order of the acknowledgements.
AckedInOrder ==
    intact => \A i, j \in DOMAIN produced :
        /\ Occurrences(produced[i]) # {}
        /\ i < j => First(produced[i]) < First(produced[j])

\* The checker never accuses a cluster that lost nothing: no rewind, no divergence, no
\* hole at any time, and nothing missing once a reader is at the end of the log.
NoFalseAlarm ==
    intact =>
        /\ MonotonicityViolations(consumed) = {}
        /\ DivergentOffsets(consumed) = {} /\ OffsetGaps(consumed) = {}
        /\ (\E t \in Readers : position[t] = Len(log)) => MissingIds(produced, consumed) = {}

\* The checker's passes decide exactly what they are meant to: OK if and only if one log
\* explains what every reader saw and holds every acknowledged id.
VerdictIsOneLog == IsOk(produced, consumed) <=> OneLog(produced, consumed)

\* The topic's creation and every produce end, without the help of the deadline: the
\* client finds the leader again however stale the answers it is given, though a deposed
\* leader that hears nothing from the controller goes on giving them.
ProduceReturns == (task[Producer].pc \notin {"idle"}) ~> (task[Producer].pc = "idle")
====================
