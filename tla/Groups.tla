-------------------------------- MODULE Groups --------------------------------
(***************************************************************************)
(* Consumer groups: the coordinator (src/broker/groups.rs), the committed  *)
(* offsets in the internal log (src/broker/offsets.rs), the broker's       *)
(* handlers for both (src/broker/mod.rs, dispatch and the expiry task) and *)
(* the group consumer that drives them (src/client/group.rs).  One group.  *)
(*                                                                         *)
(* A call of a consumer takes effect at the broker and its answer is used  *)
(* at once, except where the code does something else in between: a join   *)
(* is followed by one offset fetch per partition, a commit is checked when *)
(* it arrives and applied by a task of its own.  A consumer may be dropped *)
(* (its process dies), or drop a call half way (a cancelled future); the   *)
(* broker goes on with what it has started.  Member ids are numbers: the   *)
(* assignment only needs some total order of them.                         *)
(***************************************************************************)
EXTENDS Integers, FiniteSetsExt, SequencesExt

CONSTANTS Consumers,       \* consumer processes
          Topics,          \* topics
          PartitionCount,  \* topic -> number of partitions
          Subscription,    \* consumer -> topics it subscribes to
          LogEnd,          \* records in every partition
          MaxMembers,      \* bound on member ids given out
          MaxCommits,      \* bound on commit calls that pass the fence
          MaxFaults        \* bound on cancelled calls, lost consumers, evictions of
                           \* members that are alive, and broker crashes

ASSUME GroupsAssumption ==
    /\ PartitionCount \in [Topics -> Nat]
    /\ Subscription \in [Consumers -> SUBSET Topics]
    /\ {LogEnd, MaxMembers, MaxCommits, MaxFaults} \subseteq Nat

VARIABLES group,       \* Group: generation, members and their topics, assignment
          nextMember,  \* GroupCoordinator.next_member
          offsetsLog,  \* the __offsets log, oldest first
          synced,      \* how much of it is on stable storage
          cache,       \* OffsetsStore.cache; a partition without a commit is at 0
          tasks,       \* commits that passed the fence and are not answered yet
          cons,        \* the GroupConsumers
          count,       \* the bounds: commits, faults and, among them, restarts so far
          delivered,   \* history: the offsets that polls returned
          late,        \* history: partitions with a commit applied after a rebalance
          overlap,     \* history: partitions that had two commits under way
          appliedGen   \* history: the generation of the commit last applied

broker == <<group, nextMember, offsetsLog, synced, cache, tasks>>
history == <<delivered, late, overlap, appliedGen>>
vars == <<broker, cons, count, history>>

Parts == UNION {{<<t, i>> : i \in 0 .. PartitionCount[t] - 1} : t \in Topics}

\* The map f with x bound to y (insert).
With(f, x, y) == [z \in {x} \cup DOMAIN f |-> IF z = x THEN y ELSE f[z]]

NoMember == 0
Members == DOMAIN group.members

------------------------------------------------------------------------------
(* The coordinator *)

\* Mutant of Share: the remainder is handed out without moving the others.
MutantShare(n, k, i) ==
    LET per == n \div k
        extra == n % k
    IN  i * per .. i * per + per - 1 + IF i < extra THEN 1 ELSE 0

\* The share of the i-th of k members in n partitions: per each, the remainder
\* to the front.
Share(n, k, i) ==
    LET per == n \div k
        extra == n % k
        first == i * per + Min({i, extra})
    IN  first .. first + per - 1 + IF i < extra THEN 1 ELSE 0

\* assign: range assignment, topic by topic, in member order.
Assign(members) ==
    [m \in DOMAIN members |->
        UNION {LET subscribed == {x \in DOMAIN members : t \in members[x]}
                   rank == Cardinality({x \in subscribed : x < m})
               IN  {<<t, i>> : i \in Share(PartitionCount[t], Cardinality(subscribed), rank)}
               : t \in members[m]}]

\* A membership change bumps the generation and reassigns.
Rebalanced(members) ==
    [generation |-> group.generation + 1, members |-> members, assignment |-> Assign(members)]

\* GroupCoordinator::join for member id m: a new or unknown member enters under
\* a fresh id, a known one gets the current state (its topics do not change).
Join(m, topics) ==
    IF m \in Members
    THEN UNCHANGED <<group, nextMember>>
    ELSE /\ group' = Rebalanced(With(group.members, nextMember, topics))
         /\ nextMember' = nextMember + 1

JoinedId(m) == IF m \in Members THEN m ELSE nextMember

\* Mutant of Evict: the assignment is left as it was.
MutantEvict(dead) ==
    group' = [group EXCEPT !.generation = @ + 1,
                           !.members = [m \in Members \ dead |-> group.members[m]]]

\* leave, expire
Evict(dead) == group' = Rebalanced([m \in Members \ dead |-> group.members[m]])

\* heartbeat
HeartbeatError(m, generation) ==
    IF m \notin Members THEN "UnknownMember"
    ELSE IF generation # group.generation THEN "StaleGeneration"
    ELSE "None"

\* Mutant of CheckCommit: the generation is not looked at.
MutantCheckCommit(m, generation) == IF m \notin Members THEN "UnknownMember" ELSE "None"

\* check_commit
CheckCommit(m, generation) == HeartbeatError(m, generation)

------------------------------------------------------------------------------
(* The offsets store *)

\* Mutant of Replay: the first record of a partition wins.
MutantReplay(log) ==
    [p \in Parts |->
        LET own == {i \in DOMAIN log : log[i].part = p}
        IN  IF own = {} THEN 0 ELSE log[Min(own)].offset]

\* OffsetsStore::open: the latest record of a partition wins.
Replay(log) ==
    [p \in Parts |->
        LET own == {i \in DOMAIN log : log[i].part = p}
        IN  IF own = {} THEN 0 ELSE log[Max(own)].offset]

\* A commit's task appends its record and waits for the durable ack ...
TaskAppend(t) ==
    /\ t.at = 0
    /\ offsetsLog' = Append(offsetsLog, [part |-> t.part, offset |-> t.offset])
    /\ tasks' = (tasks \ {t}) \cup {[t EXCEPT !.at = Len(offsetsLog) + 1]}
    /\ late' = late \cup IF t.checked = group.generation THEN {} ELSE {t.part}
    /\ UNCHANGED <<group, nextMember, synced, cache, cons, count, delivered, overlap, appliedGen>>

\* The consumer that waits for the answer of commit t.
Waits(c, t) == cons[c].phase = "committing" /\ cons[c].call = t.id

\* ... then it updates the cache and answers.
TaskAck(t) ==
    /\ t.at > 0
    /\ synced' = Max({synced, t.at})
    /\ cache' = [cache EXCEPT ![t.part] = t.offset]
    /\ tasks' = tasks \ {t}
    /\ cons' = [c \in Consumers |->
                   IF ~Waits(c, t) THEN cons[c]
                   ELSE IF cons[c].todo = {} THEN [cons[c] EXCEPT !.phase = "idle", !.call = 0]
                   ELSE [cons[c] EXCEPT !.call = 0]]
    /\ late' = late \cup IF t.checked = group.generation THEN {} ELSE {t.part}
    /\ appliedGen' = [appliedGen EXCEPT ![t.part] = t.gen]
    /\ UNCHANGED <<group, nextMember, offsetsLog, count, delivered, overlap>>

------------------------------------------------------------------------------
(* The group consumer *)

\* Not joined: no GroupConsumer exists.
Out == [phase |-> "out", member |-> NoMember, gen |-> 0, pos |-> <<>>,
        outcome |-> <<>>, got |-> <<>>, todo |-> {}, call |-> 0]

\* rejoin ends: assignment, generation and positions change together.
Installed(s, outcome, got) ==
    [s EXCEPT !.phase = "idle", !.member = outcome.member, !.gen = outcome.gen,
              !.pos = got, !.outcome = <<>>, !.got = <<>>, !.todo = {}, !.call = 0]

\* GroupConsumer::join, or the first call of a rejoin.
JoinGroup(c) ==
    /\ cons[c].phase \in {"out", "rejoin"}
    /\ cons[c].member \in Members \/ nextMember <= MaxMembers
    /\ Join(cons[c].member, Subscription[c])
    /\ LET id == JoinedId(cons[c].member)
           outcome == [member |-> id, gen |-> group'.generation, parts |-> group'.assignment[id]]
       IN  cons' = [cons EXCEPT ![c] =
                        IF outcome.parts = {} THEN Installed(@, outcome, <<>>)
                        ELSE [@ EXCEPT !.phase = "loading", !.outcome = outcome, !.got = <<>>]]
    /\ UNCHANGED <<offsetsLog, synced, cache, tasks, count, history>>

\* Mutant of StartAt: without a committed offset the partition's end is taken.
MutantStartAt(p) == IF cache[p] = 0 THEN LogEnd ELSE cache[p]

\* committed.unwrap_or(0)
StartAt(p) == cache[p]

\* The rejoin fetches the committed offset of one partition after the other.
LoadOffset(c) ==
    /\ cons[c].phase = "loading"
    /\ LET s == cons[c]
           p == CHOOSE x \in s.outcome.parts : x \notin DOMAIN s.got
           got == With(s.got, p, StartAt(p))
       IN  cons' = [cons EXCEPT ![c] =
                        IF DOMAIN got = s.outcome.parts THEN Installed(s, s.outcome, got)
                        ELSE [s EXCEPT !.got = got]]
    /\ UNCHANGED <<broker, count, history>>

\* Mutant of Behind: only an evicted consumer rejoins.
MutantBehind(c) == HeartbeatError(cons[c].member, cons[c].gen) = "UnknownMember"

Behind(c) == HeartbeatError(cons[c].member, cons[c].gen) # "None"

\* maybe_heartbeat, when its interval has passed and the answer is an error: the
\* consumer rejoins.  An answer without error changes nothing here.
Heartbeat(c) ==
    /\ cons[c].phase = "idle" /\ Behind(c)
    /\ cons' = [cons EXCEPT ![c].phase = "rejoin"]
    /\ UNCHANGED <<broker, count, history>>

\* poll fetches from one assigned partition and moves past what it returns.
Poll(c) ==
    /\ cons[c].phase = "idle"
    /\ \E p \in DOMAIN cons[c].pos : \E next \in cons[c].pos[p] + 1 .. LogEnd :
           /\ delivered' = [delivered EXCEPT ![p] = @ \cup (cons[c].pos[p] .. next - 1)]
           /\ cons' = [cons EXCEPT ![c].pos[p] = next]
    /\ UNCHANGED <<broker, count, late, overlap, appliedGen>>

\* commit walks over the positions.
StartCommit(c) ==
    /\ cons[c].phase = "idle" /\ DOMAIN cons[c].pos # {}
    /\ count.commits < MaxCommits
    /\ cons' = [cons EXCEPT ![c].phase = "committing", ![c].todo = DOMAIN cons[c].pos]
    /\ UNCHANGED <<broker, count, history>>

\* The next CommitOffset arrives: dispatch checks the fence, and starts the task
\* or refuses; a refused consumer rejoins.
CommitOffset(c) ==
    /\ cons[c].phase = "committing" /\ cons[c].call = 0
    /\ \E p \in cons[c].todo :
        \/ /\ CheckCommit(cons[c].member, cons[c].gen) = "None"
           /\ count.commits < MaxCommits
           /\ count' = [count EXCEPT !.commits = @ + 1]
           /\ tasks' = tasks \cup {[id |-> count'.commits, part |-> p, gen |-> cons[c].gen,
                                    checked |-> group.generation,
                                    offset |-> cons[c].pos[p], at |-> 0]}
           /\ cons' = [cons EXCEPT ![c].call = count'.commits, ![c].todo = @ \ {p}]
           /\ overlap' = overlap \cup {t.part : t \in {x \in tasks : x.part = p}}
        \/ /\ CheckCommit(cons[c].member, cons[c].gen) # "None"
           /\ cons' = [cons EXCEPT ![c].phase = "rejoin", ![c].todo = {}]
           /\ UNCHANGED <<tasks, count, overlap>>
    /\ UNCHANGED <<group, nextMember, offsetsLog, synced, cache, delivered, late, appliedGen>>

\* A LeaveGroup request: the member goes, and with it the consumer.
Leave(c) ==
    /\ cons[c].phase = "idle" /\ cons[c].member \in Members
    /\ count.faults < MaxFaults
    /\ count' = [count EXCEPT !.faults = @ + 1]
    /\ Evict({cons[c].member})
    /\ cons' = [cons EXCEPT ![c] = Out]
    /\ UNCHANGED <<nextMember, offsetsLog, synced, cache, tasks, history>>

------------------------------------------------------------------------------
(* Faults *)

\* The application drops a call half way; the consumer is as it was before it.
Cancel(c) ==
    /\ cons[c].phase \in {"rejoin", "loading", "committing"}
    /\ count.faults < MaxFaults
    /\ count' = [count EXCEPT !.faults = @ + 1]
    /\ cons' = [cons EXCEPT ![c] =
                    IF @.member = NoMember THEN Out
                    ELSE [@ EXCEPT !.phase = "idle", !.outcome = <<>>, !.got = <<>>,
                                   !.todo = {}, !.call = 0]]
    /\ UNCHANGED <<broker, history>>

\* The consumer's process dies without a LeaveGroup.
Die(c) ==
    /\ cons[c].phase # "out"
    /\ count.faults < MaxFaults
    /\ count' = [count EXCEPT !.faults = @ + 1]
    /\ cons' = [cons EXCEPT ![c] = Out]
    /\ UNCHANGED <<broker, history>>

\* Members no consumer knows itself to be.
Ghosts ==
    Members \ UNION {{cons[c].member} \cup
                     (IF cons[c].phase = "loading" THEN {cons[c].outcome.member} ELSE {})
                     : c \in Consumers}

\* expire, run every 200 ms: members that nobody heartbeats for are evicted ...
ExpireGhosts ==
    /\ Ghosts # {}
    /\ Evict(Ghosts)
    /\ UNCHANGED <<nextMember, offsetsLog, synced, cache, tasks, cons, count, history>>

\* ... and so are members whose consumers are slow.
ExpireSlow ==
    /\ count.faults < MaxFaults
    /\ count' = [count EXCEPT !.faults = @ + 1]
    /\ \E slow \in SUBSET Members \ {{}} : Evict(slow)
    /\ UNCHANGED <<nextMember, offsetsLog, synced, cache, tasks, cons, history>>

\* The broker crashes and starts again: the groups are gone, the offsets come
\* from the log, and every consumer has lost its connection for good.
Restart ==
    /\ count.faults < MaxFaults
    /\ count' = [count EXCEPT !.faults = @ + 1, !.restarts = @ + 1]
    /\ \E n \in synced .. Len(offsetsLog) :
           /\ offsetsLog' = SubSeq(offsetsLog, 1, n)
           /\ synced' = n
           /\ cache' = Replay(offsetsLog')
    /\ group' = [generation |-> 0, members |-> <<>>, assignment |-> <<>>]
    /\ nextMember' = 1
    /\ tasks' = {}
    /\ cons' = [c \in Consumers |-> Out]
    /\ appliedGen' = [p \in Parts |-> 0]
    /\ overlap' = {} /\ late' = {}
    /\ UNCHANGED delivered

------------------------------------------------------------------------------

Init ==
    /\ group = [generation |-> 0, members |-> <<>>, assignment |-> <<>>]
    /\ nextMember = 1
    /\ offsetsLog = <<>> /\ synced = 0
    /\ cache = [p \in Parts |-> 0]
    /\ tasks = {}
    /\ cons = [c \in Consumers |-> Out]
    /\ count = [commits |-> 0, faults |-> 0, restarts |-> 0]
    /\ delivered = [p \in Parts |-> {}]
    /\ late = {} /\ overlap = {}
    /\ appliedGen = [p \in Parts |-> 0]

Next ==
    \/ \E c \in Consumers :
           \/ JoinGroup(c) \/ LoadOffset(c) \/ Heartbeat(c) \/ Poll(c)
           \/ StartCommit(c) \/ CommitOffset(c) \/ Leave(c)
           \/ Cancel(c) \/ Die(c)
    \/ \E t \in tasks : TaskAppend(t) \/ TaskAck(t)
    \/ ExpireGhosts \/ ExpireSlow \/ Restart

\* Steps that happen without being asked for: the calls of a consumer that keeps
\* polling, the commit tasks, the expiry sweep.
Fairness ==
    /\ \A c \in Consumers :
           /\ WF_vars(cons[c].phase = "rejoin" /\ JoinGroup(c))
           /\ WF_vars(LoadOffset(c) \/ Heartbeat(c) \/ CommitOffset(c))
    /\ WF_vars(\E t \in tasks : TaskAppend(t) \/ TaskAck(t))
    /\ WF_vars(ExpireGhosts)

Spec == Init /\ [][Next]_vars /\ Fairness

------------------------------------------------------------------------------
(* Properties *)

\* Types of the state: the assignment is always the one of the current members.
TypeOK ==
    /\ group.generation \in Nat
    /\ Members \subseteq 1 .. MaxMembers
    /\ DOMAIN group.assignment = Members
    /\ synced \in 0 .. Len(offsetsLog)
    /\ cache \in [Parts -> 0 .. LogEnd]
    /\ \A t \in tasks : t.part \in Parts /\ t.offset \in 0 .. LogEnd
    /\ \A c \in Consumers :
           /\ cons[c].phase \in {"out", "idle", "rejoin", "loading", "committing"}
           /\ DOMAIN cons[c].pos \subseteq Parts

\* Every partition of a subscribed topic has exactly one owner, and consumers
\* that work in the same generation never share one, whatever was lost, expired
\* or cancelled on the way (assign; the generation check of the fence).
OneOwner ==
    /\ \A t \in Topics : (\E m \in Members : t \in group.members[m]) =>
           \A i \in 0 .. PartitionCount[t] - 1 :
               Cardinality({m \in Members : <<t, i>> \in group.assignment[m]}) = 1
    /\ \A c, d \in Consumers :
           c # d /\ cons[c].gen = cons[d].gen => DOMAIN cons[c].pos \cap DOMAIN cons[d].pos = {}

\* At least once: every record below a committed offset, cached or in the log,
\* was returned by some poll, through rebalances, zombies and broker crashes
\* (positions start at committed offsets; commit sends positions).
CommittedWasDelivered ==
    /\ \A p \in Parts : 0 .. cache[p] - 1 \subseteq delivered[p]
    /\ \A i \in DOMAIN offsetsLog :
           0 .. offsetsLog[i].offset - 1 \subseteq delivered[offsetsLog[i].part]

\* A broker restart does not move a committed offset that the broker has served:
\* with no commit under way the cache is what a replay of the stable part of the
\* log gives, unless two commits of the partition were under way at once (their
\* appends and their cache updates need not come in the same order).
RestartKeepsOffsets ==
    \A p \in Parts \ overlap :
        (\A t \in tasks : t.part # p) => Replay(SubSeq(offsetsLog, 1, synced))[p] = cache[p]

\* Committed offsets do not go backwards as long as no commit is applied after a
\* rebalance that came behind its fence check, and no two commits of the
\* partition overlap (dispatch's CommitOffset, OffsetsStore::commit).
OffsetsAdvance ==
    [][\A p \in Parts :
           p \notin late' \cup overlap' /\ count'.restarts = count.restarts
               => cache'[p] >= cache[p]]_vars

\* PLAN.md: "a zombie kicked out by a rebalance cannot clobber offsets of its
\* successor": a commit of a newer generation is not replaced by an older one's.
ZombieCannotClobber ==
    [][\A p \in Parts :
           count'.restarts = count.restarts => appliedGen'[p] >= appliedGen[p]]_vars

\* When faults cease, the group settles: its members are the running consumers,
\* all in the current generation (heartbeat and rejoin, expire).
Settles ==
    <>[](/\ \A c \in Consumers : cons[c].phase \notin {"out", "rejoin", "loading"} =>
                cons[c].gen = group.generation /\ cons[c].member \in Members
         /\ Ghosts = {})

====================
