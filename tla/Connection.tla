------------------------------ MODULE Connection ------------------------------
(***************************************************************************)
(* One connection between a client and a broker: the client's Connection   *)
(* (src/client/mod.rs), the broker's serve_connection, dispatch and fetch  *)
(* handlers (src/broker/mod.rs) in standalone mode, and what they do to    *)
(* the broker's topics, logs and committed offsets.                        *)
(*                                                                         *)
(* Requests travel as frames: the codec is a parameter, given by Wire.     *)
(* Calls are numbered in the order they take a correlation id.  A frame    *)
(* queue stands for a task's outgoing channel and the socket behind it;    *)
(* when the network is cut each queue keeps a prefix, the rest is lost.    *)
(* The partition threads answer in the order of their channels, so an      *)
(* append takes effect when dispatch enqueues it (PartitionThread has the  *)
(* thread itself); what is awaited afterwards is a task here too.          *)
(***************************************************************************)
EXTENDS Integers, Sequences, FiniteSets

CONSTANTS Requests,        \* the requests the first, second, ... call may be for
          MaxFaults,       \* bound on faults: a lost connection, a broker that stops
          CorrModulus,     \* 2^32 in the code: correlation ids wrap
          InitTopics,      \* topics found in the data directory: name -> partitions
          Records,         \* what producers send: a key and a value
          MaxRecordBytes,  \* LogConfig.max_record_bytes
          ClientAddr,      \* the broker's advertised address
          PeerAnswers(_),  \* the answers of a coordinator, leader or controller that
                           \* other modules describe: Groups, Replication, Controller
          PutRequest(_, _), GetRequest(_), PutResponse(_, _), GetResponse(_), Fits(_)

ASSUME ConnectionAssumption ==
    /\ {MaxFaults, MaxRecordBytes, CorrModulus, Len(Requests)} \subseteq Nat
    /\ CorrModulus > Len(Requests)
    /\ \A i \in 1 .. Len(Requests) : \A req \in Requests[i] :
          /\ req.type \notin {"Pending", "Closed", "Unanswered"}
          /\ req.type \in {"CreateTopic", "Metadata", "Produce", "Fetch", "FetchOffset"}
             \/ \A resp \in PeerAnswers(req) : resp.type = req.type
          /\ req.type = "CreateTopic" => req.partitions \in Nat
          /\ req.type \in {"Produce", "Fetch"} => req.partition \in Nat
          /\ req.type = "Produce" => req.records \in Seq(Records)
          /\ req.type = "Fetch" => req.offset \in Nat
    /\ \A t \in DOMAIN InitTopics : InitTopics[t] \in Nat
    /\ \A r \in Records : Len(r.value) \in Nat

MaxCalls == Len(Requests)

VARIABLES calls,     \* call -> its request, whether it is written, its result
          waiters,   \* Pending.map: correlation id -> call
          closed,    \* Pending.closed
          writerUp,  \* the client's writer task is running
          dropped,   \* every clone of the Connection is gone
          up, down,  \* frames on their way to the broker, and back
          cut,       \* the network connection is lost
          session,   \* the broker's serve_connection: "loop", "draining", "gone"
          stopping,  \* the broker's shutdown watch
          tasks,     \* spawned reply tasks
          topics,    \* Shared.topics: name -> the partitions' logs
          committed, \* OffsetsStore: <<group, topic, partition>> -> offset
          sent,      \* history: calls in the order of their frames
          handled    \* history: correlation id -> what the broker answered

clientVars == <<calls, waiters, closed, writerUp, dropped, sent>>
brokerVars == <<session, stopping, tasks, topics, committed, handled>>
vars == <<clientVars, brokerVars, up, down, cut>>

Corr(k) == k % CorrModulus

\* HashMap::insert and ::remove.
With(f, x, y) == [z \in DOMAIN f \cup {x} |-> IF z = x THEN y ELSE f[z]]
Without(f, x) == [z \in DOMAIN f \ {x} |-> f[z]]

\* The results of a call beside a response.
Pending == [type |-> "Pending"]
Closed == [type |-> "Closed"]          \* ClientError::Closed
Unanswered == [type |-> "Unanswered"]  \* acks=0: sent, nothing to wait for

FireAndForget(req) == req.type = "Produce" /\ req.acks = "None"

\* What the methods of Connection make of the result: create_topic_replicated,
\* metadata, produce_with_epoch, fetch, commit_offset_fenced, fetch_offset.
Outcome(k) ==
    LET result == calls[k].result
    IN  IF result \in {Pending, Closed, Unanswered} THEN result.type
        ELSE IF result.type # calls[k].req.type THEN "UnexpectedResponse"
        ELSE IF result.error = "None" THEN "Ok" ELSE "Broker"

Faults == (IF cut THEN 1 ELSE 0) + (IF stopping THEN 1 ELSE 0)
Returned(k) == calls[k].written /\ calls[k].result # Pending

------------------------------------------------------------------------------
(* The client *)

\* Mutant of CallStart: the flag that is set when the reader exits is not read.
MutantCallStart(req) ==
    LET k == Len(calls) + 1
    IN  /\ ~dropped /\ ~FireAndForget(req)
        /\ calls' = Append(calls, [req |-> req, written |-> FALSE, result |-> Pending])
        /\ waiters' = With(waiters, Corr(k), k)
        /\ UNCHANGED <<closed, writerUp, dropped, sent, brokerVars, up, down, cut>>

\* call_start up to the insert: the correlation id is taken, then, under one lock,
\* the flag is read and the waiter parked.
CallStart(req) ==
    LET k == Len(calls) + 1
        call == [req |-> req, written |-> closed, result |-> IF closed THEN Closed ELSE Pending]
    IN  /\ ~dropped /\ ~FireAndForget(req)
        /\ calls' = Append(calls, call)
        /\ waiters' = IF closed THEN waiters ELSE With(waiters, Corr(k), k)
        /\ UNCHANGED <<closed, writerUp, dropped, sent, brokerVars, up, down, cut>>

\* What tx.send puts on its way: after a cut it is lost in the writer task or the socket.
Push(k, req) == up' = IF cut THEN up ELSE Append(up, PutRequest(req, Corr(k)))

\* Mutant of CallSend: the waiter of a request that is not sent stays.
MutantCallSend(k) ==
    /\ ~calls[k].written
    /\ calls' = [calls EXCEPT ![k].written = TRUE, ![k].result = IF writerUp THEN @ ELSE Closed]
    /\ IF writerUp THEN sent' = Append(sent, k) /\ Push(k, calls[k].req)
                   ELSE UNCHANGED <<sent, up>>
    /\ UNCHANGED <<waiters, closed, writerUp, dropped, brokerVars, down, cut>>

\* The rest of call_start: encode and queue the frame; if the writer task is gone,
\* take the waiter back.
CallSend(k) ==
    /\ ~calls[k].written
    /\ IF writerUp
       THEN /\ calls' = [calls EXCEPT ![k].written = TRUE]
            /\ sent' = Append(sent, k)
            /\ Push(k, calls[k].req)
            /\ UNCHANGED waiters
       ELSE /\ calls' = [calls EXCEPT ![k].written = TRUE, ![k].result = Closed]
            /\ waiters' = Without(waiters, Corr(k))
            /\ UNCHANGED <<sent, up>>
    /\ UNCHANGED <<closed, writerUp, dropped, brokerVars, down, cut>>

\* send_only: a correlation id, a frame, no waiter.
SendOnly(req) ==
    LET k == Len(calls) + 1
    IN  /\ ~dropped /\ FireAndForget(req)
        /\ calls' = Append(calls, [req |-> req, written |-> TRUE,
                                   result |-> IF writerUp THEN Unanswered ELSE Closed])
        /\ IF writerUp THEN sent' = Append(sent, k) /\ Push(k, req)
                       ELSE UNCHANGED <<sent, up>>
        /\ UNCHANGED <<waiters, closed, writerUp, dropped, brokerVars, down, cut>>

\* The writer task ends on a write error: the network is cut, or the broker has closed
\* the socket.
WriterFails ==
    /\ cut \/ session = "gone"
    /\ writerUp
    /\ writerUp' = FALSE
    /\ UNCHANGED <<calls, waiters, closed, dropped, sent, brokerVars, up, down, cut>>

\* The reader task ends: the flag is set and every parked waiter dropped, under one lock.
ReaderExits ==
    /\ closed' = TRUE
    /\ waiters' = <<>>
    /\ calls' = [k \in DOMAIN calls |->
                   IF \E c \in DOMAIN waiters : waiters[c] = k
                   THEN [calls[k] EXCEPT !.result = Closed] ELSE calls[k]]

\* The reader task takes a frame: the response goes to the waiter of its id, if there
\* still is one; what cannot be read ends the task.
ReceiveResponse ==
    /\ ~closed /\ down # <<>>
    /\ down' = Tail(down)
    /\ \E got \in {GetResponse(Head(down))} :
           IF ~Fits(Head(down)) \/ ~got.ok THEN ReaderExits
           ELSE /\ calls' = IF got.corr \in DOMAIN waiters
                            THEN [calls EXCEPT ![waiters[got.corr]].result = got.msg]
                            ELSE calls
                /\ waiters' = Without(waiters, got.corr)
                /\ UNCHANGED closed
    /\ UNCHANGED <<writerUp, dropped, sent, brokerVars, up, cut>>

\* read_frame returns None or an error.
ReadEnds ==
    /\ ~closed /\ down = <<>>
    /\ cut \/ session = "gone"
    /\ ReaderExits
    /\ UNCHANGED <<writerUp, dropped, sent, brokerVars, up, down, cut>>

\* The last clone goes out of scope: the writer task drains its queue and shuts the
\* socket's sending side down.
DropConnection ==
    /\ ~dropped
    /\ \A k \in DOMAIN calls : Returned(k)
    /\ dropped' = TRUE
    /\ UNCHANGED <<calls, waiters, closed, writerUp, sent, brokerVars, up, down, cut>>

\* The network loses the connection, and with it a suffix of either direction.
Cut ==
    /\ ~cut /\ Faults < MaxFaults
    /\ cut' = TRUE
    /\ \E i \in 0 .. Len(up), j \in 0 .. Len(down) :
          up' = SubSeq(up, 1, i) /\ down' = SubSeq(down, 1, j)
    /\ UNCHANGED <<clientVars, brokerVars>>

------------------------------------------------------------------------------
(* The broker *)

\* respond: the frame is queued for the session's writer task; when the connection is
\* lost it goes nowhere.
Respond(corr, resp) ==
    /\ down' = IF cut THEN down ELSE Append(down, PutResponse(resp, corr))
    /\ handled' = [handled EXCEPT ![corr].answer = resp]

Partition(topic, p) == topic \in DOMAIN topics /\ p < Len(topics[topic])
LogOf(topic, p) == topics[topic][p + 1]

\* create_topic, and what dispatch checks before it.
CreateError(req) ==
    IF req.replication_factor > 1 \/ req.topic = <<>> \/ req.partitions = 0 THEN "Malformed"
    ELSE IF req.topic \in DOMAIN topics THEN "TopicExists" ELSE "None"

DispatchCreate(req, corr) ==
    LET error == CreateError(req)
    IN  /\ topics' = IF error # "None" THEN topics
                     ELSE With(topics, req.topic, [p \in 1 .. req.partitions |-> <<>>])
        /\ Respond(corr, [type |-> "CreateTopic", error |-> error])
        /\ UNCHANGED <<tasks, committed>>

\* metadata(): broker 0 leads everything at epoch 0.
TopicMeta(name) ==
    [name |-> name,
     partitions |-> [p \in 1 .. Len(topics[name]) |->
         [partition |-> p - 1, leader |-> 0, leader_epoch |-> 0, replicas |-> <<0>>,
          isr |-> <<0>>]]]

Sorted(names) ==
    CHOOSE s \in [1 .. Cardinality(names) -> names] :
        \A i, j \in DOMAIN s : i < j => s[i][1] < s[j][1]

Metadata ==
    LET names == Sorted(DOMAIN topics)
        self == <<[id |-> 0, addr |-> ClientAddr]>>
    IN  [version |-> 0, brokers |-> self, peers |-> self,
         topics |-> [i \in DOMAIN names |-> TopicMeta(names[i])]]

DispatchMetadata(req, corr) ==
    /\ Respond(corr, [type |-> "Metadata", error |-> "None", cluster |-> Metadata])
    /\ UNCHANGED <<tasks, topics, committed>>

\* A spawned task that will answer corr, now or after reading the log.
Task(corr, phase, req, resp) == [corr |-> corr, phase |-> phase, req |-> req, resp |-> resp]

\* Cmd::Append takes the records up to the first that is too large.
Accepted(records) ==
    LET bad == {i \in DOMAIN records : Len(records[i].value) > MaxRecordBytes}
    IN  IF bad = {} THEN records
        ELSE SubSeq(records, 1, (CHOOSE i \in bad : \A j \in bad : i <= j) - 1)

Produced(error, base, count) ==
    [type |-> "Produce", error |-> error, base_offset |-> base, count |-> count]

\* Mutant of AppendAnswer: a batch that was cut short is reported as appended.
MutantAppendAnswer(req) ==
    Produced("None", Len(LogOf(req.topic, req.partition)), Len(req.records))

AppendAnswer(req) ==
    IF Accepted(req.records) = req.records
    THEN Produced("None", Len(LogOf(req.topic, req.partition)), Len(req.records))
    ELSE Produced("Malformed", 0, 0)

ProduceError(req) ==
    IF req.leader_epoch # 0 THEN "FencedEpoch"
    ELSE IF ~Partition(req.topic, req.partition) THEN "UnknownTopicOrPartition" ELSE "None"

AppendBatch(req) ==
    topics' = [topics EXCEPT ![req.topic][req.partition + 1] = @ \o Accepted(req.records)]

\* Produce: the batch is enqueued here, in the connection's own order; only the reply
\* is awaited elsewhere.  acks=0 is never answered.
DispatchProduce(req, corr) ==
    IF ProduceError(req) # "None"
    THEN /\ IF req.acks = "None" THEN UNCHANGED <<down, handled>>
            ELSE Respond(corr, Produced(ProduceError(req), 0, 0))
         /\ UNCHANGED <<tasks, topics, committed>>
    ELSE /\ AppendBatch(req)
         /\ tasks' = IF req.acks = "None" THEN tasks
                     ELSE tasks \cup {Task(corr, "reply", req, AppendAnswer(req))}
         /\ UNCHANGED <<committed, down, handled>>

Fetched(error, next, records) ==
    [type |-> "Fetch", error |-> error, log_start |-> 0, next_offset |-> next,
     records |-> records]

DispatchFetch(req, corr) ==
    /\ IF Partition(req.topic, req.partition)
       THEN /\ tasks' = tasks \cup {Task(corr, "read", req, Pending)}
            /\ UNCHANGED <<down, handled>>
       ELSE /\ Respond(corr, Fetched("UnknownTopicOrPartition", 0, <<>>))
            /\ UNCHANGED tasks
    /\ UNCHANGED <<topics, committed>>

\* CommitOffset: an unfenced commit, or one the coordinator lets pass, is applied in a
\* task; the others are refused at once.
DispatchCommit(req, corr) ==
    /\ \/ /\ tasks' = tasks \cup {Task(corr, "commit", req, [type |-> "CommitOffset", error |-> "None"])}
          /\ UNCHANGED <<down, handled>>
       \/ /\ req.member_id # <<>>
          /\ \E resp \in PeerAnswers(req) : Respond(corr, resp)
          /\ UNCHANGED tasks
    /\ UNCHANGED <<topics, committed>>

DispatchFetchOffset(req, corr) ==
    LET key == <<req.group, req.topic, req.partition>>
        offset == IF key \in DOMAIN committed THEN committed[key] ELSE -1
    IN  /\ Respond(corr, [type |-> "FetchOffset", error |-> "None", offset |-> offset])
        /\ UNCHANGED <<tasks, topics, committed>>

\* Group membership, replication and controller requests: answered at once.
DispatchOther(req, corr) ==
    /\ \E resp \in PeerAnswers(req) : Respond(corr, resp)
    /\ UNCHANGED <<tasks, topics, committed>>

Dispatch(req, corr) ==
    CASE req.type = "CreateTopic" -> DispatchCreate(req, corr)
      [] req.type = "Metadata" -> DispatchMetadata(req, corr)
      [] req.type = "Produce" -> DispatchProduce(req, corr)
      [] req.type = "Fetch" -> DispatchFetch(req, corr)
      [] req.type = "CommitOffset" -> DispatchCommit(req, corr)
      [] req.type = "FetchOffset" -> DispatchFetchOffset(req, corr)
      [] OTHER -> DispatchOther(req, corr)

\* One turn of the session's loop.
ServeFrame ==
    /\ session = "loop" /\ up # <<>>
    /\ up' = Tail(up)
    /\ \E got \in {GetRequest(Head(up))} :
           IF ~Fits(Head(up)) \/ ~got.ok
           THEN /\ session' = "draining"
                /\ UNCHANGED <<tasks, topics, committed, handled, down>>
           ELSE /\ UNCHANGED session
                /\ Dispatch(got.msg, got.corr)
    /\ UNCHANGED <<clientVars, stopping, cut>>

\* The loop ends: end of the stream, a read error, or shutdown.
LoopEnds ==
    /\ session = "loop"
    /\ stopping \/ (up = <<>> /\ (cut \/ dropped))
    /\ session' = "draining"
    /\ UNCHANGED <<clientVars, stopping, tasks, topics, committed, handled, up, down, cut>>

\* The writer task ends once no task holds a sender, and the socket is closed.
SessionEnds ==
    /\ session = "draining" /\ tasks = {}
    /\ session' = "gone"
    /\ UNCHANGED <<clientVars, stopping, tasks, topics, committed, handled, up, down, cut>>

Shutdown ==
    /\ ~stopping /\ Faults < MaxFaults
    /\ stopping' = TRUE
    /\ UNCHANGED <<clientVars, session, tasks, topics, committed, handled, up, down, cut>>

\* An append, a commit or a read is answered.
Reply(t, resp) ==
    /\ tasks' = tasks \ {t}
    /\ Respond(t.corr, resp)

ReplyReady(t) ==
    /\ t.phase = "reply"
    /\ Reply(t, t.resp)
    /\ UNCHANGED <<topics, committed>>

CommitApplies(t) ==
    /\ t.phase = "commit"
    /\ committed' = With(committed, <<t.req.group, t.req.topic, t.req.partition>>, t.req.offset)
    /\ Reply(t, t.resp)
    /\ UNCHANGED topics

FetchedRecord(log, i) ==
    [offset |-> i - 1, timestamp_ms |-> 0, key |-> log[i].key, value |-> log[i].value]

\* handle_fetch, one turn of its loop: records, or an error, end it; an empty read
\* does unless there is time left to wait.  max_bytes lets at least one record pass.
FetchReads(t) ==
    LET log == LogOf(t.req.topic, t.req.partition)
        from == t.req.offset
        empty == Fetched("None", Len(log), <<>>)
    IN  /\ t.phase = "read"
        /\ \/ /\ from > Len(log)
              /\ Reply(t, Fetched("OffsetOutOfRange", 0, <<>>))
           \/ /\ from < Len(log)
              /\ \E n \in 1 .. Len(log) - from :
                    Reply(t, Fetched("None", Len(log), [i \in 1 .. n |-> FetchedRecord(log, from + i)]))
           \/ /\ from = Len(log) /\ t.req.max_wait_ms = 0
              /\ Reply(t, empty)
           \/ /\ from = Len(log) /\ t.req.max_wait_ms > 0
              /\ tasks' = (tasks \ {t}) \cup {[t EXCEPT !.phase = "wait", !.resp = empty]}
              /\ UNCHANGED <<down, handled>>
        /\ UNCHANGED <<topics, committed>>

\* The end offset passes the position: read again.  The deadline passes: answer with
\* the empty read.
FetchWakes(t) ==
    /\ t.phase = "wait"
    /\ Len(LogOf(t.req.topic, t.req.partition)) > t.req.offset
    /\ tasks' = (tasks \ {t}) \cup {[t EXCEPT !.phase = "read", !.resp = Pending]}
    /\ UNCHANGED <<down, handled, topics, committed>>

FetchTimesOut(t) ==
    /\ t.phase = "wait"
    /\ Reply(t, t.resp)
    /\ UNCHANGED <<topics, committed>>

TaskStep(t) ==
    /\ ReplyReady(t) \/ CommitApplies(t) \/ FetchReads(t) \/ FetchWakes(t) \/ FetchTimesOut(t)
    /\ UNCHANGED <<clientVars, session, stopping, up, cut>>

------------------------------------------------------------------------------

Init ==
    /\ calls = <<>> /\ waiters = <<>> /\ sent = <<>>
    /\ closed = FALSE /\ dropped = FALSE /\ cut = FALSE /\ stopping = FALSE /\ writerUp = TRUE
    /\ up = <<>> /\ down = <<>>
    /\ session = "loop" /\ tasks = {}
    /\ topics = [t \in DOMAIN InitTopics |-> [p \in 1 .. InitTopics[t] |-> <<>>]]
    /\ committed = <<>>
    /\ handled = [c \in {Corr(k) : k \in 1 .. MaxCalls} |-> [answer |-> Pending]]

ClientStep ==
    \/ /\ Len(calls) < MaxCalls
       /\ \E req \in Requests[Len(calls) + 1] : CallStart(req) \/ SendOnly(req)
    \/ \E k \in DOMAIN calls : CallSend(k)
    \/ ReceiveResponse \/ ReadEnds \/ WriterFails \/ DropConnection

BrokerStep ==
    ServeFrame \/ LoopEnds \/ SessionEnds \/ Shutdown \/ \E t \in tasks : TaskStep(t)

Next == ClientStep \/ BrokerStep \/ Cut

\* Every task of either runtime gets to run, and a connection that is lost is noticed:
\* a read on it fails.  Nobody has to make calls, drop the connection or stop the broker.
Fairness ==
    /\ WF_vars(\E k \in DOMAIN calls : CallSend(k))
    /\ WF_vars(ReceiveResponse \/ ReadEnds)
    /\ WF_vars(ServeFrame \/ LoopEnds) /\ WF_vars(SessionEnds)
    /\ WF_vars(\E t \in tasks : TaskStep(t))

Spec == Init /\ [][Next]_vars
FairSpec == Spec /\ Fairness

------------------------------------------------------------------------------
(* Properties *)

TaskPhases == {"reply", "commit", "read", "wait"}

\* Waiters belong to calls that have not returned; the broker's task table holds one task per request it has read.
TypeOK ==
    /\ \A k \in DOMAIN calls : calls[k].written \in BOOLEAN
    /\ \A c \in DOMAIN waiters : /\ waiters[c] \in DOMAIN calls
                                 /\ Corr(waiters[c]) = c
                                 /\ calls[waiters[c]].result = Pending
    /\ session \in {"loop", "draining", "gone"}
    /\ session = "gone" => tasks = {}
    /\ \A t, u \in tasks : t.phase \in TaskPhases /\ (t.corr = u.corr => t = u)
    /\ \A k \in DOMAIN sent : sent[k] \in DOMAIN calls

\* A response that reaches a caller is, field for field, the one the broker gave to
\* the request this caller made, whatever overtook what.
AnswersReachTheirCallers ==
    \A k \in DOMAIN calls :
        /\ Outcome(k) # "UnexpectedResponse"
        /\ Outcome(k) \in {"Ok", "Broker"} => handled[Corr(k)].answer = calls[k].result

\* What a call appends to a partition the broker has.
BatchFor(k, topic, p) ==
    LET req == calls[k].req
    IN  IF /\ req.type = "Produce" /\ req.leader_epoch = 0
           /\ req.topic = topic /\ req.partition = p
        THEN Accepted(req.records) ELSE <<>>

\* What all the calls that were sent append to it, in their order.
SentTo(topic, p) ==
    LET Upto[i \in 0 .. Len(sent)] ==
            IF i = 0 THEN <<>> ELSE Upto[i - 1] \o BatchFor(sent[i], topic, p)
    IN  Upto[Len(sent)]

\* Requests arrive as they were made and in order: what a partition holds is a prefix
\* of what was sent to it, even when none of the answers is awaited.
PipelinedInOrder ==
    \A t \in DOMAIN InitTopics : \A p \in 0 .. InitTopics[t] - 1 :
        /\ Len(LogOf(t, p)) <= Len(SentTo(t, p))
        /\ LogOf(t, p) = SubSeq(SentTo(t, p), 1, Len(LogOf(t, p)))

\* The records are in the log from the offset the producer is given.
AppendedThere(req, resp) ==
    LET log == LogOf(req.topic, req.partition)
    IN  /\ resp.base_offset + Len(req.records) <= Len(log)
        /\ \A i \in DOMAIN req.records : log[resp.base_offset + i] = req.records[i]

\* The records are those of the log from the offset the consumer asked for.
FetchedThere(req, resp) ==
    LET log == LogOf(req.topic, req.partition)
    IN  /\ req.offset + Len(resp.records) <= Len(log)
        /\ \A i \in DOMAIN resp.records :
              /\ resp.records[i].offset = req.offset + i - 1
              /\ resp.records[i].key = log[req.offset + i].key
              /\ resp.records[i].value = log[req.offset + i].value

TrueAnswer(req, resp) ==
    /\ req.type = "Produce" => AppendedThere(req, resp)
    /\ req.type = "Fetch" => FetchedThere(req, resp)

\* The offsets a producer is given are where its records are, and a consumer is given
\* the records of the offsets it asked for.  (An error is no promise that nothing was
\* appended: a batch is cut at its first record that is too large.)
AnswersAreTrue ==
    \A k \in DOMAIN calls : Outcome(k) = "Ok" => TrueAnswer(calls[k].req, calls[k].result)

\* A frame over the limit, either way.
FrameTooLarge ==
    \/ \E i \in DOMAIN sent : ~Fits(PutRequest(calls[sent[i]].req, Corr(sent[i])))
    \/ \E c \in DOMAIN handled : /\ handled[c].answer # Pending
                                /\ ~Fits(PutResponse(handled[c].answer, c))

\* A call fails with Closed only for a reason outside it: the network, a broker that
\* stops, or a frame over the limit, which takes every other call down with it.
ClosedForAReason ==
    (\E k \in DOMAIN calls : calls[k].result = Closed) => cut \/ stopping \/ FrameTooLarge

\* No caller waits for ever: each call is answered or fails.
EveryCallReturns == \A k \in 1 .. MaxCalls : (k \in DOMAIN calls) ~> (k \in DOMAIN calls /\ Returned(k))
====================
