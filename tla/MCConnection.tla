----------------------------- MODULE MCConnection -----------------------------
(* One connection over the real codec; every message type is called.         *)
EXTENDS Connection, Wire, TLC

T == <<116>>
U == <<117>>
G == <<103, 49>>
M == <<109>>
Addr == <<97, 58>>
PeerAddr == <<98>>

Rec(key, value) == [key |-> key, value |-> value]
MCRecords ==
    {Rec(<<7>>, <<1>>), Rec(Null, <<2>>), Rec(<<>>, <<3>>), Rec(Null, <<4, 4, 4>>),
     Rec(Null, <<5>>), Rec(Null, [i \in 1 .. 256 |-> 6])}

Batch(acks, epoch, records) ==
    [type |-> "Produce", topic |-> T, partition |-> 1, acks |-> acks,
     leader_epoch |-> epoch, records |-> records]
FetchAt(partition, offset, wait) ==
    [type |-> "Fetch", topic |-> T, partition |-> partition, offset |-> offset,
     max_bytes |-> 70000, max_wait_ms |-> wait]
Commit(offset, member) ==
    [type |-> "CommitOffset", group |-> G, topic |-> T, partition |-> 1,
     offset |-> offset, member_id |-> member, generation |-> 3]
Create(topic, rf) ==
    [type |-> "CreateTopic", topic |-> topic, partitions |-> 1, replication_factor |-> rf]

MCInitTopics == T :> 2

\* Requests whose answers this module computes, and those that others describe.
LocalRequests ==
    {Create(U, 1), Create(T, 0), Create(U, 2), [type |-> "Metadata"],
     Batch("Written", 0, <<Rec(<<7>>, <<1>>)>>),
     Batch("None", 0, <<Rec(Null, <<2>>)>>),
     Batch("Durable", 0, <<Rec(<<>>, <<3>>), Rec(Null, <<4, 4, 4>>)>>),
     Batch("All", 5, <<Rec(Null, <<5>>)>>),
     Batch("Written", 0, <<Rec(Null, [i \in 1 .. 256 |-> 6])>>),
     FetchAt(1, 0, 0), FetchAt(1, 0, 300), FetchAt(1, 9, 0), FetchAt(2, 0, 0),
     Commit(258, <<>>), Commit(259, M),
     [type |-> "FetchOffset", group |-> G, topic |-> T, partition |-> 1]}

PeerRequests ==
    {[type |-> "JoinGroup", group |-> G, member_id |-> <<>>, session_timeout_ms |-> 257,
      topics |-> <<T, U>>],
     [type |-> "Heartbeat", group |-> G, member_id |-> M, generation |-> 3],
     [type |-> "LeaveGroup", group |-> G, member_id |-> M],
     [type |-> "ReplicaFetch", topic |-> T, partition |-> 1, follower_id |-> 2,
      leader_epoch |-> 3, offset |-> 4, max_bytes |-> 5, max_wait_ms |-> 6],
     [type |-> "EpochCheck", topic |-> T, partition |-> 1, epoch |-> 3],
     [type |-> "RegisterBroker", broker_id |-> 2, addr |-> Addr, peer_addr |-> PeerAddr],
     [type |-> "BrokerHeartbeat", broker_id |-> 2, metadata_version |-> 9],
     [type |-> "AlterIsr", topic |-> T, partition |-> 1, leader_epoch |-> 3, isr |-> <<1, 2>>],
     [type |-> "ControllerMetadata"]}

\* Any call, and beside it one that appends, waits, is answered at once or is not.
MCRequests ==
    <<LocalRequests \cup PeerRequests,
      {Batch("Written", 0, <<Rec(<<7>>, <<1>>)>>), Batch("None", 0, <<Rec(Null, <<2>>)>>),
       FetchAt(1, 0, 300), Commit(258, <<>>), [type |-> "ControllerMetadata"]}>>

SomeCluster ==
    [version |-> 9, brokers |-> <<[id |-> 1, addr |-> Addr], [id |-> 2, addr |-> <<>>]>>,
     peers |-> <<[id |-> 1, addr |-> PeerAddr]>>,
     topics |-> <<[name |-> T, partitions |->
                     <<[partition |-> 0, leader |-> -1, leader_epoch |-> 4,
                        replicas |-> <<1, 2>>, isr |-> <<2>>]>>],
                  [name |-> U, partitions |-> <<>>]>>]

NoCluster == [version |-> 0, brokers |-> <<>>, peers |-> <<>>, topics |-> <<>>]

MCPeerAnswers(req) ==
    LET Only(e) == [type |-> req.type, error |-> e]
        Version(e, v) == [type |-> req.type, error |-> e, metadata_version |-> v]
    IN  CASE req.type = "JoinGroup" ->
               {[type |-> "JoinGroup", error |-> "None", member_id |-> M, generation |-> 4,
                 assignment |-> <<[topic |-> T, partition |-> 0], [topic |-> T, partition |-> 1]>>]}
          [] req.type \in {"Heartbeat", "LeaveGroup", "CommitOffset"} ->
               {Only("UnknownMember"), Only("StaleGeneration")}
          [] req.type = "ReplicaFetch" ->
               {[type |-> "ReplicaFetch", error |-> "NotLeader", leader_epoch |-> 0, log_end |-> 0,
                 high_watermark |-> 0, records |-> <<>>],
                [type |-> "ReplicaFetch", error |-> "None", leader_epoch |-> 3, log_end |-> 6,
                 high_watermark |-> 5, records |-> <<[offset |-> 4, timestamp_ms |-> -2,
                                                      key |-> Null, value |-> <<8, 9>>]>>]}
          [] req.type = "EpochCheck" ->
               {[type |-> "EpochCheck", error |-> "NotLeader", end_offset |-> 0],
                [type |-> "EpochCheck", error |-> "None", end_offset |-> 300]}
          [] req.type = "AlterIsr" -> {Version("Offline", 9), Version("Malformed", 0)}
          [] req.type \in {"RegisterBroker", "BrokerHeartbeat"} -> {Version("None", 9), Version("Malformed", 0)}
          [] req.type = "ControllerMetadata" ->
               {[type |-> "ControllerMetadata", error |-> "None", cluster |-> SomeCluster],
                [type |-> "ControllerMetadata", error |-> "Malformed", cluster |-> NoCluster]}
====================
