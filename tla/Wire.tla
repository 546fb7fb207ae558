--------------------------------- MODULE Wire ---------------------------------
(***************************************************************************)
(* The wire protocol (src/proto/mod.rs, src/proto/wire.rs): how a request  *)
(* or a response becomes a length-prefixed frame of bytes and is read      *)
(* back.  A message is a record whose field "type" names its variant; its  *)
(* strings and blobs are sequences of bytes.                               *)
(*                                                                         *)
(* The encoder and the decoder are two functions of the code, with every   *)
(* message written out in both.  Here each is one generic walk over a      *)
(* table of layouts, and there are two tables: a field that one side puts  *)
(* in another place, or with another width, than the other reads it from   *)
(* is a difference between them.                                           *)
(***************************************************************************)
EXTENDS Integers, Sequences, TLC

CONSTANT MaxFrameBytes     \* MAX_FRAME_BYTES, scaled down

ASSUME WireAssumption == MaxFrameBytes \in Nat

VERSION == 1
RESPONSE_BIT == 128

\* The MSG_* codes: a message's code is its position.
MsgTypes == <<"CreateTopic", "Metadata", "Produce", "Fetch", "CommitOffset",
              "FetchOffset", "JoinGroup", "Heartbeat", "LeaveGroup", "ReplicaFetch",
              "EpochCheck", "RegisterBroker", "BrokerHeartbeat", "AlterIsr",
              "ControllerMetadata">>

\* ErrorCode and Acks: the discriminant is the position less one.
ErrorCodes == <<"None", "UnknownTopicOrPartition", "OffsetOutOfRange", "Storage",
                "Malformed", "TopicExists", "UnknownMember", "StaleGeneration",
                "NotLeader", "FencedEpoch", "NotEnoughReplicas", "Offline">>

AckLevels == <<"None", "Written", "Durable", "All">>

PositionIn(seq, x) == CHOOSE i \in DOMAIN seq : seq[i] = x

------------------------------------------------------------------------------
(* Layouts: the fields in the order they are written, and in the order they *)
(* are read, with the primitive used for each.  A type that is not a        *)
(* primitive is a counted list (ElementOf) or a structure (Struct...).      *)

Unsigned == [u8 |-> 1, u16 |-> 2, u32 |-> 4, u64 |-> 8]
Signed == [i32 |-> 4, i64 |-> 8]

ElementOf == [batch |-> "ProduceRecord", records |-> "FetchedRecord", ids |-> "u32",
              names |-> "str", shares |-> "Share", addrs |-> "Addr",
              topics |-> "Topic", partitions |-> "Partition"]

StructPut ==
    [ProduceRecord |-> <<<<"key", "opt">>, <<"value", "bytes">>>>,
     FetchedRecord |-> <<<<"offset", "u64">>, <<"timestamp_ms", "i64">>,
                         <<"key", "opt">>, <<"value", "bytes">>>>,
     Share |-> <<<<"topic", "str">>, <<"partition", "u32">>>>,
     Addr |-> <<<<"id", "u32">>, <<"addr", "str">>>>,
     Topic |-> <<<<"name", "str">>, <<"partitions", "partitions">>>>,
     Partition |-> <<<<"partition", "u32">>, <<"leader", "i32">>, <<"leader_epoch", "u64">>,
                     <<"replicas", "ids">>, <<"isr", "ids">>>>,
     Cluster |-> <<<<"version", "u64">>, <<"brokers", "addrs">>, <<"peers", "addrs">>,
                   <<"topics", "topics">>>>]

\* Mutant of StructGet: the value of a record to append is read before its key.
MutantStructGet ==
    [StructPut EXCEPT !.ProduceRecord = <<<<"value", "bytes">>, <<"key", "opt">>>>]

StructGet ==
    [ProduceRecord |-> <<<<"key", "opt">>, <<"value", "bytes">>>>,
     FetchedRecord |-> <<<<"offset", "u64">>, <<"timestamp_ms", "i64">>,
                         <<"key", "opt">>, <<"value", "bytes">>>>,
     Share |-> <<<<"topic", "str">>, <<"partition", "u32">>>>,
     Addr |-> <<<<"id", "u32">>, <<"addr", "str">>>>,
     Topic |-> <<<<"name", "str">>, <<"partitions", "partitions">>>>,
     Partition |-> <<<<"partition", "u32">>, <<"leader", "i32">>, <<"leader_epoch", "u64">>,
                     <<"replicas", "ids">>, <<"isr", "ids">>>>,
     Cluster |-> <<<<"version", "u64">>, <<"brokers", "addrs">>, <<"peers", "addrs">>,
                   <<"topics", "topics">>>>]

RequestPut ==
    [CreateTopic |-> <<<<"topic", "str">>, <<"partitions", "u32">>,
                       <<"replication_factor", "u32">>>>,
     Metadata |-> <<>>,
     Produce |-> <<<<"topic", "str">>, <<"partition", "u32">>, <<"acks", "acks">>,
                   <<"leader_epoch", "u64">>, <<"records", "batch">>>>,
     ReplicaFetch |-> <<<<"topic", "str">>, <<"partition", "u32">>, <<"follower_id", "u32">>,
                        <<"leader_epoch", "u64">>, <<"offset", "u64">>,
                        <<"max_bytes", "u32">>, <<"max_wait_ms", "u32">>>>,
     EpochCheck |-> <<<<"topic", "str">>, <<"partition", "u32">>, <<"epoch", "u64">>>>,
     RegisterBroker |-> <<<<"broker_id", "u32">>, <<"addr", "str">>, <<"peer_addr", "str">>>>,
     BrokerHeartbeat |-> <<<<"broker_id", "u32">>, <<"metadata_version", "u64">>>>,
     AlterIsr |-> <<<<"topic", "str">>, <<"partition", "u32">>, <<"leader_epoch", "u64">>,
                    <<"isr", "ids">>>>,
     ControllerMetadata |-> <<>>,
     Fetch |-> <<<<"topic", "str">>, <<"partition", "u32">>, <<"offset", "u64">>,
                 <<"max_bytes", "u32">>, <<"max_wait_ms", "u32">>>>,
     CommitOffset |-> <<<<"group", "str">>, <<"topic", "str">>, <<"partition", "u32">>,
                        <<"offset", "u64">>, <<"member_id", "str">>, <<"generation", "u64">>>>,
     FetchOffset |-> <<<<"group", "str">>, <<"topic", "str">>, <<"partition", "u32">>>>,
     JoinGroup |-> <<<<"group", "str">>, <<"member_id", "str">>,
                     <<"session_timeout_ms", "u32">>, <<"topics", "names">>>>,
     Heartbeat |-> <<<<"group", "str">>, <<"member_id", "str">>, <<"generation", "u64">>>>,
     LeaveGroup |-> <<<<"group", "str">>, <<"member_id", "str">>>>]

RequestGet ==
    [CreateTopic |-> <<<<"topic", "str">>, <<"partitions", "u32">>,
                       <<"replication_factor", "u32">>>>,
     Metadata |-> <<>>,
     Produce |-> <<<<"topic", "str">>, <<"partition", "u32">>, <<"acks", "acks">>,
                   <<"leader_epoch", "u64">>, <<"records", "batch">>>>,
     ReplicaFetch |-> <<<<"topic", "str">>, <<"partition", "u32">>, <<"follower_id", "u32">>,
                        <<"leader_epoch", "u64">>, <<"offset", "u64">>,
                        <<"max_bytes", "u32">>, <<"max_wait_ms", "u32">>>>,
     EpochCheck |-> <<<<"topic", "str">>, <<"partition", "u32">>, <<"epoch", "u64">>>>,
     RegisterBroker |-> <<<<"broker_id", "u32">>, <<"addr", "str">>, <<"peer_addr", "str">>>>,
     BrokerHeartbeat |-> <<<<"broker_id", "u32">>, <<"metadata_version", "u64">>>>,
     AlterIsr |-> <<<<"topic", "str">>, <<"partition", "u32">>, <<"leader_epoch", "u64">>,
                    <<"isr", "ids">>>>,
     ControllerMetadata |-> <<>>,
     Fetch |-> <<<<"topic", "str">>, <<"partition", "u32">>, <<"offset", "u64">>,
                 <<"max_bytes", "u32">>, <<"max_wait_ms", "u32">>>>,
     CommitOffset |-> <<<<"group", "str">>, <<"topic", "str">>, <<"partition", "u32">>,
                        <<"offset", "u64">>, <<"member_id", "str">>, <<"generation", "u64">>>>,
     FetchOffset |-> <<<<"group", "str">>, <<"topic", "str">>, <<"partition", "u32">>>>,
     JoinGroup |-> <<<<"group", "str">>, <<"member_id", "str">>,
                     <<"session_timeout_ms", "u32">>, <<"topics", "names">>>>,
     Heartbeat |-> <<<<"group", "str">>, <<"member_id", "str">>, <<"generation", "u64">>>>,
     LeaveGroup |-> <<<<"group", "str">>, <<"member_id", "str">>>>]

\* Every response starts with its error code.
ResponsePut ==
    [CreateTopic |-> <<<<"error", "error">>>>,
     Metadata |-> <<<<"error", "error">>, <<"cluster", "Cluster">>>>,
     ReplicaFetch |-> <<<<"error", "error">>, <<"leader_epoch", "u64">>, <<"log_end", "u64">>,
                        <<"high_watermark", "u64">>, <<"records", "records">>>>,
     EpochCheck |-> <<<<"error", "error">>, <<"end_offset", "u64">>>>,
     RegisterBroker |-> <<<<"error", "error">>, <<"metadata_version", "u64">>>>,
     BrokerHeartbeat |-> <<<<"error", "error">>, <<"metadata_version", "u64">>>>,
     AlterIsr |-> <<<<"error", "error">>, <<"metadata_version", "u64">>>>,
     ControllerMetadata |-> <<<<"error", "error">>, <<"cluster", "Cluster">>>>,
     Produce |-> <<<<"error", "error">>, <<"base_offset", "u64">>, <<"count", "u32">>>>,
     Fetch |-> <<<<"error", "error">>, <<"log_start", "u64">>, <<"next_offset", "u64">>,
                 <<"records", "records">>>>,
     CommitOffset |-> <<<<"error", "error">>>>,
     FetchOffset |-> <<<<"error", "error">>, <<"offset", "i64">>>>,
     JoinGroup |-> <<<<"error", "error">>, <<"member_id", "str">>, <<"generation", "u64">>,
                     <<"assignment", "shares">>>>,
     Heartbeat |-> <<<<"error", "error">>>>,
     LeaveGroup |-> <<<<"error", "error">>>>]

\* Mutant of ResponseGet: the mark is read from the place of the log end.
MutantResponseGet ==
    [ResponsePut EXCEPT !.ReplicaFetch =
        <<<<"error", "error">>, <<"leader_epoch", "u64">>, <<"high_watermark", "u64">>,
          <<"log_end", "u64">>, <<"records", "records">>>>]

ResponseGet ==
    [CreateTopic |-> <<<<"error", "error">>>>,
     Metadata |-> <<<<"error", "error">>, <<"cluster", "Cluster">>>>,
     ReplicaFetch |-> <<<<"error", "error">>, <<"leader_epoch", "u64">>, <<"log_end", "u64">>,
                        <<"high_watermark", "u64">>, <<"records", "records">>>>,
     EpochCheck |-> <<<<"error", "error">>, <<"end_offset", "u64">>>>,
     RegisterBroker |-> <<<<"error", "error">>, <<"metadata_version", "u64">>>>,
     BrokerHeartbeat |-> <<<<"error", "error">>, <<"metadata_version", "u64">>>>,
     AlterIsr |-> <<<<"error", "error">>, <<"metadata_version", "u64">>>>,
     ControllerMetadata |-> <<<<"error", "error">>, <<"cluster", "Cluster">>>>,
     Produce |-> <<<<"error", "error">>, <<"base_offset", "u64">>, <<"count", "u32">>>>,
     Fetch |-> <<<<"error", "error">>, <<"log_start", "u64">>, <<"next_offset", "u64">>,
                 <<"records", "records">>>>,
     CommitOffset |-> <<<<"error", "error">>>>,
     FetchOffset |-> <<<<"error", "error">>, <<"offset", "i64">>>>,
     JoinGroup |-> <<<<"error", "error">>, <<"member_id", "str">>, <<"generation", "u64">>,
                     <<"assignment", "shares">>>>,
     Heartbeat |-> <<<<"error", "error">>>>,
     LeaveGroup |-> <<<<"error", "error">>>>]

------------------------------------------------------------------------------
(* Writing *)

\* put_u8 .. put_i64: n in w little-endian bytes, two's complement.  (The model's
\* integers need no more than four; the others repeat the sign.)
PutInt(n, w) ==
    [i \in 1 .. w |-> IF i <= 4 THEN (n \div 256^(i - 1)) % 256
                                ELSE IF n < 0 THEN 255 ELSE 0]

Null == <<-1>>       \* the None of Option<Vec<u8>>

RECURSIVE Put(_, _), PutFields(_, _)

\* One value.  A string's length is a u16, a blob's and a list's a u32, and an
\* optional blob's an i32 that is -1 for None.
Put(type, v) ==
    CASE type \in DOMAIN Unsigned -> PutInt(v, Unsigned[type])
      [] type \in DOMAIN Signed -> PutInt(v, Signed[type])
      [] type = "error" -> PutInt(PositionIn(ErrorCodes, v) - 1, 2)
      [] type = "acks" -> PutInt(PositionIn(AckLevels, v) - 1, 1)
      [] type = "str" -> PutInt(Len(v), 2) \o v
      [] type = "bytes" -> PutInt(Len(v), 4) \o v
      [] type = "opt" -> IF v = Null THEN PutInt(-1, 4) ELSE PutInt(Len(v), 4) \o v
      [] type \in DOMAIN ElementOf ->
             LET Upto[i \in 0 .. Len(v)] ==
                     IF i = 0 THEN PutInt(Len(v), 4) ELSE Upto[i - 1] \o Put(ElementOf[type], v[i])
             IN  Upto[Len(v)]
      [] type \in DOMAIN StructPut -> PutFields(StructPut[type], v)

PutFields(fields, msg) ==
    LET Upto[i \in 0 .. Len(fields)] ==
            IF i = 0 THEN <<>> ELSE Upto[i - 1] \o Put(fields[i][2], msg[fields[i][1]])
    IN  Upto[Len(fields)]

\* frame_header .. finish_frame: the length of what follows is filled in last.  (The
\* set binds the rest to a value, so that TLC computes it once.)
Framed(code, corr, fields, msg) ==
    CHOOSE frame \in {PutInt(Len(rest), 4) \o rest :
                      rest \in {<<VERSION, code>> \o PutInt(corr, 4) \o PutFields(fields, msg)}} : TRUE

EncodeRequest(req, corr) ==
    Framed(PositionIn(MsgTypes, req.type), corr, RequestPut[req.type], req)

EncodeResponse(resp, corr) ==
    Framed(PositionIn(MsgTypes, resp.type) + RESPONSE_BIT, corr, ResponsePut[resp.type], resp)

------------------------------------------------------------------------------
(* Reading.  A Reader is the bytes it has left; a read gives the value and  *)
(* the rest, or fails (ProtoError), and then the whole frame fails.         *)

Failed == [ok |-> FALSE, v |-> 0, rest |-> <<>>]
Read(v, rest) == [ok |-> TRUE, v |-> v, rest |-> rest]

\* Rust's ?: go on with what was read, or fail.  (The set binds the result to a value,
\* so that TLC computes it once.)
Then(read, Use(_)) == CHOOSE out \in {IF r.ok THEN Use(r) ELSE Failed : r \in {read}} : TRUE

\* take: at least n bytes must be left.
Take(buf, n) ==
    IF Len(buf) < n THEN Failed
    ELSE Read(SubSeq(buf, 1, n), SubSeq(buf, n + 1, Len(buf)))

TooLarge == 2^30     \* stands for every value the model's integers do not reach

Natural(bytes) ==
    IF \E i \in DOMAIN bytes : bytes[i] # 0 /\ (i > 4 \/ (i = 4 /\ bytes[i] > 63)) THEN TooLarge
    ELSE LET Digit(i) == IF i \in DOMAIN bytes THEN bytes[i] * 256^(i - 1) ELSE 0
         IN  Digit(1) + Digit(2) + Digit(3) + Digit(4)

GetUnsigned(buf, w) == Then(Take(buf, w), LAMBDA t : Read(Natural(t.v), t.rest))

GetSigned(buf, w) ==
    Then(Take(buf, w), LAMBDA t :
        Read(IF t.v[w] < 128 THEN Natural(t.v)
             ELSE -1 - Natural([i \in 1 .. w |-> 255 - t.v[i]]), t.rest))

\* Mutant of GetName: the last name is not known to the reader.
MutantGetName(buf, w, names) ==
    Then(GetUnsigned(buf, w), LAMBDA n :
        IF n.v < Len(names) - 1 THEN Read(names[n.v + 1], n.rest) ELSE Failed)

\* from_u8, from_u16: a discriminant without a name is malformed.
GetName(buf, w, names) ==
    Then(GetUnsigned(buf, w), LAMBDA n :
        IF n.v < Len(names) THEN Read(names[n.v + 1], n.rest) ELSE Failed)

GetBlob(len) == Then(len, LAMBDA n : Take(n.rest, n.v))

RECURSIVE Get(_, _), GetFields(_, _)

Get(type, buf) ==
    CASE type \in DOMAIN Unsigned -> GetUnsigned(buf, Unsigned[type])
      [] type \in DOMAIN Signed -> GetSigned(buf, Signed[type])
      [] type = "error" -> GetName(buf, 2, ErrorCodes)
      [] type = "acks" -> GetName(buf, 1, AckLevels)
      [] type = "str" -> GetBlob(GetUnsigned(buf, 2))
      [] type = "bytes" -> GetBlob(GetUnsigned(buf, 4))
      [] type = "opt" -> Then(GetSigned(buf, 4), LAMBDA n :
                             IF n.v < 0 THEN Read(Null, n.rest) ELSE Take(n.rest, n.v))
      [] type \in DOMAIN ElementOf -> Then(GetUnsigned(buf, 4), LAMBDA n :
             LET Upto[i \in 0 .. n.v] ==
                     IF i = 0 THEN Read(<<>>, n.rest)
                     ELSE Then(Upto[i - 1], LAMBDA before :
                              Then(Get(ElementOf[type], before.rest), LAMBDA one :
                                  Read(Append(before.v, one.v), one.rest)))
             IN  IF n.v > Len(n.rest) THEN Failed ELSE Upto[n.v])  \* no element is empty
      [] type \in DOMAIN StructGet -> GetFields(StructGet[type], buf)

\* A structure or a message, by the names its layout gives to what is read.
GetFields(fields, buf) ==
    LET Upto[i \in 0 .. Len(fields)] ==
            IF i = 0 THEN Read(<<>>, buf)
            ELSE Then(Upto[i - 1], LAMBDA before :
                     Then(Get(fields[i][2], before.rest), LAMBDA one :
                         Read((fields[i][1] :> one.v) @@ before.v, one.rest)))
    IN  Upto[Len(fields)]

HeaderGet == <<<<"len", "u32">>, <<"version", "u8">>, <<"msg_type", "u8">>, <<"corr", "u32">>>>

Undecodable == [ok |-> FALSE, corr |-> 0, msg |-> [type |-> "none"]]

\* read_header, the fields of the message type, expect_end.
Decode(frame, bit, layout) ==
    LET decoded ==
          Then(GetFields(HeaderGet, frame), LAMBDA header :
              LET code == header.v.msg_type - bit
              IN  IF header.v.version # VERSION \/ code \notin DOMAIN MsgTypes THEN Failed
                  ELSE Then(GetFields(layout[MsgTypes[code]], header.rest), LAMBDA body :
                           IF body.rest # <<>> THEN Failed
                           ELSE Read([ok |-> TRUE, corr |-> header.v.corr,
                                      msg |-> body.v @@ ("type" :> MsgTypes[code])], <<>>)))
    IN  CHOOSE out \in {IF d.ok THEN d.v ELSE Undecodable : d \in {decoded}} : TRUE

DecodeRequest(frame) == Decode(frame, 0, RequestGet)
DecodeResponse(frame) == Decode(frame, RESPONSE_BIT, ResponseGet)

\* read_frame: a length of zero or above the maximum is an error.
FrameFits(frame) ==
    LET len == GetUnsigned(frame, 4).v IN len > 0 /\ len <= MaxFrameBytes
====================
