------------------------ MODULE PartitionThread_proofs ------------------------
(***************************************************************************)
(* Proofs about PartitionThread, for every set of fsync policies, every    *)
(* max_bytes and every bound on the channel, the batches, the records, the *)
(* epochs, the crashes and the truncations.                                *)
(***************************************************************************)
EXTENDS PartitionThread, ProofLemmas

------------------------------------------------------------------------------
(* The inductive invariant *)

LogRecord == [id : 1 .. MaxRecords, epoch : 1 .. MaxEpoch, came : 1 .. MaxEpoch]
Store == [log : Seq(LogRecord), synced : Nat, durable : Nat, dirty : Nat]
StoreOK(s) == s \in Store /\ s.synced <= Len(s.log) /\ s.durable <= Len(s.log)

CheckpointEntry == [epoch : 1 .. MaxEpoch, start : Nat]
EntriesOK(es) ==
    /\ es \in Seq(CheckpointEntry)
    /\ \A i, j \in DOMAIN es :
           i < j => es[i].epoch < es[j].epoch /\ es[i].start <= es[j].start

Replicated ==
    [do : {"replicated"}, id : 1 .. MaxRecords, base : Nat,
     epoch : 1 .. MaxEpoch, came : 1 .. MaxEpoch]

Command ==
    [do : {"append"}, ids : Seq(1 .. MaxRecords), good : Nat,
     acks : {"written", "durable"}, epoch : 1 .. MaxEpoch]
        \cup Replicated
        \cup [do : {"truncate"}, to : Nat]
        \cup [do : {"epoch"}, epoch : 1 .. MaxEpoch]
        \cup [do : {"query"}]

\* A truncation is only ever sent into an empty channel, so no command comes
\* between the look at the log that chose its end and its execution.
CommandOK(i, c, size) ==
    /\ c.do = "append" => Len(c.ids) > 0 /\ c.good <= Len(c.ids)
    /\ c.do = "truncate" => i = 1 /\ c.to < size

InboxOK(box, size) ==
    /\ box \in Seq(Command) /\ Len(box) <= MaxInbox
    /\ \A i \in DOMAIN box : CommandOK(i, box[i], size)

\* The sender's side of the state.
SenderOK ==
    /\ count \in [records : 0 .. MaxRecords, crashes : Nat, cuts : Nat]
    /\ epoch \in 0 .. MaxEpoch /\ local \in 0 .. MaxEpoch /\ leads \in BOOLEAN
    /\ stage \in Stages /\ stray \in Seq(Replicated) /\ lapses \subseteq Lapses
    /\ stage # "out" => epoch # 0

Parked == [ids : Seq(1 .. MaxRecords), last : Nat]

TypeInv ==
    /\ policy \in Policies
    /\ StoreOK(store)
    /\ EntriesOK(entries)
    /\ InboxOK(inbox, Size)
    /\ pending \in Seq(Parked)
    /\ SenderOK
    /\ armed \in BOOLEAN /\ deposed \in BOOLEAN

\* What a parked ack names is where the ack will say it is, or cut; and if the
\* log takes it for durable (durable_offset after a reopen includes what nobody
\* has fsynced) it is.
Placed(a, s, gone) ==
    \/ a.id \in gone
    \/ /\ a.offset \in 1 .. Len(s.log) /\ s.log[a.offset].id = a.id
       /\ a.offset <= s.durable => a.offset <= s.synced

Kept(a, s, gone) ==
    \/ a.id \in gone
    \/ a.offset \in 1 .. s.synced /\ s.log[a.offset].id = a.id

AllPlaced(queue, s, gone) ==
    \A i \in DOMAIN queue : \A a \in AckOf(queue[i]) : Placed(a, s, gone)

AllKept(acks, s, gone) == \A a \in acks : Kept(a, s, gone)

AckInv == AllPlaced(pending, store, cut) /\ AllKept(promised, store, cut)

IndInv == TypeInv /\ AckInv

------------------------------------------------------------------------------
(* The log *)

\* One record more; flushed or not, what was synced stays so.
Grown(s, t) ==
    /\ StoreOK(t)
    /\ Len(s.log) <= Len(t.log)
    /\ \A j \in 1 .. Len(s.log) : t.log[j] = s.log[j]
    /\ \/ t.durable = s.durable /\ t.synced = s.synced
       \/ t.durable = t.synced /\ s.synced <= t.synced

\* The fields of a log that was flushed, with its records left abstract.
LEMMA FlushUpdate ==
  ASSUME NEW L, NEW n \in Nat,
         NEW s \in [log : L, synced : Nat, durable : Nat, dirty : Nat],
         NEW t, t = [s EXCEPT !.synced = n, !.durable = n, !.dirty = 0]
  PROVE  /\ t \in [log : L, synced : Nat, durable : Nat, dirty : Nat]
         /\ t.log = s.log /\ t.synced = n /\ t.durable = n
  <1>1. t = [log |-> s.log, synced |-> n, durable |-> n, dirty |-> 0]
    OBVIOUS
  <1>2. QED
    BY <1>1

\* The fields of a log with other records.
LEMMA AppendUpdate ==
  ASSUME NEW L, NEW l \in L,
         NEW s \in [log : L, synced : Nat, durable : Nat, dirty : Nat],
         NEW t, t = [s EXCEPT !.log = l, !.dirty = @ + 1]
  PROVE  /\ t \in [log : L, synced : Nat, durable : Nat, dirty : Nat]
         /\ t.log = l /\ t.synced = s.synced /\ t.durable = s.durable
  <1>1. t = [log |-> l, synced |-> s.synced, durable |-> s.durable, dirty |-> s.dirty + 1]
    OBVIOUS
  <1>2. s.synced \in Nat /\ s.durable \in Nat /\ s.dirty + 1 \in Nat
    OBVIOUS
  <1>3. QED
    BY <1>1, <1>2

\* Log::flush makes everything durable and touches no record.
LEMMA FlushStep ==
  ASSUME NEW s, StoreOK(s)
  PROVE  /\ Grown(s, Flushed(s))
         /\ Flushed(s).log = s.log
         /\ Flushed(s).durable = Len(s.log) /\ Flushed(s).synced = Len(s.log)
  <1>1. /\ Flushed(s) \in Store /\ Flushed(s).log = s.log
        /\ Flushed(s).durable = Len(s.log) /\ Flushed(s).synced = Len(s.log)
    <2> DEFINE n == Len(s.log)
               L == Seq(LogRecord)
    <2>1. n \in Nat /\ s.log \in L /\ s \in [log : L, synced : Nat, durable : Nat, dirty : Nat]
      BY DEF StoreOK, Store
    <2>2. Flushed(s) = [s EXCEPT !.synced = n, !.durable = n, !.dirty = 0]
      BY DEF Flushed
    <2> HIDE DEF n, L
    <2>3. /\ Flushed(s) \in [log : L, synced : Nat, durable : Nat, dirty : Nat]
          /\ Flushed(s).log = s.log /\ Flushed(s).durable = n /\ Flushed(s).synced = n
      BY ZenonT(40), <2>1, <2>2, FlushUpdate
    <2>4. QED
      BY <2>3 DEF n, L, Store
  <1>2. Len(s.log) \in Nat /\ s.synced <= Len(s.log) /\ s.synced \in Nat
    BY DEF StoreOK, Store
  <1>3. QED
    BY <1>1, <1>2 DEF StoreOK, Grown

\* Growing is transitive.
LEMMA GrownTwice ==
  ASSUME NEW s, NEW t, NEW u, StoreOK(s), Grown(s, t), Grown(t, u)
  PROVE  Grown(s, u)
  <1>1. /\ Len(s.log) \in Nat /\ Len(t.log) \in Nat /\ Len(u.log) \in Nat
        /\ s.synced \in Nat /\ t.synced \in Nat /\ u.synced \in Nat
    BY DEF Grown, StoreOK, Store
  <1>2. QED
    BY SMTT(30), <1>1 DEF Grown

\* Log::append_record adds one record and may flush.
LEMMA AppendOne ==
  ASSUME NEW s, StoreOK(s), NEW r \in LogRecord
  PROVE  /\ Grown(s, Appended1(s, r))
         /\ Len(Appended1(s, r).log) = Len(s.log) + 1
         /\ Appended1(s, r).log[Len(s.log) + 1] = r
  <1> DEFINE w == [s EXCEPT !.log = Append(@, r), !.dirty = @ + 1]
  <1>1. /\ s.log \in Seq(LogRecord) /\ s.synced \in Nat /\ s.durable \in Nat /\ s.dirty \in Nat
        /\ Len(s.log) \in Nat /\ s.synced <= Len(s.log) /\ s.durable <= Len(s.log)
    BY DEF StoreOK, Store
  <1>2. /\ w \in Store /\ w.log = Append(s.log, r)
        /\ w.synced = s.synced /\ w.durable = s.durable
    <2>1. Append(s.log, r) \in Seq(LogRecord)
      BY <1>1, AppendProperties
    <2> DEFINE l == Append(s.log, r)
               L == Seq(LogRecord)
    <2>2. /\ s \in [log : L, synced : Nat, durable : Nat, dirty : Nat] /\ l \in L
          /\ w = [s EXCEPT !.log = l, !.dirty = @ + 1]
      BY <2>1 DEF StoreOK, Store
    <2> HIDE DEF l, L, w
    <2>3. /\ w \in [log : L, synced : Nat, durable : Nat, dirty : Nat]
          /\ w.log = l /\ w.synced = s.synced /\ w.durable = s.durable
      BY <2>2, AppendUpdate
    <2>4. QED
      BY <2>3 DEF l, L, Store
  <1>3. /\ Len(w.log) = Len(s.log) + 1 /\ w.log[Len(s.log) + 1] = r
        /\ \A j \in 1 .. Len(s.log) : w.log[j] = s.log[j]
    BY <1>1, <1>2, AppendProperties
  <1>4. Appended1(s, r) \in {w, Flushed(w)}
    BY DEF Appended1
  <1> HIDE DEF w
  <1>5. StoreOK(w)
    BY <1>1, <1>2, <1>3 DEF StoreOK
  <1>6. Grown(s, w)
    BY <1>1, <1>2, <1>3, <1>5 DEF Grown
  <1>7. Grown(w, Flushed(w)) /\ Flushed(w).log = w.log
    BY <1>5, FlushStep
  <1>8. Grown(s, Flushed(w))
    BY <1>6, <1>7, GrownTwice
  <1>9. QED
    BY <1>3, <1>4, <1>6, <1>7, <1>8

\* The recursive function of Appended is well defined.
LEMMA AppendedDefined ==
  ASSUME NEW records, NEW m \in Nat, Len(records) = m
  PROVE  \E f : /\ f = [i \in 0 .. m |->
                          IF i = 0 THEN store ELSE Appended1(f[i - 1], records[i])]
                /\ Appended(records) = f[m]
  <1> DEFINE Def(f, n) == f = [i \in 0 .. n |->
                          IF i = 0 THEN store ELSE Appended1(f[i - 1], records[i])]
             S == {n \in Nat : \E f : Def(f, n)}
  <1>1. 0 \in S
    <2>1. Def([i \in 0 .. 0 |-> store], 0)
      OBVIOUS
    <2>2. QED
      BY <2>1
  <1>2. ASSUME NEW n \in Nat, n \in S
        PROVE  n + 1 \in S
    <2>1. PICK f : Def(f, n)
      BY <1>2
    <2> DEFINE g == [i \in 0 .. n + 1 |->
                        IF i <= n THEN f[i] ELSE Appended1(f[n], records[n + 1])]
    <2>2. ASSUME NEW i \in 0 .. n + 1
          PROVE  g[i] = IF i = 0 THEN store ELSE Appended1(g[i - 1], records[i])
      <3>1. CASE i = 0
        BY <2>1, <3>1
      <3>2. CASE i \in 1 .. n
        BY <2>1, <3>2
      <3>3. CASE i = n + 1
        BY <3>3
      <3>4. QED
        BY <3>1, <3>2, <3>3
    <2>3. Def(g, n + 1)
      BY <2>2
    <2> HIDE DEF g, Def
    <2>4. QED
      BY <2>3
  <1>3. \E f : Def(f, m)
    <2> HIDE DEF Def
    <2>1. m \in S
      <3> HIDE DEF S
      <3>1. QED
        BY <1>1, <1>2, SetInduction
    <2>2. QED
      BY <2>1
  <1> DEFINE g == CHOOSE f : Def(f, m)
  <1>4. Def(g, m)
    <2> HIDE DEF Def
    <2>1. QED
      BY <1>3, Zenon
  <1>5. Appended(records) = g[m]
    BY DEF Appended
  <1> HIDE DEF g
  <1>6. QED
    BY <1>4, <1>5

\* A batch grows the log by its records, in order, whichever of them trigger a
\* flush.
LEMMA AppendStep ==
  ASSUME StoreOK(store), NEW records \in Seq(LogRecord)
  PROVE  /\ Grown(store, Appended(records))
         /\ Len(Appended(records).log) = Size + Len(records)
         /\ \A j \in 1 .. Len(records) : Appended(records).log[Size + j] = records[j]
  <1> DEFINE m == Len(records)
  <1>1. m \in Nat /\ Size \in Nat
    BY DEF Size, StoreOK, Store
  <1>2. PICK f : /\ f = [i \in 0 .. m |->
                          IF i = 0 THEN store ELSE Appended1(f[i - 1], records[i])]
                 /\ Appended(records) = f[m]
    BY <1>1, AppendedDefined
  <1> DEFINE Good(n) == /\ Grown(store, f[n])
                        /\ Len(f[n].log) = Size + n
                        /\ \A j \in 1 .. n : f[n].log[Size + j] = records[j]
             S == {n \in Nat : n <= m => Good(n)}
  <1>3. 0 \in S
    <2>1. f[0] = store
      BY <1>1, <1>2
    <2>2. Grown(store, store)
      BY <1>1 DEF Grown, Size, StoreOK, Store
    <2>3. Len(f[0].log) = Size + 0
      BY <1>1, <2>1 DEF Size
    <2>4. QED
      BY <2>1, <2>2, <2>3
  <1>4. ASSUME NEW n \in Nat, n \in S
        PROVE  n + 1 \in S
    <2> SUFFICES ASSUME n + 1 <= m PROVE Good(n + 1)
      OBVIOUS
    <2>1. Good(n)
      BY <1>1, <1>4
    <2>2. f[n + 1] = Appended1(f[n], records[n + 1])
      BY <1>1, <1>2
    <2>3. records[n + 1] \in LogRecord
      BY <1>1, ElementOfSeq
    <2> DEFINE t == f[n]
               u == f[n + 1]
    <2>4. /\ Grown(t, u) /\ Len(u.log) = Len(t.log) + 1
          /\ u.log[Len(t.log) + 1] = records[n + 1]
      <3>1. StoreOK(t) /\ u = Appended1(t, records[n + 1])
        BY <2>1, <2>2 DEF Grown
      <3> HIDE DEF t, u
      <3>2. QED
        BY <3>1, <2>3, AppendOne
    <2>5. Grown(store, u)
      BY <2>1, <2>4, GrownTwice
    <2>6. Len(u.log) = Size + (n + 1)
      BY <1>1, <2>1, <2>4
    <2>7. ASSUME NEW j \in 1 .. n + 1
          PROVE  u.log[Size + j] = records[j]
      <3>1. CASE j = n + 1
        BY <1>1, <2>1, <2>4, <3>1
      <3>2. CASE j \in 1 .. n
        <4>1. Size + j \in 1 .. Len(t.log) /\ t.log[Size + j] = records[j]
          BY <1>1, <2>1, <3>2
        <4>2. QED
          BY <2>4, <4>1 DEF Grown
      <3>3. QED
        BY <3>1, <3>2
    <2>8. QED
      BY <2>5, <2>6, <2>7
  <1>5. Good(m)
    <2>1. m \in S
      <3> HIDE DEF S
      <3>1. QED
        BY <1>1, <1>3, <1>4, SetInduction
    <2>2. QED
      BY <1>1, <2>1
  <1>6. QED
    BY <1>2, <1>5

------------------------------------------------------------------------------
(* Acks *)

\* A log that grows keeps what it placed and what it kept.
LEMMA GrownKeeps ==
  ASSUME NEW s, NEW t, NEW gone, StoreOK(s), Grown(s, t), NEW a
  PROVE  /\ Placed(a, s, gone) => Placed(a, t, gone)
         /\ Kept(a, s, gone) => Kept(a, t, gone)
  <1>1. /\ Len(s.log) \in Nat /\ Len(t.log) \in Nat /\ s.synced \in Nat /\ t.synced \in Nat
        /\ s.durable \in Nat /\ t.durable \in Nat
        /\ s.synced <= Len(s.log) /\ t.synced <= Len(t.log)
    BY DEF Grown, StoreOK, Store
  <1>2. QED
    BY <1>1 DEF Grown, Placed, Kept

\* The offsets of an ack end at its last one.
LEMMA AckOffsets ==
  ASSUME NEW p \in Parked, NEW a \in AckOf(p)
  PROVE  a.offset \in Int /\ a.offset <= p.last
  <1>1. PICK i \in DOMAIN p.ids : a = [id |-> p.ids[i], offset |-> p.last - Len(p.ids) + i]
    BY DEF AckOf
  <1>2. /\ p.last \in Nat /\ Len(p.ids) \in Nat
        /\ i \in 1 .. Len(p.ids)
    BY DEF Parked
  <1>3. a.offset = p.last - Len(p.ids) + i
    BY <1>1
  <1>4. QED
    BY <1>2, <1>3

\* drain_pending takes covered acks off the front.
LEMMA ReleasedPrefix ==
  ASSUME NEW queue \in Seq(Parked), NEW durable \in Nat
  PROVE  /\ Released(queue, durable) \in 0 .. Len(queue)
         /\ \A i \in 1 .. Released(queue, durable) : queue[i].last <= durable
  <1> DEFINE T == {n \in 0 .. Len(queue) : \A i \in 1 .. n : Covered(queue[i], durable)}
  <1>1. Len(queue) \in Nat /\ T \in SUBSET (0 .. Len(queue)) /\ 0 \in T
    OBVIOUS
  <1>2. Max(T) \in T
    <2> HIDE DEF T
    <2>1. QED
      BY <1>1, MaxIsGreatest
  <1>3. Released(queue, durable) = Max(T)
    BY DEF Released
  <1>4. QED
    BY <1>2, <1>3 DEF Covered

\* The acks of the front of a queue are acks of the queue.
LEMMA FrontAcks ==
  ASSUME NEW queue \in Seq(Parked), NEW n \in 0 .. Len(queue),
         NEW a \in Acks(SubSeq(queue, 1, n))
  PROVE  \E i \in 1 .. n : a \in AckOf(queue[i])
  <1>1. /\ Len(queue) \in Nat
        /\ \A i \in 1 .. n : queue[i] \in Parked
    BY ElementOfSeq
  <1>2. /\ SubSeq(queue, 1, n) \in Seq(Parked) /\ Len(SubSeq(queue, 1, n)) = n
        /\ \A i \in 1 .. n : SubSeq(queue, 1, n)[i] = queue[1 + i - 1]
    BY <1>1, SubSeqProperties
  <1>3. DOMAIN SubSeq(queue, 1, n) = 1 .. n
    BY <1>2, LenProperties
  <1>4. PICK i \in 1 .. n : a \in AckOf(SubSeq(queue, 1, n)[i])
    BY <1>3 DEF Acks
  <1>5. QED
    BY <1>2, <1>4

\* What drain_pending sends is kept, what it leaves is placed.
LEMMA DrainStep ==
  ASSUME NEW queue \in Seq(Parked), NEW t, StoreOK(t), NEW now, NEW gone,
         AllPlaced(queue, t, gone), AllKept(promised, t, gone), AllKept(now, t, gone),
         Drain(queue, t.durable, now)
  PROVE  /\ pending' \in Seq(Parked)
         /\ AllPlaced(pending', t, gone)
         /\ AllKept(promised', t, gone)
  <1> DEFINE n == Released(queue, t.durable)
             m == Len(queue)
             rest == SubSeq(queue, n + 1, m)
  <1>1. /\ t.durable \in Nat /\ t.synced \in Nat /\ m \in Nat
    BY DEF StoreOK, Store
  <1>2. n \in 0 .. m /\ \A i \in 1 .. n : queue[i].last <= t.durable
    BY <1>1, ReleasedPrefix
  <1>3. pending' = rest /\ promised' = promised \cup Acks(SubSeq(queue, 1, n)) \cup now
    BY DEF Drain
  <1> HIDE DEF n
  <1>4. \A i \in 1 .. m : queue[i] \in Parked
    BY ElementOfSeq
  <1>5. /\ rest \in Seq(Parked)
        /\ Len(rest) = IF n + 1 <= m THEN m - (n + 1) + 1 ELSE 0
        /\ \A i \in 1 .. m - (n + 1) + 1 : rest[i] = queue[n + 1 + i - 1]
    <2>1. \A i \in n + 1 .. m : queue[i] \in Parked
      BY <1>1, <1>2, <1>4
    <2>2. n + 1 \in Int /\ m \in Int
      BY <1>1, <1>2
    <2>3. QED
      BY <2>1, <2>2, SubSeqProperties
  <1> HIDE DEF rest
  <1>6. AllPlaced(rest, t, gone)
    <2> SUFFICES ASSUME NEW i \in DOMAIN rest
                 PROVE  \A a \in AckOf(rest[i]) : Placed(a, t, gone)
      BY DEF AllPlaced
    <2>1. i \in 1 .. Len(rest)
      BY <1>5, LenProperties
    <2>2. i + n \in 1 .. m /\ rest[i] = queue[i + n]
      BY <1>1, <1>2, <1>5, <2>1
    <2>3. DOMAIN queue = 1 .. m
      BY LenProperties
    <2>4. QED
      BY <2>2, <2>3 DEF AllPlaced
  <1>7. ASSUME NEW a \in Acks(SubSeq(queue, 1, n))
        PROVE  Kept(a, t, gone)
    <2>1. PICK i \in 1 .. n : a \in AckOf(queue[i])
      BY <1>2, FrontAcks
    <2>2. i \in DOMAIN queue /\ queue[i] \in Parked /\ queue[i].last \in Nat
      <3>1. i \in 1 .. m /\ DOMAIN queue = 1 .. m
        BY <1>1, <1>2, LenProperties
      <3>2. queue[i] \in Parked
        BY <1>4, <3>1
      <3>3. QED
        BY <3>1, <3>2 DEF Parked
    <2>3. a.offset \in Int /\ a.offset <= t.durable
      BY <1>1, <1>2, <2>1, <2>2, AckOffsets
    <2>4. Placed(a, t, gone)
      BY <2>1, <2>2 DEF AllPlaced
    <2>5. QED
      BY <1>1, <2>3, <2>4 DEF Placed, Kept
  <1>8. QED
    BY <1>3, <1>5, <1>6, <1>7 DEF AllKept

\* A shorter log keeps what is not cut.  Acks stay placed when the durable end
\* moves with the log.
LEMMA CutKeeps ==
  ASSUME StoreOK(store), NEW n \in 0 .. Size, NEW t, StoreOK(t),
         t.log = SubSeq(store.log, 1, n), t.synced = Min({store.synced, n}),
         NEW gone, gone = cut \cup Ids(SubSeq(store.log, n + 1, Size)), NEW a
  PROVE  /\ Kept(a, store, cut) => Kept(a, t, gone)
         /\ t.durable = Min({store.durable, n}) /\ Placed(a, store, cut)
              => Placed(a, t, gone)
  <1> DEFINE tail == SubSeq(store.log, n + 1, Size)
  <1>1. /\ store.log \in Seq(LogRecord) /\ Size \in Nat /\ Size = Len(store.log)
        /\ store.synced \in Nat /\ store.durable \in Nat
        /\ store.synced <= Size
        /\ \A i \in 1 .. Size : store.log[i] \in LogRecord
    BY ElementOfSeq DEF StoreOK, Store, Size
  <1>2. /\ Len(t.log) = n
        /\ \A i \in 1 .. n : t.log[i] = store.log[1 + i - 1]
    BY <1>1, SubSeqProperties
  <1>3. ASSUME NEW i \in n + 1 .. Size
        PROVE  store.log[i].id \in gone
    <2>1. \A j \in n + 1 .. Size : store.log[j] \in LogRecord
      BY <1>1
    <2>2. n + 1 \in Int /\ Size \in Int
      BY <1>1
    <2>3. /\ tail \in Seq(LogRecord)
          /\ Len(tail) = IF n + 1 <= Size THEN Size - (n + 1) + 1 ELSE 0
          /\ \A j \in 1 .. Size - (n + 1) + 1 : tail[j] = store.log[n + 1 + j - 1]
      BY <2>1, <2>2, SubSeqProperties
    <2>4. DOMAIN tail = 1 .. Len(tail)
      BY <2>3, LenProperties
    <2> HIDE DEF tail
    <2>5. i - n \in DOMAIN tail /\ tail[i - n] = store.log[i]
      BY <1>1, <2>3, <2>4
    <2>6. tail[i - n].id \in Ids(tail)
      BY <2>5 DEF Ids
    <2>7. QED
      BY <2>5, <2>6 DEF tail
  <1>4. /\ Min({store.synced, n}) = IF store.synced <= n THEN store.synced ELSE n
        /\ Min({store.durable, n}) = IF store.durable <= n THEN store.durable ELSE n
    <2>1. n \in Nat
      BY <1>1
    <2> HIDE DEF tail
    <2>2. Min({store.synced, n}) = IF store.synced <= n THEN store.synced ELSE n
      BY <1>1, <2>1, MinOfTwo
    <2>3. Min({store.durable, n}) = IF store.durable <= n THEN store.durable ELSE n
      BY <1>1, <2>1, MinOfTwo
    <2>4. QED
      BY <2>2, <2>3
  <1>5. \A i \in 1 .. n : t.log[i] = store.log[i]
    BY <1>1, <1>2
  <1>6. Kept(a, store, cut) => Kept(a, t, gone)
    BY <1>1, <1>3, <1>4, <1>5 DEF Kept
  <1>7. ASSUME t.durable = Min({store.durable, n}), Placed(a, store, cut)
        PROVE  Placed(a, t, gone)
    <2>1. CASE a.id \in cut
      BY <2>1 DEF Placed
    <2>2. CASE a.offset \in n + 1 .. Size /\ store.log[a.offset].id = a.id
      BY <1>3, <2>2 DEF Placed
    <2>3. CASE /\ a.offset \in 1 .. n /\ store.log[a.offset].id = a.id
               /\ a.offset <= store.durable => a.offset <= store.synced
      BY <1>1, <1>2, <1>4, <1>5, <1>7, <2>3 DEF Placed
    <2>4. QED
      BY <1>1, <1>7, <2>1, <2>2, <2>3 DEF Placed
  <1>8. QED
    BY <1>6, <1>7

------------------------------------------------------------------------------
(* The checkpoint *)

\* RecordEpoch keeps the checkpoint loadable: epochs strictly increase and
\* starts never go back.
LEMMA RecordEpochOrdered ==
  ASSUME NEW es, EntriesOK(es), NEW e \in 1 .. MaxEpoch, NEW n \in Nat
  PROVE  EntriesOK(RecordEpoch(es, e, n))
  <1>1. CASE RecordEpoch(es, e, n) = es
    BY <1>1
  <1>2. CASE RecordEpoch(es, e, n) = Append(es, Entry(e, n)) /\ Continues(es, e, n)
    <2> DEFINE t == Append(es, Entry(e, n))
               m == Len(es)
    <2>1. Entry(e, n) \in CheckpointEntry /\ Entry(e, n).epoch = e /\ Entry(e, n).start = n
      BY DEF Entry, CheckpointEntry
    <2>2. es \in Seq(CheckpointEntry) /\ m \in Nat /\ DOMAIN es = 1 .. m
      BY LenProperties DEF EntriesOK
    <2>3. /\ t \in Seq(CheckpointEntry) /\ Len(t) = m + 1
          /\ \A i \in 1 .. m : t[i] = es[i]
          /\ t[m + 1] = Entry(e, n)
      BY <2>1, <2>2, AppendProperties
    <2>4. DOMAIN t = 1 .. m + 1
      BY <2>3, LenProperties
    <2> HIDE DEF t
    <2>5. \A i \in 1 .. m : es[i].epoch \in Nat /\ es[i].start \in Nat
      <3>1. \A i \in 1 .. m : es[i] \in CheckpointEntry
        BY <2>2, ElementOfSeq
      <3>2. QED
        BY <3>1 DEF CheckpointEntry
    <2>6. ASSUME NEW i \in 1 .. m
          PROVE  es[i].epoch < e /\ es[i].start <= n
      <3>1. m \in 1 .. m /\ es # <<>>
        BY <2>2
      <3>2. e > es[m].epoch /\ n >= es[m].start
        BY <1>2, <3>1 DEF Continues, Last
      <3>3. i < m => es[i].epoch < es[m].epoch /\ es[i].start <= es[m].start
        BY <2>2, <3>1 DEF EntriesOK
      <3>4. QED
        BY <2>2, <2>5, <3>1, <3>2, <3>3
    <2>7. ASSUME NEW i \in 1 .. m + 1, NEW j \in 1 .. m + 1, i < j
          PROVE  t[i].epoch < t[j].epoch /\ t[i].start <= t[j].start
      <3>1. CASE j = m + 1
        BY <2>1, <2>2, <2>3, <2>6, <2>7, <3>1
      <3>2. CASE j \in 1 .. m
        BY <2>2, <2>3, <2>7, <3>2 DEF EntriesOK
      <3>3. QED
        BY <2>2, <3>1, <3>2
    <2>8. QED
      BY <1>2, <2>3, <2>4, <2>7 DEF EntriesOK, t
  <1>3. QED
    BY <1>1, <1>2 DEF RecordEpoch

\* So does TruncateTo, which keeps a prefix.
LEMMA TruncateToOrdered ==
  ASSUME NEW es, EntriesOK(es), NEW n \in Nat
  PROVE  EntriesOK(TruncateTo(es, n))
  <1> DEFINE T == {i \in DOMAIN es : es[i].start >= n}
             k == Min(T) - 1
             t == SubSeq(es, 1, k)
  <1>1. CASE T = {}
    BY <1>1 DEF TruncateTo
  <1>2. CASE T # {}
    <2>1. es \in Seq(CheckpointEntry) /\ Len(es) \in Nat /\ DOMAIN es = 1 .. Len(es)
      BY LenProperties DEF EntriesOK
    <2>2. Min(T) \in 1 .. Len(es)
      <3>1. T \in SUBSET Nat
        BY <2>1
      <3>2. Min(T) \in T
        BY <1>2, <3>1, MinIsLeast
      <3>3. QED
        BY <2>1, <3>2
    <2>3. TruncateTo(es, n) = t
      BY <1>2 DEF TruncateTo
    <2>4. k \in 0 .. Len(es)
      BY <2>1, <2>2
    <2> HIDE DEF T, k
    <2>5. /\ t \in Seq(CheckpointEntry) /\ Len(t) = k
          /\ \A i \in 1 .. k : t[i] = es[1 + i - 1]
      <3>1. \A i \in 1 .. k : es[i] \in CheckpointEntry
        BY <2>1, <2>4, ElementOfSeq
      <3>2. QED
        BY <2>1, <2>4, <3>1, SubSeqProperties
    <2>6. DOMAIN t = 1 .. k
      BY <2>5, LenProperties
    <2> HIDE DEF t
    <2>7. \A i \in 1 .. k : t[i] = es[i]
      BY <2>4, <2>5
    <2>8. \A i, j \in 1 .. k :
             i < j => t[i].epoch < t[j].epoch /\ t[i].start <= t[j].start
      BY <2>1, <2>4, <2>7 DEF EntriesOK
    <2>9. QED
      BY <2>3, <2>5, <2>6, <2>8 DEF EntriesOK
  <1>3. QED
    BY <1>1, <1>2

\* The epoch on file is 0 when there is none.
LEMMA CurrentEpochType ==
  ASSUME NEW es, EntriesOK(es)
  PROVE  CurrentEpoch(es) \in 0 .. MaxEpoch
  <1>1. MaxEpoch \in Nat
    BY PartitionAssumption
  <1>2. CASE es = <<>>
    BY <1>1, <1>2 DEF CurrentEpoch
  <1>3. CASE es # <<>>
    <2>1. es \in Seq(CheckpointEntry)
      BY DEF EntriesOK
    <2>2. Len(es) \in 1 .. Len(es)
      BY <1>3, <2>1, EmptySeq
    <2>3. es[Len(es)] \in CheckpointEntry
      BY <2>1, <2>2, ElementOfSeq
    <2>4. QED
      BY <1>1, <1>3, <2>3 DEF CurrentEpoch, Last, CheckpointEntry
  <1>4. QED
    BY <1>2, <1>3

------------------------------------------------------------------------------
(* The channel *)

\* A sender that enqueues a proper command keeps the channel proper.
LEMMA SendStep ==
  ASSUME TypeInv, NEW c \in Command, CommandOK(Len(inbox) + 1, c, Size), Send(c)
  PROVE  InboxOK(inbox', Size)
  <1>1. /\ inbox \in Seq(Command) /\ Len(inbox) \in Nat /\ DOMAIN inbox = 1 .. Len(inbox)
        /\ inbox' = Append(inbox, c) /\ Len(inbox) < MaxInbox
    BY LenProperties DEF TypeInv, InboxOK, Send
  <1>2. /\ inbox' \in Seq(Command) /\ Len(inbox') = Len(inbox) + 1
        /\ \A i \in 1 .. Len(inbox) : inbox'[i] = inbox[i]
        /\ inbox'[Len(inbox) + 1] = c
    BY <1>1, AppendProperties
  <1>3. DOMAIN inbox' = 1 .. Len(inbox) + 1
    BY <1>2, LenProperties
  <1>4. ASSUME NEW i \in DOMAIN inbox'
        PROVE  CommandOK(i, inbox'[i], Size)
    <2>1. CASE i \in 1 .. Len(inbox)
      BY <1>1, <1>2, <2>1 DEF TypeInv, InboxOK
    <2>2. CASE i = Len(inbox) + 1
      BY <1>2, <2>2
    <2>3. QED
      BY <1>1, <1>3, <2>1, <2>2
  <1>5. QED
    BY <1>1, <1>2, <1>4, PartitionAssumption DEF InboxOK

\* The command the thread takes is proper, and no truncation is behind it.
LEMMA TakeStep ==
  ASSUME TypeInv, NEW kind, Take(kind)
  PROVE  /\ Cmd \in Command /\ Cmd.do = kind /\ CommandOK(1, Cmd, Size)
         /\ \A size : InboxOK(inbox', size)
  <1>1. /\ inbox \in Seq(Command) /\ Len(inbox) \in Nat /\ DOMAIN inbox = 1 .. Len(inbox)
        /\ inbox # <<>> /\ inbox' = Tail(inbox) /\ Len(inbox) <= MaxInbox /\ Cmd.do = kind
    BY LenProperties DEF TypeInv, InboxOK, Take
  <1>2. /\ Len(inbox) # 0
        /\ inbox' \in Seq(Command) /\ Len(inbox') = Len(inbox) - 1
        /\ \A i \in 1 .. Len(inbox') : inbox'[i] = inbox[i + 1]
    BY <1>1, EmptySeq, HeadTailProperties
  <1>3. Cmd = inbox[1] /\ 1 \in DOMAIN inbox
    BY <1>1, <1>2 DEF Cmd
  <1>4. Cmd \in Command /\ CommandOK(1, Cmd, Size)
    BY <1>1, <1>3, ElementOfSeq DEF TypeInv, InboxOK
  <1>5. DOMAIN inbox' = 1 .. Len(inbox')
    BY <1>2, LenProperties
  <1>6. ASSUME NEW i \in DOMAIN inbox', NEW size
        PROVE  CommandOK(i, inbox'[i], size)
    <2>1. i + 1 \in DOMAIN inbox /\ i + 1 # 1 /\ inbox'[i] = inbox[i + 1]
      BY <1>1, <1>2, <1>5, <1>6
    <2>2. CommandOK(i + 1, inbox[i + 1], Size)
      BY <2>1 DEF TypeInv, InboxOK
    <2>3. QED
      BY <2>1, <2>2 DEF CommandOK
  <1>7. Len(inbox') <= MaxInbox
    BY <1>1, <1>2, PartitionAssumption
  <1>8. QED
    BY <1>1, <1>2, <1>4, <1>6, <1>7 DEF InboxOK

------------------------------------------------------------------------------
(* The senders *)

\* A sender touches the channel and its own side of the state only.
LEMMA SendersStep ==
  ASSUME IndInv, Sending, InboxOK(inbox', Size), SenderOK'
  PROVE  IndInv'
  <1>1. /\ policy' = policy /\ store' = store /\ entries' = entries /\ armed' = armed
        /\ pending' = pending /\ promised' = promised /\ cut' = cut /\ deposed' = deposed
    BY DEF Sending
  <1>2. Size' = Size
    BY <1>1 DEF Size
  <1>3. TypeInv'
    BY <1>1, <1>2 DEF IndInv, TypeInv
  <1>4. AckInv'
    BY <1>1 DEF IndInv, AckInv
  <1>5. QED
    BY <1>3, <1>4 DEF IndInv

\* append_start and append_no_reply.
LEMMA SendAppendInd ==
  ASSUME IndInv, NEW n \in 1 .. MaxBatch, NEW acks \in {"written", "durable"},
         NEW good \in 0 .. n, SendAppend(n, good, acks)
  PROVE  IndInv'
  <1> DEFINE c == [do |-> "append", ids |-> Fresh(n), good |-> good,
                   acks |-> acks, epoch |-> epoch]
             r == count.records
  <1>1. MaxBatch \in Nat /\ MaxRecords \in Nat /\ SenderOK
    BY PartitionAssumption DEF IndInv, TypeInv
  <1>2. /\ r + n <= MaxRecords /\ Send(c) /\ count' = [count EXCEPT !.records = @ + n]
        /\ UNCHANGED <<epoch, leads, stage, local, stray>> /\ Sending
        /\ lapses' \subseteq lapses \cup {"early"} /\ stage # "out"
    BY DEF SendAppend
  <1>3. n \in Nat /\ n > 0 /\ r \in Nat /\ r + n \in 0 .. MaxRecords
    BY <1>1, <1>2 DEF SenderOK
  <1>4. Fresh(n) \in Seq(1 .. MaxRecords) /\ Len(Fresh(n)) = n
    <2>1. \A i \in 1 .. n : r + i \in 1 .. MaxRecords
      BY <1>1, <1>2, <1>3
    <2>2. Fresh(n) = [i \in 1 .. n |-> r + i]
      BY DEF Fresh
    <2>3. QED
      BY <1>3, <2>1, <2>2
  <1>5. c \in Command
    <2> HIDE DEF r
    <2>1. good \in Nat
      BY <1>3
    <2>2. epoch \in 1 .. MaxEpoch
      BY <1>1, <1>2 DEF SenderOK
    <2>3. QED
      BY <1>4, <2>1, <2>2 DEF Command
  <1>6. CommandOK(Len(inbox) + 1, c, Size)
    BY <1>3, <1>4 DEF CommandOK
  <1> HIDE DEF c
  <1>7. InboxOK(inbox', Size)
    BY <1>2, <1>5, <1>6, SendStep DEF IndInv
  <1>8. SenderOK'
    BY <1>1, <1>2, <1>3 DEF SenderOK, Lapses
  <1>9. QED
    BY <1>2, <1>7, <1>8, SendersStep

\* append_replicated, sent or held back by a task that was stopped.
LEMMA SendReplicatedInd ==
  ASSUME IndInv, NEW w \in 1 .. MaxEpoch, SendReplicated(w)
  PROVE  IndInv'
  <1> DEFINE c == [do |-> "replicated", id |-> count.records + 1, base |-> Size,
                   epoch |-> w, came |-> epoch]
  <1>1. /\ MaxRecords \in Nat /\ Size \in Nat /\ SenderOK
        /\ MaxEpoch \in Nat /\ InboxOK(inbox, Size)
    BY PartitionAssumption DEF IndInv, TypeInv, StoreOK, Store, Size
  <1>2. /\ count.records < MaxRecords
        /\ count' = [count EXCEPT !.records = @ + 1]
        /\ UNCHANGED <<epoch, leads>> /\ Sending /\ stage # "out"
        /\ \/ Send(c) /\ UNCHANGED <<stage, local, stray, lapses>>
           \/ /\ stray' = <<c>> /\ stage' = "out" /\ local' = 0
              /\ lapses' = lapses \cup {"late"} /\ UNCHANGED inbox
    BY DEF SendReplicated
  <1>3. count.records + 1 \in 1 .. MaxRecords
    BY <1>1, <1>2 DEF SenderOK
  <1>4. c \in Replicated
    <2>1. epoch \in 1 .. MaxEpoch
      BY <1>1, <1>2 DEF SenderOK
    <2>2. QED
      BY <1>1, <1>3, <2>1 DEF Replicated
  <1>5. c \in Command /\ CommandOK(Len(inbox) + 1, c, Size)
    BY <1>4 DEF Command, Replicated, CommandOK
  <1> HIDE DEF c
  <1>6. InboxOK(inbox', Size)
    BY <1>1, <1>2, <1>5, SendStep DEF IndInv
  <1>7. count' \in [records : 0 .. MaxRecords, crashes : Nat, cuts : Nat]
    BY <1>1, <1>2, <1>3 DEF SenderOK
  <1>8. stray' \in Seq(Replicated)
    <2>1. <<c>> \in Seq(Replicated)
      BY <1>4
    <2>2. QED
      BY <1>1, <1>2, <2>1 DEF SenderOK
  <1>9. SenderOK'
    BY <1>1, <1>2, <1>7, <1>8 DEF SenderOK, Lapses, Stages
  <1>10. QED
    BY <1>2, <1>6, <1>9, SendersStep

\* truncate_to: the channel is empty, so the command is the first and its end
\* is inside the log.
LEMMA SendTruncateInd ==
  ASSUME IndInv, NEW n \in 0 .. MaxRecords, SendTruncate(n)
  PROVE  IndInv'
  <1> DEFINE c == [do |-> "truncate", to |-> n]
  <1>1. SenderOK /\ MaxRecords \in Nat
    BY PartitionAssumption DEF IndInv, TypeInv
  <1>2. /\ inbox = <<>> /\ n < Size /\ Send(c)
        /\ count' = [count EXCEPT !.cuts = @ + 1] /\ stage' = "fetch" /\ stage # "out"
        /\ lapses' \subseteq lapses \cup {"dropped"}
        /\ UNCHANGED <<epoch, leads, local, stray>> /\ Sending
    BY DEF SendTruncate
  <1>3. c \in Command
    BY <1>1 DEF Command
  <1>4. Len(inbox) + 1 = 1
    BY <1>2
  <1>5. CommandOK(Len(inbox) + 1, c, Size)
    BY <1>2, <1>4 DEF CommandOK
  <1> HIDE DEF c
  <1>6. InboxOK(inbox', Size)
    BY <1>2, <1>3, <1>5, SendStep DEF IndInv
  <1>7. count' \in [records : 0 .. MaxRecords, crashes : Nat, cuts : Nat]
    BY <1>1, <1>2 DEF SenderOK
  <1>8. SenderOK'
    BY <1>1, <1>2, <1>7 DEF SenderOK, Lapses, Stages
  <1>9. QED
    BY <1>2, <1>6, <1>8, SendersStep

\* A change of role, and the fetcher's steps that send nothing.
LEMMA RolesInd ==
  ASSUME IndInv,
         \/ \E e \in 1 .. MaxEpoch : TakeLead(e) \/ Follow(e)
         \/ LearnLocal \/ Reconciled
  PROVE  IndInv'
  <1>1. SenderOK /\ MaxEpoch \in Nat /\ EntriesOK(entries) /\ InboxOK(inbox, Size)
    BY PartitionAssumption DEF IndInv, TypeInv
  <1>2. CurrentEpoch(entries) \in 0 .. MaxEpoch
    BY <1>1, CurrentEpochType
  <1>3. /\ Sending /\ UNCHANGED <<inbox, count, stray, lapses>>
        /\ stage' \in Stages /\ leads' \in BOOLEAN /\ epoch' # 0
        /\ epoch' \in 0 .. MaxEpoch /\ local' \in 0 .. MaxEpoch
    <2>1. ASSUME NEW e \in 1 .. MaxEpoch, TakeLead(e) \/ Follow(e)
          PROVE  /\ Sending /\ UNCHANGED <<inbox, count, stray, lapses>>
                 /\ stage' \in {"due", "join"} /\ leads' \in BOOLEAN /\ epoch' = e /\ local' = 0
      BY <2>1 DEF TakeLead, Follow
    <2>2. CASE LearnLocal
      BY <1>1, <1>2, <2>2 DEF LearnLocal, SenderOK, Stages
    <2>3. CASE Reconciled
      BY <1>1, <2>3 DEF Reconciled, SenderOK, Stages
    <2>4. QED
      BY <1>1, <2>1, <2>2, <2>3 DEF Stages
  <1>4. SenderOK'
    BY <1>1, <1>3 DEF SenderOK
  <1>5. QED
    BY <1>1, <1>3, <1>4, SendersStep

\* record_epoch, a late append_replicated, and the commands that only read.
LEMMA SendOthersInd ==
  ASSUME IndInv, SendEpoch \/ SendStray \/ SendQuery
  PROVE  IndInv'
  <1>1. SenderOK /\ MaxEpoch \in Nat
    BY PartitionAssumption DEF IndInv, TypeInv
  <1>2. CASE SendEpoch
    <2> DEFINE c == [do |-> "epoch", epoch |-> epoch]
    <2>1. /\ Send(c) /\ UNCHANGED <<epoch, leads, stray, count, lapses>> /\ Sending
          /\ stage' \in Stages /\ local' \in {local, epoch} /\ epoch # 0
      BY <1>1, <1>2 DEF SendEpoch, SenderOK, Stages
    <2>2. c \in Command /\ CommandOK(Len(inbox) + 1, c, Size)
      <3>1. epoch \in 1 .. MaxEpoch
        BY <1>1, <2>1 DEF SenderOK
      <3>2. QED
        BY <3>1 DEF Command, CommandOK
    <2> HIDE DEF c
    <2>3. InboxOK(inbox', Size)
      BY <2>1, <2>2, SendStep DEF IndInv
    <2>4. SenderOK'
      BY <1>1, <2>1 DEF SenderOK
    <2>5. QED
      BY <2>1, <2>3, <2>4, SendersStep
  <1>3. CASE SendStray
    <2>1. /\ stray # <<>> /\ Send(stray[1]) /\ stray' = <<>>
          /\ UNCHANGED <<epoch, leads, stage, local, count, lapses>> /\ Sending
      BY <1>3 DEF SendStray
    <2>2. stray[1] \in Replicated
      BY <1>1, <2>1, EmptySeq, ElementOfSeq DEF SenderOK
    <2>3. stray[1] \in Command /\ CommandOK(Len(inbox) + 1, stray[1], Size)
      BY <2>2 DEF Command, Replicated, CommandOK
    <2>4. InboxOK(inbox', Size)
      BY <2>1, <2>3, SendStep DEF IndInv
    <2>5. SenderOK'
      BY <1>1, <2>1, EmptySeq DEF SenderOK
    <2>6. QED
      BY <2>1, <2>4, <2>5, SendersStep
  <1>4. CASE SendQuery
    <2> DEFINE c == [do |-> "query"]
    <2>1. Send(c) /\ UNCHANGED <<env, lapses>> /\ Sending
      BY <1>4 DEF SendQuery
    <2>2. c \in Command /\ CommandOK(Len(inbox) + 1, c, Size)
      BY DEF Command, CommandOK
    <2> HIDE DEF c
    <2>3. InboxOK(inbox', Size)
      BY <2>1, <2>2, SendStep DEF IndInv
    <2>4. SenderOK'
      BY <1>1, <2>1 DEF SenderOK, env
    <2>5. QED
      BY <2>1, <2>3, <2>4, SendersStep
  <1>5. QED
    BY <1>2, <1>3, <1>4

------------------------------------------------------------------------------
(* The thread *)

\* What a command leaves alone, and what is left to show of one.
LEMMA HandlerStep ==
  ASSUME IndInv, NEW kind, Take(kind), StoreOK(store'), EntriesOK(entries'),
         pending' \in Seq(Parked), armed' \in BOOLEAN, deposed' \in BOOLEAN, AckInv'
  PROVE  IndInv'
  <1>1. policy' = policy /\ UNCHANGED <<env, lapses>>
    BY DEF Take
  <1>2. InboxOK(inbox', Size')
    BY TakeStep DEF IndInv
  <1>3. TypeInv'
    BY <1>1, <1>2 DEF IndInv, TypeInv, SenderOK, env
  <1>4. QED
    BY <1>3 DEF IndInv

\* Cmd::Append: the new ack is placed behind the old end of the log.  It is sent
\* at once only if the append itself flushed: an end of the log that counted as
\* durable before is smaller than its last offset.
LEMMA HandleAppendInd ==
  ASSUME IndInv, HandleAppend
  PROVE  IndInv'
  <1> DEFINE good == Cmd.good
             ids == Cmd.ids
             records == [i \in 1 .. good |-> Record(ids[i], Cmd.epoch, Cmd.epoch)]
             s == Appended(records)
             ack == [ids |-> ids, last |-> Len(s.log)]
             waits == good = Len(ids) /\ Cmd.acks = "durable" /\ policy # "os"
             now == waits /\ s.durable >= ack.last
             queue == IF waits /\ ~now THEN Append(pending, ack) ELSE pending
             acks == IF now THEN AckOf(ack) ELSE {}
  <1>1. Take("append")
    BY DEF HandleAppend
  <1>2. /\ store' = s /\ armed' = (IsDirty(s) /\ policy = "batch")
        /\ Drain(queue, s.durable, acks)
        /\ entries' = entries /\ cut' = cut /\ deposed' = deposed
    BY DEF HandleAppend, Rearm
  <1>3. StoreOK(store) /\ EntriesOK(entries) /\ pending \in Seq(Parked) /\ deposed \in BOOLEAN
    BY DEF IndInv, TypeInv
  <1>4. Cmd \in Command /\ Cmd.do = "append" /\ CommandOK(1, Cmd, Size)
    BY <1>1, TakeStep DEF IndInv
  <1>5. /\ ids \in Seq(1 .. MaxRecords) /\ good \in Nat /\ Cmd.epoch \in 1 .. MaxEpoch
        /\ Len(ids) > 0 /\ good <= Len(ids)
    BY <1>4 DEF Command, Replicated, CommandOK
  <1>6. Len(ids) \in Nat /\ \A i \in 1 .. Len(ids) : ids[i] \in 1 .. MaxRecords
    <2> HIDE DEF ids
    <2>1. Len(ids) \in Nat
      BY <1>5
    <2>2. QED
      BY <1>5, <2>1, ElementOfSeq
  <1>7. records \in Seq(LogRecord) /\ Len(records) = good
    <2>1. ASSUME NEW i \in 1 .. good
          PROVE  Record(ids[i], Cmd.epoch, Cmd.epoch) \in LogRecord
      <3>1. ids[i] \in 1 .. MaxRecords
        BY <1>5, <1>6
      <3>2. QED
        BY <1>5, <3>1 DEF Record, LogRecord
    <2> HIDE DEF good, ids
    <2>2. QED
      BY <1>5, <2>1
  <1>8. \A i \in 1 .. good : records[i].id = ids[i]
    BY DEF Record
  <1> HIDE DEF records, good, ids
  <1>9. /\ Grown(store, s) /\ Len(s.log) = Size + good
        /\ \A j \in 1 .. good : s.log[Size + j] = records[j]
    BY <1>3, <1>7, AppendStep
  <1>10. /\ StoreOK(s) /\ Size \in Nat /\ Size = Len(store.log)
         /\ s.durable \in Nat /\ s.synced \in Nat /\ Len(s.log) \in Nat
         /\ store.durable \in Nat /\ store.durable <= Size
    BY <1>3, <1>9 DEF Grown, StoreOK, Store, Size
  <1> HIDE DEF s
  <1>11. ack \in Parked
    BY <1>5, <1>10 DEF Parked
  <1>12. ASSUME waits, NEW a \in AckOf(ack)
         PROVE  Placed(a, s, cut) /\ (now => Kept(a, s, cut))
    <2>1. PICK i \in DOMAIN ack.ids :
            a = [id |-> ack.ids[i], offset |-> ack.last - Len(ack.ids) + i]
      BY <1>12 DEF AckOf
    <2>2. i \in 1 .. good /\ a.id = ids[i] /\ a.offset = ack.last - Len(ids) + i
      BY <1>5, <1>12, <2>1, LenProperties
    <2>3. a.offset = Size + i
      <3>1. ack.last = Size + good /\ Len(ids) = good
        BY <1>9, <1>12
      <3> HIDE DEF ack
      <3>2. QED
        BY <1>5, <1>10, <2>2, <3>1
    <2>4. s.log[a.offset].id = a.id /\ a.offset \in 1 .. Len(s.log) /\ a.offset > Size
      <3>1. s.log[Size + i] = records[i] /\ records[i].id = ids[i]
        BY <1>8, <1>9, <2>2
      <3>2. Size + i \in 1 .. Len(s.log) /\ Size + i > Size
        <4>1. good \in Nat /\ i \in 1 .. good /\ Len(s.log) = Size + good
          BY <1>5, <1>9, <2>2
        <4>2. QED
          BY <1>10, <4>1
      <3>3. QED
        BY <2>2, <2>3, <3>1, <3>2
    <2>5. a.offset <= s.durable => a.offset <= s.synced
      BY <1>9, <1>10, <2>3, <2>4 DEF Grown
    <2>6. now => a.offset <= s.durable
      BY <1>10, <2>3, <2>4
    <2>7. QED
      BY <1>10, <2>3, <2>4, <2>5, <2>6 DEF Placed, Kept
  <1>13. AllPlaced(pending, s, cut) /\ AllKept(promised, s, cut)
    BY <1>3, <1>9, GrownKeeps DEF IndInv, AckInv, AllPlaced, AllKept
  <1>14. queue \in Seq(Parked) /\ AllPlaced(queue, s, cut)
    <2>1. CASE ~ (waits /\ ~now)
      <3>1. queue = pending
        BY <2>1
      <3>2. QED
        BY <1>3, <1>13, <3>1
    <2>2. CASE waits /\ ~now
      <3> DEFINE m == Len(pending)
      <3>1. queue = Append(pending, ack)
        BY <2>2
      <3> HIDE DEF queue, ack, waits, now
      <3>2. /\ queue \in Seq(Parked) /\ m \in Nat /\ Len(queue) = m + 1
            /\ \A i \in 1 .. m : queue[i] = pending[i]
            /\ queue[m + 1] = ack
        BY <1>3, <1>11, <3>1, AppendProperties
      <3>3. DOMAIN queue = 1 .. m + 1 /\ DOMAIN pending = 1 .. m
        BY <1>3, <3>2, LenProperties
      <3>4. ASSUME NEW i \in DOMAIN queue
            PROVE  \A a \in AckOf(queue[i]) : Placed(a, s, cut)
        <4>1. CASE i = m + 1
          BY <1>12, <2>2, <3>2, <4>1
        <4>2. CASE i \in 1 .. m
          BY <1>13, <3>2, <3>3, <4>2 DEF AllPlaced
        <4>3. QED
          BY <3>2, <3>3, <4>1, <4>2
      <3>5. QED
        BY <3>2, <3>4 DEF AllPlaced
    <2>3. QED
      BY <2>1, <2>2
  <1>15. AllKept(acks, s, cut)
    BY <1>12 DEF AllKept
  <1> HIDE DEF queue, acks
  <1>16. pending' \in Seq(Parked) /\ AllPlaced(pending', s, cut) /\ AllKept(promised', s, cut)
    BY <1>2, <1>10, <1>13, <1>14, <1>15, DrainStep
  <1>17. AckInv'
    BY <1>2, <1>16 DEF AckInv
  <1>18. QED
    BY <1>1, <1>2, <1>3, <1>10, <1>16, <1>17, HandlerStep

\* Cmd::AppendReplicated
LEMMA HandleReplicatedInd ==
  ASSUME IndInv, HandleReplicated
  PROVE  IndInv'
  <1> DEFINE records == <<Record(Cmd.id, Cmd.epoch, Cmd.came)>>
             s == IF Cmd.base = Size THEN Appended(records) ELSE store
  <1>1. Take("replicated")
    BY DEF HandleReplicated
  <1>2. /\ store' = s /\ armed' = (IsDirty(s) /\ policy = "batch")
        /\ entries' = entries /\ pending' = pending /\ promised' = promised /\ cut' = cut
        /\ deposed' = (deposed \/ pending # <<>>)
    BY DEF HandleReplicated, Rearm, NoteFollower
  <1>3. StoreOK(store) /\ EntriesOK(entries) /\ pending \in Seq(Parked) /\ deposed \in BOOLEAN
    BY DEF IndInv, TypeInv
  <1>4. Cmd \in Command /\ Cmd.do = "replicated"
    BY <1>1, TakeStep DEF IndInv
  <1>5. Cmd.id \in 1 .. MaxRecords /\ Cmd.epoch \in 1 .. MaxEpoch /\ Cmd.came \in 1 .. MaxEpoch
    BY <1>4, PartitionAssumption DEF Command, Replicated
  <1>6. records \in Seq(LogRecord)
    <2>1. Record(Cmd.id, Cmd.epoch, Cmd.came) \in LogRecord
      BY <1>5 DEF Record, LogRecord
    <2>2. QED
      BY <2>1
  <1> HIDE DEF records
  <1>7. Grown(store, s)
    <2>1. Grown(store, store)
      BY <1>3 DEF Grown, StoreOK, Store
    <2>2. QED
      BY <1>3, <1>6, <2>1, AppendStep
  <1> HIDE DEF s
  <1>8. AllPlaced(pending, s, cut) /\ AllKept(promised, s, cut)
    BY <1>3, <1>7, GrownKeeps DEF IndInv, AckInv, AllPlaced, AllKept
  <1>9. AckInv'
    BY <1>2, <1>8 DEF AckInv
  <1>10. StoreOK(s)
    BY <1>7 DEF Grown
  <1>11. QED
    BY <1>1, <1>2, <1>3, <1>9, <1>10, HandlerStep

\* Log::truncate_suffix as a record of its fields.
LEMMA CutStep ==
  ASSUME StoreOK(store), NEW n \in Nat, n < Size
  PROVE  /\ StoreOK(Cut(n)) /\ Cut(n).log = SubSeq(store.log, 1, n)
         /\ Cut(n).synced = Min({store.synced, n}) /\ Cut(n).durable = Min({store.durable, n})
  <1> DEFINE l == SubSeq(store.log, 1, n)
             a == Min({store.synced, n})
             b == Min({store.durable, n})
             L == Seq(LogRecord)
  <1>1. /\ store.log \in Seq(LogRecord) /\ Size \in Nat /\ Size = Len(store.log)
        /\ store.synced \in Nat /\ store.durable \in Nat
        /\ store \in [log : L, synced : Nat, durable : Nat, dirty : Nat]
        /\ \A i \in 1 .. Size : store.log[i] \in LogRecord
    BY ElementOfSeq DEF StoreOK, Store, Size
  <1>2. l \in Seq(LogRecord) /\ Len(l) = n
    BY <1>1, SubSeqProperties
  <1>3. a \in Nat /\ a <= n /\ b \in Nat /\ b <= n
    BY <1>1, MinOfTwo
  <1>4. Cut(n) = [store EXCEPT !.log = l, !.synced = a, !.durable = b]
    BY <1>1 DEF Cut
  <1> HIDE DEF l, a, b
  <1>5. /\ Cut(n).log = l /\ Cut(n).synced = a /\ Cut(n).durable = b
        /\ Cut(n) \in [log : L, synced : Nat, durable : Nat, dirty : Nat]
    <2> HIDE DEF L
    <2>1. l \in L
      BY <1>2 DEF L
    <2>2. store \in [log : L, synced : Nat, durable : Nat, dirty : Nat]
      BY <1>1
    <2>3. Cut(n) = [log |-> l, synced |-> a, durable |-> b, dirty |-> store.dirty]
      BY <1>4, <2>2
    <2>4. store.dirty \in Nat
      BY <2>2
    <2>5. QED
      BY <1>3, <2>1, <2>3, <2>4
  <1>6. QED
    BY <1>2, <1>3, <1>5 DEF StoreOK, Store, l, a, b

\* Cmd::TruncateTo
LEMMA HandleTruncateInd ==
  ASSUME IndInv, HandleTruncate
  PROVE  IndInv'
  <1> DEFINE n == Cmd.to
             gone == cut \cup Ids(SubSeq(store.log, n + 1, Size))
  <1>1. Take("truncate")
    BY DEF HandleTruncate
  <1>2. /\ store' = Cut(n) /\ entries' = TruncateTo(entries, n) /\ cut' = gone
        /\ armed' = armed /\ pending' = pending /\ promised' = promised
        /\ deposed' = (deposed \/ pending # <<>>)
    BY DEF HandleTruncate, NoteFollower
  <1>3. /\ StoreOK(store) /\ EntriesOK(entries) /\ pending \in Seq(Parked)
        /\ deposed \in BOOLEAN /\ armed \in BOOLEAN
    BY DEF IndInv, TypeInv
  <1>4. Cmd \in Command /\ Cmd.do = "truncate" /\ CommandOK(1, Cmd, Size)
    BY <1>1, TakeStep DEF IndInv
  <1>5. n \in Nat /\ n < Size /\ Size \in Nat
    BY <1>3, <1>4 DEF Command, Replicated, CommandOK, StoreOK, Store, Size
  <1> HIDE DEF n
  <1>6. /\ StoreOK(Cut(n)) /\ Cut(n).log = SubSeq(store.log, 1, n)
        /\ Cut(n).synced = Min({store.synced, n}) /\ Cut(n).durable = Min({store.durable, n})
    BY <1>3, <1>5, CutStep
  <1>7. n \in 0 .. Size
    BY <1>5
  <1> HIDE DEF gone
  <1>8. \A a : /\ Kept(a, store, cut) => Kept(a, Cut(n), gone)
               /\ Placed(a, store, cut) => Placed(a, Cut(n), gone)
    BY <1>3, <1>6, <1>7, CutKeeps DEF gone
  <1>9. AckInv'
    BY <1>2, <1>8 DEF IndInv, AckInv, AllPlaced, AllKept
  <1>10. EntriesOK(TruncateTo(entries, n))
    BY <1>3, <1>5, TruncateToOrdered
  <1>11. QED
    BY <1>1, <1>2, <1>3, <1>6, <1>9, <1>10, HandlerStep

\* Cmd::RecordEpoch, and the commands that only read.
LEMMA HandleOthersInd ==
  ASSUME IndInv, HandleEpoch \/ HandleQuery
  PROVE  IndInv'
  <1>1. /\ StoreOK(store) /\ EntriesOK(entries) /\ pending \in Seq(Parked)
        /\ deposed \in BOOLEAN /\ armed \in BOOLEAN
    BY DEF IndInv, TypeInv
  <1>2. /\ store' = store /\ armed' = armed /\ pending' = pending
        /\ promised' = promised /\ cut' = cut /\ deposed' = deposed
    BY DEF HandleEpoch, HandleQuery
  <1>3. AckInv'
    BY <1>2 DEF IndInv, AckInv
  <1>4. CASE HandleQuery
    <2>1. Take("query") /\ entries' = entries
      BY <1>4 DEF HandleQuery
    <2>2. QED
      BY <1>1, <1>2, <1>3, <2>1, HandlerStep
  <1>5. CASE HandleEpoch
    <2>1. Take("epoch") /\ entries' = RecordEpoch(entries, Cmd.epoch, Size)
      BY <1>5 DEF HandleEpoch
    <2>2. Cmd \in Command /\ Cmd.do = "epoch"
      BY <2>1, TakeStep DEF IndInv
    <2>3. Cmd.epoch \in 1 .. MaxEpoch /\ Size \in Nat
      BY <1>1, <2>2 DEF Command, Replicated, StoreOK, Store, Size
    <2>4. EntriesOK(entries')
      BY <1>1, <2>1, <2>3, RecordEpochOrdered
    <2>5. QED
      BY <1>1, <1>2, <1>3, <2>1, <2>4, HandlerStep
  <1>6. QED
    BY <1>4, <1>5

\* The group-commit timer.
LEMMA TimerFlushInd ==
  ASSUME IndInv, TimerFlush
  PROVE  IndInv'
  <1> DEFINE s == Flushed(store)
  <1>1. /\ inbox' = inbox /\ store' = s /\ armed' = FALSE
        /\ Drain(pending, Size, {})
        /\ policy' = policy /\ entries' = entries /\ UNCHANGED <<env, lapses>>
        /\ cut' = cut /\ deposed' = deposed
    BY DEF TimerFlush
  <1>2. StoreOK(store) /\ pending \in Seq(Parked)
    BY DEF IndInv, TypeInv
  <1>3. Grown(store, s) /\ s.log = store.log /\ s.durable = Size
    BY <1>2, FlushStep DEF Size
  <1> HIDE DEF s
  <1>4. AllPlaced(pending, s, cut) /\ AllKept(promised, s, cut) /\ AllKept({}, s, cut)
    BY <1>2, <1>3, GrownKeeps DEF IndInv, AckInv, AllPlaced, AllKept
  <1>5. StoreOK(s)
    BY <1>3 DEF Grown
  <1>6. pending' \in Seq(Parked) /\ AllPlaced(pending', s, cut) /\ AllKept(promised', s, cut)
    BY <1>1, <1>2, <1>3, <1>4, <1>5, DrainStep
  <1>7. Size' = Size
    BY <1>1, <1>3 DEF Size
  <1>8. AckInv'
    BY <1>1, <1>6 DEF AckInv
  <1>9. TypeInv'
    BY <1>1, <1>5, <1>6, <1>7 DEF IndInv, TypeInv, SenderOK, env
  <1>10. QED
    BY <1>8, <1>9 DEF IndInv

------------------------------------------------------------------------------
(* Stopping and starting *)

\* Log::open on the first n records of the log.
LEMMA ReopenStep ==
  ASSUME StoreOK(store), NEW n \in 0 .. Size, NEW stable \in 0 .. n
  PROVE  LET t == Reopened(n, stable)
         IN  /\ StoreOK(t) /\ Len(t.log) = n /\ t.synced = stable
             /\ t.log = SubSeq(store.log, 1, n)
             /\ \A i \in 1 .. n : t.log[i] = store.log[i]
  <1> DEFINE l == SubSeq(store.log, 1, n)
             t == Reopened(n, stable)
  <1>1. /\ store.log \in Seq(LogRecord) /\ Size \in Nat /\ Size = Len(store.log)
        /\ \A i \in 1 .. Size : store.log[i] \in LogRecord
    BY ElementOfSeq DEF StoreOK, Store, Size
  <1>2. /\ l \in Seq(LogRecord) /\ Len(l) = n
        /\ \A i \in 1 .. n : l[i] = store.log[1 + i - 1]
    BY <1>1, SubSeqProperties
  <1>3. t = [log |-> l, synced |-> stable, durable |-> n, dirty |-> 0]
    BY DEF Reopened
  <1> HIDE DEF l, t
  <1>4. t.log = l /\ t.synced = stable /\ t.durable = n
    BY <1>3
  <1>5. n \in Nat /\ stable \in Nat /\ stable <= n
    BY <1>1
  <1>6. t \in Store
    BY <1>2, <1>3, <1>5 DEF Store
  <1>7. \A i \in 1 .. n : l[i] = store.log[i]
    BY <1>1, <1>2
  <1>8. QED
    BY <1>2, <1>4, <1>5, <1>6, <1>7 DEF StoreOK, l, t

\* A restart empties the channel and the queue of acks.
LEMMA RestartStep ==
  ASSUME IndInv, NEW t, StoreOK(t), Restarted(t), entries' = entries,
         AllKept(promised', t, cut')
  PROVE  IndInv'
  <1>1. /\ count' = [count EXCEPT !.crashes = @ + 1] /\ store' = t
        /\ inbox' = <<>> /\ armed' = FALSE /\ pending' = <<>>
        /\ stage' = "out" /\ local' = 0 /\ stray' = <<>> /\ deposed' = FALSE
        /\ lapses' \subseteq lapses \cup {"ahead"} /\ UNCHANGED <<policy, epoch, leads>>
    BY DEF Restarted
  <1>2. InboxOK(<<>>, Size')
    BY PartitionAssumption, EmptySeq DEF InboxOK
  <1>3. <<>> \in Seq(Parked)
    BY EmptySeq
  <1>4. SenderOK'
    <2>1. SenderOK /\ MaxEpoch \in Nat
      BY PartitionAssumption DEF IndInv, TypeInv
    <2>2. count' \in [records : 0 .. MaxRecords, crashes : Nat, cuts : Nat]
      BY <1>1, <2>1 DEF SenderOK
    <2>3. QED
      BY <1>1, <2>1, <2>2, EmptySeq DEF SenderOK, Stages, Lapses
  <1>5. TypeInv'
    BY <1>1, <1>2, <1>3, <1>4 DEF IndInv, TypeInv
  <1>6. AckInv'
    BY <1>1 DEF AckInv, AllPlaced
  <1>7. QED
    BY <1>5, <1>6 DEF IndInv

\* Killed, or the power lost: at least what was flushed is found again.
LEMMA CrashInd ==
  ASSUME IndInv, Crash
  PROVE  IndInv'
  <1>1. /\ StoreOK(store) /\ Size \in Nat /\ store.synced \in 0 .. Size
    BY DEF IndInv, TypeInv, StoreOK, Store, Size
  <1>2. PICK n \in 0 .. Size, stable \in 0 .. Size :
          store.synced <= stable /\ stable <= n /\ Restarted(Reopened(n, stable))
    <2>1. CASE Restarted(Reopened(Size, store.synced))
      BY <1>1, <2>1
    <2>2. CASE \E n \in store.synced .. Size : Restarted(Reopened(n, n))
      BY <1>1, <2>2
    <2>3. QED
      BY <2>1, <2>2 DEF Crash
  <1> DEFINE t == Reopened(n, stable)
  <1>3. stable \in 0 .. n /\ store.synced <= stable /\ stable \in Nat /\ n \in Nat
    BY <1>1, <1>2
  <1>4. StoreOK(t) /\ t.synced = stable /\ \A i \in 1 .. n : t.log[i] = store.log[i]
    BY <1>1, <1>3, ReopenStep
  <1> HIDE DEF t
  <1>5. entries' = entries /\ promised' = promised /\ cut' = cut
    BY DEF Crash
  <1>6. AllKept(promised, t, cut)
    BY <1>1, <1>3, <1>4 DEF IndInv, AckInv, AllKept, Kept
  <1>7. Restarted(t)
    BY <1>2 DEF t
  <1>8. QED
    BY <1>4, <1>5, <1>6, <1>7, RestartStep

\* The log is cut, the checkpoint is not.
LEMMA CrashInTruncateInd ==
  ASSUME IndInv, CrashInTruncate
  PROVE  IndInv'
  <1> DEFINE n == Cmd.to
             stable == Min({store.synced, n})
             t == Reopened(n, stable)
             gone == cut \cup Ids(SubSeq(store.log, n + 1, Size))
  <1>1. /\ StoreOK(store) /\ Size \in Nat /\ store.synced \in Nat
        /\ inbox \in Seq(Command) /\ inbox # <<>> /\ Cmd.do = "truncate"
    BY DEF IndInv, TypeInv, InboxOK, StoreOK, Store, Size, CrashInTruncate
  <1>2. n \in Nat /\ n < Size
    <2>1. 1 \in DOMAIN inbox /\ Cmd = inbox[1]
      BY <1>1, EmptySeq, LenProperties DEF Cmd
    <2>2. Cmd \in Command /\ CommandOK(1, Cmd, Size)
      BY <1>1, <2>1 DEF IndInv, TypeInv, InboxOK
    <2>3. QED
      BY <1>1, <2>2 DEF Command, Replicated, CommandOK
  <1>3. Restarted(t) /\ cut' = gone /\ entries' = entries /\ promised' = promised
    BY DEF CrashInTruncate
  <1> HIDE DEF n
  <1>4. n \in 0 .. Size /\ stable \in 0 .. n
    <2>1. n \in 0 .. Size
      BY <1>1, <1>2
    <2>2. stable = IF store.synced <= n THEN store.synced ELSE n
      BY <1>1, <1>2, MinOfTwo
    <2> HIDE DEF stable
    <2>3. QED
      BY <1>1, <1>2, <2>1, <2>2
  <1>5. StoreOK(t) /\ t.synced = stable /\ t.log = SubSeq(store.log, 1, n)
    BY <1>1, <1>4, ReopenStep
  <1> HIDE DEF t, gone
  <1>6. \A a : Kept(a, store, cut) => Kept(a, t, gone)
    BY <1>1, <1>4, <1>5, CutKeeps DEF gone
  <1>7. AllKept(promised', t, cut')
    BY <1>3, <1>6 DEF IndInv, AckInv, AllKept
  <1>8. QED
    BY <1>3, <1>5, <1>7, RestartStep

\* Everything queued is served, everything is flushed, the acks are sent.
LEMMA ShutdownInd ==
  ASSUME IndInv, Shutdown
  PROVE  IndInv'
  <1> DEFINE t == Reopened(Size, Size)
             n == Released(pending, Size)
  <1>1. /\ StoreOK(store) /\ Size \in Nat /\ pending \in Seq(Parked)
        /\ Size = Len(store.log) /\ store.synced \in 0 .. Size
    BY DEF IndInv, TypeInv, StoreOK, Store, Size
  <1>2. /\ Restarted(t) /\ cut' = cut /\ entries' = entries
        /\ promised' = promised \cup Acks(SubSeq(pending, 1, n))
    BY DEF Shutdown
  <1>3. Size \in 0 .. Size
    BY <1>1
  <1>4. StoreOK(t) /\ t.synced = Size /\ \A i \in 1 .. Size : t.log[i] = store.log[i]
    BY ZenonT(40), <1>1, <1>3, ReopenStep
  <1>5. n \in 0 .. Len(pending)
    BY <1>1, ReleasedPrefix
  <1> HIDE DEF t, n
  <1>6. ASSUME NEW a \in Acks(SubSeq(pending, 1, n))
        PROVE  Kept(a, t, cut)
    <2>1. PICK i \in 1 .. n : a \in AckOf(pending[i])
      BY <1>1, <1>5, <1>6, FrontAcks
    <2>2. i \in DOMAIN pending
      BY <1>1, <1>5, LenProperties
    <2>3. Placed(a, store, cut)
      BY <2>1, <2>2 DEF IndInv, AckInv, AllPlaced
    <2>4. QED
      BY <1>1, <1>4, <2>3 DEF Placed, Kept
  <1>7. ASSUME NEW a \in promised
        PROVE  Kept(a, t, cut)
    <2>1. Kept(a, store, cut)
      BY DEF IndInv, AckInv, AllKept
    <2>2. QED
      BY <1>1, <1>4, <2>1 DEF Kept
  <1>8. AllKept(promised', t, cut')
    BY <1>2, <1>6, <1>7 DEF AllKept
  <1>9. QED
    BY <1>2, <1>4, <1>8, RestartStep

------------------------------------------------------------------------------
(* The theorems *)

\* The inductive invariant holds initially.
LEMMA InitInd == Init => IndInv
  <1> SUFFICES ASSUME Init PROVE IndInv
    OBVIOUS
  <1> DEFINE L == Seq(LogRecord)
  <1>1. <<>> \in L /\ Len(<<>>) = 0
    BY EmptySeq
  <1>2. store = [log |-> <<>>, synced |-> 0, durable |-> 0, dirty |-> 0]
    BY DEF Init
  <1>3. store \in [log : L, synced : Nat, durable : Nat, dirty : Nat]
    <2> HIDE DEF L
    <2>1. QED
      BY <1>1, <1>2
  <1>4. StoreOK(store)
    BY <1>1, <1>2, <1>3 DEF StoreOK, Store
  <1>5. EntriesOK(entries)
    BY EmptySeq DEF Init, EntriesOK
  <1>6. InboxOK(inbox, Size)
    BY PartitionAssumption, EmptySeq DEF Init, InboxOK
  <1>7. pending \in Seq(Parked) /\ AckInv
    BY EmptySeq DEF Init, AckInv, AllPlaced, AllKept
  <1>8. policy \in Policies /\ armed \in BOOLEAN /\ deposed \in BOOLEAN
    BY DEF Init
  <1>9. SenderOK
    <2>1. MaxRecords \in Nat /\ MaxEpoch \in Nat
      BY PartitionAssumption
    <2>2. /\ count = [records |-> 0, crashes |-> 0, cuts |-> 0] /\ epoch = 0 /\ local = 0
          /\ leads = FALSE /\ stage = "out" /\ stray = <<>> /\ lapses = {}
      BY DEF Init
    <2>3. stray \in Seq(Replicated)
      BY <2>2, EmptySeq
    <2>4. count \in [records : 0 .. MaxRecords, crashes : Nat, cuts : Nat]
      BY <2>1, <2>2
    <2>5. epoch \in 0 .. MaxEpoch /\ local \in 0 .. MaxEpoch
      BY <2>1, <2>2
    <2>6. leads \in BOOLEAN /\ stage \in Stages /\ lapses \subseteq Lapses
      BY <2>2, Zenon DEF Stages
    <2>7. stage = "out"
      BY <2>2
    <2>8. QED
      BY <2>3, <2>4, <2>5, <2>6, <2>7 DEF SenderOK
  <1>10. QED
    BY <1>4, <1>5, <1>6, <1>7, <1>8, <1>9 DEF IndInv, TypeInv

\* Every step preserves the inductive invariant.
LEMMA NextInd == IndInv /\ [Next]_vars => IndInv'
  <1> SUFFICES ASSUME IndInv, [Next]_vars PROVE IndInv'
    OBVIOUS
  <1>1. CASE UNCHANGED vars
    BY <1>1 DEF vars, env, IndInv, TypeInv, SenderOK, AckInv, Size
  <1>2. CASE Handle
    BY <1>2, HandleAppendInd, HandleReplicatedInd, HandleTruncateInd, HandleOthersInd
       DEF Handle
  <1>3. QED
    BY <1>1, <1>2, SendAppendInd, SendReplicatedInd, SendTruncateInd, RolesInd, SendOthersInd,
       TimerFlushInd, CrashInd, CrashInTruncateInd, ShutdownInd DEF Next

\* The inductive invariant is one.
THEOREM Invariance == Spec => []IndInv
  BY InitInd, NextInd, PTL DEF Spec

\* The thread's state stays well typed and its checkpoint file loadable:
\* epochs in it strictly increase and starts never go back, whatever epochs,
\* truncations and crashes come.
THEOREM TypeCorrect == Spec => []TypeOK
  <1>1. IndInv => TypeOK
    <2> SUFFICES ASSUME IndInv PROVE TypeOK
      OBVIOUS
    <2>1. /\ store.log \in Seq(LogRecord) /\ Size = Len(store.log) /\ Size \in Nat
          /\ store.synced \in 0 .. Size /\ store.durable \in 0 .. Size /\ store.dirty \in Nat
      BY DEF IndInv, TypeInv, StoreOK, Store, Size
    <2>2. \A i \in DOMAIN store.log : store.log[i] \in LogRecord
      BY <2>1, ElementOfSeq, LenProperties
    <2>3. \A i \in DOMAIN store.log : store.log[i].id \in 1 .. MaxRecords
      BY <2>2 DEF LogRecord
    <2>4. /\ stage \in Stages /\ {local, epoch} \subseteq 0 .. MaxEpoch /\ lapses \subseteq Lapses
      BY DEF IndInv, TypeInv, SenderOK
    <2>5. QED
      BY <2>1, <2>3, <2>4 DEF IndInv, TypeInv, TypeOK, EntriesOK, InboxOK
  <1>2. QED
    BY <1>1, Invariance, PTL

\* The ack contract of the partition thread: a record whose durable ack was
\* sent is on stable storage at the offset the ack named, through every append,
\* flush, kill, power loss and restart, until a truncation removes it.
THEOREM DurableAcksAreKept == Spec => []DurableAckKept
  <1>1. IndInv => DurableAckKept
    <2> SUFFICES ASSUME IndInv, NEW p \in promised, p.id \notin cut
                 PROVE  p.offset <= store.synced /\ store.log[p.offset].id = p.id
      BY DEF DurableAckKept
    <2>1. store.synced \in Nat
      BY DEF IndInv, TypeInv, StoreOK, Store
    <2>2. QED
      BY <2>1 DEF IndInv, AckInv, AllKept, Kept
  <1>2. QED
    BY <1>1, Invariance, PTL

------------------------------------------------------------------------------
(* The checkpoint describes the log *)

\* Every entry starts inside the log; every record was written in the epoch of an
\* entry that starts before it or earlier, and sent when the replica was in the
\* epoch of every such entry or later.
Describes(es, log) ==
    /\ \A k \in DOMAIN es : es[k].start <= Len(log)
    /\ \A i \in 1 .. Len(log) : \E k \in DOMAIN es :
           es[k].start < i /\ log[i].epoch <= es[k].epoch
    /\ \A i \in 1 .. Len(log), k \in DOMAIN es :
           es[k].start < i => es[k].epoch <= log[i].came

\* Once the commands in front of position p of the channel are served an entry of
\* epoch w or a later one is on file: one of them records it, or it is there
\* already and the truncation, if there is one, leaves it.
Filed(es, box, p, w) ==
    \/ \E q \in 1 .. p - 1 : box[q].do = "epoch" /\ w <= box[q].epoch
    \/ /\ w <= CurrentEpoch(es)
       /\ \A q \in 1 .. p - 1 :
              box[q].do = "truncate" => w <= CurrentEpoch(TruncateTo(es, box[q].to))

Came(c) == IF c.do = "append" THEN c.epoch ELSE c.came

\* A command that appends comes after the epoch of its records is on file, and no
\* epoch later than the replica's when it was sent gets there before it.
CommandFiled(es, box, p) ==
    box[p].do \in {"append", "replicated"} =>
        /\ Filed(es, box, p, box[p].epoch)
        /\ CurrentEpoch(es) <= Came(box[p])
        /\ \A q \in 1 .. p - 1 : box[q].do = "epoch" => box[q].epoch <= Came(box[p])

\* What the sender knows: a leader that has sent record_epoch, and a fetcher whose
\* local_epoch is the current one, find it on file once the channel is served.
SenderFiled ==
    /\ (stage = "led" \/ (stage = "fetch" /\ local = epoch)) =>
           Filed(entries, inbox, Len(inbox) + 1, epoch)
    /\ stage = "check" =>
           local = CurrentEpoch(entries) /\ \A p \in DOMAIN inbox : inbox[p].do = "query"
    /\ (stage = "out" \/ (stage = "due" /\ epoch <= CurrentEpoch(entries))) =>
           \A p \in DOMAIN inbox : inbox[p].do # "truncate"
    /\ stray = <<>>

EpochsFiled ==
    /\ Describes(entries, store.log)
    /\ CurrentEpoch(entries) <= epoch
    /\ \A p \in DOMAIN inbox :
           /\ CommandFiled(entries, inbox, p)
           /\ inbox[p].do = "epoch" => inbox[p].epoch <= epoch
    /\ SenderFiled

EpochInv == lapses = {} => EpochsFiled

\* What the proofs below use of a checkpoint.
LEMMA EntriesFacts ==
  ASSUME NEW es, EntriesOK(es)
  PROVE  /\ es \in Seq(CheckpointEntry) /\ Len(es) \in Nat /\ DOMAIN es = 1 .. Len(es)
         /\ \A i \in DOMAIN es : es[i] \in CheckpointEntry
         /\ \A i \in DOMAIN es : es[i].epoch \in Nat /\ es[i].epoch > 0 /\ es[i].start \in Nat
         /\ es # <<>> => Len(es) \in DOMAIN es
         /\ es # <<>> => \A i \in DOMAIN es :
                es[i].epoch <= Last(es).epoch /\ es[i].start <= Last(es).start
  <1>1. es \in Seq(CheckpointEntry) /\ Len(es) \in Nat /\ DOMAIN es = 1 .. Len(es)
    BY LenProperties DEF EntriesOK
  <1>2. \A i \in DOMAIN es : es[i] \in CheckpointEntry
    BY <1>1, ElementOfSeq
  <1>3. \A i \in DOMAIN es : es[i].epoch \in Nat /\ es[i].epoch > 0 /\ es[i].start \in Nat
    BY <1>2 DEF CheckpointEntry
  <1>4. es # <<>> => Len(es) \in DOMAIN es
    BY <1>1, EmptySeq
  <1>5. ASSUME es # <<>>, NEW i \in DOMAIN es
        PROVE  es[i].epoch <= Last(es).epoch /\ es[i].start <= Last(es).start
    <2>1. CASE i = Len(es)
      BY <1>3, <1>4, <2>1 DEF Last
    <2>2. CASE i < Len(es)
      <3>1. es[i].epoch < es[Len(es)].epoch /\ es[i].start <= es[Len(es)].start
        BY <1>4, <1>5, <2>2 DEF EntriesOK
      <3>2. QED
        BY <1>3, <1>4, <1>5, <3>1 DEF Last
    <2>3. QED
      BY <1>1, <1>5, <2>1, <2>2
  <1>6. QED
    BY <1>1, <1>2, <1>3, <1>4, <1>5

\* The epoch on file is the largest one.
LEMMA CurrentEpochIsLast ==
  ASSUME NEW es, EntriesOK(es)
  PROVE  /\ CurrentEpoch(es) \in Nat
         /\ \A k \in DOMAIN es : es[k].epoch <= CurrentEpoch(es)
         /\ CurrentEpoch(es) # 0 =>
                Len(es) \in DOMAIN es /\ es[Len(es)].epoch = CurrentEpoch(es)
  <1>1. CASE es = <<>>
    BY <1>1, EntriesFacts DEF CurrentEpoch
  <1>2. CASE es # <<>>
    <2>1. Len(es) \in DOMAIN es /\ CurrentEpoch(es) = es[Len(es)].epoch
      BY <1>2, EntriesFacts DEF CurrentEpoch, Last
    <2>2. \A k \in DOMAIN es : es[k].epoch <= es[Len(es)].epoch
      BY <1>2, EntriesFacts DEF Last
    <2>3. es[Len(es)].epoch \in Nat
      BY <2>1, EntriesFacts
    <2>4. QED
      BY <2>1, <2>2, <2>3
  <1>3. QED
    BY <1>1, <1>2

\* Records may follow whose epoch is on file, or one before it, when the replica is
\* in that epoch or a later one.
LEMMA DescribesLonger ==
  ASSUME NEW es, EntriesOK(es), NEW log \in Seq(LogRecord), NEW log2 \in Seq(LogRecord),
         Describes(es, log), Len(log) <= Len(log2),
         \A o \in 1 .. Len(log) : log2[o] = log[o],
         \A o \in Len(log) + 1 .. Len(log2) :
             log2[o].epoch <= CurrentEpoch(es) /\ CurrentEpoch(es) <= log2[o].came
  PROVE  Describes(es, log2)
  <1>1. Len(log) \in Nat /\ Len(log2) \in Nat
    OBVIOUS
  <1>2. \A k \in DOMAIN es : es[k].start \in Nat /\ es[k].start <= Len(log)
    BY EntriesFacts DEF Describes
  <1>3. ASSUME NEW i \in 1 .. Len(log2)
        PROVE  log2[i].epoch \in 1 .. MaxEpoch /\ log2[i].came \in 1 .. MaxEpoch
    <2>1. log2[i] \in LogRecord
      BY ElementOfSeq
    <2>2. QED
      BY <2>1 DEF LogRecord
  <1>4. ASSUME NEW i \in 1 .. Len(log2)
        PROVE  /\ \E k \in DOMAIN es : es[k].start < i /\ log2[i].epoch <= es[k].epoch
               /\ \A k \in DOMAIN es : es[k].start < i => es[k].epoch <= log2[i].came
    <2>1. CASE i \in 1 .. Len(log)
      BY <2>1 DEF Describes
    <2>2. CASE i \in Len(log) + 1 .. Len(log2)
      <3>1. log2[i].epoch <= CurrentEpoch(es) /\ CurrentEpoch(es) <= log2[i].came
        BY <2>2
      <3>2. CurrentEpoch(es) \in Nat /\ CurrentEpoch(es) # 0
        BY <1>3, <3>1, CurrentEpochIsLast
      <3>3. Len(es) \in DOMAIN es /\ es[Len(es)].epoch = CurrentEpoch(es)
        BY <3>2, CurrentEpochIsLast
      <3>4. es[Len(es)].start < i
        BY <1>1, <1>2, <2>2, <3>3
      <3>5. ASSUME NEW k \in DOMAIN es
            PROVE  es[k].epoch <= log2[i].came
        <4>1. es[k].epoch <= CurrentEpoch(es) /\ es[k].epoch \in Nat
          BY CurrentEpochIsLast, EntriesFacts
        <4>2. QED
          BY <1>3, <3>1, <3>2, <4>1
      <3>6. QED
        BY <3>1, <3>3, <3>4, <3>5
    <2>3. QED
      BY <1>1, <2>1, <2>2
  <1>5. \A k \in DOMAIN es : es[k].start <= Len(log2)
    BY <1>1, <1>2
  <1>6. QED
    BY <1>4, <1>5 DEF Describes

\* A prefix of the log that reaches every entry's start is described too.
LEMMA DescribesShorter ==
  ASSUME NEW es, EntriesOK(es), NEW log \in Seq(LogRecord), NEW log2 \in Seq(LogRecord),
         Describes(es, log), Len(log2) <= Len(log),
         \A o \in 1 .. Len(log2) : log2[o] = log[o],
         es # <<>> => Last(es).start <= Len(log2)
  PROVE  Describes(es, log2)
  <1>1. Len(log) \in Nat /\ Len(log2) \in Nat
    OBVIOUS
  <1>2. \A o \in 1 .. Len(log2) : o \in 1 .. Len(log)
    BY <1>1
  <1>3. ASSUME NEW k \in DOMAIN es
        PROVE  es[k].start <= Len(log2)
    <2>1. es # <<>> /\ Len(es) \in DOMAIN es
      BY <1>3, EntriesFacts
    <2>2. es[k].start <= Last(es).start /\ Last(es).start \in Nat /\ es[k].start \in Nat
      BY <2>1, EntriesFacts DEF Last
    <2>3. QED
      BY <1>1, <2>1, <2>2
  <1>4. QED
    BY <1>2, <1>3 DEF Describes

\* Recording an epoch at the end of a log that is described is never refused: an
\* epoch later than all on file gets its entry.
LEMMA DescribesRecord ==
  ASSUME NEW es, EntriesOK(es), NEW log \in Seq(LogRecord), Describes(es, log),
         NEW e \in 1 .. MaxEpoch, NEW t, t = RecordEpoch(es, e, Len(log))
  PROVE  /\ Describes(t, log)
         /\ CurrentEpoch(t) \in {CurrentEpoch(es), e}
         /\ CurrentEpoch(es) <= CurrentEpoch(t) /\ e <= CurrentEpoch(t)
  <1> DEFINE m == Len(es)
             n == Len(log)
  <1>1. m \in Nat /\ n \in Nat /\ DOMAIN es = 1 .. m /\ es \in Seq(CheckpointEntry)
    BY EntriesFacts
  <1>2. CurrentEpoch(es) \in Nat
    BY CurrentEpochIsLast
  <1>3. CASE ~ (e > CurrentEpoch(es))
    <2>1. t = es
      BY <1>3 DEF RecordEpoch
    <2>2. QED
      BY <1>2, <1>3, <2>1
  <1>4. CASE e > CurrentEpoch(es)
    <2>1. Continues(es, e, n)
      <3>1. CASE es = <<>>
        BY <3>1 DEF Continues
      <3>2. CASE es # <<>>
        <4>1. m \in DOMAIN es /\ CurrentEpoch(es) = Last(es).epoch
          BY <3>2, EntriesFacts DEF CurrentEpoch
        <4>2. Last(es).start <= n /\ Last(es).start \in Nat
          BY <4>1, EntriesFacts DEF Last, Describes
        <4>3. QED
          BY <1>1, <1>4, <4>1, <4>2 DEF Continues
      <3>3. QED
        BY <3>1, <3>2
    <2>2. t = Append(es, Entry(e, n))
      BY <1>4, <2>1 DEF RecordEpoch
    <2>3. Entry(e, n) \in CheckpointEntry /\ Entry(e, n).epoch = e /\ Entry(e, n).start = n
      BY <1>1 DEF Entry, CheckpointEntry
    <2>4. /\ t \in Seq(CheckpointEntry) /\ Len(t) = m + 1 /\ t # <<>>
          /\ \A k \in 1 .. m : t[k] = es[k]
          /\ t[m + 1] = Entry(e, n)
      BY <1>1, <2>2, <2>3, AppendProperties
    <2>5. DOMAIN t = 1 .. m + 1
      BY <2>4, LenProperties
    <2>6. CurrentEpoch(t) = e
      BY <2>3, <2>4 DEF CurrentEpoch, Last
    <2>7. \A k \in DOMAIN t : (k \in DOMAIN es /\ t[k] = es[k]) \/ (k = m + 1 /\ t[k].start = n)
      BY <1>1, <2>3, <2>4, <2>5
    <2>8. \A k \in DOMAIN t : t[k].start <= n
      BY <1>1, <2>7 DEF Describes
    <2>9. ASSUME NEW i \in 1 .. n
          PROVE  /\ \E k \in DOMAIN t : t[k].start < i /\ log[i].epoch <= t[k].epoch
                 /\ \A k \in DOMAIN t : t[k].start < i => t[k].epoch <= log[i].came
      <3>1. PICK k \in DOMAIN es : es[k].start < i /\ log[i].epoch <= es[k].epoch
        BY DEF Describes
      <3>2. k \in DOMAIN t /\ t[k] = es[k]
        BY <1>1, <2>4, <2>5
      <3>3. ~ (n < i)
        BY <1>1
      <3>4. QED
        BY <2>7, <3>1, <3>2, <3>3 DEF Describes
    <2>10. Describes(t, log)
      BY <2>8, <2>9 DEF Describes
    <2>11. QED
      BY <1>2, <1>4, <2>6, <2>10
  <1>5. QED
    BY <1>3, <1>4

\* TruncateTo keeps the entries that start before the cut, and with them the
\* description of what is left.
LEMMA DescribesTruncate ==
  ASSUME NEW es, EntriesOK(es), NEW log \in Seq(LogRecord), Describes(es, log),
         NEW n \in Nat, n < Len(log), NEW t, t = TruncateTo(es, n)
  PROVE  Describes(t, SubSeq(log, 1, n)) /\ CurrentEpoch(t) <= CurrentEpoch(es)
  <1> DEFINE T == {i \in DOMAIN es : es[i].start >= n}
             k == IF T = {} THEN Len(es) ELSE Min(T) - 1
             short == SubSeq(log, 1, n)
  <1>1. Len(es) \in Nat /\ Len(log) \in Nat /\ DOMAIN es = 1 .. Len(es)
    BY EntriesFacts
  <1>2. k \in 0 .. Len(es) /\ \A i \in 1 .. Len(es) : i <= k <=> es[i].start < n
    <2>1. CASE T = {}
      <3>1. k = Len(es)
        BY <2>1
      <3>2. \A i \in 1 .. Len(es) : ~ (es[i].start >= n) /\ es[i].start \in Nat
        BY <1>1, <2>1, EntriesFacts
      <3> HIDE DEF k, T
      <3>3. QED
        BY <1>1, <3>1, <3>2
    <2>2. CASE T # {}
      <3>1. T \in SUBSET Nat
        BY <1>1
      <3>2. Min(T) \in T /\ \A i \in T : Min(T) <= i
        BY <2>2, <3>1, MinIsLeast
      <3>3. Min(T) \in 1 .. Len(es) /\ es[Min(T)].start >= n
        BY <1>1, <3>2
      <3>4. k = Min(T) - 1
        BY <2>2
      <3>5. ASSUME NEW i \in 1 .. Len(es)
            PROVE  i <= k <=> es[i].start < n
        <4>1. CASE i <= k
          <5>1. i < Min(T)
            BY <1>1, <3>3, <3>4, <4>1
          <5> HIDE DEF T
          <5>2. i \notin T
            BY <1>1, <3>2, <3>3, <5>1
          <5> USE DEF T
          <5>3. QED
            BY <1>1, <4>1, <5>2, EntriesFacts
        <4>2. CASE i = Min(T)
          BY <1>1, <3>3, <3>4, <4>2, EntriesFacts
        <4>3. CASE i > Min(T)
          <5>1. es[Min(T)].start <= es[i].start
            BY <1>1, <3>3, <4>3 DEF EntriesOK
          <5>2. es[Min(T)].start \in Nat /\ es[i].start \in Nat
            BY <1>1, <3>3, EntriesFacts
          <5>3. ~ (es[i].start < n) /\ ~ (i <= k)
            BY <1>1, <3>3, <3>4, <4>3, <5>1, <5>2
          <5>4. QED
            BY <5>3
        <4>4. QED
          BY <1>1, <3>3, <3>4, <4>1, <4>2, <4>3
      <3>6. QED
        BY <1>1, <3>3, <3>4, <3>5
    <2>3. QED
      BY <2>1, <2>2
  <1>3. t = SubSeq(es, 1, k)
    <2>1. CASE T = {}
      BY <2>1, EntriesFacts, SubSeqFull DEF TruncateTo
    <2>2. CASE T # {}
      BY <2>2 DEF TruncateTo
    <2>3. QED
      BY <2>1, <2>2
  <1> HIDE DEF k, T
  <1>4. DOMAIN t = 1 .. k /\ \A i \in 1 .. k : t[i] = es[i]
    <2>1. \A i \in 1 .. k : es[i] \in CheckpointEntry
      BY <1>1, <1>2, EntriesFacts
    <2>2. /\ t \in Seq(CheckpointEntry) /\ Len(t) = k
          /\ \A i \in 1 .. k : t[i] = es[1 + i - 1]
      BY <1>1, <1>2, <1>3, <2>1, SubSeqProperties
    <2>3. DOMAIN t = 1 .. k
      BY <2>2, LenProperties
    <2>4. QED
      BY <1>1, <1>2, <2>2, <2>3
  <1>5. Len(short) = n /\ \A o \in 1 .. n : short[o] = log[o]
    <2>1. \A o \in 1 .. n : log[o] \in LogRecord
      BY <1>1, ElementOfSeq
    <2>2. Len(short) = n /\ \A o \in 1 .. n : short[o] = log[1 + o - 1]
      BY <2>1, SubSeqProperties
    <2>3. QED
      BY <2>2
  <1>6. \A o \in 1 .. n : o \in 1 .. Len(log)
    BY <1>1
  <1>7. \A i \in 1 .. k : i \in DOMAIN es /\ t[i] = es[i] /\ es[i].start < n
    BY <1>1, <1>2, <1>4
  <1> HIDE DEF short
  <1>8. \A i \in DOMAIN t : t[i].start <= n
    BY <1>4, <1>7, EntriesFacts
  <1>9. ASSUME NEW o \in 1 .. n
        PROVE  /\ \E i \in DOMAIN t : t[i].start < o /\ short[o].epoch <= t[i].epoch
               /\ \A i \in DOMAIN t : t[i].start < o => t[i].epoch <= short[o].came
    <2>1. PICK i \in DOMAIN es : es[i].start < o /\ log[o].epoch <= es[i].epoch
      BY <1>6 DEF Describes
    <2>2. es[i].start < n /\ i \in 1 .. k
      BY <1>1, <1>2, <2>1, EntriesFacts
    <2>3. \A j \in DOMAIN es : es[j].start < o => es[j].epoch <= log[o].came
      BY <1>6 DEF Describes
    <2>4. QED
      BY <1>4, <1>5, <1>7, <2>1, <2>2, <2>3
  <1>10. CurrentEpoch(t) <= CurrentEpoch(es)
    <2>1. CurrentEpoch(es) \in Nat /\ \A i \in DOMAIN es : es[i].epoch <= CurrentEpoch(es)
      BY CurrentEpochIsLast
    <2>2. EntriesOK(t)
      BY TruncateToOrdered
    <2>3. CurrentEpoch(t) = 0 \/ (Len(t) \in DOMAIN t /\ t[Len(t)].epoch = CurrentEpoch(t))
      BY <2>2, CurrentEpochIsLast
    <2>4. CASE CurrentEpoch(t) = 0
      BY <2>1, <2>4
    <2>5. CASE Len(t) \in DOMAIN t /\ t[Len(t)].epoch = CurrentEpoch(t)
      BY <1>4, <1>7, <2>1, <2>5
    <2>6. QED
      BY <2>3, <2>4, <2>5
  <1>11. QED
    BY <1>5, <1>8, <1>9, <1>10 DEF Describes, short

\* Filed looks at the channel in front of the position only.
LEMMA FiledSame ==
  ASSUME NEW es, NEW box, NEW box2, NEW p \in Nat, NEW w,
         \A q \in 1 .. p - 1 : box2[q] = box[q], Filed(es, box, p, w)
  PROVE  Filed(es, box2, p, w)
  BY DEF Filed

\* It holds behind any command that is not a truncation.
LEMMA FiledNext ==
  ASSUME NEW es, NEW box, NEW p \in Nat \ {0}, NEW w, Filed(es, box, p, w),
         box[p].do # "truncate"
  PROVE  Filed(es, box, p + 1, w)
  <1>1. \A q \in 1 .. p + 1 - 1 : q \in 1 .. p - 1 \/ q = p
    OBVIOUS
  <1>2. \A q \in 1 .. p - 1 : q \in 1 .. p + 1 - 1
    OBVIOUS
  <1>3. QED
    BY <1>1, <1>2 DEF Filed

\* What is on file when an epoch is, is on file for the earlier ones.
LEMMA FiledEarlier ==
  ASSUME NEW es, EntriesOK(es), NEW box \in Seq(Command), NEW p \in 1 .. Len(box) + 1,
         NEW w \in Nat, NEW v \in Nat, v <= w, Filed(es, box, p, w)
  PROVE  Filed(es, box, p, v)
  <1>1. \A q \in 1 .. p - 1 : box[q] \in Command
    <2> SUFFICES ASSUME NEW q \in 1 .. p - 1 PROVE box[q] \in Command
      OBVIOUS
    <2>1. q \in 1 .. Len(box)
      OBVIOUS
    <2>2. QED
      BY <2>1, ElementOfSeq
  <1>2. ASSUME NEW q \in 1 .. p - 1, box[q].do = "epoch", w <= box[q].epoch
        PROVE  v <= box[q].epoch
    <2>1. box[q].epoch \in Nat
      BY <1>1, <1>2 DEF Command, Replicated
    <2>2. QED
      BY <1>2, <2>1
  <1>3. ASSUME NEW q \in 1 .. p - 1, box[q].do = "truncate"
        PROVE  CurrentEpoch(TruncateTo(es, box[q].to)) \in Nat
    <2>1. box[q].to \in Nat
      BY <1>1, <1>3 DEF Command, Replicated
    <2>2. QED
      BY <2>1, TruncateToOrdered, CurrentEpochIsLast
  <1>4. CurrentEpoch(es) \in Nat
    BY CurrentEpochIsLast
  <1>5. CASE \E q \in 1 .. p - 1 : box[q].do = "epoch" /\ w <= box[q].epoch
    BY <1>2, <1>5 DEF Filed
  <1>6. CASE /\ w <= CurrentEpoch(es)
             /\ \A q \in 1 .. p - 1 :
                    box[q].do = "truncate" => w <= CurrentEpoch(TruncateTo(es, box[q].to))
    <2>1. v <= CurrentEpoch(es)
      BY <1>4, <1>6
    <2>2. ASSUME NEW q \in 1 .. p - 1, box[q].do = "truncate"
          PROVE  v <= CurrentEpoch(TruncateTo(es, box[q].to))
      BY <1>3, <1>6, <2>2
    <2>3. QED
      BY <2>1, <2>2 DEF Filed
  <1>7. QED
    BY <1>5, <1>6 DEF Filed

\* What a command does to the epoch on file.
Serves(es, es2, c) ==
    /\ CurrentEpoch(es2) \in Nat
    /\ \/ c.do \notin {"epoch", "truncate"} /\ es2 = es
       \/ /\ c.do = "truncate" /\ es2 = TruncateTo(es, c.to)
          /\ CurrentEpoch(es2) <= CurrentEpoch(es)
       \/ /\ c.do = "epoch" /\ CurrentEpoch(es2) \in {CurrentEpoch(es), c.epoch}
          /\ CurrentEpoch(es) <= CurrentEpoch(es2) /\ c.epoch <= CurrentEpoch(es2)

\* When the thread takes the first command the rest moves up.
LEMMA FiledTaken ==
  ASSUME NEW es, NEW es2, NEW box, NEW box2, NEW p \in Nat \ {0}, NEW w \in Nat,
         CurrentEpoch(es) \in Nat, box[1].do = "epoch" => box[1].epoch \in Nat,
         Filed(es, box, p + 1, w), Serves(es, es2, box[1]),
         \A q \in 1 .. p - 1 : box2[q] = box[q + 1] /\ box[q + 1].do # "truncate"
  PROVE  Filed(es2, box2, p, w)
  <1>1. 1 \in 1 .. p + 1 - 1 /\ \A q \in 2 .. p : q - 1 \in 1 .. p - 1 /\ q - 1 + 1 = q
    OBVIOUS
  <1>2. w <= CurrentEpoch(es2) => Filed(es2, box2, p, w)
    BY DEF Filed
  <1>3. CASE \E q \in 1 .. p + 1 - 1 : box[q].do = "epoch" /\ w <= box[q].epoch
    <2>1. PICK q \in 1 .. p + 1 - 1 : box[q].do = "epoch" /\ w <= box[q].epoch
      BY <1>3
    <2>2. CASE q = 1
      <3>1. box[1].epoch <= CurrentEpoch(es2) /\ CurrentEpoch(es2) \in Nat
        BY <2>1, <2>2 DEF Serves
      <3>2. w <= CurrentEpoch(es2)
        BY <2>1, <2>2, <3>1
      <3>3. QED
        BY <1>2, <3>2
    <2>3. CASE q # 1
      <3>1. q \in 2 .. p
        BY <2>3
      <3>2. q - 1 \in 1 .. p - 1 /\ box2[q - 1] = box[q]
        BY <1>1, <3>1
      <3>3. QED
        BY <2>1, <3>2 DEF Filed
    <2>4. QED
      BY <2>2, <2>3
  <1>4. CASE /\ w <= CurrentEpoch(es)
             /\ \A q \in 1 .. p + 1 - 1 :
                    box[q].do = "truncate" => w <= CurrentEpoch(TruncateTo(es, box[q].to))
    <2>1. w <= CurrentEpoch(es2)
      BY <1>1, <1>4 DEF Serves
    <2>2. QED
      BY <1>2, <2>1
  <1>5. QED
    BY <1>3, <1>4 DEF Filed

------------------------------------------------------------------------------
(* The steps *)

\* What a sender may enqueue when nothing has lapsed.
LEMMA SendEpochs ==
  ASSUME IndInv, EpochsFiled, Sending, NEW c \in Command, Send(c), epoch' = epoch, stray' = <<>>,
         c.do \in {"append", "replicated"} =>
             Filed(entries, inbox, Len(inbox) + 1, c.epoch) /\ Came(c) = epoch,
         c.do = "epoch" => c.epoch = epoch,
         \/ /\ c.do = "truncate" /\ inbox = <<>> /\ stage' = "fetch"
            /\ local' = epoch => /\ epoch <= CurrentEpoch(entries)
                                 /\ epoch <= CurrentEpoch(TruncateTo(entries, c.to))
         \/ /\ c.do \notin {"truncate", "query"} /\ stage' # "check"
            /\ stage' = stage /\ local' = local
         \/ c.do = "epoch" /\ stage' \in {"led", "fetch"}
         \/ c.do = "query" /\ stage' = stage /\ local' = local
  PROVE  EpochsFiled'
  <1> DEFINE m == Len(inbox)
  <1>1. /\ entries' = entries /\ store' = store
        /\ EntriesOK(entries) /\ inbox \in Seq(Command) /\ epoch \in Nat
    BY PartitionAssumption DEF Sending, IndInv, TypeInv, InboxOK, SenderOK
  <1>2. /\ Describes(entries, store.log) /\ CurrentEpoch(entries) <= epoch
        /\ \A p \in DOMAIN inbox : CommandFiled(entries, inbox, p)
        /\ \A p \in DOMAIN inbox : inbox[p].do = "epoch" => inbox[p].epoch <= epoch
        /\ SenderFiled
    BY DEF EpochsFiled
  <1>3. /\ m \in Nat /\ DOMAIN inbox = 1 .. m /\ inbox' \in Seq(Command) /\ Len(inbox') = m + 1
        /\ \A i \in 1 .. m : inbox'[i] = inbox[i]
        /\ inbox'[m + 1] = c
    BY <1>1, LenProperties, AppendProperties DEF Send
  <1>4. DOMAIN inbox' = 1 .. m + 1
    BY <1>3, LenProperties
  <1>5. c.do = "truncate" => m = 0
    OBVIOUS
  <1> HIDE DEF m
  <1>6. \A p \in DOMAIN inbox' : p \in 1 .. m \/ p = m + 1
    BY <1>3, <1>4
  <1>7. ASSUME NEW p \in 1 .. m + 1, NEW w, Filed(entries, inbox, p, w)
        PROVE  Filed(entries, inbox', p, w)
    <2>1. p \in Nat /\ \A q \in 1 .. p - 1 : inbox'[q] = inbox[q]
      BY <1>3
    <2>2. QED
      BY <1>7, <2>1, FiledSame
  <1>8. ASSUME NEW p \in DOMAIN inbox'
        PROVE  CommandFiled(entries, inbox', p)
    <2>1. CASE p \in 1 .. m
      <3>1. inbox'[p] = inbox[p] /\ p \in DOMAIN inbox /\ p \in 1 .. m + 1
        BY <1>3, <2>1
      <3>2. CommandFiled(entries, inbox, p)
        BY <1>2, <3>1
      <3>3. \A q \in 1 .. p - 1 : inbox'[q] = inbox[q]
        BY <1>3, <2>1
      <3>4. QED
        BY <1>7, <3>1, <3>2, <3>3 DEF CommandFiled
    <2>2. CASE p = m + 1
      <3>1. SUFFICES ASSUME c.do \in {"append", "replicated"}
                     PROVE  /\ Filed(entries, inbox', p, c.epoch)
                            /\ CurrentEpoch(entries) <= Came(c)
                            /\ \A q \in 1 .. p - 1 : inbox'[q].do = "epoch" =>
                                   inbox'[q].epoch <= Came(c)
        BY <1>3, <2>2 DEF CommandFiled
      <3>2. Filed(entries, inbox', p, c.epoch) /\ Came(c) = epoch
        BY <1>3, <1>4, <1>7, <2>2, <3>1 DEF m
      <3>3. \A q \in 1 .. p - 1 : q \in DOMAIN inbox /\ inbox'[q] = inbox[q]
        BY <1>3, <2>2
      <3>4. QED
        BY <1>2, <3>2, <3>3
    <2>3. QED
      BY <1>6, <2>1, <2>2
  <1>9. ASSUME NEW p \in DOMAIN inbox', inbox'[p].do = "epoch"
        PROVE  inbox'[p].epoch <= epoch
    <2>1. CASE p \in 1 .. m
      BY <1>2, <1>3, <1>9, <2>1
    <2>2. CASE p = m + 1
      BY <1>1, <1>3, <1>9, <2>2
    <2>3. QED
      BY <1>6, <2>1, <2>2
  <1>10. SenderFiled'
    <2>1. ASSUME stage' = "led" \/ (stage' = "fetch" /\ local' = epoch)
          PROVE  Filed(entries, inbox', m + 1 + 1, epoch)
      <3>1. CASE c.do = "truncate"
        <4>1. /\ epoch <= CurrentEpoch(entries)
              /\ epoch <= CurrentEpoch(TruncateTo(entries, c.to))
          BY <2>1, <3>1
        <4> DEFINE p == m + 1 + 1
        <4>2. \A q \in 1 .. p - 1 : inbox'[q] = c
          BY <1>3, <1>5, <3>1
        <4> HIDE DEF p
        <4>3. \A q \in 1 .. p - 1 : epoch <= CurrentEpoch(TruncateTo(entries, inbox'[q].to))
          BY <4>1, <4>2
        <4>4. Filed(entries, inbox', p, epoch)
          BY <4>1, <4>3 DEF Filed
        <4>5. QED
          BY <4>4 DEF p
      <3>2. CASE c.do = "epoch"
        <4>1. m + 1 \in 1 .. m + 1 + 1 - 1 /\ inbox'[m + 1] = c /\ epoch <= c.epoch
          BY <1>1, <1>3, <3>2
        <4>2. QED
          BY <3>2, <4>1 DEF Filed
      <3>3. CASE c.do \notin {"truncate", "epoch"}
        <4>1. stage = "led" \/ (stage = "fetch" /\ local = epoch)
          BY <2>1, <3>3
        <4>2. Filed(entries, inbox, m + 1, epoch)
          BY <1>2, <4>1 DEF SenderFiled, m
        <4>3. m + 1 \in Nat \ {0} /\ m + 1 \in 1 .. m + 1 /\ inbox'[m + 1].do # "truncate"
          BY <1>3, <3>3
        <4>4. Filed(entries, inbox', m + 1, epoch)
          BY <1>7, <4>2, <4>3
        <4>5. QED
          BY <4>3, <4>4, FiledNext
      <3>4. QED
        BY <3>1, <3>2, <3>3
    <2>2. ASSUME stage' = "check"
          PROVE  local' = CurrentEpoch(entries) /\ \A p \in DOMAIN inbox' : inbox'[p].do = "query"
      <3>1. c.do = "query" /\ stage = "check" /\ local' = local
        BY <2>2
      <3>2. local = CurrentEpoch(entries) /\ \A p \in DOMAIN inbox : inbox[p].do = "query"
        BY <1>2, <3>1 DEF SenderFiled
      <3>3. QED
        BY <1>3, <1>6, <3>1, <3>2
    <2>3. ASSUME stage' = "out" \/ (stage' = "due" /\ epoch <= CurrentEpoch(entries))
          PROVE  \A p \in DOMAIN inbox' : inbox'[p].do # "truncate"
      <3>1. c.do # "truncate" /\ stage' = stage
        BY <2>3
      <3>2. \A p \in DOMAIN inbox : inbox[p].do # "truncate"
        BY <1>2, <2>3, <3>1 DEF SenderFiled
      <3>3. QED
        BY <1>3, <1>6, <3>1, <3>2
    <2>4. Len(inbox') = m + 1
      BY <1>3
    <2>5. QED
      BY <1>1, <2>1, <2>2, <2>3, <2>4 DEF SenderFiled
  <1>11. QED
    BY <1>1, <1>2, <1>8, <1>9, <1>10 DEF EpochsFiled

\* What the thread may do with the checkpoint when it takes a command.
LEMMA TakeEpochs ==
  ASSUME IndInv, EpochsFiled, NEW kind, Take(kind), Describes(entries', store'.log),
         Serves(entries, entries', Cmd)
  PROVE  EpochsFiled'
  <1> DEFINE m == Len(inbox)
  <1>1. /\ UNCHANGED <<epoch, stage, local, stray>>
        /\ inbox \in Seq(Command) /\ inbox # <<>> /\ epoch \in Nat /\ inbox' = Tail(inbox)
        /\ Cmd = inbox[1] /\ EntriesOK(entries)
    BY PartitionAssumption DEF Take, env, Cmd, IndInv, TypeInv, InboxOK, SenderOK
  <1>2. /\ CurrentEpoch(entries) <= epoch /\ SenderFiled
        /\ \A p \in DOMAIN inbox : CommandFiled(entries, inbox, p)
        /\ \A p \in DOMAIN inbox : inbox[p].do = "epoch" => inbox[p].epoch <= epoch
    BY DEF EpochsFiled
  <1>3. /\ m \in Nat \ {0} /\ DOMAIN inbox = 1 .. m /\ inbox' \in Seq(Command)
        /\ Len(inbox') = m - 1
        /\ \A i \in 1 .. Len(inbox') : inbox'[i] = inbox[i + 1]
    BY <1>1, LenProperties, EmptySeq, HeadTailProperties
  <1>4. DOMAIN inbox' = 1 .. m - 1 /\ 1 \in DOMAIN inbox
    BY <1>3, LenProperties
  <1> HIDE DEF m
  <1>5. \A i \in 2 .. m : inbox[i].do # "truncate"
    <2>1. \A i \in 2 .. m : i \in DOMAIN inbox /\ i # 1
      BY <1>3
    <2>2. QED
      BY <2>1 DEF IndInv, TypeInv, InboxOK, CommandOK
  <1>6. \A p \in 1 .. m : inbox[p] \in Command
    BY <1>1, <1>3, ElementOfSeq DEF m
  <1>7. CurrentEpoch(entries) \in Nat /\ CurrentEpoch(entries') \in Nat
    BY <1>1, CurrentEpochIsLast DEF Serves
  <1>8. \A p \in 1 .. m : inbox[p].do = "epoch" => inbox[p].epoch \in Nat
    BY <1>6 DEF Command, Replicated
  <1>9. ASSUME NEW p \in 1 .. m, NEW w \in Nat, Filed(entries, inbox, p + 1, w)
        PROVE  Filed(entries', inbox', p, w)
    <2>1. /\ p \in Nat \ {0}
          /\ \A q \in 1 .. p - 1 : q \in 1 .. Len(inbox') /\ q + 1 \in 2 .. m
      BY <1>3
    <2>2. \A q \in 1 .. p - 1 : inbox'[q] = inbox[q + 1] /\ inbox[q + 1].do # "truncate"
      BY <1>3, <1>5, <2>1
    <2>3. 1 \in 1 .. m
      BY <1>3
    <2>4. inbox[1].do = "epoch" => inbox[1].epoch \in Nat
      BY <1>8, <2>3
    <2>5. QED
      BY <1>1, <1>7, <1>9, <2>1, <2>2, <2>4, FiledTaken
  <1>10. \A p \in DOMAIN inbox' : p \in 1 .. m /\ p + 1 \in DOMAIN inbox /\ p + 1 \in 2 .. m
                                  /\ inbox'[p] = inbox[p + 1]
    BY <1>3, <1>4
  <1>11. ASSUME NEW p \in DOMAIN inbox'
         PROVE  CommandFiled(entries', inbox', p)
    <2> SUFFICES ASSUME inbox'[p].do \in {"append", "replicated"}
                 PROVE  CommandFiled(entries', inbox', p)
      BY DEF CommandFiled
    <2> DEFINE c == inbox[p + 1]
    <2>1. /\ p \in 1 .. m /\ p + 1 \in DOMAIN inbox /\ p + 1 \in 1 .. m
          /\ inbox'[p] = c /\ c.do \in {"append", "replicated"}
      BY <1>3, <1>10
    <2>2. /\ Filed(entries, inbox, p + 1, c.epoch) /\ CurrentEpoch(entries) <= Came(c)
          /\ \A q \in 1 .. p + 1 - 1 : inbox[q].do = "epoch" => inbox[q].epoch <= Came(c)
      BY <1>2, <2>1 DEF CommandFiled
    <2>3. c.epoch \in Nat /\ Came(c) \in Nat
      <3>1. c \in Command
        BY <1>6, <2>1
      <3> HIDE DEF c
      <3>2. QED
        BY <2>1, <3>1 DEF Command, Replicated, Came
    <2> HIDE DEF c
    <2>4. Filed(entries', inbox', p, c.epoch)
      BY <1>9, <2>1, <2>2, <2>3
    <2>5. CurrentEpoch(entries') <= Came(c)
      <3>1. 1 \in 1 .. p + 1 - 1
        BY <2>1
      <3>2. inbox[1].do = "epoch" => inbox[1].epoch <= Came(c)
        BY <2>2, <3>1
      <3>3. QED
        BY <1>1, <1>7, <2>2, <2>3, <3>2 DEF Serves
    <2>6. ASSUME NEW q \in 1 .. p - 1, inbox'[q].do = "epoch"
          PROVE  inbox'[q].epoch <= Came(c)
      <3>1. q + 1 \in 1 .. p + 1 - 1 /\ inbox'[q] = inbox[q + 1]
        BY <1>3, <1>4, <2>1
      <3>2. QED
        BY <2>2, <2>6, <3>1
    <2>7. QED
      BY <2>1, <2>4, <2>5, <2>6 DEF CommandFiled
  <1>12. \A p \in DOMAIN inbox' : inbox'[p].do = "epoch" => inbox'[p].epoch <= epoch
    BY <1>2, <1>10
  <1>13. CurrentEpoch(entries') <= epoch
    <2>1. inbox[1].do = "epoch" => inbox[1].epoch <= epoch
      BY <1>2, <1>4
    <2>2. QED
      BY <1>1, <1>2, <1>7, <2>1 DEF Serves
  <1>14. SenderFiled'
    <2>1. ASSUME stage = "led" \/ (stage = "fetch" /\ local = epoch)
          PROVE  Filed(entries', inbox', Len(inbox') + 1, epoch)
      <3>1. Filed(entries, inbox, m + 1, epoch)
        BY <1>2, <2>1 DEF SenderFiled, m
      <3>2. Len(inbox') + 1 = m /\ m \in 1 .. m
        BY <1>3
      <3>3. QED
        BY <1>1, <1>9, <3>1, <3>2
    <2>2. ASSUME stage = "check"
          PROVE  /\ local = CurrentEpoch(entries')
                 /\ \A p \in DOMAIN inbox' : inbox'[p].do = "query"
      <3>1. local = CurrentEpoch(entries) /\ \A p \in DOMAIN inbox : inbox[p].do = "query"
        BY <1>2, <2>2 DEF SenderFiled
      <3>2. entries' = entries
        BY <1>1, <1>4, <3>1 DEF Serves
      <3>3. QED
        BY <1>10, <3>1, <3>2
    <2>3. \A p \in DOMAIN inbox' : inbox'[p].do # "truncate"
      BY <1>5, <1>10
    <2>4. stray = <<>>
      BY <1>2 DEF SenderFiled
    <2>5. QED
      BY <1>1, <2>1, <2>2, <2>3, <2>4 DEF SenderFiled
  <1>15. QED
    BY <1>1, <1>11, <1>12, <1>13, <1>14 DEF EpochsFiled

\* The senders.
LEMMA SendersEpochs ==
  ASSUME IndInv, EpochInv,
         \/ \E n \in 1 .. MaxBatch, acks \in {"written", "durable"} :
                \E good \in 0 .. n : SendAppend(n, good, acks)
         \/ \E w \in 1 .. MaxEpoch : SendReplicated(w)
         \/ \E n \in 0 .. MaxRecords : SendTruncate(n)
         \/ SendEpoch \/ SendStray \/ SendQuery
  PROVE  EpochInv'
  <1>1. /\ Sending /\ InboxOK(inbox', Size') /\ inbox \in Seq(Command) /\ SenderOK
        /\ EntriesOK(entries)
    <2>1. IndInv'
      BY SendAppendInd, SendReplicatedInd, SendTruncateInd, SendOthersInd
    <2>2. Sending
      BY DEF SendAppend, SendReplicated, SendTruncate, SendEpoch, SendStray, SendQuery
    <2>3. InboxOK(inbox', Size')
      BY <2>1 DEF IndInv, TypeInv
    <2>4. QED
      BY <2>2, <2>3 DEF IndInv, TypeInv, InboxOK
  <1>2. ASSUME NEW c, Send(c)
        PROVE  c \in Command
    <2>1. inbox' = Append(inbox, c) /\ Len(inbox) \in Nat /\ inbox' \in Seq(Command)
      BY <1>1, <1>2 DEF Send, InboxOK
    <2>2. Len(inbox') = Len(inbox) + 1 /\ inbox'[Len(inbox) + 1] = c
      BY <1>1, <2>1
    <2>3. Len(inbox) + 1 \in 1 .. Len(inbox')
      BY <2>1, <2>2
    <2>4. QED
      BY <2>1, <2>2, <2>3, ElementOfSeq
  <1>3. /\ lapses' = {} => lapses = {} /\ epoch' = epoch
    BY DEF SendAppend, SendReplicated, SendTruncate, SendEpoch, SendStray, SendQuery, env
  <1> SUFFICES ASSUME lapses = {}, lapses' = {}, epoch' = epoch, EpochsFiled, SenderFiled
               PROVE  EpochsFiled'
    BY <1>3 DEF EpochInv, EpochsFiled
  <1>4. epoch \in Nat /\ CurrentEpoch(entries) \in Nat /\ stray = <<>>
    BY <1>1, PartitionAssumption, CurrentEpochIsLast DEF SenderOK, SenderFiled
  <1>5. ASSUME NEW n, NEW acks, NEW good, SendAppend(n, good, acks)
        PROVE  EpochsFiled'
    <2> DEFINE c == [do |-> "append", ids |-> Fresh(n), good |-> good,
                     acks |-> acks, epoch |-> epoch]
    <2>1. /\ Send(c) /\ UNCHANGED <<stage, local, stray>> /\ stage \in {"due", "led"}
          /\ stage = "due" => ~ (CurrentEpoch(entries) < epoch)
      BY <1>5 DEF SendAppend
    <2>2. c.do = "append" /\ c.epoch = epoch /\ Came(c) = epoch
      BY DEF Came
    <2> HIDE DEF c
    <2>3. Filed(entries, inbox, Len(inbox) + 1, epoch)
      <3>1. CASE stage = "led"
        BY <3>1 DEF SenderFiled
      <3>2. CASE stage = "due"
        <4>1. epoch <= CurrentEpoch(entries)
          BY <1>4, <2>1, <3>2
        <4>2. \A q \in 1 .. Len(inbox) + 1 - 1 : q \in DOMAIN inbox
          BY <1>1, LenProperties
        <4>3. QED
          BY <3>2, <4>1, <4>2 DEF SenderFiled, Filed
      <3>3. QED
        BY <2>1, <3>1, <3>2
    <2>4. QED
      BY <1>1, <1>2, <1>4, <2>1, <2>2, <2>3, SendEpochs
  <1>6. ASSUME NEW w \in 1 .. MaxEpoch, SendReplicated(w)
        PROVE  EpochsFiled'
    <2> DEFINE c == [do |-> "replicated", id |-> count.records + 1, base |-> Size,
                     epoch |-> w, came |-> epoch]
    <2>1. /\ Send(c) /\ UNCHANGED <<stage, local, stray>>
          /\ stage = "fetch" /\ local = epoch /\ w <= epoch
      BY <1>6 DEF SendReplicated
    <2>2. c.do = "replicated" /\ c.epoch = w /\ Came(c) = epoch
      BY DEF Came
    <2> HIDE DEF c
    <2>3. Filed(entries, inbox, Len(inbox) + 1, epoch)
      BY <2>1 DEF SenderFiled
    <2>4. Len(inbox) + 1 \in 1 .. Len(inbox) + 1 /\ w \in Nat
      BY <1>1
    <2>5. Filed(entries, inbox, Len(inbox) + 1, w)
      BY <1>1, <1>4, <2>1, <2>3, <2>4, FiledEarlier
    <2>6. QED
      BY <1>1, <1>2, <1>4, <2>1, <2>2, <2>5, SendEpochs
  <1>7. ASSUME NEW n, SendTruncate(n)
        PROVE  EpochsFiled'
    <2> DEFINE c == [do |-> "truncate", to |-> n]
    <2>1. /\ Send(c) /\ UNCHANGED <<local, stray>> /\ stage' = "fetch" /\ inbox = <<>>
          /\ stage = "check"
          /\ ~ (local = epoch /\ CurrentEpoch(TruncateTo(entries, n)) < epoch)
      BY <1>7 DEF SendTruncate
    <2>2. c.do = "truncate" /\ c.to = n
      OBVIOUS
    <2> HIDE DEF c
    <2>3. local = CurrentEpoch(entries)
      BY <2>1 DEF SenderFiled
    <2>4. CurrentEpoch(TruncateTo(entries, n)) \in Nat
      <3>1. c \in Command
        BY <1>2, <2>1
      <3>2. n \in Nat
        BY <2>2, <3>1 DEF Command, Replicated
      <3>3. QED
        BY <1>1, <3>2, TruncateToOrdered, CurrentEpochIsLast
    <2>5. local' = epoch => /\ epoch <= CurrentEpoch(entries)
                            /\ epoch <= CurrentEpoch(TruncateTo(entries, c.to))
      BY <1>4, <2>1, <2>2, <2>3, <2>4
    <2>6. QED
      BY <1>1, <1>2, <1>4, <2>1, <2>2, <2>5, SendEpochs
  <1>8. CASE SendEpoch
    <2> DEFINE c == [do |-> "epoch", epoch |-> epoch]
    <2>1. Send(c) /\ UNCHANGED stray /\ stage' \in {"led", "fetch"}
      BY <1>8 DEF SendEpoch
    <2>2. c.do = "epoch" /\ c.epoch = epoch
      OBVIOUS
    <2> HIDE DEF c
    <2>3. QED
      BY <1>1, <1>2, <1>4, <2>1, <2>2, SendEpochs
  <1>9. CASE SendStray
    BY <1>4, <1>9 DEF SendStray
  <1>10. CASE SendQuery
    <2> DEFINE c == [do |-> "query"]
    <2>1. Send(c) /\ UNCHANGED <<stage, local, stray>>
      BY <1>10 DEF SendQuery, env
    <2>2. c.do = "query"
      OBVIOUS
    <2> HIDE DEF c
    <2>3. QED
      BY <1>1, <1>2, <1>4, <2>1, <2>2, SendEpochs
  <1>11. QED
    BY <1>5, <1>6, <1>7, <1>8, <1>9, <1>10

\* A new role comes with a later epoch, except to the leader that restarts and the
\* follower whose fetcher died; a fetcher that finds nothing to cut knows what is on
\* file.
LEMMA RolesEpochs ==
  ASSUME IndInv, EpochInv,
         \/ \E e \in 1 .. MaxEpoch : TakeLead(e) \/ Follow(e)
         \/ LearnLocal \/ Reconciled
  PROVE  EpochInv'
  <1>1. /\ lapses' = lapses /\ UNCHANGED <<entries, store, inbox, stray>>
    BY DEF TakeLead, Follow, LearnLocal, Reconciled, Sending
  <1> SUFFICES ASSUME EpochsFiled PROVE EpochsFiled'
    BY <1>1 DEF EpochInv
  <1>2. /\ EntriesOK(entries) /\ epoch \in Nat /\ MaxEpoch \in Nat
        /\ inbox \in Seq(Command)
    BY PartitionAssumption DEF IndInv, TypeInv, SenderOK, InboxOK
  <1>3. CurrentEpoch(entries) \in Nat
    BY <1>2, CurrentEpochIsLast
  <1>4. \A p \in DOMAIN inbox : inbox[p].do = "epoch" => inbox[p].epoch \in Nat
    <2> SUFFICES ASSUME NEW p \in DOMAIN inbox, inbox[p].do = "epoch"
                 PROVE  inbox[p].epoch \in Nat
      OBVIOUS
    <2>1. inbox[p] \in Command
      BY <1>2, ElementOfSeq, LenProperties
    <2>2. QED
      BY <2>1 DEF Command, Replicated
  <1>5. /\ Describes(entries, store.log) /\ CurrentEpoch(entries) <= epoch
        /\ \A p \in DOMAIN inbox : CommandFiled(entries, inbox, p)
        /\ \A p \in DOMAIN inbox : inbox[p].do = "epoch" => inbox[p].epoch <= epoch
        /\ SenderFiled
    BY DEF EpochsFiled
  <1>6. SUFFICES epoch' \in Nat /\ epoch <= epoch' /\ SenderFiled'
    BY <1>1, <1>2, <1>3, <1>4, <1>5, <1>6 DEF EpochsFiled
  <1>7. ASSUME NEW e \in 1 .. MaxEpoch, TakeLead(e)
        PROVE  epoch' \in Nat /\ epoch <= epoch' /\ SenderFiled'
    <2>1. /\ epoch' = e /\ stage' = "due" /\ e \in Nat
          /\ e > epoch \/ (e = epoch /\ stage = "out")
      BY <1>2, <1>7 DEF TakeLead
    <2>2. epoch <= epoch'
      BY <1>2, <2>1
    <2>3. e <= CurrentEpoch(entries) => stage = "out"
      BY <1>2, <1>3, <1>5, <2>1
    <2>4. QED
      BY <1>1, <1>5, <2>1, <2>2, <2>3 DEF SenderFiled
  <1>8. ASSUME NEW e \in 1 .. MaxEpoch, Follow(e)
        PROVE  epoch' \in Nat /\ epoch <= epoch' /\ SenderFiled'
    <2>1. /\ epoch' = e /\ stage' = "join" /\ e \in Nat /\ epoch <= e
      BY <1>2, <1>8 DEF Follow
    <2>2. QED
      BY <1>1, <1>5, <2>1 DEF SenderFiled
  <1>9. CASE LearnLocal
    <2>1. /\ inbox = <<>> /\ local' = CurrentEpoch(entries) /\ stage' = "check" /\ epoch' = epoch
      BY <1>9 DEF LearnLocal
    <2>2. QED
      BY <1>1, <1>2, <1>5, <2>1 DEF SenderFiled
  <1>10. CASE Reconciled
    <2>1. stage = "check" /\ stage' = "fetch" /\ epoch' = epoch /\ local' = local
      BY <1>10 DEF Reconciled
    <2>2. local = CurrentEpoch(entries) /\ \A p \in DOMAIN inbox : inbox[p].do = "query"
      BY <1>5, <2>1 DEF SenderFiled
    <2>3. \A q \in 1 .. Len(inbox) + 1 - 1 : q \in DOMAIN inbox
      BY <1>2, LenProperties
    <2>4. local = epoch => Filed(entries, inbox, Len(inbox) + 1, epoch)
      BY <1>2, <2>2, <2>3 DEF Filed
    <2>5. QED
      BY <1>1, <1>2, <1>5, <2>1, <2>4 DEF SenderFiled
  <1>11. QED
    BY <1>7, <1>8, <1>9, <1>10

\* The records a command appends are described: the epoch on file is theirs or a
\* later one, and not later than the replica's when they were sent.
LEMMA AppendDescribed ==
  ASSUME IndInv, EpochsFiled, NEW records \in Seq(LogRecord),
         Cmd.do \in {"append", "replicated"}, inbox # <<>>,
         \A i \in 1 .. Len(records) :
             records[i].epoch = Cmd.epoch /\ records[i].came = Came(Cmd)
  PROVE  Describes(entries, Appended(records).log)
  <1> DEFINE log2 == Appended(records).log
  <1>1. StoreOK(store) /\ EntriesOK(entries) /\ inbox \in Seq(Command) /\ Cmd = inbox[1]
    BY DEF IndInv, TypeInv, InboxOK, Cmd
  <1>2. /\ Grown(store, Appended(records)) /\ Len(log2) = Size + Len(records)
        /\ \A j \in 1 .. Len(records) : log2[Size + j] = records[j]
    BY <1>1, AppendStep
  <1>3. /\ log2 \in Seq(LogRecord) /\ store.log \in Seq(LogRecord) /\ Size \in Nat
        /\ Size = Len(store.log) /\ Len(log2) \in Nat /\ Size <= Len(log2)
        /\ \A j \in 1 .. Size : log2[j] = store.log[j]
    BY <1>1, <1>2 DEF Grown, StoreOK, Store, Size
  <1>4. Cmd.epoch <= CurrentEpoch(entries) /\ CurrentEpoch(entries) <= Came(Cmd)
    <2>1. 1 \in DOMAIN inbox
      BY <1>1, EmptySeq, LenProperties
    <2>2. Filed(entries, inbox, 1, Cmd.epoch) /\ CurrentEpoch(entries) <= Came(Cmd)
      BY <1>1, <2>1 DEF EpochsFiled, CommandFiled
    <2>3. \A j \in 1 .. 1 - 1 : FALSE
      OBVIOUS
    <2>4. QED
      BY <2>2, <2>3 DEF Filed
  <1> HIDE DEF log2
  <1>5. ASSUME NEW o \in Size + 1 .. Len(log2)
        PROVE  log2[o].epoch <= CurrentEpoch(entries) /\ CurrentEpoch(entries) <= log2[o].came
    <2>1. o - Size \in 1 .. Len(records) /\ Size + (o - Size) = o
      BY <1>2, <1>3
    <2>2. log2[Size + (o - Size)] = records[o - Size]
      BY <1>2, <2>1
    <2>3. QED
      BY <1>4, <2>1, <2>2
  <1>6. Describes(entries, store.log)
    BY DEF EpochsFiled
  <1>7. Describes(entries, log2)
    BY <1>1, <1>3, <1>5, <1>6, DescribesLonger
  <1>8. QED
    BY <1>7 DEF log2

\* The thread.
LEMMA HandleEpochs ==
  ASSUME IndInv, EpochInv, Handle
  PROVE  EpochInv'
  <1>1. /\ StoreOK(store) /\ EntriesOK(entries) /\ store.log \in Seq(LogRecord)
        /\ Size = Len(store.log) /\ Size \in Nat
    BY DEF IndInv, TypeInv, StoreOK, Store, Size
  <1>2. lapses' = lapses
    BY DEF Handle, HandleAppend, HandleReplicated, HandleTruncate, HandleEpoch, HandleQuery, Take
  <1> SUFFICES ASSUME EpochsFiled PROVE EpochsFiled'
    BY <1>2 DEF EpochInv
  <1>3. Describes(entries, store.log) /\ CurrentEpoch(entries) \in Nat
    BY <1>1, CurrentEpochIsLast DEF EpochsFiled
  <1>4. CASE HandleAppend
    <2> DEFINE good == Cmd.good
               ids == Cmd.ids
               records == [i \in 1 .. good |-> Record(ids[i], Cmd.epoch, Cmd.epoch)]
    <2>1. Take("append") /\ entries' = entries /\ store' = Appended(records)
      BY <1>4 DEF HandleAppend
    <2>2. Cmd \in Command /\ Cmd.do = "append" /\ inbox # <<>> /\ CommandOK(1, Cmd, Size)
      BY <2>1, TakeStep DEF IndInv, Take
    <2>3. /\ good \in Nat /\ ids \in Seq(1 .. MaxRecords) /\ Cmd.epoch \in 1 .. MaxEpoch
          /\ good <= Len(ids)
      BY <2>2 DEF Command, Replicated, CommandOK
    <2>4. ASSUME NEW i \in 1 .. good
          PROVE  Record(ids[i], Cmd.epoch, Cmd.epoch) \in LogRecord
      <3> HIDE DEF good, ids
      <3>1. i \in 1 .. Len(ids)
        BY <2>3
      <3>2. ids[i] \in 1 .. MaxRecords
        BY <2>3, <3>1, ElementOfSeq
      <3>3. QED
        BY <2>3, <3>2 DEF Record, LogRecord
    <2> HIDE DEF good, ids
    <2>5. records \in Seq(LogRecord) /\ Len(records) = good
      BY <2>3, <2>4
    <2>6. \A i \in 1 .. Len(records) :
            records[i].epoch = Cmd.epoch /\ records[i].came = Came(Cmd)
      BY <2>2, <2>5 DEF Record, Came
    <2> HIDE DEF records
    <2>7. Describes(entries', store'.log)
      BY <2>1, <2>2, <2>5, <2>6, AppendDescribed
    <2>8. Serves(entries, entries', Cmd)
      BY <1>3, <2>1, <2>2 DEF Serves
    <2>9. QED
      BY <2>1, <2>7, <2>8, TakeEpochs
  <1>5. CASE HandleReplicated
    <2> DEFINE records == <<Record(Cmd.id, Cmd.epoch, Cmd.came)>>
    <2>1. /\ Take("replicated") /\ entries' = entries
          /\ store' \in {Appended(records), store}
      BY <1>5 DEF HandleReplicated
    <2>2. Cmd \in Command /\ Cmd.do = "replicated" /\ inbox # <<>>
      BY <2>1, TakeStep DEF IndInv, Take
    <2>3. Cmd \in Replicated
      BY <2>2 DEF Command
    <2>4. /\ records \in Seq(LogRecord)
          /\ \A i \in 1 .. Len(records) :
                 records[i].epoch = Cmd.epoch /\ records[i].came = Came(Cmd)
      <3>1. Record(Cmd.id, Cmd.epoch, Cmd.came) \in LogRecord
        BY <2>3 DEF Record, LogRecord, Replicated
      <3>2. Came(Cmd) = Cmd.came
        BY <2>2 DEF Came
      <3>3. QED
        BY <3>1, <3>2 DEF Record
    <2> HIDE DEF records
    <2>5. Describes(entries', store'.log)
      BY <1>3, <2>1, <2>2, <2>4, AppendDescribed
    <2>6. Serves(entries, entries', Cmd)
      BY <1>3, <2>1, <2>2 DEF Serves
    <2>7. QED
      BY <2>1, <2>5, <2>6, TakeEpochs
  <1>6. CASE HandleTruncate
    <2> DEFINE n == Cmd.to
    <2>1. Take("truncate") /\ entries' = TruncateTo(entries, n) /\ store' = Cut(n)
      BY <1>6 DEF HandleTruncate
    <2>2. Cmd \in Command /\ Cmd.do = "truncate" /\ CommandOK(1, Cmd, Size)
      BY <2>1, TakeStep DEF IndInv
    <2>3. n \in Nat /\ n < Size
      BY <2>2 DEF Command, Replicated, CommandOK
    <2>4. Cmd.to = n
      OBVIOUS
    <2> HIDE DEF n
    <2>5. store'.log = SubSeq(store.log, 1, n)
      BY <1>1, <2>1, <2>3, CutStep
    <2>6. /\ Describes(entries', store'.log)
          /\ CurrentEpoch(entries') <= CurrentEpoch(entries)
      BY <1>1, <1>3, <2>1, <2>3, <2>5, DescribesTruncate
    <2>7. CurrentEpoch(entries') \in Nat
      BY <1>1, <2>1, <2>3, TruncateToOrdered, CurrentEpochIsLast
    <2>8. Serves(entries, entries', Cmd)
      BY <2>1, <2>2, <2>4, <2>6, <2>7 DEF Serves
    <2>9. QED
      BY <2>1, <2>6, <2>8, TakeEpochs
  <1>7. CASE HandleEpoch
    <2> DEFINE e == Cmd.epoch
    <2>1. Take("epoch") /\ entries' = RecordEpoch(entries, e, Size) /\ store' = store
      BY <1>7 DEF HandleEpoch
    <2>2. Cmd \in Command /\ Cmd.do = "epoch"
      BY <2>1, TakeStep DEF IndInv
    <2>3. e \in 1 .. MaxEpoch /\ Cmd.epoch = e
      BY <2>2 DEF Command, Replicated
    <2> HIDE DEF e
    <2>4. /\ Describes(entries', store'.log)
          /\ CurrentEpoch(entries') \in {CurrentEpoch(entries), e}
          /\ CurrentEpoch(entries) <= CurrentEpoch(entries') /\ e <= CurrentEpoch(entries')
      BY <1>1, <1>3, <2>1, <2>3, DescribesRecord
    <2>5. CurrentEpoch(entries') \in Nat
      BY <1>3, <2>3, <2>4
    <2>6. Serves(entries, entries', Cmd)
      BY <2>2, <2>3, <2>4, <2>5 DEF Serves
    <2>7. QED
      BY <2>1, <2>4, <2>6, TakeEpochs
  <1>8. CASE HandleQuery
    <2>1. Take("query") /\ entries' = entries /\ store' = store /\ Cmd.do = "query"
      BY <1>8 DEF HandleQuery, Take
    <2>2. Serves(entries, entries', Cmd)
      BY <1>3, <2>1 DEF Serves
    <2>3. QED
      BY <1>3, <2>1, <2>2, TakeEpochs
  <1>9. QED
    BY <1>4, <1>5, <1>6, <1>7, <1>8 DEF Handle

\* A restart either finds the checkpoint ahead of the log, or the rest of the
\* log is still described by it.
LEMMA RestartEpochs ==
  ASSUME IndInv, EpochInv, entries' = entries, NEW n \in 0 .. Size, NEW stable \in 0 .. n,
         Restarted(Reopened(n, stable))
  PROVE  EpochInv'
  <1> DEFINE t == Reopened(n, stable)
  <1>1. /\ StoreOK(store) /\ EntriesOK(entries) /\ store.log \in Seq(LogRecord)
        /\ Size = Len(store.log) /\ Size \in Nat
    BY DEF IndInv, TypeInv, StoreOK, Store, Size
  <1>2. /\ StoreOK(t) /\ Len(t.log) = n /\ \A i \in 1 .. n : t.log[i] = store.log[i]
    BY <1>1, ReopenStep
  <1> HIDE DEF t
  <1>3. /\ store' = t /\ inbox' = <<>> /\ epoch' = epoch
        /\ stage' = "out" /\ stray' = <<>>
        /\ lapses' = lapses \cup {x \in {"ahead"} :
                                      entries # <<>> /\ Last(entries).start > Len(t.log)}
    BY DEF Restarted, t
  <1> SUFFICES ASSUME lapses' = {} PROVE EpochsFiled'
    BY DEF EpochInv
  <1>4. EpochsFiled /\ ~ (entries # <<>> /\ Last(entries).start > Len(t.log))
    BY <1>3 DEF EpochInv
  <1>5. entries # <<>> => Last(entries).start <= Len(t.log)
    <2>1. entries # <<>> => Last(entries).start \in Nat
      BY <1>1, EntriesFacts DEF Last
    <2>2. QED
      BY <1>2, <1>4, <2>1
  <1>6. t.log \in Seq(LogRecord) /\ Len(t.log) <= Len(store.log)
    BY <1>1, <1>2 DEF StoreOK, Store
  <1>7. Describes(entries, t.log)
    BY <1>1, <1>2, <1>4, <1>5, <1>6, DescribesShorter DEF EpochsFiled
  <1>8. SenderFiled'
    BY <1>3 DEF SenderFiled
  <1>9. QED
    BY <1>3, <1>4, <1>7, <1>8 DEF EpochsFiled

\* Every step keeps it.
LEMMA NextEpochs == IndInv /\ EpochInv /\ [Next]_vars => EpochInv'
  <1> SUFFICES ASSUME IndInv, EpochInv, [Next]_vars PROVE EpochInv'
    OBVIOUS
  <1>0. /\ StoreOK(store) /\ Size \in Nat /\ store.synced \in 0 .. Size
    BY DEF IndInv, TypeInv, StoreOK, Store, Size
  <1>1. CASE UNCHANGED vars
    BY <1>1 DEF vars, env, EpochInv, EpochsFiled, SenderFiled
  <1>2. CASE TimerFlush
    <2>1. /\ store' = Flushed(store) /\ entries' = entries /\ inbox' = inbox
          /\ UNCHANGED <<epoch, stage, local, stray, lapses>>
      BY <1>2 DEF TimerFlush, env
    <2>2. store'.log = store.log
      BY <1>0, <2>1, FlushStep
    <2>3. QED
      BY <2>1, <2>2 DEF EpochInv, EpochsFiled, SenderFiled
  <1>3. CASE Crash
    <2>1. PICK n \in 0 .. Size, stable \in 0 .. Size :
            stable <= n /\ Restarted(Reopened(n, stable))
      BY <1>0, <1>3 DEF Crash
    <2>2. stable \in 0 .. n /\ entries' = entries
      BY <1>0, <1>3, <2>1 DEF Crash
    <2>3. QED
      BY <2>1, <2>2, RestartEpochs
  <1>4. CASE CrashInTruncate
    <2> DEFINE n == Cmd.to
               stable == Min({store.synced, n})
    <2>1. /\ Restarted(Reopened(n, stable)) /\ entries' = entries
          /\ inbox # <<>> /\ Cmd.do = "truncate" /\ inbox \in Seq(Command) /\ Cmd = inbox[1]
      BY <1>4 DEF CrashInTruncate, IndInv, TypeInv, InboxOK, Cmd
    <2>2. 1 \in DOMAIN inbox
      BY <2>1, EmptySeq, LenProperties
    <2>3. Cmd \in Command /\ CommandOK(1, Cmd, Size)
      BY <2>1, <2>2 DEF IndInv, TypeInv, InboxOK
    <2>4. n \in Nat /\ n < Size
      BY <2>1, <2>3 DEF Command, Replicated, CommandOK
    <2> HIDE DEF n
    <2>5. stable = IF store.synced <= n THEN store.synced ELSE n
      <3>1. store.synced \in Nat
        BY <1>0
      <3>2. QED
        BY <2>4, <3>1, MinOfTwo
    <2> HIDE DEF stable
    <2>6. n \in 0 .. Size /\ stable \in 0 .. n
      BY <1>0, <2>4, <2>5
    <2>7. QED
      BY <2>1, <2>6, RestartEpochs
  <1>5. CASE Shutdown
    <2>1. Restarted(Reopened(Size, Size)) /\ entries' = entries /\ Size \in 0 .. Size
      BY <1>0, <1>5 DEF Shutdown
    <2>2. QED
      BY <2>1, RestartEpochs
  <1>6. QED
    BY <1>1, <1>2, <1>3, <1>4, <1>5, SendersEpochs, RolesEpochs, HandleEpochs DEF Next

\* EpochCheckpoint::end_offset_for of a checkpoint that describes the log separates
\* the records written up to the epoch asked for from those that came in a later one.
LEMMA EndOffsetSeparates ==
  ASSUME NEW es, EntriesOK(es), NEW log \in Seq(LogRecord), Describes(es, log), NEW e \in Nat,
         NEW i \in 1 .. Len(log)
  PROVE  IF i <= EndOffsetFor(es, e, Len(log)) THEN log[i].epoch <= e ELSE log[i].came > e
  <1> DEFINE n == Len(log)
             m == Len(es)
             later == {k \in DOMAIN es : es[k].epoch > e}
  <1>1. /\ n \in Nat /\ m \in Nat /\ DOMAIN es = 1 .. m /\ i \in Nat /\ i <= n
        /\ \A k \in 1 .. m : es[k].epoch \in Nat /\ es[k].start \in Nat
    BY EntriesFacts
  <1>2. log[i].epoch \in Nat /\ log[i].came \in Nat
    <2>1. log[i] \in LogRecord
      BY ElementOfSeq
    <2>2. QED
      BY <2>1 DEF LogRecord
  <1>3. PICK k \in 1 .. m : es[k].start < i /\ log[i].epoch <= es[k].epoch
    BY <1>1 DEF Describes
  <1>4. \A j \in 1 .. m : es[j].start < i => es[j].epoch <= log[i].came
    BY <1>1 DEF Describes
  <1>5. es # <<>> /\ 1 \in 1 .. m
    BY <1>1, <1>3
  <1>6. \A j \in 1 .. m, l \in 1 .. m : j < l => es[j].start <= es[l].start
    BY <1>1 DEF EntriesOK
  <1>7. CASE 1 \in later
    <2>1. EndOffsetFor(es, e, n) = 0
      BY <1>7 DEF EndOffsetFor
    <2>2. es[1].start <= es[k].start
      BY <1>1, <1>3, <1>5, <1>6
    <2>3. es[1].start < i
      BY <1>1, <1>3, <1>5, <2>2
    <2>4. es[1].epoch <= log[i].came /\ es[1].epoch > e
      BY <1>4, <1>5, <1>7, <2>3
    <2>5. ~ (i <= 0) /\ log[i].came > e
      BY <1>1, <1>2, <1>5, <2>4
    <2>6. QED
      BY <2>1, <2>5
  <1>8. CASE later = {}
    <2>1. EndOffsetFor(es, e, n) = n
      BY <1>5, <1>8 DEF EndOffsetFor
    <2>2. es[k].epoch <= e
      BY <1>1, <1>3, <1>8
    <2>3. log[i].epoch <= e
      BY <1>1, <1>2, <1>3, <2>2
    <2>4. QED
      BY <1>1, <2>1, <2>3
  <1>9. CASE 1 \notin later /\ later # {}
    <2> DEFINE j == Min(later)
    <2>1. j \in later /\ \A l \in later : j <= l
      <3>1. later \in SUBSET Nat
        BY <1>1
      <3>2. QED
        BY <1>9, <3>1, MinIsLeast
    <2>2. EndOffsetFor(es, e, n) = es[j].start
      BY <1>5, <1>9 DEF EndOffsetFor
    <2> HIDE DEF j
    <2>3. j \in 1 .. m /\ es[j].epoch > e
      BY <1>1, <2>1
    <2>4. CASE i <= es[j].start
      <3>1. ~ (j <= k)
        <4>1. ~ (j < k)
          BY <1>1, <1>3, <1>6, <2>3, <2>4
        <4>2. j # k
          BY <1>1, <1>3, <2>3, <2>4
        <4>3. QED
          BY <1>1, <2>3, <4>1, <4>2
      <3>2. k \notin later
        BY <2>1, <3>1
      <3>3. es[k].epoch <= e
        BY <1>1, <3>2
      <3>4. log[i].epoch <= e
        BY <1>1, <1>2, <1>3, <3>3
      <3>5. QED
        BY <2>2, <2>4, <3>4
    <2>5. CASE ~ (i <= es[j].start)
      <3>1. es[j].start < i
        BY <1>1, <2>3, <2>5
      <3>2. es[j].epoch <= log[i].came
        BY <1>4, <2>3, <3>1
      <3>3. log[i].came > e
        BY <1>1, <1>2, <2>3, <3>2
      <3>4. QED
        BY <2>2, <2>5, <3>3
    <2>6. QED
      BY <2>4, <2>5
  <1>10. QED
    BY <1>7, <1>8, <1>9

\* As long as nothing kept an epoch off the checkpoint, what the leader answers a
\* rejoining follower separates its history for every epoch asked for: no record
\* before the answer was written later, and each one after it was written, or
\* fetched, when the replica was in a later epoch.  It does so for every history of
\* epochs, roles, truncations, crashes and power losses.
THEOREM EpochEndsAreRight == Spec => []AnswersUnlessLapsed
  <1>1. Init => EpochInv
    <2> SUFFICES ASSUME Init PROVE EpochInv
      OBVIOUS
    <2>1. /\ entries = <<>> /\ inbox = <<>> /\ store.log = <<>> /\ epoch = 0
          /\ stage = "out" /\ stray = <<>>
      BY DEF Init
    <2>2. Len(<<>>) = 0 /\ \A o \in 1 .. 0 : FALSE
      OBVIOUS
    <2>3. Describes(<<>>, <<>>)
      BY <2>2 DEF Describes
    <2>4. CurrentEpoch(<<>>) = 0
      BY DEF CurrentEpoch
    <2>5. SenderFiled
      BY <2>1 DEF SenderFiled
    <2>6. QED
      BY <2>1, <2>3, <2>4, <2>5 DEF EpochInv, EpochsFiled
  <1>2. IndInv /\ EpochInv => AnswersUnlessLapsed
    <2> SUFFICES ASSUME IndInv, EpochInv, lapses = {}, NEW e \in 0 .. MaxEpoch,
                        NEW i \in DOMAIN store.log
                 PROVE  IF i <= EndOffsetFor(entries, e, Size)
                        THEN store.log[i].epoch <= e ELSE store.log[i].came > e
      BY DEF AnswersUnlessLapsed, AnswersEpochEnd
    <2>1. EntriesOK(entries) /\ store.log \in Seq(LogRecord) /\ Describes(entries, store.log)
      BY DEF IndInv, TypeInv, StoreOK, Store, EpochInv, EpochsFiled
    <2>2. e \in Nat /\ i \in 1 .. Len(store.log)
      BY <2>1, LenProperties, PartitionAssumption
    <2>3. QED
      BY <2>1, <2>2, EndOffsetSeparates DEF Size
  <1>3. QED
    BY <1>1, <1>2, Invariance, NextEpochs, PTL DEF Spec

====================
