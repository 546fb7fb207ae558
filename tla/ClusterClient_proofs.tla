------------------------- MODULE ClusterClient_proofs -------------------------
(***************************************************************************)
(* What is proved about Checker and ClusterClient.  The checker's passes   *)
(* decide what they are meant to: for every history, of any length and any *)
(* number of readers and partitions, its verdict is OK if and only if one  *)
(* log per partition explains what was recorded.  For every number of      *)
(* brokers, readers, batches and mishaps: calls and requests belong        *)
(* together, acknowledged ids are in the log and in order, the checker     *)
(* accuses no cluster that lost nothing, and its verdict is the one it     *)
(* stands for.                                                             *)
(***************************************************************************)
EXTENDS ClusterClient, ProofLemmas

------------------------------------------------------------------------------
(* The checker's passes *)

\* A history as the workload records it: offsets are naturals (u64 in the code).
IsHistory(reads) ==
    /\ reads \in Seq({reads[i] : i \in DOMAIN reads})
    /\ \A i \in DOMAIN reads : reads[i].offset \in Nat

------------------------------------------------------------------------------
(* Monotonicity *)

Forwards(reads) ==
    \A i, j \in DOMAIN reads :
        i < j /\ Stream(reads[i]) = Stream(reads[j]) =>
            reads[i].offset < reads[j].offset

\* Comparing each record with the last one of its stream is enough to see that
\* the whole stream goes forwards.
LEMMA MonotonicityPass ==
  ASSUME NEW reads, IsHistory(reads)
  PROVE  MonotonicityViolations(reads) = {} <=> Forwards(reads)
  <1> DEFINE Before(i) == {j \in 1 .. i - 1 : Stream(reads[j]) = Stream(reads[i])}
  <1>1. DOMAIN reads = 1 .. Len(reads) /\ Len(reads) \in Nat
    BY DEF IsHistory
  <1>2. \A i \in DOMAIN reads : reads[i].offset \in Nat
    BY DEF IsHistory
  <1>3. ASSUME Forwards(reads) PROVE MonotonicityViolations(reads) = {}
    <2> SUFFICES ASSUME NEW i \in DOMAIN reads, NEW j \in LastSeen(reads, i)
                 PROVE  ~ (reads[i].offset <= reads[j].offset)
      BY DEF MonotonicityViolations
    <2>1. j \in 1 .. i - 1 /\ Stream(reads[j]) = Stream(reads[i])
      BY DEF LastSeen
    <2>2. j \in DOMAIN reads /\ j < i
      BY <1>1, <2>1
    <2>3. reads[j].offset < reads[i].offset
      BY <1>3, <2>1, <2>2 DEF Forwards
    <2>4. reads[j].offset \in Nat /\ reads[i].offset \in Nat
      BY <1>2, <2>2
    <2>5. QED
      BY <2>3, <2>4
  <1>4. ASSUME MonotonicityViolations(reads) = {} PROVE Forwards(reads)
    <2> DEFINE T == {i \in DOMAIN reads :
                       \E j \in Before(i) : ~ (reads[j].offset < reads[i].offset)}
    <2>1. CASE T = {}
      <3> SUFFICES ASSUME NEW i \in DOMAIN reads, NEW j \in DOMAIN reads,
                          i < j, Stream(reads[i]) = Stream(reads[j])
                   PROVE  reads[i].offset < reads[j].offset
        BY DEF Forwards
      <3>1. i \in Before(j)
        BY <1>1
      <3>2. QED
        BY <2>1, <3>1
    <2>2. CASE T # {}
      <3>1. T \in SUBSET Nat
        BY <1>1
      <3>2. PICK i \in T : \A k \in T : i <= k
        BY <2>2, <3>1, LeastNatural
      <3>3. i \in DOMAIN reads /\ i \in Nat
        BY <1>1
      <3>4. PICK j \in Before(i) : ~ (reads[j].offset < reads[i].offset)
        OBVIOUS
      <3>5. Before(i) \in SUBSET (0 .. i) /\ Before(i) # {}
        BY <3>3
      <3>6. PICK m \in Before(i) : \A k \in Before(i) : k <= m
        BY <3>3, <3>5, MaxIsGreatest
      <3>7. m \in LastSeen(reads, i)
        BY <3>6 DEF LastSeen
      <3>8. ~ (reads[i].offset <= reads[m].offset)
        BY <1>4, <3>3, <3>7 DEF MonotonicityViolations
      <3>9. m \in DOMAIN reads /\ j \in DOMAIN reads /\ m < i /\ j <= m /\ m \in Nat /\ j \in Nat
        BY <1>1, <3>3, <3>6
      <3>10. reads[m].offset \in Nat /\ reads[j].offset \in Nat /\ reads[i].offset \in Nat
        BY <1>2, <3>3, <3>9
      <3>11. m \notin T
        BY <3>2, <3>3, <3>9
      <3>12. j # m
        BY <3>4, <3>8, <3>10
      <3>13. j \in Before(m)
        BY <3>9, <3>12
      <3>14. reads[j].offset < reads[m].offset
        BY <3>9, <3>11, <3>13
      <3>15. QED
        BY <3>4, <3>8, <3>10, <3>14
    <2>3. QED
      BY <2>1, <2>2
  <1>5. QED
    BY <1>3, <1>4

------------------------------------------------------------------------------
(* Divergence *)

Agreeing(reads) ==
    \A i, j \in DOMAIN reads :
        Slot(reads[i]) = Slot(reads[j]) => reads[i].id = reads[j].id

\* Comparing each record with the first one seen at its offset is enough to see
\* that all of them agree, though a record that disagrees is not remembered.
LEMMA DivergencePass ==
  ASSUME NEW reads, IsHistory(reads)
  PROVE  DivergentOffsets(reads) = {} <=> Agreeing(reads)
  <1>1. DOMAIN reads = 1 .. Len(reads) /\ Len(reads) \in Nat
    BY DEF IsHistory
  <1>2. ASSUME Agreeing(reads) PROVE DivergentOffsets(reads) = {}
    <2> SUFFICES ASSUME NEW i \in DOMAIN reads, NEW j \in FirstAt(reads, i)
                 PROVE  reads[i].id = reads[j].id
      BY DEF DivergentOffsets
    <2>1. j \in DOMAIN reads /\ Slot(reads[j]) = Slot(reads[i])
      BY <1>1 DEF FirstAt
    <2>2. QED
      BY <1>2, <2>1 DEF Agreeing
  <1>3. ASSUME DivergentOffsets(reads) = {} PROVE Agreeing(reads)
    <2> SUFFICES ASSUME NEW i \in DOMAIN reads, NEW j \in DOMAIN reads,
                        Slot(reads[i]) = Slot(reads[j])
                 PROVE  reads[i].id = reads[j].id
      BY DEF Agreeing
    <2> DEFINE W == {k \in DOMAIN reads : Slot(reads[k]) = Slot(reads[i])}
    <2>1. W \in SUBSET Nat /\ i \in W /\ j \in W
      BY <1>1
    <2>2. PICK f \in W : \A k \in W : f <= k
      BY <2>1, LeastNatural
    <2>3. ASSUME NEW k \in W PROVE reads[k].id = reads[f].id
      <3>1. CASE k = f
        BY <3>1
      <3>2. CASE k # f
        <4>1. f \in 1 .. k - 1 /\ Slot(reads[f]) = Slot(reads[k])
          BY <1>1, <2>2, <3>2
        <4>2. \A x \in 1 .. k - 1 : Slot(reads[x]) = Slot(reads[k]) => x \in W
          BY <1>1
        <4>3. f \in FirstAt(reads, k)
          BY <2>2, <4>1, <4>2 DEF FirstAt
        <4>4. QED
          BY <1>3, <4>3 DEF DivergentOffsets
      <3>3. QED
        BY <3>1, <3>2
    <2>4. QED
      BY <2>1, <2>3
  <1>4. QED
    BY <1>2, <1>3

------------------------------------------------------------------------------
(* Gaps *)

Seen(reads, p) ==
    {reads[i].offset : i \in {j \in DOMAIN reads : reads[j].partition = p}}

PartitionsOf(reads) == {reads[i].partition : i \in DOMAIN reads}

\* Every partition was read without holes, and from its start.
Complete(reads) ==
    \A p \in PartitionsOf(reads) : \E n \in 1 .. Len(reads) : Seen(reads, p) = 0 .. n - 1

\* A history holds a greatest offset.
LEMMA OffsetsBounded ==
  ASSUME NEW reads, IsHistory(reads)
  PROVE  \E m \in Nat : \A i \in DOMAIN reads : reads[i].offset <= m
  <1> DEFINE Bounds == {n \in Nat : \E m \in Nat : \A i \in DOMAIN reads :
                                      i <= n => reads[i].offset <= m}
  <1>1. DOMAIN reads = 1 .. Len(reads) /\ Len(reads) \in Nat
    BY DEF IsHistory
  <1>2. \A i \in DOMAIN reads : reads[i].offset \in Nat
    BY DEF IsHistory
  <1>3. 0 \in Bounds
    BY <1>1
  <1>4. ASSUME NEW n \in Nat, n \in Bounds PROVE n + 1 \in Bounds
    <2>1. PICK m \in Nat : \A i \in DOMAIN reads : i <= n => reads[i].offset <= m
      BY <1>4
    <2>2. CASE n + 1 \in DOMAIN reads
      <3> DEFINE k == m + reads[n + 1].offset
      <3>1. reads[n + 1].offset \in Nat
        BY <1>2, <2>2
      <3>2. k \in Nat /\ m <= k /\ reads[n + 1].offset <= k
        BY <3>1
      <3> HIDE DEF k
      <3>3. ASSUME NEW i \in DOMAIN reads, i <= n + 1 PROVE reads[i].offset <= k
        <4>1. i \in Nat /\ (i <= n \/ i = n + 1)
          BY <1>1, <3>3
        <4>2. reads[i].offset \in Nat
          BY <1>2
        <4>3. QED
          BY <2>1, <3>2, <4>1, <4>2
      <3>4. QED
        BY <3>2, <3>3
    <2>3. CASE n + 1 \notin DOMAIN reads
      <3>1. \A i \in DOMAIN reads : i <= n + 1 => i <= n
        BY <1>1, <2>3
      <3>2. QED
        BY <2>1, <3>1
    <2>4. QED
      BY <2>2, <2>3
  <1> HIDE DEF Bounds
  <1>5. \A n \in Nat : n \in Bounds
    BY <1>3, <1>4, SetInduction
  <1>6. Len(reads) \in Bounds
    BY <1>1, <1>5
  <1>7. PICK m \in Nat : \A i \in DOMAIN reads : i <= Len(reads) => reads[i].offset <= m
    BY <1>6 DEF Bounds
  <1>8. QED
    BY <1>1, <1>7

\* No more offsets are seen than there are records.
LEMMA SeenCount ==
  ASSUME NEW reads, IsHistory(reads), NEW p
  PROVE  IsFiniteSet(Seen(reads, p)) /\ Cardinality(Seen(reads, p)) <= Len(reads)
  <1> DEFINE mine == {j \in DOMAIN reads : reads[j].partition = p}
             f == [j \in mine |-> reads[j].offset]
  <1>1. DOMAIN reads = 1 .. Len(reads) /\ Len(reads) \in Nat
    BY DEF IsHistory
  <1>2. IsFiniteSet(1 .. Len(reads)) /\ Cardinality(1 .. Len(reads)) = Len(reads)
    <2>1. \A n \in Nat : IsFiniteSet(1 .. n) /\ Cardinality(1 .. n) = n
      BY FS_Interval
    <2>2. QED
      BY <1>1, <2>1
  <1>3. IsFiniteSet(mine) /\ Cardinality(mine) <= Len(reads)
    BY <1>1, <1>2, FS_Subset
  <1>4. f \in Surjection(mine, Seen(reads, p))
    BY DEF Surjection, Seen
  <1> HIDE DEF mine, f
  <1>5. IsFiniteSet(Seen(reads, p)) /\ Cardinality(Seen(reads, p)) <= Cardinality(mine)
    BY <1>3, <1>4, FS_Surjection
  <1>6. Cardinality(mine) \in Nat /\ Cardinality(Seen(reads, p)) \in Nat
    BY <1>3, <1>5, FS_CardinalityType
  <1>7. QED
    BY <1>1, <1>3, <1>5, <1>6

\* Counting the offsets seen up to the highest is enough to see that none is
\* missing.
LEMMA GapPass ==
  ASSUME NEW reads, IsHistory(reads)
  PROVE  OffsetGaps(reads) = {} <=> Complete(reads)
  <1>1. DOMAIN reads = 1 .. Len(reads) /\ Len(reads) \in Nat
    BY DEF IsHistory
  <1>2. \A i \in DOMAIN reads : reads[i].offset \in Nat
    BY DEF IsHistory
  <1>3. OffsetGaps(reads) =
          {p \in PartitionsOf(reads) :
             \E max \in Seen(reads, p) :
                /\ \A o \in Seen(reads, p) : o <= max
                /\ Cardinality(Seen(reads, p)) # max + 1}
    BY DEF OffsetGaps, Seen, PartitionsOf
  <1>4. \A p \in PartitionsOf(reads) : Seen(reads, p) # {} /\ Seen(reads, p) \in SUBSET Nat
    BY <1>2 DEF Seen, PartitionsOf
  <1>5. ASSUME Complete(reads) PROVE OffsetGaps(reads) = {}
    <2> SUFFICES ASSUME NEW p \in PartitionsOf(reads), NEW max \in Seen(reads, p),
                        \A o \in Seen(reads, p) : o <= max
                 PROVE  Cardinality(Seen(reads, p)) = max + 1
      BY <1>3
    <2>1. PICK n \in 1 .. Len(reads) : Seen(reads, p) = 0 .. n - 1
      BY <1>5 DEF Complete
    <2>2. max = n - 1
      <3>1. n \in Nat /\ max \in 0 .. n - 1
        BY <1>1, <2>1
      <3>2. n - 1 \in 0 .. n - 1
        BY <3>1
      <3>3. n - 1 <= max
        BY <2>1, <3>2
      <3>4. QED
        BY <3>1, <3>3
    <2>3. Cardinality(0 .. n - 1) = n
      BY <1>1, FS_Interval
    <2>4. QED
      BY <2>1, <2>2, <2>3
  <1>6. ASSUME OffsetGaps(reads) = {} PROVE Complete(reads)
    <2> SUFFICES ASSUME NEW p \in PartitionsOf(reads)
                 PROVE  \E n \in 1 .. Len(reads) : Seen(reads, p) = 0 .. n - 1
      BY DEF Complete
    <2> DEFINE S == Seen(reads, p)
    <2>1. S # {} /\ S \in SUBSET Nat
      BY <1>4
    <2>2. IsFiniteSet(S) /\ Cardinality(S) <= Len(reads)
      BY SeenCount
    <2>3. PICK m \in Nat : \A i \in DOMAIN reads : reads[i].offset <= m
      BY OffsetsBounded
    <2>4. \A o \in S : o <= m
      BY <2>3 DEF Seen
    <2>5. S \in SUBSET (0 .. m)
      BY <2>1, <2>4
    <2>6. \A max \in S : (\A o \in S : o <= max) => Cardinality(S) = max + 1
      BY <1>3, <1>6
    <2> HIDE DEF S
    <2>7. PICK max \in S : \A o \in S : o <= max
      BY <2>1, <2>3, <2>5, MaxIsGreatest
    <2>8. Cardinality(S) = max + 1 /\ max \in Nat
      BY <2>1, <2>6, <2>7
    <2>9. S \in SUBSET (0 .. max)
      BY <2>1, <2>7
    <2>10. IsFiniteSet(0 .. max) /\ Cardinality(0 .. max) = max + 1
      BY <2>8, FS_Interval
    <2>11. S = 0 .. max
      BY <2>8, <2>9, <2>10, FS_Subset
    <2>12. max + 1 \in 1 .. Len(reads) /\ max + 1 - 1 = max
      BY <1>1, <2>2, <2>8
    <2>13. QED
      BY <2>11, <2>12 DEF S
  <1>7. QED
    BY <1>5, <1>6

------------------------------------------------------------------------------
(* The verdict *)

\* The part of OneLog that is about one partition.
Explained(reads, p) ==
    LET mine == {reads[i] : i \in {j \in DOMAIN reads : reads[j].partition = p}}
    IN  \E n \in 1 .. Len(reads) : \E plog \in [0 .. n - 1 -> {c.id : c \in mine}] :
           /\ \A c \in mine : c.offset < n /\ plog[c.offset] = c.id
           /\ \A o \in 0 .. n - 1 : \E c \in mine : c.offset = o

\* Records that agree wherever they share an offset, and leave none out, come
\* from one log.
LEMMA LogExists ==
  ASSUME NEW reads, IsHistory(reads), Agreeing(reads),
         NEW p, NEW n \in 1 .. Len(reads), Seen(reads, p) = 0 .. n - 1
  PROVE  Explained(reads, p)
  <1> DEFINE mine == {reads[i] : i \in {j \in DOMAIN reads : reads[j].partition = p}}
             At(o) == CHOOSE c \in mine : c.offset = o
             plog == [o \in 0 .. n - 1 |-> At(o).id]
  <1>1. n \in Nat
    BY DEF IsHistory
  <1>2. ASSUME NEW o \in 0 .. n - 1 PROVE At(o) \in mine /\ At(o).offset = o
    <2>1. \E c \in mine : c.offset = o
      BY DEF Seen
    <2>2. QED
      BY <2>1
  <1>3. \A c, d \in mine : c.offset = d.offset => c.id = d.id
    BY DEF Agreeing, Slot
  <1>4. \A c \in mine : c.offset \in 0 .. n - 1
    BY DEF Seen
  <1> HIDE DEF mine, At
  <1>5. plog \in [0 .. n - 1 -> {c.id : c \in mine}]
    BY <1>2
  <1>6. ASSUME NEW c \in mine PROVE c.offset < n /\ plog[c.offset] = c.id
    <2>1. c.offset \in 0 .. n - 1 /\ c.offset < n
      BY <1>1, <1>4
    <2>2. At(c.offset) \in mine /\ At(c.offset).offset = c.offset
      BY <1>2, <2>1
    <2>3. QED
      BY <1>3, <2>1, <2>2
  <1>7. \A o \in 0 .. n - 1 : \E c \in mine : c.offset = o
    BY <1>2
  <1> HIDE DEF plog
  <1>8. QED
    BY <1>5, <1>6, <1>7 DEF Explained, mine

\* The other way round.
LEMMA LogExplains ==
  ASSUME NEW reads, IsHistory(reads), NEW p, Explained(reads, p)
  PROVE  /\ \E n \in 1 .. Len(reads) : Seen(reads, p) = 0 .. n - 1
         /\ \A i, j \in DOMAIN reads :
               reads[i].partition = p /\ Slot(reads[i]) = Slot(reads[j]) =>
                   reads[i].id = reads[j].id
  <1> DEFINE mine == {reads[i] : i \in {j \in DOMAIN reads : reads[j].partition = p}}
  <1>0. PICK n \in 1 .. Len(reads) : \E plog \in [0 .. n - 1 -> {c.id : c \in mine}] :
           /\ \A c \in mine : c.offset < n /\ plog[c.offset] = c.id
           /\ \A o \in 0 .. n - 1 : \E c \in mine : c.offset = o
    BY Zenon DEF Explained
  <1>1. PICK plog \in [0 .. n - 1 -> {c.id : c \in mine}] :
           /\ \A c \in mine : c.offset < n /\ plog[c.offset] = c.id
           /\ \A o \in 0 .. n - 1 : \E c \in mine : c.offset = o
    BY <1>0, Zenon
  <1>2. n \in Nat /\ \A c \in mine : c.offset \in Nat
    <2>1. Len(reads) \in Nat
      BY DEF IsHistory
    <2>2. \A c \in mine : c.offset \in Nat
      BY DEF IsHistory
    <2>3. QED
      BY <2>1, <2>2
  <1>3. Seen(reads, p) = 0 .. n - 1
    <2>1. Seen(reads, p) = {c.offset : c \in mine}
      BY DEF Seen
    <2>2. \A c \in mine : c.offset \in 0 .. n - 1
      BY <1>1, <1>2
    <2> HIDE DEF mine
    <2>3. QED
      BY <1>1, <2>1, <2>2
  <1>4. \A c, d \in mine : c.offset = d.offset => c.id = d.id
    BY <1>1
  <1>5. ASSUME NEW i \in DOMAIN reads, NEW j \in DOMAIN reads,
               reads[i].partition = p, Slot(reads[i]) = Slot(reads[j])
        PROVE  reads[i].id = reads[j].id
    <2>1. reads[i].offset = reads[j].offset /\ reads[j].partition = p
      BY <1>5 DEF Slot
    <2>2. reads[i] \in mine /\ reads[j] \in mine
      BY <1>5, <2>1
    <2> HIDE DEF mine
    <2>3. QED
      BY <1>4, <2>1, <2>2
  <1>6. QED
    BY <1>3, <1>5

\* The checker's verdict, for every history: OK if and only if, for every
\* partition, one log read from its start explains every record any reader
\* saw, each reader went through it forwards, and every acknowledged id is in
\* it.  The single passes of verify and verify_from_start, with what they
\* remember of the records before, miss nothing and accuse nobody.
THEOREM CheckerDecides ==
  ASSUME NEW acks, NEW reads, IsHistory(reads)
  PROVE  IsOk(acks, reads) <=> OneLog(acks, reads)
  <1>1. OneLog(acks, reads) <=>
          /\ \A p \in PartitionsOf(reads) : Explained(reads, p)
          /\ Forwards(reads)
          /\ \A i \in DOMAIN acks : \E j \in DOMAIN reads : reads[j].id = acks[i]
    BY DEF OneLog, PartitionsOf, Explained, Forwards
  <1>2. MissingIds(acks, reads) = {} <=>
          \A i \in DOMAIN acks : \E j \in DOMAIN reads : reads[j].id = acks[i]
    BY DEF MissingIds, Ids
  <1>3. ASSUME Agreeing(reads), Complete(reads)
        PROVE  \A p \in PartitionsOf(reads) : Explained(reads, p)
    BY <1>3, LogExists DEF Complete
  <1>4. ASSUME \A p \in PartitionsOf(reads) : Explained(reads, p)
        PROVE  Agreeing(reads) /\ Complete(reads)
    <2>1. Complete(reads)
      BY <1>4, LogExplains DEF Complete
    <2>2. Agreeing(reads)
      <3> SUFFICES ASSUME NEW i \in DOMAIN reads, NEW j \in DOMAIN reads,
                          Slot(reads[i]) = Slot(reads[j])
                   PROVE  reads[i].id = reads[j].id
        BY DEF Agreeing
      <3>1. Explained(reads, reads[i].partition)
        BY <1>4 DEF PartitionsOf
      <3>2. QED
        BY <3>1, LogExplains
    <2>3. QED
      BY <2>1, <2>2
  <1>5. QED
    BY <1>1, <1>2, <1>3, <1>4, MonotonicityPass, DivergencePass, GapPass DEF IsOk

------------------------------------------------------------------------------
(* Two ways to use it *)

\* Any sequence of records with natural offsets is a history.
LEMMA HistoryOf ==
  ASSUME NEW S, NEW reads \in Seq(S), \A i \in DOMAIN reads : reads[i].offset \in Nat
  PROVE  IsHistory(reads)
  <1> DEFINE R == {reads[i] : i \in DOMAIN reads}
  <1>1. Len(reads) \in Nat /\ reads \in [1 .. Len(reads) -> S]
        /\ DOMAIN reads = 1 .. Len(reads)
    BY LenProperties
  <1>2. reads \in [1 .. Len(reads) -> R]
    BY <1>1
  <1> HIDE DEF R
  <1>3. reads \in Seq(R)
    BY <1>1, <1>2
  <1>4. QED
    BY <1>3 DEF IsHistory, R

\* A history in which every offset read has all smaller ones beside it, in the
\* same partition, has no gap.
LEMMA NoGapBelow ==
  ASSUME NEW reads, IsHistory(reads),
         \A i \in DOMAIN reads : \A o \in 0 .. reads[i].offset :
            \E j \in DOMAIN reads :
               reads[j].partition = reads[i].partition /\ reads[j].offset = o
  PROVE  OffsetGaps(reads) = {}
  <1>1. \A i \in DOMAIN reads : reads[i].offset \in Nat
    BY DEF IsHistory
  <1>2. ASSUME NEW p \in PartitionsOf(reads), NEW max \in Seen(reads, p),
               \A o \in Seen(reads, p) : o <= max
        PROVE  Cardinality(Seen(reads, p)) = max + 1
    <2>1. PICK i \in DOMAIN reads : reads[i].partition = p /\ reads[i].offset = max
      BY DEF Seen
    <2>2. max \in Nat
      BY <1>1, <2>1
    <2>3. \A o \in 0 .. max : o \in Seen(reads, p)
      BY <2>1 DEF Seen
    <2>4. Seen(reads, p) \in SUBSET Nat
      BY <1>1 DEF Seen
    <2>5. Seen(reads, p) = 0 .. max
      <3>1. ASSUME NEW o \in Seen(reads, p) PROVE o \in 0 .. max
        BY <1>2, <2>2, <2>4
      <3>2. QED
        BY <2>3, <3>1
    <2>6. Cardinality(0 .. max) = max + 1
      BY <2>2, FS_Interval
    <2>7. QED
      BY <2>5, <2>6
  <1>3. OffsetGaps(reads) =
          {p \in PartitionsOf(reads) :
             \E max \in Seen(reads, p) :
                /\ \A o \in Seen(reads, p) : o <= max
                /\ Cardinality(Seen(reads, p)) # max + 1}
    BY DEF OffsetGaps, Seen, PartitionsOf
  <1>4. QED
    BY <1>2, <1>3

------------------------------------------------------------------------------
(* The inductive invariant *)

Metas == [version : Nat, leader : Brokers \cup {NoBroker}, epoch : Nat]
Answers == Retried \cup {"Ok"}
Requests == [id : Nat, broker : Brokers, epoch : Nat, st : Answers \cup {"sent", "kept"},
             awaited : BOOLEAN, n : Nat]
Bests == [heard : BOOLEAN, meta : Metas]
Calls == {"call", "closed", "creating"}
Places == Calls \cup {"off", "refresh", "create", "route", "retry", "idle"}
TaskStates == [pc : Places, broker : Brokers \cup {NoBroker}, cand : Seq(Brokers),
               best : Bests, next : {"create", "route", "Ok", "TopicExists"}]
Records == [consumer : Readers, generation : {0}, partition : {0}, offset : Nat, id : Nat]

Past(m, t) == m.version <= t.version /\ m.epoch <= t.epoch

\* What holds of a task's state s, given which brokers run and the metadata in force.
Sound(s, running, t) ==
    /\ s.cand # <<>>
    /\ Past(s.best.meta, t)
    /\ s.pc \in Calls => s.broker \in Brokers
    /\ s.pc = "call" => running[s.broker]
    /\ s.pc = "refresh" => s.next \in {"create", "route"}

\* id is among the first n of the sequence s.
Within(id, s, n) == \E k \in 1 .. n : s[k] = id

\* The cluster and the caches.
ClusterInv ==
    /\ truth \in Metas
    /\ view \in [Brokers -> Metas] /\ \A b \in Brokers : Past(view[b], truth)
    /\ up \in [Brokers -> BOOLEAN]
    /\ log \in Seq(Nat)
    /\ meta \in Metas /\ Past(meta, truth)
    /\ conns \in [Brokers -> {"none", "live", "dead"}]
    /\ \A b \in Brokers : conns[b] = "live" => up[b]
    /\ faults \in Nat /\ intact \in BOOLEAN

\* The tasks: a call is in progress at a running broker.
TaskInv ==
    /\ task \in [Tasks -> TaskStates]
    /\ \A t \in Tasks : Sound(task[t], up, truth)

\* The requests: at most one is awaited, it is the producer's call and carries the
\* id in use; none carries an id not yet given out.
RequestInv ==
    /\ requests \in SUBSET Requests
    /\ \A r, q \in requests : r.awaited /\ q.awaited => r = q
    /\ \A r \in requests :
          /\ r.id <= nextId
          /\ r.awaited => /\ r.id = nextId
                          /\ task[Producer].pc = "call"
                          /\ task[Producer].broker = r.broker

\* What the workload recorded: ids below the one in use, acknowledged in order.
WorkloadInv ==
    /\ nextId \in Nat
    /\ position \in [Readers -> Nat]
    /\ produced \in Seq(Nat)
    /\ \A i \in DOMAIN produced : produced[i] < nextId
    /\ \A i, j \in DOMAIN produced : i < j => produced[i] < produced[j]
    /\ \A k \in DOMAIN log : log[k] <= nextId
    /\ consumed \in Seq(Records)

\* As long as nothing was lost: what was acknowledged is in the log, before every
\* larger id.
AckInv ==
    intact =>
        /\ \A r \in requests : r.awaited /\ r.st = "Ok" => Within(r.id, log, Len(log))
        /\ \A i \in DOMAIN produced :
              /\ Within(produced[i], log, Len(log))
              /\ \A k \in DOMAIN log : produced[i] < log[k] => Within(produced[i], log, k - 1)

\* As long as nothing was lost: a reader has been given the log up to its position,
\* in order and without holes.
ReadInv ==
    intact =>
        /\ \A t \in Readers :
              /\ position[t] <= Len(log)
              /\ \A o \in 0 .. position[t] - 1 : \E i \in DOMAIN consumed :
                    consumed[i].consumer = t /\ consumed[i].offset = o
        /\ \A i \in DOMAIN consumed :
              /\ consumed[i].offset < position[consumed[i].consumer]
              /\ consumed[i].id = log[consumed[i].offset + 1]
        /\ Forwards(consumed)

IndInv == ClusterInv /\ TaskInv /\ RequestInv /\ WorkloadInv /\ AckInv /\ ReadInv

------------------------------------------------------------------------------
(* Types *)

LEMMA Basics ==
  /\ Bootstrap \in Seq(Brokers) /\ Bootstrap # <<>>
  /\ NoBroker \notin Brokers /\ Brokers \in SUBSET Nat
  /\ NoMeta \in Metas /\ Registered \in Metas
  /\ Unheard \in Bests /\ Unheard.meta = NoMeta
  /\ Producer \in Tasks /\ Producer \notin Readers
  /\ Bootstrap[1] \in Brokers
  <1>1. Cardinality(Brokers) \in Nat /\ Cardinality(Brokers) > 0
    BY ClusterClientAssumption, FS_CardinalityType, FS_EmptySet
  <1>2. Brokers = 1 .. Cardinality(Brokers)
    BY ClusterClientAssumption
  <1>3. Bootstrap \in Seq(Brokers) /\ Len(Bootstrap) = Cardinality(Brokers)
    BY <1>1, <1>2 DEF Bootstrap
  <1>4. Bootstrap # <<>>
    BY <1>1, <1>3
  <1>5. NoBroker \notin Brokers /\ Brokers \in SUBSET Nat
    BY <1>1, <1>2 DEF NoBroker
  <1>6. NoMeta \in Metas /\ Registered \in Metas
    BY DEF NoMeta, Registered, Metas
  <1>7. Unheard \in Bests /\ Unheard.meta = NoMeta
    BY <1>6 DEF Unheard, Bests
  <1>8. Producer \in Tasks /\ Producer \notin Readers
    BY ClusterClientAssumption DEF Producer, Tasks
  <1>9. Bootstrap[1] \in Brokers
    BY <1>1, <1>2 DEF Bootstrap
  <1>10. QED
    BY <1>3, <1>4, <1>5, <1>6, <1>7, <1>8, <1>9

\* A task's state with its place, or its place and broker, changed.
LEMMA Moved ==
  ASSUME NEW s \in TaskStates, NEW pc \in Places, NEW b \in Brokers \cup {NoBroker}
  PROVE  /\ [s EXCEPT !.pc = pc] \in TaskStates
         /\ [s EXCEPT !.pc = pc].pc = pc
         /\ [s EXCEPT !.pc = pc].broker = s.broker
         /\ [s EXCEPT !.pc = pc].cand = s.cand
         /\ [s EXCEPT !.pc = pc].best = s.best
         /\ [s EXCEPT !.pc = pc].next = s.next
         /\ [s EXCEPT !.pc = pc, !.broker = b] \in TaskStates
         /\ [s EXCEPT !.pc = pc, !.broker = b].pc = pc
         /\ [s EXCEPT !.pc = pc, !.broker = b].broker = b
         /\ [s EXCEPT !.pc = pc, !.broker = b].cand = s.cand
         /\ [s EXCEPT !.pc = pc, !.broker = b].best = s.best
         /\ [s EXCEPT !.pc = pc, !.broker = b].next = s.next
  BY DEF TaskStates

\* The rest of a sequence that is not over.
LEMMA Rest ==
  ASSUME NEW S, NEW s \in Seq(S), s # <<>>
  PROVE  /\ Head(s) \in S
         /\ Len(s) # 1 => Tail(s) \in Seq(S) /\ Tail(s) # <<>>
  <1>1. Head(s) \in S /\ Tail(s) \in Seq(S) /\ Len(Tail(s)) = Len(s) - 1
    BY HeadTailProperties
  <1>2. Len(s) # 1 => Len(Tail(s)) # 0
    BY <1>1
  <1>3. Tail(s) = <<>> => Len(Tail(s)) = 0
    BY EmptySeq, Zenon
  <1>4. QED
    BY <1>1, <1>2, <1>3

\* What a mishap does to the counters.
LEMMA Mishaps ==
  ASSUME ClusterInv, NEW harmless \in BOOLEAN, Mishap(harmless)
  PROVE  /\ faults' \in Nat /\ intact' \in BOOLEAN
         /\ intact' => intact /\ harmless
  BY DEF ClusterInv, Mishap

------------------------------------------------------------------------------
(* What a step leaves alone *)

\* A step of one task, while brokers and metadata stay as they are.
LEMMA TaskMoves ==
  ASSUME TaskInv, NEW t \in Tasks, NEW s \in TaskStates, task' = [task EXCEPT ![t] = s],
         up' = up, truth' = truth, Sound(s, up, truth)
  PROVE  TaskInv'
  <1>1. task \in [Tasks -> TaskStates] /\ \A x \in Tasks : Sound(task[x], up, truth)
    BY DEF TaskInv
  <1>2. task' \in [Tasks -> TaskStates]
    BY <1>1
  <1>3. \A x \in Tasks : Sound(task'[x], up, truth)
    BY <1>1
  <1>4. QED
    BY <1>2, <1>3 DEF TaskInv

\* Nothing the task invariant reads has changed.
LEMMA TasksStay ==
  ASSUME TaskInv, UNCHANGED <<task, up, truth>>
  PROVE  TaskInv'
  <1>1. task \in [Tasks -> TaskStates] /\ \A x \in Tasks : Sound(task[x], up, truth)
    BY DEF TaskInv
  <1>2. task' \in [Tasks -> TaskStates] /\ \A x \in Tasks : Sound(task'[x], up', truth')
    BY <1>1
  <1>3. QED
    BY <1>2 DEF TaskInv

\* No request is made or changed.
LEMMA RequestsStay ==
  ASSUME RequestInv, requests' = requests, nextId' = nextId,
         task'[Producer] = task[Producer] \/ task[Producer].pc # "call"
  PROVE  RequestInv'
  BY DEF RequestInv

\* Nothing is recorded.
LEMMA WorkloadStays ==
  ASSUME WorkloadInv, UNCHANGED <<nextId, position, produced, consumed, log>>
  PROVE  WorkloadInv'
  BY DEF WorkloadInv

\* Log and record of acknowledgements stay, and no request was acknowledged.
LEMMA AcksStay ==
  ASSUME AckInv, UNCHANGED <<log, produced>>, intact' => intact,
         \A r \in requests' : r.awaited /\ r.st = "Ok" => r \in requests
  PROVE  AckInv'
  BY DEF AckInv, Within

\* Log and record of what was read stay.
LEMMA ReadsStay ==
  ASSUME ReadInv, UNCHANGED <<log, position, consumed>>, intact' => intact
  PROVE  ReadInv'
  BY DEF ReadInv, Forwards

\* One request replaced by its successors.
LEMMA RequestReplaced ==
  ASSUME RequestInv, NEW r \in requests, NEW new \in SUBSET Requests, Replace(r, new),
         UNCHANGED <<task, nextId>>,
         \A q \in new : q.id = r.id /\ q.broker = r.broker /\ (q.awaited => r.awaited),
         \A p, q \in new : p.awaited /\ q.awaited => p = q
  PROVE  RequestInv'
  <1>1. requests' = (requests \ {r}) \cup new
    BY DEF Replace
  <1>2. requests' \in SUBSET Requests
    BY <1>1 DEF RequestInv
  <1>3. \A q \in requests' : q.awaited => q \in new \/ ~ r.awaited
    BY <1>1 DEF RequestInv
  <1>4. ASSUME NEW p \in requests', NEW q \in requests', p.awaited, q.awaited PROVE p = q
    <2>1. CASE r.awaited
      BY <1>3, <1>4, <2>1
    <2>2. CASE ~ r.awaited
      <3>1. p \in requests /\ q \in requests
        BY <1>1, <1>4, <2>2
      <3>2. QED
        BY <1>4, <3>1 DEF RequestInv
    <2>3. QED
      BY <2>1, <2>2
  <1>5. ASSUME NEW q \in requests'
        PROVE  /\ q.id <= nextId
               /\ q.awaited => /\ q.id = nextId
                               /\ task[Producer].pc = "call"
                               /\ task[Producer].broker = q.broker
    <2>1. CASE q \in requests
      BY <2>1 DEF RequestInv
    <2>2. CASE q \in new
      BY <2>2 DEF RequestInv
    <2>3. QED
      BY <1>1, <2>1, <2>2
  <1>6. QED
    BY <1>2, <1>4, <1>5 DEF RequestInv

\* A committed id goes to the end of the log.
LEMMA LogGrows ==
  ASSUME NEW s \in Seq(Nat), NEW id \in Nat
  PROVE  /\ Append(s, id) \in Seq(Nat)
         /\ Len(Append(s, id)) = Len(s) + 1
         /\ \A k \in 1 .. Len(s) : Append(s, id)[k] = s[k]
         /\ Append(s, id)[Len(s) + 1] = id
         /\ Within(id, Append(s, id), Len(s) + 1)
         /\ \A x, n \in Nat : n <= Len(s) /\ Within(x, s, n) => Within(x, Append(s, id), n)
         /\ \A x \in Nat : Within(x, s, Len(s)) => Within(x, Append(s, id), Len(s) + 1)
  <1> DEFINE l == Append(s, id)
  <1>1. /\ l \in Seq(Nat) /\ Len(l) = Len(s) + 1 /\ Len(s) \in Nat
        /\ l[Len(s) + 1] = id
        /\ \A k \in 1 .. Len(s) : l[k] = s[k]
    BY AppendProperties
  <1> HIDE DEF l
  <1>2. Within(id, l, Len(s) + 1)
    <2>1. Len(s) + 1 \in 1 .. Len(s) + 1
      BY <1>1
    <2>2. QED
      BY <1>1, <2>1 DEF Within
  <1>3. ASSUME NEW x \in Nat, NEW n \in Nat, n <= Len(s), Within(x, s, n) PROVE Within(x, l, n)
    <2>1. PICK k \in 1 .. n : s[k] = x
      BY <1>3 DEF Within
    <2>2. k \in 1 .. Len(s)
      BY <1>1, <1>3
    <2>3. QED
      BY <1>1, <2>1, <2>2 DEF Within
  <1>4. \A x \in Nat : Within(x, s, Len(s)) => Within(x, l, Len(s) + 1)
    BY <1>1 DEF Within
  <1>5. QED
    BY <1>1, <1>2, <1>3, <1>4 DEF l

------------------------------------------------------------------------------
(* The cluster's steps *)

LEMMA InitInv == Init => IndInv
  <1> SUFFICES ASSUME Init PROVE IndInv
    OBVIOUS
  <1>1. ClusterInv
    BY Basics DEF Init, ClusterInv, Past, Registered, NoMeta
  <1>2. TaskInv
    <2>2. task \in [Tasks -> TaskStates]
      BY Basics DEF Init, TaskStates, Places, Calls
    <2>3. ASSUME NEW t \in Tasks PROVE Sound(task[t], up, truth)
      <3>1. Past(NoMeta, truth)
        BY DEF Init, Past, Registered, NoMeta
      <3>2. /\ task[t].cand = Bootstrap /\ task[t].best = Unheard /\ task[t].next = "create"
            /\ task[t].pc = IF t = Producer THEN "refresh" ELSE "off"
        BY DEF Init
      <3>3. task[t].pc \notin Calls /\ task[t].pc # "call"
        BY <3>2 DEF Calls
      <3>4. QED
        BY <3>1, <3>2, <3>3, Basics DEF Sound
    <2>4. QED
      BY <2>2, <2>3 DEF TaskInv
  <1>3. RequestInv
    BY DEF Init, RequestInv
  <1>4. WorkloadInv
    BY DEF Init, WorkloadInv
  <1>5. AckInv
    BY DEF Init, AckInv
  <1>6. ReadInv
    BY DEF Init, ReadInv, Forwards
  <1>7. QED
    BY <1>1, <1>2, <1>3, <1>4, <1>5, <1>6 DEF IndInv

\* Raising the metadata keeps every older view in its past.
LEMMA LeadRaises ==
  ASSUME truth \in Metas, NEW b \in Brokers, Lead(b)
  PROVE  /\ truth' \in Metas
         /\ \A m \in Metas : Past(m, truth) => Past(m, truth')
  <1>1. truth.version \in Nat /\ truth.epoch \in Nat
    BY DEF Metas
  <1>2. truth' = [version |-> truth.version + 1, leader |-> b, epoch |-> truth.epoch + 1]
    BY DEF Lead
  <1>3. truth' \in Metas /\ truth'.version = truth.version + 1 /\ truth'.epoch = truth.epoch + 1
    BY <1>1, <1>2 DEF Metas
  <1>4. QED
    BY <1>1, <1>3 DEF Metas, Past

LEMMA ElectStep ==
  ASSUME IndInv, NEW b \in Brokers, Elect(b)
  PROVE  IndInv'
  <1>1. Lead(b) /\ Mishap(TRUE)
        /\ UNCHANGED <<view, up, log, requests, meta, conns, task, workload>>
    BY DEF Elect
  <1>2. ClusterInv /\ TaskInv /\ RequestInv /\ WorkloadInv /\ AckInv /\ ReadInv
    BY DEF IndInv
  <1>3. faults' \in Nat /\ intact' \in BOOLEAN /\ (intact' => intact)
    BY <1>1, <1>2, Mishaps
  <1>4. truth' \in Metas /\ \A m \in Metas : Past(m, truth) => Past(m, truth')
    BY <1>1, <1>2, LeadRaises DEF ClusterInv
  <1>5. ClusterInv'
    BY <1>1, <1>2, <1>3, <1>4 DEF ClusterInv
  <1>6. TaskInv'
    <2>1. \A t \in Tasks : task[t].best.meta \in Metas
      BY <1>2 DEF TaskInv, TaskStates, Bests
    <2>2. \A t \in Tasks : Sound(task[t], up, truth')
      BY <1>2, <1>4, <2>1 DEF TaskInv, Sound
    <2>3. QED
      BY <1>1, <1>2, <2>2 DEF TaskInv
  <1>7. RequestInv'
    BY <1>1, <1>2, RequestsStay DEF workload
  <1>8. WorkloadInv'
    BY <1>1, <1>2, WorkloadStays DEF workload
  <1>9. AckInv'
    BY <1>1, <1>2, <1>3, AcksStay DEF workload
  <1>10. ReadInv'
    BY <1>1, <1>2, <1>3, ReadsStay DEF workload
  <1>11. QED
    BY <1>5, <1>6, <1>7, <1>8, <1>9, <1>10 DEF IndInv

LEMMA LearnStep ==
  ASSUME IndInv, NEW b \in Brokers, Learn(b)
  PROVE  IndInv'
  <1>1. view' = [view EXCEPT ![b] = truth]
        /\ UNCHANGED <<truth, up, log, requests, meta, conns, task, workload, mishaps>>
    BY DEF Learn
  <1>2. ClusterInv /\ TaskInv /\ RequestInv /\ WorkloadInv /\ AckInv /\ ReadInv
    BY DEF IndInv
  <1>3. Past(truth, truth)
    BY <1>2 DEF ClusterInv, Metas, Past
  <1>4. ClusterInv'
    BY <1>1, <1>2, <1>3 DEF ClusterInv, mishaps
  <1>5. TaskInv'
    BY <1>1, <1>2, TasksStay
  <1>6. RequestInv'
    BY <1>1, <1>2, RequestsStay DEF workload
  <1>7. WorkloadInv'
    BY <1>1, <1>2, WorkloadStays DEF workload
  <1>8. AckInv'
    BY <1>1, <1>2, AcksStay DEF workload, mishaps
  <1>9. ReadInv'
    BY <1>1, <1>2, ReadsStay DEF workload, mishaps
  <1>10. QED
    BY <1>4, <1>5, <1>6, <1>7, <1>8, <1>9 DEF IndInv

\* What a request says may change without changing whose it is.
LEMMA Restated ==
  ASSUME NEW r \in Requests, NEW st \in Answers \cup {"sent", "kept"}
  PROVE  /\ [r EXCEPT !.st = st] \in Requests
         /\ [r EXCEPT !.st = st].id = r.id
         /\ [r EXCEPT !.st = st].broker = r.broker
         /\ [r EXCEPT !.st = st].awaited = r.awaited
         /\ [r EXCEPT !.st = st].st = st
         /\ [r EXCEPT !.awaited = FALSE] \in Requests
         /\ [r EXCEPT !.awaited = FALSE].id = r.id
         /\ [r EXCEPT !.awaited = FALSE].broker = r.broker
         /\ [r EXCEPT !.awaited = FALSE].awaited = FALSE
         /\ [r EXCEPT !.awaited = FALSE].st = r.st
  BY DEF Requests

\* A step on a request at a broker that commits nothing: the request gets a new
\* answer other than Ok, or goes, or goes on unawaited.
LEMMA Handled ==
  ASSUME IndInv, NEW r \in requests, NEW new \in SUBSET Requests, Replace(r, new),
         UNCHANGED <<cluster, meta, conns, task, workload>>,
         faults' \in Nat, intact' \in BOOLEAN, intact' => intact,
         \A q \in new : q.id = r.id /\ q.broker = r.broker /\ (q.awaited => r.awaited),
         \A p, q \in new : p.awaited /\ q.awaited => p = q,
         \A q \in new : ~ (q.awaited /\ q.st = "Ok")
  PROVE  IndInv'
  <1>1. ClusterInv /\ TaskInv /\ RequestInv /\ WorkloadInv /\ AckInv /\ ReadInv
    BY DEF IndInv
  <1>2. UNCHANGED <<truth, view, up, log>> /\ UNCHANGED <<created, nextId, position, produced, consumed>>
    BY DEF cluster, workload
  <1>3. ClusterInv'
    BY <1>1, <1>2 DEF ClusterInv
  <1>4. TaskInv'
    BY <1>1, <1>2, TasksStay
  <1>5. RequestInv'
    BY <1>1, <1>2, RequestReplaced
  <1>6. WorkloadInv'
    BY <1>1, <1>2, WorkloadStays
  <1>7. \A q \in requests' : q.awaited /\ q.st = "Ok" => q \in requests
    BY DEF Replace
  <1>8. AckInv'
    BY <1>1, <1>2, <1>7, AcksStay
  <1>9. ReadInv'
    BY <1>1, <1>2, ReadsStay
  <1>10. QED
    BY <1>3, <1>4, <1>5, <1>6, <1>8, <1>9 DEF IndInv

LEMMA AcceptStep ==
  ASSUME IndInv, NEW r \in requests, Accept(r)
  PROVE  IndInv'
  <1> DEFINE v == view[r.broker]
             st == IF v.leader = NoBroker THEN "UnknownTopicOrPartition"
                   ELSE IF v.leader # r.broker THEN "NotLeader"
                   ELSE IF r.epoch # 0 /\ r.epoch # v.epoch THEN "FencedEpoch"
                   ELSE IF v = truth THEN "kept" ELSE "NotEnoughReplicas"
             new == IF r.awaited \/ st = "kept" THEN {[r EXCEPT !.st = st]} ELSE {}
  <1>1. Replace(r, new) /\ UNCHANGED <<cluster, meta, conns, task, workload, mishaps>>
    BY DEF Accept
  <1>2. r \in Requests /\ faults \in Nat /\ intact \in BOOLEAN
    BY DEF IndInv, RequestInv, ClusterInv
  <1>3. st \in Answers \cup {"sent", "kept"} /\ st # "Ok"
    BY DEF Answers, Retried
  <1> HIDE DEF st
  <1>4. /\ new \in SUBSET Requests
        /\ \A q \in new : q.id = r.id /\ q.broker = r.broker /\ (q.awaited => r.awaited)
        /\ \A p, q \in new : p.awaited /\ q.awaited => p = q
        /\ \A q \in new : ~ (q.awaited /\ q.st = "Ok")
    <2> DEFINE z == [r EXCEPT !.st = st]
    <2>1. z \in Requests /\ z.id = r.id /\ z.broker = r.broker /\ z.awaited = r.awaited /\ z.st = st
      BY <1>2, <1>3, Restated
    <2>2. new \in SUBSET {z}
      OBVIOUS
    <2> HIDE DEF z, new
    <2>3. QED
      BY <1>2, <1>3, <2>1, <2>2
  <1> HIDE DEF new
  <1>5. QED
    BY <1>1, <1>2, <1>4, Handled DEF mishaps

LEMMA AckTimesOutStep ==
  ASSUME IndInv, NEW r \in requests, AckTimesOut(r)
  PROVE  IndInv'
  <1> DEFINE new == {[r EXCEPT !.st = "NotEnoughReplicas"], [r EXCEPT !.awaited = FALSE]}
  <1>1. Replace(r, new) /\ Mishap(TRUE) /\ UNCHANGED <<cluster, meta, conns, task, workload>>
        /\ r.awaited
    BY DEF AckTimesOut
  <1>2. r \in Requests
    BY DEF IndInv, RequestInv
  <1>3. "NotEnoughReplicas" \in Answers \cup {"sent", "kept"}
    BY DEF Answers, Retried
  <1>4. faults' \in Nat /\ intact' \in BOOLEAN /\ (intact' => intact)
    BY <1>1, Mishaps DEF IndInv
  <1>5. /\ new \in SUBSET Requests
        /\ \A q \in new : q.id = r.id /\ q.broker = r.broker /\ (q.awaited => r.awaited)
        /\ \A p, q \in new : p.awaited /\ q.awaited => p = q
        /\ \A q \in new : ~ (q.awaited /\ q.st = "Ok")
    BY <1>1, <1>2, <1>3, Restated
  <1> HIDE DEF new
  <1>6. QED
    BY <1>1, <1>4, <1>5, Handled

LEMMA DropStep ==
  ASSUME IndInv, NEW r \in requests, Drop(r)
  PROVE  IndInv'
  <1> DEFINE new == IF r.awaited THEN {[r EXCEPT !.st = "NotLeader"]} ELSE {}
  <1>1. Replace(r, new) /\ UNCHANGED <<cluster, meta, conns, task, workload, mishaps>>
    BY DEF Drop
  <1>2. r \in Requests /\ faults \in Nat /\ intact \in BOOLEAN
    BY DEF IndInv, RequestInv, ClusterInv
  <1>3. "NotLeader" \in Answers \cup {"sent", "kept"}
    BY DEF Answers, Retried
  <1>4. /\ new \in SUBSET Requests
        /\ \A q \in new : q.id = r.id /\ q.broker = r.broker /\ (q.awaited => r.awaited)
        /\ \A p, q \in new : p.awaited /\ q.awaited => p = q
        /\ \A q \in new : ~ (q.awaited /\ q.st = "Ok")
    <2> DEFINE z == [r EXCEPT !.st = "NotLeader"]
    <2>1. z \in Requests /\ z.id = r.id /\ z.broker = r.broker /\ z.awaited = r.awaited /\ z.st = "NotLeader"
      BY <1>2, <1>3, Restated
    <2>2. new \in SUBSET {z}
      OBVIOUS
    <2> HIDE DEF z, new
    <2>3. QED
      BY <1>2, <1>3, <2>1, <2>2
  <1> HIDE DEF new
  <1>5. QED
    BY <1>1, <1>2, <1>4, Handled DEF mishaps

LEMMA CommitStep ==
  ASSUME IndInv, NEW r \in requests, Commit(r)
  PROVE  IndInv'
  <1> DEFINE st == IF truth.leader = r.broker /\ truth.epoch = r.epoch THEN "Ok" ELSE "NotLeader"
             new == IF ~ r.awaited THEN {} ELSE {[r EXCEPT !.st = st]}
  <1>1. Replace(r, new) /\ log' = Append(log, r.id)
        /\ UNCHANGED <<truth, view, up, meta, conns, task, workload, mishaps>>
    BY DEF Commit
  <1>2. ClusterInv /\ TaskInv /\ RequestInv /\ WorkloadInv /\ AckInv /\ ReadInv
    BY DEF IndInv
  <1>3. r \in Requests /\ r.id \in Nat /\ r.id <= nextId /\ log \in Seq(Nat) /\ Len(log) \in Nat
    BY <1>2 DEF RequestInv, ClusterInv, Requests
  <1>4. UNCHANGED <<created, nextId, position, produced, consumed>> /\ UNCHANGED <<faults, intact>>
    BY <1>1 DEF workload, mishaps
  <1>5. st \in Answers \cup {"sent", "kept"}
    BY DEF Answers, Retried
  <1> HIDE DEF st
  <1>6. /\ new \in SUBSET Requests
        /\ \A q \in new : q.id = r.id /\ q.broker = r.broker /\ (q.awaited => r.awaited)
        /\ \A p, q \in new : p.awaited /\ q.awaited => p = q
    <2> DEFINE z == [r EXCEPT !.st = st]
    <2>1. z \in Requests /\ z.id = r.id /\ z.broker = r.broker /\ z.awaited = r.awaited /\ z.st = st
      BY <1>3, <1>5, Restated
    <2>2. new \in SUBSET {z}
      OBVIOUS
    <2> HIDE DEF z, new
    <2>3. QED
      BY <1>3, <1>5, <2>1, <2>2
  <1> HIDE DEF new
  <1>7. /\ log' \in Seq(Nat) /\ Len(log') = Len(log) + 1
        /\ \A k \in 1 .. Len(log) : log'[k] = log[k]
        /\ log'[Len(log) + 1] = r.id
        /\ Within(r.id, log', Len(log) + 1)
        /\ \A x, n \in Nat : n <= Len(log) /\ Within(x, log, n) => Within(x, log', n)
        /\ \A x \in Nat : Within(x, log, Len(log)) => Within(x, log', Len(log) + 1)
    BY <1>1, <1>3, LogGrows
  <1>8. DOMAIN log = 1 .. Len(log) /\ DOMAIN log' = 1 .. Len(log')
    BY <1>3, <1>7
  <1>9. ClusterInv'
    BY <1>1, <1>2, <1>4, <1>7 DEF ClusterInv
  <1>10. TaskInv'
    BY <1>1, <1>2, TasksStay
  <1>11. RequestInv'
    BY <1>1, <1>2, <1>4, <1>6, RequestReplaced
  <1>12. WorkloadInv'
    <2>1. \A k \in DOMAIN log' : k \in DOMAIN log \/ k = Len(log) + 1
      BY <1>3, <1>7, <1>8
    <2>2. \A k \in DOMAIN log' : log'[k] <= nextId
      BY <1>2, <1>3, <1>7, <1>8, <2>1 DEF WorkloadInv
    <2>3. QED
      BY <1>2, <1>4, <2>2 DEF WorkloadInv
  <1>13. AckInv'
    <2> SUFFICES ASSUME intact PROVE AckInv'
      BY <1>4 DEF AckInv
    <2>1. ASSUME NEW q \in requests', q.awaited, q.st = "Ok" PROVE Within(q.id, log', Len(log'))
      <3>1. q \in requests \/ q \in new
        BY <1>1 DEF Replace
      <3>2. CASE q \in new
        BY <1>6, <1>7, <3>2
      <3>3. CASE q \in requests
        <4>1. Within(q.id, log, Len(log)) /\ q.id \in Nat
          BY <1>2, <2>1, <3>3 DEF AckInv, RequestInv, Requests
        <4>2. QED
          BY <1>7, <4>1
      <3>4. QED
        BY <3>1, <3>2, <3>3
    <2>2. ASSUME NEW i \in DOMAIN produced
          PROVE  /\ Within(produced[i], log', Len(log'))
                 /\ \A k \in DOMAIN log' : produced[i] < log'[k] => Within(produced[i], log', k - 1)
      <3>1. produced[i] \in Nat
        BY <1>2, ElementOfSeq DEF WorkloadInv
      <3>2. Within(produced[i], log, Len(log))
        BY <1>2 DEF AckInv
      <3>3. ASSUME NEW k \in DOMAIN log', produced[i] < log'[k]
            PROVE  Within(produced[i], log', k - 1)
        <4>1. k \in Nat /\ k > 0 /\ (k \in DOMAIN log \/ k = Len(log) + 1)
          BY <1>3, <1>7, <1>8
        <4>2. CASE k \in DOMAIN log
          <5>1. Within(produced[i], log, k - 1)
            BY <1>2, <1>7, <1>8, <3>3, <4>2 DEF AckInv
          <5>2. k - 1 \in Nat /\ k - 1 <= Len(log)
            BY <1>3, <1>8, <4>1, <4>2
          <5>3. QED
            BY <1>7, <3>1, <5>1, <5>2
        <4>3. CASE k = Len(log) + 1
          <5>1. k - 1 = Len(log)
            BY <1>3, <4>3
          <5>2. QED
            BY <1>3, <1>7, <3>1, <3>2, <5>1
        <4>4. QED
          BY <4>1, <4>2, <4>3
      <3>4. QED
        BY <1>7, <3>1, <3>2, <3>3
    <2>3. QED
      BY <1>4, <2>1, <2>2 DEF AckInv
  <1>14. ReadInv'
    <2> SUFFICES ASSUME intact PROVE ReadInv'
      BY <1>4 DEF ReadInv
    <2>1. \A t \in Readers : position[t] \in Nat /\ position[t] <= Len(log)
      BY <1>2 DEF ReadInv, WorkloadInv
    <2>2. \A t \in Readers : position[t] <= Len(log')
      BY <1>3, <1>7, <2>1
    <2>3. ASSUME NEW i \in DOMAIN consumed PROVE consumed[i].id = log'[consumed[i].offset + 1]
      <3>1. consumed[i] \in Records
        BY <1>2, ElementOfSeq DEF WorkloadInv
      <3>2. consumed[i].offset \in Nat /\ consumed[i].consumer \in Readers
        BY <3>1 DEF Records
      <3>3. consumed[i].offset < position[consumed[i].consumer]
            /\ consumed[i].id = log[consumed[i].offset + 1]
        BY <1>2 DEF ReadInv
      <3>4. consumed[i].offset + 1 \in 1 .. Len(log)
        BY <1>3, <2>1, <3>2, <3>3
      <3>5. QED
        BY <1>7, <3>3, <3>4
    <2>4. QED
      BY <1>2, <1>4, <2>2, <2>3 DEF ReadInv
  <1>15. QED
    BY <1>9, <1>10, <1>11, <1>12, <1>13, <1>14 DEF IndInv

\* A broken connection ends the calls over it and leaves the other tasks alone.
LEMMA CallsBroken ==
  ASSUME TaskInv, NEW b \in Brokers, Broken(b), truth' = truth,
         \A c \in Brokers : c # b => up'[c] = up[c]
  PROVE  /\ TaskInv'
         /\ \A t \in Tasks : task[t].broker # b => task'[t] = task[t]
  <1>1. task \in [Tasks -> TaskStates] /\ \A t \in Tasks : Sound(task[t], up, truth)
    BY DEF TaskInv
  <1>2. task' = [t \in Tasks |-> IF task[t].pc \in {"call", "creating"} /\ task[t].broker = b
                                 THEN [task[t] EXCEPT !.pc = "closed"] ELSE task[t]]
    BY DEF Broken
  <1>3. "closed" \in Places /\ "closed" \in Calls /\ {"call", "creating"} \subseteq Calls
    BY DEF Places, Calls
  <1>4. ASSUME NEW t \in Tasks PROVE task'[t] \in TaskStates /\ Sound(task'[t], up', truth')
    <2>1. CASE task[t].pc \in {"call", "creating"} /\ task[t].broker = b
      <3> DEFINE z == [task[t] EXCEPT !.pc = "closed"]
      <3>1. task'[t] = z
        BY <1>2, <2>1
      <3>2. /\ z \in TaskStates /\ z.pc = "closed" /\ z.broker = task[t].broker
            /\ z.cand = task[t].cand /\ z.best = task[t].best
        BY ZenonT(40), <1>1, <1>3, Moved
      <3> HIDE DEF z
      <3>3. Sound(z, up', truth')
        BY <1>1, <1>3, <2>1, <3>2 DEF Sound
      <3>4. QED
        BY <3>1, <3>2, <3>3
    <2>2. CASE ~ (task[t].pc \in {"call", "creating"} /\ task[t].broker = b)
      <3>1. task'[t] = task[t]
        BY <1>2, <2>2
      <3>2. task[t].pc = "call" => task[t].broker \in Brokers /\ task[t].broker # b
        BY <1>1, <1>3, <2>2 DEF Sound
      <3>3. Sound(task[t], up', truth')
        BY <1>1, <3>2 DEF Sound
      <3>4. QED
        BY <1>1, <3>1, <3>3
    <2>3. QED
      BY <2>1, <2>2
  <1>5. task' \in [Tasks -> TaskStates]
    BY <1>2, <1>4
  <1>6. \A t \in Tasks : task[t].broker # b => task'[t] = task[t]
    BY <1>2
  <1>7. QED
    BY <1>4, <1>5, <1>6 DEF TaskInv

\* Requests at a broker whose connections broke are no longer awaited.
LEMMA RequestsOrphaned ==
  ASSUME RequestInv, AckInv, NEW b \in Brokers, requests' \in SUBSET Orphaned(b),
         nextId' = nextId, UNCHANGED <<log, produced>>, intact' => intact,
         task[Producer].broker # b => task'[Producer] = task[Producer]
  PROVE  RequestInv' /\ AckInv'
  <1>1. ASSUME NEW q \in requests'
        PROVE  q \in Requests /\ q.id <= nextId /\ (q.awaited => q \in requests /\ q.broker # b)
    <2>1. PICK r \in requests : q = [r EXCEPT !.awaited = r.awaited /\ r.broker # b]
      BY DEF Orphaned
    <2>2. r \in Requests /\ r.id <= nextId
      BY DEF RequestInv
    <2>3. q \in Requests /\ q.id = r.id
      BY <2>1, <2>2 DEF Requests
    <2>4. q.awaited = (r.awaited /\ r.broker # b) /\ q.broker = r.broker
      BY <2>1, <2>2 DEF Requests
    <2>5. q.awaited => q = r
      <3> SUFFICES ASSUME q.awaited PROVE q = r
        OBVIOUS
      <3>1. r.awaited = TRUE /\ (r.awaited /\ r.broker # b) = TRUE
        BY <2>2, <2>4 DEF Requests
      <3>2. q = [r EXCEPT !.awaited = r.awaited]
        BY <2>1, <3>1
      <3>3. QED
        BY <2>2, <3>2 DEF Requests
    <2>6. QED
      BY <2>2, <2>3, <2>4, <2>5
  <1>2. RequestInv'
    BY <1>1 DEF RequestInv
  <1>3. AckInv'
    BY <1>1, AcksStay
  <1>4. QED
    BY <1>2, <1>3

LEMMA BreakStep ==
  ASSUME IndInv, NEW b \in Brokers, Break(b)
  PROVE  IndInv'
  <1>1. /\ Broken(b) /\ Mishap(TRUE) /\ UNCHANGED <<cluster, meta, workload>>
        /\ requests' \in SUBSET Orphaned(b)
    BY DEF Break
  <1>2. ClusterInv /\ TaskInv /\ RequestInv /\ WorkloadInv /\ AckInv /\ ReadInv
    BY DEF IndInv
  <1>3. UNCHANGED <<truth, view, up, log>> /\ UNCHANGED <<created, nextId, position, produced, consumed>>
    BY <1>1 DEF cluster, workload
  <1>4. faults' \in Nat /\ intact' \in BOOLEAN /\ (intact' => intact)
    BY <1>1, <1>2, Mishaps
  <1>5. conns' = [conns EXCEPT ![b] = IF conns[b] = "live" THEN "dead" ELSE conns[b]]
    BY <1>1 DEF Broken
  <1>6. ClusterInv'
    BY <1>1, <1>2, <1>3, <1>4, <1>5 DEF ClusterInv
  <1>7. TaskInv' /\ \A t \in Tasks : task[t].broker # b => task'[t] = task[t]
    BY <1>1, <1>2, <1>3, CallsBroken
  <1>8. RequestInv' /\ AckInv'
    BY <1>1, <1>2, <1>3, <1>4, <1>7, RequestsOrphaned, Basics
  <1>9. WorkloadInv'
    BY <1>2, <1>3, WorkloadStays
  <1>10. ReadInv'
    BY <1>2, <1>3, <1>4, ReadsStay
  <1>11. QED
    BY <1>6, <1>7, <1>8, <1>9, <1>10 DEF IndInv

LEMMA CrashStep ==
  ASSUME IndInv, NEW b \in Brokers, Crash(b)
  PROVE  IndInv'
  <1>1. /\ up' = [up EXCEPT ![b] = FALSE] /\ view' = [view EXCEPT ![b] = NoMeta]
        /\ Broken(b) /\ Mishap(TRUE) /\ UNCHANGED <<truth, log, meta, workload>>
        /\ requests' \in SUBSET Orphaned(b)
    BY DEF Crash
  <1>2. ClusterInv /\ TaskInv /\ RequestInv /\ WorkloadInv /\ AckInv /\ ReadInv
    BY DEF IndInv
  <1>3. UNCHANGED <<created, nextId, position, produced, consumed>>
    BY <1>1 DEF workload
  <1>4. faults' \in Nat /\ intact' \in BOOLEAN /\ (intact' => intact)
    BY <1>1, <1>2, Mishaps
  <1>5. conns' = [conns EXCEPT ![b] = IF conns[b] = "live" THEN "dead" ELSE conns[b]]
    BY <1>1 DEF Broken
  <1>6. Past(NoMeta, truth)
    BY <1>2 DEF ClusterInv, Metas, Past, NoMeta
  <1>7. ClusterInv'
    <2>1. /\ view' \in [Brokers -> Metas] /\ up' \in [Brokers -> BOOLEAN]
          /\ \A c \in Brokers : Past(view'[c], truth)
      BY <1>1, <1>2, <1>6, Basics DEF ClusterInv
    <2>2. conns' \in [Brokers -> {"none", "live", "dead"}]
          /\ \A c \in Brokers : conns'[c] = "live" => up'[c]
      BY <1>1, <1>2, <1>5 DEF ClusterInv
    <2>3. QED
      BY <1>1, <1>2, <1>4, <2>1, <2>2 DEF ClusterInv
  <1>8. TaskInv' /\ \A t \in Tasks : task[t].broker # b => task'[t] = task[t]
    <2>1. \A c \in Brokers : c # b => up'[c] = up[c]
      BY <1>1, <1>2 DEF ClusterInv
    <2>2. QED
      BY <1>1, <1>2, <2>1, CallsBroken
  <1>9. RequestInv' /\ AckInv'
    BY <1>1, <1>2, <1>3, <1>4, <1>8, RequestsOrphaned, Basics
  <1>10. WorkloadInv'
    BY <1>1, <1>2, <1>3, WorkloadStays
  <1>11. ReadInv'
    BY <1>1, <1>2, <1>3, <1>4, ReadsStay
  <1>12. QED
    BY <1>7, <1>8, <1>9, <1>10, <1>11 DEF IndInv

LEMMA RestartStep ==
  ASSUME IndInv, NEW b \in Brokers, Restart(b)
  PROVE  IndInv'
  <1>1. up' = [up EXCEPT ![b] = TRUE]
        /\ UNCHANGED <<truth, view, log, requests, meta, conns, task, workload, mishaps>>
    BY DEF Restart
  <1>2. ClusterInv /\ TaskInv /\ RequestInv /\ WorkloadInv /\ AckInv /\ ReadInv
    BY DEF IndInv
  <1>3. UNCHANGED <<created, nextId, position, produced, consumed>> /\ UNCHANGED <<faults, intact>>
    BY <1>1 DEF workload, mishaps
  <1>4. up' \in [Brokers -> BOOLEAN] /\ \A c \in Brokers : up[c] => up'[c]
    BY <1>1, <1>2 DEF ClusterInv
  <1>5. ClusterInv'
    BY <1>1, <1>2, <1>3, <1>4 DEF ClusterInv
  <1>6. TaskInv'
    <2>1. \A t \in Tasks : Sound(task[t], up', truth)
      <3>1. \A t \in Tasks : Sound(task[t], up, truth)
        BY <1>2 DEF TaskInv
      <3>2. \A t \in Tasks : task[t].pc = "call" => task[t].broker \in Brokers
        BY <3>1 DEF Sound, Calls
      <3>3. QED
        BY <1>4, <3>1, <3>2 DEF Sound
    <2>2. QED
      BY <1>1, <1>2, <2>1 DEF TaskInv
  <1>7. RequestInv'
    BY <1>1, <1>2, <1>3, RequestsStay
  <1>8. WorkloadInv'
    BY <1>1, <1>2, <1>3, WorkloadStays
  <1>9. AckInv'
    BY <1>1, <1>2, <1>3, AcksStay
  <1>10. ReadInv'
    BY <1>1, <1>2, <1>3, ReadsStay
  <1>11. QED
    BY <1>5, <1>6, <1>7, <1>8, <1>9, <1>10 DEF IndInv

LEMMA LoseStep ==
  ASSUME IndInv, Lose
  PROVE  IndInv'
  <1>1. /\ log # <<>> /\ log' = SubSeq(log, 1, Len(log) - 1) /\ Mishap(FALSE)
        /\ UNCHANGED <<truth, view, up, requests, meta, conns, task, workload>>
    BY DEF Lose
  <1>2. ClusterInv /\ TaskInv /\ RequestInv /\ WorkloadInv /\ AckInv /\ ReadInv
    BY DEF IndInv
  <1>3. UNCHANGED <<created, nextId, position, produced, consumed>>
    BY <1>1 DEF workload
  <1>4. faults' \in Nat /\ intact' \in BOOLEAN /\ ~ intact'
    BY <1>1, <1>2, Mishaps
  <1>5. log \in Seq(Nat) /\ Len(log) \in Nat /\ Len(log) # 0
    BY <1>1, <1>2, EmptySeq DEF ClusterInv
  <1>6. log' \in Seq(Nat) /\ \A k \in DOMAIN log' : k \in DOMAIN log /\ log'[k] = log[k]
    <2> DEFINE n == Len(log) - 1
    <2>1. n \in Nat /\ n <= Len(log) /\ log' = SubSeq(log, 1, n)
      BY <1>1, <1>5
    <2> HIDE DEF n
    <2>2. QED
      BY <1>5, <2>1
  <1>7. ClusterInv'
    BY <1>1, <1>2, <1>4, <1>6 DEF ClusterInv
  <1>8. TaskInv'
    BY <1>1, <1>2, TasksStay
  <1>9. RequestInv'
    BY <1>1, <1>2, <1>3, RequestsStay
  <1>10. WorkloadInv'
    BY <1>2, <1>3, <1>6 DEF WorkloadInv
  <1>11. AckInv' /\ ReadInv'
    BY <1>4 DEF AckInv, ReadInv
  <1>12. QED
    BY <1>7, <1>8, <1>9, <1>10, <1>11 DEF IndInv

------------------------------------------------------------------------------
(* The client's steps *)

\* A connection the client holds as live leads to a broker that runs.
LEMMA Connected ==
  ASSUME ClusterInv, NEW b \in Brokers
  PROVE  /\ ConnTo(b) \in {"none", "live", "dead"}
         /\ ConnTo(b) = "live" => up[b]
  BY DEF ClusterInv, ConnTo

\* The table after a call keeps that.
LEMMA Kept ==
  ASSUME ClusterInv, NEW b \in Brokers, NEW c, c = "live" => up[b], Keep(b, c), up' = up
  PROVE  /\ conns' \in [Brokers -> {"none", "live", "dead"}]
         /\ \A x \in Brokers : conns'[x] = "live" => up'[x]
  BY DEF ClusterInv, Keep

\* And so does dropping a connection.
LEMMA Dropped ==
  ASSUME ClusterInv, NEW t \in Tasks, DropConn(t), up' = up
  PROVE  /\ conns' \in [Brokers -> {"none", "live", "dead"}]
         /\ \A x \in Brokers : conns'[x] = "live" => up'[x]
  <1>1. conns' = conns \/ conns' = [conns EXCEPT ![task[t].broker] = "none"]
    BY DEF DropConn
  <1>2. QED
    BY <1>1 DEF ClusterInv

\* A refresh starts from the bootstrap list.
LEMMA Refreshing ==
  ASSUME TaskInv, ClusterInv, NEW t \in Tasks, NEW next \in {"create", "route"}, Refresh(t, next),
         up' = up, \A m \in Metas : Past(m, truth) => Past(m, truth'), truth' = truth
  PROVE  /\ TaskInv'
         /\ \A x \in Tasks : x # t => task'[x] = task[x]
  <1> DEFINE z == [task[t] EXCEPT !.pc = "refresh", !.broker = NoBroker, !.cand = Bootstrap,
                                  !.best = Unheard, !.next = next]
  <1>1. task \in [Tasks -> TaskStates] /\ task' = [task EXCEPT ![t] = z]
    BY DEF TaskInv, Refresh
  <1>2. Past(NoMeta, truth)
    BY DEF ClusterInv, Metas, Past, NoMeta
  <1>3. z \in TaskStates
    <2>1. "refresh" \in Places
      BY DEF Places
    <2>2. QED
      BY <1>1, <2>1, Basics DEF TaskStates
  <1>4. z.pc = "refresh" /\ z.cand = Bootstrap /\ z.best = Unheard /\ z.next = next
    BY <1>1 DEF TaskStates
  <1> HIDE DEF z
  <1>5. Sound(z, up, truth)
    BY <1>2, <1>4, Basics DEF Sound, Calls
  <1>6. TaskInv'
    BY <1>1, <1>3, <1>5, TaskMoves
  <1>7. QED
    BY <1>1, <1>6

\* Leaving a call: the task goes where no call is in progress.
LEMMA Leaving ==
  ASSUME TaskInv, NEW t \in Tasks, NEW pc \in {"retry", "idle", "route", "create"},
         task' = Goto(t, pc), up' = up, truth' = truth
  PROVE  TaskInv'
  <1> DEFINE z == [task[t] EXCEPT !.pc = pc, !.broker = NoBroker]
  <1>1. task \in [Tasks -> TaskStates] /\ Sound(task[t], up, truth)
    BY DEF TaskInv
  <1>2. task' = [task EXCEPT ![t] = z]
    BY <1>1 DEF Goto
  <1>3. pc \in Places /\ pc \notin Calls /\ pc # "call" /\ pc # "refresh"
    BY DEF Places, Calls
  <1>4. z \in TaskStates /\ z.pc = pc /\ z.cand = task[t].cand /\ z.best = task[t].best
    <2>1. task[t] \in TaskStates /\ NoBroker \in Brokers \cup {NoBroker}
      BY <1>1
    <2>2. QED
      BY <1>3, <2>1 DEF TaskStates
  <1> HIDE DEF z
  <1>5. Sound(z, up, truth)
    BY <1>1, <1>3, <1>4 DEF Sound
  <1>6. QED
    BY <1>2, <1>4, <1>5, TaskMoves

\* The newer of two answers from the past is from the past.
LEMMA NewerIsPast ==
  ASSUME NEW best \in Bests, NEW answer \in Metas, NEW t,
         Past(best.meta, t), Past(answer, t)
  PROVE  Newer(best, answer) \in Bests /\ Past(Newer(best, answer).meta, t)
  <1>1. Newer(best, answer) \in {best, [heard |-> TRUE, meta |-> answer]}
    BY DEF Newer
  <1> DEFINE new == [heard |-> TRUE, meta |-> answer]
  <1>2. new \in Bests /\ new.meta = answer
    BY DEF Bests
  <1> HIDE DEF new
  <1>3. Newer(best, answer) = best \/ Newer(best, answer) = new
    BY <1>1 DEF new
  <1>4. QED
    BY <1>2, <1>3

LEMMA RefreshNextStep ==
  ASSUME IndInv, NEW t \in Tasks, RefreshNext(t)
  PROVE  IndInv'
  <1> DEFINE b == Head(task[t].cand)
             c == ConnTo(b)
             best == IF c = "live" THEN Newer(task[t].best, view[b]) ELSE task[t].best
             last == Len(task[t].cand) = 1
             cand == IF last THEN Bootstrap ELSE Tail(task[t].cand)
             next == IF last THEN Unheard ELSE best
             pc == IF last THEN task[t].next ELSE "refresh"
             z == [task[t] EXCEPT !.cand = cand, !.best = next, !.pc = pc]
  <1>1. ClusterInv /\ TaskInv /\ RequestInv /\ WorkloadInv /\ AckInv /\ ReadInv
    BY DEF IndInv
  <1>2. /\ task \in [Tasks -> TaskStates] /\ task[t] \in TaskStates /\ Sound(task[t], up, truth)
    BY <1>1 DEF TaskInv
  <1>3. /\ task[t].pc = "refresh" /\ Keep(b, c)
        /\ meta' = IF last /\ best.heard THEN best.meta ELSE meta
        /\ UNCHANGED <<cluster, requests, workload, mishaps>>
    BY DEF RefreshNext
  <1>4. task' = [task EXCEPT ![t] = z]
    BY DEF RefreshNext
  <1>5. UNCHANGED <<truth, view, up, log>> /\ UNCHANGED <<created, nextId, position, produced, consumed>>
        /\ UNCHANGED <<faults, intact>>
    BY <1>3 DEF cluster, workload, mishaps
  <1>6. task[t].cand \in Seq(Brokers) /\ task[t].cand # <<>>
    BY <1>2 DEF TaskStates, Sound
  <1>7. b \in Brokers /\ (~ last => Tail(task[t].cand) \in Seq(Brokers) /\ Tail(task[t].cand) # <<>>)
    BY <1>6, Rest
  <1>8. task[t].best \in Bests /\ Past(task[t].best.meta, truth)
    BY <1>2 DEF TaskStates, Sound
  <1>9. view[b] \in Metas /\ Past(view[b], truth)
    BY <1>1, <1>7 DEF ClusterInv
  <1>10. best \in Bests /\ Past(best.meta, truth)
    BY <1>8, <1>9, NewerIsPast
  <1>11. cand \in Seq(Brokers) /\ cand # <<>>
    BY <1>7, Basics
  <1>12. Past(NoMeta, truth)
    BY <1>1 DEF ClusterInv, Metas, Past, NoMeta
  <1>13. next \in Bests /\ Past(next.meta, truth)
    BY <1>10, <1>12, Basics
  <1>14. task[t].next \in {"create", "route"}
    BY <1>2, <1>3 DEF Sound
  <1>15. pc \in {"create", "route", "refresh"}
    BY <1>3, <1>14
  <1>16. c = "live" => up[b]
    BY <1>1, <1>7, Connected
  <1> HIDE DEF cand, next, pc, best, c, b
  <1>17. pc \in Places /\ pc \notin Calls /\ pc # "call"
    BY <1>15 DEF Places, Calls
  <1>18. z \in TaskStates /\ z.cand = cand /\ z.best = next /\ z.pc = pc /\ z.next = task[t].next
    BY <1>2, <1>11, <1>13, <1>17 DEF TaskStates
  <1> HIDE DEF z
  <1>19. Sound(z, up, truth)
    BY <1>11, <1>13, <1>14, <1>17, <1>18 DEF Sound
  <1>20. TaskInv'
    BY <1>1, <1>4, <1>5, <1>18, <1>19, TaskMoves
  <1>21. meta' \in Metas /\ Past(meta', truth)
    BY <1>1, <1>3, <1>10 DEF ClusterInv, Bests
  <1>22. ClusterInv'
    <2>1. /\ conns' \in [Brokers -> {"none", "live", "dead"}]
          /\ \A x \in Brokers : conns'[x] = "live" => up'[x]
      BY <1>1, <1>3, <1>5, <1>7, <1>16, Kept
    <2>2. QED
      BY <1>1, <1>5, <1>21, <2>1 DEF ClusterInv
  <1>23. task[Producer].pc # "call" \/ task'[Producer] = task[Producer]
    BY <1>2, <1>3, <1>4
  <1>24. RequestInv'
    BY <1>1, <1>3, <1>5, <1>23, RequestsStay
  <1>25. WorkloadInv'
    BY <1>1, <1>5, WorkloadStays
  <1>26. AckInv'
    BY <1>1, <1>3, <1>5, AcksStay
  <1>27. ReadInv'
    BY <1>1, <1>5, ReadsStay
  <1>28. QED
    BY <1>20, <1>22, <1>24, <1>25, <1>26, <1>27 DEF IndInv

LEMMA RetryStep ==
  ASSUME IndInv, NEW t \in Tasks, Retry(t)
  PROVE  IndInv'
  <1>1. ClusterInv /\ TaskInv /\ RequestInv /\ WorkloadInv /\ AckInv /\ ReadInv
    BY DEF IndInv
  <1>2. /\ task[t].pc \in {"retry", "closed"} /\ DropConn(t) /\ Refresh(t, "route")
        /\ UNCHANGED <<cluster, requests, meta, workload, mishaps>>
    BY DEF Retry
  <1>3. UNCHANGED <<truth, view, up, log>> /\ UNCHANGED <<created, nextId, position, produced, consumed>>
        /\ UNCHANGED <<faults, intact>>
    BY <1>2 DEF cluster, workload, mishaps
  <1>4. TaskInv' /\ \A x \in Tasks : x # t => task'[x] = task[x]
    BY <1>1, <1>2, <1>3, Refreshing
  <1>5. ClusterInv'
    BY <1>1, <1>2, <1>3, Dropped DEF ClusterInv
  <1>6. task[Producer].pc # "call" \/ task'[Producer] = task[Producer]
    BY <1>2, <1>4, Basics
  <1>7. RequestInv'
    BY <1>1, <1>2, <1>3, <1>6, RequestsStay
  <1>8. WorkloadInv'
    BY <1>1, <1>3, WorkloadStays
  <1>9. AckInv'
    BY <1>1, <1>2, <1>3, AcksStay
  <1>10. ReadInv'
    BY <1>1, <1>3, ReadsStay
  <1>11. QED
    BY <1>4, <1>5, <1>7, <1>8, <1>9, <1>10 DEF IndInv

\* Without a call of the producer's in progress no request is awaited.
LEMMA NothingAwaited ==
  ASSUME RequestInv, task[Producer].pc # "call"
  PROVE  \A r \in requests : r.awaited = FALSE
  BY DEF RequestInv, Requests

LEMMA AttemptStep ==
  ASSUME IndInv, NEW t \in Tasks, Attempt(t)
  PROVE  IndInv'
  <1> DEFINE b == meta.leader
             c == ConnTo(b)
             r == [id |-> nextId, broker |-> b, epoch |-> meta.epoch, st |-> "sent",
                   awaited |-> TRUE, n |-> faults]
             to == IF c = "none" THEN NoBroker ELSE b
             z == [task[t] EXCEPT !.pc = Called(c), !.broker = to]
  <1>1. ClusterInv /\ TaskInv /\ RequestInv /\ WorkloadInv /\ AckInv /\ ReadInv
    BY DEF IndInv
  <1>2. task \in [Tasks -> TaskStates] /\ task[t] \in TaskStates /\ Sound(task[t], up, truth)
    BY <1>1 DEF TaskInv
  <1>3. task[t].pc = "route" /\ UNCHANGED <<cluster, meta, workload, mishaps>>
    BY DEF Attempt
  <1>4. UNCHANGED <<truth, view, up, log>> /\ UNCHANGED <<created, nextId, position, produced, consumed>>
        /\ UNCHANGED <<faults, intact>>
    BY <1>3 DEF cluster, workload, mishaps
  <1>5. WorkloadInv'
    BY <1>1, <1>4, WorkloadStays
  <1>6. ReadInv'
    BY <1>1, <1>4, ReadsStay
  <1>7. CASE b = NoBroker
    <2>1. task' = Goto(t, "retry") /\ UNCHANGED <<conns, requests>>
      BY <1>7 DEF Attempt
    <2>2. TaskInv'
      BY <1>1, <1>4, <2>1, Leaving
    <2>3. ClusterInv'
      BY <1>1, <1>3, <1>4, <2>1 DEF ClusterInv
    <2>4. task[Producer].pc # "call" \/ task'[Producer] = task[Producer]
      BY <1>2, <1>3, <2>1, Basics DEF Goto
    <2>5. RequestInv'
      BY <1>1, <1>4, <2>1, <2>4, RequestsStay
    <2>6. AckInv'
      BY <1>1, <1>4, <2>1, AcksStay
    <2>7. QED
      BY <1>5, <1>6, <2>2, <2>3, <2>5, <2>6 DEF IndInv
  <1>8. CASE b # NoBroker
    <2>1. /\ conns' = [conns EXCEPT ![b] = c]
          /\ requests' = IF t = Producer /\ c = "live" THEN requests \cup {r} ELSE requests
      BY <1>8 DEF Attempt
    <2>2. task' = [task EXCEPT ![t] = z]
      BY <1>2, <1>8 DEF Attempt
    <2>3. b \in Brokers /\ meta.epoch \in Nat
      BY <1>1, <1>8 DEF ClusterInv, Metas
    <2>4. c \in {"none", "live", "dead"} /\ (c = "live" => up[b])
      BY <1>1, <2>3, Connected
    <2>5. ClusterInv'
      BY <1>1, <1>3, <1>4, <2>1, <2>3, <2>4 DEF ClusterInv
    <2>6. r \in Requests /\ r.id = nextId /\ r.broker = b /\ r.awaited = TRUE /\ r.st = "sent"
      BY <1>1, <2>3 DEF Requests, ClusterInv, WorkloadInv
    <2> HIDE DEF b, r
    <2>7. Called(c) = (IF c = "live" THEN "call" ELSE IF c = "dead" THEN "closed" ELSE "retry")
      BY <2>4 DEF Called
    <2> HIDE DEF c
    <2>8. to \in Brokers \cup {NoBroker} /\ (c # "none" => to = b)
      BY <2>3
    <2> HIDE DEF to
    <2>9. Called(c) \in Places /\ (Called(c) \in Calls => c # "none")
          /\ (Called(c) = "call" <=> c = "live") /\ Called(c) # "refresh"
      BY <2>4, <2>7 DEF Places, Calls
    <2>10. z \in TaskStates /\ z.pc = Called(c) /\ z.broker = to
           /\ z.cand = task[t].cand /\ z.best = task[t].best
      BY <1>2, <2>8, <2>9 DEF TaskStates
    <2> HIDE DEF z
    <2>11. Sound(z, up, truth)
      BY <1>2, <2>3, <2>4, <2>8, <2>9, <2>10 DEF Sound
    <2>12. TaskInv'
      BY <1>1, <1>4, <2>2, <2>10, <2>11, TaskMoves
    <2>13. RequestInv' /\ AckInv'
      <3>1. CASE t = Producer /\ c = "live"
        <4>1. requests' = requests \cup {r} /\ \A q \in requests : q.awaited = FALSE
          BY <1>1, <1>3, <2>1, <3>1, NothingAwaited
        <4>2. task'[Producer].pc = "call" /\ task'[Producer].broker = b
          BY <1>2, <2>2, <2>8, <2>9, <2>10, <3>1
        <4>3. nextId \in Nat
          BY <1>1 DEF WorkloadInv
        <4>4. RequestInv'
          BY <1>1, <1>4, <2>6, <4>1, <4>2, <4>3 DEF RequestInv
        <4>5. AckInv'
          BY <1>1, <1>4, <2>6, <4>1, AcksStay
        <4>6. QED
          BY <4>4, <4>5
      <3>2. CASE ~ (t = Producer /\ c = "live")
        <4>1. requests' = requests
          BY <2>1, <3>2
        <4>2. task[Producer].pc # "call" \/ task'[Producer] = task[Producer]
          BY <1>2, <1>3, <2>2, Basics
        <4>3. RequestInv'
          BY <1>1, <1>4, <4>1, <4>2, RequestsStay
        <4>4. AckInv'
          BY <1>1, <1>4, <4>1, AcksStay
        <4>5. QED
          BY <4>3, <4>4
      <3>3. QED
        BY <3>1, <3>2
    <2>14. QED
      BY <1>5, <1>6, <2>5, <2>12, <2>13 DEF IndInv
  <1>9. QED
    BY <1>7, <1>8

LEMMA ProduceStepInv ==
  ASSUME IndInv, Produce
  PROVE  IndInv'
  <1>1. ClusterInv /\ TaskInv /\ RequestInv /\ WorkloadInv /\ AckInv /\ ReadInv
    BY DEF IndInv
  <1>2. /\ task[Producer].pc = "idle" /\ task' = Goto(Producer, "route")
        /\ UNCHANGED <<cluster, requests, meta, conns, workload, mishaps>>
    BY DEF Produce
  <1>3. UNCHANGED <<truth, view, up, log>> /\ UNCHANGED <<created, nextId, position, produced, consumed>>
        /\ UNCHANGED <<faults, intact>>
    BY <1>2 DEF cluster, workload, mishaps
  <1>4. TaskInv'
    BY <1>1, <1>2, <1>3, Leaving, Basics
  <1>5. ClusterInv'
    BY <1>1, <1>2, <1>3 DEF ClusterInv
  <1>6. RequestInv'
    BY <1>1, <1>2, <1>3, RequestsStay
  <1>7. WorkloadInv'
    BY <1>1, <1>3, WorkloadStays
  <1>8. AckInv'
    BY <1>1, <1>2, <1>3, AcksStay
  <1>9. ReadInv'
    BY <1>1, <1>3, ReadsStay
  <1>10. QED
    BY <1>4, <1>5, <1>6, <1>7, <1>8, <1>9 DEF IndInv

LEMMA GiveUpStep ==
  ASSUME IndInv, GiveUp
  PROVE  IndInv'
  <1>1. ClusterInv /\ TaskInv /\ RequestInv /\ WorkloadInv /\ AckInv /\ ReadInv
    BY DEF IndInv
  <1>2. /\ task[Producer].pc \in {"retry", "closed"} /\ DropConn(Producer)
        /\ task' = Goto(Producer, "idle") /\ nextId' = nextId + 1 /\ Mishap(TRUE)
        /\ UNCHANGED <<cluster, requests, meta, created, position, produced, consumed>>
    BY DEF GiveUp
  <1>3. UNCHANGED <<truth, view, up, log>>
    BY <1>2 DEF cluster
  <1>4. faults' \in Nat /\ intact' \in BOOLEAN /\ (intact' => intact)
    BY <1>1, <1>2, Mishaps
  <1>5. TaskInv'
    BY <1>1, <1>2, <1>3, Leaving, Basics
  <1>6. ClusterInv'
    BY <1>1, <1>2, <1>3, <1>4, Dropped, Basics DEF ClusterInv
  <1>7. nextId \in Nat
    BY <1>1 DEF WorkloadInv
  <1>8. RequestInv'
    <2>1. \A r \in requests : r.awaited = FALSE /\ r.id \in Nat /\ r.id <= nextId
      BY <1>1, <1>2, NothingAwaited DEF RequestInv, Requests
    <2>2. \A r \in requests : r.id <= nextId'
      BY <1>2, <1>7, <2>1
    <2>3. QED
      BY <1>1, <1>2, <2>1, <2>2 DEF RequestInv
  <1>9. WorkloadInv'
    <2>1. \A i \in DOMAIN produced : produced[i] \in Nat /\ produced[i] < nextId
      BY <1>1, ElementOfSeq DEF WorkloadInv
    <2>2. \A k \in DOMAIN log : log[k] \in Nat /\ log[k] <= nextId
      BY <1>1, ElementOfSeq DEF WorkloadInv, ClusterInv
    <2>3. QED
      BY <1>1, <1>2, <1>3, <1>7, <2>1, <2>2 DEF WorkloadInv
  <1>10. AckInv'
    BY <1>1, <1>2, <1>3, <1>4, AcksStay
  <1>11. ReadInv'
    BY <1>1, <1>2, <1>3, <1>4, ReadsStay
  <1>12. QED
    BY <1>5, <1>6, <1>8, <1>9, <1>10, <1>11 DEF IndInv

LEMMA ProduceAnsweredStep ==
  ASSUME IndInv, NEW r \in requests, ProduceAnswered(r)
  PROVE  IndInv'
  <1>1. ClusterInv /\ TaskInv /\ RequestInv /\ WorkloadInv /\ AckInv /\ ReadInv
    BY DEF IndInv
  <1>2. /\ r.awaited /\ requests' = requests \ {r} /\ UNCHANGED <<cluster, meta, conns, mishaps>>
    BY DEF ProduceAnswered
  <1>3. UNCHANGED <<truth, view, up, log>> /\ UNCHANGED <<faults, intact>>
    BY <1>2 DEF cluster, mishaps
  <1>4. r \in Requests /\ r.id = nextId /\ nextId \in Nat /\ r.id \in Nat
    BY <1>1, <1>2 DEF RequestInv, WorkloadInv, Requests
  <1>5. \A q \in requests' : q \in requests /\ q.awaited = FALSE /\ q.id \in Nat /\ q.id <= nextId
    BY <1>1, <1>2 DEF RequestInv, Requests
  <1>6. ClusterInv'
    BY <1>1, <1>2, <1>3 DEF ClusterInv
  <1>7. CASE Outcome(r.st) = "retry"
    <2>1. task' = Goto(Producer, "retry") /\ UNCHANGED workload
      BY <1>7 DEF ProduceAnswered
    <2>2. UNCHANGED <<created, nextId, position, produced, consumed>>
      BY <2>1 DEF workload
    <2>3. TaskInv'
      BY <1>1, <1>3, <2>1, Leaving, Basics
    <2>4. RequestInv'
      BY <1>1, <1>2, <1>5, <2>2 DEF RequestInv
    <2>5. WorkloadInv'
      BY <1>1, <1>3, <2>2, WorkloadStays
    <2>6. AckInv'
      BY <1>1, <1>3, <1>5, <2>2, AcksStay
    <2>7. ReadInv'
      BY <1>1, <1>3, <2>2, ReadsStay
    <2>8. QED
      BY <1>6, <2>3, <2>4, <2>5, <2>6, <2>7 DEF IndInv
  <1>8. CASE Outcome(r.st) # "retry"
    <2>1. /\ task' = Goto(Producer, "idle")
          /\ produced' = IF Outcome(r.st) = "acked" THEN Append(produced, r.id) ELSE produced
          /\ nextId' = nextId + 1 /\ UNCHANGED <<created, position, consumed>>
      BY <1>8 DEF ProduceAnswered
    <2>2. TaskInv'
      BY <1>1, <1>3, <2>1, Leaving, Basics
    <2>3. RequestInv'
      <3>1. \A q \in requests' : q.id <= nextId'
        BY <1>4, <1>5, <2>1
      <3>2. QED
        BY <1>1, <1>2, <1>5, <3>1 DEF RequestInv
    <2>4. produced \in Seq(Nat) /\ Len(produced) \in Nat /\ DOMAIN produced = 1 .. Len(produced)
      BY <1>1 DEF WorkloadInv
    <2>5. /\ produced' \in Seq(Nat)
          /\ \A i \in DOMAIN produced' : \/ i \in DOMAIN produced /\ produced'[i] = produced[i]
                                         \/ /\ i = Len(produced) + 1 /\ produced'[i] = nextId
                                            /\ r.st = "Ok"
      <3>1. CASE Outcome(r.st) = "acked"
        <4>1. r.st = "Ok"
          BY <3>1 DEF Outcome
        <4>2. produced' = Append(produced, nextId)
          BY <1>4, <2>1, <3>1
        <4>3. /\ produced' \in Seq(Nat) /\ Len(produced') = Len(produced) + 1
              /\ \A i \in 1 .. Len(produced) : produced'[i] = produced[i]
              /\ produced'[Len(produced) + 1] = nextId
          BY <1>4, <2>4, <4>2, AppendProperties
        <4>4. \A i \in DOMAIN produced' : i \in 1 .. Len(produced) \/ i = Len(produced) + 1
          BY <2>4, <4>3
        <4>5. QED
          BY <2>4, <4>1, <4>3, <4>4
      <3>2. CASE Outcome(r.st) # "acked"
        BY <2>1, <2>4, <3>2
      <3>3. QED
        BY <3>1, <3>2
    <2>6. \A i \in DOMAIN produced : produced[i] \in Nat /\ produced[i] < nextId
      BY <1>1, ElementOfSeq DEF WorkloadInv
    <2>7. \A k \in DOMAIN log : log[k] \in Nat /\ log[k] <= nextId
      BY <1>1, ElementOfSeq DEF WorkloadInv, ClusterInv
    <2>8. WorkloadInv'
      <3>1. \A i \in DOMAIN produced' : produced'[i] < nextId'
        BY <1>4, <2>1, <2>5, <2>6
      <3>2. ASSUME NEW i \in DOMAIN produced', NEW j \in DOMAIN produced', i < j
            PROVE  produced'[i] < produced'[j]
        <4>1. i \in DOMAIN produced /\ produced'[i] = produced[i]
          <5>1. CASE i = Len(produced) + 1
            <6>1. j \in DOMAIN produced \/ j = Len(produced) + 1
              BY <2>5
            <6>2. QED
              BY <2>4, <3>2, <5>1, <6>1
          <5>2. QED
            BY <2>5, <5>1
        <4>2. CASE j \in DOMAIN produced /\ produced'[j] = produced[j]
          BY <1>1, <3>2, <4>1, <4>2 DEF WorkloadInv
        <4>3. CASE produced'[j] = nextId
          BY <2>6, <4>1, <4>3
        <4>4. QED
          BY <2>5, <4>2, <4>3
      <3>3. \A k \in DOMAIN log : log[k] <= nextId'
        BY <1>4, <2>1, <2>7
      <3>4. QED
        BY <1>1, <1>3, <1>4, <2>1, <2>5, <3>1, <3>2, <3>3 DEF WorkloadInv
    <2>9. AckInv'
      <3> SUFFICES ASSUME intact PROVE AckInv'
        BY <1>3 DEF AckInv
      <3>1. ASSUME NEW i \in DOMAIN produced'
            PROVE  /\ Within(produced'[i], log, Len(log))
                   /\ \A k \in DOMAIN log : produced'[i] < log[k] => Within(produced'[i], log, k - 1)
        <4>1. CASE i \in DOMAIN produced /\ produced'[i] = produced[i]
          BY <1>1, <4>1 DEF AckInv
        <4>2. CASE produced'[i] = nextId /\ r.st = "Ok"
          <5>1. Within(nextId, log, Len(log))
            BY <1>1, <1>2, <1>4, <4>2 DEF AckInv
          <5>2. \A k \in DOMAIN log : ~ (nextId < log[k])
            BY <1>4, <2>7
          <5>3. QED
            BY <4>2, <5>1, <5>2
        <4>3. QED
          BY <2>5, <4>1, <4>2
      <3>2. QED
        BY <1>3, <1>5, <3>1 DEF AckInv
    <2>10. ReadInv'
      BY <1>1, <1>3, <2>1, ReadsStay
    <2>11. QED
      BY <1>6, <2>2, <2>3, <2>8, <2>9, <2>10 DEF IndInv
  <1>9. QED
    BY <1>7, <1>8

LEMMA CreateAtStep ==
  ASSUME IndInv, CreateAt(Producer)
  PROVE  IndInv'
  <1> DEFINE t == Producer
             b == Head(task[t].cand)
             c == ConnTo(b)
             known == view[b] # NoMeta
             next == IF truth.leader = NoBroker THEN "Ok" ELSE "TopicExists"
             z == [task[t] EXCEPT !.pc = "creating", !.broker = b, !.next = next]
             y == [task[t] EXCEPT !.cand = Tail(task[t].cand)]
  <1>1. ClusterInv /\ TaskInv /\ RequestInv /\ WorkloadInv /\ AckInv /\ ReadInv
    BY DEF IndInv
  <1>2. task \in [Tasks -> TaskStates] /\ t \in Tasks /\ task[t] \in TaskStates /\ Sound(task[t], up, truth)
    BY <1>1, Basics DEF TaskInv
  <1>3. task[t].pc = "create" /\ UNCHANGED <<view, up, log, requests, meta, workload, mishaps>>
    BY DEF CreateAt
  <1>4. UNCHANGED <<created, nextId, position, produced, consumed>> /\ UNCHANGED <<faults, intact>>
    BY <1>3 DEF workload, mishaps
  <1>5. task[t].cand \in Seq(Brokers) /\ task[t].cand # <<>>
    BY <1>2 DEF TaskStates, Sound
  <1>6. b \in Brokers /\ (Len(task[t].cand) # 1 => Tail(task[t].cand) \in Seq(Brokers) /\ Tail(task[t].cand) # <<>>)
    BY <1>5, Rest
  <1>7. c = "live" => up[b]
    BY <1>1, <1>6, Connected
  <1>8. RequestInv'
    BY <1>1, <1>3, <1>4, RequestsStay
  <1>9. WorkloadInv'
    BY <1>1, <1>3, <1>4, WorkloadStays
  <1>10. AckInv'
    BY <1>1, <1>3, <1>4, AcksStay
  <1>11. ReadInv'
    BY <1>1, <1>3, <1>4, ReadsStay
  <1>12. CASE c = "live" /\ known
    <2>1. /\ conns' = [conns EXCEPT ![b] = c]
          /\ IF truth.leader = NoBroker THEN Lead(b) ELSE UNCHANGED truth
      BY <1>12 DEF CreateAt
    <2>2. task' = [task EXCEPT ![t] = z]
      BY <1>2, <1>12 DEF CreateAt
    <2>3. truth' \in Metas /\ \A m \in Metas : Past(m, truth) => Past(m, truth')
      BY <1>1, <1>6, <2>1, LeadRaises DEF ClusterInv
    <2>4. ClusterInv'
      <3>1. conns' \in [Brokers -> {"none", "live", "dead"}]
            /\ \A x \in Brokers : conns'[x] = "live" => up'[x]
        BY <1>1, <1>3, <1>6, <1>7, <1>12, <2>1 DEF ClusterInv
      <3>2. QED
        BY <1>1, <1>3, <1>4, <2>3, <3>1 DEF ClusterInv
    <2>5. next \in {"create", "route", "Ok", "TopicExists"}
      OBVIOUS
    <2>6. "creating" \in Places /\ "creating" \in Calls
      BY DEF Places, Calls
    <2> HIDE DEF b, next
    <2>7. z \in TaskStates /\ z.pc = "creating" /\ z.broker = b /\ z.cand = task[t].cand
          /\ z.best = task[t].best
      BY <1>2, <1>6, <2>5, <2>6 DEF TaskStates
    <2> HIDE DEF z
    <2>8. \A x \in Tasks : task[x].best.meta \in Metas /\ Sound(task[x], up, truth)
      BY <1>1 DEF TaskInv, TaskStates, Bests
    <2>9. \A x \in Tasks : Sound(task[x], up, truth')
      BY <2>3, <2>8 DEF Sound
    <2>10. Sound(z, up, truth')
      BY <1>2, <1>6, <2>7, <2>9 DEF Sound
    <2>11. task' \in [Tasks -> TaskStates] /\ \A x \in Tasks : Sound(task'[x], up, truth')
      BY <1>2, <2>2, <2>7, <2>9, <2>10
    <2>12. TaskInv'
      BY <1>3, <2>11 DEF TaskInv
    <2>13. QED
      BY <1>8, <1>9, <1>10, <1>11, <2>4, <2>12 DEF IndInv
  <1>13. CASE ~ (c = "live" /\ known)
    <2>1. /\ Keep(b, IF known THEN c ELSE "none")
          /\ IF Len(task[t].cand) = 1 THEN Refresh(t, "create")
             ELSE task' = [task EXCEPT ![t].cand = Tail(task[t].cand)]
          /\ UNCHANGED truth
      BY <1>13 DEF CreateAt
    <2>2. ClusterInv'
      <3>1. conns' \in [Brokers -> {"none", "live", "dead"}]
            /\ \A x \in Brokers : conns'[x] = "live" => up'[x]
        BY <1>1, <1>3, <1>6, <1>7, <2>1, Kept
      <3>2. QED
        BY <1>1, <1>3, <1>4, <2>1, <3>1 DEF ClusterInv
    <2>3. TaskInv'
      <3>1. CASE Len(task[t].cand) = 1
        BY <1>1, <1>2, <1>3, <2>1, <3>1, Refreshing
      <3>2. CASE Len(task[t].cand) # 1
        <4>1. task' = [task EXCEPT ![t] = y]
          BY <1>2, <2>1, <3>2
        <4>2. /\ y \in TaskStates /\ y.cand = Tail(task[t].cand) /\ y.pc = "create"
              /\ y.best = task[t].best
          BY <1>2, <1>3, <1>6, <3>2 DEF TaskStates
        <4> HIDE DEF y
        <4>3. Sound(y, up, truth)
          BY <1>2, <1>6, <3>2, <4>2 DEF Sound, Calls
        <4>4. QED
          BY <1>1, <1>2, <1>3, <2>1, <4>1, <4>2, <4>3, TaskMoves
      <3>3. QED
        BY <3>1, <3>2
    <2>4. QED
      BY <1>8, <1>9, <1>10, <1>11, <2>2, <2>3 DEF IndInv
  <1>14. QED
    BY <1>12, <1>13

LEMMA CreateAnsweredStep ==
  ASSUME IndInv, CreateAnswered(Producer)
  PROVE  IndInv'
  <1>1. ClusterInv /\ TaskInv /\ RequestInv /\ WorkloadInv /\ AckInv /\ ReadInv
    BY DEF IndInv
  <1>2. /\ task[Producer].pc = "creating"
        /\ task' = [x \in Tasks |-> [task[x] EXCEPT !.cand = Bootstrap, !.broker = NoBroker, !.next = "route",
                                                    !.pc = IF x = Producer THEN "idle" ELSE "route"]]
        /\ UNCHANGED <<cluster, requests, meta, conns, nextId, position, produced, consumed, mishaps>>
    BY DEF CreateAnswered
  <1>3. UNCHANGED <<truth, view, up, log>> /\ UNCHANGED <<faults, intact>>
    BY <1>2 DEF cluster, mishaps
  <1>4. ASSUME NEW x \in Tasks PROVE task'[x] \in TaskStates /\ Sound(task'[x], up, truth)
    <2> DEFINE pc == IF x = Producer THEN "idle" ELSE "route"
               z == [task[x] EXCEPT !.cand = Bootstrap, !.broker = NoBroker, !.next = "route", !.pc = pc]
    <2>1. task[x] \in TaskStates /\ Sound(task[x], up, truth) /\ task'[x] = z
      BY <1>1, <1>2 DEF TaskInv
    <2>2. pc \in Places /\ pc \notin Calls /\ pc # "call"
      BY DEF Places, Calls
    <2> HIDE DEF pc
    <2>3. z \in TaskStates /\ z.cand = Bootstrap /\ z.pc = pc /\ z.next = "route"
          /\ z.best = task[x].best
      BY <2>1, <2>2, Basics DEF TaskStates
    <2> HIDE DEF z
    <2>4. Sound(z, up, truth)
      BY <2>1, <2>2, <2>3, Basics DEF Sound
    <2>5. QED
      BY <2>1, <2>3, <2>4
  <1>5. TaskInv'
    BY <1>2, <1>3, <1>4 DEF TaskInv
  <1>6. ClusterInv'
    BY <1>1, <1>2, <1>3 DEF ClusterInv
  <1>7. RequestInv'
    BY <1>1, <1>2, RequestsStay
  <1>8. WorkloadInv'
    BY <1>1, <1>2, <1>3, WorkloadStays
  <1>9. AckInv'
    BY <1>1, <1>2, <1>3, AcksStay
  <1>10. ReadInv'
    BY <1>1, <1>2, <1>3, ReadsStay
  <1>11. QED
    BY <1>5, <1>6, <1>7, <1>8, <1>9, <1>10 DEF IndInv

LEMMA CreateClosedStep ==
  ASSUME IndInv, CreateClosed(Producer)
  PROVE  IndInv'
  <1> DEFINE t == Producer
             z == [task[t] EXCEPT !.pc = "create", !.broker = NoBroker, !.cand = Tail(task[t].cand)]
  <1>1. ClusterInv /\ TaskInv /\ RequestInv /\ WorkloadInv /\ AckInv /\ ReadInv
    BY DEF IndInv
  <1>2. /\ task[t].pc = "closed" /\ DropConn(t)
        /\ IF Len(task[t].cand) = 1 THEN Refresh(t, "create")
           ELSE task' = [Goto(t, "create") EXCEPT ![t].cand = Tail(Goto(t, "create")[t].cand)]
        /\ UNCHANGED <<cluster, requests, meta, workload, mishaps>>
    BY DEF CreateClosed
  <1>3. UNCHANGED <<truth, view, up, log>> /\ UNCHANGED <<created, nextId, position, produced, consumed>>
        /\ UNCHANGED <<faults, intact>>
    BY <1>2 DEF cluster, workload, mishaps
  <1>4. task \in [Tasks -> TaskStates] /\ t \in Tasks /\ task[t] \in TaskStates /\ Sound(task[t], up, truth)
    BY <1>1, Basics DEF TaskInv
  <1>5. task[t].cand \in Seq(Brokers) /\ task[t].cand # <<>>
    BY <1>4 DEF TaskStates, Sound
  <1>6. Len(task[t].cand) # 1 => Tail(task[t].cand) \in Seq(Brokers) /\ Tail(task[t].cand) # <<>>
    BY <1>5, Rest
  <1>7. TaskInv'
    <2>1. CASE Len(task[t].cand) = 1
      BY <1>1, <1>2, <1>3, <1>4, <2>1, Refreshing
    <2>2. CASE Len(task[t].cand) # 1
      <3>1. Goto(t, "create") = [task EXCEPT ![t] = [task[t] EXCEPT !.pc = "create", !.broker = NoBroker]]
        BY <1>4 DEF Goto
      <3>2. Goto(t, "create")[t].cand = task[t].cand
        BY <1>4, <3>1 DEF TaskStates
      <3>3. task' = [task EXCEPT ![t] = z]
        BY <1>2, <1>4, <2>2, <3>1, <3>2
      <3>4. "create" \in Places /\ "create" \notin Calls
        BY DEF Places, Calls
      <3>5. z \in TaskStates /\ z.pc = "create" /\ z.cand = Tail(task[t].cand) /\ z.best = task[t].best
        BY <1>4, <1>6, <2>2, <3>4 DEF TaskStates
      <3> HIDE DEF z
      <3>6. Sound(z, up, truth)
        BY <1>4, <1>6, <2>2, <3>4, <3>5 DEF Sound
      <3>7. QED
        BY <1>1, <1>3, <1>4, <3>3, <3>5, <3>6, TaskMoves
    <2>3. QED
      BY <2>1, <2>2
  <1>8. ClusterInv'
    BY <1>1, <1>2, <1>3, <1>4, Dropped DEF ClusterInv
  <1>9. RequestInv'
    BY <1>1, <1>2, <1>3, RequestsStay
  <1>10. WorkloadInv'
    BY <1>1, <1>3, WorkloadStays
  <1>11. AckInv'
    BY <1>1, <1>2, <1>3, AcksStay
  <1>12. ReadInv'
    BY <1>1, <1>3, ReadsStay
  <1>13. QED
    BY <1>7, <1>8, <1>9, <1>10, <1>11, <1>12 DEF IndInv

\* What a fetch's answer appends to the history.
LEMMA Recorded ==
  ASSUME NEW from \in Nat, NEW n \in Nat, n = 0 \/ from + n <= Len(log),
         log \in Seq(Nat), NEW t \in Readers
  PROVE  LET given == [i \in 1 .. n |-> [consumer |-> t, generation |-> 0, partition |-> 0,
                                         offset |-> from + i - 1, id |-> log[from + i]]]
         IN  /\ given \in Seq(Records) /\ Len(given) = n
             /\ \A i \in 1 .. n : given[i].consumer = t /\ given[i].offset = from + i - 1
                                  /\ given[i].id = log[from + i]
  <1> DEFINE rec(i) == [consumer |-> t, generation |-> 0, partition |-> 0,
                        offset |-> from + i - 1, id |-> log[from + i]]
             given == [i \in 1 .. n |-> rec(i)]
  <1>1. ASSUME NEW i \in 1 .. n PROVE from + i - 1 \in Nat /\ log[from + i] \in Nat
    <2>1. Len(log) \in Nat /\ DOMAIN log = 1 .. Len(log)
      OBVIOUS
    <2>2. from + i \in DOMAIN log /\ from + i - 1 \in Nat
      BY <2>1
    <2>3. QED
      BY <2>2, ElementOfSeq
  <1>2. \A i \in 1 .. n : rec(i) \in Records
    BY <1>1 DEF Records
  <1>3. \A i \in 1 .. n : rec(i).consumer = t /\ rec(i).offset = from + i - 1
                         /\ rec(i).id = log[from + i]
    OBVIOUS
  <1> HIDE DEF rec
  <1>4. given \in Seq(Records) /\ Len(given) = n
    BY <1>2
  <1>5. QED
    BY <1>3, <1>4 DEF rec

\* A reader has been given the next n records.
LEMMA ReadOn ==
  ASSUME ReadInv, WorkloadInv, log \in Seq(Nat), intact, intact' = intact, log' = log,
         NEW t \in Readers, NEW n \in Nat, n = 0 \/ position[t] + n <= Len(log),
         position' = [position EXCEPT ![t] = position[t] + n],
         NEW given \in Seq(Records), Len(given) = n, consumed' = consumed \o given,
         \A i \in 1 .. n : /\ given[i].consumer = t /\ given[i].offset = position[t] + i - 1
                           /\ given[i].id = log[position[t] + i]
  PROVE  ReadInv'
  <1>1. /\ consumed \in Seq(Records) /\ Len(consumed) \in Nat /\ DOMAIN consumed = 1 .. Len(consumed)
        /\ position \in [Readers -> Nat] /\ position[t] \in Nat /\ Len(log) \in Nat
    BY DEF WorkloadInv
  <1>2. /\ consumed' \in Seq(Records) /\ Len(consumed') = Len(consumed) + n
        /\ \A i \in 1 .. Len(consumed) : consumed'[i] = consumed[i]
        /\ \A i \in 1 .. n : consumed'[Len(consumed) + i] = given[i]
    <2> DEFINE l == consumed \o given
    <2>1. l \in Seq(Records) /\ Len(l) = Len(consumed) + n
      <3>1. consumed \in Seq(Records) /\ given \in Seq(Records) /\ Len(given) = n
        BY <1>1
      <3>2. Len(l) = Len(consumed) + Len(given) /\ l \in Seq(Records)
        BY ZenonT(40), <3>1, ConcatProperties
      <3>3. QED
        BY <3>1, <3>2
    <2>2. \A i \in 1 .. Len(consumed) + n : l[i] = IF i <= Len(consumed) THEN consumed[i]
                                                   ELSE given[i - Len(consumed)]
      BY <1>1, ConcatProperties
    <2> HIDE DEF l
    <2>3. ASSUME NEW i \in 1 .. Len(consumed) PROVE l[i] = consumed[i]
      <3>1. i \in 1 .. Len(consumed) + n /\ i <= Len(consumed)
        BY <1>1
      <3>2. QED
        BY <2>2, <3>1
    <2>4. ASSUME NEW i \in 1 .. n PROVE l[Len(consumed) + i] = given[i]
      <3>1. Len(consumed) + i \in 1 .. Len(consumed) + n /\ ~ (Len(consumed) + i <= Len(consumed))
            /\ Len(consumed) + i - Len(consumed) = i
        BY <1>1
      <3>2. QED
        BY <2>2, <3>1
    <2>5. QED
      BY <2>1, <2>3, <2>4 DEF l
  <1>3. DOMAIN consumed' = 1 .. Len(consumed) + n
    BY <1>1, <1>2
  <1>4. ASSUME NEW i \in DOMAIN consumed'
        PROVE  \/ i \in DOMAIN consumed /\ consumed'[i] = consumed[i]
               \/ /\ i \notin DOMAIN consumed
                  /\ i - Len(consumed) \in 1 .. n /\ consumed'[i] = given[i - Len(consumed)]
    <2>1. CASE i <= Len(consumed)
      BY <1>1, <1>2, <1>3, <2>1
    <2>2. CASE ~ (i <= Len(consumed))
      <3> DEFINE k == i - Len(consumed)
      <3>1. k \in 1 .. n /\ i = Len(consumed) + k
        BY <1>1, <1>3, <2>2
      <3> HIDE DEF k
      <3>2. consumed'[i] = given[k]
        BY <1>2, <3>1
      <3>3. QED
        BY <1>1, <2>2, <3>1, <3>2 DEF k
    <2>3. QED
      BY <2>1, <2>2
  <1>5. \A i \in DOMAIN consumed : i \in DOMAIN consumed' /\ consumed'[i] = consumed[i]
    BY <1>1, <1>2, <1>3
  <1>6. position' \in [Readers -> Nat] /\ position'[t] = position[t] + n
        /\ \A x \in Readers : x # t => position'[x] = position[x]
    BY <1>1
  <1>7. ASSUME NEW x \in Readers
        PROVE  /\ position'[x] <= Len(log)
               /\ \A o \in 0 .. position'[x] - 1 : \E i \in DOMAIN consumed' :
                     consumed'[i].consumer = x /\ consumed'[i].offset = o
    <2>1. /\ position[x] <= Len(log) /\ position[x] \in Nat
          /\ \A o \in 0 .. position[x] - 1 : \E i \in DOMAIN consumed :
                consumed[i].consumer = x /\ consumed[i].offset = o
      BY <1>1 DEF ReadInv
    <2>2. \A o \in 0 .. position[x] - 1 : \E i \in DOMAIN consumed' :
             consumed'[i].consumer = x /\ consumed'[i].offset = o
      BY <1>5, <2>1
    <2>3. CASE x # t
      BY <1>6, <2>1, <2>2, <2>3
    <2>4. CASE x = t
      <3>1. position'[x] <= Len(log)
        BY <1>1, <1>6, <2>1, <2>4
      <3>2. ASSUME NEW o \in 0 .. position'[x] - 1, o >= position[t]
            PROVE  \E i \in DOMAIN consumed' : consumed'[i].consumer = x /\ consumed'[i].offset = o
        <4> DEFINE k == o - position[t] + 1
        <4>1. position'[x] = position[t] + n /\ o \in 0 .. position'[x] - 1
          BY <1>6, <2>4
        <4>2. k \in 1 .. n /\ o = position[t] + k - 1
          BY SMTT(30), <1>1, <3>2, <4>1
        <4> HIDE DEF k
        <4>3. Len(consumed) + k \in DOMAIN consumed'
          BY <1>1, <1>3, <4>2
        <4>4. consumed'[Len(consumed) + k] = given[k]
          BY <1>2, <4>2
        <4>5. given[k].consumer = t /\ given[k].offset = o
          BY <4>2
        <4>6. QED
          BY <2>4, <4>3, <4>4, <4>5
      <3>3. \A o \in 0 .. position'[x] - 1 : o \in 0 .. position[x] - 1 \/ o >= position[t]
        BY <1>1, <2>4
      <3>4. QED
        BY <2>2, <3>1, <3>2, <3>3
    <2>5. QED
      BY <2>3, <2>4
  <1>8. ASSUME NEW i \in DOMAIN consumed
        PROVE  /\ consumed[i].offset \in Nat /\ consumed[i].consumer \in Readers
               /\ consumed[i].offset < position[consumed[i].consumer]
               /\ consumed[i].id = log[consumed[i].offset + 1]
    <2>1. consumed[i] \in Records
      BY <1>1, ElementOfSeq
    <2>2. QED
      BY <2>1 DEF ReadInv, Records
  <1>9. ASSUME NEW i \in DOMAIN consumed'
        PROVE  /\ consumed'[i].offset < position'[consumed'[i].consumer]
               /\ consumed'[i].id = log[consumed'[i].offset + 1]
    <2>1. CASE i \in DOMAIN consumed /\ consumed'[i] = consumed[i]
      <3>1. position[consumed[i].consumer] <= position'[consumed[i].consumer]
            /\ position[consumed[i].consumer] \in Nat /\ position'[consumed[i].consumer] \in Nat
        BY <1>1, <1>6, <1>8, <2>1
      <3>2. QED
        BY SMTT(30), <1>8, <2>1, <3>1
    <2>2. CASE i - Len(consumed) \in 1 .. n /\ consumed'[i] = given[i - Len(consumed)]
      <3> DEFINE k == i - Len(consumed)
      <3>1. k \in 1 .. n /\ consumed'[i] = given[k]
        BY <2>2
      <3> HIDE DEF k
      <3>2. given[k].consumer = t /\ given[k].offset = position[t] + k - 1
            /\ given[k].id = log[position[t] + k]
        BY <3>1
      <3>3. position[t] + k - 1 < position[t] + n /\ position[t] + k - 1 + 1 = position[t] + k
        BY SMTT(30), <1>1, <3>1
      <3>4. QED
        BY <1>6, <3>1, <3>2, <3>3
    <2>3. QED
      BY <1>4, <2>1, <2>2
  <1>10. ASSUME NEW i \in DOMAIN consumed', NEW j \in DOMAIN consumed', i < j,
                Stream(consumed'[i]) = Stream(consumed'[j])
         PROVE  consumed'[i].offset < consumed'[j].offset
    <2>1. consumed'[i].consumer = consumed'[j].consumer
      BY <1>10 DEF Stream
    <2>2. CASE j \in DOMAIN consumed /\ consumed'[j] = consumed[j]
      <3>1. i \in DOMAIN consumed /\ consumed'[i] = consumed[i]
        BY <1>1, <1>3, <1>5, <1>10, <2>2
      <3>2. QED
        BY <1>10, <2>2, <3>1 DEF ReadInv, Forwards
    <2>3. CASE j - Len(consumed) \in 1 .. n /\ consumed'[j] = given[j - Len(consumed)]
      <3> DEFINE m == j - Len(consumed)
      <3>1. m \in 1 .. n /\ consumed'[j] = given[m] /\ m = j - Len(consumed)
        BY <2>3
      <3> HIDE DEF m
      <3>2. consumed'[j].consumer = t /\ consumed'[j].offset = position[t] + m - 1
        BY <3>1
      <3>3. CASE i \in DOMAIN consumed /\ consumed'[i] = consumed[i]
        <4>1. consumed[i].offset < position[t] /\ consumed[i].offset \in Nat
          BY <1>8, <2>1, <3>2, <3>3
        <4>2. m \in Nat /\ m >= 1 /\ position[t] \in Nat
          BY <1>1, <3>1
        <4>3. position[t] <= position[t] + m - 1
          BY <4>2
        <4>4. consumed[i].offset < position[t] + m - 1
          BY <4>1, <4>2, <4>3
        <4>5. QED
          BY <3>2, <3>3, <4>4
      <3>4. CASE i - Len(consumed) \in 1 .. n /\ consumed'[i] = given[i - Len(consumed)]
        <4> DEFINE k == i - Len(consumed)
        <4>1. k \in 1 .. n /\ consumed'[i] = given[k] /\ k < m
          BY <1>1, <1>3, <1>10, <3>1, <3>4
        <4> HIDE DEF k
        <4>2. consumed'[i].offset = position[t] + k - 1
          BY <4>1
        <4>3. QED
          BY <1>1, <3>1, <3>2, <4>1, <4>2
      <3>5. QED
        BY <1>4, <3>3, <3>4
    <2>4. QED
      BY <1>4, <2>2, <2>3
  <1>11. QED
    BY <1>7, <1>9, <1>10 DEF ReadInv, Forwards

LEMMA FetchAnsweredStep ==
  ASSUME IndInv, NEW t \in Tasks, FetchAnswered(t)
  PROVE  IndInv'
  <1> DEFINE from == position[t]
  <1>1. ClusterInv /\ TaskInv /\ RequestInv /\ WorkloadInv /\ AckInv /\ ReadInv
    BY DEF IndInv
  <1>2. /\ t \in Readers /\ task[t].pc = "call"
        /\ UNCHANGED <<cluster, requests, meta, conns, created, nextId, produced, mishaps>>
    BY DEF FetchAnswered
  <1>3. UNCHANGED <<truth, view, up, log>> /\ UNCHANGED <<faults, intact>>
    BY <1>2 DEF cluster, mishaps
  <1>4. /\ log \in Seq(Nat) /\ Len(log) \in Nat /\ intact \in BOOLEAN
        /\ from \in Nat /\ position \in [Readers -> Nat]
        /\ consumed \in Seq(Records)
    BY <1>1, <1>2 DEF ClusterInv, WorkloadInv
  <1>5. ClusterInv'
    BY <1>1, <1>2, <1>3 DEF ClusterInv
  <1>6. t # Producer
    BY <1>2, Basics
  <1>7. CASE task' = Goto(t, "retry") /\ UNCHANGED <<position, consumed>>
    <2>1. TaskInv'
      BY <1>1, <1>3, <1>7, Leaving
    <2>2. task'[Producer] = task[Producer]
      BY <1>6, <1>7, <1>1, Basics DEF Goto, TaskInv
    <2>3. RequestInv'
      BY <1>1, <1>2, <2>2, RequestsStay
    <2>4. WorkloadInv'
      BY <1>1, <1>2, <1>3, <1>7, WorkloadStays
    <2>5. AckInv'
      BY <1>1, <1>2, <1>3, AcksStay
    <2>6. ReadInv'
      BY <1>1, <1>3, <1>7, ReadsStay
    <2>7. QED
      BY <1>5, <2>1, <2>3, <2>4, <2>5, <2>6 DEF IndInv
  <1>8. ASSUME NEW n \in {0} \cup 1 .. Len(log) - from,
               task' = Goto(t, "route"),
               position' = [position EXCEPT ![t] = NextPosition(position[t], n)],
               consumed' = consumed \o
                   [i \in 1 .. n |-> [consumer |-> t, generation |-> 0, partition |-> 0,
                                      offset |-> from + i - 1, id |-> log[from + i]]]
        PROVE  IndInv'
    <2> DEFINE given == [i \in 1 .. n |-> [consumer |-> t, generation |-> 0, partition |-> 0,
                                           offset |-> from + i - 1, id |-> log[from + i]]]
    <2>1. n \in Nat /\ (n = 0 \/ from + n <= Len(log))
      BY <1>4, <1>8
    <2>2. position' = [position EXCEPT ![t] = from + n]
      BY <1>8 DEF NextPosition
    <2>3. /\ given \in Seq(Records) /\ Len(given) = n
          /\ \A i \in 1 .. n : given[i].consumer = t /\ given[i].offset = from + i - 1
                               /\ given[i].id = log[from + i]
      BY <1>2, <1>4, <2>1, Recorded
    <2>4. consumed' = consumed \o given
      BY <1>8
    <2> HIDE DEF given
    <2>5. TaskInv'
      BY <1>1, <1>3, <1>8, Leaving
    <2>6. task'[Producer] = task[Producer]
      BY <1>6, <1>8, <1>1, Basics DEF Goto, TaskInv
    <2>7. RequestInv'
      BY <1>1, <1>2, <2>6, RequestsStay
    <2>8. WorkloadInv'
      <3>1. position' \in [Readers -> Nat]
        <4>1. from + n \in Nat
          BY <1>4, <2>1
        <4> HIDE DEF from
        <4>2. QED
          BY <1>4, <2>2, <4>1
      <3>2. consumed' \in Seq(Records)
        BY <1>4, <2>3, <2>4, ConcatProperties, Zenon
      <3>3. QED
        BY <1>1, <1>2, <1>3, <3>1, <3>2 DEF WorkloadInv
    <2>9. AckInv'
      BY <1>1, <1>2, <1>3, AcksStay
    <2>10. ReadInv'
      <3>1. CASE intact
        BY <1>1, <1>2, <1>3, <1>4, <2>1, <2>2, <2>3, <2>4, <3>1, ReadOn
      <3>2. CASE ~ intact
        BY <1>3, <3>2 DEF ReadInv
      <3>3. QED
        BY <3>1, <3>2
    <2>11. QED
      BY <1>5, <2>5, <2>7, <2>8, <2>9, <2>10 DEF IndInv
  <1>9. \/ task' = Goto(t, "retry") /\ UNCHANGED <<position, consumed>>
        \/ /\ task' = Goto(t, "route")
           /\ \E n \in {0} \cup 1 .. Len(log) - from :
                 /\ position' = [position EXCEPT ![t] = NextPosition(position[t], n)]
                 /\ consumed' = consumed \o
                       [i \in 1 .. n |-> [consumer |-> t, generation |-> 0, partition |-> 0,
                                          offset |-> from + i - 1, id |-> log[from + i]]]
    BY DEF FetchAnswered
  <1>10. QED
    BY <1>7, <1>8, <1>9

LEMMA MisserveStep ==
  ASSUME IndInv, NEW t \in Readers, Misserve(t)
  PROVE  IndInv'
  <1>1. ClusterInv /\ TaskInv /\ RequestInv /\ WorkloadInv /\ AckInv /\ ReadInv
    BY DEF IndInv
  <1>2. /\ task' = Goto(t, "route") /\ Mishap(FALSE)
        /\ UNCHANGED <<cluster, requests, meta, conns, created, nextId, produced>>
    BY DEF Misserve
  <1>3. PICK o \in 0 .. MaxIds, id \in 1 .. MaxIds :
          /\ position' = [position EXCEPT ![t] = NextPosition(o, 1)]
          /\ consumed' = Append(consumed, [consumer |-> t, generation |-> 0, partition |-> 0,
                                           offset |-> o, id |-> id])
    BY DEF Misserve
  <1>4. UNCHANGED <<truth, view, up, log>>
    BY <1>2 DEF cluster
  <1>5. faults' \in Nat /\ intact' \in BOOLEAN /\ ~ intact'
    BY <1>1, <1>2, Mishaps
  <1>6. t \in Tasks /\ t # Producer
    BY Basics DEF Tasks
  <1>7. ClusterInv'
    BY <1>1, <1>2, <1>4, <1>5 DEF ClusterInv
  <1>8. TaskInv'
    BY <1>1, <1>2, <1>4, <1>6, Leaving
  <1>9. task'[Producer] = task[Producer]
    BY <1>1, <1>2, <1>6, Basics DEF Goto, TaskInv
  <1>10. RequestInv'
    BY <1>1, <1>2, <1>9, RequestsStay
  <1>11. WorkloadInv'
    <2>1. MaxIds \in Nat
      BY ClusterClientAssumption
    <2>2. o \in Nat /\ id \in Nat /\ NextPosition(o, 1) \in Nat
      BY <2>1 DEF NextPosition
    <2>3. position' \in [Readers -> Nat]
      BY <1>1, <1>3, <2>2 DEF WorkloadInv
    <2>4. [consumer |-> t, generation |-> 0, partition |-> 0, offset |-> o, id |-> id] \in Records
      BY <2>2 DEF Records
    <2>5. consumed' \in Seq(Records)
      BY <1>1, <1>3, <2>4, AppendProperties DEF WorkloadInv
    <2>6. QED
      BY <1>1, <1>2, <1>4, <2>3, <2>5 DEF WorkloadInv
  <1>12. AckInv' /\ ReadInv'
    BY <1>5 DEF AckInv, ReadInv
  <1>13. QED
    BY <1>7, <1>8, <1>10, <1>11, <1>12 DEF IndInv

------------------------------------------------------------------------------
(* The invariant *)

\* A step that changes nothing.
LEMMA StutterInv ==
  ASSUME IndInv, UNCHANGED vars
  PROVE  IndInv'
  <1>1. ClusterInv /\ TaskInv /\ RequestInv /\ WorkloadInv /\ AckInv /\ ReadInv
    BY DEF IndInv
  <1>2. /\ UNCHANGED <<truth, view, up, log>> /\ UNCHANGED <<created, nextId, position, produced, consumed>>
        /\ UNCHANGED <<faults, intact>> /\ UNCHANGED <<requests, meta, conns, task>>
    BY DEF vars, cluster, workload, mishaps
  <1>3. ClusterInv'
    BY <1>1, <1>2 DEF ClusterInv
  <1>4. TaskInv'
    BY <1>1, <1>2, TasksStay
  <1>5. RequestInv'
    BY <1>1, <1>2, RequestsStay
  <1>6. WorkloadInv'
    BY <1>1, <1>2, WorkloadStays
  <1>7. AckInv'
    BY <1>1, <1>2, AcksStay
  <1>8. ReadInv'
    BY <1>1, <1>2, ReadsStay
  <1>9. QED
    BY <1>3, <1>4, <1>5, <1>6, <1>7, <1>8 DEF IndInv

LEMMA NextInv == IndInv /\ [Next]_vars => IndInv'
  <1> SUFFICES ASSUME IndInv, [Next]_vars PROVE IndInv'
    OBVIOUS
  <1>1. CASE UNCHANGED vars
    BY <1>1, StutterInv
  <1>2. CASE ClusterStep
    BY <1>2, ElectStep, LearnStep, BreakStep, CrashStep, RestartStep, AcceptStep, CommitStep,
       AckTimesOutStep, DropStep, LoseStep DEF ClusterStep
  <1>3. CASE ProduceStep
    BY <1>3, ProduceAnsweredStep, CreateAtStep, CreateAnsweredStep, CreateClosedStep,
       RefreshNextStep, AttemptStep, RetryStep, Basics DEF ProduceStep
  <1>4. CASE Produce
    BY <1>4, ProduceStepInv
  <1>5. CASE GiveUp
    BY <1>5, GiveUpStep
  <1>6. CASE Misserved
    BY <1>6, MisserveStep DEF Misserved
  <1>7. CASE \E t \in Readers : ReadStep(t)
    <2>1. \A t \in Readers : t \in Tasks
      BY DEF Tasks
    <2>2. QED
      BY <1>7, <2>1, RefreshNextStep, AttemptStep, RetryStep, FetchAnsweredStep DEF ReadStep
  <1>8. QED
    BY <1>1, <1>2, <1>3, <1>4, <1>5, <1>6, <1>7 DEF Next

\* The inductive invariant: every request and every acknowledged id is bounded by
\* the id in use, an awaited request is the producer's call, and while nothing was
\* lost every acknowledged id is in the log before all larger ones, and every
\* reader has been given a prefix of the log.
THEOREM Invariance == Spec => []IndInv
  <1>1. QED
    BY InitInv, NextInv, PTL DEF Spec

------------------------------------------------------------------------------
(* What the runs check *)

\* Only the call the producer is in has an awaited request, calls are in progress
\* only at brokers that run, nobody holds metadata the controller has not issued,
\* and ids are acknowledged once and in order (produce and refresh_metadata of
\* src/client/cluster.rs).
THEOREM TypeCorrect == Spec => []TypeOK
  <1>1. IndInv => TypeOK
    <2> SUFFICES ASSUME IndInv PROVE TypeOK
      OBVIOUS
    <2>1. ClusterInv /\ TaskInv /\ RequestInv /\ WorkloadInv
      BY DEF IndInv
    <2>2. \A t \in Tasks : task[t].pc = "call" => up[task[t].broker]
      BY <2>1 DEF TaskInv, Sound
    <2>3. \A m \in {meta} \cup {view[b] : b \in Brokers} :
             m.version <= truth.version /\ m.epoch <= truth.epoch
      BY <2>1 DEF ClusterInv, Past
    <2>4. QED
      BY <2>1, <2>2, <2>3 DEF TypeOK, RequestInv, WorkloadInv
  <1>2. QED
    BY <1>1, Invariance, PTL

\* The first place of an id that is in the log.
LEMMA FirstPlace ==
  ASSUME log \in Seq(Nat), NEW id, NEW n \in 0 .. Len(log), Within(id, log, n)
  PROVE  /\ Occurrences(id) # {} /\ First(id) \in Occurrences(id)
         /\ First(id) \in 1 .. n
  <1>1. Len(log) \in Nat /\ DOMAIN log = 1 .. Len(log) /\ n \in Nat
    OBVIOUS
  <1>2. PICK k \in 1 .. n : log[k] = id
    BY DEF Within
  <1>3. k \in Occurrences(id) /\ Occurrences(id) \in SUBSET Nat
    BY <1>1, <1>2 DEF Occurrences
  <1>4. \E i \in Occurrences(id) : \A j \in Occurrences(id) : i <= j
    BY <1>3, LeastNatural
  <1>5. First(id) \in Occurrences(id) /\ \A j \in Occurrences(id) : First(id) <= j
    BY <1>4 DEF First
  <1>6. First(id) \in DOMAIN log /\ First(id) <= k
    BY <1>3, <1>5 DEF Occurrences
  <1>7. First(id) \in 1 .. n
    BY <1>1, <1>2, <1>6
  <1>8. QED
    BY <1>3, <1>5, <1>7

\* An acknowledged batch is in the log, and the order of the acknowledgements is
\* the order of the first occurrences, however often produce tried again and
\* whenever abandoned attempts took effect.
THEOREM AcksKeepOrder == Spec => []AckedInOrder
  <1>1. IndInv => AckedInOrder
    <2> SUFFICES ASSUME IndInv, intact,
                        NEW i \in DOMAIN produced, NEW j \in DOMAIN produced
                 PROVE  /\ Occurrences(produced[i]) # {}
                        /\ i < j => First(produced[i]) < First(produced[j])
      BY DEF AckedInOrder
    <2>1. ClusterInv /\ WorkloadInv /\ AckInv
      BY DEF IndInv
    <2>2. log \in Seq(Nat) /\ Len(log) \in Nat /\ DOMAIN log = 1 .. Len(log)
      BY <2>1 DEF ClusterInv
    <2>3. Within(produced[i], log, Len(log)) /\ Within(produced[j], log, Len(log))
      BY <2>1 DEF AckInv
    <2>4. Len(log) \in 0 .. Len(log)
      BY <2>2
    <2>5. Occurrences(produced[i]) # {}
      BY <2>2, <2>3, <2>4, FirstPlace
    <2>6. ASSUME i < j PROVE First(produced[i]) < First(produced[j])
      <3> DEFINE k == First(produced[j])
      <3>1. k \in Occurrences(produced[j])
        BY <2>2, <2>3, <2>4, FirstPlace
      <3>2. k \in DOMAIN log /\ log[k] = produced[j]
        BY <3>1 DEF Occurrences
      <3> HIDE DEF k
      <3>3. produced[i] < log[k]
        BY <2>1, <2>6, <3>2 DEF WorkloadInv
      <3>4. Within(produced[i], log, k - 1)
        BY <2>1, <3>2, <3>3 DEF AckInv
      <3>5. k - 1 \in 0 .. Len(log) /\ k \in Nat
        BY <2>2, <3>2
      <3>6. First(produced[i]) \in 1 .. k - 1
        BY <2>2, <3>4, <3>5, FirstPlace
      <3>7. First(produced[i]) < k
        BY <3>5, <3>6
      <3>8. QED
        BY <3>7 DEF k
    <2>7. QED
      BY <2>5, <2>6
  <1>2. QED
    BY <1>1, Invariance, PTL

\* What the workload records is a history.
LEMMA Recording ==
  ASSUME WorkloadInv
  PROVE  /\ IsHistory(consumed)
         /\ \A i \in DOMAIN consumed : /\ consumed[i].offset \in Nat
                                       /\ consumed[i].consumer \in Readers
                                       /\ consumed[i].partition = 0
  <1>1. consumed \in Seq(Records)
    BY DEF WorkloadInv
  <1>2. \A i \in DOMAIN consumed : consumed[i] \in Records
    BY <1>1, ElementOfSeq
  <1>3. \A i \in DOMAIN consumed : /\ consumed[i].offset \in Nat
                                   /\ consumed[i].consumer \in Readers
                                   /\ consumed[i].partition = 0
    BY <1>2 DEF Records
  <1>4. QED
    BY <1>1, <1>3, HistoryOf

\* The checker, run on what the readers of a cluster that lost nothing recorded,
\* reports no rewind, no divergence and no gap at any time, and no missing id once
\* a reader is at the end of the log (verify_from_start of src/checker/mod.rs on
\* the reader loop of src/torture/schedule.rs).
THEOREM CheckerIsFair == Spec => []NoFalseAlarm
  <1>1. IndInv => NoFalseAlarm
    <2> SUFFICES ASSUME IndInv, intact
                 PROVE  /\ MonotonicityViolations(consumed) = {}
                        /\ DivergentOffsets(consumed) = {} /\ OffsetGaps(consumed) = {}
                        /\ (\E t \in Readers : position[t] = Len(log)) =>
                              MissingIds(produced, consumed) = {}
      BY DEF NoFalseAlarm
    <2>1. ClusterInv /\ WorkloadInv /\ AckInv /\ ReadInv
      BY DEF IndInv
    <2>2. /\ IsHistory(consumed)
          /\ \A i \in DOMAIN consumed : /\ consumed[i].offset \in Nat
                                        /\ consumed[i].consumer \in Readers
                                        /\ consumed[i].partition = 0
      BY <2>1, Recording
    <2>3. /\ log \in Seq(Nat) /\ Len(log) \in Nat /\ DOMAIN log = 1 .. Len(log)
          /\ \A t \in Readers : position[t] \in Nat
      BY <2>1 DEF ClusterInv, WorkloadInv
    <2>4. MonotonicityViolations(consumed) = {}
      BY <2>1, <2>2, MonotonicityPass DEF ReadInv
    <2>5. DivergentOffsets(consumed) = {}
      <3>1. Agreeing(consumed)
        BY <2>1 DEF Agreeing, Slot, ReadInv
      <3>2. QED
        BY <2>2, <3>1, DivergencePass
    <2>6. OffsetGaps(consumed) = {}
      <3>1. ASSUME NEW i \in DOMAIN consumed, NEW o \in 0 .. consumed[i].offset
            PROVE  \E j \in DOMAIN consumed :
                      consumed[j].partition = consumed[i].partition /\ consumed[j].offset = o
        <4> DEFINE t == consumed[i].consumer
        <4>1. t \in Readers /\ consumed[i].offset \in Nat /\ consumed[i].offset < position[t]
              /\ position[t] \in Nat
          BY <2>1, <2>2, <2>3 DEF ReadInv
        <4>2. o \in 0 .. position[t] - 1
          BY <4>1
        <4>3. PICK j \in DOMAIN consumed : consumed[j].offset = o
          BY <2>1, <4>1, <4>2 DEF ReadInv
        <4>4. QED
          BY <2>2, <4>3
      <3>2. QED
        BY <2>2, <3>1, NoGapBelow
    <2>7. ASSUME NEW t \in Readers, position[t] = Len(log) PROVE MissingIds(produced, consumed) = {}
      <3> SUFFICES ASSUME NEW i \in DOMAIN produced
                   PROVE  \E j \in DOMAIN consumed : consumed[j].id = produced[i]
        BY DEF MissingIds, Ids
      <3>1. PICK k \in 1 .. Len(log) : log[k] = produced[i]
        BY <2>1 DEF AckInv, Within
      <3>2. k - 1 \in 0 .. position[t] - 1 /\ k - 1 + 1 = k
        BY <2>3, <2>7
      <3>3. PICK j \in DOMAIN consumed : consumed[j].offset = k - 1
        BY <2>1, <3>2 DEF ReadInv
      <3>4. consumed[j].id = log[k]
        BY <2>1, <3>2, <3>3 DEF ReadInv
      <3>5. QED
        BY <3>1, <3>4
    <2>8. QED
      BY <2>4, <2>5, <2>6, <2>7
  <1>2. QED
    BY <1>1, Invariance, PTL

\* Whatever the cluster did, loss and misplaced records included, the checker
\* answers OK if and only if one log explains what the readers recorded and holds
\* every acknowledged id.
THEOREM VerdictsAreRight == Spec => []VerdictIsOneLog
  <1>1. IndInv => VerdictIsOneLog
    BY Recording, CheckerDecides DEF IndInv, VerdictIsOneLog
  <1>2. QED
    BY <1>1, Invariance, PTL

====================
