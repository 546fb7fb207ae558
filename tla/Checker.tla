-------------------------------- MODULE Checker --------------------------------
(***************************************************************************)
(* The offline checker (src/checker/mod.rs): what History::verify and      *)
(* verify_from_start report about a recorded history, and the condition    *)
(* they are meant to decide.  A history is the sequence of acknowledged    *)
(* ids and the sequence of consumed records [consumer, generation,         *)
(* partition, offset, id]; one topic.                                      *)
(***************************************************************************)
EXTENDS Integers, Sequences, FiniteSets

------------------------------------------------------------------------------
(* verify, in the passes the code makes *)

Ids(consumed) == {consumed[i].id : i \in DOMAIN consumed}

\* Acknowledged and never consumed.
MissingIds(produced, consumed) == {produced[i] : i \in DOMAIN produced} \ Ids(consumed)

\* Deliveries beyond the first of each id.
DuplicateDeliveries(consumed) == Len(consumed) - Cardinality(Ids(consumed))

Stream(c) == <<c.consumer, c.generation, c.partition>>
Slot(c) == <<c.partition, c.offset>>

\* last_seen when the pass reaches record i: the latest record of the same stream.
LastSeen(consumed, i) ==
    LET before == {j \in 1 .. i - 1 : Stream(consumed[j]) = Stream(consumed[i])}
    IN  {j \in before : \A k \in before : k <= j}

\* Mutant of MonotonicityViolations: reading an offset again is not noticed.
MutantMonotonicityViolations(consumed) ==
    {i \in DOMAIN consumed :
        \E j \in LastSeen(consumed, i) : consumed[i].offset < consumed[j].offset}

MonotonicityViolations(consumed) ==
    {i \in DOMAIN consumed :
        \E j \in LastSeen(consumed, i) : consumed[i].offset <= consumed[j].offset}

\* offset_ids when the pass reaches record i: the first record seen at its offset; one
\* that disagrees is reported and not remembered.
FirstAt(consumed, i) ==
    LET same == {j \in 1 .. i - 1 : Slot(consumed[j]) = Slot(consumed[i])}
    IN  {j \in same : \A k \in same : j <= k}

DivergentOffsets(consumed) ==
    {i \in DOMAIN consumed :
        \E j \in FirstAt(consumed, i) : consumed[i].id # consumed[j].id}

\* Mutant of OffsetGaps: the hole is looked for below the number of offsets read only.
MutantOffsetGaps(consumed) ==
    LET Seen(p) == {consumed[i].offset : i \in {j \in DOMAIN consumed : consumed[j].partition = p}}
    IN  {p \in {consumed[i].partition : i \in DOMAIN consumed} :
            \E o \in 0 .. Cardinality(Seen(p)) - 2 : o \notin Seen(p)}

\* verify_from_start: partitions in which fewer offsets were consumed than lie at or
\* below the highest.
OffsetGaps(consumed) ==
    LET Seen(p) == {consumed[i].offset : i \in {j \in DOMAIN consumed : consumed[j].partition = p}}
    IN  {p \in {consumed[i].partition : i \in DOMAIN consumed} :
            \E max \in Seen(p) : /\ \A o \in Seen(p) : o <= max
                                 /\ Cardinality(Seen(p)) # max + 1}

\* Report.is_ok on what verify_from_start returns.
IsOk(produced, consumed) ==
    /\ MissingIds(produced, consumed) = {}
    /\ MonotonicityViolations(consumed) = {}
    /\ DivergentOffsets(consumed) = {}
    /\ OffsetGaps(consumed) = {}

------------------------------------------------------------------------------
(* What an OK stands for *)

\* There is one log per partition, read from its start, that explains every record any
\* reader saw; each reader went through it forwards; it holds every acknowledged id.
OneLog(produced, consumed) ==
    /\ \A p \in {consumed[i].partition : i \in DOMAIN consumed} :
          LET mine == {consumed[i] : i \in {j \in DOMAIN consumed : consumed[j].partition = p}}
          IN  \E n \in 1 .. Len(consumed) : \E log \in [0 .. n - 1 -> {c.id : c \in mine}] :
                 /\ \A c \in mine : c.offset < n /\ log[c.offset] = c.id
                 /\ \A o \in 0 .. n - 1 : \E c \in mine : c.offset = o
    /\ \A i, j \in DOMAIN consumed :
          i < j /\ Stream(consumed[i]) = Stream(consumed[j]) =>
              consumed[i].offset < consumed[j].offset
    /\ \A i \in DOMAIN produced : \E j \in DOMAIN consumed : consumed[j].id = produced[i]
====================
