--------------------------- MODULE EpochCheckpoint ---------------------------
(***************************************************************************)
(* The leader-epoch checkpoint of one replica (src/storage/epoch.rs): an   *)
(* append-only list of entries "epoch e starts at offset s", consulted by  *)
(* a rejoining follower to find where its history left the leader's.       *)
(* Pure operators; an entry is a record and a checkpoint a sequence.       *)
(***************************************************************************)
EXTENDS Integers, Sequences, FiniteSetsExt

Entry(e, s) == [epoch |-> e, start |-> s]

Last(es) == es[Len(es)]

\* EpochCheckpoint::current_epoch
CurrentEpoch(es) == IF es = <<>> THEN 0 ELSE Last(es).epoch

\* EpochCheckpoint::append refuses an entry that does not follow the last one.
Continues(es, e, s) == es = <<>> \/ (e > Last(es).epoch /\ s >= Last(es).start)

\* Mutant of RecordEpoch: the start is not compared with the last one.
MutantRecordEpoch(es, e, s) ==
    IF e > CurrentEpoch(es) THEN Append(es, Entry(e, s)) ELSE es

\* Cmd::RecordEpoch of the partition thread: a stale epoch is skipped, a
\* refused append is only logged.
RecordEpoch(es, e, s) ==
    IF e > CurrentEpoch(es) /\ Continues(es, e, s) THEN Append(es, Entry(e, s)) ELSE es

\* Mutant of EndOffsetFor: the start of the last later epoch.
MutantEndOffsetFor(es, e, logEnd) ==
    LET later == {i \in DOMAIN es : es[i].epoch > e}
    IN  IF es = <<>> \/ 1 \in later THEN 0
        ELSE IF later = {} THEN logEnd
        ELSE es[Max(later)].start

\* EpochCheckpoint::end_offset_for on a log that ends at logEnd: the start of
\* the first later epoch, logEnd when there is none, and 0 when the epoch
\* predates everything known here.
EndOffsetFor(es, e, logEnd) ==
    LET later == {i \in DOMAIN es : es[i].epoch > e}
    IN  IF es = <<>> \/ 1 \in later THEN 0
        ELSE IF later = {} THEN logEnd
        ELSE es[Min(later)].start

\* EpochCheckpoint::truncate_to keeps the entries before the first one that
\* starts at or past the new end of the log.
TruncateTo(es, newNext) ==
    LET obsolete == {i \in DOMAIN es : es[i].start >= newNext}
    IN  IF obsolete = {} THEN es ELSE SubSeq(es, 1, Min(obsolete) - 1)

====================
