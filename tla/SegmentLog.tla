------------------------------ MODULE SegmentLog ------------------------------
(***************************************************************************)
(* One partition's log on disk: src/storage/log.rs, segment.rs, index.rs   *)
(* and record.rs.                                                          *)
(*                                                                         *)
(* A log file is a sequence of cells.  A record takes as many cells as its *)
(* size: a head, then bodies; decoding one needs all of them.  The value   *)
(* of a record is the number of the append that made it.  An operation is  *)
(* the list of the file operations it makes, in order: completing it makes *)
(* all of them, a crash inside it the first few.  A killed process leaves  *)
(* what it wrote; after a power loss a log file ends anywhere at or after  *)
(* its last fsync, and index files, which are never fsynced, anywhere.     *)
(* Creating and removing files is taken to be durable and ordered.         *)
(***************************************************************************)
EXTENDS Integers, SequencesExt

CONSTANTS Sizes,           \* encoded sizes of records, in cells
          MaxSegment,      \* max_segment_bytes, in cells
          IndexInterval,   \* index_interval_bytes, in cells
          MaxDirty,        \* FsyncPolicy::Batch's max_bytes, in cells
          MaxAppends,      \* bound on appends
          MaxCrashes       \* bound on crashes

ASSUME SizesAssumption == Sizes \subseteq Nat \ {0}

ASSUME LimitsAssumption ==
    /\ MaxSegment \in Nat \ {0} /\ IndexInterval \in Nat \ {0} /\ MaxDirty \in Nat
    /\ MaxAppends \in Nat /\ MaxCrashes \in Nat

VARIABLES logs,      \* base offset -> the .log file: its cells, how many are fsynced
          idx,       \* base offset -> the .index file: <<relative offset, position>>s
          mem,       \* the open Log, or Closed
          request,   \* the call being served
          count,     \* appends so far
          held,      \* history: what the files hold (Held)
          faults     \* history: crashes, and how many interrupted removals

vars == <<logs, idx, mem, request, count, held, faults>>

NoRequest == [op |-> "none"]
Closed == [up |-> FALSE]

------------------------------------------------------------------------------
(* Records and files *)

HeadCell(o, v, s) == [offset |-> o, val |-> v, size |-> s]
Body == [offset |-> -1, val |-> 0, size |-> 0]

\* Record::encode
Encode(o, v, s) == <<HeadCell(o, v, s)>> \o [i \in 1 .. s - 1 |-> Body]

\* Record::decode at position p: a head with all its bodies behind it.
Decodes(cells, p) ==
    /\ p \in DOMAIN cells
    /\ cells[p].size > 0
    /\ p + cells[p].size - 1 <= Len(cells)
    /\ \A i \in p + 1 .. p + cells[p].size - 1 : cells[i] = Body

\* The records decoded one after the other from position p.
Scan(cells, p) ==
    LET from[q \in Nat] ==
            IF Decodes(cells, q) THEN <<cells[q]>> \o from[q + cells[q].size] ELSE <<>>
    IN  from[p]

\* The cells that the first n records take.
CellsOf(records, n) ==
    LET sum[i \in Nat] == IF i = 0 THEN 0 ELSE sum[i - 1] + records[i].size
    IN  sum[n]

Cells(records) == CellsOf(records, Len(records))

\* Every record continues the one before it.
InOrder(records, first) == \A i \in DOMAIN records : records[i].offset = first + i - 1

\* Mutant of Lookup: an entry past the offset is taken.
MutantLookup(entries, rel) ==
    LET below == {i \in DOMAIN entries : entries[i][1] <= rel + 1}
    IN  IF below = {} THEN 0 ELSE entries[Max(below)][2]

\* SparseIndex::lookup: where to start looking for the relative offset.
Lookup(entries, rel) ==
    LET below == {i \in DOMAIN entries : entries[i][1] <= rel}
    IN  IF below = {} THEN 0 ELSE entries[Max(below)][2]

\* The index that a scan of the records writes: an entry for each record before
\* which at least IndexInterval cells have gone by since the last entry.
BuiltIndex(records) ==
    LET state[i \in Nat] ==
            IF i = 0 THEN [since |-> 0, out |-> <<>>]
            ELSE LET st == state[i - 1]
                     due == st.since >= IndexInterval
                 IN  [since |-> records[i].size + IF due THEN 0 ELSE st.since,
                      out |-> IF due THEN Append(st.out, <<i - 1, CellsOf(records, i - 1)>>)
                              ELSE st.out]
    IN  state[Len(records)]

Bases == DOMAIN logs
Sorted(S) == SetToSortSeq(S, LAMBDA a, b : a < b)

\* What the files hold, record by record, and how many of these records an
\* fsync of their file covers.
Held(files) ==
    LET bases == Sorted(DOMAIN files)
        scans == [b \in DOMAIN files |-> Scan(files[b].cells, 1)]
        records == FlattenSeq([i \in DOMAIN bases |-> scans[bases[i]]])
        covered(b) == {i \in DOMAIN scans[b] : CellsOf(scans[b], i) <= files[b].synced}
    IN  [content |-> [i \in DOMAIN records |-> records[i].val],
         synced |-> MapThenSumSet(LAMBDA b : Cardinality(covered(b)), DOMAIN files)]

------------------------------------------------------------------------------
(* File operations *)

Disk == [logs |-> logs, idx |-> idx]

CreateLog(b) == [do |-> "create_log", base |-> b]
CreateIndex(b) == [do |-> "create_index", base |-> b]
RemoveLog(b) == [do |-> "remove_log", base |-> b]
RemoveIndex(b) == [do |-> "remove_index", base |-> b]
WriteCell(b, c) == [do |-> "write", base |-> b, cell |-> c]
WriteEntry(b, e) == [do |-> "entry", base |-> b, entry |-> e]
Sync(b) == [do |-> "sync", base |-> b]
SetLen(b, n) == [do |-> "set_len", base |-> b, len |-> n]

With(f, b, v) == (b :> v) @@ f
Without(f, b) == [x \in DOMAIN f \ {b} |-> f[x]]
Prefix(s, n) == SubSeq(s, 1, n)

Do(d, op) ==
    LET b == op.base IN
    CASE op.do = "create_log" -> [d EXCEPT !.logs = With(@, b, [cells |-> <<>>, synced |-> 0])]
      [] op.do = "create_index" -> [d EXCEPT !.idx = With(@, b, <<>>)]
      [] op.do = "remove_log" -> [d EXCEPT !.logs = Without(@, b)]
      [] op.do = "remove_index" -> [d EXCEPT !.idx = Without(@, b)]
      [] op.do = "write" -> [d EXCEPT !.logs[b].cells = Append(@, op.cell)]
      [] op.do = "entry" -> [d EXCEPT !.idx[b] = Append(@, op.entry)]
      [] op.do = "sync" -> [d EXCEPT !.logs[b].synced = Len(d.logs[b].cells)]
      [] op.do = "set_len" ->
             [d EXCEPT !.logs[b] = [cells |-> Prefix(@.cells, op.len),
                                    synced |-> Min({@.synced, op.len})]]

\* The disk after the first n operations.
MakeFirst(ops, n) ==
    LET disk[i \in Nat] == IF i = 0 THEN Disk ELSE Do(disk[i - 1], ops[i])
    IN  disk[n]

Make(ops) == MakeFirst(ops, Len(ops))

Becomes(d) == logs' = d.logs /\ idx' = d.idx /\ held' = Held(d.logs)

------------------------------------------------------------------------------
(* append_record, roll, flush *)

\* Mutant of Rolled: the outgoing segment is not fsynced.
MutantRolled(m) == <<CreateLog(m.next), CreateIndex(m.next)>>

\* Log::roll: fsync the outgoing segment, create the next one.
Rolled(m) == <<Sync(m.active), CreateLog(m.next), CreateIndex(m.next)>>

Rolls(m, s) == m.size > 0 /\ m.size + s > MaxSegment

\* Log::flush
Flush(m) == [m EXCEPT !.durable = m.next, !.dirty = 0]

AfterRoll(m, s) ==
    IF Rolls(m, s)
    THEN [Flush(m) EXCEPT !.active = m.next, !.size = 0, !.since = 0]
    ELSE m

\* Segment::append begins with an index entry when one is due.
Indexes(m) == m.since >= IndexInterval

Entered(m) ==
    IF Indexes(m) THEN <<WriteEntry(m.active, <<m.next - m.active, m.size>>)>> ELSE <<>>

\* What precedes the write of a record of size s.
BeforeWrite(m, s) ==
    (IF Rolls(m, s) THEN Rolled(m) ELSE <<>>) \o Entered(AfterRoll(m, s))

Written(m, v, s) ==
    LET cells == Encode(m.next, v, s)
    IN  [i \in DOMAIN cells |-> WriteCell(AfterRoll(m, s).active, cells[i])]

AfterWrite(m, s) ==
    LET r == AfterRoll(m, s)
    IN  [r EXCEPT !.next = @ + 1, !.size = @ + s, !.dirty = @ + s,
                  !.since = s + IF Indexes(r) THEN 0 ELSE @]

\* FsyncPolicy::Batch: enough dirty bytes, or the interval has passed.
Due(m, late) == m.dirty >= MaxDirty \/ late

AppendOps(m, r) ==
    BeforeWrite(m, r.size) \o Written(m, r.val, r.size)
        \o (IF Due(AfterWrite(m, r.size), r.late)
            THEN <<Sync(AfterRoll(m, r.size).active)>> ELSE <<>>)

AfterAppend(m, r) ==
    LET w == AfterWrite(m, r.size) IN IF Due(w, r.late) THEN Flush(w) ELSE w

------------------------------------------------------------------------------
(* truncate_suffix *)

\* The segment that keeps the tail when the log is cut at n.
TargetBase(n) == IF n = Min(Bases) THEN n ELSE Max({b \in Bases : b < n})

Doomed(n) == {b \in Bases : b > TargetBase(n)}

\* Mutant of PositionOf: the record at n is kept.
MutantPositionOf(b, n) ==
    LET start == Lookup(idx[b], n - b)
    IN  start + Cells(SelectSeq(Scan(logs[b].cells, start + 1), LAMBDA r : r.offset <= n))

\* Segment::position_of: the position of offset n in its segment's file, found
\* by scanning from the place the sparse index gives.
PositionOf(b, n) ==
    LET start == Lookup(idx[b], n - b)
        before == SelectSeq(Scan(logs[b].cells, start + 1), LAMBDA r : r.offset < n)
    IN  start + Cells(before)

\* Segment::recover with truncate_torn_tail: cut the torn tail, rebuild the index.
Rebuild(b, cells) ==
    LET records == Scan(cells, 1)
        entries == BuiltIndex(records).out
    IN  <<CreateIndex(b)>> \o [i \in DOMAIN entries |-> WriteEntry(b, entries[i])]
        \o (IF Cells(records) < Len(cells) THEN <<SetLen(b, Cells(records)), Sync(b)>> ELSE <<>>)

\* The segments behind the target go one by one, oldest first, the active last.
RemovalOps(n) ==
    LET gone == Sorted(Doomed(n))
    IN  FlattenSeq([i \in DOMAIN gone |-> <<RemoveLog(gone[i]), RemoveIndex(gone[i])>>])

\* The target is cut at the position of n and reopened as the active segment.
CutOps(n) ==
    LET b == TargetBase(n)
        p == PositionOf(b, n)
    IN  <<SetLen(b, p), Sync(b)>> \o Rebuild(b, Prefix(logs[b].cells, p))

TruncateOps(m, n) == IF n >= m.next THEN <<>> ELSE RemovalOps(n) \o CutOps(n)

\* Mutant of AfterTruncate: the removed segment stays the active one.
MutantAfterTruncate(m, n) ==
    IF n >= m.next THEN m
    ELSE LET b == TargetBase(n)
             records == Scan(Prefix(logs[b].cells, PositionOf(b, n)), 1)
         IN  [m EXCEPT !.next = n, !.size = Cells(records),
                       !.since = BuiltIndex(records).since,
                       !.durable = Min({@, n})]

AfterTruncate(m, n) ==
    IF n >= m.next THEN m
    ELSE LET b == TargetBase(n)
             records == Scan(Prefix(logs[b].cells, PositionOf(b, n)), 1)
         IN  [m EXCEPT !.active = b, !.next = n, !.size = Cells(records),
                       !.since = BuiltIndex(records).since,
                       !.durable = Min({@, n})]

------------------------------------------------------------------------------
(* Serving requests *)

Ops == CASE request.op = "append" -> AppendOps(mem, request)
         [] request.op = "truncate" -> TruncateOps(mem, request.to)
         [] request.op = "flush" -> <<Sync(mem.active)>>
         [] OTHER -> <<>>

AfterRequest ==
    CASE request.op = "append" -> AfterAppend(mem, request)
      [] request.op = "truncate" -> AfterTruncate(mem, request.to)
      [] request.op = "flush" -> Flush(mem)

Idle == mem.up /\ request = NoRequest

AskAppend ==
    /\ Idle /\ count < MaxAppends
    /\ count' = count + 1
    /\ \E s \in Sizes, late \in BOOLEAN :
           request' = [op |-> "append", val |-> count', size |-> s, late |-> late]
    /\ UNCHANGED <<logs, idx, mem, held, faults>>

\* truncate_suffix refuses an offset before the first segment: there is none.
AskTruncate ==
    /\ Idle
    /\ \E n \in 0 .. mem.next - 1 : request' = [op |-> "truncate", to |-> n]
    /\ UNCHANGED <<logs, idx, mem, count, held, faults>>

AskFlush ==
    /\ Idle
    /\ request' = [op |-> "flush"]
    /\ UNCHANGED <<logs, idx, mem, count, held, faults>>

Serve ==
    /\ mem.up /\ request # NoRequest
    /\ Becomes(Make(Ops))
    /\ mem' = AfterRequest
    /\ request' = NoRequest
    /\ UNCHANGED <<count, faults>>

\* The removals among the first k operations leave a hole in the log: some but
\* not all of the segments to be removed are gone.
LeavesHole(ops, k) ==
    LET removals == {i \in DOMAIN ops : ops[i].do = "remove_log"}
    IN  /\ \E i \in removals : i <= k
        /\ \E i \in removals : i > k

\* A power loss leaves of disk d: of the newest log file any part that contains
\* what was fsynced, of an older one no more than that, of one index file any
\* part, or a malformed rest, which loads like a missing file.
LosesPower(d) ==
    LET newest == Max(DOMAIN d.logs)
        kept(b, n) == [d.logs[b] EXCEPT !.cells = Prefix(@, IF b = newest THEN n ELSE d.logs[b].synced)]
    IN  \E n \in d.logs[newest].synced .. Len(d.logs[newest].cells), torn \in DOMAIN d.idx :
            LET files == [b \in DOMAIN d.logs |-> kept(b, n)]
            IN  \/ Becomes([logs |-> files, idx |-> Without(d.idx, torn)])
                \/ \E k \in 0 .. Len(d.idx[torn]) :
                       Becomes([logs |-> files, idx |-> [d.idx EXCEPT ![torn] = Prefix(@, k)]])

\* The process stops after the first k file operations of the call it serves:
\* it is killed, or the machine loses power.
Crash ==
    /\ mem.up
    /\ faults.crashes < MaxCrashes
    /\ \E k \in 0 .. Len(Ops) :
           /\ LET d == MakeFirst(Ops, k) IN
              Becomes(d) \/ LosesPower(d)
           /\ faults' = [faults EXCEPT !.crashes = @ + 1,
                                       !.holes = @ + IF LeavesHole(Ops, k) THEN 1 ELSE 0]
    /\ mem' = Closed
    /\ request' = NoRequest
    /\ UNCHANGED count

------------------------------------------------------------------------------
(* Log::open *)

\* Where Segment::recover starts to scan a segment that is not the last one.
ScanStart(b) ==
    IF b \in DOMAIN idx /\ idx[b] # <<>> THEN idx[b][Len(idx[b])] ELSE <<0, 0>>

\* A segment that is not the last one must decode to its end.
Intact(b) ==
    LET records == Scan(logs[b].cells, ScanStart(b)[2] + 1)
    IN  /\ ScanStart(b)[2] + Cells(records) = Len(logs[b].cells)
        /\ InOrder(records, b + ScanStart(b)[1])

SegmentEnd(b) == b + ScanStart(b)[1] + Len(Scan(logs[b].cells, ScanStart(b)[2] + 1))

\* Log::open succeeds.
Opens ==
    /\ \A b \in Bases \ {Max(Bases)} :
           /\ Intact(b)
           /\ SegmentEnd(b) = Min({c \in Bases : c > b})
    /\ InOrder(Scan(logs[Max(Bases)].cells, 1), Max(Bases))

\* A segment whose index is gone gets a new one.
ReindexOps(b) ==
    LET entries == BuiltIndex(Scan(logs[b].cells, 1)).out
    IN  <<CreateIndex(b)>> \o [i \in DOMAIN entries |-> WriteEntry(b, entries[i])]

OpenOps ==
    LET lost == Sorted({b \in Bases \ {Max(Bases)} : b \notin DOMAIN idx})
    IN  FlattenSeq([i \in DOMAIN lost |-> ReindexOps(lost[i])])
        \o Rebuild(Max(Bases), logs[Max(Bases)].cells)

Open ==
    /\ ~mem.up /\ Opens
    /\ Becomes(Make(OpenOps))
    /\ LET b == Max(Bases)
           records == Scan(logs[b].cells, 1)
           end == b + Len(records)
       IN  mem' = [up |-> TRUE, active |-> b, next |-> end, size |-> Cells(records),
                   since |-> BuiltIndex(records).since, durable |-> end, dirty |-> 0]
    /\ UNCHANGED <<request, count, faults>>

Init ==
    /\ logs = (0 :> [cells |-> <<>>, synced |-> 0])
    /\ idx = (0 :> <<>>)
    /\ mem = [up |-> TRUE, active |-> 0, next |-> 0, size |-> 0, since |-> 0,
              durable |-> 0, dirty |-> 0]
    /\ request = NoRequest
    /\ count = 0
    /\ held = Held(logs)
    /\ faults = [crashes |-> 0, holes |-> 0]

Next ==
    \/ AskAppend \/ AskTruncate \/ AskFlush
    \/ Serve
    \/ Crash \/ Open

Spec == Init /\ [][Next]_vars

------------------------------------------------------------------------------
(* Reading *)

\* Log::read picks the segment of offset o, Segment::read_from starts where the
\* index points, skips to o, and takes records while they fit: at least one.
ReadFrom(o, maxCells) ==
    LET b == Max({c \in Bases : c <= o})
        size == IF b = mem.active THEN mem.size ELSE Len(logs[b].cells)
        found == SelectSeq(Scan(Prefix(logs[b].cells, size), Lookup(idx[b], o - b) + 1),
                           LAMBDA r : r.offset >= o)
        fits == {n \in DOMAIN found : n = 1 \/ CellsOf(found, n) <= maxCells}
    IN  Prefix(found, Max(fits \cup {0}))

------------------------------------------------------------------------------
(* Properties *)

Undamaged == faults.holes = 0

\* Types of the state: every file is named by a base offset, and the active
\* segment of an open log is its newest file.
TypeOK ==
    /\ Bases \subseteq 0 .. MaxAppends /\ Bases # {}
    /\ \A b \in Bases : logs[b].synced \in 0 .. Len(logs[b].cells)
    /\ \A b \in DOMAIN idx : \A i \in DOMAIN idx[b] : idx[b][i] \in Nat \X Nat
    /\ mem.up \in BOOLEAN
    /\ mem.up => /\ mem.active = Max(Bases)
                 /\ {mem.next, mem.size, mem.since, mem.durable, mem.dirty} \subseteq Nat
    /\ count \in 0 .. MaxAppends

\* A read of any offset through the sparse index returns the records that are
\* there, from that offset on: no append, roll, cut or recovery leaves an index
\* that leads past them or into the middle of one (read_from, lookup).
ReadsBack ==
    mem.up /\ Undamaged =>
        \A o \in 0 .. mem.next - 1 : \A most \in 1 .. MaxSegment :
            LET got == ReadFrom(o, most)
            IN  /\ got # <<>>
                /\ \A i \in DOMAIN got :
                       /\ got[i].offset = o + i - 1
                       /\ got[i].val = held.content[o + i]

\* After any crash the files form a log that opens, unless a truncation was
\* stopped between two removals: Log::open's layout and corruption errors do not
\* hit a log that was merely killed, or lost power, anywhere else.
Reopens == ~mem.up /\ Undamaged => Opens

\* SPEC.md: a broker killed mid-write recovers by truncating a torn tail.
KilledLogReopens == ~mem.up => Opens

\* The segmented log is a durable log: appends add one record at the end, cuts
\* remove exactly the suffix, and no crash loses a record that was fsynced,
\* through rolls, recovery and truncation (Log as the partition thread uses it).
DL == INSTANCE DurableLog WITH
          Values <- 1 .. MaxAppends,
          content <- held.content,
          synced <- held.synced,
          damaged <- ~Undamaged

ImplementsDurableLog == DL!Spec

====================
