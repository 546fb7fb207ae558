--------------------------- MODULE Committed_proofs ---------------------------
(***************************************************************************)
(* Proofs about Replication, concluded: what was acknowledged, and what    *)
(* the leader lets consumers read, is on every ISR member.                 *)
(***************************************************************************)
EXTENDS Replication_proofs

------------------------------------------------------------------------------
(* The inductive invariant about what was committed *)

\* What m has counts for what was committed at epoch e: m is in the ISR, or leads
\* (or is about to) and is taken for the leader of e or of a later epoch.
Keeper(m, e) ==
    \/ m \in meta.isr
    \/ \E a, w \in Nat : IsReign(m, a) /\ IsView(m, w) /\ e <= w

\* Broker m will not follow the leader of an epoch before e any more, unless it has
\* restarted and asks the controller first.
Learned(m, e) ==
    /\ rep[m].epoch = 0 \/ e <= rep[m].epoch
    /\ rt[m].call = "metadata" => e <= rt[m].meta.leader_epoch

\* Broker m will not follow the leader of epoch e any more.
Gone(m, e) ==
    /\ e < meta.leader_epoch /\ rep[m].epoch # e
    /\ rt[m].call = "metadata" => rt[m].meta.leader_epoch # e

\* The first n records of s are in the log of m, and stay there.
Keeps(m, s, n) == n <= KeptLen(m) /\ Shares(s, n, log[m])

\* Once the controller's leader has begun its reign, n records of an earlier epoch
\* are what it inherited.
Inherits(n, e) ==
    /\ meta.leader \in Brokers /\ e < meta.leader_epoch
    /\ CurrentEpoch(epochs[meta.leader]) = meta.leader_epoch
    => n <= ReignStart(meta.leader)

\* The first n records of s were committed at epoch e.
Backed(s, n, e) ==
    /\ e <= meta.leader_epoch
    /\ Inherits(n, e)
    /\ \A m \in Brokers : Keeper(m, e) => Learned(m, e) /\ Keeps(m, s, n)

Leads(z, e) == rep[z].is_leader /\ rep[z].epoch = e

\* The leader z of epoch e has isr for its ISR, or will have it once it handles the
\* answer under way.
HasIsr(z, e, isr) ==
    \/ Leads(z, e) /\ isr = rep[z].isr
    \/ /\ rt[z].call = "metadata" /\ rt[z].meta.leader = z
       /\ e = rt[z].meta.leader_epoch /\ isr = rt[z].meta.isr
    \/ /\ rt[z].call = "altered" /\ rt[z].ok /\ rt[z].epoch = e
       /\ Leads(z, e) /\ isr = rt[z].isr

\* The controller's leader is in the ISR.
LeadInv == meta.leader \in Brokers => meta.leader \in meta.isr

\* Only leaders have producers waiting for the mark, for records of theirs.
PendInv ==
    \A b \in Brokers : \A a \in rep[b].pending_all : rep[b].is_leader /\ Holds(b, a)

\* A checkpoint has the epochs its broker has learned of, and that of its reign.
FileInv ==
    \A b \in Brokers :
        /\ \A i \in DOMAIN epochs[b], k \in Nat :
              k = epochs[b][i].epoch => k <= meta.leader_epoch /\ Learned(b, k)
        /\ rep[b].is_leader => 0 < rep[b].epoch /\ rep[b].epoch <= CurrentEpoch(epochs[b])

\* What a leader knows a follower has is in the follower's log as long as the
\* follower follows it.
Matched(z, m, n, e) ==
    /\ n <= LogEnd(z)
    /\ 0 < n => Learned(m, e)
    /\ ~ Gone(m, e) => Keeps(m, log[z], n)

MatchInv ==
    \A z, m \in Brokers, n, e \in Nat :
        Leads(z, e) /\ n = rep[z].match_offsets[m] => Matched(z, m, n, e)

\* The ISR of a leader covers those that count and still follow it.  If one that
\* counts is missing, one in the ISR has gone: the mark cannot pass it.
CoverInv ==
    \A z \in Brokers, e \in Nat, isr \in SUBSET Brokers : HasIsr(z, e, isr) =>
        /\ \A m \in Brokers : Keeper(m, e) /\ ~ Gone(m, e) => m \in isr \cup {z}
        /\ \/ \A m \in Brokers : Keeper(m, e) => m \in isr \cup {z}
           \/ \E c \in isr \ {z} : Gone(c, e)

\* What a leader may still commit without those that have gone, they have as well.
GoneInv ==
    \A z \in Brokers, e \in Nat, isr \in SUBSET Brokers, n \in Nat \ {0} :
        /\ HasIsr(z, e, isr) /\ Leads(z, e) /\ n <= LogEnd(z)
        /\ \A f \in isr \ {z} : Gone(f, e) => n <= rep[z].match_offsets[f]
        => /\ Inherits(n, e)
           /\ \A m \in Brokers : Keeper(m, e) /\ Gone(m, e) =>
                 Learned(m, e) /\ Keeps(m, log[z], n)

\* What any mark covers is committed, at the present epoch only by its leader.
MarkInv ==
    \A g \in Brokers : \E s \in Seq(Ids), e \in Nat :
        /\ e <= rep[g].epoch /\ Backed(s, rep[g].hwm, e)
        /\ e < meta.leader_epoch \/ meta.leader \in {g, NoLeader}

\* What was acknowledged is committed.
AckedInv ==
    \A a \in acked : \E s \in Seq(Ids), e \in Nat :
        Backed(s, a[1] + 1, e) /\ s[a[1] + 1] = a[2]

LeadersInv == LeadInv /\ PendInv /\ FileInv /\ MatchInv /\ CoverInv /\ GoneInv

CommittedInv == LeadersInv /\ MarkInv /\ AckedInv

------------------------------------------------------------------------------
(* Types *)

\* The records and sets a leader's state is made of.
LEMMA LeaderTypes ==
  ASSUME IndInv, NEW b \in Brokers
  PROVE  /\ rep[b].isr \in SUBSET Brokers /\ rep[b].hwm \in Nat
         /\ rep[b].match_offsets \in [Brokers -> Nat]
         /\ \A f \in Brokers : rep[b].match_offsets[f] \in Nat
         /\ \A a \in rep[b].pending_all : a \in Pairs /\ a[1] \in Nat
         /\ rt[b].call = "metadata" => rt[b].meta.isr \in SUBSET Brokers /\ 0 < rt[b].meta.leader_epoch
         /\ rt[b].call = "altered" => rt[b].isr \in SUBSET Brokers /\ rt[b].epoch \in Nat
         /\ epochs[b] \in Seq(CheckpointEntry)
         /\ \A i \in DOMAIN epochs[b] : epochs[b][i].epoch \in Nat /\ epochs[b][i].start \in Nat
  <1>1. rep[b] \in Replica /\ rt[b] \in Call
    BY ReplicaType
  <1>2. rep[b].isr \in SUBSET Brokers /\ rep[b].hwm \in Nat /\ rep[b].match_offsets \in [Brokers -> Nat]
    BY <1>1, BoundsAssumption DEF Replica
  <1>3. \A a \in rep[b].pending_all : a \in Pairs /\ a[1] \in Nat
    BY <1>1, BoundsAssumption DEF Replica, Pairs
  <1>4. rt[b].call = "metadata" => rt[b].meta \in Tuple
    BY <1>1 DEF Call, Idle
  <1>5. rt[b].call = "metadata" => rt[b].meta.isr \in SUBSET Brokers /\ 0 < rt[b].meta.leader_epoch
    BY <1>4 DEF Tuple, PartitionState, Epochs
  <1>6. rt[b].call = "altered" => rt[b].isr \in SUBSET Brokers /\ rt[b].epoch \in Nat
    BY <1>1, BoundsAssumption DEF Call, Idle
  <1>7. epochs[b] \in Seq(CheckpointEntry)
    BY DEF IndInv, TypeInv
  <1>8. \A i \in DOMAIN epochs[b] : epochs[b][i].epoch \in Nat /\ epochs[b][i].start \in Nat
    <2>1. \A i \in DOMAIN epochs[b] : epochs[b][i] \in CheckpointEntry
      BY <1>7
    <2>2. QED
      BY <2>1 DEF CheckpointEntry, Epochs
  <1>9. QED
    BY <1>2, <1>3, <1>5, <1>6, <1>7, <1>8

\* Where a checkpoint ends.
LEMMA CheckpointTypes ==
  ASSUME IndInv, NEW b \in Brokers
  PROVE  /\ CurrentEpoch(epochs[b]) \in Nat /\ ReignStart(b) \in Nat /\ ReignStart(b) <= LogEnd(b)
         /\ CurrentEpoch(epochs[b]) # 0 =>
               \E i \in DOMAIN epochs[b] : /\ CurrentEpoch(epochs[b]) = epochs[b][i].epoch
                                          /\ ReignStart(b) = epochs[b][i].start
  <1>1. PICK es \in Seq(CheckpointEntry) : es = epochs[b]
    BY LeaderTypes
  <1>2. \A i \in DOMAIN es : es[i].epoch \in Nat /\ es[i].start \in Nat
    BY <1>1, LeaderTypes
  <1>3. es = <<>> \/ Len(es) \in DOMAIN es
    BY <1>1
  <1>4. \A i \in DOMAIN es : es[i].start <= LogEnd(b)
    BY <1>1 DEF IndInv, StartInv
  <1>5. LogEnd(b) \in Nat
    BY LogTypes
  <1>6. CASE es = <<>>
    BY <1>1, <1>5, <1>6 DEF CurrentEpoch, ReignStart
  <1>7. CASE es # <<>>
    <2>1. CurrentEpoch(es) = es[Len(es)].epoch /\ ReignStart(b) = es[Len(es)].start
      BY <1>1, <1>7 DEF CurrentEpoch, ReignStart, Last
    <2>2. QED
      BY <1>1, <1>2, <1>3, <1>4, <1>7, <2>1
  <1>8. QED
    BY <1>6, <1>7

\* What FileInv says of the last entry.
LEMMA FileEnds ==
  ASSUME IndInv, ControlInv, FileInv, NEW b \in Brokers
  PROVE  /\ CurrentEpoch(epochs[b]) <= meta.leader_epoch
         /\ Learned(b, CurrentEpoch(epochs[b]))
         /\ Leads(b, meta.leader_epoch) => CurrentEpoch(epochs[b]) = meta.leader_epoch
  <1>1. PICK k \in Nat : k = CurrentEpoch(epochs[b])
    BY CheckpointTypes
  <1>2. meta.leader_epoch \in Nat /\ rep[b].epoch \in Nat
    BY EpochTypes
  <1>3. CASE k = 0
    <2>1. Learned(b, 0)
      BY <1>2, EpochTypes DEF Learned
    <2>2. rep[b].is_leader => 0 < rep[b].epoch /\ rep[b].epoch <= k
      BY <1>1 DEF FileInv
    <2>3. ~ rep[b].is_leader
      BY <1>2, <1>3, <2>2
    <2>4. QED
      BY <1>1, <1>2, <1>3, <2>1, <2>3 DEF Leads
  <1>4. CASE k # 0
    <2>1. PICK i \in DOMAIN epochs[b] : k = epochs[b][i].epoch
      BY <1>1, <1>4, CheckpointTypes
    <2>2. k <= meta.leader_epoch /\ Learned(b, k)
      BY <2>1 DEF FileInv
    <2>3. rep[b].is_leader => rep[b].epoch <= k
      BY <1>1 DEF FileInv
    <2>4. QED
      BY <1>1, <1>2, <2>2, <2>3 DEF Leads
  <1>5. QED
    BY <1>3, <1>4

\* The same in one formula, for the state after a step.
TypeFacts ==
    /\ meta.leader_epoch \in Nat /\ meta.leader \in Brokers \cup {NoLeader}
    /\ meta.isr \in SUBSET Brokers
    /\ \A b \in Brokers :
        /\ rep[b].epoch \in Nat /\ rep[b].isr \in SUBSET Brokers /\ rep[b].hwm \in Nat
        /\ \A f \in Brokers : rep[b].match_offsets[f] \in Nat
        /\ log[b] \in Seq(Ids) /\ LogEnd(b) = Len(log[b]) /\ LogEnd(b) \in Nat
        /\ KeptLen(b) \in Nat /\ KeptLen(b) <= LogEnd(b)
        /\ rt[b].call = "metadata" => /\ rt[b].meta.leader_epoch \in Nat
                                      /\ 0 < rt[b].meta.leader_epoch
                                      /\ rt[b].meta.isr \in SUBSET Brokers
        /\ CurrentEpoch(epochs[b]) \in Nat /\ ReignStart(b) \in Nat

LEMMA TypeFactsHold == IndInv => TypeFacts
  <1> SUFFICES ASSUME IndInv PROVE TypeFacts
    OBVIOUS
  <1>1. /\ meta.leader_epoch \in Nat /\ meta.leader \in Brokers \cup {NoLeader}
        /\ meta.isr \in SUBSET Brokers
    BY EpochTypes
  <1>2. ASSUME NEW b \in Brokers
        PROVE  /\ rep[b].epoch \in Nat /\ rep[b].isr \in SUBSET Brokers /\ rep[b].hwm \in Nat
               /\ \A f \in Brokers : rep[b].match_offsets[f] \in Nat
               /\ log[b] \in Seq(Ids) /\ LogEnd(b) = Len(log[b]) /\ LogEnd(b) \in Nat
               /\ KeptLen(b) \in Nat /\ KeptLen(b) <= LogEnd(b)
               /\ rt[b].call = "metadata" => /\ rt[b].meta.leader_epoch \in Nat
                                             /\ 0 < rt[b].meta.leader_epoch
                                             /\ rt[b].meta.isr \in SUBSET Brokers
               /\ CurrentEpoch(epochs[b]) \in Nat /\ ReignStart(b) \in Nat
    BY EpochTypes, LeaderTypes, LogTypes, CheckpointTypes
  <1>3. QED
    BY <1>1, <1>2 DEF TypeFacts

LEMMA TypeFactsNext == IndInv' => TypeFacts'
  BY TypeFactsHold, PTL

\* And what FileInv says of the last entries.
FileFacts ==
    \A b \in Brokers, k \in Nat : k = CurrentEpoch(epochs[b]) =>
        /\ k <= meta.leader_epoch /\ Learned(b, k)
        /\ Leads(b, meta.leader_epoch) => k = meta.leader_epoch

LEMMA FileFactsHold == IndInv /\ ControlInv /\ FileInv => FileFacts
  BY FileEnds DEF FileFacts

LEMMA FileFactsNext == IndInv' /\ ControlInv' /\ FileInv' => FileFacts'
  BY FileFactsHold, PTL

------------------------------------------------------------------------------
(* What the invariant says of a state *)

\* A leader counts for its epoch, has learned of it and keeps its log.
LEMMA LeaderCounts ==
  ASSUME IndInv, EpochInv, NEW z \in Brokers, rep[z].is_leader
  PROVE  /\ \A e \in Nat : e <= rep[z].epoch => Keeper(z, e)
         /\ Learned(z, rep[z].epoch) /\ ~ Gone(z, rep[z].epoch)
         /\ KeptLen(z) = LogEnd(z) /\ rep[z].fetcher.phase \in Ended
  <1>1. PICK a \in Nat : a = rep[z].epoch
    BY EpochTypes
  <1>2. IsReign(z, a) /\ IsView(z, a)
    BY <1>1 DEF IsReign, IsView
  <1>3. \A e \in Nat : e <= rep[z].epoch => Keeper(z, e)
    BY <1>1, <1>2 DEF Keeper
  <1>4. Learned(z, rep[z].epoch) /\ ~ Gone(z, rep[z].epoch)
    BY <1>1 DEF Learned, Gone, EpochInv
  <1>5. rep[z].fetcher.phase \in Ended
    BY DEF IndInv, LeaderInv
  <1>6. KeptLen(z) = LogEnd(z)
    BY <1>5 DEF KeptLen, Ended
  <1>7. QED
    BY <1>3, <1>4, <1>5, <1>6

\* A leader's log has its own records.
LEMMA KeepsOwn ==
  ASSUME IndInv, EpochInv, NEW z \in Brokers, rep[z].is_leader, NEW n \in Nat, n <= LogEnd(z)
  PROVE  Keeps(z, log[z], n)
  BY LeaderCounts, LogTypes DEF Keeps, Shares

\* Only z is held for the leader of its epoch.
LEMMA SameLeader ==
  ASSUME IndInv, ControlInv, NEW z \in Brokers, NEW e \in Nat, NEW isr, HasIsr(z, e, isr),
         NEW l \in Brokers, IsView(l, e)
  PROVE  l = z
  <1>1. IsView(z, e)
    BY DEF HasIsr, Leads, IsView
  <1>2. QED
    BY <1>1 DEF ControlInv, OneLeader

\* When nobody in the ISR of a leader has gone, nobody that counts has, and the
\* controller's leader has not begun a later reign.
LEMMA NobodyGone ==
  ASSUME IndInv, ControlInv, LeadInv, FileInv, CoverInv,
         NEW z \in Brokers, NEW e \in Nat, NEW isr \in SUBSET Brokers,
         HasIsr(z, e, isr), Leads(z, e), \A f \in isr \ {z} : ~ Gone(f, e)
  PROVE  /\ \A m \in Brokers : Keeper(m, e) => ~ Gone(m, e)
         /\ \A n \in Nat : Inherits(n, e)
  <1>1. ASSUME NEW m \in Brokers, Keeper(m, e) PROVE ~ Gone(m, e)
    <2>1. m \in isr \cup {z}
      BY <1>1 DEF CoverInv
    <2>2. ~ Gone(z, e)
      BY DEF Gone, Leads
    <2>3. QED
      BY <2>1, <2>2
  <1>2. ASSUME meta.leader \in Brokers, e < meta.leader_epoch,
               CurrentEpoch(epochs[meta.leader]) = meta.leader_epoch
        PROVE  FALSE
    <2>1. PICK b \in Brokers, w \in Nat : b = meta.leader /\ w = meta.leader_epoch
      BY <1>2, EpochTypes
    <2>2. Keeper(b, e)
      BY <2>1 DEF Keeper, LeadInv
    <2>3. ~ Gone(b, e)
      BY <1>1, <2>2
    <2>4. Learned(b, w)
      BY <1>2, <2>1, FileEnds
    <2>5. rep[b].epoch \in Nat /\ (rt[b].call = "metadata" => rt[b].meta.leader_epoch \in Nat)
      BY EpochTypes
    <2>6. 0 < e
      BY DEF Leads, FileInv
    <2>7. rep[b].epoch # e /\ (rt[b].call = "metadata" => rt[b].meta.leader_epoch # e)
      BY <1>2, <2>1, <2>4, <2>5, <2>6 DEF Learned
    <2>8. QED
      BY <1>2, <2>3, <2>7 DEF Gone
  <1>3. QED
    BY <1>1, <1>2 DEF Inherits

\* What a leader may commit by its ISR's match offsets is committed.
LEMMA MarkBacked ==
  ASSUME IndInv, ControlInv, LeadersInv, NEW z \in Brokers, rep[z].is_leader,
         NEW n \in Nat \ {0}, n <= LogEnd(z),
         \A f \in rep[z].isr \ {z} : n <= rep[z].match_offsets[f]
  PROVE  Backed(log[z], n, rep[z].epoch)
  <1>1. PICK e \in Nat, isr \in SUBSET Brokers : e = rep[z].epoch /\ isr = rep[z].isr
    BY EpochTypes, LeaderTypes
  <1>2. HasIsr(z, e, isr) /\ Leads(z, e)
    BY <1>1 DEF HasIsr, Leads
  <1>3. /\ Inherits(n, e)
        /\ \A m \in Brokers : Keeper(m, e) /\ Gone(m, e) => Learned(m, e) /\ Keeps(m, log[z], n)
    BY <1>1, <1>2 DEF LeadersInv, GoneInv
  <1>4. ASSUME NEW m \in Brokers, Keeper(m, e), ~ Gone(m, e)
        PROVE  Learned(m, e) /\ Keeps(m, log[z], n)
    <2>1. m \in isr \cup {z}
      BY <1>2, <1>4 DEF LeadersInv, CoverInv
    <2>2. CASE m = z
      BY <1>1, <2>2, LeaderCounts, KeepsOwn DEF ControlInv
    <2>3. CASE m \in isr \ {z}
      <3>1. PICK k \in Nat : k = rep[z].match_offsets[m]
        BY LeaderTypes
      <3>2. n <= k
        BY <1>1, <2>3, <3>1
      <3>3. Learned(m, e) /\ Keeps(m, log[z], k)
        BY <1>2, <1>4, <3>1, <3>2 DEF LeadersInv, MatchInv, Matched
      <3>4. KeptLen(m) \in Nat
        BY LogTypes
      <3>5. Keeps(m, log[z], n)
        <4>1. k <= KeptLen(m) /\ k <= Len(log[m]) /\ \A i \in 1 .. k : log[m][i] = log[z][i]
          BY <3>3 DEF Keeps, Shares
        <4>2. Len(log[m]) \in Nat
          BY LogTypes
        <4>3. n <= KeptLen(m) /\ n <= Len(log[m]) /\ \A i \in 1 .. n : log[m][i] = log[z][i]
          BY <3>1, <3>2, <3>4, <4>1, <4>2
        <4>4. QED
          BY <4>3 DEF Keeps, Shares
      <3>6. QED
        BY <3>3, <3>5
    <2>4. QED
      BY <2>1, <2>2, <2>3
  <1>5. e <= meta.leader_epoch
    BY <1>1 DEF ControlInv, EpochInv
  <1>6. QED
    BY <1>1, <1>3, <1>4, <1>5 DEF Backed

------------------------------------------------------------------------------
(* What follows for acknowledged and readable records *)

\* Two broker logs that keep the same committed records have them in common.
LEMMA KeepsShare ==
  ASSUME IndInv, NEW a \in Brokers, NEW b \in Brokers, NEW s, NEW n \in Nat,
         Keeps(a, s, n), Keeps(b, s, n)
  PROVE  /\ Shares(log[a], n, log[b]) /\ n <= LogEnd(a)
         /\ IsPrefixOf(SubSeq(log[a], 1, n), log[b])
  <1>1. log[a] \in Seq(Ids) /\ log[b] \in Seq(Ids) /\ LogEnd(a) = Len(log[a])
    BY LogTypes
  <1>2. /\ n <= Len(log[a]) /\ \A i \in 1 .. n : log[a][i] = s[i]
        /\ n <= Len(log[b]) /\ \A i \in 1 .. n : log[b][i] = s[i]
    BY DEF Keeps, Shares
  <1> DEFINE p == SubSeq(log[a], 1, n)
  <1>3. p \in Seq(Ids) /\ Len(p) = n /\ \A i \in 1 .. n : p[i] = log[a][i]
    BY <1>1, <1>2
  <1> HIDE DEF p
  <1>4. Shares(p, Len(p), log[b])
    BY <1>2, <1>3 DEF Shares
  <1>5. IsPrefixOf(p, log[b])
    BY <1>1, <1>3, <1>4, SharedPrefix
  <1>6. QED
    BY <1>1, <1>2, <1>5 DEF Shares, p

\* A broker that counts for what was committed has what was acknowledged.
LEMMA HoldsAcked ==
  ASSUME IndInv, AckedInv, NEW m \in Brokers, NEW a \in acked,
         \A e \in Nat : e <= meta.leader_epoch => Keeper(m, e)
  PROVE  Holds(m, a)
  <1>1. PICK s \in Seq(Ids), e \in Nat : Backed(s, a[1] + 1, e) /\ s[a[1] + 1] = a[2]
    BY DEF AckedInv
  <1>2. a[1] \in Nat
    BY DEF IndInv, TypeInv, Pairs
  <1>3. Keeps(m, s, a[1] + 1)
    BY <1>1 DEF Backed
  <1>4. a[1] + 1 <= Len(log[m]) /\ log[m][a[1] + 1] = s[a[1] + 1]
    BY <1>2, <1>3 DEF Keeps, Shares
  <1>5. QED
    BY <1>1, <1>2, <1>4, LogTypes DEF Holds

LEMMA AckedOnIsr == IndInv /\ AckedInv => \A m \in meta.isr, a \in acked : Holds(m, a)
  <1> SUFFICES ASSUME IndInv, AckedInv, NEW m \in meta.isr, NEW a \in acked PROVE Holds(m, a)
    OBVIOUS
  <1>1. m \in Brokers
    BY EpochTypes
  <1>2. QED
    BY <1>1, HoldsAcked DEF Keeper

LEMMA AckedAtLeader == IndInv /\ ControlInv /\ AckedInv => AckedSurvives
  <1> SUFFICES ASSUME IndInv, ControlInv, AckedInv, NEW b \in Brokers, rep[b].is_leader,
                      rep[b].epoch = meta.leader_epoch, NEW a \in acked
               PROVE  Holds(b, a)
    BY DEF AckedSurvives
  <1>1. QED
    BY HoldsAcked, LeaderCounts DEF ControlInv

\* Whatever a mark covers is the same on every ISR member.
LEMMA MarkOnIsr ==
  ASSUME IndInv, ControlInv, MarkInv, NEW b \in Brokers, rep[b].is_leader, NEW m \in meta.isr
  PROVE  IsPrefixOf(SubSeq(log[b], 1, rep[b].hwm), log[m])
  <1>1. PICK n \in Nat : n = rep[b].hwm
    BY LeaderTypes
  <1>2. PICK s \in Seq(Ids), e \in Nat : e <= rep[b].epoch /\ Backed(s, n, e)
    BY <1>1 DEF MarkInv
  <1>3. m \in Brokers
    BY EpochTypes
  <1>4. Keeper(b, e) /\ Keeper(m, e)
    BY <1>2, LeaderCounts DEF ControlInv, Keeper
  <1>5. Keeps(b, s, n) /\ Keeps(m, s, n)
    BY <1>2, <1>3, <1>4 DEF Backed
  <1>6. QED
    BY <1>1, <1>3, <1>5, KeepsShare

------------------------------------------------------------------------------
(* What a step may do to the brokers' roles *)

\* Broker c keeps its role; an answer under way to it has what the controller has,
\* or was under way before.
Stays(c) ==
    /\ rep'[c].epoch = rep[c].epoch /\ rep'[c].is_leader = rep[c].is_leader
    /\ rt'[c].call = "metadata" => rt'[c] = rt[c] \/ rt'[c].meta = meta

\* Broker c handles the tuple m, from the controller or the answer under way.
Applies(c, m) ==
    /\ IF rt[c].call = "metadata" THEN m = rt[c].meta ELSE m = meta
    /\ rt'[c].call # "metadata"
    /\ rep'[c].epoch = m.leader_epoch /\ rep'[c].is_leader = (m.leader = c)

Restarts(c) == rep'[c].epoch = 0 /\ ~ rep'[c].is_leader /\ rt'[c].call # "metadata"

Role(c) == Stays(c) \/ Restarts(c) \/ \E m \in Tuple : Applies(c, m)

\* A fetcher that lives after the step did before, or is of the tuple just handled.
Fetches(c) ==
    rep'[c].fetcher.phase \notin Ended =>
        \/ /\ rep[c].fetcher.phase \notin Ended
           /\ rep'[c].fetcher.leader = rep[c].fetcher.leader
           /\ rep'[c].fetcher.epoch = rep[c].fetcher.epoch
        \/ \E m \in Tuple : /\ Applies(c, m)
                           /\ rep'[c].fetcher.leader = m.leader
                           /\ rep'[c].fetcher.epoch = m.leader_epoch

\* Roles change as they may, and the controller elects from the ISR only.
Turn ==
    /\ \A c \in Brokers : Role(c) /\ Fetches(c)
    /\ meta'.leader \in Brokers => meta'.leader \in meta.isr
    /\ meta.leader_epoch <= meta'.leader_epoch
    /\ \/ meta'.leader = meta.leader /\ meta'.leader_epoch = meta.leader_epoch
       \/ meta'.leader = NoLeader
       \/ meta'.leader_epoch = meta.leader_epoch + 1 /\ epochs' = epochs

LEMMA LearnedKept ==
  ASSUME IndInv, EpochInv, NEW c \in Brokers, Role(c), NEW e \in Nat, e <= meta.leader_epoch, Learned(c, e)
  PROVE  Learned(c, e)'
  <1>1. CASE Stays(c)
    BY <1>1 DEF Stays, Learned
  <1>2. CASE Restarts(c)
    BY <1>2 DEF Restarts, Learned
  <1>3. ASSUME NEW m \in Tuple, Applies(c, m) PROVE Learned(c, e)'
    <2>1. e <= m.leader_epoch
      BY <1>3 DEF Applies, Learned
    <2>2. QED
      BY <1>3, <2>1 DEF Applies, Learned
  <1>4. QED
    BY <1>1, <1>2, <1>3 DEF Role

LEMMA GoneKept ==
  ASSUME IndInv, EpochInv, Turn, NEW c \in Brokers, NEW e \in Nat \ {0}, Gone(c, e),
         meta'.leader_epoch \in Nat
  PROVE  Gone(c, e)'
  <1>1. meta.leader_epoch \in Nat /\ e < meta.leader_epoch /\ e < meta'.leader_epoch
    BY EpochTypes DEF Turn, Gone
  <1>2. CASE Stays(c)
    BY <1>1, <1>2 DEF Stays, Gone
  <1>3. CASE Restarts(c)
    BY <1>1, <1>3 DEF Restarts, Gone
  <1>4. ASSUME NEW m \in Tuple, Applies(c, m) PROVE Gone(c, e)'
    <2>1. m.leader_epoch # e
      BY <1>1, <1>4 DEF Applies, Gone
    <2>2. QED
      BY <1>1, <1>4, <2>1 DEF Applies, Gone
  <1>5. QED
    BY <1>2, <1>3, <1>4 DEF Role, Turn

\* Nobody comes to count but who is let into the ISR.
LEMMA KeepersKept ==
  ASSUME IndInv, LeadInv, Turn, NEW m \in Brokers, NEW e \in Nat, Keeper(m, e)'
  PROVE  Keeper(m, e) \/ m \in meta'.isr \ meta.isr
  <1>1. CASE m \in meta'.isr
    BY <1>1 DEF Keeper
  <1>2. CASE m \in meta.isr
    BY <1>2 DEF Keeper
  <1>3. CASE m \notin meta.isr /\ m \notin meta'.isr
    <2>1. m # meta.leader /\ m # meta'.leader
      BY <1>3 DEF LeadInv, Turn
    <2>2. PICK a \in Nat, w \in Nat : IsReign(m, a)' /\ IsView(m, w)' /\ e <= w
      BY <1>3 DEF Keeper
    <2>3. Role(m)
      BY DEF Turn
    <2>4. IsReign(m, a)
      <3>1. CASE rep'[m].is_leader /\ a = rep'[m].epoch
        <4>1. CASE Stays(m)
          BY <3>1, <4>1 DEF Stays, IsReign
        <4>2. ASSUME NEW t \in Tuple, Applies(m, t) PROVE IsReign(m, a)
          BY <2>1, <3>1, <4>2 DEF Applies, IsReign
        <4>3. QED
          BY <2>3, <3>1, <4>1, <4>2 DEF Role, Restarts
      <3>2. CASE rt'[m].call = "metadata" /\ rt'[m].meta.leader = m /\ a = rt'[m].meta.leader_epoch
        <4>1. Stays(m)
          BY <2>3, <3>2 DEF Role, Restarts, Applies
        <4>2. QED
          BY <2>1, <3>2, <4>1 DEF Stays, IsReign
      <3>3. QED
        BY <2>2, <3>1, <3>2 DEF IsReign
    <2>5. ASSUME NEW c \in Brokers, NEW t \in Tuple, Applies(c, t), t.leader = m, t.leader_epoch = w
          PROVE  IsView(m, w)
      BY <2>1, <2>5 DEF Applies, IsView
    <2>6. IsView(m, w)
      <3>1. CASE \E c \in Brokers : /\ rt'[c].call = "metadata"
                                   /\ m = rt'[c].meta.leader /\ w = rt'[c].meta.leader_epoch
        <4>1. PICK c \in Brokers : /\ rt'[c].call = "metadata"
                                  /\ m = rt'[c].meta.leader /\ w = rt'[c].meta.leader_epoch
          BY <3>1
        <4>2. Stays(c)
          BY <4>1 DEF Turn, Role, Restarts, Applies
        <4>3. QED
          BY <2>1, <4>1, <4>2 DEF Stays, IsView
      <3>2. CASE rep'[m].is_leader /\ w = rep'[m].epoch
        <4>1. CASE Stays(m)
          BY <3>2, <4>1 DEF Stays, IsView
        <4>2. ASSUME NEW t \in Tuple, Applies(m, t) PROVE IsView(m, w)
          <5>1. t.leader = m /\ t.leader_epoch = w
            BY <3>2, <4>2 DEF Applies
          <5>2. QED
            BY <2>5, <4>2, <5>1
        <4>3. QED
          BY <2>3, <3>2, <4>1, <4>2 DEF Role, Restarts
      <3>3. CASE \E c \in Brokers : /\ rep'[c].fetcher.phase \notin Ended
                                   /\ m = rep'[c].fetcher.leader /\ w = rep'[c].fetcher.epoch
        <4>1. PICK c \in Brokers : /\ rep'[c].fetcher.phase \notin Ended
                                  /\ m = rep'[c].fetcher.leader /\ w = rep'[c].fetcher.epoch
          BY <3>3
        <4>2. Fetches(c)
          BY DEF Turn
        <4>3. CASE /\ rep[c].fetcher.phase \notin Ended
                   /\ rep'[c].fetcher.leader = rep[c].fetcher.leader
                   /\ rep'[c].fetcher.epoch = rep[c].fetcher.epoch
          BY <4>1, <4>3 DEF IsView
        <4>4. QED
          BY <2>5, <4>1, <4>2, <4>3 DEF Fetches
      <3>4. QED
        BY <2>1, <2>2, <3>1, <3>2, <3>3 DEF IsView
    <2>7. QED
      BY <2>2, <2>4, <2>6 DEF Keeper
  <1>4. QED
    BY <1>1, <1>2, <1>3

------------------------------------------------------------------------------
(* What a step may do to the checkpoints *)

\* A checkpoint takes up its broker's epoch only; that of a leader when its reign
\* begins, where its log ends.
Records(b) ==
    /\ \A i \in DOMAIN epochs'[b] :
          \/ \E j \in DOMAIN epochs[b] : epochs'[b][i].epoch = epochs[b][j].epoch
          \/ epochs'[b][i].epoch = rep'[b].epoch
    /\ rep'[b].is_leader =>
          \/ rep[b].is_leader /\ rep'[b].epoch = rep[b].epoch /\ epochs'[b] = epochs[b]
          \/ 0 < rep'[b].epoch /\ rep'[b].epoch <= CurrentEpoch(epochs'[b])
    /\ \/ epochs'[b] = epochs[b]
       \/ ReignStart(b)' = LogEnd(b)'
       \/ 0 < rep'[b].epoch /\ (b = meta'.leader => rep'[b].epoch < meta'.leader_epoch)

LEMMA FileKept ==
  ASSUME IndInv, IndInv', ControlInv, ControlInv', FileInv, Turn, \A b \in Brokers : Records(b)
  PROVE  FileInv'
  <1>1. TypeFacts /\ TypeFacts'
    BY TypeFactsHold, TypeFactsNext
  <1>2. ASSUME NEW b \in Brokers, NEW i \in DOMAIN epochs'[b], NEW k \in Nat, k = epochs'[b][i].epoch
        PROVE  k <= meta'.leader_epoch /\ Learned(b, k)'
    <2>1. CASE \E j \in DOMAIN epochs[b] : k = epochs[b][j].epoch
      <3>1. k <= meta.leader_epoch /\ Learned(b, k)
        BY <2>1 DEF FileInv
      <3>2. Learned(b, k)'
        BY <3>1, LearnedKept DEF Turn, ControlInv
      <3>3. k <= meta'.leader_epoch
        BY <1>1, <3>1 DEF Turn, TypeFacts
      <3>4. QED
        BY <3>2, <3>3
    <2>2. CASE k = rep'[b].epoch
      <3>1. EpochInv'
        BY DEF ControlInv
      <3>2. k <= meta'.leader_epoch /\ (rt'[b].call = "metadata" => k <= rt'[b].meta.leader_epoch)
        BY <2>2, <3>1 DEF EpochInv
      <3>3. Learned(b, k)'
        BY <1>2, <2>2, <3>2 DEF Learned
      <3>4. QED
        BY <3>2, <3>3
    <2>3. QED
      BY <1>2, <2>1, <2>2 DEF Records
  <1>3. \A b \in Brokers :
           rep'[b].is_leader => 0 < rep'[b].epoch /\ rep'[b].epoch <= CurrentEpoch(epochs'[b])
    BY DEF Records, FileInv
  <1>4. QED
    BY <1>2, <1>3 DEF FileInv

\* A leader that has begun its reign does not follow anybody any more.
LEMMA BegunGone ==
  ASSUME IndInv, ControlInv, FileInv, NEW e \in Nat \ {0}, NEW b \in Brokers, b = meta.leader,
         e < meta.leader_epoch, CurrentEpoch(epochs[b]) = meta.leader_epoch
  PROVE  Gone(b, e)
  <1>1. PICK w \in Nat : w = meta.leader_epoch
    BY EpochTypes
  <1>2. Learned(b, w)
    BY <1>1, FileEnds
  <1>3. rep[b].epoch \in Nat /\ (rt[b].call = "metadata" => rt[b].meta.leader_epoch \in Nat)
    BY EpochTypes
  <1>4. rep[b].epoch # e /\ (rt[b].call = "metadata" => rt[b].meta.leader_epoch # e)
    BY <1>1, <1>2, <1>3 DEF Learned
  <1>5. QED
    BY <1>4 DEF Gone

\* What was committed before the present reign stays part of what it inherited.
LEMMA InheritsKept ==
  ASSUME IndInv, IndInv', ControlInv, ControlInv', FileInv, FileInv', Turn,
         \A b \in Brokers : Records(b),
         NEW n \in Nat, NEW e \in Nat, Inherits(n, e),
         NEW b \in Brokers, b = meta'.leader, e < meta'.leader_epoch,
         CurrentEpoch(epochs'[b]) = meta'.leader_epoch, n <= LogEnd(b)'
  PROVE  Inherits(n, e)'
  <1>0. TypeFacts /\ TypeFacts'
    BY TypeFactsHold, TypeFactsNext
  <1>1. PICK w \in Nat, u \in Nat : w = meta.leader_epoch /\ u = meta'.leader_epoch
    BY <1>0 DEF TypeFacts
  <1>2. b # NoLeader
    BY NoLeaderAssumption
  <1>3. ASSUME u = w + 1, epochs' = epochs PROVE FALSE
    <2>1. CurrentEpoch(epochs[b]) \in Nat /\ CurrentEpoch(epochs[b]) <= w
      BY <1>1, FileEnds, CheckpointTypes
    <2>2. QED
      BY <1>1, <1>3, <2>1
  <1>4. meta'.leader = meta.leader /\ u = w
    BY <1>1, <1>2, <1>3 DEF Turn
  <1>5. CASE epochs'[b] = epochs[b]
    BY <1>1, <1>4, <1>5 DEF Inherits, ReignStart
  <1>6. CASE ReignStart(b)' = LogEnd(b)'
    BY <1>4, <1>6 DEF Inherits
  <1>7. CASE 0 < rep'[b].epoch /\ rep'[b].epoch < u
    <2>1. Learned(b, u)'
      BY <1>1, FileFactsNext DEF FileFacts
    <2>2. rep'[b].epoch \in Nat
      BY <1>0 DEF TypeFacts
    <2>3. QED
      BY <1>1, <1>7, <2>1, <2>2 DEF Learned
  <1>8. QED
    BY <1>1, <1>5, <1>6, <1>7 DEF Records

------------------------------------------------------------------------------
(* What a step may do to the logs *)

\* The log of c, or what a reconciliation under way leaves of it, only grows.
Grows(c) == KeptLen(c) <= KeptLen(c)' /\ Shares(log[c], KeptLen(c), log'[c])

\* Follower f cuts its log where that of leader l parts from it, or decides to.
Cuts(f, l) ==
    /\ rep[l].is_leader /\ ~ rep[f].is_leader
    /\ rep[f].epoch # 0 /\ IsView(l, rep[f].epoch)
    /\ \A s \in Seq(Ids), n \in Nat :
          Keeps(f, s, n) /\ Shares(s, n, log[l]) /\ CountedOn(f) => Keeps(f, s, n)'
    /\ \A n \in Nat : n = rep[l].match_offsets[f] => Keeps(f, log[l], n)'

Data(c) == Grows(c) \/ \E l \in Brokers : Cuts(c, l)

\* Fewer records are kept as well.
LEMMA KeepsLess ==
  ASSUME TypeFacts, NEW m \in Brokers, NEW s, NEW n \in Nat, NEW k \in Nat, k <= n, Keeps(m, s, n)
  PROVE  Keeps(m, s, k)
  <1>1. KeptLen(m) \in Nat /\ Len(log[m]) \in Nat
    BY DEF TypeFacts
  <1>2. n <= KeptLen(m) /\ n <= Len(log[m]) /\ \A i \in 1 .. n : log[m][i] = s[i]
    BY DEF Keeps, Shares
  <1>3. k <= KeptLen(m) /\ k <= Len(log[m]) /\ \A i \in 1 .. k : log[m][i] = s[i]
    BY <1>1, <1>2
  <1>4. QED
    BY <1>3 DEF Keeps, Shares

LEMMA GrowsKeeps ==
  ASSUME TypeFacts, TypeFacts', NEW c \in Brokers, Grows(c), NEW s, NEW n \in Nat, Keeps(c, s, n)
  PROVE  Keeps(c, s, n)'
  <1>1. PICK k \in Nat, u \in Nat : k = KeptLen(c) /\ u = KeptLen(c)'
    BY DEF TypeFacts
  <1>2. Len(log'[c]) \in Nat
    BY DEF TypeFacts
  <1>3. n <= k /\ \A i \in 1 .. n : log[c][i] = s[i]
    BY <1>1 DEF Keeps, Shares
  <1>4. k <= u /\ k <= Len(log'[c]) /\ \A i \in 1 .. k : log'[c][i] = log[c][i]
    BY <1>1 DEF Grows, Shares
  <1>5. n <= u /\ n <= Len(log'[c]) /\ \A i \in 1 .. n : log'[c][i] = s[i]
    BY <1>1, <1>2, <1>3, <1>4
  <1>6. QED
    BY <1>1, <1>5 DEF Keeps, Shares

\* A follower that counts for an epoch is in the ISR or about to lead, so others
\* count on it, and its leader counts for the epoch as well.
LEMMA CutCounts ==
  ASSUME TypeFacts, NEW f \in Brokers, NEW l \in Brokers, Cuts(f, l), NEW e \in Nat
  PROVE  /\ Keeper(f, e) => CountedOn(f)
         /\ Learned(f, e) => e <= rep[f].epoch /\ Keeper(l, e)
  <1>1. Keeper(f, e) => CountedOn(f)
    BY DEF Cuts, Keeper, IsReign, CountedOn
  <1>2. ASSUME Learned(f, e) PROVE e <= rep[f].epoch /\ Keeper(l, e)
    <2>1. PICK a \in Nat, w \in Nat : a = rep[l].epoch /\ w = rep[f].epoch
      BY DEF TypeFacts
    <2>2. e <= w
      BY <1>2, <2>1 DEF Learned, Cuts
    <2>3. IsReign(l, a) /\ IsView(l, w)
      BY <2>1 DEF Cuts, IsReign
    <2>4. QED
      BY <2>1, <2>2, <2>3 DEF Keeper
  <1>3. QED
    BY <1>1, <1>2

\* What counts for a committed prefix still has it after the step.
LEMMA DataKeeps ==
  ASSUME TypeFacts, TypeFacts', NEW m \in Brokers, Data(m),
         NEW s \in Seq(Ids), NEW n \in Nat, NEW e \in Nat, Backed(s, n, e), Keeper(m, e)
  PROVE  Keeps(m, s, n)'
  <1>1. Learned(m, e) /\ Keeps(m, s, n)
    BY DEF Backed
  <1>2. CASE Grows(m)
    BY <1>1, <1>2, GrowsKeeps
  <1>3. ASSUME NEW l \in Brokers, Cuts(m, l) PROVE Keeps(m, s, n)'
    <2>1. CountedOn(m) /\ Keeper(l, e)
      BY <1>1, <1>3, CutCounts
    <2>2. Shares(s, n, log[l])
      BY <2>1 DEF Backed, Keeps
    <2>3. QED
      BY <1>1, <1>3, <2>1, <2>2 DEF Cuts
  <1>4. QED
    BY <1>2, <1>3 DEF Data

------------------------------------------------------------------------------
(* What a step may do to leaders and the ISR *)

\* Leader z goes on with its reign, and only appends.
SameReign(z) ==
    /\ rep[z].is_leader /\ rep'[z].epoch = rep[z].epoch
    /\ Shares(log[z], LogEnd(z), log'[z])

\* What leader z knows of m stays, or is what m has.
Learns(z, m) ==
    \/ rep'[z].match_offsets[m] = rep[z].match_offsets[m]
    \/ \A n, e \in Nat : n = rep'[z].match_offsets[m] /\ e = rep'[z].epoch =>
          Matched(z, m, n, e)' /\ ~ Gone(m, e)'

LeaderStep(z) ==
    rep'[z].is_leader =>
        \/ SameReign(z) /\ \A m \in Brokers : Learns(z, m)
        \/ \A m \in Brokers : rep'[z].match_offsets[m] = 0

\* A leader takes up the ISR of the controller only.
TakesIsr(z) ==
    \A e \in Nat, isr \in SUBSET Brokers : HasIsr(z, e, isr)' =>
        HasIsr(z, e, isr) \/ (e = meta'.leader_epoch /\ isr = meta'.isr)

\* The controller's leader b lets followers into the ISR that have what it inherited,
\* what it lets consumers read and what was acknowledged.
Readmits(b) ==
    /\ b = meta.leader /\ b = meta'.leader /\ meta'.leader_epoch = meta.leader_epoch
    /\ Leads(b, meta.leader_epoch) /\ rt[b].call # "metadata"
    /\ \A z \in Brokers, e \in Nat, isr \in SUBSET Brokers :
          HasIsr(z, e, isr)' /\ e = meta.leader_epoch => isr = meta'.isr
    /\ \A m \in meta'.isr \ meta.isr :
          /\ rep[m].epoch = meta.leader_epoch
          /\ \A s \in Seq(Ids), n \in Nat :
                /\ Keeps(b, s, n)
                /\ n <= ReignStart(b) \/ n <= rep[b].hwm \/ \E a \in acked : n = a[1] + 1
                => Keeps(m, s, n)'

Admits == meta'.isr \subseteq meta.isr \/ \E b \in Brokers : Readmits(b)

Regular ==
    /\ Turn /\ Admits
    /\ \A c \in Brokers : Records(c) /\ Data(c) /\ LeaderStep(c) /\ TakesIsr(c)

\* What is let into the ISR has learned of all epochs, and the leader that lets it in
\* is no other's follower.
LEMMA Readmitted ==
  ASSUME IndInv, ControlInv, LeadInv, FileInv, Turn, NEW b \in Brokers, Readmits(b),
         meta'.isr \in SUBSET Brokers, NEW m \in meta'.isr \ meta.isr, NEW e \in Nat
  PROVE  /\ e <= meta.leader_epoch => Learned(m, e)'
         /\ e <= meta.leader_epoch => Keeper(b, e)
         /\ CurrentEpoch(epochs[b]) = meta.leader_epoch
         /\ e < meta.leader_epoch => Gone(m, e) /\ Gone(b, e)
  <1>0. TypeFacts
    BY TypeFactsHold
  <1>1. m \in Brokers /\ rep[m].epoch = meta.leader_epoch /\ rep[b].epoch = meta.leader_epoch
    BY DEF Readmits, Leads
  <1>2. rt[m].call = "metadata" => rt[m].meta.leader_epoch \in Nat /\ meta.leader_epoch <= rt[m].meta.leader_epoch
    BY <1>0, <1>1 DEF ControlInv, EpochInv, TypeFacts
  <1>3. meta.leader_epoch \in Nat
    BY <1>0 DEF TypeFacts
  <1>4. ASSUME e <= meta.leader_epoch PROVE Learned(m, e)'
    <2>1. Learned(m, e)
      BY <1>1, <1>2, <1>3, <1>4 DEF Learned
    <2>2. QED
      BY <1>1, <1>4, <2>1, LearnedKept DEF Turn, ControlInv
  <1>5. b \in meta.isr
    BY DEF Readmits, LeadInv
  <1>6. Keeper(b, e)
    BY <1>5 DEF Keeper
  <1>7. CurrentEpoch(epochs[b]) = meta.leader_epoch
    BY FileEnds DEF Readmits
  <1>8. ASSUME e < meta.leader_epoch PROVE Gone(m, e) /\ Gone(b, e)
    BY <1>1, <1>2, <1>3, <1>8 DEF Gone, Readmits
  <1>9. QED
    BY <1>4, <1>6, <1>7, <1>8

------------------------------------------------------------------------------
(* What was committed stays committed *)

\* What was committed stays committed: those that count keep it, and who is let into the
\* ISR has it.
LEMMA BackedKept ==
  ASSUME IndInv, IndInv', ControlInv, ControlInv', LeadInv, LeadInv', FileInv, FileInv', Regular,
         NEW s \in Seq(Ids), NEW n \in Nat, NEW e \in Nat, Backed(s, n, e),
         \A b \in Brokers : Readmits(b) =>
            e < meta.leader_epoch \/ n <= rep[b].hwm \/ \E a \in acked : n = a[1] + 1
  PROVE  Backed(s, n, e)'
  <1>0. TypeFacts /\ TypeFacts'
    BY TypeFactsHold, TypeFactsNext
  <1>1. PICK w \in Nat, u \in Nat : w = meta.leader_epoch /\ u = meta'.leader_epoch
    BY <1>0 DEF TypeFacts
  <1>2. e <= w /\ w <= u
    BY <1>1 DEF Backed, Regular, Turn
  <1>3. ASSUME NEW m \in Brokers, Keeper(m, e) PROVE Learned(m, e)' /\ Keeps(m, s, n)'
    <2>1. Learned(m, e)
      BY <1>3 DEF Backed
    <2>2. Learned(m, e)'
      BY <1>1, <1>2, <2>1, LearnedKept DEF Regular, Turn, ControlInv
    <2>3. Keeps(m, s, n)'
      BY <1>0, <1>3, DataKeeps DEF Regular
    <2>4. QED
      BY <2>2, <2>3
  <1>4. ASSUME NEW m \in meta'.isr \ meta.isr PROVE Learned(m, e)' /\ Keeps(m, s, n)'
    <2>1. PICK b \in Brokers : Readmits(b)
      BY <1>4 DEF Regular, Admits
    <2>2. meta'.isr \in SUBSET Brokers
      BY <1>0 DEF TypeFacts
    <2>3. Learned(m, e)' /\ Keeper(b, e) /\ CurrentEpoch(epochs[b]) = w
      BY <1>1, <1>2, <1>4, <2>1, <2>2, Readmitted DEF Regular
    <2>4. Keeps(b, s, n)
      BY <2>3 DEF Backed
    <2>5. b = meta.leader
      BY <2>1 DEF Readmits
    <2>6. e < w => n <= ReignStart(b)
      BY <1>1, <2>3, <2>5 DEF Backed, Inherits
    <2>7. n <= ReignStart(b) \/ n <= rep[b].hwm \/ \E a \in acked : n = a[1] + 1
      BY <1>1, <2>1, <2>6
    <2>8. Keeps(m, s, n)'
      BY <1>4, <2>1, <2>4, <2>7 DEF Readmits
    <2>9. QED
      BY <2>3, <2>8
  <1>5. ASSUME NEW m \in Brokers, Keeper(m, e)' PROVE Learned(m, e)' /\ Keeps(m, s, n)'
    BY <1>3, <1>4, <1>5, KeepersKept DEF Regular
  <1>6. Inherits(n, e)'
    <2>1. SUFFICES ASSUME NEW b \in Brokers, b = meta'.leader, e < u, CurrentEpoch(epochs'[b]) = u
                   PROVE  Inherits(n, e)'
      BY <1>1 DEF Inherits
    <2>2. b \in meta'.isr
      BY <2>1 DEF LeadInv
    <2>3. Keeper(b, e)'
      BY <2>2 DEF Keeper
    <2>4. Keeps(b, s, n)'
      BY <1>5, <2>3
    <2>5. n <= LogEnd(b)'
      BY <1>0, <2>4 DEF Keeps, TypeFacts
    <2>6. QED
      BY <1>1, <2>1, <2>5, InheritsKept DEF Regular, Backed
  <1>7. QED
    BY <1>1, <1>2, <1>5, <1>6 DEF Backed

\* What a leader knows of the others stays true.
LEMMA MatchKept ==
  ASSUME IndInv, IndInv', ControlInv, ControlInv', FileInv, MatchInv, Regular
  PROVE  MatchInv'
  <1>0. TypeFacts /\ TypeFacts'
    BY TypeFactsHold, TypeFactsNext
  <1> SUFFICES ASSUME NEW z \in Brokers, NEW m \in Brokers, NEW n \in Nat, NEW e \in Nat,
                      Leads(z, e)', n = rep'[z].match_offsets[m]
               PROVE  Matched(z, m, n, e)'
    BY DEF MatchInv
  <1>1. LeaderStep(z) /\ Data(m) /\ rep'[z].is_leader /\ e = rep'[z].epoch
    BY DEF Regular, Leads
  <1>2. CASE n = 0
    <2>0. LogEnd(z)' \in Nat /\ KeptLen(m)' \in Nat /\ Len(log'[m]) \in Nat
      BY <1>0 DEF TypeFacts
    <2>1. n <= LogEnd(z)' /\ n <= KeptLen(m)' /\ n <= Len(log'[m])
      BY <1>2, <2>0
    <2>2. \A s : Shares(s, n, log'[m])
      BY <1>2, <2>1 DEF Shares
    <2>3. Keeps(m, log[z], n)'
      BY <2>1, <2>2 DEF Keeps
    <2>4. QED
      BY <1>2, <2>1, <2>3 DEF Matched
  <1>3. CASE n # 0 /\ n # rep[z].match_offsets[m]
    <2>1. Learns(z, m)
      BY <1>1, <1>3 DEF LeaderStep
    <2>2. QED
      BY <1>1, <1>3, <2>1 DEF Learns
  <1>4. CASE n # 0 /\ n = rep[z].match_offsets[m]
    <2>1. SameReign(z)
      BY <1>1, <1>4 DEF LeaderStep
    <2>2. Leads(z, e)
      BY <1>1, <2>1 DEF SameReign, Leads
    <2>3. n <= LogEnd(z) /\ Learned(m, e) /\ (~ Gone(m, e) => Keeps(m, log[z], n))
      BY <1>0, <1>4, <2>2 DEF MatchInv, Matched
    <2>4. e <= meta.leader_epoch
      BY <2>2 DEF Leads, ControlInv, EpochInv
    <2>5. Learned(m, e)'
      BY <2>3, <2>4, LearnedKept DEF Regular, Turn, ControlInv
    <2>6. PICK s \in Seq(Ids) : s = log[z]
      BY <1>0 DEF TypeFacts
    <2>7. n <= Len(s) /\ Len(s) <= Len(log'[z]) /\ \A i \in 1 .. Len(s) : log'[z][i] = s[i]
      BY <1>0, <2>1, <2>3, <2>6 DEF SameReign, Shares, TypeFacts
    <2>8. LogEnd(z)' = Len(log'[z]) /\ LogEnd(z)' \in Nat
      BY <1>0 DEF TypeFacts
    <2>9. Len(s) \in Nat
      OBVIOUS
    <2>10. n <= LogEnd(z)'
      BY <2>7, <2>8, <2>9
    <2>11. ASSUME ~ Gone(m, e)' PROVE Keeps(m, log[z], n)'
      <3>0. e # 0
        BY <2>2 DEF FileInv, Leads
      <3>1. ~ Gone(m, e)
        BY <1>0, <2>11, <3>0, GoneKept DEF Regular, ControlInv, TypeFacts
      <3>2. Keeps(m, s, n)
        BY <2>3, <2>6, <3>1
      <3>3. CASE Grows(m)
        <4>1. Keeps(m, s, n)'
          BY <1>0, <3>2, <3>3, GrowsKeeps
        <4>2. n <= KeptLen(m)' /\ n <= Len(log'[m]) /\ \A i \in 1 .. n : log'[m][i] = s[i]
          BY <4>1 DEF Keeps, Shares
        <4>3. \A i \in 1 .. n : log'[m][i] = log'[z][i]
          BY <2>7, <4>2
        <4>4. QED
          BY <4>2, <4>3 DEF Keeps, Shares
      <3>4. ASSUME NEW l \in Brokers, Cuts(m, l) PROVE Keeps(m, log[z], n)'
        <4>1. rep[m].epoch \in Nat /\ rep[m].epoch # 0 /\ e <= rep[m].epoch
          BY <1>0, <2>3, <3>4 DEF Learned, Cuts, TypeFacts
        <4>2. /\ rep[m].epoch <= meta.leader_epoch
              /\ rt[m].call = "metadata" => rep[m].epoch <= rt[m].meta.leader_epoch
          BY DEF ControlInv, EpochInv
        <4>3. /\ meta.leader_epoch \in Nat
              /\ rt[m].call = "metadata" => rt[m].meta.leader_epoch \in Nat
          BY <1>0 DEF TypeFacts
        <4>4. ~ (e < meta.leader_epoch) \/ rep[m].epoch = e \/ (rt[m].call = "metadata" /\ rt[m].meta.leader_epoch = e)
          BY <3>1 DEF Gone
        <4>5. rep[m].epoch = e
          BY <4>1, <4>2, <4>3, <4>4
        <4>6. IsView(l, e) /\ IsView(z, e)
          BY <2>2, <3>4, <4>5 DEF Cuts, IsView, Leads
        <4>7. l = z
          BY <4>6 DEF ControlInv, OneLeader
        <4>8. QED
          BY <1>4, <3>4, <4>7 DEF Cuts
      <3>5. QED
        BY <1>1, <3>3, <3>4 DEF Data
    <2>12. QED
      BY <2>5, <2>10, <2>11 DEF Matched
  <1>5. QED
    BY <1>2, <1>3, <1>4

\* Who has an ISR has learned of an epoch, and of none the controller has not reached.
LEMMA IsrEpochs ==
  ASSUME IndInv, ControlInv, FileInv, NEW z \in Brokers, NEW e \in Nat, NEW isr, HasIsr(z, e, isr)
  PROVE  IsView(z, e) /\ e # 0 /\ e <= meta.leader_epoch
  <1>1. IsView(z, e)
    BY DEF HasIsr, Leads, IsView
  <1>2. e # 0
    BY LeaderTypes DEF HasIsr, Leads, FileInv
  <1>3. QED
    BY <1>1, <1>2, ViewEpochs DEF ControlInv

\* No epoch is past the controller's, before and after a step.
EpochBound == \A l \in Brokers, e \in Nat : IsView(l, e) => e <= meta.leader_epoch

LEMMA EpochBoundHolds == IndInv /\ EpochInv => EpochBound
  BY ViewEpochs DEF EpochBound

LEMMA EpochBoundNext == IndInv' /\ EpochInv' => EpochBound'
  BY EpochBoundHolds, PTL

\* The ISR of a leader covers those that still follow it, or somebody in it has gone.
LEMMA CoverKept ==
  ASSUME IndInv, IndInv', ControlInv, ControlInv', LeadInv, FileInv, CoverInv, Regular
  PROVE  CoverInv'
  <1>0. TypeFacts /\ TypeFacts'
    BY TypeFactsHold, TypeFactsNext
  <1> SUFFICES ASSUME NEW z \in Brokers, NEW e \in Nat, NEW isr \in SUBSET Brokers,
                      HasIsr(z, e, isr)'
               PROVE  /\ \A m \in Brokers : Keeper(m, e)' /\ ~ Gone(m, e)' => m \in isr \cup {z}
                      /\ \/ \A m \in Brokers : Keeper(m, e)' => m \in isr \cup {z}
                         \/ \E c \in isr \ {z} : Gone(c, e)'
    BY DEF CoverInv
  <1>1. PICK w \in Nat, u \in Nat : w = meta.leader_epoch /\ u = meta'.leader_epoch
    BY <1>0 DEF TypeFacts
  <1>2. CASE e = u /\ isr = meta'.isr
    <2>1. IsView(z, e)'
      BY DEF HasIsr, Leads, IsView
    <2>2. ASSUME NEW m \in Brokers, Keeper(m, e)' PROVE m \in isr \cup {z}
      <3>1. CASE m \in meta'.isr
        BY <1>2, <3>1
      <3>2. ASSUME NEW v \in Nat, IsView(m, v)', e <= v PROVE m = z
        <4>1. v <= u
          BY <1>1, <3>2, EpochBoundNext DEF ControlInv, EpochBound
        <4>2. v = e
          BY <1>2, <3>2, <4>1
        <4>3. QED
          BY <2>1, <3>2, <4>2 DEF ControlInv, OneLeader
      <3>3. QED
        BY <2>2, <3>1, <3>2 DEF Keeper
    <2>3. QED
      BY <2>2
  <1>3. CASE HasIsr(z, e, isr) /\ ~ (e = u /\ isr = meta'.isr)
    <2>1. IsView(z, e) /\ e # 0 /\ e <= w
      BY <1>1, <1>3, IsrEpochs
    <2>2. \A c \in Brokers : Gone(c, e) => Gone(c, e)'
      BY <1>0, <2>1, GoneKept DEF Regular, ControlInv, TypeFacts
    <2>3. /\ \A m \in Brokers : Keeper(m, e) /\ ~ Gone(m, e) => m \in isr \cup {z}
          /\ \/ \A m \in Brokers : Keeper(m, e) => m \in isr \cup {z}
             \/ \E c \in isr \ {z} : Gone(c, e)
      BY <1>3 DEF CoverInv
    <2>4. CASE meta'.isr \subseteq meta.isr
      <3>1. \A m \in Brokers : Keeper(m, e)' => Keeper(m, e)
        BY <2>4, KeepersKept DEF Regular
      <3>2. QED
        BY <2>2, <2>3, <3>1
    <2>5. ASSUME NEW b \in Brokers, Readmits(b)
          PROVE  /\ \A m \in Brokers : Keeper(m, e)' /\ ~ Gone(m, e)' => m \in isr \cup {z}
                 /\ \E c \in isr \ {z} : Gone(c, e)'
      <3>1. u = w
        BY <1>1, <2>5 DEF Readmits
      <3>2. e < w
        BY <1>1, <1>3, <2>1, <2>5, <3>1 DEF Readmits
      <3>3. meta'.isr \in SUBSET Brokers
        BY <1>0 DEF TypeFacts
      <3>4. \A m \in meta'.isr \ meta.isr : Gone(m, e)'
        BY <1>1, <2>2, <2>5, <3>2, <3>3, Readmitted DEF Regular
      <3>5. \A m \in Brokers : Keeper(m, e)' => Keeper(m, e) \/ m \in meta'.isr \ meta.isr
        BY KeepersKept DEF Regular
      <3>6. \A m \in Brokers : Keeper(m, e)' /\ ~ Gone(m, e)' => m \in isr \cup {z}
        BY <2>2, <2>3, <3>4, <3>5
      <3>7. b \in meta.isr /\ b # z
        <4>1. b \in meta.isr
          BY <2>5 DEF Readmits, LeadInv
        <4>2. ~ HasIsr(b, e, isr)
          BY <1>1, <2>5, <3>2 DEF Readmits, HasIsr, Leads
        <4>3. QED
          BY <1>3, <4>1, <4>2
      <3>8. Keeper(b, e)
        BY <3>7 DEF Keeper
      <3>9. Gone(b, e)'
        <4>1. rep[b].epoch # e /\ rt[b].call # "metadata"
          BY <1>1, <2>5, <3>2 DEF Readmits, Leads
        <4>2. Gone(b, e)
          BY <1>1, <3>2, <4>1 DEF Gone
        <4>3. QED
          BY <2>2, <4>2
      <3>10. \E c \in isr \ {z} : Gone(c, e)'
        BY <2>2, <2>3, <3>7, <3>8, <3>9
      <3>11. QED
        BY <3>6, <3>10
    <2>6. QED
      BY <2>4, <2>5 DEF Regular, Admits
  <1>4. QED
    BY <1>1, <1>2, <1>3 DEF Regular, TakesIsr

------------------------------------------------------------------------------
(* What a leader may commit *)

\* A later reign that has begun, and what follows when nobody in an ISR has gone, in
\* one formula for the state after a step.
GoneFacts ==
    /\ \A e \in Nat \ {0}, b \in Brokers :
          b = meta.leader /\ e < meta.leader_epoch /\ CurrentEpoch(epochs[b]) = meta.leader_epoch
          => Gone(b, e)
    /\ \A z \in Brokers, e \in Nat, isr \in SUBSET Brokers :
          /\ HasIsr(z, e, isr) /\ Leads(z, e)
          /\ \A f \in isr \ {z} : ~ Gone(f, e)
          => /\ \A m \in Brokers : Keeper(m, e) => ~ Gone(m, e)
             /\ \A n \in Nat : Inherits(n, e)

LEMMA GoneFactsHold ==
  IndInv /\ ControlInv /\ LeadInv /\ FileInv /\ CoverInv => GoneFacts
  <1> SUFFICES ASSUME IndInv, ControlInv, LeadInv, FileInv, CoverInv PROVE GoneFacts
    OBVIOUS
  <1>1. ASSUME NEW e \in Nat \ {0}, NEW b \in Brokers, b = meta.leader, e < meta.leader_epoch,
               CurrentEpoch(epochs[b]) = meta.leader_epoch
        PROVE  Gone(b, e)
    BY <1>1, BegunGone
  <1>2. ASSUME NEW z \in Brokers, NEW e \in Nat, NEW isr \in SUBSET Brokers,
               HasIsr(z, e, isr), Leads(z, e), \A f \in isr \ {z} : ~ Gone(f, e)
        PROVE  /\ \A m \in Brokers : Keeper(m, e) => ~ Gone(m, e)
               /\ \A n \in Nat : Inherits(n, e)
    BY <1>2, NobodyGone
  <1>3. QED
    BY <1>1, <1>2 DEF GoneFacts

LEMMA GoneFactsNext ==
  IndInv' /\ ControlInv' /\ LeadInv' /\ FileInv' /\ CoverInv' => GoneFacts'
  BY GoneFactsHold, PTL

\* A follower that has learned of the epoch of z only cuts what z does not have, or
\* what a later leader does not have.
LEMMA CutKeeps ==
  ASSUME IndInv, ControlInv, NEW m \in Brokers, NEW l \in Brokers, Cuts(m, l),
         NEW z \in Brokers, NEW e \in Nat, Leads(z, e), NEW n \in Nat, n <= LogEnd(z),
         Keeper(m, e), Learned(m, e),
         Keeper(l, e) /\ Gone(l, e) => Keeps(l, log[z], n),
         NEW s \in Seq(Ids), s = log[z], Keeps(m, s, n)
  PROVE  Keeps(m, s, n)'
  <1>0. TypeFacts
    BY TypeFactsHold
  <1>1. CountedOn(m) /\ e <= rep[m].epoch /\ Keeper(l, e)
    BY <1>0, CutCounts
  <1>2. CASE l = z
    <2>1. Shares(s, n, log[l])
      BY <1>0, <1>2 DEF Shares, TypeFacts
    <2>2. QED
      BY <1>1, <2>1 DEF Cuts
  <1>3. CASE l # z
    <2>1. PICK a \in Nat, v \in Nat : a = rep[l].epoch /\ v = rep[m].epoch
      BY <1>0 DEF TypeFacts
    <2>2. IsReign(l, a) /\ IsView(l, v) /\ IsView(z, e)
      BY <2>1 DEF Cuts, IsReign, IsView, Leads
    <2>3. Owns(l, a, v)
      BY <2>2 DEF ControlInv, ReelectedInv
    <2>4. e < a
      BY <1>1, <1>3, <2>1, <2>2, <2>3 DEF Owns
    <2>5. rt[l].call = "metadata" => rt[l].meta.leader_epoch \in Nat /\ a <= rt[l].meta.leader_epoch
      BY <1>0, <2>1 DEF ControlInv, EpochInv, TypeFacts
    <2>6. Gone(l, e)
      <3>1. a <= meta.leader_epoch /\ meta.leader_epoch \in Nat
        BY <1>0, <2>1 DEF ControlInv, EpochInv, TypeFacts
      <3>2. QED
        BY <2>1, <2>4, <2>5, <3>1 DEF Gone
    <2>7. Shares(s, n, log[l])
      BY <1>1, <2>6 DEF Keeps
    <2>8. QED
      BY <1>1, <2>7 DEF Cuts
  <1>4. QED
    BY <1>2, <1>3

\* What a leader may still commit without those that have gone, they keep.
LEMMA GoneStays ==
  ASSUME IndInv, IndInv', ControlInv, ControlInv', LeadersInv, Regular,
         LeadInv', FileInv', CoverInv'
  PROVE  GoneInv'
  <1>0. TypeFacts /\ TypeFacts' /\ GoneFacts'
    BY TypeFactsHold, TypeFactsNext, GoneFactsNext
  <1> SUFFICES ASSUME NEW z \in Brokers, NEW e \in Nat, NEW isr \in SUBSET Brokers,
                      NEW n \in Nat \ {0},
                      HasIsr(z, e, isr)', Leads(z, e)', n <= LogEnd(z)',
                      \A f \in isr \ {z} : Gone(f, e)' => n <= rep'[z].match_offsets[f]
               PROVE  /\ Inherits(n, e)'
                      /\ \A m \in Brokers : Keeper(m, e)' /\ Gone(m, e)' =>
                            Learned(m, e)' /\ Keeps(m, log[z], n)'
    BY DEF GoneInv
  <1>1. PICK w \in Nat, u \in Nat : w = meta.leader_epoch /\ u = meta'.leader_epoch
    BY <1>0 DEF TypeFacts
  <1>2. CASE \A f \in isr \ {z} : ~ Gone(f, e)'
    BY <1>0, <1>2 DEF GoneFacts
  <1>3. CASE \E f \in isr \ {z} : Gone(f, e)'
    <2>1. PICK c \in isr \ {z} : Gone(c, e)'
      BY <1>3
    <2>2. c \in Brokers /\ n <= rep'[z].match_offsets[c]
      BY <2>1
    <2>3. SameReign(z) /\ \A m \in Brokers : Learns(z, m)
      BY <2>2 DEF Regular, LeaderStep, Leads
    <2>4. Leads(z, e) /\ e = rep'[z].epoch
      BY <2>3 DEF SameReign, Leads
    <2>5. \A f \in isr \ {z} : Gone(f, e)' => rep'[z].match_offsets[f] = rep[z].match_offsets[f]
      <3>1. ASSUME NEW f \in isr \ {z}, Gone(f, e)'
            PROVE  rep'[z].match_offsets[f] = rep[z].match_offsets[f]
        <4>1. PICK k \in Nat : k = rep'[z].match_offsets[f]
          BY <1>0 DEF TypeFacts
        <4>2. QED
          BY <2>3, <2>4, <3>1, <4>1 DEF Learns
      <3>2. QED
        BY <3>1
    <2>6. HasIsr(z, e, isr) /\ e < u
      BY <1>1, <2>1 DEF Regular, TakesIsr, Gone
    <2>7. e # 0 /\ e <= w
      BY <1>1, <2>6, IsrEpochs DEF LeadersInv
    <2>8. \A f \in Brokers : Gone(f, e) => Gone(f, e)'
      BY <1>0, <2>7, GoneKept DEF Regular, ControlInv, TypeFacts
    <2>9. n <= LogEnd(z)
      <3>1. PICK k \in Nat : k = rep[z].match_offsets[c]
        BY <1>0, <2>2 DEF TypeFacts
      <3>2. n <= k
        BY <2>1, <2>2, <2>5, <3>1
      <3>3. k <= LogEnd(z)
        BY <2>2, <2>4, <3>1 DEF LeadersInv, MatchInv, Matched
      <3>4. LogEnd(z) \in Nat
        BY <1>0 DEF TypeFacts
      <3>5. QED
        BY <3>2, <3>3, <3>4
    <2>10. /\ Inherits(n, e)
           /\ \A m \in Brokers : Keeper(m, e) /\ Gone(m, e) => Learned(m, e) /\ Keeps(m, log[z], n)
      BY <2>4, <2>5, <2>6, <2>8, <2>9 DEF LeadersInv, GoneInv
    <2>11. PICK s \in Seq(Ids) : s = log[z]
      BY <1>0 DEF TypeFacts
    <2>12. \A m \in Brokers : Keeps(m, s, n)' => Keeps(m, log[z], n)'
      <3>1. \A i \in 1 .. n : log'[z][i] = s[i]
        <4>1. LogEnd(z) \in Nat
          BY <1>0 DEF TypeFacts
        <4>2. QED
          BY <2>3, <2>9, <2>11, <4>1 DEF SameReign, Shares
      <3>2. QED
        BY <3>1 DEF Keeps, Shares
    <2>13. ASSUME NEW m \in Brokers, Keeper(m, e), Gone(m, e)'
           PROVE  Learned(m, e) /\ Keeps(m, s, n)
      <3>1. CASE Gone(m, e)
        BY <2>10, <2>11, <2>13, <3>1
      <3>2. CASE ~ Gone(m, e)
        <4>1. m \in isr \cup {z}
          BY <2>6, <2>13, <3>2 DEF LeadersInv, CoverInv
        <4>2. m # z
          BY <2>4, <2>13 DEF Gone, Leads
        <4>3. PICK k \in Nat : k = rep[z].match_offsets[m]
          BY <1>0 DEF TypeFacts
        <4>4. n <= k
          BY <2>5, <2>13, <4>1, <4>2, <4>3
        <4>5. Learned(m, e) /\ Keeps(m, s, k)
          BY <2>4, <2>11, <3>2, <4>3, <4>4 DEF LeadersInv, MatchInv, Matched
        <4>6. Keeps(m, s, n)
          BY <1>0, <4>4, <4>5, KeepsLess
        <4>7. QED
          BY <4>5, <4>6
      <3>3. QED
        BY <3>1, <3>2
    <2>14. ASSUME NEW m \in Brokers, Keeper(m, e), Gone(m, e)'
           PROVE  Learned(m, e)' /\ Keeps(m, s, n)'
      <3>1. Learned(m, e) /\ Keeps(m, s, n)
        BY <2>13, <2>14
      <3>2. Learned(m, e)'
        BY <1>1, <2>7, <3>1, LearnedKept DEF Regular, Turn, ControlInv
      <3>3. CASE Grows(m)
        BY <1>0, <3>1, <3>2, <3>3, GrowsKeeps
      <3>4. ASSUME NEW l \in Brokers, Cuts(m, l) PROVE Keeps(m, s, n)'
        <4>1. Keeper(l, e) /\ Gone(l, e) => Keeps(l, log[z], n)
          BY <2>10
        <4>2. QED
          BY <2>4, <2>9, <2>11, <2>14, <3>1, <3>4, <4>1, CutKeeps
      <3>5. QED
        BY <3>2, <3>3, <3>4 DEF Regular, Data
    <2>15. ASSUME NEW m \in meta'.isr \ meta.isr
           PROVE  Learned(m, e)' /\ Keeps(m, s, n)'
      <3>1. PICK b \in Brokers : Readmits(b)
        BY <2>15 DEF Regular, Admits
      <3>2. meta'.isr \in SUBSET Brokers /\ b = meta.leader /\ u = w
        BY <1>0, <1>1, <3>1 DEF TypeFacts, Readmits
      <3>3. e < w
        BY <2>6, <3>2
      <3>4. Learned(m, e)' /\ Keeper(b, e) /\ Gone(b, e) /\ CurrentEpoch(epochs[b]) = w
        BY <1>1, <2>7, <2>15, <3>1, <3>2, <3>3, Readmitted DEF Regular, LeadersInv
      <3>5. Keeps(b, s, n)
        BY <2>10, <2>11, <3>4
      <3>6. n <= ReignStart(b)
        BY <1>1, <2>10, <3>2, <3>3, <3>4 DEF Inherits
      <3>7. Keeps(m, s, n)'
        BY <2>15, <3>1, <3>5, <3>6 DEF Readmits
      <3>8. QED
        BY <3>4, <3>7
    <2>16. \A m \in Brokers : Keeper(m, e)' /\ Gone(m, e)' => Learned(m, e)' /\ Keeps(m, s, n)'
      BY <2>14, <2>15, KeepersKept DEF Regular, LeadersInv
    <2>17. Inherits(n, e)'
      <3>1. SUFFICES ASSUME NEW b \in Brokers, b = meta'.leader, e < u, CurrentEpoch(epochs'[b]) = u
                     PROVE  Inherits(n, e)'
        BY <1>1 DEF Inherits
      <3>2. b \in meta'.isr
        BY <3>1 DEF LeadInv
      <3>3. Keeper(b, e)'
        BY <3>2 DEF Keeper
      <3>4. Gone(b, e)'
        BY <1>0, <1>1, <2>7, <3>1 DEF GoneFacts
      <3>5. Keeps(b, s, n)'
        BY <2>16, <3>3, <3>4
      <3>6. KeptLen(b)' \in Nat /\ LogEnd(b)' \in Nat /\ KeptLen(b)' <= LogEnd(b)'
        BY <1>0 DEF TypeFacts
      <3>7. n <= KeptLen(b)'
        BY <3>5 DEF Keeps
      <3>8. n <= LogEnd(b)'
        BY <3>6, <3>7
      <3>9. Turn /\ FileInv /\ \A g \in Brokers : Records(g)
        BY DEF Regular, LeadersInv
      <3>10. e < meta'.leader_epoch /\ CurrentEpoch(epochs'[b]) = meta'.leader_epoch
        BY <1>1, <3>1
      <3>11. QED
        BY <2>10, <3>1, <3>8, <3>9, <3>10, InheritsKept
    <2>18. QED
      BY <2>12, <2>16, <2>17
  <1>4. QED
    BY <1>2, <1>3

------------------------------------------------------------------------------
(* What a step may do to the marks and the acknowledgements *)

\* The mark of g is lost, stays, or is what all in its ISR are known to have.
Marks(g) ==
    \/ rep'[g].hwm = 0
    \/ rep'[g].hwm = rep[g].hwm /\ rep[g].epoch <= rep'[g].epoch
    \/ /\ rep'[g].is_leader /\ rep'[g].hwm <= LogEnd(g)'
       /\ \A f \in rep'[g].isr \ {g} : rep'[g].hwm <= rep'[g].match_offsets[f]

\* Who acknowledges a record leads and has it below its mark.
Acks ==
    \A a \in acked' : a \in acked \/ \E c \in Brokers :
        rep'[c].is_leader /\ a[1] < rep'[c].hwm /\ Holds(c, a)'

\* What the invariant says of marks and leaders, for the state after a step.
MarkFacts ==
    /\ \A z \in Brokers, n \in Nat, s \in Seq(Ids), e \in Nat :
          /\ rep[z].is_leader /\ n # 0 /\ n <= LogEnd(z) /\ s = log[z] /\ e = rep[z].epoch
          /\ \A f \in rep[z].isr \ {z} : n <= rep[z].match_offsets[f]
          => Backed(s, n, e) /\ (e < meta.leader_epoch \/ meta.leader \in {z, NoLeader})
    /\ \A z \in Brokers, e \in Nat : rep[z].is_leader /\ e <= rep[z].epoch => Keeper(z, e)
    /\ \A s \in Seq(Ids), n, k, e \in Nat : Backed(s, n, e) /\ k <= n => Backed(s, k, e)
    /\ Backed(<<>>, 0, 0) /\ 0 < meta.leader_epoch

LEMMA MarkFactsHold == IndInv /\ ControlInv /\ LeadersInv => MarkFacts
  <1> SUFFICES ASSUME IndInv, ControlInv, LeadersInv PROVE MarkFacts
    OBVIOUS
  <1>0. TypeFacts
    BY TypeFactsHold
  <1>1. ASSUME NEW z \in Brokers, NEW n \in Nat, NEW s \in Seq(Ids), NEW e \in Nat,
               rep[z].is_leader, n # 0, n <= LogEnd(z), s = log[z], e = rep[z].epoch,
               \A f \in rep[z].isr \ {z} : n <= rep[z].match_offsets[f]
        PROVE  Backed(s, n, e) /\ (e < meta.leader_epoch \/ meta.leader \in {z, NoLeader})
    <2>1. Backed(s, n, e)
      BY <1>1, MarkBacked
    <2>2. e <= meta.leader_epoch
      BY <1>1 DEF ControlInv, EpochInv
    <2>3. CASE e = meta.leader_epoch /\ meta.leader \in Brokers
      <3>1. PICK l \in Brokers : l = meta.leader
        BY <2>3
      <3>2. IsView(l, e) /\ IsView(z, e)
        BY <1>1, <2>3, <3>1 DEF IsView
      <3>3. l = z
        BY <3>2 DEF ControlInv, OneLeader
      <3>4. QED
        BY <2>1, <3>1, <3>3
    <2>4. QED
      BY <1>0, <2>1, <2>2, <2>3 DEF TypeFacts
  <1>2. \A z \in Brokers, e \in Nat : rep[z].is_leader /\ e <= rep[z].epoch => Keeper(z, e)
    BY LeaderCounts DEF ControlInv
  <1>3. ASSUME NEW s \in Seq(Ids), NEW n \in Nat, NEW k \in Nat, NEW e \in Nat, Backed(s, n, e), k <= n
        PROVE  Backed(s, k, e)
    <2>1. \A m \in Brokers : Keeper(m, e) => Learned(m, e) /\ Keeps(m, s, k)
      BY <1>0, <1>3, KeepsLess DEF Backed
    <2>2. Inherits(k, e)
      <3>1. meta.leader \in Brokers => ReignStart(meta.leader) \in Nat
        BY <1>0 DEF TypeFacts
      <3>2. QED
        BY <1>3, <3>1 DEF Backed, Inherits
    <2>3. QED
      BY <1>3, <2>1, <2>2 DEF Backed
  <1>4. 0 < meta.leader_epoch
    BY DEF IndInv, TypeInv, Tuple, Epochs
  <1>5. Backed(<<>>, 0, 0)
    <2>1. ASSUME NEW m \in Brokers PROVE Learned(m, 0) /\ Keeps(m, <<>>, 0)
      <3>1. /\ rep[m].epoch \in Nat /\ KeptLen(m) \in Nat /\ Len(log[m]) \in Nat
            /\ rt[m].call = "metadata" => rt[m].meta.leader_epoch \in Nat
        BY <1>0 DEF TypeFacts
      <3>2. QED
        BY <3>1 DEF Learned, Keeps, Shares
    <2>2. Inherits(0, 0)
      <3>1. meta.leader \in Brokers => ReignStart(meta.leader) \in Nat
        BY <1>0 DEF TypeFacts
      <3>2. QED
        BY <3>1 DEF Inherits
    <2>3. QED
      BY <1>0, <1>4, <2>1, <2>2 DEF Backed, TypeFacts
  <1>6. QED
    BY <1>1, <1>2, <1>3, <1>4, <1>5 DEF MarkFacts

LEMMA MarkFactsNext == IndInv' /\ ControlInv' /\ LeadersInv' => MarkFacts'
  BY MarkFactsHold, PTL

\* What marks cover stays committed.
LEMMA MarkKept ==
  ASSUME IndInv, IndInv', ControlInv, ControlInv', LeadersInv, LeadersInv', MarkInv, Regular,
         \A g \in Brokers : Marks(g)
  PROVE  MarkInv'
  <1>0. TypeFacts /\ TypeFacts' /\ MarkFacts'
    BY TypeFactsHold, TypeFactsNext, MarkFactsNext
  <1> SUFFICES ASSUME NEW g \in Brokers
               PROVE  \E s \in Seq(Ids), e \in Nat :
                         /\ e <= rep'[g].epoch /\ Backed(s, rep[g].hwm, e)'
                         /\ e < meta'.leader_epoch \/ meta'.leader \in {g, NoLeader}
    BY DEF MarkInv
  <1>1. PICK n \in Nat, u \in Nat, v \in Nat :
          n = rep'[g].hwm /\ u = rep'[g].epoch /\ v = meta'.leader_epoch
    BY <1>0 DEF TypeFacts
  <1>2. SUFFICES \E s \in Seq(Ids), e \in Nat :
                    /\ e <= u /\ Backed(s, n, e)'
                    /\ e < v \/ meta'.leader \in {g, NoLeader}
    <2>1. PICK s \in Seq(Ids), e \in Nat :
             e <= u /\ Backed(s, n, e)' /\ (e < v \/ meta'.leader \in {g, NoLeader})
      BY <1>2
    <2>2. Backed(s, rep[g].hwm, e)'
      BY <1>1, <2>1
    <2>3. QED
      BY <1>1, <2>1, <2>2
  <1>3. CASE n = 0
    <2>1. Backed(<<>>, n, 0)' /\ 0 < v
      BY <1>0, <1>1, <1>3 DEF MarkFacts
    <2>2. <<>> \in Seq(Ids) /\ 0 <= u
      BY <1>1
    <2>3. QED
      BY <2>1, <2>2
  <1>4. CASE n = rep[g].hwm /\ rep[g].epoch <= u
    <2>1. PICK s \in Seq(Ids), e \in Nat :
             /\ e <= rep[g].epoch /\ Backed(s, n, e)
             /\ e < meta.leader_epoch \/ meta.leader \in {g, NoLeader}
      BY <1>4 DEF MarkInv
    <2>2. rep[g].epoch \in Nat /\ meta.leader_epoch \in Nat
      BY <1>0 DEF TypeFacts
    <2>3. \A b \in Brokers : Readmits(b) => e < meta.leader_epoch \/ n <= rep[b].hwm
      <3>1. ASSUME NEW b \in Brokers, Readmits(b), ~ (e < meta.leader_epoch) PROVE n <= rep[b].hwm
        <4>1. b = g
          BY <2>1, <3>1, NoLeaderAssumption DEF Readmits
        <4>2. QED
          BY <1>4, <4>1
      <3>2. QED
        BY <3>1
    <2>4. Backed(s, n, e)'
      BY <2>1, <2>3, BackedKept DEF LeadersInv
    <2>5. e < v \/ meta'.leader \in {g, NoLeader}
      <3>1. e <= meta.leader_epoch
        BY <2>1 DEF Backed
      <3>2. QED
        BY <1>1, <2>1, <2>2, <3>1 DEF Regular, Turn
    <2>6. QED
      BY <1>4, <2>1, <2>2, <2>4, <2>5
  <1>5. CASE /\ n # 0 /\ rep'[g].is_leader /\ n <= LogEnd(g)'
             /\ \A f \in rep'[g].isr \ {g} : n <= rep'[g].match_offsets[f]
    <2>1. PICK s \in Seq(Ids) : s = log'[g]
      BY <1>0 DEF TypeFacts
    <2>2. Backed(s, n, u)' /\ (u < v \/ meta'.leader \in {g, NoLeader})
      BY <1>0, <1>1, <1>5, <2>1 DEF MarkFacts
    <2>3. QED
      BY <2>2
  <1>6. QED
    BY <1>1, <1>3, <1>4, <1>5 DEF Marks

\* What was acknowledged stays committed.
LEMMA AckedKept ==
  ASSUME IndInv, IndInv', ControlInv, ControlInv', LeadersInv, LeadersInv', AckedInv, MarkInv',
         Regular, Acks
  PROVE  AckedInv'
  <1>0. TypeFacts /\ TypeFacts' /\ MarkFacts'
    BY TypeFactsHold, TypeFactsNext, MarkFactsNext
  <1> SUFFICES ASSUME NEW a \in acked'
               PROVE  \E s \in Seq(Ids), e \in Nat :
                         Backed(s, a[1] + 1, e)' /\ s[a[1] + 1] = a[2]
    BY DEF AckedInv
  <1>1. PICK n \in Nat : n = a[1] + 1
    <2>1. a \in Pairs
      BY DEF IndInv, TypeInv
    <2>2. QED
      BY <2>1 DEF Pairs
  <1>2. CASE a \in acked
    <2>1. PICK s \in Seq(Ids), e \in Nat : Backed(s, n, e) /\ s[n] = a[2]
      BY <1>1, <1>2 DEF AckedInv
    <2>2. Backed(s, n, e)'
      BY <1>1, <1>2, <2>1, BackedKept DEF LeadersInv
    <2>3. QED
      BY <1>1, <2>1, <2>2
  <1>3. ASSUME NEW c \in Brokers, rep'[c].is_leader, a[1] < rep'[c].hwm, Holds(c, a)'
        PROVE  \E s \in Seq(Ids), e \in Nat : Backed(s, n, e)' /\ s[n] = a[2]
    <2>1. PICK k \in Nat : k = rep'[c].hwm
      BY <1>0 DEF TypeFacts
    <2>2. PICK s \in Seq(Ids), e \in Nat : e <= rep'[c].epoch /\ Backed(s, k, e)'
      BY <2>1 DEF MarkInv
    <2>3. Keeper(c, e)'
      BY <1>0, <1>3, <2>2 DEF MarkFacts
    <2>4. Keeps(c, s, k)'
      BY <2>2, <2>3 DEF Backed
    <2>5. n <= k
      <3>1. a \in Pairs
        BY DEF IndInv, TypeInv
      <3>2. a[1] \in Nat
        BY <3>1 DEF Pairs
      <3>3. QED
        BY <1>1, <1>3, <2>1, <3>2
    <2>6. s[n] = a[2]
      <3>1. \A i \in 1 .. k : log'[c][i] = s[i]
        BY <2>4 DEF Keeps, Shares
      <3>2. n \in 1 .. k
        <4>1. a \in Pairs
          BY DEF IndInv, TypeInv
        <4>2. a[1] \in Nat
          BY <4>1 DEF Pairs
        <4>3. QED
          BY <1>1, <2>5, <4>2
      <3>3. log'[c][n] = a[2]
        BY <1>1, <1>3 DEF Holds
      <3>4. QED
        BY <3>1, <3>2, <3>3
    <2>7. Backed(s, n, e)'
      BY <1>0, <2>2, <2>5 DEF MarkFacts
    <2>8. QED
      BY <2>6, <2>7
  <1>4. QED
    BY <1>1, <1>2, <1>3 DEF Acks

------------------------------------------------------------------------------
(* What each broker may do in a step *)

\* Producers that wait do so at a leader that has their records.
Pends(c) == \A a \in rep'[c].pending_all : rep'[c].is_leader /\ Holds(c, a)'

Moves(c) ==
    /\ Role(c) /\ Fetches(c) /\ Records(c) /\ Data(c)
    /\ LeaderStep(c) /\ TakesIsr(c) /\ Marks(c) /\ Pends(c)

\* The controller elects from the ISR only, and keeps its leader in it.
Reigns ==
    /\ meta'.leader \in Brokers => meta'.leader \in meta.isr /\ meta'.leader \in meta'.isr
    /\ meta.leader_epoch <= meta'.leader_epoch
    /\ \/ meta'.leader = meta.leader /\ meta'.leader_epoch = meta.leader_epoch
       \/ meta'.leader = NoLeader
       \/ meta'.leader_epoch = meta.leader_epoch + 1 /\ epochs' = epochs

LEMMA CommittedStep ==
  ASSUME IndInv, IndInv', ControlInv, ControlInv', CommittedInv,
         \A c \in Brokers : Moves(c), Reigns, Admits, Acks
  PROVE  CommittedInv'
  <1>1. LeadersInv /\ MarkInv /\ AckedInv
    BY DEF CommittedInv
  <1>2. LeadInv /\ PendInv /\ FileInv /\ MatchInv /\ CoverInv /\ GoneInv
    BY <1>1 DEF LeadersInv
  <1>3. Turn
    BY DEF Moves, Reigns, Turn
  <1>4. Regular /\ \A g \in Brokers : Marks(g)
    BY <1>3 DEF Moves, Regular
  <1>5. LeadInv'
    BY DEF Reigns, LeadInv
  <1>6. PendInv'
    BY DEF Moves, Pends, PendInv
  <1>7. FileInv'
    BY <1>2, <1>4, FileKept DEF Regular
  <1>8. MatchInv'
    BY <1>2, <1>4, MatchKept
  <1>9. CoverInv'
    BY <1>2, <1>4, CoverKept
  <1>10. GoneInv'
    BY <1>1, <1>4, <1>5, <1>7, <1>9, GoneStays
  <1>11. LeadersInv'
    BY <1>5, <1>6, <1>7, <1>8, <1>9, <1>10 DEF LeadersInv
  <1>12. MarkInv'
    BY <1>1, <1>4, <1>11, MarkKept
  <1>13. AckedInv'
    BY <1>1, <1>4, <1>11, <1>12, AckedKept
  <1>14. QED
    BY <1>11, <1>12, <1>13 DEF CommittedInv

\* The fetcher of c goes on or ends.
Goes(c) ==
    \/ rep'[c].fetcher.phase \in Ended
    \/ /\ rep[c].fetcher.phase \notin Ended
       /\ rep'[c].fetcher.leader = rep[c].fetcher.leader
       /\ rep'[c].fetcher.epoch = rep[c].fetcher.epoch

\* Broker c keeps what it knows as a leader and its checkpoint.
Still(c) ==
    /\ rep'[c].epoch = rep[c].epoch /\ rep'[c].is_leader = rep[c].is_leader
    /\ rep'[c].isr = rep[c].isr /\ rep'[c].match_offsets = rep[c].match_offsets
    /\ rep'[c].hwm = rep[c].hwm /\ rep'[c].pending_all \subseteq rep[c].pending_all
    /\ Goes(c) /\ epochs'[c] = epochs[c]

\* Its call goes on, ends, or gets what the controller has.
Asks(c) ==
    \/ rt'[c] = rt[c]
    \/ rt'[c].call \notin {"metadata", "altered"}
    \/ rt'[c].call = "metadata" /\ rt'[c].meta = meta /\ meta' = meta
    \/ /\ rt'[c].call = "altered"
       /\ rt'[c].ok => rt'[c].epoch = meta'.leader_epoch /\ rt'[c].isr = meta'.isr

\* What a leader's log held it holds when it grows.
LEMMA HoldsKept ==
  ASSUME TypeFacts, TypeFacts', NEW c \in Brokers, Shares(log[c], LogEnd(c), log'[c]),
         NEW a, a[1] \in Nat, Holds(c, a)
  PROVE  Holds(c, a)'
  <1>1. LogEnd(c) \in Nat /\ LogEnd(c)' = Len(log'[c]) /\ Len(log'[c]) \in Nat
    BY DEF TypeFacts
  <1>2. a[1] < LogEnd(c) /\ log[c][a[1] + 1] = a[2]
    BY DEF Holds
  <1>3. a[1] + 1 \in 1 .. LogEnd(c)
    BY <1>1, <1>2
  <1>4. LogEnd(c) <= Len(log'[c]) /\ log'[c][a[1] + 1] = log[c][a[1] + 1]
    BY <1>3 DEF Shares
  <1>5. a[1] < LogEnd(c)'
    BY <1>1, <1>2, <1>4
  <1>6. QED
    BY <1>2, <1>4, <1>5 DEF Holds

\* A leader's log that grows is all kept.
LEMMA LeaderShares ==
  ASSUME IndInv, NEW c \in Brokers, rep[c].is_leader, Grows(c)
  PROVE  Shares(log[c], LogEnd(c), log'[c])
  <1>1. rep[c].fetcher.phase \in Ended
    BY DEF IndInv, LeaderInv
  <1>2. KeptLen(c) = LogEnd(c)
    BY <1>1 DEF KeptLen, Ended
  <1>3. QED
    BY <1>2 DEF Grows

LEMMA StillMoves ==
  ASSUME IndInv, IndInv', PendInv, NEW c \in Brokers, Still(c), Asks(c), Grows(c)
  PROVE  Moves(c)
  <1>0. TypeFacts /\ TypeFacts'
    BY TypeFactsHold, TypeFactsNext
  <1>1. Role(c) /\ Fetches(c)
    BY DEF Still, Asks, Role, Stays, Fetches, Goes
  <1>2. Records(c)
    BY DEF Still, Records
  <1>3. Data(c)
    BY DEF Data
  <1>4. LeaderStep(c)
    <2>1. ASSUME rep[c].is_leader PROVE SameReign(c)
      BY <2>1, LeaderShares DEF Still, SameReign
    <2>2. \A m \in Brokers : Learns(c, m)
      BY DEF Still, Learns
    <2>3. QED
      BY <2>1, <2>2 DEF LeaderStep, Still
  <1>5. TakesIsr(c)
    BY DEF TakesIsr, HasIsr, Leads, Still, Asks
  <1>6. Marks(c)
    <2>0. rep[c].epoch \in Nat
      BY <1>0 DEF TypeFacts
    <2>1. rep[c].epoch <= rep'[c].epoch
      BY <2>0 DEF Still
    <2>2. QED
      BY <2>1 DEF Still, Marks
  <1>7. Pends(c)
    <2>1. ASSUME NEW a \in rep'[c].pending_all PROVE rep'[c].is_leader /\ Holds(c, a)'
      <3>1. a \in rep[c].pending_all
        BY DEF Still
      <3>2. rep[c].is_leader /\ Holds(c, a) /\ a[1] \in Nat
        BY <3>1, LeaderTypes DEF PendInv
      <3>3. Holds(c, a)'
        BY <1>0, <3>2, LeaderShares, HoldsKept
      <3>4. QED
        BY <3>2, <3>3 DEF Still
    <2>2. QED
      BY <2>1 DEF Pends
  <1>8. QED
    BY <1>1, <1>2, <1>3, <1>4, <1>5, <1>6, <1>7 DEF Moves

\* A log that stays as it is, with no cut under way that was not before.
LEMMA SameLogGrows ==
  ASSUME IndInv, NEW c \in Brokers, log'[c] = log[c],
         rep'[c].fetcher.phase # "reconcile" \/ rep'[c].fetcher = rep[c].fetcher
  PROVE  Grows(c)
  <1>1. /\ KeptLen(c) \in Nat /\ LogEnd(c) \in Nat /\ KeptLen(c) <= LogEnd(c)
        /\ LogEnd(c) = Len(log[c])
    BY LogTypes
  <1>2. KeptLen(c)' = LogEnd(c) \/ KeptLen(c)' = KeptLen(c)
    BY DEF KeptLen, LogEnd
  <1>3. KeptLen(c) <= KeptLen(c)'
    BY <1>1, <1>2
  <1>4. Shares(log[c], KeptLen(c), log'[c])
    BY <1>1 DEF Shares
  <1>5. QED
    BY <1>3, <1>4 DEF Grows

\* A broker that does nothing but call.
LEMMA RestMoves ==
  ASSUME IndInv, IndInv', PendInv, NEW c \in Brokers, Asks(c),
         rep'[c] = rep[c], log'[c] = log[c], epochs'[c] = epochs[c]
  PROVE  Moves(c)
  <1>1. Still(c)
    BY DEF Still, Goes
  <1>2. Grows(c)
    BY SameLogGrows
  <1>3. QED
    BY <1>1, <1>2, StillMoves

------------------------------------------------------------------------------
(* Steps that leave the controller, marks and checkpoints alone *)

\* The controller does nothing.
LEMMA SameMeta ==
  ASSUME LeadInv, IndInv, meta' = meta
  PROVE  Reigns /\ Admits
  <1>1. meta.leader_epoch \in Nat
    BY EpochTypes
  <1>2. Reigns
    BY <1>1 DEF Reigns, LeadInv
  <1>3. QED
    BY <1>2 DEF Admits

LEMMA QuietCommitted ==
  ASSUME IndInv, IndInv', ControlInv, ControlInv', CommittedInv,
         meta' = meta, acked' = acked, \A c \in Brokers : Moves(c)
  PROVE  CommittedInv'
  <1>1. Reigns /\ Admits
    BY SameMeta DEF CommittedInv, LeadersInv
  <1>2. Acks
    BY DEF Acks
  <1>3. QED
    BY <1>1, <1>2, CommittedStep

\* One broker moves, the others rest.
LEMMA OneMoves ==
  ASSUME IndInv, IndInv', ControlInv, ControlInv', CommittedInv,
         meta' = meta, acked' = acked, NEW b \in Brokers, Moves(b),
         \A c \in Brokers \ {b} : rep'[c] = rep[c] /\ log'[c] = log[c] /\ epochs'[c] = epochs[c],
         \A c \in Brokers \ {b} : Asks(c)
  PROVE  CommittedInv'
  <1>1. \A c \in Brokers \ {b} : Moves(c)
    BY RestMoves DEF CommittedInv, LeadersInv
  <1>2. QED
    BY <1>1, QuietCommitted

\* A replica that changes otherwise than its role, its mark and what it knows.
LEMMA StillCommitted ==
  ASSUME IndInv, IndInv', ControlInv, ControlInv', CommittedInv,
         meta' = meta, acked' = acked, epochs' = epochs, NEW b \in Brokers, Still(b), Grows(b),
         \A c \in Brokers \ {b} : rep'[c] = rep[c] /\ log'[c] = log[c],
         \A c \in Brokers : Asks(c)
  PROVE  CommittedInv'
  <1>1. Moves(b)
    BY StillMoves DEF CommittedInv, LeadersInv
  <1>2. QED
    BY <1>1, OneMoves

\* No replica changes.
LEMMA CallCommitted ==
  ASSUME IndInv, IndInv', ControlInv, ControlInv', CommittedInv,
         meta' = meta, UNCHANGED <<acked, disk, rep>>, \A c \in Brokers : Asks(c)
  PROVE  CommittedInv'
  <1>1. \A c \in Brokers : Moves(c)
    BY RestMoves DEF CommittedInv, LeadersInv, disk
  <1>2. QED
    BY <1>1, QuietCommitted

LEMMA ControllerRestartCommitted ==
  ASSUME IndInv, IndInv', ControlInv, ControlInv', CommittedInv, ControllerRestart
  PROVE  CommittedInv'
  <1>1. \A c \in Brokers : Asks(c)
    BY DEF ControllerRestart, Asks, Idle
  <1>2. QED
    BY <1>1, CallCommitted DEF ControllerRestart

\* One runtime call changes, for another than an answer.
LEMMA OneAsks ==
  ASSUME IndInv, NEW b \in Brokers, NEW k, rt' = [rt EXCEPT ![b] = k],
         k.call \notin {"metadata", "altered"}
  PROVE  \A c \in Brokers : Asks(c)
  <1>1. rt'[b] = k /\ \A c \in Brokers \ {b} : rt'[c] = rt[c]
    BY DEF IndInv, TypeInv
  <1>2. QED
    BY <1>1 DEF Asks

LEMMA ProposeIsrCommitted ==
  ASSUME IndInv, IndInv', ControlInv, ControlInv', CommittedInv, NEW b \in Brokers, ProposeIsr(b)
  PROVE  CommittedInv'
  <1>1. \A c \in Brokers : Asks(c)
    BY OneAsks DEF ProposeIsr
  <1>2. QED
    BY <1>1, CallCommitted DEF ProposeIsr

LEMMA LoseCallCommitted ==
  ASSUME IndInv, IndInv', ControlInv, ControlInv', CommittedInv, NEW b \in Brokers, LoseCall(b)
  PROVE  CommittedInv'
  <1>1. \A c \in Brokers : Asks(c)
    BY OneAsks DEF LoseCall, Idle
  <1>2. QED
    BY <1>1, CallCommitted DEF LoseCall

LEMMA StartBrokerCommitted ==
  ASSUME IndInv, IndInv', ControlInv, ControlInv', CommittedInv, NEW b \in Brokers, StartBroker(b)
  PROVE  CommittedInv'
  <1>1. \A c \in Brokers : Asks(c)
    BY DEF StartBroker, Asks
  <1>2. QED
    BY <1>1, CallCommitted DEF StartBroker

LEMMA LagExpiresCommitted ==
  ASSUME IndInv, IndInv', ControlInv, ControlInv', CommittedInv, NEW b \in Brokers,
         NEW f \in Brokers, LagExpires(b, f)
  PROVE  CommittedInv'
  <1>1. PICK recent : rep' = [rep EXCEPT ![b] = [rep[b] EXCEPT !.recent = recent]]
    BY DEF LagExpires
  <1>2. rep[b] \in Replica /\ rep'[b] = [rep[b] EXCEPT !.recent = recent]
    BY <1>1 DEF IndInv, TypeInv
  <1>3. \A c \in Brokers \ {b} : rep'[c] = rep[c]
    BY <1>1 DEF IndInv, TypeInv
  <1>4. /\ rep'[b].epoch = rep[b].epoch /\ rep'[b].is_leader = rep[b].is_leader
        /\ rep'[b].isr = rep[b].isr /\ rep'[b].match_offsets = rep[b].match_offsets
        /\ rep'[b].hwm = rep[b].hwm /\ rep'[b].pending_all = rep[b].pending_all
        /\ rep'[b].fetcher = rep[b].fetcher
    BY <1>2 DEF Replica
  <1>5. Still(b) /\ Grows(b)
    BY <1>4, SameLogGrows DEF Still, Goes, LagExpires, disk
  <1>6. \A c \in Brokers : Asks(c)
    BY DEF LagExpires, Asks
  <1>7. QED
    BY <1>3, <1>5, <1>6, StillCommitted DEF LagExpires, disk

LEMMA ProduceTimeoutCommitted ==
  ASSUME IndInv, IndInv', ControlInv, ControlInv', CommittedInv, NEW b \in Brokers, NEW a,
         ProduceTimeout(b, a)
  PROVE  CommittedInv'
  <1>1. PICK p : p = rep[b].pending_all \ {a} /\ rep' = [rep EXCEPT ![b] = [rep[b] EXCEPT !.pending_all = p]]
    BY DEF ProduceTimeout
  <1>2. rep[b] \in Replica /\ rep'[b] = [rep[b] EXCEPT !.pending_all = p]
    BY <1>1 DEF IndInv, TypeInv
  <1>3. \A c \in Brokers \ {b} : rep'[c] = rep[c]
    BY <1>1 DEF IndInv, TypeInv
  <1>4. /\ rep'[b].epoch = rep[b].epoch /\ rep'[b].is_leader = rep[b].is_leader
        /\ rep'[b].isr = rep[b].isr /\ rep'[b].match_offsets = rep[b].match_offsets
        /\ rep'[b].hwm = rep[b].hwm /\ rep'[b].pending_all = p
        /\ rep'[b].fetcher = rep[b].fetcher
    BY <1>2 DEF Replica
  <1>5. Still(b) /\ Grows(b)
    BY <1>1, <1>4, SameLogGrows DEF Still, Goes, ProduceTimeout, disk
  <1>6. \A c \in Brokers : Asks(c)
    BY DEF ProduceTimeout, Asks
  <1>7. QED
    BY <1>3, <1>5, <1>6, StillCommitted DEF ProduceTimeout, disk

\* One replica changes its fetcher, and nothing else.
LEMMA FetcherFields ==
  ASSUME IndInv, NEW f \in Brokers, NEW y, SetFetcher(f, y)
  PROVE  /\ rep'[f].fetcher = y
         /\ \A c \in Brokers \ {f} : rep'[c] = rep[c]
         /\ rep'[f].epoch = rep[f].epoch /\ rep'[f].is_leader = rep[f].is_leader
         /\ rep'[f].isr = rep[f].isr /\ rep'[f].match_offsets = rep[f].match_offsets
         /\ rep'[f].hwm = rep[f].hwm /\ rep'[f].pending_all = rep[f].pending_all
  <1>1. rep[f] \in Replica /\ rep'[f] = [rep[f] EXCEPT !.fetcher = y]
    BY DEF SetFetcher, IndInv, TypeInv
  <1>2. \A c \in Brokers \ {f} : rep'[c] = rep[c]
    BY DEF SetFetcher, IndInv, TypeInv
  <1>3. QED
    BY <1>1, <1>2 DEF Replica

\* A fetcher goes on or ends, and the logs stay.
LEMMA FetcherCommitted ==
  ASSUME IndInv, IndInv', ControlInv, ControlInv', CommittedInv, NEW f \in Brokers, NEW y,
         SetFetcher(f, y), meta' = meta, UNCHANGED <<disk, acked>>, \A c \in Brokers : Asks(c),
         y.phase # "reconcile" \/ y = rep[f].fetcher,
         \/ y.phase \in Ended
         \/ /\ rep[f].fetcher.phase \notin Ended
            /\ y.leader = rep[f].fetcher.leader /\ y.epoch = rep[f].fetcher.epoch
  PROVE  CommittedInv'
  <1>1. /\ rep'[f].fetcher = y
        /\ \A c \in Brokers \ {f} : rep'[c] = rep[c]
        /\ rep'[f].epoch = rep[f].epoch /\ rep'[f].is_leader = rep[f].is_leader
        /\ rep'[f].isr = rep[f].isr /\ rep'[f].match_offsets = rep[f].match_offsets
        /\ rep'[f].hwm = rep[f].hwm /\ rep'[f].pending_all = rep[f].pending_all
    BY FetcherFields
  <1>2. Still(f) /\ Grows(f)
    BY <1>1, SameLogGrows DEF Still, Goes, disk
  <1>3. QED
    BY <1>1, <1>2, StillCommitted DEF disk

LEMMA LoseFetchCommitted ==
  ASSUME IndInv, IndInv', ControlInv, ControlInv', CommittedInv, NEW f \in Brokers, LoseFetch(f)
  PROVE  CommittedInv'
  <1>1. \A c \in Brokers : Asks(c)
    BY DEF LoseFetch, Asks
  <1>2. Pinged.phase \in Ended /\ Pinged.phase # "reconcile"
    BY DEF Pinged, Ended
  <1>3. QED
    BY <1>1, <1>2, FetcherCommitted DEF LoseFetch

LEMMA RequestMetadataCommitted ==
  ASSUME IndInv, IndInv', ControlInv, ControlInv', CommittedInv, NEW b \in Brokers,
         RequestMetadata(b)
  PROVE  CommittedInv'
  <1>1. PICK y : SetFetcher(b, y) /\ y = IF rep[b].fetcher = Pinged THEN NoFetcher ELSE rep[b].fetcher
    BY DEF RequestMetadata, SetFetcher
  <1>2. \A c \in Brokers : Asks(c)
    <2>1. rt' = [rt EXCEPT ![b] = [call |-> "metadata", meta |-> meta]]
      BY DEF RequestMetadata
    <2>2. /\ rt'[b].call = "metadata" /\ rt'[b].meta = meta
          /\ \A c \in Brokers \ {b} : rt'[c] = rt[c]
      BY <2>1 DEF IndInv, TypeInv
    <2>3. QED
      BY <2>2 DEF Asks, RequestMetadata
  <1>3. NoFetcher.phase \in Ended /\ NoFetcher.phase # "reconcile"
    BY DEF NoFetcher, Ended
  <1>4. \/ y.phase \in Ended
        \/ /\ rep[b].fetcher.phase \notin Ended
           /\ y.leader = rep[b].fetcher.leader /\ y.epoch = rep[b].fetcher.epoch
    BY <1>1, <1>3
  <1>5. y.phase # "reconcile" \/ y = rep[b].fetcher
    BY <1>1, <1>3
  <1>6. QED
    BY <1>1, <1>2, <1>4, <1>5, FetcherCommitted DEF RequestMetadata

\* A leader that writes a record.
LEMMA ProduceCommitted ==
  ASSUME IndInv, IndInv', ControlInv, ControlInv', CommittedInv, Undisturbed', NEW b \in Brokers,
         NEW all \in BOOLEAN, Produce(b, all)
  PROVE  CommittedInv'
  <1>1. ~ Preempted
    BY NotPreempted
  <1>2. PICK v : Write(b, v, all)
    BY <1>1 DEF Produce
  <1>3. PICK p : rep' = [rep EXCEPT ![b] = [rep[b] EXCEPT !.appended = p]]
    BY <1>2 DEF Write
  <1>4. rep[b] \in Replica /\ rep'[b] = [rep[b] EXCEPT !.appended = p]
    BY <1>3 DEF IndInv, TypeInv
  <1>5. \A c \in Brokers \ {b} : rep'[c] = rep[c] /\ log'[c] = log[c]
    BY <1>2, <1>3 DEF IndInv, TypeInv, Write
  <1>6. /\ rep'[b].epoch = rep[b].epoch /\ rep'[b].is_leader = rep[b].is_leader
        /\ rep'[b].isr = rep[b].isr /\ rep'[b].match_offsets = rep[b].match_offsets
        /\ rep'[b].hwm = rep[b].hwm /\ rep'[b].pending_all = rep[b].pending_all
        /\ rep'[b].fetcher = rep[b].fetcher
    BY <1>4 DEF Replica
  <1>7. Still(b)
    BY <1>6 DEF Still, Goes, Produce
  <1>8. Grows(b)
    <2>1. log[b] \in Seq(Ids) /\ log'[b] = Append(log[b], v) /\ LogEnd(b) = Len(log[b])
      BY <1>2, LogTypes DEF Write, IndInv, TypeInv
    <2>2. Len(log'[b]) = Len(log[b]) + 1 /\ \A i \in 1 .. Len(log[b]) : log'[b][i] = log[b][i]
      BY <2>1
    <2>3. rep[b].fetcher.phase \in Ended
      BY DEF IndInv, LeaderInv, Produce
    <2>4. KeptLen(b) = LogEnd(b) /\ KeptLen(b)' = LogEnd(b)'
      BY <1>6, <2>3 DEF KeptLen, Ended
    <2>5. Len(log[b]) \in Nat
      BY <2>1
    <2>6. KeptLen(b) <= KeptLen(b)'
      BY <2>2, <2>4, <2>5 DEF LogEnd
    <2>7. Shares(log[b], KeptLen(b), log'[b])
      BY <2>1, <2>2, <2>4, <2>5 DEF Shares
    <2>8. QED
      BY <2>6, <2>7 DEF Grows
  <1>9. \A c \in Brokers : Asks(c)
    BY DEF Produce, Asks
  <1>10. QED
    BY <1>5, <1>7, <1>8, <1>9, StillCommitted DEF Produce

------------------------------------------------------------------------------
(* Elections *)

LEMMA ElectCommitted ==
  ASSUME IndInv, IndInv', ControlInv, ControlInv', CommittedInv,
         NEW live \in SUBSET Brokers, ElectAmong(live),
         UNCHANGED <<disk, rep, rt, acked>>
  PROVE  CommittedInv'
  <1>1. \A c \in Brokers : Moves(c)
    <2>1. \A c \in Brokers : Asks(c)
      BY DEF Asks
    <2>2. QED
      BY <2>1, RestMoves DEF CommittedInv, LeadersInv, disk
  <1>2. \/ meta' = meta /\ meta.leader \in live
        \/ /\ meta.isr \cap live = {} /\ meta.leader \notin live
           /\ meta'.leader = NoLeader /\ meta'.leader_epoch = meta.leader_epoch
           /\ meta'.isr = meta.isr
        \/ /\ meta.leader \notin live
           /\ meta'.leader \in meta.isr \cap live
           /\ meta'.leader_epoch = meta.leader_epoch + 1
           /\ meta'.isr = meta.isr \cap live
    BY Elects
  <1>3. meta.leader_epoch \in Nat
    BY EpochTypes
  <1>4. Reigns /\ Admits
    <2>1. CASE meta' = meta
      BY <2>1, SameMeta DEF CommittedInv, LeadersInv
    <2>2. CASE meta'.leader = NoLeader /\ meta'.leader_epoch = meta.leader_epoch /\ meta'.isr = meta.isr
      BY <1>3, <2>2, NoLeaderAssumption DEF Reigns, Admits
    <2>3. CASE /\ meta'.leader \in meta.isr \cap live
               /\ meta'.leader_epoch = meta.leader_epoch + 1
               /\ meta'.isr = meta.isr \cap live
      BY <1>3, <2>3 DEF Reigns, Admits, disk
    <2>4. QED
      BY <1>2, <2>1, <2>2, <2>3
  <1>5. Acks
    BY DEF Acks
  <1>6. QED
    BY <1>1, <1>4, <1>5, CommittedStep

LEMMA ExpireCommitted ==
  ASSUME IndInv, IndInv', ControlInv, ControlInv', CommittedInv,
         NEW dead \in SUBSET alive, Expire(dead)
  PROVE  CommittedInv'
  <1>1. alive' \in SUBSET Brokers
    BY DEF IndInv, TypeInv
  <1>2. QED
    BY <1>1, ElectCommitted DEF Expire

LEMMA ReviveCommitted ==
  ASSUME IndInv, IndInv', ControlInv, ControlInv', CommittedInv, NEW b \in Brokers, Revive(b)
  PROVE  CommittedInv'
  <1>1. alive' \in SUBSET Brokers
    BY DEF IndInv, TypeInv
  <1>2. QED
    BY <1>1, ElectCommitted DEF Revive

------------------------------------------------------------------------------
(* The high-water mark *)

\* A broker that moves to state r and recomputes its mark, when r has the mark it had
\* or none of the producers of another reign.
LEMMA MarkMoves ==
  ASSUME IndInv, NEW b \in Brokers, NEW r \in Replica,
         rep'[b] = AdvanceHwm(b, r, LogEnd(b)), acked' = acked \cup Covered(b, r, LogEnd(b)),
         log'[b] = log[b], r.hwm = rep[b].hwm, rep[b].epoch <= r.epoch,
         \A a \in r.pending_all : r.is_leader /\ Holds(b, a)
  PROVE  /\ Marks(b) /\ Pends(b) /\ Acks
         /\ rep'[b].epoch = r.epoch /\ rep'[b].is_leader = r.is_leader /\ rep'[b].isr = r.isr
         /\ rep'[b].match_offsets = r.match_offsets /\ rep'[b].fetcher = r.fetcher
  <1>1. LogEnd(b) \in 0 .. MaxRecords /\ LogEnd(b) \in Nat
    BY ReplicaType, LogTypes
  <1>2. PICK x, end : x = AdvanceHwm(b, r, end) /\ end = LogEnd(b)
    OBVIOUS
  <1>3. /\ x.epoch = r.epoch /\ x.is_leader = r.is_leader /\ x.isr = r.isr
        /\ x.match_offsets = r.match_offsets /\ x.fetcher = r.fetcher
        /\ x.hwm = IF r.is_leader THEN NewHwm(b, r, LogEnd(b)) ELSE r.hwm
        /\ x.pending_all = r.pending_all \ Covered(b, r, LogEnd(b))
    <2>1. end \in 0 .. MaxRecords
      BY <1>1, <1>2
    <2>2. \A v \in {AdvanceHwm(b, r, end)} :
             /\ v.epoch = r.epoch /\ v.is_leader = r.is_leader /\ v.isr = r.isr
             /\ v.match_offsets = r.match_offsets /\ v.fetcher = r.fetcher
             /\ v.hwm = IF r.is_leader THEN NewHwm(b, r, end) ELSE r.hwm
             /\ v.pending_all = r.pending_all \ Covered(b, r, end)
      BY <2>1, AdvanceType
    <2>3. QED
      BY <1>2, <2>2
  <1>4. rep'[b] = x
    BY <1>2
  <1>5. PICK n : n = NewHwm(b, r, LogEnd(b))
    OBVIOUS
  <1>6. \/ n = r.hwm
        \/ n <= LogEnd(b) /\ \A f \in r.isr \ {b} : n <= r.match_offsets[f]
    BY <1>1, <1>5, NewHwmValue
  <1>7. LogEnd(b)' = LogEnd(b)
    BY DEF LogEnd
  <1>8. Marks(b)
    <2>1. CASE ~ r.is_leader
      BY <1>3, <1>4, <2>1 DEF Marks
    <2>2. CASE r.is_leader
      <3>1. x.hwm = n
        BY <1>3, <1>5, <2>2
      <3>2. QED
        BY <1>3, <1>4, <1>6, <1>7, <2>2, <3>1 DEF Marks
    <2>3. QED
      BY <2>1, <2>2
  <1>9. \A a : Holds(b, a) => Holds(b, a)'
    BY DEF Holds, LogEnd
  <1>10. Pends(b)
    BY <1>3, <1>4, <1>9 DEF Pends
  <1>11. Acks
    <2>1. ASSUME NEW a \in acked', a \notin acked
          PROVE  rep'[b].is_leader /\ a[1] < rep'[b].hwm /\ Holds(b, a)'
      <3>1. a \in Covered(b, r, LogEnd(b))
        BY <2>1
      <3>2. r.is_leader /\ a \in r.pending_all /\ a[1] < n
        BY <1>5, <3>1 DEF Covered
      <3>3. x.hwm = n
        BY <1>3, <1>5, <3>2
      <3>4. QED
        BY <1>3, <1>4, <1>9, <3>2, <3>3
    <2>2. QED
      BY <2>1 DEF Acks
  <1>12. QED
    BY <1>3, <1>4, <1>8, <1>10, <1>11

LEMMA AdvanceMarks ==
  ASSUME IndInv, NEW b \in Brokers, NEW r \in Replica, Advance(b, r, LogEnd(b)),
         log'[b] = log[b], r.hwm = rep[b].hwm, rep[b].epoch <= r.epoch,
         \A a \in r.pending_all : r.is_leader /\ Holds(b, a)
  PROVE  /\ Marks(b) /\ Pends(b) /\ Acks
         /\ \A c \in Brokers \ {b} : rep'[c] = rep[c]
         /\ rep'[b].epoch = r.epoch /\ rep'[b].is_leader = r.is_leader /\ rep'[b].isr = r.isr
         /\ rep'[b].match_offsets = r.match_offsets /\ rep'[b].fetcher = r.fetcher
  <1>1. /\ rep'[b] = AdvanceHwm(b, r, LogEnd(b)) /\ acked' = acked \cup Covered(b, r, LogEnd(b))
        /\ \A c \in Brokers \ {b} : rep'[c] = rep[c]
    BY DEF Advance, IndInv, TypeInv
  <1>2. QED
    BY <1>1, MarkMoves

\* A broker that recomputes its mark, and may have taken up an ISR before.
LEMMA AdvanceMoves ==
  ASSUME IndInv, IndInv', NEW b \in Brokers, NEW r \in Replica, Advance(b, r, LogEnd(b)),
         log'[b] = log[b], epochs'[b] = epochs[b], r.hwm = rep[b].hwm,
         r.epoch = rep[b].epoch, r.is_leader = rep[b].is_leader, r.fetcher = rep[b].fetcher,
         r.match_offsets = rep[b].match_offsets,
         \A a \in r.pending_all : r.is_leader /\ Holds(b, a),
         rt'[b].call = "metadata" => rt'[b] = rt[b], TakesIsr(b)
  PROVE  /\ Moves(b) /\ Acks
         /\ \A c \in Brokers \ {b} : rep'[c] = rep[c]
         /\ rep'[b].isr = r.isr
  <1>0. rep[b].epoch <= r.epoch
    <2>1. rep[b].epoch \in Nat
      BY EpochTypes
    <2>2. QED
      BY <2>1
  <1>1. /\ Marks(b) /\ Pends(b) /\ Acks
        /\ \A c \in Brokers \ {b} : rep'[c] = rep[c]
        /\ rep'[b].epoch = r.epoch /\ rep'[b].is_leader = r.is_leader /\ rep'[b].isr = r.isr
        /\ rep'[b].match_offsets = r.match_offsets /\ rep'[b].fetcher = r.fetcher
    BY <1>0, AdvanceMarks
  <1>2. Role(b) /\ Fetches(b)
    BY <1>1 DEF Role, Stays, Fetches
  <1>3. Records(b)
    BY <1>1 DEF Records
  <1>4. Grows(b)
    BY <1>1, SameLogGrows
  <1>5. Data(b)
    BY <1>4 DEF Data
  <1>6. LeaderStep(b)
    <2>1. rep[b].is_leader => SameReign(b)
      BY <1>1, <1>4, LeaderShares DEF SameReign
    <2>2. \A m \in Brokers : Learns(b, m)
      BY <1>1 DEF Learns
    <2>3. QED
      BY <1>1, <2>1, <2>2 DEF LeaderStep
  <1>7. QED
    BY <1>1, <1>2, <1>3, <1>5, <1>6 DEF Moves

LEMMA ParkProduceCommitted ==
  ASSUME IndInv, IndInv', ControlInv, ControlInv', CommittedInv, Undisturbed', NEW b \in Brokers,
         NEW a \in rep[b].appended, ParkProduce(b, a)
  PROVE  CommittedInv'
  <1>1. rep[b] \in Replica
    BY DEF IndInv, TypeInv
  <1>2. a \in Pairs
    BY <1>1, BoundsAssumption DEF Replica
  <1>3. PICK p, q : p = rep[b].appended \ {a} /\ q = rep[b].pending_all \cup {a}
    OBVIOUS
  <1>4. p \in SUBSET Pairs /\ q \in SUBSET Pairs
    BY <1>1, <1>2, <1>3 DEF Replica
  <1>5. PICK r : r = [rep[b] EXCEPT !.appended = p, !.pending_all = q]
    OBVIOUS
  <1>6. r \in Replica
    BY <1>1, <1>4, <1>5 DEF Replica
  <1>7. /\ r.hwm = rep[b].hwm /\ r.epoch = rep[b].epoch /\ r.is_leader = rep[b].is_leader
        /\ r.fetcher = rep[b].fetcher /\ r.match_offsets = rep[b].match_offsets
        /\ r.isr = rep[b].isr /\ r.pending_all = q
    BY <1>1, <1>5 DEF Replica
  <1>8. Advance(b, r, LogEnd(b))
    BY <1>3, <1>5 DEF ParkProduce
  <1>9. r.is_leader /\ Holds(b, a)
    <2>1. ~ Count({"strays"})
      BY NoneCounted DEF Disturbances
    <2>2. QED
      BY <1>3, <1>5, <1>8, <2>1 DEF ParkProduce
  <1>10. \A c \in r.pending_all : r.is_leader /\ Holds(b, c)
    BY <1>3, <1>7, <1>9 DEF CommittedInv, LeadersInv, PendInv
  <1>11. log' = log /\ epochs' = epochs /\ rt' = rt /\ meta' = meta
    BY DEF ParkProduce, disk
  <1>12. TakesIsr(b)
    <2>1. /\ rep'[b].epoch = rep[b].epoch /\ rep'[b].is_leader = rep[b].is_leader
          /\ rep'[b].isr = rep[b].isr
      <3>1. rep[b].epoch \in Nat
        BY EpochTypes
      <3>2. rep[b].epoch <= r.epoch
        BY <1>7, <3>1
      <3>3. QED
        BY <1>6, <1>7, <1>8, <1>10, <1>11, <3>2, AdvanceMarks
    <2>2. QED
      BY <1>11, <2>1 DEF TakesIsr, HasIsr, Leads
  <1>13. /\ Moves(b) /\ Acks
         /\ \A c \in Brokers \ {b} : rep'[c] = rep[c]
    BY <1>6, <1>7, <1>8, <1>10, <1>11, <1>12, AdvanceMoves
  <1>14. \A c \in Brokers \ {b} : Moves(c)
    <2>1. \A c \in Brokers : Asks(c)
      BY <1>11 DEF Asks
    <2>2. QED
      BY <1>11, <1>13, <2>1, RestMoves DEF CommittedInv, LeadersInv
  <1>15. Reigns /\ Admits
    BY <1>11, SameMeta DEF CommittedInv, LeadersInv
  <1>16. QED
    BY <1>13, <1>14, <1>15, CommittedStep

------------------------------------------------------------------------------
(* Changes of the ISR *)

\* What the verdict of the controller means.
LEMMA AlterIsrSays ==
  ASSUME IndInv, NEW b, NEW epoch, NEW isr \in SUBSET Brokers, NEW ok, NEW atOnce,
         AlterIsr(b, epoch, isr, ok, atOnce)
  PROVE  /\ ~ ok => meta' = meta
         /\ ok => /\ meta'.isr = isr /\ epoch = meta'.leader_epoch /\ epoch = meta.leader_epoch
                  /\ meta'.leader = meta.leader /\ meta.leader \in isr
  <1>1. meta \in PartitionState
    BY DEF IndInv, TypeInv, Tuple
  <1>2. ~ ok => meta' = meta
    BY DEF AlterIsr
  <1>3. ASSUME ok
        PROVE  /\ meta' = [meta EXCEPT !.isr = isr]
               /\ epoch = meta.leader_epoch /\ meta.leader \in isr
    <2>1. meta' = [meta EXCEPT !.isr = isr] /\ AlterIsrError(meta, epoch, isr) = "None"
      BY <1>3 DEF AlterIsr
    <2>2. epoch = meta.leader_epoch
      BY <2>1 DEF AlterIsrError
    <2>3. meta.leader \in isr
      BY <2>1, <2>2 DEF AlterIsrError
    <2>4. QED
      BY <2>1, <2>2, <2>3
  <1>4. QED
    BY <1>1, <1>2, <1>3 DEF PartitionState

\* The controller keeps its leader and epoch.
LEMMA SameReigns ==
  ASSUME IndInv, LeadInv, meta'.leader = meta.leader, meta'.leader_epoch = meta.leader_epoch,
         meta' = meta \/ meta.leader \in meta'.isr
  PROVE  Reigns
  <1>1. meta.leader_epoch \in Nat
    BY EpochTypes
  <1>2. QED
    BY <1>1 DEF Reigns, LeadInv

LEMMA DecideIsrCommitted ==
  ASSUME IndInv, IndInv', ControlInv, ControlInv', CommittedInv, Undisturbed', NEW b \in Brokers,
         DecideIsr(b)
  PROVE  CommittedInv'
  <1>1. PICK epoch, isr : epoch = rt[b].epoch /\ isr = rt[b].isr
    OBVIOUS
  <1>2. PICK ok \in BOOLEAN :
          /\ AlterIsr(b, epoch, isr, ok, FALSE)
          /\ rt' = [rt EXCEPT ![b] = [call |-> "altered", ok |-> ok, epoch |-> epoch, isr |-> isr]]
    BY <1>1 DEF DecideIsr
  <1>3. isr \in SUBSET Brokers
    BY <1>1, ReplicaType DEF DecideIsr, Call, Idle
  <1>4. /\ ~ ok => meta' = meta
        /\ ok => /\ meta'.isr = isr /\ epoch = meta'.leader_epoch /\ epoch = meta.leader_epoch
                 /\ meta'.leader = meta.leader /\ meta.leader \in isr
    BY <1>2, <1>3, AlterIsrSays
  <1>5. \A c \in Brokers : Asks(c)
    <2>1. /\ rt'[b].call = "altered" /\ rt'[b].ok = ok /\ rt'[b].epoch = epoch /\ rt'[b].isr = isr
          /\ \A c \in Brokers \ {b} : rt'[c] = rt[c]
      BY <1>2 DEF IndInv, TypeInv
    <2>2. QED
      BY <1>4, <2>1 DEF Asks
  <1>6. \A c \in Brokers : Moves(c)
    BY <1>5, RestMoves DEF CommittedInv, LeadersInv, DecideIsr, disk
  <1>7. Admits
    <2>1. meta'.isr \ meta.isr = {} \/ Count({"stale"})
      BY <1>2 DEF AlterIsr, Readmit
    <2>2. ~ Count({"stale"})
      BY NoneCounted DEF Disturbances
    <2>3. QED
      BY <2>1, <2>2 DEF Admits
  <1>8. Reigns
    <2>1. /\ meta'.leader = meta.leader /\ meta'.leader_epoch = meta.leader_epoch
          /\ meta' = meta \/ meta.leader \in meta'.isr
      BY <1>4
    <2>2. QED
      BY <2>1, SameReigns DEF CommittedInv, LeadersInv
  <1>9. Acks
    BY DEF Acks, DecideIsr
  <1>10. QED
    BY <1>6, <1>7, <1>8, <1>9, CommittedStep

\* The use of the answer: the ISR it was for, or none.
LEMMA AdoptMoves ==
  ASSUME IndInv, IndInv', PendInv, NEW b \in Brokers, NEW epoch, NEW isr \in SUBSET Brokers,
         NEW ok \in BOOLEAN, Adopt(b, epoch, isr, ok),
         log'[b] = log[b], epochs'[b] = epochs[b],
         rt'[b].call # "metadata", rt'[b].call # "altered",
         ok => \/ epoch = meta'.leader_epoch /\ isr = meta'.isr
               \/ rt[b].call = "altered" /\ rt[b].ok /\ rt[b].epoch = epoch /\ rt[b].isr = isr
  PROVE  /\ Moves(b) /\ Acks
         /\ \A c \in Brokers \ {b} : rep'[c] = rep[c]
         /\ rep'[b].isr = IF ok /\ rep[b].is_leader /\ rep[b].epoch = epoch THEN isr ELSE rep[b].isr
         /\ rep'[b].epoch = rep[b].epoch /\ rep'[b].is_leader = rep[b].is_leader
         /\ rep'[b].fetcher = rep[b].fetcher
  <1>1. rep[b] \in Replica
    BY DEF IndInv, TypeInv
  <1>2. PICK d : d = IF ok /\ rep[b].is_leader /\ rep[b].epoch = epoch THEN isr ELSE rep[b].isr
    OBVIOUS
  <1>3. PICK r : r = [rep[b] EXCEPT !.isr = d]
    OBVIOUS
  <1>4. d \in SUBSET Brokers
    BY <1>1, <1>2 DEF Replica
  <1>5. r \in Replica
    BY <1>1, <1>3, <1>4 DEF Replica
  <1>6. /\ r.hwm = rep[b].hwm /\ r.epoch = rep[b].epoch /\ r.is_leader = rep[b].is_leader
        /\ r.fetcher = rep[b].fetcher /\ r.match_offsets = rep[b].match_offsets
        /\ r.isr = d /\ r.pending_all = rep[b].pending_all
    BY <1>1, <1>3 DEF Replica
  <1>7. Advance(b, r, LogEnd(b))
    <2>1. CASE ok /\ rep[b].is_leader /\ rep[b].epoch = epoch
      BY <1>2, <1>3, <2>1 DEF Adopt
    <2>2. CASE ~ (ok /\ rep[b].is_leader /\ rep[b].epoch = epoch)
      <3>1. r = rep[b]
        BY <1>1, <1>2, <1>3, <2>2 DEF Replica
      <3>2. QED
        BY <2>2, <3>1 DEF Adopt
    <2>3. QED
      BY <2>1, <2>2
  <1>8. \A c \in r.pending_all : r.is_leader /\ Holds(b, c)
    BY <1>6 DEF PendInv
  <1>9. /\ rep'[b].epoch = rep[b].epoch /\ rep'[b].is_leader = rep[b].is_leader
        /\ rep'[b].isr = d /\ rep'[b].fetcher = rep[b].fetcher
    <2>1. rep[b].epoch \in Nat
      BY EpochTypes
    <2>2. rep[b].epoch <= r.epoch
      BY <1>6, <2>1
    <2>3. /\ rep'[b].epoch = r.epoch /\ rep'[b].is_leader = r.is_leader /\ rep'[b].isr = r.isr
          /\ rep'[b].fetcher = r.fetcher
      BY <1>5, <1>6, <1>7, <1>8, <2>2, AdvanceMarks
    <2>4. QED
      BY <1>6, <2>3
  <1>10. TakesIsr(b)
    BY <1>2, <1>9 DEF TakesIsr, HasIsr, Leads
  <1>11. /\ Moves(b) /\ Acks
         /\ \A c \in Brokers \ {b} : rep'[c] = rep[c]
    BY <1>5, <1>6, <1>7, <1>8, <1>10, AdvanceMoves
  <1>12. QED
    BY <1>2, <1>9, <1>11

LEMMA AdoptIsrCommitted ==
  ASSUME IndInv, IndInv', ControlInv, ControlInv', CommittedInv, NEW b \in Brokers, AdoptIsr(b)
  PROVE  CommittedInv'
  <1>1. PICK epoch, isr, ok : epoch = rt[b].epoch /\ isr = rt[b].isr /\ ok = rt[b].ok
    OBVIOUS
  <1>2. isr \in SUBSET Brokers /\ ok \in BOOLEAN
    BY <1>1, ReplicaType DEF AdoptIsr, Call, Idle
  <1>3. Adopt(b, epoch, isr, ok)
    BY <1>1 DEF AdoptIsr
  <1>4. log' = log /\ epochs' = epochs /\ meta' = meta /\ rt[b].call = "altered"
    BY DEF AdoptIsr, disk
  <1>5. rt'[b].call = "idle" /\ \A c \in Brokers \ {b} : rt'[c] = rt[c]
    BY DEF AdoptIsr, IndInv, TypeInv, Idle
  <1>6. /\ Moves(b) /\ Acks
        /\ \A c \in Brokers \ {b} : rep'[c] = rep[c]
    BY <1>1, <1>2, <1>3, <1>4, <1>5, AdoptMoves DEF CommittedInv, LeadersInv
  <1>7. \A c \in Brokers \ {b} : Moves(c)
    <2>1. \A c \in Brokers \ {b} : Asks(c)
      BY <1>5 DEF Asks
    <2>2. QED
      BY <1>4, <1>6, <2>1, RestMoves DEF CommittedInv, LeadersInv
  <1>8. Reigns /\ Admits
    BY <1>4, SameMeta DEF CommittedInv, LeadersInv
  <1>9. QED
    BY <1>6, <1>7, <1>8, CommittedStep

\* What b has committed reaches as far as what it inherited and as its mark.
LEMMA CommittedLength ==
  ASSUME IndInv, NEW b \in Brokers, NEW n \in Nat, n <= LogEnd(b),
         n <= ReignStart(b) \/ n <= rep[b].hwm
  PROVE  n <= Len(Committed(b)) /\ Len(Committed(b)) \in Nat
  <1>1. PICK h \in Nat, u \in Nat, v \in Nat : h = rep[b].hwm /\ u = LogEnd(b) /\ v = ReignStart(b)
    BY LeaderTypes, LogTypes, CheckpointTypes
  <1>2. v <= u /\ Len(log[b]) = u /\ log[b] \in Seq(Ids)
    BY <1>1, LogTypes, CheckpointTypes
  <1>3. PICK p \in Nat : p = Min({h, u}) /\ p = IF h <= u THEN h ELSE u
    BY <1>1, MinOfTwo
  <1>4. PICK q \in Nat : q = Max({p, v}) /\ q = IF p <= v THEN v ELSE p
    BY <1>1, MaxOfTwo
  <1>5. Committed(b) = SubSeq(log[b], 1, q)
    BY <1>1, <1>3, <1>4 DEF Committed
  <1>6. q <= u
    <2>1. p = IF h <= u THEN h ELSE u
      BY <1>3
    <2>2. q = IF p <= v THEN v ELSE p
      BY <1>4
    <2>3. v <= u
      BY <1>2
    <2>4. QED
      BY <2>1, <2>2, <2>3
  <1>7. Len(SubSeq(log[b], 1, q)) = q
    BY <1>2, <1>6
  <1>8. QED
    BY <1>1, <1>3, <1>4, <1>5, <1>7

\* A follower that may be let in has what its leader keeps of what was committed.
LEMMA FollowsKeeps ==
  ASSUME IndInv, ControlInv, FollowInv, NEW b \in Brokers, NEW f \in Brokers, Follows(f, b),
         log' = log, rep'[f].fetcher = rep[f].fetcher
  PROVE  /\ rep[f].epoch = rep[b].epoch
         /\ \A s \in Seq(Ids), n \in Nat :
               /\ Keeps(b, s, n)
               /\ n <= ReignStart(b) \/ n <= rep[b].hwm \/ \E a \in acked : n = a[1] + 1
               => Keeps(f, s, n)'
  <1>1. /\ rep[f].fetcher.phase \in Connected /\ rep[f].fetcher.phase # "reconcile"
        /\ rep[f].fetcher.leader = b /\ rep[f].fetcher.epoch = rep[b].epoch
    BY DEF Follows
  <1>2. rep[f].fetcher.phase \notin Ended
    BY <1>1 DEF Connected, Ended
  <1>3. rep[f].epoch = rep[b].epoch
    BY <1>1, <1>2 DEF ControlInv, EpochInv
  <1>4. KeptLen(f) = LogEnd(f) /\ KeptLen(f)' = LogEnd(f)
    BY <1>1 DEF KeptLen, LogEnd
  <1>5. Shares(log[f], LogEnd(f), log[b])
    <2>1. rep[b].epoch \in Nat
      BY EpochTypes
    <2>2. Agrees(f)
      BY <1>1, <2>1, Following
    <2>3. QED
      BY <1>1, <1>4, <2>2 DEF Agrees
  <1>6. LogEnd(f) \in Nat /\ LogEnd(f) = Len(log[f]) /\ LogEnd(b) \in Nat /\ KeptLen(b) \in Nat /\ KeptLen(b) <= LogEnd(b)
    BY LogTypes
  <1>7. ASSUME NEW s \in Seq(Ids), NEW n \in Nat, Keeps(b, s, n), n <= LogEnd(f)
        PROVE  Keeps(f, s, n)'
    <2>1. \A i \in 1 .. n : log[b][i] = s[i]
      BY <1>7 DEF Keeps, Shares
    <2>2. \A i \in 1 .. n : log[b][i] = log[f][i]
      BY <1>5, <1>6, <1>7 DEF Shares
    <2>3. Shares(s, n, log[f])
      BY <1>6, <1>7, <2>1, <2>2 DEF Shares
    <2>4. QED
      BY <1>4, <1>7, <2>3 DEF Keeps
  <1>8. ASSUME NEW s, NEW n \in Nat, Keeps(b, s, n), n <= ReignStart(b) \/ n <= rep[b].hwm
        PROVE  n <= LogEnd(f)
    <2>1. n <= LogEnd(b)
      BY <1>6, <1>8 DEF Keeps
    <2>2. n <= Len(Committed(b)) /\ Len(Committed(b)) \in Nat
      BY <1>8, <2>1, CommittedLength
    <2>3. Len(Committed(b)) <= LogEnd(f)
      BY <1>6 DEF Follows, IsPrefixOf
    <2>4. QED
      BY <1>6, <2>2, <2>3
  <1>9. ASSUME NEW n \in Nat, NEW a \in acked, n = a[1] + 1 PROVE n <= LogEnd(f)
    <2>1. a[1] \in Nat
      BY DEF IndInv, TypeInv, Pairs
    <2>2. a[1] < LogEnd(f)
      BY DEF Follows, Holds
    <2>3. QED
      BY <1>6, <1>9, <2>1, <2>2
  <1>10. QED
    BY <1>3, <1>7, <1>8, <1>9

\* The leader changes the ISR, and takes up what the controller has accepted.
LEMMA ChangeIsrCommitted ==
  ASSUME IndInv, IndInv', ControlInv, ControlInv', FollowInv, CommittedInv, Undisturbed',
         NEW b \in Brokers, ChangeIsr(b)
  PROVE  CommittedInv'
  <1>0. TypeFacts /\ TypeFacts'
    BY TypeFactsHold, TypeFactsNext
  <1>1. PICK epoch \in Nat, isr \in SUBSET Brokers : epoch = rep[b].epoch /\ isr = Desired(b)
    BY DesiredType, EpochTypes
  <1>2. PICK ok \in BOOLEAN : AlterIsr(b, epoch, isr, ok, TRUE) /\ Adopt(b, epoch, isr, ok)
    BY <1>1 DEF ChangeIsr
  <1>3. /\ ~ ok => meta' = meta
        /\ ok => /\ meta'.isr = isr /\ epoch = meta'.leader_epoch /\ epoch = meta.leader_epoch
                 /\ meta'.leader = meta.leader /\ meta.leader \in isr
    BY <1>2, AlterIsrSays
  <1>4. log' = log /\ epochs' = epochs /\ rt' = rt /\ rt[b] = Idle /\ rep[b].is_leader
    BY DEF ChangeIsr, disk, WantsIsr, Heartbeats
  <1>5. rt'[b].call = "idle"
    BY <1>4 DEF Idle
  <1>6. /\ Moves(b) /\ Acks
        /\ \A c \in Brokers \ {b} : rep'[c] = rep[c]
        /\ rep'[b].isr = IF ok /\ rep[b].is_leader /\ rep[b].epoch = epoch THEN isr ELSE rep[b].isr
        /\ rep'[b].epoch = rep[b].epoch /\ rep'[b].is_leader = rep[b].is_leader
        /\ rep'[b].fetcher = rep[b].fetcher
    BY <1>2, <1>3, <1>4, <1>5, AdoptMoves DEF CommittedInv, LeadersInv
  <1>7. \A c \in Brokers \ {b} : Moves(c)
    <2>1. \A c \in Brokers \ {b} : Asks(c)
      BY <1>4 DEF Asks
    <2>2. QED
      BY <1>4, <1>6, <2>1, RestMoves DEF CommittedInv, LeadersInv
  <1>8. Reigns
    <2>1. /\ meta'.leader = meta.leader /\ meta'.leader_epoch = meta.leader_epoch
          /\ meta' = meta \/ meta.leader \in meta'.isr
      BY <1>3
    <2>2. QED
      BY <2>1, SameReigns DEF CommittedInv, LeadersInv
  <1>9. \A f \in meta'.isr \ meta.isr : Follows(f, b)
    <2>1. \/ meta'.isr \ meta.isr = {}
          \/ \A f \in meta'.isr \ meta.isr : Follows(f, b)
          \/ Count({"stale"})
      BY <1>2 DEF AlterIsr, Readmit
    <2>2. ~ Count({"stale"})
      BY NoneCounted DEF Disturbances
    <2>3. QED
      BY <2>1, <2>2
  <1>10. CASE ok
    <2>1. PICK w \in Nat : w = meta.leader_epoch /\ w = epoch
      BY <1>0, <1>3, <1>10 DEF TypeFacts
    <2>2. IsView(b, w)
      BY <1>1, <1>4, <2>1 DEF IsView
    <2>3. meta.leader \in Brokers
      BY <1>3, <1>10
    <2>4. b = meta.leader
      <3>1. PICK l \in Brokers : l = meta.leader
        BY <2>3
      <3>2. IsView(l, w)
        BY <2>1, <3>1 DEF IsView
      <3>3. QED
        BY <2>2, <3>1, <3>2 DEF ControlInv, OneLeader
    <2>5. ASSUME NEW z \in Brokers, NEW e \in Nat, NEW d \in SUBSET Brokers, HasIsr(z, e, d)', e = w
          PROVE  d = meta'.isr
      <3>1. IsView(z, e)'
        BY <2>5 DEF HasIsr, Leads, IsView
      <3>2. IsView(b, e)'
        <4>1. rep'[b].is_leader /\ e = rep'[b].epoch
          BY <1>1, <1>4, <1>6, <2>1, <2>5
        <4>2. QED
          BY <4>1 DEF IsView
      <3>3. z = b
        BY <3>1, <3>2 DEF ControlInv, OneLeader
      <3>4. d = rep'[b].isr
        BY <1>5, <2>5, <3>3 DEF HasIsr
      <3>5. QED
        BY <1>1, <1>3, <1>4, <1>6, <1>10, <3>4
    <2>6. ASSUME NEW f \in meta'.isr \ meta.isr
          PROVE  /\ rep[f].epoch = w
                 /\ \A s \in Seq(Ids), n \in Nat :
                       /\ Keeps(b, s, n)
                       /\ n <= ReignStart(b) \/ n <= rep[b].hwm \/ \E a \in acked : n = a[1] + 1
                       => Keeps(f, s, n)'
      <3>1. f \in Brokers /\ Follows(f, b)
        BY <1>0, <1>9, <2>6 DEF TypeFacts
      <3>2. rep'[f].fetcher = rep[f].fetcher
        BY <1>6, <3>1
      <3>3. QED
        BY <1>1, <1>4, <2>1, <3>1, <3>2, FollowsKeeps
    <2>7. Readmits(b)
      BY <1>1, <1>3, <1>4, <1>5, <1>10, <2>1, <2>4, <2>5, <2>6 DEF Readmits, Leads
    <2>8. QED
      BY <1>6, <1>7, <1>8, <2>7, CommittedStep DEF Admits
  <1>11. CASE ~ ok
    <2>1. Admits
      BY <1>3, <1>11 DEF Admits
    <2>2. QED
      BY <1>6, <1>7, <1>8, <2>1, CommittedStep
  <1>12. QED
    BY <1>10, <1>11

------------------------------------------------------------------------------
(* Metadata *)

\* Recording an epoch at the log end.
LEMMA RecordEpochValue ==
  ASSUME NEW es \in Seq(CheckpointEntry), NEW e \in Epochs, NEW s \in Nat,
         \A i \in DOMAIN es : es[i].start <= s
  PROVE  \A q \in {RecordEpoch(es, e, s)} :
            /\ \A i \in DOMAIN q :
                  (\E j \in DOMAIN es : q[i].epoch = es[j].epoch) \/ q[i].epoch = e
            /\ e <= CurrentEpoch(q)
            /\ q = es \/ (q # <<>> /\ q[Len(q)].start = s)
  <1>0. Entry(e, s).epoch = e /\ Entry(e, s).start = s
    BY DEF Entry
  <1>1. PICK n : n = Entry(e, s) /\ n.epoch = e /\ n.start = s
    BY <1>0
  <1>2. n \in CheckpointEntry
    BY <1>1 DEF Entry, CheckpointEntry
  <1>3. PICK ap : ap = Append(es, n)
    OBVIOUS
  <1>4. /\ ap \in Seq(CheckpointEntry) /\ Len(ap) = Len(es) + 1 /\ Len(es) \in Nat
        /\ \A i \in 1 .. Len(es) : ap[i] = es[i]
    BY <1>2, <1>3
  <1>5. ap[Len(es) + 1] = n
    BY <1>2, <1>3
  <1>6. DOMAIN ap = 1 .. Len(es) + 1 /\ DOMAIN es = 1 .. Len(es)
    BY <1>4
  <1>7. \A i \in DOMAIN es : es[i].epoch \in Nat /\ es[i].start \in Nat
    <2>1. \A i \in DOMAIN es : es[i] \in CheckpointEntry
      OBVIOUS
    <2>2. QED
      BY <2>1 DEF CheckpointEntry, Epochs
  <1>8. e \in Nat
    BY DEF Epochs
  <1>9. CASE e > CurrentEpoch(es) /\ Continues(es, e, s)
    <2>1. RecordEpoch(es, e, s) = ap
      BY <1>1, <1>3, <1>9 DEF RecordEpoch
    <2>2. ASSUME NEW i \in DOMAIN ap
          PROVE  (\E j \in DOMAIN es : ap[i].epoch = es[j].epoch) \/ ap[i].epoch = e
      <3>1. CASE i \in DOMAIN es
        BY <1>4, <1>6, <3>1
      <3>2. CASE i = Len(es) + 1
        BY <1>1, <1>5, <3>2
      <3>3. QED
        BY <1>4, <1>6, <2>2, <3>1, <3>2
    <2>3. ap # <<>> /\ ap[Len(ap)] = n
      BY <1>4, <1>5
    <2>4. CurrentEpoch(ap) = e
      BY <1>1, <2>3 DEF CurrentEpoch, Last
    <2>5. QED
      BY <1>1, <1>8, <2>1, <2>2, <2>3, <2>4
  <1>10. CASE ~ (e > CurrentEpoch(es) /\ Continues(es, e, s))
    <2>1. RecordEpoch(es, e, s) = es
      BY <1>10 DEF RecordEpoch
    <2>2. e <= CurrentEpoch(es)
      <3>1. CASE es = <<>>
        BY <1>8, <1>10, <3>1 DEF CurrentEpoch, Continues, Epochs
      <3>2. CASE es # <<>>
        <4>1. Len(es) \in DOMAIN es
          BY <1>4, <1>6, <3>2
        <4>2. PICK a \in Nat, t \in Nat : a = es[Len(es)].epoch /\ t = es[Len(es)].start
          BY <1>7, <4>1
        <4>3. t <= s
          BY <4>1, <4>2
        <4>4. CurrentEpoch(es) = a
          BY <3>2, <4>2 DEF CurrentEpoch, Last
        <4>5. ~ (e > a)
          BY <1>10, <4>2, <4>3, <4>4 DEF Continues, Last
        <4>6. QED
          BY <1>8, <4>4, <4>5
      <3>3. QED
        BY <3>1, <3>2
    <2>3. QED
      BY <2>1, <2>2
  <1>11. QED
    BY <1>9, <1>10

\* Broker b handles the tuple m, and recomputes its mark if it leads.
LEMMA ApplyMoves ==
  ASSUME IndInv, IndInv', ControlInv, PendInv, Undisturbed', NEW b \in Brokers, NEW m \in Tuple,
         Apply(b, m), log' = log, rt'[b].call = "idle",
         IF rt[b].call = "metadata" THEN m = rt[b].meta ELSE m = meta /\ meta' = meta
  PROVE  /\ Moves(b) /\ Acks
         /\ \A c \in Brokers \ {b} : rep'[c] = rep[c] /\ epochs'[c] = epochs[c]
  <1>0. TypeFacts /\ TypeFacts'
    BY TypeFactsHold, TypeFactsNext
  <1>1. /\ \A c \in Brokers \ {b} : rep'[c] = rep[c]
        /\ rep'[b].epoch = m.leader_epoch /\ rep'[b].is_leader = (m.leader = b)
        /\ \/ rep'[b].fetcher.phase \in Ended
           \/ rep'[b].fetcher = rep[b].fetcher /\ rep[b].epoch = m.leader_epoch
           \/ /\ m.leader \in Brokers \ {b} /\ rep'[b].fetcher.phase = "connect"
              /\ rep'[b].fetcher.leader = m.leader /\ rep'[b].fetcher.epoch = m.leader_epoch
    BY ApplyRole
  <1>2. Applies(b, m)
    BY <1>1 DEF Applies
  <1>3. Role(b) /\ Fetches(b)
    BY <1>1, <1>2 DEF Role, Fetches
  <1>4. m.leader_epoch \in Nat /\ rep[b].epoch <= m.leader_epoch /\ m.leader_epoch \in Epochs
        /\ m.isr \in SUBSET Brokers
    BY DEF ControlInv, EpochInv, Tuple, Epochs, PartitionState
  <1>5. Grows(b)
    <2>1. rep'[b].fetcher.phase # "reconcile" \/ rep'[b].fetcher = rep[b].fetcher
      BY <1>1 DEF Ended
    <2>2. QED
      BY <2>1, SameLogGrows
  <1>6. Data(b)
    BY <1>5 DEF Data
  <1>7. \/ /\ rep[b].epoch = m.leader_epoch /\ rep[b].is_leader = (m.leader = b)
           /\ Advance(b, Refreshed(rep[b], m), LogEnd(b)) /\ epochs' = epochs
        \/ /\ m.leader # b /\ rep' = [rep EXCEPT ![b] = Demoted(rep[b], m)]
           /\ UNCHANGED <<acked, epochs>>
        \/ /\ m.leader = b /\ Advance(b, Promoted(b, rep[b], m), LogEnd(b))
           /\ epochs' = [epochs EXCEPT ![b] = RecordEpoch(@, m.leader_epoch, LogEnd(b))]
    <2>1. ~ Preempted
      BY NotPreempted
    <2>2. QED
      BY <2>1 DEF Apply
  <1>8. \A c \in Brokers \ {b} : epochs'[c] = epochs[c]
    BY <1>7 DEF IndInv, TypeInv
  <1>9. ASSUME rep'[b].isr = m.isr PROVE TakesIsr(b)
    <2>1. ASSUME NEW e \in Nat, NEW isr \in SUBSET Brokers, HasIsr(b, e, isr)'
          PROVE  HasIsr(b, e, isr) \/ (e = meta'.leader_epoch /\ isr = meta'.isr)
      <3>1. m.leader = b /\ e = m.leader_epoch /\ isr = m.isr
        BY <1>1, <1>9, <2>1 DEF HasIsr, Leads
      <3>2. QED
        BY <3>1 DEF HasIsr
    <2>2. QED
      BY <2>1 DEF TakesIsr
  <1>10. rep[b] \in Replica
    BY DEF IndInv, TypeInv
  <1>11. \A a \in rep[b].pending_all : rep[b].is_leader /\ Holds(b, a)
    BY DEF PendInv
  <1>12. CASE /\ rep[b].epoch = m.leader_epoch /\ rep[b].is_leader = (m.leader = b)
              /\ Advance(b, Refreshed(rep[b], m), LogEnd(b)) /\ epochs' = epochs
    <2>1. PICK r \in Replica : r = Refreshed(rep[b], m)
      BY RefreshedType
    <2>2. PICK x : r = [rep[b] EXCEPT !.isr = m.isr, !.fetcher = x]
      BY <2>1 DEF Refreshed
    <2>3. /\ r.epoch = rep[b].epoch /\ r.is_leader = rep[b].is_leader /\ r.hwm = rep[b].hwm
          /\ r.isr = m.isr /\ r.match_offsets = rep[b].match_offsets
          /\ r.pending_all = rep[b].pending_all
      BY <1>10, <2>2 DEF Replica
    <2>4. Advance(b, r, LogEnd(b))
      BY <1>12, <2>1
    <2>5. rep[b].epoch <= r.epoch
      BY <1>4, <1>12, <2>3
    <2>6. /\ Marks(b) /\ Pends(b) /\ Acks /\ rep'[b].isr = r.isr
          /\ rep'[b].match_offsets = r.match_offsets
      BY <1>11, <2>3, <2>4, <2>5, AdvanceMarks
    <2>7. Records(b)
      BY <1>1, <1>12 DEF Records
    <2>8. LeaderStep(b)
      <3>1. rep[b].is_leader => SameReign(b)
        BY <1>1, <1>5, <1>12, LeaderShares DEF SameReign
      <3>2. \A c \in Brokers : Learns(b, c)
        BY <2>3, <2>6 DEF Learns
      <3>3. QED
        BY <1>1, <1>12, <3>1, <3>2 DEF LeaderStep
    <2>9. QED
      BY <1>1, <1>3, <1>6, <1>8, <1>9, <2>3, <2>6, <2>7, <2>8 DEF Moves
  <1>13. CASE /\ m.leader # b /\ rep' = [rep EXCEPT ![b] = Demoted(rep[b], m)]
              /\ UNCHANGED <<acked, epochs>>
    <2>1. rep'[b] = Demoted(rep[b], m)
      BY <1>13 DEF IndInv, TypeInv
    <2>2. PICK x, y, z : rep'[b] = [rep[b] EXCEPT !.epoch = m.leader_epoch, !.isr = m.isr,
                                     !.is_leader = FALSE, !.match_offsets = y, !.recent = z,
                                     !.pending_all = {}, !.fetcher = x]
      BY <2>1 DEF Demoted
    <2>3. ~ rep'[b].is_leader /\ rep'[b].hwm = rep[b].hwm /\ rep'[b].pending_all = {}
      BY <1>10, <2>2 DEF Replica
    <2>4. Marks(b) /\ Pends(b)
      BY <1>1, <1>4, <2>3 DEF Marks, Pends
    <2>5. Records(b) /\ LeaderStep(b)
      BY <1>13, <2>3 DEF Records, LeaderStep
    <2>6. TakesIsr(b)
      BY <2>3 DEF TakesIsr, HasIsr, Leads
    <2>7. Acks
      BY <1>13 DEF Acks
    <2>8. QED
      BY <1>1, <1>3, <1>6, <1>8, <2>4, <2>5, <2>6, <2>7 DEF Moves
  <1>14. CASE /\ m.leader = b /\ Advance(b, Promoted(b, rep[b], m), LogEnd(b))
              /\ epochs' = [epochs EXCEPT ![b] = RecordEpoch(@, m.leader_epoch, LogEnd(b))]
    <2>1. PICK r \in Replica : r = Promoted(b, rep[b], m)
      BY PromotedType
    <2>2. PICK y, z : /\ y = [f \in Brokers |-> 0]
                      /\ r = [rep[b] EXCEPT !.epoch = m.leader_epoch, !.isr = m.isr,
                                     !.is_leader = TRUE, !.match_offsets = y, !.recent = z,
                                     !.fetcher = NoFetcher]
      BY <2>1 DEF Promoted
    <2>3. /\ r.epoch = m.leader_epoch /\ r.is_leader /\ r.hwm = rep[b].hwm
          /\ r.isr = m.isr /\ r.match_offsets = y /\ r.pending_all = rep[b].pending_all
      BY <1>10, <2>2 DEF Replica
    <2>4. Advance(b, r, LogEnd(b))
      BY <1>14, <2>1
    <2>5. rep[b].epoch <= r.epoch
      BY <1>4, <2>3
    <2>6. /\ Marks(b) /\ Pends(b) /\ Acks /\ rep'[b].isr = r.isr
          /\ rep'[b].match_offsets = r.match_offsets
      BY <1>11, <2>3, <2>4, <2>5, AdvanceMarks
    <2>7. LeaderStep(b)
      BY <2>2, <2>3, <2>6 DEF LeaderStep
    <2>8. Records(b)
      <3>1. PICK es \in Seq(CheckpointEntry), k \in Nat, e \in Epochs :
               es = epochs[b] /\ k = LogEnd(b) /\ e = m.leader_epoch
        BY <1>4, DiskType
      <3>2. \A i \in DOMAIN es : es[i].start <= k
        BY <3>1, DiskType
      <3>3. PICK q : q = RecordEpoch(es, e, k)
        OBVIOUS
      <3>4. epochs'[b] = q
        BY <1>14, <3>1, <3>3 DEF IndInv, TypeInv
      <3>5. /\ \A i \in DOMAIN q :
                  (\E j \in DOMAIN es : q[i].epoch = es[j].epoch) \/ q[i].epoch = e
            /\ e <= CurrentEpoch(q)
            /\ q = es \/ (q # <<>> /\ q[Len(q)].start = k)
        BY <3>2, <3>3, RecordEpochValue
      <3>6. rep'[b].epoch = e /\ 0 < e
        BY <1>1, <3>1 DEF Epochs
      <3>7. LogEnd(b)' = k
        BY <3>1 DEF LogEnd
      <3>8. q # <<>> => ReignStart(b)' = q[Len(q)].start
        BY <3>4 DEF ReignStart, Last
      <3>9. QED
        BY <3>1, <3>4, <3>5, <3>6, <3>7, <3>8 DEF Records
    <2>9. QED
      BY <1>1, <1>3, <1>6, <1>8, <1>9, <2>3, <2>6, <2>7, <2>8 DEF Moves
  <1>15. QED
    BY <1>7, <1>12, <1>13, <1>14

\* What a broker's handling of metadata means for the whole.
LEMMA ApplyCommitted ==
  ASSUME IndInv, IndInv', ControlInv, ControlInv', CommittedInv, Undisturbed',
         NEW b \in Brokers, NEW m \in Tuple, Apply(b, m), log' = log, meta' = meta,
         rt'[b].call = "idle", \A c \in Brokers \ {b} : rt'[c] = rt[c],
         IF rt[b].call = "metadata" THEN m = rt[b].meta ELSE m = meta
  PROVE  CommittedInv'
  <1>1. /\ Moves(b) /\ Acks
        /\ \A c \in Brokers \ {b} : rep'[c] = rep[c] /\ epochs'[c] = epochs[c]
    BY ApplyMoves DEF CommittedInv, LeadersInv
  <1>2. \A c \in Brokers \ {b} : Moves(c)
    <2>1. \A c \in Brokers \ {b} : Asks(c)
      BY DEF Asks
    <2>2. QED
      BY <1>1, <2>1, RestMoves DEF CommittedInv, LeadersInv
  <1>3. Reigns /\ Admits
    BY SameMeta DEF CommittedInv, LeadersInv
  <1>4. QED
    BY <1>1, <1>2, <1>3, CommittedStep

LEMMA RefreshMetadataCommitted ==
  ASSUME IndInv, IndInv', ControlInv, ControlInv', CommittedInv, Undisturbed', NEW b \in Brokers,
         RefreshMetadata(b)
  PROVE  CommittedInv'
  <1>1. meta \in Tuple
    BY DEF IndInv, TypeInv
  <1>2. rt[b].call = "idle" /\ rt' = rt /\ Apply(b, meta) /\ log' = log /\ meta' = meta
    BY DEF RefreshMetadata, Heartbeats, Idle
  <1>3. QED
    BY <1>1, <1>2, ApplyCommitted

LEMMA ReceiveMetadataCommitted ==
  ASSUME IndInv, IndInv', ControlInv, ControlInv', CommittedInv, Undisturbed', NEW b \in Brokers,
         ReceiveMetadata(b)
  PROVE  CommittedInv'
  <1>1. rt[b].call = "metadata" /\ rt[b].meta \in Tuple
    BY EpochTypes DEF ReceiveMetadata
  <1>2. PICK m \in Tuple : m = rt[b].meta
    BY <1>1
  <1>3. rt'[b].call = "idle" /\ \A c \in Brokers \ {b} : rt'[c] = rt[c]
    BY DEF ReceiveMetadata, IndInv, TypeInv, Idle
  <1>4. Apply(b, m) /\ log' = log /\ meta' = meta
    BY <1>2 DEF ReceiveMetadata
  <1>5. QED
    BY <1>1, <1>2, <1>3, <1>4, ApplyCommitted

------------------------------------------------------------------------------
(* Crashes *)

LEMMA CrashCommitted ==
  ASSUME IndInv, IndInv', ControlInv, ControlInv', CommittedInv, NEW b \in Brokers, Crash(b)
  PROVE  CommittedInv'
  <1>1. /\ meta' = meta /\ acked' = acked /\ log' = log /\ epochs' = epochs
        /\ rep' = [c \in Brokers |->
                 IF c = b THEN NewReplica
                 ELSE IF /\ rep[c].fetcher.phase \in Connected
                         /\ rep[c].fetcher.leader = b
                      THEN [rep[c] EXCEPT !.fetcher = Pinged]
                      ELSE rep[c]]
        /\ rt' = [rt EXCEPT ![b] = Idle]
    BY DEF Crash, disk
  <1>2. /\ rep'[b].epoch = 0 /\ rep'[b].is_leader = FALSE /\ rep'[b].fetcher.phase = "dead"
        /\ rep'[b].hwm = 0 /\ rep'[b].pending_all = {}
    BY <1>1 DEF NewReplica, NoFetcher
  <1>3. rep \in [Brokers -> Replica] /\ rt \in [Brokers -> Call]
    BY DEF IndInv, TypeInv
  <1>4. rt'[b].call = "idle" /\ \A c \in Brokers \ {b} : rt'[c] = rt[c]
    BY <1>1, <1>3 DEF Idle
  <1>5. \A c \in Brokers : Asks(c)
    BY <1>4 DEF Asks
  <1>6. Moves(b)
    <2>1. Role(b)
      BY <1>2, <1>4 DEF Role, Restarts
    <2>2. Fetches(b)
      BY <1>2 DEF Fetches, Ended
    <2>3. Records(b) /\ LeaderStep(b)
      BY <1>1, <1>2 DEF Records, LeaderStep
    <2>4. Data(b)
      BY <1>1, <1>2, SameLogGrows DEF Data
    <2>5. TakesIsr(b)
      BY <1>2, <1>4 DEF TakesIsr, HasIsr, Leads
    <2>6. Marks(b) /\ Pends(b)
      BY <1>2 DEF Marks, Pends
    <2>7. QED
      BY <2>1, <2>2, <2>3, <2>4, <2>5, <2>6 DEF Moves
  <1>7. ASSUME NEW c \in Brokers \ {b} PROVE Moves(c)
    <2>1. CASE rep[c].fetcher.phase \in Connected /\ rep[c].fetcher.leader = b
      <3>1. rep'[c] = [rep[c] EXCEPT !.fetcher = Pinged] /\ rep[c] \in Replica
        BY <1>1, <1>3, <2>1
      <3>2. /\ rep'[c].epoch = rep[c].epoch /\ rep'[c].is_leader = rep[c].is_leader
            /\ rep'[c].isr = rep[c].isr /\ rep'[c].match_offsets = rep[c].match_offsets
            /\ rep'[c].hwm = rep[c].hwm /\ rep'[c].pending_all = rep[c].pending_all
            /\ rep'[c].fetcher.phase = "pinged"
        BY <3>1 DEF Replica, Pinged
      <3>3. Still(c)
        BY <1>1, <3>2 DEF Still, Goes, Ended
      <3>4. Grows(c)
        BY <1>1, <3>2, SameLogGrows
      <3>5. QED
        BY <1>5, <3>3, <3>4, StillMoves DEF CommittedInv, LeadersInv
    <2>2. CASE ~ (rep[c].fetcher.phase \in Connected /\ rep[c].fetcher.leader = b)
      <3>1. rep'[c] = rep[c]
        BY <1>1, <2>2
      <3>2. QED
        BY <1>1, <1>5, <3>1, RestMoves DEF CommittedInv, LeadersInv
    <2>3. QED
      BY <2>1, <2>2
  <1>8. \A c \in Brokers : Moves(c)
    BY <1>6, <1>7
  <1>9. QED
    BY <1>1, <1>8, QuietCommitted

------------------------------------------------------------------------------
(* Followers *)

\* What a follower with a live fetcher may write to its checkpoint.
LEMMA FollowerRecords ==
  ASSUME IndInv, ControlInv, meta' = meta, NEW f \in Brokers, rep[f].fetcher.phase \notin Ended,
         rep'[f].epoch = rep[f].epoch, ~ rep'[f].is_leader,
         \A i \in DOMAIN epochs'[f] :
            \/ \E j \in DOMAIN epochs[f] : epochs'[f][i].epoch = epochs[f][j].epoch
            \/ epochs'[f][i].epoch = rep[f].epoch
  PROVE  Records(f)
  <1>1. PICK l \in Brokers, e \in Nat :
           l = rep[f].fetcher.leader /\ e = rep[f].fetcher.epoch /\ 0 < e
    BY LiveFetcher DEF Epochs
  <1>2. e = rep[f].epoch /\ l # f
    BY <1>1 DEF ControlInv, EpochInv
  <1>3. IsView(l, e)
    BY <1>1 DEF IsView
  <1>4. e <= meta.leader_epoch /\ meta.leader_epoch \in Nat
    BY <1>2, EpochTypes DEF ControlInv, EpochInv
  <1>5. f = meta.leader => e # meta.leader_epoch
    <2>1. SUFFICES ASSUME f = meta.leader, e = meta.leader_epoch PROVE FALSE
      OBVIOUS
    <2>2. IsView(f, e)
      BY <2>1 DEF IsView
    <2>3. QED
      BY <1>2, <1>3, <2>2 DEF ControlInv, OneLeader
  <1>6. f = meta.leader => e < meta.leader_epoch
    BY <1>4, <1>5
  <1>7. 0 < rep'[f].epoch /\ (f = meta'.leader => rep'[f].epoch < meta'.leader_epoch)
    BY <1>1, <1>2, <1>6
  <1>8. QED
    BY <1>7 DEF Records

\* A follower goes on with its fetcher, and may change its log and its checkpoint.
LEMMA FollowerMoves ==
  ASSUME IndInv, IndInv', ControlInv, PendInv, meta' = meta, rt' = rt, NEW f \in Brokers,
         rep[f].fetcher.phase \notin Ended, Goes(f), Data(f),
         rep'[f].epoch = rep[f].epoch, rep'[f].is_leader = rep[f].is_leader,
         rep'[f].hwm = rep[f].hwm, rep'[f].pending_all = rep[f].pending_all,
         \A i \in DOMAIN epochs'[f] :
            \/ \E j \in DOMAIN epochs[f] : epochs'[f][i].epoch = epochs[f][j].epoch
            \/ epochs'[f][i].epoch = rep[f].epoch
  PROVE  Moves(f)
  <1>1. ~ rep[f].is_leader /\ ~ rep'[f].is_leader
    BY DEF IndInv, LeaderInv
  <1>2. Role(f) /\ Fetches(f)
    BY DEF Role, Stays, Fetches, Goes
  <1>3. Records(f)
    BY <1>1, FollowerRecords
  <1>4. LeaderStep(f)
    BY <1>1 DEF LeaderStep
  <1>5. TakesIsr(f)
    BY <1>1 DEF TakesIsr, HasIsr, Leads
  <1>6. Marks(f)
    <2>1. rep[f].epoch \in Nat
      BY EpochTypes
    <2>2. rep[f].epoch <= rep'[f].epoch
      BY <2>1
    <2>3. QED
      BY <2>2 DEF Marks
  <1>7. Pends(f)
    BY <1>1 DEF PendInv, Pends
  <1>8. QED
    BY <1>2, <1>3, <1>4, <1>5, <1>6, <1>7 DEF Moves

\* What a truncation leaves.
LEMMA TruncateLeaves ==
  ASSUME IndInv, NEW f \in Brokers, NEW n \in Nat, Truncate(f, n)
  PROVE  /\ \A c \in Brokers \ {f} : log'[c] = log[c] /\ epochs'[c] = epochs[c]
         /\ LogEnd(f)' = CutAt(f, n) /\ Shares(log[f], CutAt(f, n), log'[f])
         /\ \A i \in DOMAIN epochs'[f] :
               \E j \in DOMAIN epochs[f] : epochs'[f][i].epoch = epochs[f][j].epoch
  <1>1. /\ log \in [Brokers -> Seq(Ids)] /\ epochs \in [Brokers -> Seq(CheckpointEntry)]
        /\ LogEnd(f) = Len(log[f]) /\ Len(log[f]) \in Nat
    BY LogTypes DEF IndInv, TypeInv
  <1>2. CASE n < LogEnd(f)
    <2>1. log' = [log EXCEPT ![f] = SubSeq(@, 1, n)] /\ epochs' = [epochs EXCEPT ![f] = TruncateTo(@, n)]
      BY <1>2 DEF Truncate
    <2>2. log'[f] = SubSeq(log[f], 1, n) /\ epochs'[f] = TruncateTo(epochs[f], n)
      BY <1>1, <2>1
    <2>3. Len(log'[f]) = n /\ \A i \in 1 .. n : log'[f][i] = log[f][i]
      BY <1>1, <1>2, <2>2
    <2>4. \A i \in DOMAIN epochs'[f] : \E j \in DOMAIN epochs[f] : epochs'[f][i] = epochs[f][j]
      BY <1>1, <2>2, TruncateToValue
    <2>5. CutAt(f, n) = n
      BY <1>2 DEF CutAt
    <2>6. n <= Len(log'[f])
      BY <2>3
    <2>7. Shares(log[f], CutAt(f, n), log'[f])
      BY <2>3, <2>5, <2>6 DEF Shares
    <2>8. \A c \in Brokers \ {f} : log'[c] = log[c] /\ epochs'[c] = epochs[c]
      BY <1>1, <2>1
    <2>9. LogEnd(f)' = CutAt(f, n)
      BY <2>3, <2>5 DEF LogEnd
    <2>10. \A i \in DOMAIN epochs'[f] :
              \E j \in DOMAIN epochs[f] : epochs'[f][i].epoch = epochs[f][j].epoch
      BY <2>4
    <2>11. QED
      BY <2>7, <2>8, <2>9, <2>10
  <1>3. CASE ~ (n < LogEnd(f))
    <2>1. log' = log /\ epochs' = epochs /\ CutAt(f, n) = LogEnd(f)
      BY <1>3 DEF Truncate, disk, CutAt
    <2>2. Shares(log[f], CutAt(f, n), log'[f])
      BY <1>1, <2>1 DEF Shares
    <2>3. LogEnd(f)' = CutAt(f, n)
      BY <2>1 DEF LogEnd
    <2>4. QED
      BY <2>1, <2>2, <2>3
  <1>4. QED
    BY <1>2, <1>3

\* An answer that is no miscut takes off nothing that others count on.
LEMMA PartsKeeps ==
  ASSUME IndInv, NEW f \in Brokers, NEW l \in Brokers, NEW n \in Nat, Parts(f, l, n),
         KeptLen(f)' = CutAt(f, n), Shares(log[f], CutAt(f, n), log'[f]), log'[l] = log[l]
  PROVE  /\ \A s \in Seq(Ids), m \in Nat :
               Keeps(f, s, m) /\ Shares(s, m, log[l]) /\ CountedOn(f) => Keeps(f, s, m)'
         /\ \A m \in Nat : m = rep[l].match_offsets[f] => Keeps(f, log[l], m)'
  <1>1. PICK k \in Nat : k = CutAt(f, n) /\ k <= LogEnd(f) /\ k = Min({n, LogEnd(f)})
    <2>1. LogEnd(f) \in Nat
      BY LogTypes
    <2>2. CutAt(f, n) \in Nat /\ CutAt(f, n) <= LogEnd(f) /\ Min({n, LogEnd(f)}) = CutAt(f, n)
      BY <2>1, MinOfTwo DEF CutAt
    <2>3. QED
      BY <2>2
  <1>2. /\ Shares(log[f], k, log[l])
        /\ rep[l].match_offsets[f] <= k
        /\ \/ ~ CountedOn(f) \/ k = LogEnd(f) \/ k = LogEnd(l)
           \/ log[f][k + 1] # log[l][k + 1]
    BY <1>1, PartsShares DEF Parts
  <1>3. KeptLen(f)' = k /\ Shares(log[f], k, log'[f])
    BY <1>1
  <1>4. /\ KeptLen(f) \in Nat /\ KeptLen(f) <= LogEnd(f) /\ LogEnd(f) \in Nat
        /\ LogEnd(l) = Len(log[l]) /\ LogEnd(l) \in Nat
    BY LogTypes
  <1>5. k <= Len(log'[f]) /\ \A i \in 1 .. k : log'[f][i] = log[f][i] /\ log[l][i] = log[f][i]
    BY <1>2, <1>3 DEF Shares
  <1>6. ASSUME NEW s \in Seq(Ids), NEW m \in Nat,
               Keeps(f, s, m), Shares(s, m, log[l]), CountedOn(f)
        PROVE  Keeps(f, s, m)'
    <2>1. /\ m <= KeptLen(f) /\ \A i \in 1 .. m : log[f][i] = s[i]
          /\ m <= LogEnd(l) /\ \A i \in 1 .. m : log[l][i] = s[i]
      BY <1>4, <1>6 DEF Keeps, Shares
    <2>2. m <= k
      <3>1. SUFFICES ASSUME k < m PROVE FALSE
        BY <1>1
      <3>2. k + 1 \in 1 .. m /\ k < LogEnd(f) /\ k < LogEnd(l)
        BY <1>4, <2>1, <3>1
      <3>3. log[f][k + 1] = log[l][k + 1]
        BY <2>1, <3>2
      <3>4. QED
        BY <1>2, <1>4, <1>6, <3>2, <3>3
    <2>3. m <= k /\ \A i \in 1 .. m : i \in 1 .. k
      BY <2>2
    <2>4. \A i \in 1 .. m : log'[f][i] = s[i]
      BY <1>5, <2>1, <2>3
    <2>5. m <= Len(log'[f])
      BY <1>5, <2>3
    <2>6. QED
      BY <1>3, <2>3, <2>4, <2>5 DEF Keeps, Shares
  <1>7. ASSUME NEW m \in Nat, m = rep[l].match_offsets[f]
        PROVE  Keeps(f, log[l], m)'
    <2>1. m <= k /\ \A i \in 1 .. m : i \in 1 .. k
      BY <1>2, <1>7
    <2>2. \A i \in 1 .. m : log'[f][i] = log'[l][i]
      BY <1>5, <2>1
    <2>3. m <= Len(log'[f])
      BY <1>5, <2>1
    <2>4. QED
      BY <1>3, <2>1, <2>2, <2>3 DEF Keeps, Shares
  <1>8. QED
    BY <1>6, <1>7

\* A follower cuts its log by an answer that is no miscut, or is about to.
LEMMA PartsCuts ==
  ASSUME IndInv, ControlInv, NEW f \in Brokers, NEW l \in Brokers, NEW n \in Nat, Parts(f, l, n),
         rep[f].fetcher.phase \notin Ended, rep[f].fetcher.leader = l, rep[l].is_leader,
         KeptLen(f)' = CutAt(f, n), Shares(log[f], CutAt(f, n), log'[f]), log'[l] = log[l]
  PROVE  Cuts(f, l)
  <1>1. PICK e \in Nat : e = rep[f].fetcher.epoch /\ 0 < e
    BY LiveFetcher DEF Epochs
  <1>2. rep[f].epoch = e /\ IsView(l, e)
    BY <1>1 DEF ControlInv, EpochInv, IsView
  <1>3. ~ rep[f].is_leader
    BY DEF IndInv, LeaderInv
  <1>4. /\ \A s \in Seq(Ids), m \in Nat :
               Keeps(f, s, m) /\ Shares(s, m, log[l]) /\ CountedOn(f) => Keeps(f, s, m)'
        /\ \A m \in Nat : m = rep[l].match_offsets[f] => Keeps(f, log[l], m)'
    BY PartsKeeps
  <1>5. QED
    BY <1>1, <1>2, <1>3, <1>4 DEF Cuts

LEMMA EpochCheckCommitted ==
  ASSUME IndInv, IndInv', ControlInv, ControlInv', CommittedInv, Undisturbed', NEW f \in Brokers,
         EpochCheck(f)
  PROVE  CommittedInv'
  <1> DEFINE x == rep[f].fetcher
             l == x.leader
             local == CurrentEpoch(epochs[f])
             end == EndOffsetFor(epochs[l], local, LogEnd(l))
             pull == Fetcher("fetch", l, x.epoch, local, <<>>)
             wait == Fetcher("reconcile", l, x.epoch, local, end)
  <1>1. x.phase = "connect" /\ x.phase \notin Ended
    BY DEF EpochCheck, Ended
  <1>2. l \in Brokers /\ x.epoch \in Nat
    BY <1>1, LiveFetcher
  <1>3. end \in Nat
    BY <1>2, EndOffsetType
  <1>4. /\ meta' = meta /\ acked' = acked /\ rt' = rt
        /\ \/ SetFetcher(f, Pinged) /\ UNCHANGED disk
           \/ rep[l].is_leader /\ Truncate(f, end) /\ SetFetcher(f, pull) /\ Count(Miscut(f, l, end))
           \/ /\ rep[l].is_leader /\ Count({"delays"} \cup Miscut(f, l, end))
              /\ SetFetcher(f, wait) /\ UNCHANGED disk
    BY DEF EpochCheck
  <1>5. pull.phase = "fetch" /\ pull.leader = l /\ pull.epoch = x.epoch
    BY DEF Fetcher
  <1>6. /\ wait.phase = "reconcile" /\ wait.leader = l /\ wait.epoch = x.epoch
        /\ wait.data = end
    BY DEF Fetcher
  <1>7. l # f
    BY <1>1 DEF ControlInv, EpochInv
  <1>8. x = rep[f].fetcher
    OBVIOUS
  <1> HIDE DEF x, l, end, pull, wait, local
  <1>9. PendInv /\ \A c \in Brokers : Asks(c)
    BY <1>4 DEF CommittedInv, LeadersInv, Asks
  <1>10. CASE SetFetcher(f, Pinged) /\ UNCHANGED disk
    BY <1>4, <1>9, <1>10, FetcherCommitted DEF Pinged, Ended
  <1>11. ASSUME NEW K, Count(K), Miscut(f, l, end) \subseteq K
         PROVE  Parts(f, l, end)
    <2>1. "miscuts" \notin Miscut(f, l, end)
      BY <1>11, NoneCounted DEF Disturbances
    <2>2. QED
      BY <2>1 DEF Miscut
  <1>12. ASSUME NEW y, SetFetcher(f, y), y.leader = l, y.epoch = x.epoch, rep[l].is_leader,
                Parts(f, l, end),
                KeptLen(f)' = CutAt(f, end), Shares(log[f], CutAt(f, end), log'[f]),
                \A c \in Brokers \ {f} : log'[c] = log[c] /\ epochs'[c] = epochs[c],
                \A i \in DOMAIN epochs'[f] :
                   \E j \in DOMAIN epochs[f] : epochs'[f][i].epoch = epochs[f][j].epoch
         PROVE  CommittedInv'
    <2>1. /\ rep'[f].fetcher = y
          /\ \A c \in Brokers \ {f} : rep'[c] = rep[c]
          /\ rep'[f].epoch = rep[f].epoch /\ rep'[f].is_leader = rep[f].is_leader
          /\ rep'[f].hwm = rep[f].hwm /\ rep'[f].pending_all = rep[f].pending_all
      BY <1>12, FetcherFields
    <2>2. Goes(f)
      BY <1>1, <1>8, <1>12, <2>1 DEF Goes, l
    <2>3. Cuts(f, l)
      BY <1>1, <1>2, <1>3, <1>7, <1>8, <1>12, PartsCuts DEF l
    <2>4. Data(f)
      BY <1>2, <2>3 DEF Data
    <2>5. Moves(f)
      BY <1>1, <1>4, <1>8, <1>9, <1>12, <2>1, <2>2, <2>4, FollowerMoves
    <2>6. QED
      BY <1>4, <1>9, <1>12, <2>1, <2>5, OneMoves
  <1>13. CASE rep[l].is_leader /\ Truncate(f, end) /\ SetFetcher(f, pull) /\ Count(Miscut(f, l, end))
    <2>1. Parts(f, l, end)
      BY <1>11, <1>13
    <2>2. /\ \A c \in Brokers \ {f} : log'[c] = log[c] /\ epochs'[c] = epochs[c]
          /\ LogEnd(f)' = CutAt(f, end) /\ Shares(log[f], CutAt(f, end), log'[f])
          /\ \A i \in DOMAIN epochs'[f] :
               \E j \in DOMAIN epochs[f] : epochs'[f][i].epoch = epochs[f][j].epoch
      BY <1>3, <1>13, TruncateLeaves
    <2>3. rep'[f].fetcher = pull
      BY <1>13, FetcherFields
    <2>4. KeptLen(f)' = CutAt(f, end)
      BY <1>5, <2>2, <2>3 DEF KeptLen
    <2>5. QED
      BY <1>5, <1>12, <1>13, <2>1, <2>2, <2>4
  <1>14. CASE /\ rep[l].is_leader /\ Count({"delays"} \cup Miscut(f, l, end))
              /\ SetFetcher(f, wait) /\ UNCHANGED disk
    <2>1. Parts(f, l, end)
      BY <1>11, <1>14
    <2>2. log' = log /\ epochs' = epochs /\ LogEnd(f)' = LogEnd(f)
      BY <1>14 DEF disk, LogEnd
    <2>3. rep'[f].fetcher = wait
      BY <1>14, FetcherFields
    <2>4. KeptLen(f)' = CutAt(f, end)
      BY <1>6, <2>2, <2>3 DEF KeptLen, CutAt
    <2>5. Shares(log[f], CutAt(f, end), log'[f])
      <3>1. LogEnd(f) \in Nat /\ LogEnd(f) = Len(log[f])
        BY LogTypes
      <3>2. CutAt(f, end) <= Len(log[f])
        BY <1>3, <3>1 DEF CutAt
      <3>3. QED
        BY <2>2, <3>2 DEF Shares
    <2>6. QED
      BY <1>6, <1>12, <1>14, <2>1, <2>2, <2>4, <2>5
  <1>15. QED
    BY <1>4, <1>10, <1>13, <1>14

LEMMA ReconcileCommitted ==
  ASSUME IndInv, IndInv', ControlInv, ControlInv', CommittedInv, Undisturbed', NEW f \in Brokers,
         Reconcile(f)
  PROVE  CommittedInv'
  <1> DEFINE x == rep[f].fetcher
  <1>1. x.phase = "reconcile" /\ x.phase \notin Ended
    BY DEF Reconcile, Ended
  <1>2. x.data \in Nat /\ x \in Cut
    BY <1>1, LogTypes, FetcherKinds
  <1>3. /\ meta' = meta /\ rt' = rt /\ acked' = acked
        /\ Truncate(f, x.data) /\ SetFetcher(f, Pull(x))
    BY NotPreempted DEF Reconcile
  <1>4. Pull(x).phase = "fetch" /\ Pull(x).leader = x.leader /\ Pull(x).epoch = x.epoch
    BY <1>2 DEF Pull, Cut, Live
  <1>5. /\ rep'[f].fetcher = Pull(x)
        /\ \A c \in Brokers \ {f} : rep'[c] = rep[c]
        /\ rep'[f].epoch = rep[f].epoch /\ rep'[f].is_leader = rep[f].is_leader
        /\ rep'[f].hwm = rep[f].hwm /\ rep'[f].pending_all = rep[f].pending_all
    BY <1>3, FetcherFields
  <1>6. /\ \A c \in Brokers \ {f} : log'[c] = log[c] /\ epochs'[c] = epochs[c]
        /\ LogEnd(f)' = CutAt(f, x.data) /\ Shares(log[f], CutAt(f, x.data), log'[f])
        /\ \A i \in DOMAIN epochs'[f] :
              \E j \in DOMAIN epochs[f] : epochs'[f][i].epoch = epochs[f][j].epoch
    BY <1>2, <1>3, TruncateLeaves
  <1>7. KeptLen(f) = CutAt(f, x.data) /\ KeptLen(f)' = CutAt(f, x.data)
    BY <1>1, <1>4, <1>5, <1>6 DEF KeptLen, CutAt
  <1>8. Data(f)
    <2>1. KeptLen(f) \in Nat
      BY LogTypes
    <2>2. Grows(f)
      BY <1>6, <1>7, <2>1 DEF Grows
    <2>3. QED
      BY <2>2 DEF Data
  <1>9. Goes(f)
    BY <1>1, <1>4, <1>5 DEF Goes
  <1>10. PendInv /\ \A c \in Brokers : Asks(c)
    BY <1>3 DEF CommittedInv, LeadersInv, Asks
  <1>11. Moves(f)
    BY <1>1, <1>3, <1>5, <1>6, <1>8, <1>9, <1>10, FollowerMoves
  <1>12. QED
    BY <1>3, <1>5, <1>6, <1>10, <1>11, OneMoves

\* A leader that learns of a follower's log end, and the follower that waits for more.
LEMMA FetchCommitted ==
  ASSUME IndInv, IndInv', ControlInv, ControlInv', FollowInv, CommittedInv,
         NEW f \in Brokers, NEW l \in Brokers, NEW r \in Replica, NEW y,
         rep[f].fetcher.phase = "fetch", rep[f].fetcher.leader = l,
         rep[l].is_leader, rep[l].epoch = rep[f].fetcher.epoch,
         meta' = meta, rt' = rt, UNCHANGED disk,
         rep' = [rep EXCEPT ![l] = AdvanceHwm(l, r, LogEnd(l)), ![f].fetcher = y],
         acked' = acked \cup Covered(l, r, LogEnd(l)),
         y.phase = "wait", y.leader = l, y.epoch = rep[f].fetcher.epoch,
         r.epoch = rep[l].epoch, r.is_leader = rep[l].is_leader, r.isr = rep[l].isr,
         r.hwm = rep[l].hwm, r.pending_all = rep[l].pending_all, r.fetcher = rep[l].fetcher,
         r.match_offsets[f] = LogEnd(f),
         \A m \in Brokers \ {f} : r.match_offsets[m] = rep[l].match_offsets[m]
  PROVE  CommittedInv'
  <1>1. PICK e \in Nat : e = rep[l].epoch /\ e = rep[f].fetcher.epoch
    BY EpochTypes
  <1>2. /\ rep[f].fetcher.phase \in Connected /\ rep[f].fetcher.phase \notin Ended
        /\ "wait" \notin Ended
    BY DEF Connected, Ended
  <1>3. l # f /\ Agrees(f) /\ rep[l].fetcher.phase \in Ended
    <2>1. rep[l].epoch <= rep[f].fetcher.epoch
      BY <1>1
    <2>2. QED
      BY <1>2, <2>1, Following
  <1>4. rep \in [Brokers -> Replica]
    BY DEF IndInv, TypeInv
  <1>5. /\ rep'[f].fetcher = y /\ rep'[f].epoch = rep[f].epoch
        /\ rep'[f].is_leader = rep[f].is_leader /\ rep'[f].hwm = rep[f].hwm
        /\ rep'[f].pending_all = rep[f].pending_all
    BY <1>3, <1>4 DEF Replica
  <1>6. rep'[l] = AdvanceHwm(l, r, LogEnd(l)) /\ \A c \in Brokers \ {l, f} : rep'[c] = rep[c]
    BY <1>3, <1>4
  <1>7. log' = log /\ epochs' = epochs
    BY DEF disk
  <1>8. PendInv
    BY DEF CommittedInv, LeadersInv
  <1>9. \A a \in r.pending_all : r.is_leader /\ Holds(l, a)
    BY <1>8 DEF PendInv
  <1>10. /\ Marks(l) /\ Pends(l) /\ Acks
         /\ rep'[l].epoch = r.epoch /\ rep'[l].is_leader = r.is_leader /\ rep'[l].isr = r.isr
         /\ rep'[l].match_offsets = r.match_offsets /\ rep'[l].fetcher = r.fetcher
    <2>1. rep[l].epoch <= r.epoch
      BY <1>1
    <2>2. QED
      BY <1>6, <1>7, <1>9, <2>1, MarkMoves
  <1>11. rep[f].epoch = e
    BY <1>1, <1>2 DEF ControlInv, EpochInv
  <1>12. Moves(f)
    <2>1. Goes(f)
      BY <1>2, <1>5 DEF Goes
    <2>2. Data(f)
      BY <1>5, <1>7, SameLogGrows DEF Data
    <2>3. QED
      BY <1>2, <1>5, <1>7, <1>8, <2>1, <2>2, FollowerMoves
  <1>13. Learns(l, f)
    <2>1. PICK n \in Nat : n = LogEnd(f) /\ n = LogEnd(f)'
      BY <1>7, LogTypes DEF LogEnd
    <2>2. KeptLen(f) = n /\ KeptLen(f)' = n
      BY <1>5, <2>1 DEF KeptLen
    <2>3. n <= Len(log[l]) /\ \A i \in 1 .. n : log[l][i] = log[f][i]
      BY <1>3, <2>2 DEF Agrees, Shares
    <2>4. Len(log[f]) = n
      BY <2>1 DEF LogEnd
    <2>5. Keeps(f, log[l], n)'
      BY <1>7, <2>1, <2>2, <2>3, <2>4 DEF Keeps, Shares
    <2>6. n <= LogEnd(l)'
      BY <1>7, <2>3 DEF LogEnd
    <2>7. Learned(f, e)'
      <3>1. rep'[f].epoch = e
        BY <1>5, <1>11
      <3>2. rt'[f].call = "metadata" => e <= rt'[f].meta.leader_epoch
        BY <1>11 DEF ControlInv, EpochInv
      <3>3. QED
        BY <3>1, <3>2 DEF Learned
    <2>8. ~ Gone(f, e)'
      BY <1>5, <1>11 DEF Gone
    <2>9. rep'[l].match_offsets[f] = n /\ rep'[l].epoch = e
      BY <1>1, <1>10, <2>1
    <2>10. Matched(l, f, n, e)'
      BY <2>5, <2>6, <2>7 DEF Matched
    <2>11. QED
      BY <2>8, <2>9, <2>10 DEF Learns
  <1>14. Moves(l)
    <2>1. Role(l) /\ Fetches(l)
      BY <1>3, <1>10 DEF Role, Stays, Fetches
    <2>2. Records(l)
      BY <1>7, <1>10 DEF Records
    <2>3. Grows(l)
      BY <1>7, <1>10, SameLogGrows
    <2>4. Data(l)
      BY <2>3 DEF Data
    <2>5. \A m \in Brokers : Learns(l, m)
      <3>1. ASSUME NEW m \in Brokers \ {f} PROVE Learns(l, m)
        BY <1>10, <3>1 DEF Learns
      <3>2. QED
        BY <1>13, <3>1
    <2>6. LeaderStep(l)
      BY <1>10, <2>3, <2>5, LeaderShares DEF LeaderStep, SameReign
    <2>7. TakesIsr(l)
      BY <1>10 DEF TakesIsr, HasIsr, Leads
    <2>8. QED
      BY <1>10, <2>1, <2>2, <2>4, <2>6, <2>7 DEF Moves
  <1>15. ASSUME NEW c \in Brokers \ {l, f} PROVE Moves(c)
    <2>1. Asks(c)
      BY DEF Asks
    <2>2. QED
      BY <1>6, <1>7, <1>8, <2>1, RestMoves
  <1>16. \A c \in Brokers : Moves(c)
    BY <1>12, <1>14, <1>15
  <1>17. Reigns /\ Admits
    BY SameMeta DEF CommittedInv, LeadersInv
  <1>18. QED
    BY <1>10, <1>16, <1>17, CommittedStep

LEMMA ReplicaFetchCommitted ==
  ASSUME IndInv, IndInv', ControlInv, ControlInv', FollowInv, CommittedInv, NEW f \in Brokers,
         ReplicaFetch(f)
  PROVE  CommittedInv'
  <1> DEFINE x == rep[f].fetcher
             l == x.leader
             y == [x EXCEPT !.phase = "wait", !.data = LogEnd(f)]
             z == IF LogEnd(f) >= LogEnd(l) THEN rep[l].recent \cup {f} ELSE rep[l].recent
             r == [rep[l] EXCEPT !.match_offsets[f] = LogEnd(f), !.recent = z]
  <1>1. x.phase = "fetch" /\ x.phase \notin Ended
    BY DEF ReplicaFetch, Ended
  <1>2. l \in Brokers
    BY <1>1, LiveFetcher
  <1>3. /\ meta' = meta /\ rt' = rt /\ UNCHANGED disk
        /\ \/ /\ rep[l].is_leader /\ rep[l].epoch = x.epoch
              /\ rep' = [rep EXCEPT ![l] = AdvanceHwm(l, r, LogEnd(l)), ![f].fetcher = y]
              /\ acked' = acked \cup Covered(l, r, LogEnd(l))
           \/ SetFetcher(f, Pinged) /\ acked' = acked
    BY DEF ReplicaFetch
  <1>4. CASE SetFetcher(f, Pinged) /\ acked' = acked
    <2>1. \A c \in Brokers : Asks(c)
      BY <1>3 DEF Asks
    <2>2. QED
      BY <1>3, <1>4, <2>1, FetcherCommitted DEF Pinged, Ended
  <1>5. CASE /\ rep[l].is_leader /\ rep[l].epoch = x.epoch
             /\ rep' = [rep EXCEPT ![l] = AdvanceHwm(l, r, LogEnd(l)), ![f].fetcher = y]
             /\ acked' = acked \cup Covered(l, r, LogEnd(l))
    <2>1. x \in Live({"connect", "fetch"}, {<<>>})
      BY <1>1, FetcherKinds
    <2>2. y.phase = "wait" /\ y.leader = l /\ y.epoch = x.epoch
      BY <2>1 DEF Live
    <2>3. rep[l] \in Replica /\ LogEnd(f) \in Nat
      BY <1>2, LogTypes DEF IndInv, TypeInv
    <2>4. z \in SUBSET Brokers
      BY <2>3 DEF Replica
    <2> HIDE DEF z
    <2>5. r \in Replica
      BY <2>3, <2>4 DEF Replica
    <2>6. /\ r.epoch = rep[l].epoch /\ r.is_leader = rep[l].is_leader /\ r.isr = rep[l].isr
          /\ r.hwm = rep[l].hwm /\ r.pending_all = rep[l].pending_all
          /\ r.fetcher = rep[l].fetcher /\ r.match_offsets[f] = LogEnd(f)
          /\ \A m \in Brokers \ {f} : r.match_offsets[m] = rep[l].match_offsets[m]
      BY <2>3 DEF Replica
    <2> HIDE DEF y, r
    <2>7. QED
      BY <1>1, <1>2, <1>3, <1>5, <2>2, <2>5, <2>6, FetchCommitted
  <1>6. QED
    BY <1>3, <1>4, <1>5

\* A follower appends what its fetcher was sent.
LEMMA AppendCommitted ==
  ASSUME IndInv, IndInv', ControlInv, ControlInv', CommittedInv, NEW f \in Brokers, NEW x \in Filled,
         rep[f].fetcher.phase \in {"wait", "append"},
         x.leader = rep[f].fetcher.leader, x.epoch = rep[f].fetcher.epoch,
         AppendReplicated(f, x), meta' = meta, rt' = rt, acked' = acked
  PROVE  CommittedInv'
  <1> DEFINE rs == x.data.records
             fits == rs = <<>> \/ x.data.from = LogEnd(f)
             y == IF fits THEN [Pull(x) EXCEPT !.local = Max({x.local, x.epoch})] ELSE NoFetcher
  <1>1. rep[f].fetcher.phase \notin Ended /\ rep[f].fetcher.phase # "reconcile"
    BY DEF Ended
  <1>2. rep[f].epoch = x.epoch /\ x.epoch \in Epochs
    BY <1>1, LiveFetcher DEF ControlInv, EpochInv
  <1>3. /\ log' = [log EXCEPT ![f] = IF fits THEN @ \o rs ELSE @]
        /\ epochs' = [epochs EXCEPT ![f] =
                        IF x.epoch > x.local THEN RecordEpoch(@, x.epoch, LogEnd(f)) ELSE @]
        /\ SetFetcher(f, y)
    BY <1>1 DEF AppendReplicated, SetFetcher
  <1>4. y.phase \in Ended \/ (y.phase = "fetch" /\ y.leader = x.leader /\ y.epoch = x.epoch)
    <2>1. CASE fits
      BY <2>1 DEF Pull, Filled, Live
    <2>2. CASE ~ fits
      BY <2>2 DEF NoFetcher, Ended
    <2>3. QED
      BY <2>1, <2>2
  <1>5. rs \in Seq(Ids) /\ Len(rs) \in Nat
    <2>1. x.data \in Answer
      BY DEF Filled, Live
    <2>2. QED
      BY <2>1 DEF Answer
  <1> HIDE DEF y, rs
  <1>6. /\ rep'[f].fetcher = y
        /\ \A c \in Brokers \ {f} : rep'[c] = rep[c]
        /\ rep'[f].epoch = rep[f].epoch /\ rep'[f].is_leader = rep[f].is_leader
        /\ rep'[f].hwm = rep[f].hwm /\ rep'[f].pending_all = rep[f].pending_all
    BY <1>3, FetcherFields
  <1>7. log \in [Brokers -> Seq(Ids)] /\ epochs \in [Brokers -> Seq(CheckpointEntry)]
    BY DEF IndInv, TypeInv
  <1>8. \A c \in Brokers \ {f} : log'[c] = log[c] /\ epochs'[c] = epochs[c]
    BY <1>3, <1>7
  <1>9. Goes(f)
    BY <1>1, <1>4, <1>6 DEF Goes
  <1>10. Data(f)
    <2>1. log[f] \in Seq(Ids) /\ LogEnd(f) = Len(log[f]) /\ LogEnd(f) \in Nat
      BY LogTypes
    <2>2. y.phase # "reconcile"
      BY <1>4 DEF Ended
    <2>3. KeptLen(f) = LogEnd(f) /\ KeptLen(f)' = LogEnd(f)'
      BY <1>1, <1>6, <2>2 DEF KeptLen
    <2>4. PICK n \in Nat, k \in Nat : n = LogEnd(f) /\ k = Len(log'[f]) /\ n <= k
             /\ \A i \in 1 .. n : log'[f][i] = log[f][i]
      <3>1. CASE fits
        <4>1. \A p, q \in Seq(Ids) :
                 /\ Len(p \o q) = Len(p) + Len(q) /\ \A i \in 1 .. Len(p) : (p \o q)[i] = p[i]
                 /\ Len(p) \in Nat /\ Len(q) \in Nat
          OBVIOUS
        <4>2. log'[f] = log[f] \o rs
          BY <1>3, <1>7, <3>1
        <4>3. PICK p \in Seq(Ids), q \in Seq(Ids) : p = log[f] /\ q = rs
          BY <1>5, <2>1
        <4>4. /\ Len(log'[f]) = Len(p) + Len(q) /\ Len(p) \in Nat /\ Len(q) \in Nat
              /\ \A i \in 1 .. Len(p) : log'[f][i] = p[i]
          BY <4>1, <4>2, <4>3
        <4>5. Len(p) + Len(q) \in Nat /\ Len(p) <= Len(p) + Len(q)
          BY <4>4
        <4>6. QED
          BY <2>1, <4>3, <4>4, <4>5
      <3>2. CASE ~ fits
        <4>1. log'[f] = log[f]
          BY <1>3, <1>7, <3>2
        <4>2. QED
          BY <2>1, <4>1
      <3>3. QED
        BY <3>1, <3>2
    <2>5. LogEnd(f)' = k
      BY <2>4 DEF LogEnd
    <2>6. Grows(f)
      BY <2>3, <2>4, <2>5 DEF Grows, Shares
    <2>7. QED
      BY <2>6 DEF Data
  <1>11. \A i \in DOMAIN epochs'[f] :
            \/ \E j \in DOMAIN epochs[f] : epochs'[f][i].epoch = epochs[f][j].epoch
            \/ epochs'[f][i].epoch = rep[f].epoch
    <2>1. CASE x.epoch > x.local
      <3>1. PICK es \in Seq(CheckpointEntry), k \in Nat, e \in Epochs :
               es = epochs[f] /\ k = LogEnd(f) /\ e = x.epoch
        BY <1>2, DiskType
      <3>2. \A i \in DOMAIN es : es[i].start <= k
        BY <3>1, DiskType
      <3>3. PICK q : q = RecordEpoch(es, e, k)
        OBVIOUS
      <3>4. epochs'[f] = q
        BY <1>3, <1>7, <2>1, <3>1, <3>3
      <3>5. \A i \in DOMAIN q : (\E j \in DOMAIN es : q[i].epoch = es[j].epoch) \/ q[i].epoch = e
        BY <3>2, <3>3, RecordEpochValue
      <3>6. QED
        BY <1>2, <3>1, <3>4, <3>5
    <2>2. CASE ~ (x.epoch > x.local)
      BY <1>3, <1>7, <2>2
    <2>3. QED
      BY <2>1, <2>2
  <1>12. PendInv /\ \A c \in Brokers : Asks(c)
    BY DEF CommittedInv, LeadersInv, Asks
  <1>13. Moves(f)
    BY <1>1, <1>6, <1>9, <1>10, <1>11, <1>12, FollowerMoves
  <1>14. QED
    BY <1>6, <1>8, <1>12, <1>13, OneMoves

LEMMA ReplicaAppendCommitted ==
  ASSUME IndInv, IndInv', ControlInv, ControlInv', CommittedInv, Undisturbed', NEW f \in Brokers,
         ReplicaAppend(f)
  PROVE  CommittedInv'
  <1>1. PICK x : x = rep[f].fetcher
    OBVIOUS
  <1>2. x.phase = "append" /\ x \in Filled
    BY <1>1, FetcherKinds DEF ReplicaAppend
  <1>3. AppendReplicated(f, x) /\ meta' = meta /\ rt' = rt /\ acked' = acked
    BY <1>1, NotPreempted DEF ReplicaAppend
  <1>4. QED
    BY <1>1, <1>2, <1>3, AppendCommitted

LEMMA ReplicaReadCommitted ==
  ASSUME IndInv, IndInv', ControlInv, ControlInv', CommittedInv, NEW f \in Brokers, ReplicaRead(f)
  PROVE  CommittedInv'
  <1> DEFINE x == rep[f].fetcher
             l == x.leader
             recs == SubSeq(log[l], x.data + 1, LogEnd(l))
             data == [from |-> x.data, records |-> recs]
             answer == [x EXCEPT !.phase = "append", !.data = data]
  <1>1. x.phase = "wait" /\ x.phase \notin Ended
    BY DEF ReplicaRead, Ended
  <1>2. x \in Live({"wait"}, Nat) /\ l \in Brokers
    BY <1>1, FetcherKinds, LiveFetcher
  <1>3. /\ meta' = meta /\ rt' = rt /\ acked' = acked
        /\ \/ SetFetcher(f, Pinged) /\ UNCHANGED disk
           \/ AppendReplicated(f, answer)
           \/ SetFetcher(f, answer) /\ UNCHANGED disk
    BY DEF ReplicaRead
  <1>4. x.data \in Nat
    BY <1>2 DEF Live
  <1>5. recs \in Seq(Ids)
    <2>1. log[l] \in Seq(Ids) /\ LogEnd(l) = Len(log[l])
      BY <1>2, LogTypes
    <2>2. \A s \in Seq(Ids), i \in Nat : SubSeq(s, i + 1, Len(s)) \in Seq(Ids)
      <3>1. \A s \in Seq(Ids), i \in Nat : \A j \in i + 1 .. Len(s) : s[j] \in Ids
        OBVIOUS
      <3>2. QED
        BY <3>1
    <2>3. QED
      BY <1>4, <2>1, <2>2
  <1>6. answer.phase = "append" /\ answer.leader = l /\ answer.epoch = x.epoch
    BY <1>2 DEF Live
  <1>7. data \in Answer
    BY <1>4, <1>5 DEF Answer
  <1>8. answer \in Filled
    BY <1>2, <1>7 DEF Live, Filled
  <1>9. \A c \in Brokers : Asks(c)
    BY <1>3 DEF Asks
  <1> HIDE DEF answer, data
  <1>10. CASE SetFetcher(f, Pinged) /\ UNCHANGED disk
    BY <1>3, <1>9, <1>10, FetcherCommitted DEF Pinged, Ended
  <1>11. CASE AppendReplicated(f, answer)
    BY <1>1, <1>3, <1>6, <1>8, <1>11, AppendCommitted
  <1>12. CASE SetFetcher(f, answer) /\ UNCHANGED disk
    BY <1>1, <1>3, <1>6, <1>9, <1>12, FetcherCommitted
  <1>13. QED
    BY <1>3, <1>10, <1>11, <1>12

------------------------------------------------------------------------------
(* The invariant about what was committed holds *)

LEMMA CommittedInit ==
  ASSUME Init
  PROVE  CommittedInv
  <1>1. PICK k \in Brokers : meta = NewPartition(k, Brokers)
    BY DEF Init
  <1>2. meta.leader = k /\ meta.leader_epoch = 1 /\ meta.isr = Brokers
    BY <1>1 DEF NewPartition
  <1>3. \A b \in Brokers : /\ rep[b].epoch = 0 /\ rep[b].is_leader = FALSE
                           /\ rep[b].fetcher.phase = "dead" /\ rt[b].call = "idle"
                           /\ rep[b].hwm = 0 /\ rep[b].pending_all = {}
                           /\ log[b] = <<>> /\ epochs[b] = <<>>
    BY DEF Init, NewReplica, NoFetcher, Idle
  <1>4. \A z \in Brokers : \A e, isr : ~ HasIsr(z, e, isr) /\ ~ Leads(z, e)
    BY <1>3 DEF HasIsr, Leads
  <1>5. LeadInv
    BY <1>2 DEF LeadInv
  <1>6. PendInv /\ FileInv
    BY <1>3 DEF PendInv, FileInv
  <1>7. MatchInv /\ CoverInv /\ GoneInv
    BY <1>4 DEF MatchInv, CoverInv, GoneInv
  <1>8. Backed(<<>>, 0, 0)
    <2>1. \A m \in Brokers : Learned(m, 0)
      BY <1>3 DEF Learned
    <2>2. \A m \in Brokers : KeptLen(m) = 0
      BY <1>3 DEF KeptLen, LogEnd
    <2>3. ASSUME NEW m \in Brokers PROVE Keeps(m, <<>>, 0)
      <3>1. Shares(<<>>, 0, <<>>)
        BY DEF Shares
      <3>2. QED
        BY <1>3, <2>2, <3>1 DEF Keeps
    <2>4. Inherits(0, 0)
      BY <1>2, <1>3 DEF Inherits, ReignStart
    <2>5. QED
      BY <1>2, <2>1, <2>3, <2>4 DEF Backed
  <1>9. MarkInv
    <2>1. <<>> \in Seq(Ids) /\ 0 \in Nat
      OBVIOUS
    <2>2. \A g \in Brokers : /\ 0 <= rep[g].epoch /\ Backed(<<>>, rep[g].hwm, 0)
                             /\ 0 < meta.leader_epoch
      BY <1>2, <1>3, <1>8
    <2>3. QED
      BY <2>1, <2>2 DEF MarkInv
  <1>10. AckedInv
    BY DEF Init, AckedInv
  <1>11. QED
    BY <1>5, <1>6, <1>7, <1>9, <1>10 DEF CommittedInv, LeadersInv

LEMMA NextCommitted ==
  ASSUME IndInv, IndInv', ControlInv, ControlInv', FollowInv, CommittedInv, [Next]_vars, Undisturbed'
  PROVE  CommittedInv'
  <1>1. CASE ControllerNext
    BY <1>1, ExpireCommitted, ControllerRestartCommitted, ReviveCommitted, DecideIsrCommitted
       DEF ControllerNext
  <1>2. CASE RuntimeNext
    BY <1>2, RefreshMetadataCommitted, RequestMetadataCommitted, ReceiveMetadataCommitted,
       ChangeIsrCommitted, ProposeIsrCommitted, AdoptIsrCommitted, LoseCallCommitted,
       LagExpiresCommitted DEF RuntimeNext
  <1>3. CASE DataNext
    <2>1. PICK b \in Brokers :
            \/ \E all \in BOOLEAN : Produce(b, all)
            \/ \E a \in rep[b].appended : ParkProduce(b, a)
            \/ \E a \in rep[b].pending_all : ProduceTimeout(b, a)
            \/ EpochCheck(b) \/ Reconcile(b)
            \/ ReplicaFetch(b) \/ ReplicaRead(b) \/ ReplicaAppend(b)
            \/ LoseFetch(b)
            \/ \E c \in late[b] : RunLate(b, c)
      BY <1>3 DEF DataNext
    <2>2. late[b] = {}
      BY UndisturbedBefore
    <2>3. QED
      BY <2>1, <2>2, ProduceCommitted, ParkProduceCommitted, ProduceTimeoutCommitted,
         EpochCheckCommitted, ReconcileCommitted, ReplicaFetchCommitted, ReplicaReadCommitted,
         ReplicaAppendCommitted, LoseFetchCommitted
  <1>4. CASE CrashNext
    BY <1>4, CrashCommitted, StartBrokerCommitted DEF CrashNext
  <1>5. CASE UNCHANGED vars
    <2>1. meta' = meta /\ UNCHANGED <<acked, disk, rep>> /\ rt' = rt
      BY <1>5 DEF vars, disk
    <2>2. \A c \in Brokers : Asks(c)
      BY <2>1 DEF Asks
    <2>3. QED
      BY <2>1, <2>2, CallCommitted
  <1>6. QED
    BY <1>1, <1>2, <1>3, <1>4, <1>5 DEF Next

CommittedUndisturbed == Undisturbed => CommittedInv

\* As long as nothing of what AckedInIsr and HwmInIsr exclude has happened, the
\* invariant about what was committed holds in every reachable state.
THEOREM CommittedInvariance == Spec => []CommittedUndisturbed
  <1>1. Init => CommittedUndisturbed
    BY CommittedInit DEF CommittedUndisturbed
  <1>2. ASSUME IndInv, IndInv', FollowersInv, FollowersInv', CommittedUndisturbed, [Next]_vars
        PROVE  CommittedUndisturbed'
    <2>1. SUFFICES ASSUME Undisturbed' PROVE CommittedInv'
      BY DEF CommittedUndisturbed
    <2>2. Undisturbed
      BY <1>2, <2>1, UndisturbedBefore
    <2>3. ControlInv /\ FollowInv /\ CommittedInv /\ ControlInv'
      BY <1>2, <2>1, <2>2 DEF FollowersInv, CommittedUndisturbed
    <2>4. QED
      BY <1>2, <2>1, <2>3, NextCommitted
  <1>3. QED
    BY <1>1, <1>2, Invariance, FollowersInvariance, PTL DEF Spec

\* Failover loses nothing by itself: whatever crashes, elections, lost and late answers
\* and partial ISR changes the partition goes through, every acknowledged record is in
\* the log of every ISR member (drain_pending, alter_isr, sweep_liveness).
THEOREM AckedInIsrHolds == Spec => []AckedInIsr
  <1>1. IndInv /\ CommittedUndisturbed => AckedInIsr
    BY AckedOnIsr DEF CommittedUndisturbed, CommittedInv, AckedInIsr
  <1>2. QED
    BY <1>1, Invariance, CommittedInvariance, PTL

\* What the current leader lets consumers read is on every ISR member (advance_hwm),
\* so the next leader lets them read it as well.
THEOREM HwmInIsrHolds == Spec => []HwmInIsr
  <1>1. IndInv /\ FollowersInv /\ CommittedUndisturbed => HwmInIsr
    <2> SUFFICES ASSUME IndInv, FollowersInv, CommittedUndisturbed, Undisturbed,
                        NEW b \in Brokers, rep[b].is_leader, NEW m \in meta.isr
                 PROVE  IsPrefixOf(SubSeq(log[b], 1, rep[b].hwm), log[m])
      BY DEF HwmInIsr
    <2>1. ControlInv /\ MarkInv
      BY DEF FollowersInv, CommittedUndisturbed, CommittedInv
    <2>2. QED
      BY <2>1, MarkOnIsr
  <1>2. QED
    BY <1>1, Invariance, FollowersInvariance, CommittedInvariance, PTL

AckedSurvivesUndisturbed == Undisturbed => AckedSurvives

\* "A write acknowledged at acks=all survives the crash of any single broker" (SPEC.md):
\* the code keeps to it, for any number of crashes, in every run that has none of the
\* races that Undisturbed names.
THEOREM AckedSurvivesHolds == Spec => []AckedSurvivesUndisturbed
  <1>1. IndInv /\ FollowersInv /\ CommittedUndisturbed => AckedSurvivesUndisturbed
    BY AckedAtLeader DEF FollowersInv, CommittedUndisturbed, CommittedInv, AckedSurvivesUndisturbed
  <1>2. QED
    BY <1>1, Invariance, FollowersInvariance, CommittedInvariance, PTL

====================
