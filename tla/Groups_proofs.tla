--------------------------- MODULE Groups_proofs ---------------------------
(***************************************************************************)
(* What is proved about Groups for every number of consumers, topics,      *)
(* partitions, members, commits and faults: the range assignment gives     *)
(* every partition one owner, committed offsets were delivered, survive a  *)
(* restart and, away from overlapping and late commits, only advance.      *)
(***************************************************************************)
EXTENDS Groups, ProofLemmas

------------------------------------------------------------------------------
(* The range assignment: shares *)

\* Where the share of the i-th of k members begins.
First(n, k, i) == i * (n \div k) + Min({i, n % k})

\* n partitions over k members: per each, and a remainder below k.
LEMMA DivMod ==
  ASSUME NEW n \in Nat, NEW k \in Nat, k > 0
  PROVE  /\ n \div k \in Nat /\ n % k \in 0 .. k - 1
         /\ n = k * (n \div k) + (n % k)
  OBVIOUS

\* A larger factor gives a larger product.
LEMMA ProductGrows ==
  ASSUME NEW a \in Nat, NEW b \in Nat, NEW c \in Nat, a <= b
  PROVE  a * c \in Nat /\ b * c \in Nat /\ a * c <= b * c
  <1>1. b - a \in Nat /\ (b - a) * c >= 0
    OBVIOUS
  <1>2. b * c = a * c + (b - a) * c
    OBVIOUS
  <1>3. a * c \in Nat /\ b * c \in Nat
    OBVIOUS
  <1>4. QED
    BY <1>1, <1>2, <1>3

\* The shares are the intervals between consecutive beginnings; the first
\* begins at 0, the last ends at n, and beginnings never go back.
LEMMA Beginnings ==
  ASSUME NEW n \in Nat, NEW k \in Nat, k > 0
  PROVE  /\ First(n, k, 0) = 0
         /\ First(n, k, k) = n
         /\ \A i \in 0 .. k : First(n, k, i) \in Nat
         /\ \A i \in 0 .. k - 1 : Share(n, k, i) = First(n, k, i) .. First(n, k, i + 1) - 1
         /\ \A i, j \in 0 .. k : i <= j => First(n, k, i) <= First(n, k, j)
  <1> DEFINE per == n \div k
             extra == n % k
  <1>1. per \in Nat /\ extra \in 0 .. k - 1 /\ n = k * per + extra /\ extra \in Nat
    BY DivMod
  <1> HIDE DEF per, extra
  <1>2. \A i \in Nat : First(n, k, i) = i * per + (IF i <= extra THEN i ELSE extra)
    BY <1>1, MinOfTwo DEF First, per, extra
  <1>3. \A i \in Nat : i * per \in Nat /\ (i + 1) * per = i * per + per /\ 0 * per = 0
    BY <1>1
  <1>4. First(n, k, 0) = 0
    BY <1>1, <1>2, <1>3
  <1>5. First(n, k, k) = n
    BY <1>1, <1>2, <1>3
  <1>6. \A i \in 0 .. k : First(n, k, i) \in Nat
    BY <1>1, <1>2, <1>3
  <1>7. ASSUME NEW i \in 0 .. k - 1
        PROVE  Share(n, k, i) = First(n, k, i) .. First(n, k, i + 1) - 1
    <2>1. i \in Nat /\ i + 1 \in Nat /\ i * per \in Nat /\ (i + 1) * per = i * per + per
      BY <1>3
    <2>2. First(n, k, i + 1) =
              i * per + per + (IF i + 1 <= extra THEN i + 1 ELSE extra)
      BY <1>2, <2>1
    <2>3. First(n, k, i + 1) - 1 = First(n, k, i) + per - 1 + IF i < extra THEN 1 ELSE 0
      BY <1>1, <1>2, <2>1, <2>2
    <2>4. Share(n, k, i) =
              First(n, k, i) .. First(n, k, i) + per - 1 + IF i < extra THEN 1 ELSE 0
      BY DEF Share, First, per, extra
    <2>5. QED
      BY <2>3, <2>4
  <1>8. ASSUME NEW i \in 0 .. k, NEW j \in 0 .. k, i <= j
        PROVE  First(n, k, i) <= First(n, k, j)
    <2>1. i * per \in Nat /\ j * per \in Nat /\ i * per <= j * per
      BY <1>1, <1>8, ProductGrows
    <2>2. /\ First(n, k, i) = i * per + (IF i <= extra THEN i ELSE extra)
          /\ First(n, k, j) = j * per + (IF j <= extra THEN j ELSE extra)
      BY <1>2
    <2>3. (IF i <= extra THEN i ELSE extra) <= (IF j <= extra THEN j ELSE extra)
      BY <1>1, <1>8
    <2> DEFINE a == IF i <= extra THEN i ELSE extra
               b == IF j <= extra THEN j ELSE extra
    <2>4. a \in Nat /\ b \in Nat /\ a <= b
      BY <1>1, <2>3
    <2> HIDE DEF a, b
    <2>5. First(n, k, i) = i * per + a /\ First(n, k, j) = j * per + b
      BY <2>2 DEF a, b
    <2>6. QED
      BY <2>1, <2>4, <2>5
  <1>9. QED
    BY <1>4, <1>5, <1>6, <1>7, <1>8

\* The shares of k members cover the n partitions and do not overlap.
LEMMA SharesPartition ==
  ASSUME NEW n \in Nat, NEW k \in Nat, k > 0
  PROVE  /\ \A i \in 0 .. k - 1 : Share(n, k, i) \subseteq 0 .. n - 1
         /\ \A x \in 0 .. n - 1 : \E i \in 0 .. k - 1 : x \in Share(n, k, i)
         /\ \A i, j \in 0 .. k - 1 : i # j => Share(n, k, i) \cap Share(n, k, j) = {}
  <1> DEFINE F(i) == First(n, k, i)
  <1>1. /\ F(0) = 0 /\ F(k) = n
        /\ \A i \in 0 .. k : F(i) \in Nat
        /\ \A i \in 0 .. k - 1 : Share(n, k, i) = F(i) .. F(i + 1) - 1
        /\ \A i, j \in 0 .. k : i <= j => F(i) <= F(j)
    BY Beginnings
  <1> HIDE DEF F
  <1>2. ASSUME NEW i \in 0 .. k - 1 PROVE Share(n, k, i) \subseteq 0 .. n - 1
    <2>1. i \in 0 .. k /\ i + 1 \in 0 .. k /\ k \in 0 .. k /\ i + 1 <= k
      OBVIOUS
    <2>2. F(i) \in Nat /\ F(i + 1) \in Nat /\ F(i + 1) <= n
      BY <1>1, <2>1
    <2>3. QED
      BY <1>1, <2>2
  <1>3. ASSUME NEW x \in 0 .. n - 1 PROVE \E i \in 0 .. k - 1 : x \in Share(n, k, i)
    <2> DEFINE T == {i \in 0 .. k : x < F(i)}
    <2>1. k \in T
      BY <1>1
    <2>2. T \in SUBSET Nat
      OBVIOUS
    <2>3. PICK i \in T : \A y \in T : i <= y
      BY <2>1, <2>2, LeastNatural
    <2>4. i # 0 /\ i \in 0 .. k
      BY <1>1, <2>3
    <2>5. i - 1 \in 0 .. k - 1 /\ i - 1 \in 0 .. k /\ i - 1 \notin T
      BY <2>3, <2>4
    <2>6. F(i - 1) \in Nat /\ F(i) \in Nat /\ F(i - 1) <= x /\ x < F(i)
      BY <1>1, <2>3, <2>4, <2>5
    <2>7. (i - 1) + 1 = i
      BY <2>4
    <2>8. Share(n, k, i - 1) = F(i - 1) .. F(i) - 1
      BY <1>1, <2>5, <2>7
    <2>9. QED
      BY <2>5, <2>6, <2>8
  <1>4. ASSUME NEW i \in 0 .. k - 1, NEW j \in 0 .. k - 1, i < j
        PROVE  Share(n, k, i) \cap Share(n, k, j) = {}
    <2>1. i \in 0 .. k /\ j \in 0 .. k /\ i + 1 \in 0 .. k /\ j + 1 \in 0 .. k /\ i + 1 <= j
      BY <1>4
    <2>2. F(i + 1) <= F(j) /\ F(i) \in Nat /\ F(j) \in Nat /\ F(i + 1) \in Nat /\ F(j + 1) \in Nat
      BY <1>1, <2>1
    <2>3. QED
      BY <1>1, <2>2
  <1>5. ASSUME NEW i \in 0 .. k - 1, NEW j \in 0 .. k - 1, i # j
        PROVE  Share(n, k, i) \cap Share(n, k, j) = {}
    <2>1. i < j \/ j < i
      BY <1>5
    <2>2. QED
      BY <1>4, <2>1
  <1>6. QED
    BY <1>2, <1>3, <1>5

------------------------------------------------------------------------------
(* The range assignment: ranks *)

\* How many members of S come before m.
Rank(S, m) == Cardinality({x \in S : x < m})

\* The members' ranks are their places 0, 1, ...: no two share one, and every
\* place is taken.
LEMMA RanksArePlaces ==
  ASSUME NEW S \in SUBSET Nat, IsFiniteSet(S)
  PROVE  /\ Cardinality(S) \in Nat
         /\ \A m \in S : Rank(S, m) \in 0 .. Cardinality(S) - 1
         /\ \A m, o \in S : m # o => Rank(S, m) # Rank(S, o)
         /\ \A i \in 0 .. Cardinality(S) - 1 : \E m \in S : Rank(S, m) = i
  <1> DEFINE k == Cardinality(S)
             B(m) == {x \in S : x < m}
             f == [m \in S |-> Rank(S, m)]
  <1>1. k \in Nat
    BY FS_CardinalityType
  <1>2. \A m \in S : B(m) \in SUBSET S /\ IsFiniteSet(B(m)) /\ Cardinality(B(m)) \in Nat
    BY FS_Subset, FS_CardinalityType
  <1>3. ASSUME NEW m \in S PROVE Rank(S, m) \in 0 .. k - 1
    <2>1. B(m) \in SUBSET S /\ m \notin B(m)
      OBVIOUS
    <2>2. Cardinality(B(m)) <= k /\ Cardinality(B(m)) # k
      BY <2>1, FS_Subset
    <2>3. QED
      BY <1>1, <1>2, <2>2 DEF Rank
  <1>4. ASSUME NEW m \in S, NEW o \in S, m < o PROVE Rank(S, m) # Rank(S, o)
    <2>1. B(m) \in SUBSET B(o) /\ m \in B(o) /\ m \notin B(m)
      <3>1. \A x \in S : x \in Nat
        OBVIOUS
      <3>2. \A x \in S : x < m => x < o
        BY <1>4, <3>1
      <3>3. ~ (m < m)
        BY <3>1
      <3>4. B(m) \in SUBSET B(o)
        BY <3>2
      <3>5. m \in B(o) /\ m \notin B(m)
        BY <1>4, <3>3
      <3>6. QED
        BY <3>4, <3>5
    <2>2. Cardinality(B(o)) # Cardinality(B(m))
      BY <1>2, <2>1, FS_Subset
    <2>3. QED
      BY <2>2 DEF Rank
  <1>5. ASSUME NEW m \in S, NEW o \in S, m # o PROVE Rank(S, m) # Rank(S, o)
    <2>1. m < o \/ o < m
      BY <1>5
    <2>2. QED
      BY <1>4, <2>1
  <1>6. \A i \in 0 .. k - 1 : \E m \in S : Rank(S, m) = i
    <2>1. f \in Injection(S, 0 .. k - 1)
      BY <1>3, <1>5 DEF Injection, IsInjective
    <2>2. 0 \in Int /\ k - 1 \in Int
      BY <1>1
    <2>3. IsFiniteSet(0 .. k - 1)
      BY <2>2, FS_Interval
    <2>4. Cardinality(0 .. k - 1) = k
      <3>1. Cardinality(0 .. k - 1) = IF 0 > k - 1 THEN 0 ELSE k - 1 - 0 + 1
        BY <2>2, FS_Interval
      <3>2. QED
        BY <1>1, <3>1
    <2>5. f \in Surjection(S, 0 .. k - 1)
      BY <2>1, <2>3, <2>4, FS_Injection
    <2>6. QED
      BY <2>5 DEF Surjection
  <1>7. QED
    BY <1>1, <1>3, <1>5, <1>6

------------------------------------------------------------------------------
(* The range assignment: owners *)

\* A group's members: ids below some bound, each with the topics it reads.
Memberships == UNION {[D -> SUBSET Topics] : D \in SUBSET (1 .. MaxMembers)}

\* Every partition assigned exists, nobody shares one, and the members of a
\* topic together own all of it.
OwnersOK(members, assignment) ==
    /\ DOMAIN assignment = DOMAIN members
    /\ \A m \in DOMAIN members : assignment[m] \subseteq Parts
    /\ \A m, o \in DOMAIN members : m # o => assignment[m] \cap assignment[o] = {}
    /\ \A t \in Topics, i \in Nat :
           (i < PartitionCount[t] /\ \E m \in DOMAIN members : t \in members[m])
               => \E m \in DOMAIN members : <<t, i>> \in assignment[m]

\* The members subscribed to t.
Readers(members, t) == {x \in DOMAIN members : t \in members[x]}

\* What a member owns.
LEMMA AssignedTo ==
  ASSUME NEW members, NEW m \in DOMAIN members, NEW t, NEW i
  PROVE  <<t, i>> \in Assign(members)[m]
            <=> /\ t \in members[m]
                /\ i \in Share(PartitionCount[t], Cardinality(Readers(members, t)),
                               Rank(Readers(members, t), m))
  <1> DEFINE S(u) == Share(PartitionCount[u], Cardinality(Readers(members, u)),
                           Rank(Readers(members, u), m))
  <1>1. Assign(members)[m] = UNION {{<<u, j>> : j \in S(u)} : u \in members[m]}
    BY DEF Assign, Readers, Rank
  <1> HIDE DEF S
  <1>2. <<t, i>> \in Assign(members)[m] <=> t \in members[m] /\ i \in S(t)
    BY <1>1
  <1>3. QED
    BY <1>2 DEF S

\* Everything a member owns is such a pair.
LEMMA AssignedArePairs ==
  ASSUME NEW members, NEW m \in DOMAIN members, NEW p \in Assign(members)[m]
  PROVE  \E t \in members[m] : \E i : p = <<t, i>>
  BY DEF Assign

\* The readers of a topic are finitely many naturals.
LEMMA ReadersFinite ==
  ASSUME NEW members \in Memberships, NEW t
  PROVE  Readers(members, t) \in SUBSET Nat /\ IsFiniteSet(Readers(members, t))
  <1>1. PICK D \in SUBSET (1 .. MaxMembers) : members \in [D -> SUBSET Topics]
    BY DEF Memberships
  <1>2. MaxMembers \in Nat
    BY GroupsAssumption DEF GroupsAssumption
  <1>3. IsFiniteSet(1 .. MaxMembers)
    <2>1. 1 \in Int /\ MaxMembers \in Int
      BY <1>2
    <2>2. QED
      BY <2>1, FS_Interval
  <1>4. Readers(members, t) \in SUBSET (1 .. MaxMembers)
    BY <1>1 DEF Readers
  <1>5. QED
    BY <1>2, <1>3, <1>4, FS_Subset

\* assign gives every partition of a subscribed topic exactly one owner,
\* whatever the numbers of members and partitions and whoever reads what.
LEMMA AssignOwners ==
  ASSUME NEW members \in Memberships
  PROVE  OwnersOK(members, Assign(members))
  <1> DEFINE R(t) == Readers(members, t)
             k(t) == Cardinality(R(t))
             n(t) == PartitionCount[t]
  <1>1. \A m \in DOMAIN members : members[m] \subseteq Topics
    BY DEF Memberships
  <1>2. \A t \in Topics : n(t) \in Nat
    BY GroupsAssumption DEF GroupsAssumption
  <1>3. \A t : /\ R(t) \in SUBSET Nat /\ IsFiniteSet(R(t)) /\ k(t) \in Nat
               /\ \A m \in R(t) : Rank(R(t), m) \in 0 .. k(t) - 1
               /\ \A m, o \in R(t) : m # o => Rank(R(t), m) # Rank(R(t), o)
               /\ \A i \in 0 .. k(t) - 1 : \E m \in R(t) : Rank(R(t), m) = i
    BY ReadersFinite, RanksArePlaces
  <1>4. \A m \in DOMAIN members : \A t : t \in members[m] <=> m \in R(t)
    BY DEF Readers
  <1>5. \A t, m : m \in R(t) => k(t) > 0
    <2> SUFFICES ASSUME NEW t, NEW m \in R(t) PROVE k(t) > 0
      OBVIOUS
    <2>1. Rank(R(t), m) \in 0 .. k(t) - 1 /\ k(t) \in Nat
      BY <1>3
    <2>2. QED
      BY <2>1
  <1>6. \A m \in DOMAIN members : \A t, i :
            <<t, i>> \in Assign(members)[m]
                <=> m \in R(t) /\ i \in Share(n(t), k(t), Rank(R(t), m))
    BY <1>4, AssignedTo
  <1>7. DOMAIN Assign(members) = DOMAIN members
    BY DEF Assign
  <1> HIDE DEF R, k, n
  <1>8. ASSUME NEW m \in DOMAIN members PROVE Assign(members)[m] \subseteq Parts
    <2> SUFFICES ASSUME NEW p \in Assign(members)[m] PROVE p \in Parts
      OBVIOUS
    <2>1. PICK t \in members[m] : \E i : p = <<t, i>>
      BY AssignedArePairs
    <2>2. PICK i : p = <<t, i>>
      BY <2>1
    <2>3. t \in Topics /\ m \in R(t) /\ i \in Share(n(t), k(t), Rank(R(t), m))
      BY <1>1, <1>6, <2>2
    <2>4. i \in 0 .. n(t) - 1
      BY <1>2, <1>3, <1>5, <2>3, SharesPartition
    <2>5. QED
      BY <2>2, <2>3, <2>4 DEF Parts, n
  <1>9. ASSUME NEW m \in DOMAIN members, NEW o \in DOMAIN members, m # o
        PROVE  Assign(members)[m] \cap Assign(members)[o] = {}
    <2> SUFFICES ASSUME NEW p \in Assign(members)[m], p \in Assign(members)[o] PROVE FALSE
      OBVIOUS
    <2>1. PICK t \in members[m] : \E i : p = <<t, i>>
      BY AssignedArePairs
    <2>2. PICK i : p = <<t, i>>
      BY <2>1
    <2>3. /\ t \in Topics /\ m \in R(t) /\ o \in R(t)
          /\ i \in Share(n(t), k(t), Rank(R(t), m))
          /\ i \in Share(n(t), k(t), Rank(R(t), o))
      BY <1>1, <1>6, <2>2
    <2>4. /\ Rank(R(t), m) # Rank(R(t), o)
          /\ Rank(R(t), m) \in 0 .. k(t) - 1 /\ Rank(R(t), o) \in 0 .. k(t) - 1
          /\ n(t) \in Nat /\ k(t) \in Nat /\ k(t) > 0
      BY <1>2, <1>3, <1>5, <1>9, <2>3
    <2>5. Share(n(t), k(t), Rank(R(t), m)) \cap Share(n(t), k(t), Rank(R(t), o)) = {}
      BY <2>4, SharesPartition
    <2>6. QED
      BY <2>3, <2>5
  <1>10. ASSUME NEW t \in Topics, NEW i \in Nat, i < PartitionCount[t],
                \E m \in DOMAIN members : t \in members[m]
         PROVE  \E m \in DOMAIN members : <<t, i>> \in Assign(members)[m]
    <2>1. PICK m \in R(t) : TRUE
      BY <1>4, <1>10
    <2>2. k(t) > 0 /\ k(t) \in Nat /\ n(t) \in Nat /\ i \in 0 .. n(t) - 1
      <3>1. k(t) > 0 /\ k(t) \in Nat /\ n(t) \in Nat
        BY <1>2, <1>3, <1>5, <2>1
      <3>2. i < n(t)
        BY <1>10 DEF n
      <3>3. QED
        BY <3>1, <3>2
    <2>3. PICK r \in 0 .. k(t) - 1 : i \in Share(n(t), k(t), r)
      BY <2>2, SharesPartition
    <2>4. PICK o \in R(t) : Rank(R(t), o) = r
      BY <1>3
    <2>5. o \in DOMAIN members
      BY DEF R, Readers
    <2>6. QED
      BY <1>6, <2>3, <2>4, <2>5
  <1>11. QED
    BY <1>7, <1>8, <1>9, <1>10 DEF OwnersOK

------------------------------------------------------------------------------
(* The inductive invariant *)

\* What maps from partitions to offsets, committed records, tasks, answers to a
\* join and consumers look like.
Positions == UNION {[D -> 0 .. LogEnd] : D \in SUBSET Parts}
CommitRecord == [part : Parts, offset : 0 .. LogEnd]
Task == [id : Nat, part : Parts, gen : Nat, checked : Nat, offset : 0 .. LogEnd, at : Nat]
Outcome == [member : Nat, gen : Nat, parts : SUBSET Parts]
Phases == {"out", "idle", "rejoin", "loading", "committing"}
Consumer ==
    [phase : Phases, member : Nat, gen : Nat, pos : Positions,
     outcome : Outcome \cup {<<>>}, got : Positions, todo : SUBSET Parts, call : Nat]

\* A consumer's fields fit its phase.
ConsumerOK(s) ==
    /\ s.phase = "out" => s = Out
    /\ s.phase \notin {"out", "loading"} => s.member # NoMember
    /\ s.phase = "loading" =>
           /\ s.outcome \in Outcome /\ s.outcome.member # NoMember
           /\ DOMAIN s.got \subseteq s.outcome.parts
           /\ s.outcome.parts \ DOMAIN s.got # {}
    /\ s.phase = "committing" => s.todo \subseteq DOMAIN s.pos

GroupOK(g) ==
    /\ g.generation \in Nat
    /\ g.members \in Memberships
    /\ OwnersOK(g.members, g.assignment)

TypeInv ==
    /\ GroupOK(group)
    /\ nextMember \in 1 .. MaxMembers + 1
    /\ \A m \in Members : m < nextMember
    /\ offsetsLog \in Seq(CommitRecord)
    /\ synced \in 0 .. Len(offsetsLog)
    /\ cache \in [Parts -> 0 .. LogEnd]
    /\ tasks \in SUBSET Task
    /\ \A t \in tasks : t.at <= Len(offsetsLog)
    /\ cons \in [Consumers -> Consumer]
    /\ \A c \in Consumers : ConsumerOK(cons[c])
    /\ count \in [commits : Nat, faults : Nat, restarts : Nat]
    /\ delivered \in [Parts -> SUBSET Nat]

\* What a consumer works on, and what it has been promised by a join whose
\* offsets it is still fetching.
View(s) == [member |-> s.member, gen |-> s.gen, parts |-> DOMAIN s.pos]
Views(s) == {View(s)} \cup IF s.phase = "loading" THEN {s.outcome} ELSE {}
EmptyView == [member |-> NoMember, gen |-> 0, parts |-> {}]

\* A view is of a past assignment, or of the current one.
ViewOK(v, g, next) ==
    /\ v.member < next
    /\ v.gen <= g.generation
    /\ v.member = NoMember => v.parts = {}
    /\ v.gen = g.generation /\ v.member # NoMember =>
           v.member \in DOMAIN g.members /\ v.parts = g.assignment[v.member]

\* Two consumers' views: no member id is shared, and no partition within a
\* generation.
Apart(v, w) ==
    /\ v.member = w.member => v.member = NoMember
    /\ v.gen = w.gen => v.parts \cap w.parts = {}

ViewInv ==
    /\ \A c \in Consumers : \A v \in Views(cons[c]) : ViewOK(v, group, nextMember)
    /\ \A c, d \in Consumers : c # d =>
           \A v \in Views(cons[c]), w \in Views(cons[d]) : Apart(v, w)

\* Everything below offset o of partition p was returned by some poll.
Below(deliv, p, o) == 0 .. o - 1 \subseteq deliv[p]

AllBelow(deliv, f) == \A p \in DOMAIN f : Below(deliv, p, f[p])

DeliveryInv ==
    /\ AllBelow(delivered, cache)
    /\ \A i \in DOMAIN offsetsLog : Below(delivered, offsetsLog[i].part, offsetsLog[i].offset)
    /\ \A t \in tasks : Below(delivered, t.part, t.offset)
    /\ \A c \in Consumers :
           AllBelow(delivered, cons[c].pos) /\ AllBelow(delivered, cons[c].got)

\* The records of p in a log.
Own(log, p) == {i \in DOMAIN log : log[i].part = p}

\* The commits of a partition that never had two of them under way: the record
\* of the one that is appended is the last of its partition; without one the
\* partition's records are stable and the cache is what they say.
SettledInv(p) ==
    /\ \A t, u \in tasks : t.part = p /\ u.part = p => t = u
    /\ \A t \in tasks : t.part = p /\ t.at > 0 =>
           /\ t.at \in Own(offsetsLog, p) /\ offsetsLog[t.at].offset = t.offset
           /\ \A i \in Own(offsetsLog, p) : i <= t.at
    /\ (\A t \in tasks : t.part = p => t.at = 0) =>
           /\ \A i \in Own(offsetsLog, p) : i <= synced
           /\ cache[p] = Replay(offsetsLog)[p]

RestartInv == \A p \in Parts \ overlap : SettledInv(p)

\* A consumer on its way to a new join is behind.
RejoinOK(s) == s.phase = "rejoin" => s.gen < group.generation

\* If s is a member that owns p in the current generation, then s works in it,
\* and it is not about to.
Fenced(s, p) ==
    /\ s.member \in Members /\ p \in group.assignment[s.member] => s.gen = group.generation
    /\ s.phase = "loading" /\ s.outcome.member \in Members =>
           p \notin group.assignment[s.outcome.member]

\* A commit that was let in under the current generation came from the consumer
\* that owns the partition in it, and nobody else, not even the same member in an
\* unfinished rejoin, may take up that partition in this generation.
FenceInv ==
    /\ \A c \in Consumers : RejoinOK(cons[c])
    /\ \A t \in tasks : t.checked <= group.generation
    /\ \A t \in tasks, c \in Consumers : t.checked = group.generation => Fenced(cons[c], t.part)

\* The tasks of p that were let in under the current generation.
Current(p) == {t \in tasks : t.part = p /\ t.checked = group.generation}

\* If s owns p in the current generation, it is at or past what is cached and what
\* is being committed.
KeepsUp(s, p) ==
    /\ s.gen = group.generation /\ p \in DOMAIN s.pos =>
           s.pos[p] >= cache[p] /\ \A t \in Current(p) : s.pos[p] >= t.offset
    /\ s.phase = "loading" /\ s.outcome.gen = group.generation /\ p \in DOMAIN s.got =>
           s.got[p] >= cache[p]

\* Where neither an overlap nor a late commit has been, nothing falls behind.
AheadInv(p) ==
    /\ \A t \in Current(p) : t.offset >= cache[p]
    /\ \A c \in Consumers : KeepsUp(cons[c], p)

AdvanceInv == FenceInv /\ \A p \in Parts \ (late \cup overlap) : AheadInv(p)

IndInv == TypeInv /\ ViewInv /\ DeliveryInv /\ RestartInv /\ AdvanceInv

------------------------------------------------------------------------------
(* The consumer's record, field by field *)

LEMMA NoPositions == <<>> \in Positions /\ DOMAIN <<>> = {}
  <1>1. {} \in SUBSET Parts
    OBVIOUS
  <1>2. <<>> \in [{} -> 0 .. LogEnd]
    OBVIOUS
  <1>3. QED
    BY <1>1, <1>2 DEF Positions

LEMMA PositionsFacts ==
  ASSUME NEW f \in Positions
  PROVE  /\ DOMAIN f \subseteq Parts
         /\ \A p \in DOMAIN f : f[p] \in 0 .. LogEnd
  BY DEF Positions

\* A position set.
LEMMA PositionSet ==
  ASSUME NEW f \in Positions, NEW p \in Parts, NEW o \in 0 .. LogEnd
  PROVE  /\ [f EXCEPT ![p] = o] \in Positions
         /\ DOMAIN [f EXCEPT ![p] = o] = DOMAIN f
         /\ \A q \in DOMAIN f : [f EXCEPT ![p] = o][q] = IF q = p THEN o ELSE f[q]
  <1>1. PICK D \in SUBSET Parts : f \in [D -> 0 .. LogEnd]
    BY DEF Positions
  <1>2. [f EXCEPT ![p] = o] \in [D -> 0 .. LogEnd]
    BY <1>1
  <1>3. [f EXCEPT ![p] = o] \in Positions
    BY <1>1, <1>2 DEF Positions
  <1>4. QED
    BY <1>1, <1>3

\* A position added.
LEMMA PositionAdded ==
  ASSUME NEW f \in Positions, NEW p \in Parts, NEW o \in 0 .. LogEnd
  PROVE  With(f, p, o) \in Positions
  <1>1. PICK D \in SUBSET Parts : f \in [D -> 0 .. LogEnd]
    BY DEF Positions
  <1>2. {p} \cup D \in SUBSET Parts
    BY <1>1
  <1>3. With(f, p, o) \in [{p} \cup D -> 0 .. LogEnd]
    BY <1>1 DEF With
  <1>4. QED
    BY <1>2, <1>3 DEF Positions

\* The record r, field by field.
Has(r, phase, member, gen, pos, outcome, got, todo, call) ==
    /\ r.phase = phase /\ r.member = member /\ r.gen = gen /\ r.pos = pos
    /\ r.outcome = outcome /\ r.got = got /\ r.todo = todo /\ r.call = call

\* What the updates of the actions do to the record.
LEMMA RecordUpdates ==
  ASSUME NEW s \in Consumer
  PROVE  /\ \A x \in Phases :
                /\ [s EXCEPT !.phase = x] \in Consumer
                /\ Has([s EXCEPT !.phase = x], x, s.member, s.gen, s.pos, s.outcome, s.got, s.todo, s.call)
         /\ \A x \in Nat :
                /\ [s EXCEPT !.call = x] \in Consumer
                /\ Has([s EXCEPT !.call = x], s.phase, s.member, s.gen, s.pos, s.outcome, s.got, s.todo, x)
         /\ \A x \in Positions :
                /\ [s EXCEPT !.got = x] \in Consumer
                /\ Has([s EXCEPT !.got = x], s.phase, s.member, s.gen, s.pos, s.outcome, x, s.todo, s.call)
         /\ \A x \in Positions :
                /\ [s EXCEPT !.pos = x] \in Consumer
                /\ Has([s EXCEPT !.pos = x], s.phase, s.member, s.gen, x, s.outcome, s.got, s.todo, s.call)
         /\ \A x \in Phases, y \in SUBSET Parts :
                /\ [s EXCEPT !.phase = x, !.todo = y] \in Consumer
                /\ Has([s EXCEPT !.phase = x, !.todo = y], x, s.member, s.gen, s.pos, s.outcome, s.got, y, s.call)
         /\ \A x \in Nat, y \in SUBSET Parts :
                /\ [s EXCEPT !.call = x, !.todo = y] \in Consumer
                /\ Has([s EXCEPT !.call = x, !.todo = y], s.phase, s.member, s.gen, s.pos, s.outcome, s.got, y, x)
         /\ \A x \in Phases, y \in Nat :
                /\ [s EXCEPT !.phase = x, !.call = y] \in Consumer
                /\ Has([s EXCEPT !.phase = x, !.call = y], x, s.member, s.gen, s.pos, s.outcome, s.got, s.todo, y)
         /\ \A x \in Phases, y \in Outcome \cup {<<>>}, z \in Positions :
                /\ [s EXCEPT !.phase = x, !.outcome = y, !.got = z] \in Consumer
                /\ Has([s EXCEPT !.phase = x, !.outcome = y, !.got = z], x, s.member, s.gen, s.pos, y, z, s.todo, s.call)
         /\ /\ [s EXCEPT !.phase = "idle", !.outcome = <<>>, !.got = <<>>, !.todo = {}, !.call = 0] \in Consumer
                /\ Has([s EXCEPT !.phase = "idle", !.outcome = <<>>, !.got = <<>>, !.todo = {}, !.call = 0], "idle", s.member, s.gen, s.pos, <<>>, <<>>, {}, 0)
         /\ \A x \in Outcome, y \in Positions :
                /\ Installed(s, x, y) \in Consumer
                /\ Has(Installed(s, x, y), "idle", x.member, x.gen, y, <<>>, <<>>, {}, 0)
  <1>0. <<>> \in Positions /\ {} \in SUBSET Parts
    BY NoPositions
  <1>1. \A x \in Phases :
                /\ [s EXCEPT !.phase = x] \in Consumer
                /\ Has([s EXCEPT !.phase = x], x, s.member, s.gen, s.pos, s.outcome, s.got, s.todo, s.call)
    BY <1>0 DEF Consumer, Phases, Has
  <1>2. \A x \in Nat :
                /\ [s EXCEPT !.call = x] \in Consumer
                /\ Has([s EXCEPT !.call = x], s.phase, s.member, s.gen, s.pos, s.outcome, s.got, s.todo, x)
    BY <1>0 DEF Consumer, Phases, Has
  <1>3. \A x \in Positions :
                /\ [s EXCEPT !.got = x] \in Consumer
                /\ Has([s EXCEPT !.got = x], s.phase, s.member, s.gen, s.pos, s.outcome, x, s.todo, s.call)
    BY <1>0 DEF Consumer, Phases, Has
  <1>4. \A x \in Positions :
                /\ [s EXCEPT !.pos = x] \in Consumer
                /\ Has([s EXCEPT !.pos = x], s.phase, s.member, s.gen, x, s.outcome, s.got, s.todo, s.call)
    BY <1>0 DEF Consumer, Phases, Has
  <1>5. \A x \in Phases, y \in SUBSET Parts :
                /\ [s EXCEPT !.phase = x, !.todo = y] \in Consumer
                /\ Has([s EXCEPT !.phase = x, !.todo = y], x, s.member, s.gen, s.pos, s.outcome, s.got, y, s.call)
    BY <1>0 DEF Consumer, Phases, Has
  <1>6. \A x \in Nat, y \in SUBSET Parts :
                /\ [s EXCEPT !.call = x, !.todo = y] \in Consumer
                /\ Has([s EXCEPT !.call = x, !.todo = y], s.phase, s.member, s.gen, s.pos, s.outcome, s.got, y, x)
    BY <1>0 DEF Consumer, Phases, Has
  <1>7. \A x \in Phases, y \in Nat :
                /\ [s EXCEPT !.phase = x, !.call = y] \in Consumer
                /\ Has([s EXCEPT !.phase = x, !.call = y], x, s.member, s.gen, s.pos, s.outcome, s.got, s.todo, y)
    BY <1>0 DEF Consumer, Phases, Has
  <1>8. \A x \in Phases, y \in Outcome \cup {<<>>}, z \in Positions :
                /\ [s EXCEPT !.phase = x, !.outcome = y, !.got = z] \in Consumer
                /\ Has([s EXCEPT !.phase = x, !.outcome = y, !.got = z], x, s.member, s.gen, s.pos, y, z, s.todo, s.call)
    BY ZenonT(40), <1>0 DEF Consumer, Phases, Has
  <1>9. /\ [s EXCEPT !.phase = "idle", !.outcome = <<>>, !.got = <<>>, !.todo = {}, !.call = 0] \in Consumer
                /\ Has([s EXCEPT !.phase = "idle", !.outcome = <<>>, !.got = <<>>, !.todo = {}, !.call = 0], "idle", s.member, s.gen, s.pos, <<>>, <<>>, {}, 0)
    BY <1>0 DEF Consumer, Phases, Has
  <1>10. \A x \in Outcome, y \in Positions :
                /\ Installed(s, x, y) \in Consumer
                /\ Has(Installed(s, x, y), "idle", x.member, x.gen, y, <<>>, <<>>, {}, 0)
    <2> SUFFICES ASSUME NEW x \in Outcome, NEW y \in Positions
                 PROVE  /\ Installed(s, x, y) \in Consumer
                        /\ Has(Installed(s, x, y), "idle", x.member, x.gen, y, <<>>, <<>>, {}, 0)
      OBVIOUS
    <2>1. x.member \in Nat /\ x.gen \in Nat
      BY DEF Outcome
    <2>2. \A a, b \in Nat :
            LET r == [s EXCEPT !.phase = "idle", !.member = a, !.gen = b, !.pos = y,
                               !.outcome = <<>>, !.got = <<>>, !.todo = {}, !.call = 0]
            IN  r \in Consumer /\ Has(r, "idle", a, b, y, <<>>, <<>>, {}, 0)
      BY ZenonT(40), <1>0 DEF Consumer, Phases, Has
    <2>3. QED
      BY <2>1, <2>2 DEF Installed
  <1>11. QED
    BY <1>1, <1>2, <1>3, <1>4, <1>5, <1>6, <1>7, <1>8, <1>9, <1>10

\* One consumer changes.
Took(c, r) ==
    /\ cons' \in [Consumers -> Consumer]
    /\ cons'[c] = r
    /\ \A d \in Consumers : d # c => cons'[d] = cons[d]

LEMMA OneConsumer ==
  ASSUME cons \in [Consumers -> Consumer], NEW c \in Consumers, NEW r \in Consumer,
         cons' = [cons EXCEPT ![c] = r]
  PROVE  Took(c, r)
  BY DEF Took

LEMMA OutIsAConsumer == Out \in Consumer /\ ConsumerOK(Out) /\ Views(Out) = {EmptyView}
  <1>1. DOMAIN <<>> = {} /\ <<>> \in Positions
    BY NoPositions
  <1>2. Out \in Consumer
    BY <1>1 DEF Out, Consumer, NoMember, Phases
  <1>3. ConsumerOK(Out)
    BY DEF ConsumerOK, Out
  <1>4. Views(Out) = {EmptyView}
    BY <1>1 DEF Views, View, Out, EmptyView
  <1>5. QED
    BY <1>2, <1>3, <1>4

------------------------------------------------------------------------------
(* Views and offsets under a step *)

LEMMA ViewsTyped ==
  ASSUME NEW s \in Consumer, ConsumerOK(s)
  PROVE  Views(s) \subseteq Outcome
  <1>1. View(s) \in Outcome
    BY PositionsFacts DEF Consumer, View, Outcome
  <1>2. s.phase = "loading" => s.outcome \in Outcome
    BY DEF ConsumerOK
  <1>3. QED
    BY <1>1, <1>2 DEF Views

LEMMA MembersArePositive ==
  ASSUME NEW g, GroupOK(g)
  PROVE  /\ NoMember \notin DOMAIN g.members
         /\ \A m \in DOMAIN g.members : m \in Nat
  BY GroupsAssumption DEF GroupOK, Memberships, NoMember, GroupsAssumption

\* A view that consumer d can take up in this step.
Fits(d, v) ==
    /\ ViewOK(v, group', nextMember')
    /\ \A e \in Consumers \ {d} : \A w \in Views(cons'[e]) : Apart(v, w) /\ Apart(w, v)

\* The group stays or moves on to its next generation; the consumers keep views,
\* lose them, or take up new ones that fit.
LEMMA ViewStep ==
  ASSUME TypeInv, ViewInv, nextMember' \in Nat, nextMember <= nextMember',
         group' = group \/ group'.generation = group.generation + 1,
         \A d \in Consumers : \A v \in Views(cons'[d]) :
             v \in Views(cons[d]) \cup {EmptyView} \/ Fits(d, v)
  PROVE  ViewInv'
  <1>1. /\ group.generation \in Nat /\ nextMember \in Nat /\ nextMember > 0
        /\ \A d \in Consumers : cons[d] \in Consumer /\ ConsumerOK(cons[d])
    BY GroupsAssumption DEF TypeInv, GroupOK, GroupsAssumption
  <1>2. \A d \in Consumers : \A v \in Views(cons[d]) : v.member \in Nat /\ v.gen \in Nat
    BY <1>1, ViewsTyped DEF Outcome
  <1>3. \A d \in Consumers : \A v \in Views(cons[d]) : ViewOK(v, group', nextMember')
    <2> SUFFICES ASSUME NEW d \in Consumers, NEW v \in Views(cons[d])
                 PROVE  ViewOK(v, group', nextMember')
      OBVIOUS
    <2>1. ViewOK(v, group, nextMember) /\ v.member \in Nat /\ v.gen \in Nat
      BY <1>2 DEF ViewInv
    <2>2. v.member < nextMember'
      BY <1>1, <2>1 DEF ViewOK
    <2>3. CASE group' = group
      BY <2>1, <2>2, <2>3 DEF ViewOK
    <2>4. CASE group'.generation = group.generation + 1
      <3>1. v.gen <= group'.generation /\ v.gen # group'.generation
        BY <1>1, <2>1, <2>4 DEF ViewOK
      <3>2. QED
        BY <2>1, <2>2, <3>1 DEF ViewOK
    <2>5. QED
      BY <2>3, <2>4
  <1>4. ViewOK(EmptyView, group', nextMember')
    <2>1. group'.generation \in Nat
      BY <1>1
    <2>2. EmptyView.member = NoMember /\ EmptyView.gen = 0 /\ EmptyView.parts = {}
      BY DEF EmptyView
    <2>3. 0 < nextMember' /\ 0 <= group'.generation
      BY <1>1, <2>1
    <2>4. QED
      BY <2>2, <2>3 DEF ViewOK, NoMember
  <1>5. \A w : Apart(EmptyView, w) /\ Apart(w, EmptyView)
    BY DEF Apart, EmptyView
  <1>6. \A d \in Consumers : \A v \in Views(cons'[d]) : ViewOK(v, group', nextMember')
    BY <1>3, <1>4 DEF Fits
  <1>7. ASSUME NEW d \in Consumers, NEW e \in Consumers, d # e,
               NEW v \in Views(cons'[d]), NEW w \in Views(cons'[e])
        PROVE  Apart(v, w)
    <2>1. CASE v = EmptyView \/ w = EmptyView
      BY <1>5, <2>1
    <2>2. CASE v \in Views(cons[d]) /\ w \in Views(cons[e])
      BY <1>7, <2>2 DEF ViewInv
    <2>3. CASE Fits(d, v)
      BY <1>7, <2>3 DEF Fits
    <2>4. CASE Fits(e, w)
      BY <1>7, <2>4 DEF Fits
    <2>5. QED
      BY <1>7, <2>1, <2>2, <2>3, <2>4
  <1>8. QED
    BY <1>6, <1>7 DEF ViewInv

\* More deliveries leave what is below an offset delivered.
LEMMA BelowGrows ==
  ASSUME delivered \in [Parts -> SUBSET Nat],
         \A p \in Parts : delivered[p] \subseteq delivered'[p]
  PROVE  /\ \A p \in Parts : \A o : Below(delivered, p, o) => Below(delivered', p, o)
         /\ \A f : DOMAIN f \subseteq Parts /\ AllBelow(delivered, f) => AllBelow(delivered', f)
  BY DEF Below, AllBelow

\* A step of one consumer that leaves the broker alone.
LEMMA LocalStep ==
  ASSUME IndInv, NEW c \in Consumers, NEW r \in Consumer, ConsumerOK(r), Took(c, r),
         UNCHANGED <<broker, late, overlap>>, ViewInv',
         count' \in [commits : Nat, faults : Nat, restarts : Nat],
         delivered' \in [Parts -> SUBSET Nat],
         \A p \in Parts : delivered[p] \subseteq delivered'[p],
         AllBelow(delivered', r.pos), AllBelow(delivered', r.got), RejoinOK(r),
         \A t \in tasks : t.checked = group.generation => Fenced(r, t.part),
         \A p \in Parts \ (late \cup overlap) : KeepsUp(r, p)
  PROVE  IndInv'
  <1>0. UNCHANGED <<group, nextMember, offsetsLog, synced, cache, tasks, late, overlap>>
    BY DEF broker
  <1>1. TypeInv'
    <2>1. TypeInv /\ Members' = Members
      BY <1>0 DEF IndInv, Members
    <2>2. \A d \in Consumers : ConsumerOK(cons'[d])
      BY <2>1 DEF TypeInv, Took
    <2>3. cons' \in [Consumers -> Consumer]
      BY DEF Took
    <2>4. QED
      BY <1>0, <2>1, <2>2, <2>3 DEF TypeInv
  <1>2. DeliveryInv'
    <2>1. /\ cache \in [Parts -> 0 .. LogEnd] /\ delivered \in [Parts -> SUBSET Nat]
          /\ \A i \in DOMAIN offsetsLog : offsetsLog[i].part \in Parts
          /\ \A t \in tasks : t.part \in Parts
          /\ \A d \in Consumers : DOMAIN cons[d].pos \subseteq Parts /\ DOMAIN cons[d].got \subseteq Parts
      <3>1. \A i \in DOMAIN offsetsLog : offsetsLog[i] \in CommitRecord
        BY ElementOfSeq, LenProperties DEF IndInv, TypeInv
      <3>2. \A d \in Consumers : cons[d].pos \in Positions /\ cons[d].got \in Positions
        BY DEF IndInv, TypeInv, Consumer
      <3>3. QED
        BY <3>1, <3>2, PositionsFacts DEF IndInv, TypeInv, Task, CommitRecord
    <2>2. /\ AllBelow(delivered', cache)
          /\ \A i \in DOMAIN offsetsLog :
                 Below(delivered', offsetsLog[i].part, offsetsLog[i].offset)
          /\ \A t \in tasks : Below(delivered', t.part, t.offset)
          /\ \A d \in Consumers :
                 AllBelow(delivered', cons[d].pos) /\ AllBelow(delivered', cons[d].got)
      BY <2>1, BelowGrows DEF IndInv, DeliveryInv
    <2>3. \A d \in Consumers :
                 AllBelow(delivered', cons'[d].pos) /\ AllBelow(delivered', cons'[d].got)
      BY <2>2 DEF Took
    <2>4. QED
      BY <1>0, <2>2, <2>3 DEF DeliveryInv
  <1>3. RestartInv'
    BY <1>0 DEF IndInv, RestartInv, SettledInv
  <1>4. FenceInv'
    <2>1. FenceInv /\ Members' = Members
      BY <1>0 DEF IndInv, AdvanceInv, Members
    <2>2. \A d \in Consumers : RejoinOK(cons'[d])
      BY <2>1 DEF FenceInv, Took
    <2>3. \A t \in tasks, d \in Consumers :
              t.checked = group.generation => Fenced(cons'[d], t.part)
      BY <2>1 DEF FenceInv, Took
    <2>4. \A d \in Consumers : RejoinOK(cons[d])'
      BY <1>0, <2>2 DEF RejoinOK
    <2>5. \A t \in tasks, d \in Consumers :
              t.checked = group.generation => Fenced(cons[d], t.part)'
      BY <1>0, <2>1, <2>3 DEF Fenced
    <2>6. QED
      BY <1>0, <2>1, <2>4, <2>5 DEF FenceInv
  <1>5. ASSUME NEW p \in Parts \ (late \cup overlap)
        PROVE  AheadInv(p)'
    <2>1. AheadInv(p)
      BY DEF IndInv, AdvanceInv
    <2>2. Current(p)' = Current(p)
      BY <1>0 DEF Current
    <2>3. \A d \in Consumers : KeepsUp(cons'[d], p)
      BY <2>1 DEF AheadInv, Took
    <2>4. \A d \in Consumers : KeepsUp(cons[d], p)'
      BY <1>0, <2>2, <2>3 DEF KeepsUp
    <2>5. QED
      BY <1>0, <2>1, <2>2, <2>4 DEF AheadInv
  <1>6. QED
    BY <1>0, <1>1, <1>2, <1>3, <1>4, <1>5 DEF IndInv, AdvanceInv

------------------------------------------------------------------------------
(* The steps of one consumer *)

\* What IndInv says of one consumer.
LEMMA OfConsumer ==
  ASSUME IndInv, NEW c \in Consumers
  PROVE  /\ cons \in [Consumers -> Consumer]
         /\ cons[c] \in Consumer /\ ConsumerOK(cons[c]) /\ View(cons[c]) \in Views(cons[c])
         /\ cons[c].member \in Nat /\ cons[c].gen \in Nat
         /\ group.generation \in Nat /\ cons[c].gen <= group.generation
         /\ cons[c].member # NoMember /\ cons[c].gen = group.generation =>
                /\ cons[c].member \in Members
                /\ DOMAIN cons[c].pos = group.assignment[cons[c].member]
         /\ AllBelow(delivered, cons[c].pos) /\ AllBelow(delivered, cons[c].got)
         /\ cons[c].pos \in Positions /\ cons[c].got \in Positions
         /\ RejoinOK(cons[c])
         /\ \A t \in tasks : t.checked = group.generation => Fenced(cons[c], t.part)
         /\ \A p \in Parts \ (late \cup overlap) : KeepsUp(cons[c], p)
         /\ delivered \in [Parts -> SUBSET Nat]
         /\ count \in [commits : Nat, faults : Nat, restarts : Nat]
         /\ nextMember \in Nat /\ nextMember > 0
  <1>1. TypeInv /\ ViewInv /\ DeliveryInv /\ AdvanceInv
    BY DEF IndInv
  <1>2. View(cons[c]) \in Views(cons[c])
    BY DEF Views
  <1>3. ViewOK(View(cons[c]), group, nextMember)
    BY <1>1, <1>2 DEF ViewInv
  <1>4. /\ cons[c].gen <= group.generation
        /\ cons[c].member # NoMember /\ cons[c].gen = group.generation =>
                /\ cons[c].member \in Members
                /\ DOMAIN cons[c].pos = group.assignment[cons[c].member]
    BY <1>3 DEF ViewOK, View, Members
  <1>5. cons[c] \in Consumer /\ ConsumerOK(cons[c])
    BY <1>1 DEF TypeInv
  <1>6. /\ cons[c].member \in Nat /\ cons[c].gen \in Nat
        /\ cons[c].pos \in Positions /\ cons[c].got \in Positions
    BY <1>5 DEF Consumer
  <1>7. nextMember \in Nat /\ nextMember > 0 /\ group.generation \in Nat
    BY <1>1, GroupsAssumption DEF TypeInv, GroupOK, GroupsAssumption
  <1>8. /\ cons \in [Consumers -> Consumer]
        /\ delivered \in [Parts -> SUBSET Nat]
        /\ count \in [commits : Nat, faults : Nat, restarts : Nat]
    BY <1>1 DEF TypeInv
  <1>9. /\ RejoinOK(cons[c])
        /\ \A t \in tasks : t.checked = group.generation => Fenced(cons[c], t.part)
        /\ \A p \in Parts \ (late \cup overlap) : KeepsUp(cons[c], p)
    BY <1>1 DEF AdvanceInv, FenceInv, AheadInv
  <1>10. AllBelow(delivered, cons[c].pos) /\ AllBelow(delivered, cons[c].got)
    BY <1>1 DEF DeliveryInv
  <1>11. QED
    BY <1>2, <1>4, <1>5, <1>6, <1>7, <1>8, <1>9, <1>10

\* The consumer goes on with the work it has.
LEMMA SameWork ==
  ASSUME IndInv, NEW c \in Consumers, NEW r \in Consumer, ConsumerOK(r), Took(c, r),
         UNCHANGED <<broker, late, overlap, delivered>>,
         count' \in [commits : Nat, faults : Nat, restarts : Nat],
         r.member = cons[c].member, r.gen = cons[c].gen, r.pos = cons[c].pos,
         r.phase # "loading", r.got = cons[c].got \/ r.got = <<>>, RejoinOK(r)
  PROVE  IndInv'
  <1>1. AllBelow(delivered', r.pos) /\ AllBelow(delivered', r.got)
    <2>1. AllBelow(delivered, <<>>)
      BY NoPositions DEF AllBelow
    <2>2. QED
      BY <2>1, OfConsumer
  <1>2. \A t \in tasks : t.checked = group.generation => Fenced(r, t.part)
    BY OfConsumer DEF Fenced
  <1>3. \A p \in Parts \ (late \cup overlap) : KeepsUp(r, p)
    BY OfConsumer DEF KeepsUp
  <1>4. ViewInv'
    <2>1. Views(r) \subseteq Views(cons[c])
      BY DEF Views, View
    <2>2. \A d \in Consumers : Views(cons'[d]) \subseteq Views(cons[d]) \cup {EmptyView}
      BY <2>1 DEF Took
    <2>3. TypeInv /\ ViewInv /\ nextMember' \in Nat /\ nextMember <= nextMember' /\ group' = group
      BY OfConsumer DEF IndInv, broker
    <2>4. QED
      BY <2>2, <2>3, ViewStep
  <1>5. \A p \in Parts : delivered[p] \subseteq delivered'[p]
    OBVIOUS
  <1>6. delivered' \in [Parts -> SUBSET Nat]
    BY OfConsumer
  <1>7. QED
    BY <1>1, <1>2, <1>3, <1>4, <1>5, <1>6, LocalStep

\* The consumer is gone.
LEMMA Gone ==
  ASSUME IndInv, NEW c \in Consumers, Took(c, Out),
         UNCHANGED <<broker, late, overlap, delivered>>,
         count' \in [commits : Nat, faults : Nat, restarts : Nat]
  PROVE  IndInv'
  <1>0. Out.pos = <<>> /\ Out.got = <<>> /\ Out.phase = "out" /\ Out.member = NoMember
    BY DEF Out
  <1>1. AllBelow(delivered', Out.pos) /\ AllBelow(delivered', Out.got) /\ RejoinOK(Out)
    BY <1>0, NoPositions DEF AllBelow, RejoinOK
  <1>2. \A t \in tasks : t.checked = group.generation => Fenced(Out, t.part)
    <2>1. NoMember \notin Members
      BY MembersArePositive DEF IndInv, TypeInv, Members
    <2>2. QED
      BY <1>0, <2>1 DEF Fenced
  <1>3. \A p \in Parts \ (late \cup overlap) : KeepsUp(Out, p)
    BY <1>0, NoPositions DEF KeepsUp
  <1>4. ViewInv'
    <2>1. \A d \in Consumers : Views(cons'[d]) \subseteq Views(cons[d]) \cup {EmptyView}
      BY OutIsAConsumer DEF Took
    <2>2. TypeInv /\ ViewInv /\ nextMember' \in Nat /\ nextMember <= nextMember' /\ group' = group
      BY OfConsumer DEF IndInv, broker
    <2>3. QED
      BY <2>1, <2>2, ViewStep
  <1>5. \A p \in Parts : delivered[p] \subseteq delivered'[p]
    OBVIOUS
  <1>6. delivered' \in [Parts -> SUBSET Nat]
    BY OfConsumer
  <1>7. QED
    BY <1>1, <1>2, <1>3, <1>4, <1>5, <1>6, LocalStep, OutIsAConsumer

LEMMA HeartbeatInd ==
  ASSUME IndInv, NEW c \in Consumers, Heartbeat(c)
  PROVE  IndInv'
  <1> DEFINE s == cons[c]
             r == [s EXCEPT !.phase = "rejoin"]
  <1>1. s \in Consumer /\ ConsumerOK(s) /\ s.phase = "idle" /\ Behind(c)
    BY OfConsumer DEF Heartbeat
  <1>2. cons' = [cons EXCEPT ![c] = r]
    BY DEF Heartbeat
  <1>3. /\ r \in Consumer
        /\ Has(r, "rejoin", s.member, s.gen, s.pos, s.outcome, s.got, s.todo, s.call)
    BY <1>1, RecordUpdates DEF Phases
  <1> HIDE DEF r
  <1>4. Took(c, r)
    BY <1>2, <1>3, OfConsumer, OneConsumer
  <1>5. s.member # NoMember
    BY <1>1 DEF ConsumerOK
  <1>6. s.gen # group.generation
    BY <1>1, <1>5, OfConsumer DEF Behind, HeartbeatError
  <1>7. s.gen < group.generation
    BY <1>6, OfConsumer
  <1>8. ConsumerOK(r) /\ RejoinOK(r)
    BY <1>3, <1>5, <1>7 DEF ConsumerOK, RejoinOK, Has
  <1>9. UNCHANGED <<broker, late, overlap, delivered, count>>
    BY DEF Heartbeat, history
  <1>10. QED
    BY <1>3, <1>4, <1>8, <1>9, OfConsumer, SameWork DEF Has

LEMMA StartCommitInd ==
  ASSUME IndInv, NEW c \in Consumers, StartCommit(c)
  PROVE  IndInv'
  <1> DEFINE s == cons[c]
             r == [s EXCEPT !.phase = "committing", !.todo = DOMAIN s.pos]
  <1>1. s \in Consumer /\ ConsumerOK(s) /\ s.phase = "idle"
    BY OfConsumer DEF StartCommit
  <1>2. cons' = [cons EXCEPT ![c] = r]
    BY DEF StartCommit
  <1>3. /\ r \in Consumer
        /\ Has(r, "committing", s.member, s.gen, s.pos, s.outcome, s.got, DOMAIN s.pos, s.call)
    <2>1. DOMAIN s.pos \in SUBSET Parts /\ "committing" \in Phases
      BY OfConsumer, PositionsFacts DEF Phases
    <2>2. QED
      BY <1>1, <2>1, RecordUpdates
  <1> HIDE DEF r
  <1>4. Took(c, r)
    BY <1>2, <1>3, OfConsumer, OneConsumer
  <1>5. ConsumerOK(r) /\ RejoinOK(r)
    BY <1>1, <1>3 DEF ConsumerOK, RejoinOK, Has
  <1>6. UNCHANGED <<broker, late, overlap, delivered, count>>
    BY DEF StartCommit, history
  <1>7. QED
    BY <1>3, <1>4, <1>5, <1>6, OfConsumer, SameWork DEF Has

\* The fence refuses the commit.
CommitRefused(c) ==
    /\ CommitOffset(c)
    /\ CheckCommit(cons[c].member, cons[c].gen) # "None"

LEMMA CommitRefusedInd ==
  ASSUME IndInv, NEW c \in Consumers, CommitRefused(c)
  PROVE  IndInv'
  <1> DEFINE s == cons[c]
             r == [s EXCEPT !.phase = "rejoin", !.todo = {}]
  <1>1. s \in Consumer /\ ConsumerOK(s) /\ s.phase = "committing"
    BY OfConsumer DEF CommitRefused, CommitOffset
  <1>2. cons' = [cons EXCEPT ![c] = r] /\ UNCHANGED <<tasks, count, overlap>>
    BY DEF CommitRefused, CommitOffset
  <1>3. /\ r \in Consumer
        /\ Has(r, "rejoin", s.member, s.gen, s.pos, s.outcome, s.got, {}, s.call)
    BY <1>1, RecordUpdates DEF Phases
  <1> HIDE DEF r
  <1>4. Took(c, r)
    BY <1>2, <1>3, OfConsumer, OneConsumer
  <1>5. s.member # NoMember
    BY <1>1 DEF ConsumerOK
  <1>6. s.gen # group.generation
    BY <1>1, <1>5, OfConsumer DEF CommitRefused, CheckCommit, HeartbeatError
  <1>7. s.gen < group.generation
    BY <1>6, OfConsumer
  <1>8. ConsumerOK(r) /\ RejoinOK(r)
    BY <1>3, <1>5, <1>7 DEF ConsumerOK, RejoinOK, Has
  <1>9. UNCHANGED <<broker, late, overlap, delivered, count>>
    BY <1>2 DEF CommitRefused, CommitOffset, broker
  <1>10. QED
    BY <1>3, <1>4, <1>8, <1>9, OfConsumer, SameWork DEF Has

\* One more fault, commit or restart.
LEMMA CountUp ==
  ASSUME count \in [commits : Nat, faults : Nat, restarts : Nat]
  PROVE  /\ [count EXCEPT !.faults = @ + 1] \in [commits : Nat, faults : Nat, restarts : Nat]
         /\ [count EXCEPT !.commits = @ + 1] \in [commits : Nat, faults : Nat, restarts : Nat]
         /\ [count EXCEPT !.faults = @ + 1, !.restarts = @ + 1]
                \in [commits : Nat, faults : Nat, restarts : Nat]
         /\ [count EXCEPT !.commits = @ + 1].commits = count.commits + 1
  <1>1. /\ [count EXCEPT !.faults = @ + 1] \in [commits : Nat, faults : Nat, restarts : Nat]
        /\ [count EXCEPT !.commits = @ + 1] \in [commits : Nat, faults : Nat, restarts : Nat]
        /\ [count EXCEPT !.commits = @ + 1].commits = count.commits + 1
    OBVIOUS
  <1>2. \A x, y \in Nat : [count EXCEPT !.faults = x, !.restarts = y]
                                \in [commits : Nat, faults : Nat, restarts : Nat]
    OBVIOUS
  <1>3. count.faults + 1 \in Nat /\ count.restarts + 1 \in Nat
    OBVIOUS
  <1>4. QED
    BY <1>1, <1>2, <1>3

LEMMA DieInd ==
  ASSUME IndInv, NEW c \in Consumers, Die(c)
  PROVE  IndInv'
  <1>1. Took(c, Out)
    BY OfConsumer, OneConsumer, OutIsAConsumer DEF Die
  <1>2. UNCHANGED <<broker, late, overlap, delivered>>
    BY DEF Die, history
  <1>3. count' \in [commits : Nat, faults : Nat, restarts : Nat]
    BY OfConsumer, CountUp DEF Die
  <1>4. QED
    BY <1>1, <1>2, <1>3, Gone

LEMMA CancelInd ==
  ASSUME IndInv, NEW c \in Consumers, Cancel(c)
  PROVE  IndInv'
  <1> DEFINE s == cons[c]
             r == [s EXCEPT !.phase = "idle", !.outcome = <<>>, !.got = <<>>, !.todo = {},
                            !.call = 0]
  <1>1. UNCHANGED <<broker, late, overlap, delivered>>
    BY DEF Cancel, history
  <1>2. count' \in [commits : Nat, faults : Nat, restarts : Nat]
    BY OfConsumer, CountUp DEF Cancel
  <1>3. s \in Consumer /\ ConsumerOK(s)
    BY OfConsumer
  <1>4. CASE s.member = NoMember
    <2>1. cons' = [cons EXCEPT ![c] = Out]
      BY <1>4 DEF Cancel
    <2>2. Took(c, Out)
      BY <2>1, OfConsumer, OneConsumer, OutIsAConsumer
    <2>3. QED
      BY <1>1, <1>2, <2>2, Gone
  <1>5. CASE s.member # NoMember
    <2>1. cons' = [cons EXCEPT ![c] = r]
      BY <1>5 DEF Cancel
    <2>2. /\ r \in Consumer
          /\ Has(r, "idle", s.member, s.gen, s.pos, <<>>, <<>>, {}, 0)
      BY <1>3, RecordUpdates
    <2> HIDE DEF r
    <2>3. Took(c, r)
      BY <2>1, <2>2, OfConsumer, OneConsumer
    <2>4. ConsumerOK(r) /\ RejoinOK(r)
      BY <1>5, <2>2 DEF ConsumerOK, RejoinOK, Has
    <2>5. QED
      BY <1>1, <1>2, <2>2, <2>3, <2>4, SameWork DEF Has
  <1>6. QED
    BY <1>4, <1>5

LEMMA PollInd ==
  ASSUME IndInv, NEW c \in Consumers, Poll(c)
  PROVE  IndInv'
  <1> DEFINE s == cons[c]
  <1>1. s \in Consumer /\ ConsumerOK(s) /\ s.phase = "idle" /\ s.pos \in Positions
    BY OfConsumer DEF Poll
  <1>2. PICK p \in DOMAIN s.pos : \E next \in s.pos[p] + 1 .. LogEnd :
            /\ delivered' = [delivered EXCEPT ![p] = @ \cup (s.pos[p] .. next - 1)]
            /\ cons' = [cons EXCEPT ![c].pos[p] = next]
    BY DEF Poll
  <1>3. PICK next \in s.pos[p] + 1 .. LogEnd :
            /\ delivered' = [delivered EXCEPT ![p] = @ \cup (s.pos[p] .. next - 1)]
            /\ cons' = [cons EXCEPT ![c].pos[p] = next]
    BY <1>2
  <1> DEFINE pos == [s.pos EXCEPT ![p] = next]
             r == [s EXCEPT !.pos = pos]
  <1>4. cons' = [cons EXCEPT ![c] = r]
    BY <1>3
  <1>5. /\ p \in Parts /\ s.pos[p] \in 0 .. LogEnd /\ LogEnd \in Nat
        /\ next \in 0 .. LogEnd /\ s.pos[p] < next
    <2>1. p \in Parts /\ s.pos[p] \in 0 .. LogEnd /\ LogEnd \in Nat
      BY <1>1, PositionsFacts, GroupsAssumption DEF GroupsAssumption
    <2>2. QED
      BY <1>3, <2>1
  <1>6. /\ pos \in Positions /\ DOMAIN pos = DOMAIN s.pos
        /\ \A q \in DOMAIN s.pos : pos[q] = IF q = p THEN next ELSE s.pos[q]
    BY <1>1, <1>5, PositionSet
  <1> HIDE DEF pos
  <1>7. /\ r \in Consumer
        /\ Has(r, "idle", s.member, s.gen, pos, s.outcome, s.got, s.todo, s.call)
    BY <1>1, <1>6, RecordUpdates
  <1> HIDE DEF r
  <1>8. Took(c, r)
    BY <1>4, <1>7, OfConsumer, OneConsumer
  <1>9. ConsumerOK(r) /\ RejoinOK(r)
    BY <1>1, <1>7 DEF ConsumerOK, RejoinOK, Has
  <1>10. UNCHANGED <<broker, late, overlap, count>>
    BY DEF Poll
  <1>11. /\ delivered' \in [Parts -> SUBSET Nat]
         /\ \A q \in Parts : delivered[q] \subseteq delivered'[q]
         /\ delivered'[p] = delivered[p] \cup (s.pos[p] .. next - 1)
    <2>1. (s.pos[p] .. next - 1) \subseteq Nat /\ delivered \in [Parts -> SUBSET Nat]
      BY <1>5, OfConsumer
    <2>2. QED
      BY <1>3, <1>5, <2>1
  <1>12. AllBelow(delivered', s.pos) /\ AllBelow(delivered', s.got)
    BY <1>1, <1>11, OfConsumer, BelowGrows, PositionsFacts
  <1>13. AllBelow(delivered', pos)
    <2>1. Below(delivered', p, next)
      <3>1. 0 .. s.pos[p] - 1 \subseteq delivered'[p] /\ s.pos[p] .. next - 1 \subseteq delivered'[p]
        BY <1>2, <1>11, <1>12 DEF AllBelow, Below
      <3>2. 0 .. next - 1 \subseteq (0 .. s.pos[p] - 1) \cup (s.pos[p] .. next - 1)
        BY <1>5
      <3>3. QED
        BY <3>1, <3>2 DEF Below
    <2>2. QED
      BY <1>6, <1>12, <2>1 DEF AllBelow
  <1>14. \A t \in tasks : t.checked = group.generation => Fenced(r, t.part)
    <2>1. r.member = s.member /\ r.gen = s.gen /\ r.phase # "loading"
      BY <1>7 DEF Has
    <2>2. QED
      BY <2>1, OfConsumer DEF Fenced
  <1>15. ASSUME NEW q \in Parts \ (late \cup overlap)
         PROVE  KeepsUp(r, q)
    <2>1. KeepsUp(s, q)
      BY OfConsumer
    <2>2. r.gen = s.gen /\ r.phase = "idle" /\ r.pos = pos
      BY <1>7 DEF Has
    <2>3. \A x \in DOMAIN pos : pos[x] \in Int /\ s.pos[x] \in Int /\ s.pos[x] <= pos[x]
      BY <1>1, <1>5, <1>6, PositionsFacts
    <2>4. cache[q] \in Int /\ \A t \in Current(q) : t.offset \in Int
      BY DEF IndInv, TypeInv, Current, Task
    <2>5. QED
      BY <1>6, <2>1, <2>2, <2>3, <2>4 DEF KeepsUp
  <1>16. ViewInv'
    <2>1. Views(r) = Views(s)
      BY <1>1, <1>6, <1>7 DEF Views, View, Has
    <2>2. \A d \in Consumers : Views(cons'[d]) \subseteq Views(cons[d]) \cup {EmptyView}
      BY <1>8, <2>1 DEF Took
    <2>3. TypeInv /\ ViewInv /\ nextMember' \in Nat /\ nextMember <= nextMember' /\ group' = group
      BY <1>10, OfConsumer DEF IndInv, broker
    <2>4. QED
      BY <2>2, <2>3, ViewStep
  <1>17. r.pos = pos /\ r.got = s.got /\ count' \in [commits : Nat, faults : Nat, restarts : Nat]
    BY <1>7, <1>10, OfConsumer DEF Has
  <1>18. QED
    BY <1>7, <1>8, <1>9, <1>10, <1>11, <1>12, <1>13, <1>14, <1>15, <1>16, <1>17, LocalStep

\* What IndInv says of a consumer that fetches its offsets.
LEMMA OfLoading ==
  ASSUME IndInv, NEW c \in Consumers, cons[c].phase = "loading"
  PROVE  /\ cons[c].outcome \in Outcome /\ cons[c].outcome \in Views(cons[c])
         /\ cons[c].outcome.member # NoMember
         /\ cons[c].outcome.gen \in Nat /\ cons[c].outcome.gen <= group.generation
         /\ cons[c].outcome.parts \subseteq Parts
         /\ DOMAIN cons[c].got \subseteq cons[c].outcome.parts
         /\ cons[c].outcome.parts \ DOMAIN cons[c].got # {}
         /\ cons[c].outcome.gen = group.generation =>
                /\ cons[c].outcome.member \in Members
                /\ cons[c].outcome.parts = group.assignment[cons[c].outcome.member]
  <1>1. cons[c].outcome \in Views(cons[c])
    BY DEF Views
  <1>2. ConsumerOK(cons[c])
    BY OfConsumer
  <1>3. ViewOK(cons[c].outcome, group, nextMember)
    BY <1>1 DEF IndInv, ViewInv
  <1>4. /\ cons[c].outcome \in Outcome /\ cons[c].outcome.member # NoMember
        /\ DOMAIN cons[c].got \subseteq cons[c].outcome.parts
        /\ cons[c].outcome.parts \ DOMAIN cons[c].got # {}
    BY <1>2 DEF ConsumerOK
  <1>5. QED
    BY <1>1, <1>3, <1>4 DEF ViewOK, Members, Outcome

LEMMA LoadOffsetInd ==
  ASSUME IndInv, NEW c \in Consumers, LoadOffset(c)
  PROVE  IndInv'
  <1> DEFINE s == cons[c]
             p == CHOOSE x \in s.outcome.parts : x \notin DOMAIN s.got
             got == With(s.got, p, StartAt(p))
             full == DOMAIN got = s.outcome.parts
             r == IF full THEN Installed(s, s.outcome, got) ELSE [s EXCEPT !.got = got]
  <1>1. /\ s \in Consumer /\ ConsumerOK(s) /\ s.phase = "loading"
        /\ s.outcome \in Outcome /\ s.outcome.member # NoMember /\ s.outcome.parts \subseteq Parts
        /\ DOMAIN s.got \subseteq s.outcome.parts /\ s.got \in Positions
    BY OfConsumer, OfLoading DEF LoadOffset
  <1>2. cons' = [cons EXCEPT ![c] = r] /\ UNCHANGED <<broker, count, history>>
    BY DEF LoadOffset
  <1>3. p \in s.outcome.parts /\ p \notin DOMAIN s.got /\ p \in Parts
    <2>1. \E x \in s.outcome.parts : x \notin DOMAIN s.got
      BY <1>1, OfLoading
    <2>2. QED
      BY <1>1, <2>1
  <1> HIDE DEF p
  <1>4. /\ got \in Positions /\ DOMAIN got = {p} \cup DOMAIN s.got
        /\ \A q \in DOMAIN got : got[q] = IF q = p THEN cache[p] ELSE s.got[q]
        /\ cache[p] \in 0 .. LogEnd
    <2>1. cache[p] \in 0 .. LogEnd
      BY <1>3 DEF IndInv, TypeInv
    <2>2. QED
      <3> DEFINE o == StartAt(p)
      <3>1. o = cache[p] /\ o \in 0 .. LogEnd
        BY <2>1 DEF StartAt
      <3> HIDE DEF o
      <3>2. /\ With(s.got, p, o) \in Positions /\ DOMAIN With(s.got, p, o) = {p} \cup DOMAIN s.got
            /\ \A q \in {p} \cup DOMAIN s.got :
                   With(s.got, p, o)[q] = IF q = p THEN o ELSE s.got[q]
        <4>1. With(s.got, p, o) \in Positions
          BY <1>1, <1>3, <3>1, PositionAdded
        <4>2. QED
          BY <4>1 DEF With
      <3>3. got = With(s.got, p, o)
        BY DEF o
      <3> HIDE DEF got
      <3>4. QED
        BY <2>1, <3>1, <3>2, <3>3
  <1> HIDE DEF got
  <1>5. /\ r \in Consumer
        /\ full => Has(r, "idle", s.outcome.member, s.outcome.gen, got, <<>>, <<>>, {}, 0)
        /\ ~full => Has(r, "loading", s.member, s.gen, s.pos, s.outcome, got, s.todo, s.call)
    BY <1>1, <1>4, RecordUpdates
  <1> HIDE DEF r
  <1>6. Took(c, r)
    BY <1>2, <1>5, OfConsumer, OneConsumer
  <1>7. ConsumerOK(r) /\ RejoinOK(r)
    <2>1. CASE full
      BY <1>1, <1>5, <2>1 DEF ConsumerOK, RejoinOK, Has
    <2>2. CASE ~full
      <3>1. DOMAIN got \subseteq s.outcome.parts /\ s.outcome.parts \ DOMAIN got # {}
        BY <1>1, <1>3, <1>4, <2>2
      <3>2. QED
        BY <1>1, <1>5, <2>2, <3>1 DEF ConsumerOK, RejoinOK, Has
    <2>3. QED
      BY <2>1, <2>2
  <1>8. UNCHANGED <<broker, late, overlap, delivered>> /\ count' = count
    BY <1>2 DEF history
  <1>9. AllBelow(delivered', r.pos) /\ AllBelow(delivered', r.got)
    <2>1. AllBelow(delivered, s.pos) /\ AllBelow(delivered, s.got) /\ AllBelow(delivered, <<>>)
      BY OfConsumer, NoPositions DEF AllBelow
    <2>2. Below(delivered, p, cache[p])
      BY <1>3 DEF IndInv, DeliveryInv, AllBelow, TypeInv
    <2>3. AllBelow(delivered, got)
      BY <1>4, <2>1, <2>2 DEF AllBelow
    <2>4. QED
      BY <1>5, <1>8, <2>1, <2>3 DEF Has
  <1>10. \A t \in tasks : t.checked = group.generation => Fenced(r, t.part)
    <2>1. \A t \in tasks : t.checked = group.generation => Fenced(s, t.part)
      BY OfConsumer
    <2>2. CASE full
      <3>1. r.member = s.outcome.member /\ r.phase = "idle"
        BY <1>5, <2>2 DEF Has
      <3>2. QED
        BY <1>1, <2>1, <3>1 DEF Fenced
    <2>3. CASE ~full
      <3>1. r.member = s.member /\ r.phase = s.phase /\ r.gen = s.gen /\ r.outcome = s.outcome
        BY <1>1, <1>5, <2>3 DEF Has
      <3>2. QED
        BY <2>1, <3>1 DEF Fenced
    <2>4. QED
      BY <2>2, <2>3
  <1>11. ASSUME NEW q \in Parts \ (late \cup overlap)
         PROVE  KeepsUp(r, q)
    <2>1. KeepsUp(s, q) /\ cache[q] \in Nat
      BY OfConsumer DEF IndInv, TypeInv
    <2>2. s.outcome.gen = group.generation /\ q \in DOMAIN got => got[q] >= cache[q]
      BY <1>1, <1>4, <2>1 DEF KeepsUp
    <2>3. CASE full
      <3>1. r.gen = s.outcome.gen /\ r.phase = "idle" /\ r.pos = got
        BY <1>5, <2>3 DEF Has
      <3>2. ASSUME s.outcome.gen = group.generation, q \in DOMAIN got, NEW t \in Current(q)
            PROVE  FALSE
        <4>1. s.outcome.member \in Members /\ q \in group.assignment[s.outcome.member]
          BY <1>1, <2>3, <3>2, OfLoading
        <4>2. t \in tasks /\ t.part = q /\ t.checked = group.generation
          BY <3>2 DEF Current
        <4>3. Fenced(s, q)
          BY <4>2, OfConsumer
        <4>4. QED
          BY <1>1, <4>1, <4>3 DEF Fenced
      <3>3. QED
        BY <2>2, <3>1, <3>2 DEF KeepsUp
    <2>4. CASE ~full
      <3>1. /\ r.gen = s.gen /\ r.phase = "loading" /\ r.pos = s.pos
            /\ r.outcome = s.outcome /\ r.got = got
        BY <1>5, <2>4 DEF Has
      <3>2. QED
        BY <2>1, <2>2, <3>1 DEF KeepsUp
    <2>5. QED
      BY <2>3, <2>4
  <1>12. ViewInv'
    <2>1. Views(r) \subseteq Views(s)
      <3>1. CASE full
        <4>1. r.member = s.outcome.member /\ r.phase = "idle" /\ r.gen = s.outcome.gen /\ r.pos = got
          BY <1>5, <3>1 DEF Has
        <4>2. View(r) = s.outcome
          BY <1>1, <3>1, <4>1 DEF View, Outcome
        <4>3. QED
          BY <1>1, <4>1, <4>2 DEF Views
      <3>2. CASE ~full
        BY <1>1, <1>5, <3>2 DEF Views, View, Has
      <3>3. QED
        BY <3>1, <3>2
    <2>2. \A d \in Consumers : Views(cons'[d]) \subseteq Views(cons[d]) \cup {EmptyView}
      BY <1>6, <2>1 DEF Took
    <2>3. TypeInv /\ ViewInv /\ nextMember' \in Nat /\ nextMember <= nextMember' /\ group' = group
      BY <1>8, OfConsumer DEF IndInv, broker
    <2>4. QED
      BY <2>2, <2>3, ViewStep
  <1>13. /\ count' \in [commits : Nat, faults : Nat, restarts : Nat]
         /\ delivered' \in [Parts -> SUBSET Nat]
         /\ \A q \in Parts : delivered[q] \subseteq delivered'[q]
    BY <1>8, OfConsumer
  <1>14. UNCHANGED <<broker, late, overlap>>
    BY <1>8
  <1>15. QED
    BY <1>5, <1>6, <1>7, <1>9, <1>10, <1>11, <1>12, <1>13, <1>14, LocalStep

------------------------------------------------------------------------------
(* Joins and evictions *)

\* A group that is reassigned has owners.
LEMMA RebalancedOK ==
  ASSUME IndInv, NEW members \in Memberships
  PROVE  /\ GroupOK(Rebalanced(members))
         /\ Rebalanced(members).generation = group.generation + 1
         /\ Rebalanced(members).members = members
  <1>1. group.generation \in Nat
    BY DEF IndInv, TypeInv, GroupOK
  <1>2. OwnersOK(members, Assign(members))
    BY AssignOwners
  <1>3. /\ Rebalanced(members).generation = group.generation + 1
        /\ Rebalanced(members).members = members
        /\ Rebalanced(members).assignment = Assign(members)
    BY DEF Rebalanced
  <1>4. group.generation + 1 \in Nat
    BY <1>1
  <1>5. QED
    BY <1>2, <1>3, <1>4 DEF GroupOK

\* A step into the next generation: what was let in or joined before is of an
\* earlier one, so the fence and the advance hold of the new one.
LEMMA NewGeneration ==
  ASSUME IndInv, GroupOK(group'), group'.generation = group.generation + 1,
         nextMember' \in 1 .. MaxMembers + 1,
         \A m \in DOMAIN group'.members : m < nextMember',
         UNCHANGED <<offsetsLog, synced, cache, tasks, late, overlap, delivered>>,
         cons' \in [Consumers -> Consumer],
         count' \in [commits : Nat, faults : Nat, restarts : Nat], ViewInv',
         \A d \in Consumers :
             /\ ConsumerOK(cons'[d])
             /\ AllBelow(delivered, cons'[d].pos) /\ AllBelow(delivered, cons'[d].got)
             /\ cons'[d].phase = "rejoin" => cons'[d].gen <= group.generation
             /\ cons'[d].gen <= group.generation \/ DOMAIN cons'[d].pos = {}
             /\ cons'[d].phase = "loading" =>
                    cons'[d].outcome.gen <= group.generation \/ DOMAIN cons'[d].got = {}
  PROVE  IndInv'
  <1>1. TypeInv'
    BY DEF IndInv, TypeInv, Members
  <1>2. DeliveryInv'
    BY DEF IndInv, DeliveryInv
  <1>3. RestartInv'
    BY DEF IndInv, RestartInv, SettledInv
  <1>4. /\ group.generation \in Nat /\ \A t \in tasks : t.checked \in Nat
        /\ \A t \in tasks : t.checked <= group.generation
    BY DEF IndInv, TypeInv, AdvanceInv, FenceInv, Task, GroupOK
  <1>5. \A t \in tasks : t.checked <= group'.generation /\ t.checked # group'.generation
    BY <1>4
  <1>6. \A d \in Consumers : cons'[d].gen \in Nat
    BY DEF Consumer
  <1>7. FenceInv'
    <2>1. ASSUME NEW d \in Consumers PROVE RejoinOK(cons[d])'
      <3>1. cons'[d].gen \in Nat /\ (cons'[d].phase = "rejoin" => cons'[d].gen <= group.generation)
        BY <1>6
      <3>2. QED
        BY <1>4, <3>1 DEF RejoinOK
    <2>2. QED
      BY <1>5, <2>1 DEF FenceInv
  <1>8. ASSUME NEW p \in Parts \ (late \cup overlap)
        PROVE  AheadInv(p)'
    <2>1. Current(p)' = {}
      BY <1>5 DEF Current
    <2>2. ASSUME NEW d \in Consumers PROVE KeepsUp(cons[d], p)'
      <3>1. ~ (cons'[d].gen = group'.generation /\ p \in DOMAIN cons'[d].pos)
        BY <1>4, <1>6
      <3>2. ~ (/\ cons'[d].phase = "loading" /\ cons'[d].outcome.gen = group'.generation
               /\ p \in DOMAIN cons'[d].got)
        <4>1. cons'[d].phase = "loading" => cons'[d].outcome.gen \in Nat
          BY DEF ConsumerOK, Outcome
        <4>2. QED
          BY <1>4, <4>1
      <3>3. QED
        BY <3>1, <3>2 DEF KeepsUp
    <2>3. QED
      BY <2>1, <2>2 DEF AheadInv
  <1>9. QED
    BY <1>1, <1>2, <1>3, <1>7, <1>8 DEF IndInv, AdvanceInv

\* Members are evicted, and consumers may end with it.
LEMMA EvictInd ==
  ASSUME IndInv, NEW dead, Evict(dead),
         UNCHANGED <<nextMember, offsetsLog, synced, cache, tasks, late, overlap, delivered>>,
         cons' \in [Consumers -> Consumer],
         \A d \in Consumers : cons'[d] = cons[d] \/ cons'[d] = Out,
         count' \in [commits : Nat, faults : Nat, restarts : Nat]
  PROVE  IndInv'
  <1> DEFINE members == [m \in Members \ dead |-> group.members[m]]
  <1>1. members \in Memberships
    <2>1. PICK D \in SUBSET (1 .. MaxMembers) : group.members \in [D -> SUBSET Topics]
      BY DEF IndInv, TypeInv, GroupOK, Memberships
    <2>2. Members = D
      BY <2>1 DEF Members
    <2>3. members \in [D \ dead -> SUBSET Topics] /\ D \ dead \in SUBSET (1 .. MaxMembers)
      BY <2>1, <2>2
    <2>4. QED
      BY <2>3 DEF Memberships
  <1>2. group' = Rebalanced(members) /\ DOMAIN members \subseteq Members
    BY DEF Evict
  <1> HIDE DEF members
  <1>3. /\ GroupOK(group') /\ group'.generation = group.generation + 1
        /\ DOMAIN group'.members \subseteq Members
    BY <1>1, <1>2, RebalancedOK
  <1>4. /\ nextMember' \in 1 .. MaxMembers + 1
        /\ \A m \in DOMAIN group'.members : m < nextMember'
    BY <1>3 DEF IndInv, TypeInv
  <1>5. ViewInv'
    <2>1. \A d \in Consumers : Views(cons'[d]) \subseteq Views(cons[d]) \cup {EmptyView}
      BY OutIsAConsumer
    <2>2. TypeInv /\ ViewInv /\ nextMember' \in Nat /\ nextMember <= nextMember'
      BY <1>4, GroupsAssumption DEF IndInv, GroupsAssumption
    <2>3. QED
      BY <1>3, <2>1, <2>2, ViewStep
  <1>6. ASSUME NEW d \in Consumers
        PROVE  /\ ConsumerOK(cons'[d])
               /\ AllBelow(delivered, cons'[d].pos) /\ AllBelow(delivered, cons'[d].got)
               /\ cons'[d].gen <= group.generation
               /\ cons'[d].phase = "loading" => cons'[d].outcome.gen <= group.generation
    <2>1. CASE cons'[d] = cons[d]
      BY <2>1, OfConsumer, OfLoading
    <2>2. CASE cons'[d] = Out
      <3>1. Out.pos = <<>> /\ Out.got = <<>> /\ Out.phase = "out" /\ Out.gen = 0
        BY DEF Out
      <3>2. AllBelow(delivered, <<>>) /\ 0 <= group.generation
        BY OfConsumer, NoPositions DEF AllBelow
      <3>3. QED
        BY <2>2, <3>1, <3>2, OutIsAConsumer
    <2>3. QED
      BY <2>1, <2>2
  <1>7. QED
    BY <1>3, <1>4, <1>5, <1>6, NewGeneration

LEMMA LeaveInd ==
  ASSUME IndInv, NEW c \in Consumers, Leave(c)
  PROVE  IndInv'
  <1>1. Took(c, Out)
    BY OfConsumer, OneConsumer, OutIsAConsumer DEF Leave
  <1>2. cons' \in [Consumers -> Consumer] /\ \A d \in Consumers : cons'[d] = cons[d] \/ cons'[d] = Out
    BY <1>1 DEF Took
  <1>3. /\ UNCHANGED <<nextMember, offsetsLog, synced, cache, tasks, late, overlap, delivered>>
        /\ Evict({cons[c].member})
    BY DEF Leave, history
  <1>4. count' \in [commits : Nat, faults : Nat, restarts : Nat]
    BY OfConsumer, CountUp DEF Leave
  <1>5. QED
    BY <1>2, <1>3, <1>4, EvictInd

LEMMA ExpireInd ==
  ASSUME IndInv, ExpireGhosts \/ ExpireSlow
  PROVE  IndInv'
  <1>1. /\ UNCHANGED <<nextMember, offsetsLog, synced, cache, tasks, late, overlap, delivered>>
        /\ cons' = cons
    BY DEF ExpireGhosts, ExpireSlow, history
  <1>2. \E dead : Evict(dead)
    BY DEF ExpireGhosts, ExpireSlow
  <1>3. cons' \in [Consumers -> Consumer] /\ \A d \in Consumers : cons'[d] = cons[d] \/ cons'[d] = Out
    BY <1>1 DEF IndInv, TypeInv
  <1>4. count' \in [commits : Nat, faults : Nat, restarts : Nat]
    BY CountUp DEF ExpireGhosts, ExpireSlow, IndInv, TypeInv
  <1>5. QED
    BY <1>1, <1>2, <1>3, <1>4, EvictInd

\* What a join gives the consumer.
Joined(c) ==
    LET id == JoinedId(cons[c].member)
    IN  [member |-> id, gen |-> group'.generation, parts |-> group'.assignment[id]]

\* A join leaves a group of which the consumer is a member.
LEMMA JoinedGroup ==
  ASSUME IndInv, NEW c \in Consumers, JoinGroup(c)
  PROVE  /\ GroupOK(group')
         /\ nextMember' \in 1 .. MaxMembers + 1
         /\ \A m \in DOMAIN group'.members : m < nextMember'
         /\ Joined(c).member \in DOMAIN group'.members
         /\ \/ /\ cons[c].member \in Members /\ Joined(c).member = cons[c].member
               /\ group' = group /\ nextMember' = nextMember
            \/ /\ cons[c].member \notin Members /\ Joined(c).member = nextMember
               /\ group'.generation = group.generation + 1 /\ nextMember' = nextMember + 1
  <1> DEFINE m == cons[c].member
  <1>1. Joined(c).member = JoinedId(m) /\ Join(m, Subscription[c])
    BY DEF Joined, JoinGroup
  <1>2. /\ GroupOK(group) /\ nextMember \in 1 .. MaxMembers + 1 /\ MaxMembers \in Nat
        /\ \A x \in Members : x < nextMember
    BY GroupsAssumption DEF IndInv, TypeInv, GroupsAssumption
  <1>3. CASE m \in Members
    <2>1. group' = group /\ nextMember' = nextMember /\ JoinedId(m) = m
      BY <1>1, <1>3 DEF Join, JoinedId
    <2>2. QED
      BY <1>1, <1>2, <1>3, <2>1 DEF Members
  <1>4. CASE m \notin Members
    <2> DEFINE members == With(group.members, nextMember, Subscription[c])
    <2>1. group' = Rebalanced(members) /\ nextMember' = nextMember + 1 /\ JoinedId(m) = nextMember
      BY <1>1, <1>4 DEF Join, JoinedId
    <2>2. nextMember \in 1 .. MaxMembers
      BY <1>2, <1>4 DEF JoinGroup
    <2>3. DOMAIN members = {nextMember} \cup Members /\ members \in Memberships
      <3>1. PICK D \in SUBSET (1 .. MaxMembers) : group.members \in [D -> SUBSET Topics]
        BY <1>2 DEF GroupOK, Memberships
      <3>2. Subscription[c] \in SUBSET Topics
        BY GroupsAssumption DEF GroupsAssumption
      <3>3. members \in [{nextMember} \cup D -> SUBSET Topics]
        BY <3>1, <3>2 DEF With
      <3>4. {nextMember} \cup D \in SUBSET (1 .. MaxMembers)
        BY <2>2, <3>1
      <3>5. DOMAIN members = {nextMember} \cup Members
        BY DEF With, Members
      <3>6. QED
        BY <3>3, <3>4, <3>5 DEF Memberships
    <2> HIDE DEF members
    <2>4. GroupOK(group') /\ group'.generation = group.generation + 1 /\ group'.members = members
      BY <2>1, <2>3, RebalancedOK
    <2>5. nextMember' \in 1 .. MaxMembers + 1 /\ nextMember < nextMember'
      BY <1>2, <2>1, <2>2
    <2>6. \A x \in Members : x \in Nat
      BY <1>2, MembersArePositive DEF Members
    <2>7. \A x \in DOMAIN group'.members : x < nextMember'
      BY <1>2, <2>1, <2>2, <2>3, <2>4, <2>6
    <2>8. QED
      BY <1>1, <1>4, <2>1, <2>3, <2>4, <2>5, <2>7
  <1>5. QED
    BY <1>3, <1>4

\* What it does to the consumer.
LEMMA JoinedConsumer ==
  ASSUME IndInv, NEW c \in Consumers, JoinGroup(c)
  PROVE  /\ Took(c, cons'[c]) /\ cons'[c] \in Consumer /\ ConsumerOK(cons'[c])
         /\ Joined(c) \in Outcome /\ Joined(c).member # NoMember
         /\ Joined(c).gen = group'.generation
         /\ Joined(c).parts = group'.assignment[Joined(c).member]
         /\ Views(cons'[c]) \subseteq Views(cons[c]) \cup {Joined(c)}
         /\ cons'[c].got = <<>> /\ cons'[c].phase # "rejoin"
         /\ \/ cons'[c].phase = "idle" /\ cons'[c].pos = <<>> /\ cons'[c].member = Joined(c).member
            \/ /\ cons'[c].phase = "loading" /\ cons'[c].pos = cons[c].pos
               /\ cons'[c].member = cons[c].member /\ cons'[c].gen = cons[c].gen
               /\ cons'[c].outcome = Joined(c)
  <1> DEFINE s == cons[c]
             o == Joined(c)
             empty == o.parts = {}
             r == IF empty THEN Installed(s, o, <<>>)
                  ELSE [s EXCEPT !.phase = "loading", !.outcome = o, !.got = <<>>]
  <1>1. s \in Consumer /\ ConsumerOK(s) /\ s.phase \in {"out", "rejoin"}
    BY OfConsumer DEF JoinGroup
  <1>2. /\ o.member = JoinedId(s.member) /\ o.gen = group'.generation
        /\ o.parts = group'.assignment[o.member]
        /\ o = [member |-> o.member, gen |-> o.gen, parts |-> o.parts]
    BY DEF Joined
  <1>3. GroupOK(group') /\ o.member \in DOMAIN group'.members
    BY JoinedGroup
  <1>4. o.member \in Nat /\ o.member # NoMember
    BY <1>3, MembersArePositive
  <1>5. o.gen \in Nat /\ o.parts \subseteq Parts
    BY <1>2, <1>3 DEF GroupOK, OwnersOK
  <1>6. cons' = [cons EXCEPT ![c] = r]
    BY DEF JoinGroup, Joined
  <1> HIDE DEF o
  <1>7. o \in Outcome
    BY <1>2, <1>4, <1>5 DEF Outcome
  <1>8. /\ r \in Consumer
        /\ empty => Has(r, "idle", o.member, o.gen, <<>>, <<>>, <<>>, {}, 0)
        /\ ~empty => Has(r, "loading", s.member, s.gen, s.pos, o, <<>>, s.todo, s.call)
    <2>1. "loading" \in Phases /\ <<>> \in Positions /\ o \in Outcome \cup {<<>>}
      BY <1>7, NoPositions DEF Phases
    <2>2. QED
      BY <1>1, <1>7, <2>1, RecordUpdates
  <1> HIDE DEF r
  <1>9. Took(c, r) /\ cons'[c] = r
    <2>1. Took(c, r)
      BY <1>6, <1>8, OfConsumer, OneConsumer
    <2>2. QED
      BY <2>1 DEF Took
  <1>10. ConsumerOK(r)
    <2>1. CASE empty
      BY <1>4, <1>8, <2>1 DEF ConsumerOK, Has
    <2>2. CASE ~empty
      BY <1>4, <1>7, <1>8, <2>2, NoPositions DEF ConsumerOK, Has
    <2>3. QED
      BY <2>1, <2>2
  <1>11. Views(r) \subseteq Views(s) \cup {o}
    <2>1. CASE empty
      <3>1. r.phase = "idle" /\ r.member = o.member /\ r.gen = o.gen /\ r.pos = <<>>
        BY <1>8, <2>1 DEF Has
      <3>2. View(r) = o
        BY <1>2, <2>1, <3>1, NoPositions DEF View
      <3>3. QED
        BY <3>1, <3>2 DEF Views
    <2>2. CASE ~empty
      BY <1>8, <2>2 DEF Views, View, Has
    <2>3. QED
      BY <2>1, <2>2
  <1>12. /\ r.got = <<>> /\ r.phase # "rejoin"
         /\ \/ r.phase = "idle" /\ r.pos = <<>> /\ r.member = o.member
            \/ /\ r.phase = "loading" /\ r.pos = s.pos /\ r.member = s.member /\ r.gen = s.gen
               /\ r.outcome = o
    BY <1>8 DEF Has
  <1>13. QED
    BY <1>2, <1>4, <1>7, <1>8, <1>9, <1>10, <1>11, <1>12 DEF o

\* The view that a join promises is apart from everybody else's.
LEMMA JoinViews ==
  ASSUME IndInv, NEW c \in Consumers, JoinGroup(c)
  PROVE  ViewInv'
  <1> DEFINE o == Joined(c)
  <1>1. /\ GroupOK(group') /\ nextMember' \in 1 .. MaxMembers + 1
        /\ o.member \in DOMAIN group'.members
        /\ \A m \in DOMAIN group'.members : m < nextMember'
    BY JoinedGroup
  <1>2. /\ o.member # NoMember /\ o.gen = group'.generation
        /\ o.parts = group'.assignment[o.member]
        /\ Views(cons'[c]) \subseteq Views(cons[c]) \cup {o}
        /\ \A e \in Consumers : e # c => cons'[e] = cons[e]
    BY JoinedConsumer DEF Took
  <1>3. \/ o.member = cons[c].member /\ group' = group /\ nextMember' = nextMember
        \/ /\ o.member = nextMember
           /\ group'.generation = group.generation + 1 /\ nextMember' = nextMember + 1
    BY JoinedGroup
  <1> HIDE DEF o
  <1>4. ViewOK(o, group', nextMember')
    BY <1>1, <1>2 DEF ViewOK, GroupOK
  <1>5. ASSUME NEW e \in Consumers, e # c, NEW w \in Views(cons[e])
        PROVE  Apart(o, w) /\ Apart(w, o)
    <2>1. ViewOK(w, group, nextMember) /\ w.member \in Nat /\ w.gen \in Nat
      BY OfConsumer, ViewsTyped DEF IndInv, ViewInv, Outcome
    <2>2. CASE o.member = cons[c].member /\ group' = group
      <3>1. Apart(View(cons[c]), w) /\ View(cons[c]).member = o.member
        BY <1>5, <2>2, OfConsumer DEF IndInv, ViewInv, View
      <3>2. o.member # w.member
        BY <1>2, <3>1 DEF Apart
      <3>3. ASSUME o.gen = w.gen PROVE o.parts \cap w.parts = {}
        <4>1. CASE w.member = NoMember
          BY <2>1, <4>1 DEF ViewOK
        <4>2. CASE w.member # NoMember
          <5>1. w.member \in DOMAIN group'.members /\ w.parts = group'.assignment[w.member]
            BY <1>2, <2>1, <2>2, <3>3, <4>2 DEF ViewOK
          <5>2. QED
            BY <1>1, <1>2, <3>2, <5>1 DEF GroupOK, OwnersOK
        <4>3. QED
          BY <4>1, <4>2
      <3>4. QED
        BY <3>2, <3>3 DEF Apart
    <2>3. CASE o.member = nextMember /\ group'.generation = group.generation + 1
      <3>1. group.generation \in Nat /\ nextMember \in Nat
        BY OfConsumer
      <3>2. w.member # o.member /\ w.gen # o.gen
        BY <1>2, <2>1, <2>3, <3>1 DEF ViewOK
      <3>3. QED
        BY <3>2 DEF Apart
    <2>4. QED
      BY <1>3, <2>2, <2>3
  <1>6. Fits(c, o)
    BY <1>2, <1>4, <1>5 DEF Fits
  <1>7. \A d \in Consumers : \A v \in Views(cons'[d]) :
            v \in Views(cons[d]) \cup {EmptyView} \/ Fits(d, v)
    BY <1>2, <1>6
  <1>8. /\ TypeInv /\ ViewInv /\ nextMember' \in Nat /\ nextMember <= nextMember'
        /\ group' = group \/ group'.generation = group.generation + 1
    BY <1>1, <1>3, OfConsumer DEF IndInv
  <1>9. QED
    BY <1>7, <1>8, ViewStep

LEMMA JoinGroupInd ==
  ASSUME IndInv, NEW c \in Consumers, JoinGroup(c)
  PROVE  IndInv'
  <1> DEFINE s == cons[c]
             r == cons'[c]
             o == Joined(c)
  <1>1. /\ Took(c, r) /\ r \in Consumer /\ ConsumerOK(r)
        /\ o.member # NoMember /\ o.gen = group'.generation
        /\ o.parts = group'.assignment[o.member]
        /\ r.got = <<>> /\ r.phase # "rejoin"
        /\ \/ r.phase = "idle" /\ r.pos = <<>> /\ r.member = o.member
           \/ /\ r.phase = "loading" /\ r.pos = s.pos /\ r.member = s.member /\ r.gen = s.gen
              /\ r.outcome = o
    BY JoinedConsumer
  <1>2. UNCHANGED <<offsetsLog, synced, cache, tasks, late, overlap, delivered>> /\ count' = count
    BY DEF JoinGroup, history
  <1>3. ViewInv'
    BY JoinViews
  <1>4. /\ AllBelow(delivered, r.pos) /\ AllBelow(delivered, r.got)
        /\ DOMAIN r.got = {}
    <2>1. AllBelow(delivered, <<>>) /\ AllBelow(delivered, s.pos) /\ DOMAIN <<>> = {}
      BY NoPositions, OfConsumer DEF AllBelow
    <2>2. QED
      BY <1>1, <2>1
  <1>5. CASE s.member \in Members
    <2>1. o.member = s.member /\ group' = group /\ nextMember' = nextMember
      BY <1>5, JoinedGroup
    <2>2. NoMember \notin Members
      BY MembersArePositive DEF IndInv, TypeInv, Members
    <2>3. s.phase = "rejoin"
      <3>1. s.phase = "out" => s.member = NoMember
        BY OfConsumer DEF ConsumerOK, Out
      <3>2. QED
        BY <1>5, <2>2, <3>1 DEF JoinGroup
    <2>4. s.gen < group.generation /\ s.gen # group.generation
      BY <2>3, OfConsumer DEF RejoinOK
    <2> HIDE DEF r, o
    <2>5. \A t \in tasks : t.checked = group.generation => Fenced(r, t.part)
      <3> SUFFICES ASSUME NEW t \in tasks, t.checked = group.generation PROVE Fenced(r, t.part)
        OBVIOUS
      <3>1. t.part \notin group.assignment[s.member]
        BY <1>5, <2>4, OfConsumer DEF Fenced
      <3>2. QED
        BY <1>1, <2>1, <3>1 DEF Fenced
    <2>6. \A p \in Parts \ (late \cup overlap) : KeepsUp(r, p)
      BY <1>1, <1>4, <2>4, NoPositions DEF KeepsUp
    <2>7. RejoinOK(r)
      BY <1>1 DEF RejoinOK
    <2>8. /\ UNCHANGED <<broker, late, overlap>>
          /\ delivered' \in [Parts -> SUBSET Nat]
          /\ count' \in [commits : Nat, faults : Nat, restarts : Nat]
          /\ \A p \in Parts : delivered[p] \subseteq delivered'[p]
          /\ AllBelow(delivered', r.pos) /\ AllBelow(delivered', r.got)
      BY <1>2, <1>4, <2>1, OfConsumer DEF broker
    <2>9. QED
      BY <1>1, <1>3, <2>5, <2>6, <2>7, <2>8, LocalStep
  <1>6. CASE s.member \notin Members
    <2>1. /\ group'.generation = group.generation + 1 /\ GroupOK(group')
          /\ nextMember' \in 1 .. MaxMembers + 1
          /\ \A m \in DOMAIN group'.members : m < nextMember'
      BY <1>6, JoinedGroup
    <2> HIDE DEF o
    <2>2. ASSUME NEW d \in Consumers
          PROVE  /\ ConsumerOK(cons'[d])
                 /\ AllBelow(delivered, cons'[d].pos) /\ AllBelow(delivered, cons'[d].got)
                 /\ cons'[d].phase = "rejoin" => cons'[d].gen <= group.generation
                 /\ cons'[d].gen <= group.generation \/ DOMAIN cons'[d].pos = {}
                 /\ cons'[d].phase = "loading" =>
                        cons'[d].outcome.gen <= group.generation \/ DOMAIN cons'[d].got = {}
      <3>1. CASE d = c
        <4>1. s.gen <= group.generation /\ DOMAIN <<>> = {}
          BY OfConsumer, NoPositions
        <4>2. QED
          BY <1>1, <1>4, <3>1, <4>1
      <3>2. CASE d # c
        <4>1. cons'[d] = cons[d]
          BY <1>1, <3>2 DEF Took
        <4>2. QED
          BY <4>1, OfConsumer, OfLoading
      <3>3. QED
        BY <3>1, <3>2
    <2>3. /\ cons' \in [Consumers -> Consumer]
          /\ count' \in [commits : Nat, faults : Nat, restarts : Nat]
      BY <1>1, <1>2, OfConsumer DEF Took
    <2>4. QED
      BY <1>2, <1>3, <2>1, <2>2, <2>3, NewGeneration
  <1>7. QED
    BY <1>5, <1>6

------------------------------------------------------------------------------
(* Commits: the fence, the append and the acknowledgement *)

\* A replay gives each partition its last record, or 0.
LEMMA ReplayFacts ==
  ASSUME NEW log \in Seq(CommitRecord), NEW p \in Parts
  PROVE  /\ Own(log, p) = {} => Replay(log)[p] = 0
         /\ Own(log, p) # {} => \E k \in Own(log, p) : \A i \in Own(log, p) : i <= k
         /\ \A k \in Own(log, p) :
                (\A i \in Own(log, p) : i <= k) => Replay(log)[p] = log[k].offset
         /\ Replay(log)[p] \in 0 .. LogEnd
  <1> DEFINE n == Len(log)
             O == Own(log, p)
  <1>1. n \in Nat /\ DOMAIN log = 1 .. n /\ O \in SUBSET (0 .. n) /\ O \in SUBSET (1 .. n)
    BY LenProperties DEF Own
  <1>2. O # {} => Max(O) \in O /\ \A i \in O : i <= Max(O)
    BY <1>1, MaxIsGreatest
  <1>3. Replay(log)[p] = IF O = {} THEN 0 ELSE log[Max(O)].offset
    BY DEF Replay, Own
  <1>4. \A i \in O : log[i].offset \in 0 .. LogEnd
    <2> SUFFICES ASSUME NEW i \in O PROVE log[i].offset \in 0 .. LogEnd
      OBVIOUS
    <2>1. log[i] \in CommitRecord
      BY <1>1, ElementOfSeq
    <2>2. QED
      BY <2>1 DEF CommitRecord
  <1> HIDE DEF O
  <1>5. ASSUME NEW k \in O, \A i \in O : i <= k
        PROVE  Replay(log)[p] = log[k].offset
    <2>1. Max(O) \in O /\ k <= Max(O) /\ Max(O) <= k
      BY <1>2, <1>5
    <2>2. k \in Nat /\ Max(O) \in Nat
      <3>1. O \subseteq 1 .. n /\ 1 .. n \subseteq Nat
        BY <1>1
      <3>2. QED
        BY <2>1, <3>1
    <2>3. k = Max(O)
      BY <2>1, <2>2
    <2>4. QED
      BY <1>3, <2>3
  <1>6. Replay(log)[p] \in 0 .. LogEnd
    <2>1. 0 \in 0 .. LogEnd
      BY GroupsAssumption DEF GroupsAssumption
    <2>2. QED
      BY <1>2, <1>3, <1>4, <2>1
  <1>7. QED
    BY <1>2, <1>3, <1>5, <1>6 DEF O

\* r is s with another place in its walk over the positions.
Works(s, r) ==
    /\ r.member = s.member /\ r.gen = s.gen /\ r.pos = s.pos
    /\ r.outcome = s.outcome /\ r.got = s.got
    /\ r.phase = "loading" <=> s.phase = "loading"
    /\ r.phase = "rejoin" => s.phase = "rejoin"

\* A step of the commits: the group stays, consumers go on with their work.
LEMMA CommitStep ==
  ASSUME IndInv, UNCHANGED <<group, nextMember, delivered>>,
         offsetsLog' \in Seq(CommitRecord), synced' \in 0 .. Len(offsetsLog'),
         cache' \in [Parts -> 0 .. LogEnd], tasks' \in SUBSET Task,
         \A t \in tasks' : t.at <= Len(offsetsLog'),
         cons' \in [Consumers -> Consumer],
         \A d \in Consumers : ConsumerOK(cons'[d]) /\ Works(cons[d], cons'[d]),
         count' \in [commits : Nat, faults : Nat, restarts : Nat],
         AllBelow(delivered, cache'),
         \A i \in DOMAIN offsetsLog' : Below(delivered, offsetsLog'[i].part, offsetsLog'[i].offset),
         \A t \in tasks' : Below(delivered, t.part, t.offset),
         \A t \in tasks' : t.checked <= group.generation,
         \A t \in tasks', d \in Consumers :
             t.checked = group.generation => Fenced(cons[d], t.part)
  PROVE  TypeInv' /\ ViewInv' /\ DeliveryInv' /\ FenceInv'
  <1>1. TypeInv /\ ViewInv /\ DeliveryInv /\ FenceInv /\ Members' = Members
    BY DEF IndInv, AdvanceInv, Members
  <1>2. TypeInv'
    BY <1>1 DEF TypeInv
  <1>3. ViewInv'
    <2>1. \A d \in Consumers : Views(cons'[d]) \subseteq Views(cons[d]) \cup {EmptyView}
      BY DEF Works, Views, View
    <2>2. nextMember' \in Nat /\ nextMember <= nextMember'
      BY <1>1, GroupsAssumption DEF TypeInv, GroupsAssumption
    <2>3. QED
      BY <1>1, <2>1, <2>2, ViewStep
  <1>4. DeliveryInv'
    BY <1>1 DEF DeliveryInv, Works
  <1>5. FenceInv'
    <2>1. \A d \in Consumers : RejoinOK(cons[d])'
      BY <1>1 DEF FenceInv, RejoinOK, Works
    <2>2. ASSUME NEW t \in tasks', NEW d \in Consumers, t.checked = group.generation
          PROVE  Fenced(cons[d], t.part)'
      <3>1. Fenced(cons[d], t.part) /\ Works(cons[d], cons'[d])
        BY <2>2
      <3>2. QED
        BY <1>1, <3>1 DEF Fenced, Works
    <2>3. QED
      BY <2>1, <2>2 DEF FenceInv
  <1>6. QED
    BY <1>2, <1>3, <1>4, <1>5

\* What IndInv says of a task.
LEMMA OfTask ==
  ASSUME IndInv, NEW t \in tasks
  PROVE  /\ t \in Task /\ t.at \in Nat /\ t.at <= Len(offsetsLog) /\ t.part \in Parts
         /\ t.offset \in 0 .. LogEnd /\ t.checked \in Nat
         /\ Below(delivered, t.part, t.offset) /\ t.checked <= group.generation
         /\ \A c \in Consumers : t.checked = group.generation => Fenced(cons[c], t.part)
         /\ offsetsLog \in Seq(CommitRecord) /\ Len(offsetsLog) \in Nat
         /\ synced \in 0 .. Len(offsetsLog) /\ cache \in [Parts -> 0 .. LogEnd]
         /\ tasks \in SUBSET Task
  BY LenProperties DEF IndInv, TypeInv, Task, DeliveryInv, AdvanceInv, FenceInv

\* The fence lets the commit of partition p in.
CommitAccepted(c, p) ==
    /\ CommitOffset(c) /\ p \in cons[c].todo
    /\ CheckCommit(cons[c].member, cons[c].gen) = "None"
    /\ count' = [count EXCEPT !.commits = @ + 1]
    /\ tasks' = tasks \cup {[id |-> count'.commits, part |-> p, gen |-> cons[c].gen,
                             checked |-> group.generation,
                             offset |-> cons[c].pos[p], at |-> 0]}
    /\ cons' = [cons EXCEPT ![c].call = count'.commits, ![c].todo = @ \ {p}]
    /\ overlap' = overlap \cup {t.part : t \in {x \in tasks : x.part = p}}

LEMMA CommitAcceptedInd ==
  ASSUME IndInv, NEW c \in Consumers, NEW p, CommitAccepted(c, p)
  PROVE  IndInv'
  <1> DEFINE s == cons[c]
             id == count'.commits
             n == [id |-> id, part |-> p, gen |-> s.gen, checked |-> group.generation,
                   offset |-> s.pos[p], at |-> 0]
             r == [s EXCEPT !.call = id, !.todo = s.todo \ {p}]
  <1>1. /\ s \in Consumer /\ ConsumerOK(s) /\ s.phase = "committing"
        /\ s.pos \in Positions /\ s.todo \in SUBSET Parts
    BY OfConsumer DEF CommitAccepted, CommitOffset, Consumer
  <1>2. s.member \in Members /\ s.gen = group.generation
    BY DEF CommitAccepted, CheckCommit, HeartbeatError
  <1>3. p \in s.todo /\ p \in DOMAIN s.pos /\ p \in Parts /\ s.pos[p] \in 0 .. LogEnd
    BY <1>1, PositionsFacts DEF CommitAccepted, ConsumerOK
  <1>4. s.member # NoMember /\ DOMAIN s.pos = group.assignment[s.member]
    BY <1>1, <1>2, OfConsumer DEF ConsumerOK
  <1>5. /\ UNCHANGED <<group, nextMember, offsetsLog, synced, cache, delivered, late>>
        /\ tasks' = tasks \cup {n}
        /\ overlap' = overlap \cup {t.part : t \in {x \in tasks : x.part = p}}
    BY DEF CommitAccepted, CommitOffset
  <1>6. count' \in [commits : Nat, faults : Nat, restarts : Nat] /\ id \in Nat
    BY OfConsumer, CountUp DEF CommitAccepted
  <1>7. /\ n.part = p /\ n.at = 0 /\ n.checked = group.generation /\ n.offset = s.pos[p]
    OBVIOUS
  <1>8. n \in Task
    <2>1. \A g, h, o : g \in Nat /\ h \in Nat /\ o \in 0 .. LogEnd =>
              [id |-> id, part |-> p, gen |-> g, checked |-> h, offset |-> o, at |-> 0] \in Task
      BY <1>3, <1>6 DEF Task
    <2>2. s.gen \in Nat /\ group.generation \in Nat
      BY OfConsumer
    <2>3. QED
      BY <1>3, <2>1, <2>2
  <1>9. cons' = [cons EXCEPT ![c] = r]
    <2>1. cons' = [cons EXCEPT ![c].call = id, ![c].todo = s.todo \ {p}]
      BY DEF CommitAccepted
    <2>2. QED
      BY <2>1, OfConsumer
  <1> HIDE DEF n, id
  <1>10. /\ r \in Consumer
         /\ Has(r, s.phase, s.member, s.gen, s.pos, s.outcome, s.got, s.todo \ {p}, id)
    <2>1. s.todo \ {p} \in SUBSET Parts
      BY <1>1
    <2>2. QED
      BY <1>1, <1>6, <2>1, RecordUpdates
  <1> HIDE DEF r
  <1>11. Took(c, r)
    BY <1>9, <1>10, OfConsumer, OneConsumer
  <1>12. ConsumerOK(r) /\ Works(s, r)
    BY <1>1, <1>10 DEF ConsumerOK, Works, Has
  <1>13. \A d \in Consumers : ConsumerOK(cons'[d]) /\ Works(cons[d], cons'[d])
    <2>1. \A d \in Consumers : d # c => Works(cons[d], cons'[d]) /\ ConsumerOK(cons'[d])
      BY <1>11, OfConsumer DEF Took, Works
    <2>2. QED
      BY <1>11, <1>12, <2>1 DEF Took
  <1>14. ASSUME NEW d \in Consumers, d # c
         PROVE  Apart(View(s), View(cons[d])) /\ \A w \in Views(cons[d]) : Apart(View(s), w)
    BY <1>14, OfConsumer DEF IndInv, ViewInv
  <1>15. ASSUME NEW d \in Consumers PROVE Fenced(cons[d], p)
    <2>1. CASE d = c
      BY <1>1, <1>2, <2>1 DEF Fenced
    <2>2. CASE d # c
      <3>1. ASSUME NEW w \in Views(cons[d]), w.member \in Members
            PROVE  p \notin group.assignment[w.member]
        <4>1. w.member # s.member
          BY <1>4, <1>14, <2>2 DEF Apart, View
        <4>2. group.assignment[w.member] \cap group.assignment[s.member] = {}
          BY <1>2, <3>1, <4>1 DEF IndInv, TypeInv, GroupOK, OwnersOK, Members
        <4>3. QED
          BY <1>3, <1>4, <4>2
      <3>2. View(cons[d]) \in Views(cons[d]) /\ View(cons[d]).member = cons[d].member
        BY DEF Views, View
      <3>3. cons[d].phase = "loading" => cons[d].outcome \in Views(cons[d])
        BY DEF Views
      <3>4. QED
        BY <3>1, <3>2, <3>3 DEF Fenced
    <2>3. QED
      BY <2>1, <2>2
  <1>16. TypeInv' /\ ViewInv' /\ DeliveryInv' /\ FenceInv'
    <2>1. /\ offsetsLog' \in Seq(CommitRecord) /\ synced' \in 0 .. Len(offsetsLog')
          /\ cache' \in [Parts -> 0 .. LogEnd] /\ tasks' \in SUBSET Task
          /\ 0 <= Len(offsetsLog)
      BY <1>5, <1>8, LenProperties DEF IndInv, TypeInv
    <2>2. \A t \in tasks' : t.at <= Len(offsetsLog')
      BY <1>5, <1>7, <2>1 DEF IndInv, TypeInv
    <2>3. cons' \in [Consumers -> Consumer]
      BY <1>11 DEF Took
    <2>4. Below(delivered, p, s.pos[p])
      BY <1>3, OfConsumer DEF AllBelow
    <2>5. \A t \in tasks' : Below(delivered, t.part, t.offset)
      BY <1>5, <1>7, <2>4, OfTask
    <2>6. \A t \in tasks' : t.checked <= group.generation
      BY <1>5, <1>7, OfTask, OfConsumer
    <2>7. \A t \in tasks', d \in Consumers :
              t.checked = group.generation => Fenced(cons[d], t.part)
      BY <1>5, <1>7, <1>15, OfTask
    <2>8. /\ AllBelow(delivered, cache')
          /\ \A i \in DOMAIN offsetsLog' :
                 Below(delivered, offsetsLog'[i].part, offsetsLog'[i].offset)
      BY <1>5 DEF IndInv, DeliveryInv
    <2>9. QED
      BY <1>5, <1>6, <1>13, <2>1, <2>2, <2>3, <2>5, <2>6, <2>7, <2>8, CommitStep
  <1>17. RestartInv'
    <2> SUFFICES ASSUME NEW q \in Parts \ overlap' PROVE SettledInv(q)'
      BY DEF RestartInv
    <2>1. SettledInv(q) /\ q \notin overlap
      BY <1>5 DEF IndInv, RestartInv
    <2>2. CASE q # p
      <3>1. \A t \in tasks' : t.part = q => t \in tasks
        BY <1>5, <1>7, <2>2
      <3>2. \A t \in tasks : t \in tasks'
        BY <1>5
      <3>3. QED
        BY <1>5, <2>1, <3>1, <3>2 DEF SettledInv
    <2>3. CASE q = p
      <3>1. \A t \in tasks : t.part # p
        BY <1>5, <2>3
      <3>2. \A t \in tasks' : t.part = p => t = n
        BY <1>5, <3>1
      <3>3. /\ \A i \in Own(offsetsLog, p) : i <= synced
            /\ cache[p] = Replay(offsetsLog)[p]
        BY <2>1, <2>3, <3>1 DEF SettledInv
      <3>4. QED
        BY <1>5, <1>7, <2>3, <3>2, <3>3 DEF SettledInv
    <2>4. QED
      BY <2>2, <2>3
  <1>18. ASSUME NEW q \in Parts \ (late' \cup overlap')
         PROVE  AheadInv(q)'
    <2>1. AheadInv(q) /\ q \notin late \cup overlap /\ cache[q] \in Nat
      BY <1>5 DEF IndInv, AdvanceInv, TypeInv
    <2>2. KeepsUp(s, q)
      BY <2>1 DEF AheadInv
    <2>3. \A t \in Current(q)' : t \in Current(q) \/ (t = n /\ q = p)
      BY <1>5, <1>7 DEF Current
    <2>4. \A t \in Current(q)' : t.offset >= cache[q]
      BY <1>2, <1>3, <1>7, <2>1, <2>2, <2>3 DEF AheadInv, KeepsUp
    <2>5. ASSUME NEW d \in Consumers PROVE KeepsUp(cons[d], q)'
      <3>1. KeepsUp(cons[d], q) /\ Works(cons[d], cons'[d])
        BY <1>13, <2>1 DEF AheadInv
      <3>2. ASSUME cons[d].gen = group.generation, q \in DOMAIN cons[d].pos, q = p
            PROVE  cons[d].pos[q] >= n.offset
        <4>1. d = c
          <5> SUFFICES ASSUME d # c PROVE FALSE
            OBVIOUS
          <5>1. DOMAIN s.pos \cap DOMAIN cons[d].pos = {}
            BY <1>2, <1>14, <3>2 DEF Apart, View
          <5>2. QED
            BY <1>3, <3>2, <5>1
        <4>2. QED
          BY <1>3, <1>7, <3>2, <4>1
      <3>3. QED
        BY <1>5, <2>3, <3>1, <3>2 DEF KeepsUp, Works
    <2>6. QED
      BY <1>5, <2>4, <2>5 DEF AheadInv
  <1>19. QED
    BY <1>16, <1>17, <1>18 DEF IndInv, AdvanceInv

LEMMA CommitOffsetInd ==
  ASSUME IndInv, NEW c \in Consumers, CommitOffset(c)
  PROVE  IndInv'
  <1>1. CASE CheckCommit(cons[c].member, cons[c].gen) # "None"
    BY <1>1, CommitRefusedInd DEF CommitRefused
  <1>2. CASE CheckCommit(cons[c].member, cons[c].gen) = "None"
    <2>1. \E p : CommitAccepted(c, p)
      BY <1>2 DEF CommitOffset, CommitAccepted
    <2>2. QED
      BY <2>1, CommitAcceptedInd
  <1>3. QED
    BY <1>1, <1>2

LEMMA TaskAppendInd ==
  ASSUME IndInv, NEW t \in tasks, TaskAppend(t)
  PROVE  IndInv'
  <1> DEFINE rec == [part |-> t.part, offset |-> t.offset]
             k == Len(offsetsLog) + 1
             u == [t EXCEPT !.at = k]
  <1>1. /\ offsetsLog' = Append(offsetsLog, rec) /\ tasks' = (tasks \ {t}) \cup {u}
        /\ late' = late \cup (IF t.checked = group.generation THEN {} ELSE {t.part})
        /\ UNCHANGED <<group, nextMember, synced, cache, cons, count, delivered, overlap>>
    BY DEF TaskAppend
  <1>2. /\ t \in Task /\ t.part \in Parts /\ t.offset \in 0 .. LogEnd /\ t.checked \in Nat
        /\ offsetsLog \in Seq(CommitRecord) /\ Len(offsetsLog) \in Nat
        /\ synced \in 0 .. Len(offsetsLog)
        /\ DOMAIN offsetsLog = 1 .. Len(offsetsLog)
    BY OfTask, LenProperties
  <1>3. rec \in CommitRecord /\ rec.part = t.part /\ rec.offset = t.offset
    BY <1>2 DEF CommitRecord
  <1>4. k \in Nat /\ k > 0
    BY <1>2
  <1>5. /\ u \in Task /\ u.part = t.part /\ u.checked = t.checked /\ u.offset = t.offset
        /\ u.at = k
    BY <1>2, <1>4 DEF Task
  <1> HIDE DEF rec, u
  <1>6. /\ offsetsLog' \in Seq(CommitRecord) /\ Len(offsetsLog') = k
        /\ DOMAIN offsetsLog' = 1 .. k /\ offsetsLog'[k] = rec
        /\ \A i \in 1 .. Len(offsetsLog) : offsetsLog'[i] = offsetsLog[i]
    BY <1>1, <1>2, <1>3, AppendProperties, LenProperties
  <1>7. \A i \in DOMAIN offsetsLog' : i \in DOMAIN offsetsLog \/ i = k
    BY <1>2, <1>6
  <1> HIDE DEF k
  <1>8. \A v \in tasks' : v \in tasks \/ v = u
    BY <1>1
  <1>9. TypeInv' /\ ViewInv' /\ DeliveryInv' /\ FenceInv'
    <2>1. synced' \in 0 .. Len(offsetsLog')
      BY <1>1, <1>2, <1>6 DEF k
    <2>2. \A v \in tasks' : v.at <= Len(offsetsLog')
      <3>1. \A v \in tasks : v.at <= Len(offsetsLog) /\ v.at \in Nat
        BY OfTask
      <3>2. Len(offsetsLog) <= k /\ k <= k
        BY <1>2 DEF k
      <3>3. QED
        BY <1>2, <1>4, <1>5, <1>6, <1>8, <3>1, <3>2
    <2>3. \A d \in Consumers : ConsumerOK(cons'[d]) /\ Works(cons[d], cons'[d])
      BY <1>1, OfConsumer DEF Works
    <2>4. \A i \in DOMAIN offsetsLog' :
              Below(delivered, offsetsLog'[i].part, offsetsLog'[i].offset)
      <3>1. \A i \in DOMAIN offsetsLog : Below(delivered, offsetsLog[i].part, offsetsLog[i].offset)
        BY DEF IndInv, DeliveryInv
      <3>2. QED
        BY <1>2, <1>3, <1>6, <1>7, <3>1, OfTask
    <2>5. \A v \in tasks' : /\ Below(delivered, v.part, v.offset) /\ v.checked <= group.generation
                            /\ \A d \in Consumers :
                                   v.checked = group.generation => Fenced(cons[d], v.part)
      BY <1>5, <1>8, OfTask
    <2>6. AllBelow(delivered, cache') /\ cache' \in [Parts -> 0 .. LogEnd] /\ tasks' \in SUBSET Task
      BY <1>1, <1>5, <1>8, OfTask DEF IndInv, DeliveryInv
    <2>7. /\ cons' \in [Consumers -> Consumer]
          /\ count' \in [commits : Nat, faults : Nat, restarts : Nat]
      BY <1>1 DEF IndInv, TypeInv
    <2>8. QED
      BY <1>1, <1>6, <2>1, <2>2, <2>3, <2>4, <2>5, <2>6, <2>7, CommitStep
  <1>10. RestartInv'
    <2> SUFFICES ASSUME NEW q \in Parts \ overlap PROVE SettledInv(q)'
      BY <1>1 DEF RestartInv
    <2>1. SettledInv(q)
      BY DEF IndInv, RestartInv
    <2>2. CASE q # t.part
      <3>1. \A v \in tasks' : v.part = q => v \in tasks
        BY <1>5, <1>8, <2>2
      <3>2. \A v \in tasks : v.part = q => v \in tasks'
        BY <1>1, <2>2
      <3>3. Own(offsetsLog', q) = Own(offsetsLog, q)
        BY <1>2, <1>3, <1>6, <1>7, <2>2 DEF Own, k
      <3>4. \A i \in Own(offsetsLog, q) : offsetsLog'[i] = offsetsLog[i]
        BY <1>2, <1>6 DEF Own
      <3>5. Replay(offsetsLog')[q] = Replay(offsetsLog)[q]
        <4>1. CASE Own(offsetsLog, q) = {}
          BY <1>2, <1>6, <3>3, <4>1, ReplayFacts
        <4>2. CASE Own(offsetsLog, q) # {}
          <5>1. PICK j \in Own(offsetsLog, q) : \A i \in Own(offsetsLog, q) : i <= j
            BY <1>2, <4>2, ReplayFacts
          <5>2. Replay(offsetsLog)[q] = offsetsLog[j].offset
            BY <1>2, <5>1, ReplayFacts
          <5>3. Replay(offsetsLog')[q] = offsetsLog'[j].offset
            BY <1>6, <3>3, <5>1, ReplayFacts
          <5>4. QED
            BY <3>4, <5>1, <5>2, <5>3
        <4>3. QED
          BY <4>1, <4>2
      <3>6. QED
        BY <1>1, <2>1, <3>1, <3>2, <3>3, <3>4, <3>5 DEF SettledInv
    <2>3. CASE q = t.part
      <3>1. \A v \in tasks' : v.part = q => v = u
        <4>1. \A v \in tasks : v.part = q => v = t
          BY <2>1, <2>3 DEF SettledInv
        <4>2. QED
          BY <1>1, <4>1
      <3>2. u \in tasks' /\ u.part = q /\ u.at # 0
        BY <1>1, <1>4, <1>5, <2>3
      <3>3. k \in Own(offsetsLog', q) /\ offsetsLog'[k].offset = t.offset
        BY <1>3, <1>4, <1>6, <2>3 DEF Own
      <3>4. \A i \in Own(offsetsLog', q) : i <= k
        BY <1>4, <1>6 DEF Own
      <3>5. QED
        BY <1>5, <3>1, <3>2, <3>3, <3>4 DEF SettledInv
    <2>4. QED
      BY <2>2, <2>3
  <1>11. ASSUME NEW q \in Parts \ (late' \cup overlap')
         PROVE  AheadInv(q)'
    <2>1. AheadInv(q)
      BY <1>1 DEF IndInv, AdvanceInv
    <2>2. \A v \in Current(q)' : \E w \in Current(q) : v.offset = w.offset
      <3> SUFFICES ASSUME NEW v \in tasks', v.part = q, v.checked = group.generation
                   PROVE  \E w \in Current(q) : v.offset = w.offset
        BY <1>1 DEF Current
      <3>1. CASE v \in tasks
        BY <3>1 DEF Current
      <3>2. CASE v = u
        BY <1>5, <3>2 DEF Current
      <3>3. QED
        BY <1>8, <3>1, <3>2
    <2>3. QED
      BY <1>1, <2>1, <2>2 DEF AheadInv, KeepsUp
  <1>12. QED
    BY <1>9, <1>10, <1>11 DEF IndInv, AdvanceInv

LEMMA TaskAckInd ==
  ASSUME IndInv, NEW t \in tasks, TaskAck(t)
  PROVE  IndInv'
  <1>1. /\ t.at > 0 /\ synced' = Max({synced, t.at}) /\ cache' = [cache EXCEPT ![t.part] = t.offset]
        /\ tasks' = tasks \ {t}
        /\ late' = late \cup (IF t.checked = group.generation THEN {} ELSE {t.part})
        /\ UNCHANGED <<group, nextMember, offsetsLog, count, delivered, overlap>>
    BY DEF TaskAck
  <1>2. /\ t \in Task /\ t.part \in Parts /\ t.offset \in 0 .. LogEnd /\ t.checked \in Nat
        /\ t.at \in Nat /\ t.at <= Len(offsetsLog)
        /\ offsetsLog \in Seq(CommitRecord) /\ Len(offsetsLog) \in Nat
        /\ synced \in 0 .. Len(offsetsLog) /\ cache \in [Parts -> 0 .. LogEnd]
    BY OfTask
  <1>3. synced' \in 0 .. Len(offsetsLog) /\ synced <= synced' /\ t.at <= synced'
    <2>1. {synced, t.at} \in SUBSET (0 .. Len(offsetsLog)) /\ {synced, t.at} # {}
      BY <1>2
    <2>2. Max({synced, t.at}) \in {synced, t.at} /\ \A y \in {synced, t.at} : y <= Max({synced, t.at})
      BY <1>2, <2>1, MaxIsGreatest
    <2>3. QED
      BY <1>1, <2>1, <2>2
  <1>4. /\ cache' \in [Parts -> 0 .. LogEnd] /\ cache'[t.part] = t.offset
        /\ \A q \in Parts : q # t.part => cache'[q] = cache[q]
    BY <1>1, <1>2
  <1>5. \A v \in tasks' : v \in tasks /\ v # t
    BY <1>1
  <1>6. ASSUME NEW d \in Consumers
        PROVE  cons'[d] \in Consumer /\ ConsumerOK(cons'[d]) /\ Works(cons[d], cons'[d])
    <2> DEFINE s == cons[d]
               ended == [s EXCEPT !.phase = "idle", !.call = 0]
               next == [s EXCEPT !.call = 0]
    <2>1. s \in Consumer /\ ConsumerOK(s) /\ 0 \in Nat /\ "idle" \in Phases
      BY OfConsumer DEF Phases
    <2>2. \/ cons'[d] = s
          \/ Waits(d, t) /\ cons'[d] = ended
          \/ Waits(d, t) /\ cons'[d] = next
      BY DEF TaskAck
    <2>3. /\ ended \in Consumer
          /\ Has(ended, "idle", s.member, s.gen, s.pos, s.outcome, s.got, s.todo, 0)
          /\ next \in Consumer
          /\ Has(next, s.phase, s.member, s.gen, s.pos, s.outcome, s.got, s.todo, 0)
      BY <2>1, RecordUpdates
    <2> HIDE DEF ended, next
    <2>4. CASE cons'[d] = s
      BY <2>1, <2>4 DEF Works
    <2>5. CASE Waits(d, t) /\ cons'[d] = ended
      BY <2>1, <2>3, <2>5 DEF Works, Waits, Has, ConsumerOK
    <2>6. CASE Waits(d, t) /\ cons'[d] = next
      BY <2>1, <2>3, <2>6 DEF Works, Waits, Has, ConsumerOK
    <2>7. QED
      BY <2>2, <2>4, <2>5, <2>6
  <1>7. cons' \in [Consumers -> Consumer]
    <2>1. cons' = [c \in Consumers |-> cons'[c]]
      BY DEF TaskAck
    <2>2. QED
      BY <1>6, <2>1
  <1>8. TypeInv' /\ ViewInv' /\ DeliveryInv' /\ FenceInv'
    <2>1. \A v \in tasks' : v.at <= Len(offsetsLog')
      BY <1>1, <1>5, OfTask
    <2>2. AllBelow(delivered, cache')
      <3>1. AllBelow(delivered, cache)
        BY DEF IndInv, DeliveryInv
      <3>2. QED
        BY <1>2, <1>4, <3>1, OfTask DEF AllBelow
    <2>3. /\ \A i \in DOMAIN offsetsLog' :
                 Below(delivered, offsetsLog'[i].part, offsetsLog'[i].offset)
          /\ count' \in [commits : Nat, faults : Nat, restarts : Nat]
      BY <1>1 DEF IndInv, DeliveryInv, TypeInv
    <2>4. \A v \in tasks' : /\ Below(delivered, v.part, v.offset) /\ v.checked <= group.generation
                            /\ \A d \in Consumers :
                                   v.checked = group.generation => Fenced(cons[d], v.part)
      BY <1>5, OfTask
    <2>5. tasks' \in SUBSET Task
      BY <1>5, OfTask
    <2>6. QED
      BY <1>1, <1>2, <1>3, <1>4, <1>6, <1>7, <2>1, <2>2, <2>3, <2>4, <2>5, CommitStep
  <1>9. RestartInv'
    <2> SUFFICES ASSUME NEW q \in Parts \ overlap PROVE SettledInv(q)'
      BY <1>1 DEF RestartInv
    <2>1. SettledInv(q)
      BY DEF IndInv, RestartInv
    <2>2. \A i \in Own(offsetsLog, q) : i \in Nat /\ synced \in Nat /\ synced' \in Nat
      BY <1>2, <1>3, LenProperties DEF Own
    <2>3. CASE q # t.part
      <3>1. \A v \in tasks : v.part = q => v \in tasks'
        BY <1>1, <2>3
      <3>2. (\A i \in Own(offsetsLog, q) : i <= synced) => \A i \in Own(offsetsLog, q) : i <= synced'
        BY <1>3, <2>2
      <3>3. QED
        BY <1>1, <1>4, <1>5, <2>1, <2>3, <3>1, <3>2 DEF SettledInv
    <2>4. CASE q = t.part
      <3>1. \A v \in tasks' : v.part # q
        BY <1>5, <2>1, <2>4 DEF SettledInv
      <3>2. /\ t.at \in Own(offsetsLog, q) /\ offsetsLog[t.at].offset = t.offset
            /\ \A i \in Own(offsetsLog, q) : i <= t.at
        BY <1>1, <2>1, <2>4 DEF SettledInv
      <3>3. Replay(offsetsLog)[q] = t.offset
        BY <1>2, <3>2, ReplayFacts
      <3>4. \A i \in Own(offsetsLog, q) : i <= synced'
        BY <1>2, <1>3, <2>2, <3>2
      <3>5. QED
        BY <1>1, <1>4, <2>4, <3>1, <3>3, <3>4 DEF SettledInv
    <2>5. QED
      BY <2>3, <2>4
  <1>10. ASSUME NEW q \in Parts \ (late' \cup overlap')
         PROVE  AheadInv(q)'
    <2>1. AheadInv(q) /\ SettledInv(q) /\ q \in Parts \ (late \cup overlap)
      BY <1>1 DEF IndInv, AdvanceInv, RestartInv
    <2>2. \A v \in Current(q)' : v \in Current(q)
      BY <1>1 DEF Current
    <2>3. CASE q # t.part
      <3>1. cache'[q] = cache[q]
        BY <1>4, <2>3
      <3>2. \A d \in Consumers : KeepsUp(cons[d], q)'
        BY <1>1, <1>6, <2>1, <2>2, <3>1 DEF AheadInv, KeepsUp, Works
      <3>3. QED
        BY <1>1, <2>1, <2>2, <3>1, <3>2 DEF AheadInv
    <2>4. CASE q = t.part
      <3>1. t.checked = group.generation /\ t \in Current(q)
        BY <1>1, <2>4 DEF Current
      <3>2. Current(q)' = {}
        BY <1>1, <1>5, <2>1, <2>4 DEF SettledInv, Current
      <3>3. cache'[q] = t.offset
        BY <1>4, <2>4
      <3>4. ASSUME NEW d \in Consumers PROVE KeepsUp(cons[d], q)'
        <4>1. KeepsUp(cons[d], q) /\ Works(cons[d], cons'[d]) /\ Fenced(cons[d], q)
          BY <1>6, <2>1, <2>4, <3>1, OfTask DEF AheadInv
        <4>2. ~ (/\ cons[d].phase = "loading" /\ cons[d].outcome.gen = group.generation
                 /\ q \in DOMAIN cons[d].got)
          BY <4>1, OfLoading DEF Fenced
        <4>3. QED
          BY <1>1, <3>1, <3>2, <3>3, <4>1, <4>2 DEF KeepsUp, Works
      <3>5. QED
        BY <3>2, <3>4 DEF AheadInv
    <2>5. QED
      BY <2>3, <2>4
  <1>11. QED
    BY <1>8, <1>9, <1>10 DEF IndInv, AdvanceInv

------------------------------------------------------------------------------
(* Starts *)

\* A broker that has just started, for the first time or again: no group, no
\* consumer, the offsets of its log.
Fresh ==
    /\ group = [generation |-> 0, members |-> <<>>, assignment |-> <<>>]
    /\ nextMember = 1
    /\ offsetsLog \in Seq(CommitRecord) /\ synced = Len(offsetsLog)
    /\ cache = Replay(offsetsLog)
    /\ tasks = {}
    /\ cons = [c \in Consumers |-> Out]
    /\ count \in [commits : Nat, faults : Nat, restarts : Nat]
    /\ delivered \in [Parts -> SUBSET Nat]
    /\ \A i \in DOMAIN offsetsLog : Below(delivered, offsetsLog[i].part, offsetsLog[i].offset)

LEMMA FreshInd == Fresh => IndInv
  <1> SUFFICES ASSUME Fresh PROVE IndInv
    OBVIOUS
  <1>1. /\ DOMAIN <<>> = {} /\ <<>> \in [{} -> SUBSET Topics]
        /\ \A c \in Consumers : cons[c] = Out
        /\ Members = {} /\ group.generation = 0 /\ group.members = <<>> /\ group.assignment = <<>>
    BY DEF Fresh, Members
  <1>2. GroupOK(group)
    <2>1. <<>> \in Memberships
      BY <1>1 DEF Memberships
    <2>2. OwnersOK(<<>>, <<>>)
      BY <1>1 DEF OwnersOK
    <2>3. QED
      BY <1>1, <2>1, <2>2 DEF GroupOK
  <1>3. /\ offsetsLog \in Seq(CommitRecord) /\ Len(offsetsLog) \in Nat
        /\ DOMAIN offsetsLog = 1 .. Len(offsetsLog)
    BY LenProperties DEF Fresh
  <1>4. cache \in [Parts -> 0 .. LogEnd] /\ \A p \in Parts : cache[p] = Replay(offsetsLog)[p]
    <2>1. \A p \in Parts : Replay(offsetsLog)[p] \in 0 .. LogEnd
      BY <1>3, ReplayFacts
    <2>2. Replay(offsetsLog) = [p \in Parts |-> Replay(offsetsLog)[p]]
      BY DEF Replay
    <2>3. QED
      BY <2>1, <2>2 DEF Fresh
  <1>5. TypeInv
    <2>1. nextMember \in 1 .. MaxMembers + 1
      BY GroupsAssumption DEF Fresh, GroupsAssumption
    <2>2. synced \in 0 .. Len(offsetsLog)
      BY <1>3 DEF Fresh
    <2>3. cons \in [Consumers -> Consumer] /\ \A c \in Consumers : ConsumerOK(cons[c])
      BY <1>1, OutIsAConsumer DEF Fresh
    <2>4. QED
      BY <1>1, <1>2, <1>3, <1>4, <2>1, <2>2, <2>3 DEF TypeInv, Fresh
  <1>6. ViewInv
    <2>1. \A c \in Consumers : Views(cons[c]) = {EmptyView}
      BY <1>1, OutIsAConsumer
    <2>2. ViewOK(EmptyView, group, nextMember)
      BY <1>1 DEF ViewOK, EmptyView, Fresh, NoMember
    <2>3. Apart(EmptyView, EmptyView)
      BY DEF Apart, EmptyView
    <2>4. QED
      BY <2>1, <2>2, <2>3 DEF ViewInv
  <1>7. DeliveryInv
    <2>1. ASSUME NEW p \in Parts PROVE Below(delivered, p, cache[p])
      <3>1. CASE Own(offsetsLog, p) = {}
        <4>1. cache[p] = 0 /\ 0 .. 0 - 1 = {}
          BY <1>3, <1>4, <3>1, ReplayFacts
        <4>2. QED
          BY <4>1 DEF Below
      <3>2. CASE Own(offsetsLog, p) # {}
        <4>1. PICK k \in Own(offsetsLog, p) : \A i \in Own(offsetsLog, p) : i <= k
          BY <1>3, <3>2, ReplayFacts
        <4>2. cache[p] = offsetsLog[k].offset
          BY <1>3, <1>4, <4>1, ReplayFacts
        <4>3. k \in DOMAIN offsetsLog /\ offsetsLog[k].part = p
          BY <4>1 DEF Own
        <4>4. QED
          BY <4>2, <4>3 DEF Fresh
      <3>3. QED
        BY <3>1, <3>2
    <2>2. AllBelow(delivered, cache)
      BY <1>4, <2>1 DEF AllBelow
    <2>3. AllBelow(delivered, Out.pos) /\ AllBelow(delivered, Out.got)
      BY <1>1 DEF AllBelow, Out
    <2>4. QED
      BY <1>1, <2>2, <2>3 DEF DeliveryInv, Fresh
  <1>8. RestartInv
    BY <1>3, <1>4 DEF RestartInv, SettledInv, Own, Fresh
  <1>9. AdvanceInv
    <2>1. Out.pos = <<>> /\ Out.phase = "out"
      BY DEF Out
    <2>2. FenceInv
      BY <1>1, <2>1 DEF FenceInv, RejoinOK, Fresh
    <2>3. \A p \in Parts : AheadInv(p)
      BY <1>1, <2>1 DEF AheadInv, KeepsUp, Current, Fresh
    <2>4. QED
      BY <2>2, <2>3 DEF AdvanceInv
  <1>10. QED
    BY <1>5, <1>6, <1>7, <1>8, <1>9 DEF IndInv

LEMMA InitFresh == Init => Fresh
  <1> SUFFICES ASSUME Init PROVE Fresh
    OBVIOUS
  <1>1. <<>> \in Seq(CommitRecord) /\ Len(<<>>) = 0 /\ DOMAIN <<>> = {}
    OBVIOUS
  <1>2. cache = Replay(<<>>)
    <2>1. \A p \in Parts : Own(<<>>, p) = {}
      BY <1>1 DEF Own
    <2>2. \A p \in Parts : Replay(<<>>)[p] = 0
      BY <1>1, <2>1, ReplayFacts
    <2>3. Replay(<<>>) = [p \in Parts |-> Replay(<<>>)[p]]
      BY DEF Replay
    <2>4. Replay(<<>>) = [p \in Parts |-> 0]
      BY <2>2, <2>3
    <2>5. QED
      BY <2>4 DEF Init
  <1>3. /\ count \in [commits : Nat, faults : Nat, restarts : Nat]
        /\ delivered \in [Parts -> SUBSET Nat]
    BY DEF Init
  <1>4. QED
    BY <1>1, <1>2, <1>3 DEF Init, Fresh

LEMMA RestartFresh ==
  ASSUME IndInv, Restart
  PROVE  Fresh'
  <1>1. PICK n \in synced .. Len(offsetsLog) :
            /\ offsetsLog' = SubSeq(offsetsLog, 1, n) /\ synced' = n
            /\ cache' = Replay(offsetsLog')
    BY DEF Restart
  <1>2. /\ offsetsLog \in Seq(CommitRecord) /\ Len(offsetsLog) \in Nat
        /\ DOMAIN offsetsLog = 1 .. Len(offsetsLog) /\ synced \in Nat
    BY LenProperties DEF IndInv, TypeInv
  <1>3. n \in 0 .. Len(offsetsLog) /\ n \in Nat
    BY <1>2
  <1>4. /\ offsetsLog' \in Seq(CommitRecord) /\ Len(offsetsLog') = n
        /\ DOMAIN offsetsLog' = 1 .. n
        /\ \A i \in 1 .. n : offsetsLog'[i] = offsetsLog[i] /\ i \in DOMAIN offsetsLog
    BY <1>1, <1>2, <1>3
  <1>5. \A i \in DOMAIN offsetsLog' :
            Below(delivered', offsetsLog'[i].part, offsetsLog'[i].offset)
    <2>1. delivered' = delivered
      BY DEF Restart
    <2>2. QED
      BY <1>4, <2>1 DEF IndInv, DeliveryInv
  <1>6. /\ count' \in [commits : Nat, faults : Nat, restarts : Nat]
        /\ delivered' \in [Parts -> SUBSET Nat]
    BY CountUp DEF Restart, IndInv, TypeInv
  <1>7. QED
    BY <1>1, <1>4, <1>5, <1>6 DEF Restart, Fresh

LEMMA RestartInd == IndInv /\ Restart => IndInv'
  <1>1. IndInv /\ Restart => Fresh'
    BY RestartFresh
  <1>2. Fresh' => IndInv'
    BY FreshInd, PTL
  <1>3. QED
    BY <1>1, <1>2

------------------------------------------------------------------------------
(* The theorems *)

LEMMA NextInd == IndInv /\ [Next]_vars => IndInv'
  <1> SUFFICES ASSUME IndInv, [Next]_vars PROVE IndInv'
    OBVIOUS
  <1>1. CASE UNCHANGED vars
    <2>1. UNCHANGED <<group, nextMember, offsetsLog, synced, cache, tasks, cons, count,
                      delivered, late, overlap, appliedGen>>
      BY <1>1 DEF vars, broker, history
    <2>2. Members' = Members
      BY <2>1 DEF Members
    <2>3. TypeInv' /\ ViewInv' /\ DeliveryInv'
      BY <2>1, <2>2 DEF IndInv, TypeInv, ViewInv, DeliveryInv
    <2>4. RestartInv'
      BY <2>1 DEF IndInv, RestartInv, SettledInv
    <2>5. AdvanceInv'
      <3>1. \A p : Current(p)' = Current(p)
        BY <2>1 DEF Current
      <3>2. FenceInv'
        BY <2>1, <2>2 DEF IndInv, AdvanceInv, FenceInv, RejoinOK, Fenced
      <3>3. \A p \in Parts \ (late \cup overlap) : AheadInv(p)'
        BY <2>1, <3>1 DEF IndInv, AdvanceInv, AheadInv, KeepsUp
      <3>4. QED
        BY <2>1, <3>2, <3>3 DEF AdvanceInv
    <2>6. QED
      BY <2>3, <2>4, <2>5 DEF IndInv
  <1>2. ASSUME NEW c \in Consumers,
               \/ JoinGroup(c) \/ LoadOffset(c) \/ Heartbeat(c) \/ Poll(c)
               \/ StartCommit(c) \/ CommitOffset(c) \/ Leave(c)
               \/ Cancel(c) \/ Die(c)
        PROVE  IndInv'
    BY <1>2, JoinGroupInd, LoadOffsetInd, HeartbeatInd, PollInd, StartCommitInd,
       CommitOffsetInd, LeaveInd, CancelInd, DieInd
  <1>3. ASSUME NEW t \in tasks, TaskAppend(t) \/ TaskAck(t)
        PROVE  IndInv'
    BY <1>3, TaskAppendInd, TaskAckInd
  <1>4. CASE ExpireGhosts \/ ExpireSlow
    BY <1>4, ExpireInd
  <1>5. CASE Restart
    BY <1>5, RestartInd
  <1>6. QED
    BY <1>1, <1>2, <1>3, <1>4, <1>5 DEF Next

\* The inductive invariant holds in every reachable state.
THEOREM Invariance == Spec => []IndInv
  <1>1. Init => IndInv
    BY InitFresh, FreshInd
  <1>2. QED
    BY <1>1, NextInd, PTL DEF Spec

\* The state keeps its types: member ids, the cache and the consumers' positions
\* are in range, and the assignment is the one of the current members.
THEOREM TypeCorrect == Spec => []TypeOK
  <1>1. IndInv => TypeOK
    <2> SUFFICES ASSUME IndInv PROVE TypeOK
      OBVIOUS
    <2>1. group.generation \in Nat /\ DOMAIN group.assignment = Members
      BY DEF IndInv, TypeInv, GroupOK, OwnersOK, Members
    <2>2. Members \subseteq 1 .. MaxMembers
      BY DEF IndInv, TypeInv, GroupOK, Memberships, Members
    <2>3. \A t \in tasks : t.part \in Parts /\ t.offset \in 0 .. LogEnd
      BY OfTask
    <2>4. \A c \in Consumers :
              /\ cons[c].phase \in {"out", "idle", "rejoin", "loading", "committing"}
              /\ DOMAIN cons[c].pos \subseteq Parts
      BY OfConsumer, PositionsFacts DEF Consumer, Phases
    <2>5. QED
      BY <2>1, <2>2, <2>3, <2>4 DEF TypeOK, IndInv, TypeInv
  <1>2. QED
    BY <1>1, Invariance, PTL

\* The range assignment gives every partition of a subscribed topic exactly one
\* owner, and two consumers that work in the same generation never share one: the
\* ids the coordinator gives out are never reused while it runs.
THEOREM PartitionsHaveOneOwner == Spec => []OneOwner
  <1>1. IndInv => OneOwner
    <2> SUFFICES ASSUME IndInv PROVE OneOwner
      OBVIOUS
    <2>1. OwnersOK(group.members, group.assignment)
      BY DEF IndInv, TypeInv, GroupOK
    <2>2. ASSUME NEW t \in Topics, \E m \in Members : t \in group.members[m],
                 NEW i \in 0 .. PartitionCount[t] - 1
          PROVE  Cardinality({m \in Members : <<t, i>> \in group.assignment[m]}) = 1
      <3>1. i \in Nat /\ i < PartitionCount[t]
        BY GroupsAssumption DEF GroupsAssumption
      <3>2. PICK m \in Members : <<t, i>> \in group.assignment[m]
        BY <2>1, <2>2, <3>1 DEF OwnersOK, Members
      <3>3. {x \in Members : <<t, i>> \in group.assignment[x]} = {m}
        BY <2>1, <3>2 DEF OwnersOK, Members
      <3>4. QED
        BY <3>3, FS_Singleton
    <2>3. ASSUME NEW c \in Consumers, NEW d \in Consumers, c # d, cons[c].gen = cons[d].gen
          PROVE  DOMAIN cons[c].pos \cap DOMAIN cons[d].pos = {}
      <3>1. Apart(View(cons[c]), View(cons[d]))
        BY <2>3, OfConsumer DEF IndInv, ViewInv
      <3>2. QED
        BY <2>3, <3>1 DEF Apart, View
    <2>4. QED
      BY <2>2, <2>3 DEF OneOwner
  <1>2. QED
    BY <1>1, Invariance, PTL

\* At least once: every record below a committed offset, in the cache or in the
\* log, was returned by a poll, through every rebalance, zombie and crash.
THEOREM CommittedIsDelivered == Spec => []CommittedWasDelivered
  <1>1. IndInv => CommittedWasDelivered
    BY DEF IndInv, TypeInv, DeliveryInv, AllBelow, Below, CommittedWasDelivered
  <1>2. QED
    BY <1>1, Invariance, PTL

\* A replay of a prefix that holds all of a partition's records.
LEMMA ReplayPrefix ==
  ASSUME NEW log \in Seq(CommitRecord), NEW p \in Parts, NEW n \in 0 .. Len(log),
         \A i \in Own(log, p) : i <= n
  PROVE  Replay(SubSeq(log, 1, n))[p] = Replay(log)[p]
  <1> DEFINE pre == SubSeq(log, 1, n)
  <1>1. Len(log) \in Nat /\ DOMAIN log = 1 .. Len(log) /\ n \in Nat
    BY LenProperties
  <1>2. /\ pre \in Seq(CommitRecord) /\ DOMAIN pre = 1 .. n
        /\ \A i \in 1 .. n : pre[i] = log[i] /\ i \in DOMAIN log
    BY <1>1
  <1> HIDE DEF pre
  <1>3. Own(pre, p) = Own(log, p) /\ \A i \in Own(log, p) : pre[i] = log[i]
    <2>1. \A i \in Own(log, p) : i \in 1 .. n
      BY <1>1 DEF Own
    <2>2. QED
      BY <1>2, <2>1 DEF Own
  <1>4. CASE Own(log, p) = {}
    BY <1>2, <1>3, <1>4, ReplayFacts DEF pre
  <1>5. CASE Own(log, p) # {}
    <2>1. PICK k \in Own(log, p) : \A i \in Own(log, p) : i <= k
      BY <1>5, ReplayFacts
    <2>2. Replay(log)[p] = log[k].offset
      BY <2>1, ReplayFacts
    <2>3. Replay(pre)[p] = pre[k].offset
      BY <1>2, <1>3, <2>1, ReplayFacts
    <2>4. QED
      BY <1>3, <2>1, <2>2, <2>3 DEF pre
  <1>6. QED
    BY <1>4, <1>5

\* A restart of the broker does not move a committed offset: with no commit under
\* way, what is on stable storage gives back what the cache serves, unless two
\* commits of the partition were under way at once.
THEOREM RestartsKeepOffsets == Spec => []RestartKeepsOffsets
  <1>1. IndInv => RestartKeepsOffsets
    <2> SUFFICES ASSUME IndInv, NEW p \in Parts \ overlap, \A t \in tasks : t.part # p
                 PROVE  Replay(SubSeq(offsetsLog, 1, synced))[p] = cache[p]
      BY DEF RestartKeepsOffsets
    <2>1. SettledInv(p)
      BY DEF IndInv, RestartInv
    <2>2. (\A i \in Own(offsetsLog, p) : i <= synced) /\ cache[p] = Replay(offsetsLog)[p]
      BY <2>1 DEF SettledInv
    <2>3. offsetsLog \in Seq(CommitRecord) /\ synced \in 0 .. Len(offsetsLog)
      BY DEF IndInv, TypeInv
    <2>4. QED
      BY <2>2, <2>3, ReplayPrefix
  <1>2. QED
    BY <1>1, Invariance, PTL

\* Committed offsets do not go backwards while the broker runs, as long as no
\* commit is applied after a rebalance that came behind its fence check and no two
\* commits of the partition overlap.
THEOREM OffsetsOnlyAdvance == Spec => OffsetsAdvance
  <1> DEFINE Advances ==
                 \A p \in Parts :
                     p \notin late' \cup overlap' /\ count'.restarts = count.restarts
                         => cache'[p] >= cache[p]
  <1>1. IndInv /\ [Next]_vars => [Advances]_vars
    <2> SUFFICES ASSUME IndInv, Next, NEW p \in Parts, p \notin late' \cup overlap',
                        count'.restarts = count.restarts
                 PROVE  cache'[p] >= cache[p]
      OBVIOUS
    <2>1. cache[p] \in Nat
      BY DEF IndInv, TypeInv
    <2>2. ASSUME NEW t \in tasks, TaskAck(t)
          PROVE  cache'[p] >= cache[p]
      <3>1. /\ cache' = [cache EXCEPT ![t.part] = t.offset] /\ overlap' = overlap
            /\ late' = late \cup (IF t.checked = group.generation THEN {} ELSE {t.part})
        BY <2>2 DEF TaskAck
      <3>2. cache \in [Parts -> 0 .. LogEnd]
        BY DEF IndInv, TypeInv
      <3>3. CASE t.part = p
        <4>1. t \in Current(p) /\ p \notin late \cup overlap
          BY <3>1, <3>3 DEF Current
        <4>2. t.offset >= cache[p]
          BY <4>1 DEF IndInv, AdvanceInv, AheadInv
        <4>3. QED
          BY <3>1, <3>2, <3>3, <4>2
      <3>4. CASE t.part # p
        BY <2>1, <3>1, <3>2, <3>4
      <3>5. QED
        BY <3>3, <3>4
    <2>3. CASE Restart
      <3>1. count'.restarts = count.restarts + 1 /\ count.restarts \in Nat
        BY <2>3 DEF Restart, IndInv, TypeInv
      <3>2. QED
        BY <3>1
    <2>4. CASE cache' = cache
      BY <2>1, <2>4
    <2>5. (\E t \in tasks : TaskAck(t)) \/ Restart \/ cache' = cache
      BY DEF Next, JoinGroup, LoadOffset, Heartbeat, Poll, StartCommit, CommitOffset, Leave,
             Cancel, Die, TaskAppend, ExpireGhosts, ExpireSlow, broker
    <2>6. QED
      BY <2>2, <2>3, <2>4, <2>5
  <1>2. QED
    BY <1>1, Invariance, PTL DEF Spec, OffsetsAdvance

====================
