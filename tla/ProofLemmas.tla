----------------------------- MODULE ProofLemmas ------------------------------
(***************************************************************************)
(* Facts about numbers, sets and sequences that the proofs of several      *)
(* components cite.                                                        *)
(***************************************************************************)
EXTENDS Integers, Sequences, FiniteSetsExt, FiniteSetTheorems,
        SequenceTheorems, WellFoundedInduction, TLAPS

------------------------------------------------------------------------------
(* Numbers *)

\* Every non-empty set of naturals has a least element.
LEMMA LeastNatural ==
  ASSUME NEW T \in SUBSET Nat, T # {}
  PROVE  \E x \in T : \A y \in T : x <= y
  <1> DEFINE R == OpToRel(<, Nat)
  <1>1. IsWellFoundedOn(R, Nat)
    BY NatLessThanWellFounded
  <1>2. \A x, y \in Nat : y < x => <<y, x>> \in R
    BY DEF OpToRel
  <1> HIDE DEF R
  <1>3. PICK x \in T : \A y \in T : ~ (<<y, x>> \in R)
    BY <1>1, WFMin
  <1>4. \A y \in T : y < x => <<y, x>> \in R
    BY <1>2
  <1>5. \A y \in T : ~ (y < x)
    BY <1>3, <1>4, Zenon
  <1>6. QED
    BY <1>5

\* Induction over the naturals, for a property given as a set: unlike the
\* library's NatInduction it takes no operator, so the provers can apply it.
LEMMA SetInduction ==
  ASSUME NEW S, 0 \in S, \A n \in Nat : n \in S => n + 1 \in S
  PROVE  \A n \in Nat : n \in S
  <1> SUFFICES ASSUME Nat \ S # {} PROVE FALSE
    OBVIOUS
  <1>1. PICK x \in Nat \ S : \A y \in Nat \ S : x <= y
    BY LeastNatural
  <1>2. x # 0 /\ x - 1 \in Nat
    BY <1>1
  <1>3. x - 1 \in S
    BY <1>1, <1>2
  <1>4. x - 1 + 1 \in S
    BY <1>2, <1>3
  <1>5. QED
    BY <1>1, <1>4

\* Min of FiniteSetsExt on a non-empty set of naturals.
LEMMA MinIsLeast ==
  ASSUME NEW T \in SUBSET Nat, T # {}
  PROVE  Min(T) \in T /\ \A y \in T : Min(T) <= y
  <1>1. \E x \in T : \A y \in T : x <= y
    BY LeastNatural
  <1>2. QED
    BY <1>1 DEF Min

\* The smaller of two naturals.
LEMMA MinOfTwo ==
  ASSUME NEW a \in Nat, NEW b \in Nat
  PROVE  Min({a, b}) = IF a <= b THEN a ELSE b
  <1>1. Min({a, b}) \in {a, b} /\ Min({a, b}) <= a /\ Min({a, b}) <= b
    BY MinIsLeast
  <1>2. QED
    BY <1>1

\* Max of FiniteSetsExt on a non-empty bounded set of naturals.
LEMMA MaxIsGreatest ==
  ASSUME NEW n \in Nat, NEW T \in SUBSET (0 .. n), T # {}
  PROVE  Max(T) \in T /\ \A y \in T : y <= Max(T)
  <1> DEFINE U == {n - y : y \in T}
  <1>1. U \in SUBSET Nat /\ U # {}
    <2>1. \A y \in T : n - y \in Nat
      OBVIOUS
    <2>2. QED
      BY <2>1
  <1>2. PICK u \in U : \A v \in U : u <= v
    BY <1>1, LeastNatural
  <1>3. PICK x \in T : u = n - x
    BY <1>2
  <1>4. \A y \in T : n - y \in U
    OBVIOUS
  <1>5. \A y \in T : x >= y
    BY <1>2, <1>3, <1>4
  <1>6. \E z \in T : \A y \in T : z >= y
    BY <1>5
  <1>7. QED
    BY <1>6 DEF Max

\* The greater of two naturals.
LEMMA MaxOfTwo ==
  ASSUME NEW a \in Nat, NEW b \in Nat
  PROVE  Max({a, b}) = IF a <= b THEN b ELSE a
  <1>1. CASE a <= b
    <2>1. {a, b} \in SUBSET (0 .. b) /\ {a, b} # {}
      BY <1>1
    <2>2. Max({a, b}) \in {a, b} /\ \A y \in {a, b} : y <= Max({a, b})
      BY <2>1, MaxIsGreatest
    <2>3. QED
      BY <1>1, <2>2
  <1>2. CASE b < a
    <2>1. {a, b} \in SUBSET (0 .. a) /\ {a, b} # {}
      BY <1>2
    <2>2. Max({a, b}) \in {a, b} /\ \A y \in {a, b} : y <= Max({a, b})
      BY <2>1, MaxIsGreatest
    <2>3. QED
      BY <1>2, <2>2
  <1>3. QED
    BY <1>1, <1>2

====================
