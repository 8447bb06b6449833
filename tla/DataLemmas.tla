----------------------------- MODULE DataLemmas -----------------------------
(***************************************************************************)
(* Facts about numbers, finite sets and sequences that the proofs about    *)
(* the components share.  Induction is used in the form of the least       *)
(* element of a set of numbers.                                            *)
(***************************************************************************)
EXTENDS Naturals, Sequences, FiniteSetsExt, SequenceTheorems,
        FiniteSetTheorems, WellFoundedInduction, TLAPS

(* Every non-empty set of numbers has a least element.                     *)
LEMMA LeastNumber ==
  ASSUME NEW S, S \subseteq Nat, S # {}
  PROVE  \E n \in S : \A m \in S : n <= m
  <1>. DEFINE R == OpToRel(<, Nat)
  <1>1. IsWellFoundedOn(R, Nat)
    BY NatLessThanWellFounded
  <1>2. PICK n \in S : \A m \in S : ~ (<<m, n>> \in R)
    <2>. HIDE DEF R
    <2>. QED BY <1>1, WFMin
  <1>3. \A m \in S : ~ (m < n)
    BY <1>2 DEF OpToRel
  <1>. QED BY <1>3

(* A non-empty set of numbers with an upper bound has a maximum.           *)
LEMMA MaxInSet ==
  ASSUME NEW S, S \subseteq Nat, S # {}, NEW u \in Nat, \A y \in S : y <= u
  PROVE  Max(S) \in S /\ \A y \in S : Max(S) >= y
  <1>. DEFINE gaps == {n \in Nat : \E y \in S : n = u - y}
  <1>1. gaps \subseteq Nat /\ gaps # {}
    <2>1. PICK y \in S : TRUE
      OBVIOUS
    <2>2. u - y \in gaps
      BY <2>1
    <2>. QED BY <2>2
  <1>2. PICK n \in gaps : \A m \in gaps : n <= m
    <2>. HIDE DEF gaps
    <2>. QED BY <1>1, LeastNumber
  <1>3. PICK x \in S : n = u - x
    BY <1>2
  <1>4. \A y \in S : x >= y
    <2>. SUFFICES ASSUME NEW y \in S PROVE x >= y
      OBVIOUS
    <2>1. u - y \in gaps
      OBVIOUS
    <2>. QED BY <1>2, <1>3, <2>1
  <1>. QED BY <1>4 DEF Max

LEMMA MaxOfTwo ==
  ASSUME NEW a \in Nat, NEW b \in Nat
  PROVE  Max({a, b}) \in Nat /\ Max({a, b}) >= a /\ Max({a, b}) >= b
  <1>1. \E x \in {a, b} : \A y \in {a, b} : x >= y
    OBVIOUS
  <1>. QED BY <1>1 DEF Max

(* A member that no other exceeds is the maximum.                          *)
LEMMA MaxIsTop ==
  ASSUME NEW S, S \subseteq Nat, NEW u \in S, \A y \in S : y <= u
  PROVE  Max(S) = u
  <1>1. u \in Nat /\ S # {}
    OBVIOUS
  <1>2. Max(S) \in S /\ \A y \in S : Max(S) >= y
    BY <1>1, MaxInSet
  <1>3. Max(S) \in Nat /\ Max(S) <= u /\ Max(S) >= u
    BY <1>2
  <1>. QED BY <1>1, <1>3

(* The numbers of a sequence have an upper bound.                          *)
LEMMA SeqBounded ==
  ASSUME NEW f \in Seq(Nat)
  PROVE  \E u \in Nat : \A i \in DOMAIN f : f[i] <= u
  <1>. DEFINE good == {n \in Nat : \E u \in Nat : \A i \in 1..n : f[i] <= u}
              bad == (0..Len(f)) \ good
  <1>1. \A i \in 1..Len(f) : f[i] \in Nat
    OBVIOUS
  <1>2. Len(f) \in Nat /\ DOMAIN f = 1..Len(f)
    OBVIOUS
  <1>3. 0 \in good
    OBVIOUS
  <1>4. ASSUME NEW n \in good, n + 1 \in 1..Len(f) PROVE n + 1 \in good
    <2>1. PICK u \in Nat : \A i \in 1..n : f[i] <= u
      OBVIOUS
    <2>2. n \in Nat /\ f[n + 1] \in Nat /\ u + f[n + 1] \in Nat
      BY <1>1, <1>4
    <2>3. \A i \in 1..(n + 1) : i = n + 1 \/ i \in 1..n
      BY <2>2
    <2>4. \A i \in 1..(n + 1) : f[i] \in Nat
      BY <1>1, <1>2, <1>4, <2>2
    <2>5. \A i \in 1..(n + 1) : f[i] <= u + f[n + 1]
      BY <2>1, <2>2, <2>3, <2>4
    <2>6. \E v \in Nat : \A i \in 1..(n + 1) : f[i] <= v
      BY <2>2, <2>5
    <2>7. n + 1 \in Nat
      BY <2>2
    <2>. QED BY <2>6, <2>7
  <1>5. bad = {}
    <2>. HIDE DEF good
    <2>. SUFFICES ASSUME bad # {} PROVE FALSE
      OBVIOUS
    <2>1. bad \subseteq Nat
      BY <1>2
    <2>2. PICK n \in bad : \A m \in bad : n <= m
      <3>. HIDE DEF bad
      <3>. QED BY <2>1, LeastNumber
    <2>3. n # 0 /\ n \in 1..Len(f)
      BY <1>2, <1>3
    <2>4. n - 1 \in good
      BY <1>2, <2>2, <2>3
    <2>5. (n - 1) + 1 = n
      BY <1>2, <2>3
    <2>. QED BY <1>4, <2>3, <2>4, <2>5
  <1>6. Len(f) \in good
    <2>. HIDE DEF good
    <2>. QED BY <1>2, <1>5
  <1>. QED BY <1>2, <1>6

(* How many positions of a sequence satisfy a condition.                   *)
LEMMA CountIn ==
  ASSUME NEW S, NEW s \in Seq(S), NEW P, P \subseteq DOMAIN s
  PROVE  Cardinality(P) \in Nat /\ Cardinality(P) <= Len(s)
  <1>1. DOMAIN s = 1..Len(s) /\ Len(s) \in Nat
    OBVIOUS
  <1>2. IsFiniteSet(1..Len(s)) /\ Cardinality(1..Len(s)) = Len(s)
    <2>1. 1 \in Int /\ Len(s) \in Int
      BY <1>1
    <2>2. IsFiniteSet(1..Len(s))
      BY <2>1, FS_Interval, Zenon
    <2>3. Cardinality(1..Len(s)) = IF 1 > Len(s) THEN 0 ELSE Len(s) - 1 + 1
      BY <2>1, FS_Interval, Zenon
    <2>. QED BY <1>1, <2>2, <2>3
  <1>. QED BY <1>1, <1>2, FS_Subset, FS_CardinalityType

(* What is left of a sequence when its first n elements are dropped.       *)
LEMMA DropType ==
  ASSUME NEW S, NEW s \in Seq(S), NEW n \in Nat
  PROVE  SubSeq(s, 1 + n, Len(s)) \in Seq(S)
  <1>1. \A i \in (1 + n)..Len(s) : s[i] \in S
    OBVIOUS
  <1>2. 1 + n \in Int /\ Len(s) \in Int
    OBVIOUS
  <1>. QED BY <1>1, <1>2, SubSeqProperties

(* Appending to the second of two joined sequences appends to the whole.   *)
LEMMA AppendBehind ==
  ASSUME NEW S, NEW a \in Seq(S), NEW b \in Seq(S), NEW x \in S
  PROVE  a \o Append(b, x) = Append(a \o b, x)
  <1>1. /\ Append(b, x) \in Seq(S) /\ a \o b \in Seq(S)
        /\ Len(a) \in Nat /\ Len(b) \in Nat
        /\ Len(Append(b, x)) = Len(b) + 1 /\ Len(a \o b) = Len(a) + Len(b)
    OBVIOUS
  <1>2. a \o Append(b, x) \in Seq(S) /\ Append(a \o b, x) \in Seq(S)
    BY <1>1
  <1>3. /\ Len(a \o Append(b, x)) = Len(a) + Len(b) + 1
        /\ Len(Append(a \o b, x)) = Len(a) + Len(b) + 1
    BY <1>1
  <1>4. ASSUME NEW i \in 1..(Len(a) + Len(b) + 1)
        PROVE  (a \o Append(b, x))[i] = Append(a \o b, x)[i]
    <2>1. CASE i <= Len(a)
      BY <1>1, <2>1
    <2>2. CASE i > Len(a) /\ i <= Len(a) + Len(b)
      BY <1>1, <2>2
    <2>3. CASE i = Len(a) + Len(b) + 1
      BY <1>1, <2>3
    <2>. QED BY <1>1, <2>1, <2>2, <2>3
  <1>. QED BY <1>2, <1>3, <1>4, SeqEqual

(* Where an element of two joined sequences comes from.                    *)
LEMMA ConcatElement ==
  ASSUME NEW S, NEW a \in Seq(S), NEW b \in Seq(S), NEW i \in 1..Len(a \o b)
  PROVE  \/ i \in 1..Len(a) /\ (a \o b)[i] = a[i]
         \/ i - Len(a) \in 1..Len(b) /\ i > Len(a) /\ (a \o b)[i] = b[i - Len(a)]
  <1>1. Len(a) \in Nat /\ Len(b) \in Nat /\ Len(a \o b) = Len(a) + Len(b)
    OBVIOUS
  <1>2. CASE i <= Len(a)
    BY <1>1, <1>2
  <1>3. CASE i > Len(a)
    <2>1. i - Len(a) \in 1..Len(b)
      BY <1>1, <1>3
    <2>. QED BY <1>1, <1>3, <2>1
  <1>. QED BY <1>1, <1>2, <1>3


(* The image of a finite set has at most as many elements.                 *)
LEMMA ImageCount ==
  ASSUME NEW S, IsFiniteSet(S), NEW f, NEW T, T = {f[x] : x \in S}
  PROVE  IsFiniteSet(T) /\ Cardinality(T) <= Cardinality(S)
         /\ Cardinality(T) \in Nat /\ Cardinality(S) \in Nat
  <1>. DEFINE g == [x \in S |-> f[x]]
  <1>1. g \in Surjection(S, T)
    BY DEF Surjection
  <1>2. IsFiniteSet(T) /\ Cardinality(T) <= Cardinality(S)
    BY <1>1, FS_Surjection
  <1>. QED BY <1>2, FS_CardinalityType

(* What is appended to a sequence makes it longer and leaves its beginning.*)
LEMMA ConcatGrows ==
  ASSUME NEW S, NEW s \in Seq(S), NEW t \in Seq(S), Len(t) > 0
  PROVE  Len(s \o t) > Len(s) /\ SubSeq(s \o t, 1, Len(s)) = s
  <1>1. /\ Len(s) \in Nat /\ Len(t) \in Nat /\ s \o t \in Seq(S)
        /\ Len(s \o t) = Len(s) + Len(t)
        /\ \A i \in 1..(Len(s) + Len(t)) :
             (s \o t)[i] = IF i <= Len(s) THEN s[i] ELSE t[i - Len(s)]
    BY LenProperties, ConcatProperties
  <1>2. Len(s) <= Len(s \o t) /\ Len(s \o t) > Len(s)
    BY <1>1
  <1>. DEFINE u == s \o t
              n == Len(s)
  <1>3. u \in Seq(S) /\ n \in Nat /\ n <= Len(u) /\ Len(u) \in Nat
    BY <1>1, <1>2
  <1>4. \A i \in 1..n : u[i] = s[i] /\ i \in 1..Len(u)
    BY <1>1
  <1>. HIDE DEF u
  <1>5. SubSeq(u, 1, n) = [i \in 1..n |-> u[i]]
    BY <1>3
  <1>6. SubSeq(u, 1, n) = [i \in 1..n |-> s[i]]
    BY <1>4, <1>5
  <1>7. s = [i \in 1..n |-> s[i]]
    BY <1>1
  <1>. QED BY <1>2, <1>6, <1>7 DEF u
=============================================================================
