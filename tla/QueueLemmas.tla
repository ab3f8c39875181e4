---------------------------- MODULE QueueLemmas -----------------------------
(***************************************************************************)
(* Facts about the queues of the bridges: channels, chains of handlers and  *)
(* streams, into which notes go at one end and come out at the other, or    *)
(* are cut off.  Their notes are numbers, the larger the newer.  Last, some  *)
(* about sets of numbers and about division.                                *)
(***************************************************************************)
EXTENDS Integers, Sequences, FiniteSets, SequenceTheorems, FiniteSetTheorems,
        NaturalsInduction, WellFoundedInduction, TLAPS

\* What is in a queue.
Entries(s) == {s[i] : i \in 1 .. Len(s)}

\* Older before newer, and nothing twice.
Ascending(s) == \A i, j \in 1 .. Len(s) : i < j => s[i] < s[j]

\* An empty queue.
LEMMA EmptyQueue == Len(<<>>) = 0 /\ Entries(<<>>) = {} /\ Ascending(<<>>)
BY DEF Entries, Ascending

\* The entries of a queue of S are in S.
LEMMA EntriesType ==
  ASSUME NEW S, NEW s \in Seq(S)
  PROVE  Entries(s) \subseteq S
BY DEF Entries

\* A queue is one of a larger set, too.
LEMMA WiderQueue ==
  ASSUME NEW S, NEW T, S \subseteq T, NEW s \in Seq(S)
  PROVE  s \in Seq(T)
OBVIOUS

\* One entry is added at the end.
LEMMA Appended ==
  ASSUME NEW S, NEW s \in Seq(S), NEW e \in S
  PROVE  /\ Append(s, e) \in Seq(S)
         /\ Len(Append(s, e)) = Len(s) + 1
         /\ Entries(Append(s, e)) = Entries(s) \cup {e}
<1>1. /\ Append(s, e) \in Seq(S) /\ Len(Append(s, e)) = Len(s) + 1
      /\ \A i \in 1 .. Len(s) : Append(s, e)[i] = s[i]
      /\ Append(s, e)[Len(s) + 1] = e
  BY AppendProperties
<1>2. Len(s) \in Nat
  BY LenProperties
<1>3. 1 .. Len(s) + 1 = (1 .. Len(s)) \cup {Len(s) + 1}
  BY <1>2
<1>. QED  BY <1>1, <1>2, <1>3 DEF Entries

\* The first entry is taken.
LEMMA Taken ==
  ASSUME NEW S, NEW s \in Seq(S), s # <<>>
  PROVE  /\ Head(s) \in S /\ Head(s) \in Entries(s)
         /\ Tail(s) \in Seq(S)
         /\ Len(s) > 0 /\ Len(Tail(s)) = Len(s) - 1
         /\ Entries(s) = {Head(s)} \cup Entries(Tail(s))
<1>1. /\ Len(s) \in Nat /\ Len(s) > 0
      /\ Tail(s) \in Seq(S) /\ Len(Tail(s)) = Len(s) - 1
      /\ Head(s) = s[1] /\ Head(s) \in S
      /\ \A i \in 1 .. Len(s) - 1 : Tail(s)[i] = s[i + 1]
  BY HeadTailProperties, LenProperties, EmptySeq
<1>2. Entries(s) \subseteq {Head(s)} \cup Entries(Tail(s))
  <2>. SUFFICES ASSUME NEW i \in 1 .. Len(s), i # 1
                PROVE  s[i] \in Entries(Tail(s))
    BY <1>1 DEF Entries
  <2>1. i - 1 \in 1 .. Len(Tail(s)) /\ Tail(s)[i - 1] = s[i]
    BY <1>1
  <2>. QED  BY <2>1 DEF Entries
<1>3. Entries(Tail(s)) \subseteq Entries(s)
  BY <1>1 DEF Entries
<1>4. Head(s) \in Entries(s)
  BY <1>1 DEF Entries
<1>. QED  BY <1>1, <1>2, <1>3, <1>4

\* A newer entry keeps the order.
LEMMA AscendingAppended ==
  ASSUME NEW S, NEW s \in Seq(S), NEW e \in S, Ascending(s),
         \A x \in Entries(s) : x < e
  PROVE  Ascending(Append(s, e))
<1>1. /\ Len(Append(s, e)) = Len(s) + 1 /\ Len(s) \in Nat
      /\ \A i \in 1 .. Len(s) : Append(s, e)[i] = s[i]
      /\ Append(s, e)[Len(s) + 1] = e
  BY AppendProperties, LenProperties
<1>. SUFFICES ASSUME NEW i \in 1 .. Len(s) + 1, NEW j \in 1 .. Len(s) + 1, i < j
              PROVE  Append(s, e)[i] < Append(s, e)[j]
  BY <1>1 DEF Ascending
<1>2. i \in 1 .. Len(s) /\ s[i] \in Entries(s)
  BY <1>1 DEF Entries
<1>3. CASE j = Len(s) + 1
  BY <1>1, <1>2, <1>3
<1>4. CASE j # Len(s) + 1
  BY <1>1, <1>2, <1>4 DEF Ascending
<1>. QED  BY <1>3, <1>4

\* What is left after the oldest entry is newer and in order.
LEMMA AscendingTaken ==
  ASSUME NEW S, NEW s \in Seq(S), s # <<>>, Ascending(s)
  PROVE  /\ Ascending(Tail(s))
         /\ \A x \in Entries(Tail(s)) : Head(s) < x
<1>1. /\ Len(s) \in Nat /\ Len(s) > 0 /\ Len(Tail(s)) = Len(s) - 1
      /\ Head(s) = s[1]
      /\ \A i \in 1 .. Len(s) - 1 : Tail(s)[i] = s[i + 1]
  BY HeadTailProperties, LenProperties, EmptySeq
<1>2. Ascending(Tail(s))
  <2>. SUFFICES ASSUME NEW i \in 1 .. Len(s) - 1, NEW j \in 1 .. Len(s) - 1, i < j
                PROVE  Tail(s)[i] < Tail(s)[j]
    BY <1>1 DEF Ascending
  <2>1. i + 1 \in 1 .. Len(s) /\ j + 1 \in 1 .. Len(s) /\ i + 1 < j + 1
    BY <1>1
  <2>. QED  BY <1>1, <2>1 DEF Ascending
<1>3. ASSUME NEW i \in 1 .. Len(Tail(s))
      PROVE  Head(s) < Tail(s)[i]
  <2>1. i + 1 \in 1 .. Len(s) /\ 1 \in 1 .. Len(s) /\ 1 < i + 1
    BY <1>1
  <2>. QED  BY <1>1, <2>1 DEF Ascending
<1>. QED  BY <1>2, <1>3 DEF Entries

\* A queue cut after its first k entries.
LEMMA Cut ==
  ASSUME NEW S, NEW s \in Seq(S), NEW k \in 0 .. Len(s)
  PROVE  /\ SubSeq(s, 1, k) \in Seq(S)
         /\ Entries(s) = Entries(SubSeq(s, 1, k))
                           \cup Entries(SubSeq(s, k + 1, Len(s)))
         /\ Ascending(s) => Ascending(SubSeq(s, 1, k))
<1>0. Len(s) \in Nat
  BY LenProperties
<1>1. /\ SubSeq(s, 1, k) \in Seq(S) /\ Len(SubSeq(s, 1, k)) = k
      /\ \A i \in 1 .. k : SubSeq(s, 1, k)[i] = s[i]
  BY <1>0, SubSeqProperties
<1>2. /\ Len(SubSeq(s, k + 1, Len(s))) = Len(s) - k
      /\ \A i \in 1 .. Len(s) - k : SubSeq(s, k + 1, Len(s))[i] = s[k + i]
  BY <1>0, SubSeqProperties
<1>3. Entries(s) \subseteq Entries(SubSeq(s, 1, k))
                             \cup Entries(SubSeq(s, k + 1, Len(s)))
  <2>. SUFFICES ASSUME NEW i \in 1 .. Len(s)
                PROVE  s[i] \in Entries(SubSeq(s, 1, k))
                                  \cup Entries(SubSeq(s, k + 1, Len(s)))
    BY DEF Entries
  <2>1. CASE i <= k
    BY <1>0, <1>1, <2>1 DEF Entries
  <2>2. CASE i > k
    <3>1. i - k \in 1 .. Len(s) - k /\ k + (i - k) = i
      BY <1>0, <2>2
    <3>2. SubSeq(s, k + 1, Len(s))[i - k] = s[i]
      BY <1>2, <3>1
    <3>. QED  BY <1>2, <3>1, <3>2 DEF Entries
  <2>. QED  BY <1>0, <2>1, <2>2
<1>4. Entries(SubSeq(s, 1, k)) \subseteq Entries(s)
  BY <1>0, <1>1 DEF Entries
<1>5. Entries(SubSeq(s, k + 1, Len(s))) \subseteq Entries(s)
  <2>. SUFFICES ASSUME NEW i \in 1 .. Len(s) - k
                PROVE  s[k + i] \in Entries(s)
    BY SMTT(30), <1>2 DEF Entries
  <2>1. k + i \in 1 .. Len(s)
    BY <1>0
  <2>. QED  BY <2>1 DEF Entries
<1>6. Ascending(s) => Ascending(SubSeq(s, 1, k))
  BY <1>0, <1>1 DEF Ascending
<1>. QED  BY <1>1, <1>3, <1>4, <1>5, <1>6

\* A set of numbers that is not empty has a least one.
LEMMA FirstOf ==
  ASSUME NEW S \in SUBSET Nat, S # {}
  PROVE  \E x \in S : \A y \in S : x <= y
<1>. DEFINE Less == OpToRel(<, Nat)
<1>1. IsWellFoundedOn(Less, Nat)
  BY NatLessThanWellFounded, Zenon
<1>2. \A x, y \in Nat : y < x => <<y, x>> \in Less
  <2>1. \A ss \in Nat \X Nat : ss[1] < ss[2] => ss \in Less
    BY Zenon DEF OpToRel
  <2>. HIDE DEF Less
  <2>. QED  BY <2>1
<1>. HIDE DEF Less
<1>3. PICK x \in S : \A y \in S : ~ (<<y, x>> \in Less)
  BY <1>1, WFMin
<1>4. \A y \in S : ~ (y < x) /\ x \in Nat /\ y \in Nat
  BY <1>2, <1>3
<1>5. \A y \in S : x <= y
  BY ONLY <1>4
<1>. QED  BY <1>5

\* How many of S come before m.
Below(S, m) == Cardinality({n \in S : n < m})

\* Every number in a finite set has a rank, and every rank is some number's.
LEMMA Ranks ==
  ASSUME NEW S, S \subseteq Nat, IsFiniteSet(S)
  PROVE  /\ Cardinality(S) \in Nat
         /\ \A m, n \in S : m < n => Below(S, m) < Below(S, n)
         /\ \A m \in S : Below(S, m) \in 0 .. Cardinality(S) - 1
         /\ \A k \in 0 .. Cardinality(S) - 1 : \E m \in S : Below(S, m) = k
<1>. DEFINE Up(m) == {n \in S : n < m}
<1>1. ASSUME NEW T, T \subseteq S
      PROVE  /\ IsFiniteSet(T) /\ Cardinality(T) \in Nat
             /\ Cardinality(T) <= Cardinality(S) /\ Cardinality(S) \in Nat
             /\ \A U : U \subseteq T => /\ Cardinality(U) \in Nat
                                        /\ Cardinality(U) <= Cardinality(T)
                                        /\ Cardinality(U) = Cardinality(T) => U = T
  BY <1>1, FS_Subset, FS_CardinalityType
<1>2. ASSUME NEW m \in S, NEW n \in S, m < n
      PROVE  Below(S, m) < Below(S, n)
  <2>1. Up(m) \subseteq Up(n) /\ Up(n) \subseteq S
    <3>1. \A e \in S : e < m => e < n
      BY <1>2
    <3>. QED  BY <3>1
  <2>2. m \in Up(n) /\ m \notin Up(m)
    BY <1>2
  <2>3. /\ Cardinality(Up(m)) \in Nat /\ Cardinality(Up(n)) \in Nat
        /\ Cardinality(Up(m)) <= Cardinality(Up(n))
        /\ Cardinality(Up(m)) # Cardinality(Up(n))
    <3>. HIDE DEF Up
    <3>. QED  BY <1>1, <2>1, <2>2
  <2>. QED  BY <2>3 DEF Below
<1>3. ASSUME NEW m \in S
      PROVE  Below(S, m) \in 0 .. Cardinality(S) - 1
  <2>1. Up(m) \subseteq S /\ m \in S /\ m \notin Up(m)
    BY <1>3
  <2>2. /\ Cardinality(Up(m)) \in Nat /\ Cardinality(S) \in Nat
        /\ Cardinality(Up(m)) <= Cardinality(S)
        /\ Cardinality(Up(m)) # Cardinality(S)
    <3>. HIDE DEF Up
    <3>. QED  BY <1>1, <2>1
  <2>3. Below(S, m) = Cardinality(Up(m))
    BY DEF Below
  <2>. HIDE DEF Up
  <2>. QED  BY <2>2, <2>3
<1>4. Cardinality(S) \in Nat
  BY FS_CardinalityType
<1>. DEFINE n == Cardinality(S)
            f == [m \in S |-> Below(S, m) + 1]
<1>5. IsFiniteSet(1 .. n) /\ Cardinality(1 .. n) = n
  BY <1>4, FS_Interval
<1>6. \A m \in S : Below(S, m) \in Nat /\ Below(S, m) + 1 \in 1 .. n
  BY <1>3, <1>4
<1>7. \A l, m \in S : Below(S, l) + 1 = Below(S, m) + 1 => l = m
  <2>1. \A l, m \in S : l = m \/ l < m \/ m < l
    OBVIOUS
  <2>. QED  BY <1>2, <1>6, <2>1
<1>8. f \in Injection(S, 1 .. n)
  BY <1>6, <1>7 DEF Injection, IsInjective
<1>. HIDE DEF f
<1>9. f \in Surjection(S, 1 .. n)
  BY <1>5, <1>8, FS_Injection
<1>10. \A k \in 1 .. n : \E m \in S : f[m] = k
  BY <1>9 DEF Surjection
<1>11. \A k \in 1 .. n : \E m \in S : Below(S, m) + 1 = k
  BY <1>10 DEF f
<1>12. ASSUME NEW k \in 0 .. Cardinality(S) - 1
       PROVE  \E m \in S : Below(S, m) = k
  <2>1. k + 1 \in 1 .. n /\ k \in Nat
    BY <1>4
  <2>2. PICK m \in S : Below(S, m) + 1 = k + 1
    BY <1>11, <2>1
  <2>. QED  BY <1>6, <2>1, <2>2
<1>. QED  BY <1>2, <1>3, <1>4, <1>12

\* A quotient is the one number of divisors that fits.
LEMMA Quotient ==
  ASSUME NEW x \in Int, NEW p \in Nat \ {0}
  PROVE  /\ x \div p \in Int
         /\ (x \div p) * p <= x /\ x < (x \div p) * p + p
         /\ \A i \in Int : i * p <= x /\ x < i * p + p => x \div p = i
<1>1. x \div p \in Int /\ (x \div p) * p <= x /\ x < (x \div p) * p + p
  OBVIOUS
<1>2. ASSUME NEW i \in Int, NEW j \in Int, i * p <= x, x < i * p + p,
             j * p <= x, x < j * p + p
      PROVE  i = j
  <2>1. (i + 1) * p = i * p + p /\ (j + 1) * p = j * p + p
    OBVIOUS
  <2>2. i * p < (j + 1) * p /\ j * p < (i + 1) * p
    BY <1>2, <2>1
  <2>3. ASSUME NEW a \in Int, NEW b \in Int, a * p < b * p  PROVE a < b
    <3>1. \A e \in Nat : e * p >= 0
      OBVIOUS
    <3>2. CASE a >= b
      <4>1. a - b \in Nat
        BY <3>2
      <4>2. (a - b) * p = a * p - b * p
        OBVIOUS
      <4>3. a * p \in Int /\ b * p \in Int
        OBVIOUS
      <4>. QED  BY <2>3, <3>1, <4>1, <4>2, <4>3
    <3>. QED  BY <3>2
  <2>4. i < j + 1 /\ j < i + 1
    BY <2>2, <2>3
  <2>. QED  BY <2>4
<1>. QED  BY ONLY <1>1, <1>2, x \in Int, p \in Nat \ {0}
=============================================================================
