--------------------------- MODULE SharingProofs ---------------------------
(***************************************************************************)
(* Proofs about a shared screen from end to end, for any number of viewers *)
(* and tiles, and any bounds.                                              *)
(***************************************************************************)
EXTENDS Sharing, SequenceTheorems, FiniteSetTheorems, TLAPS

(* Sequences of frames and of packets.                                     *)

\* A frame is not newer than another in any tile that both show.
Older(f, g) == \A t \in Tiles : Covers(f, t) /\ Covers(g, t) => f.ver[t] <= g.ver[t]
AllOlder(F, G) == \A f \in F, g \in G : Older(f, g)

Sorted(list) == \A i, j \in DOMAIN list : i < j => Older(list[i], list[j])
SortedPackets(q) ==
  /\ \A i \in DOMAIN q : Sorted(q[i])
  /\ \A i, j \in DOMAIN q : i < j => AllOlder(ToSet(q[i]), ToSet(q[j]))

\* What two lists joined contain.
LEMMA ConcatElements ==
  ASSUME NEW S, NEW s \in Seq(S), NEW t \in Seq(S)
  PROVE  s \o t \in Seq(S) /\ ToSet(s \o t) = ToSet(s) \cup ToSet(t)
<1>1. /\ s \o t \in Seq(S) /\ Len(s \o t) = Len(s) + Len(t)
      /\ Len(s) \in Nat /\ Len(t) \in Nat
      /\ DOMAIN s = 1..Len(s) /\ DOMAIN t = 1..Len(t) /\ DOMAIN (s \o t) = 1..Len(s) + Len(t)
  BY ConcatProperties, LenProperties
<1>2. \A i \in 1..Len(s) : (s \o t)[i] = s[i]
  BY <1>1, ConcatProperties
<1>3. \A i \in 1..Len(t) : (s \o t)[Len(s) + i] = t[i]
  BY <1>1, ConcatProperties
<1>4. \A i \in DOMAIN (s \o t) :
        \/ i \in DOMAIN s /\ (s \o t)[i] = s[i]
        \/ i - Len(s) \in DOMAIN t /\ (s \o t)[i] = t[i - Len(s)]
  BY <1>1, ConcatProperties
<1>5. ToSet(s \o t) \subseteq ToSet(s) \cup ToSet(t)
  BY <1>4 DEF ToSet
<1>6. ToSet(s) \subseteq ToSet(s \o t)
  <2>1. \A i \in DOMAIN s : i \in DOMAIN (s \o t)
    BY <1>1
  <2>. QED  BY <1>1, <1>2, <2>1 DEF ToSet
<1>7. ToSet(t) \subseteq ToSet(s \o t)
  <2>1. \A i \in DOMAIN t : Len(s) + i \in DOMAIN (s \o t)
    BY <1>1
  <2>. QED  BY <1>1, <1>3, <2>1 DEF ToSet
<1>. QED  BY <1>1, <1>5, <1>6, <1>7

\* Joined, two sorted lists are sorted when the second is newer.
LEMMA ConcatSorted ==
  ASSUME NEW S, NEW s \in Seq(S), NEW t \in Seq(S),
         Sorted(s), Sorted(t), AllOlder(ToSet(s), ToSet(t))
  PROVE  Sorted(s \o t)
<1>1. /\ Len(s) \in Nat /\ Len(t) \in Nat
      /\ DOMAIN s = 1..Len(s) /\ DOMAIN t = 1..Len(t) /\ DOMAIN (s \o t) = 1..Len(s) + Len(t)
  BY ConcatProperties, LenProperties
<1>2. SUFFICES ASSUME NEW i \in DOMAIN (s \o t), NEW j \in DOMAIN (s \o t), i < j
               PROVE  Older((s \o t)[i], (s \o t)[j])
  BY DEF Sorted
<1>3. i \in Int /\ j \in Int /\ 1 <= i /\ j <= Len(s) + Len(t)
  BY <1>1
<1>4. CASE j <= Len(s)
  <2>1. i \in DOMAIN s /\ j \in DOMAIN s
    BY <1>1, <1>2, <1>3, <1>4
  <2>2. (s \o t)[i] = s[i] /\ (s \o t)[j] = s[j]
    BY <1>1, <1>2, <2>1, ConcatProperties
  <2>. QED  BY <1>2, <2>1, <2>2 DEF Sorted
<1>5. CASE i > Len(s)
  <2>1. i - Len(s) \in DOMAIN t /\ j - Len(s) \in DOMAIN t /\ i - Len(s) < j - Len(s)
    BY <1>1, <1>2, <1>3, <1>5
  <2>2. (s \o t)[i] = t[i - Len(s)] /\ (s \o t)[j] = t[j - Len(s)]
    BY <1>1, <1>2, <1>3, <1>5, ConcatProperties
  <2>. QED  BY <2>1, <2>2 DEF Sorted
<1>6. CASE i <= Len(s) /\ j > Len(s)
  <2>1. i \in DOMAIN s /\ j - Len(s) \in DOMAIN t
    BY <1>1, <1>2, <1>3, <1>6
  <2>2. (s \o t)[i] = s[i] /\ (s \o t)[j] = t[j - Len(s)]
    BY <1>1, <1>2, <1>3, <1>6, ConcatProperties
  <2>. QED  BY <2>1, <2>2 DEF AllOlder, ToSet
<1>. QED  BY <1>1, <1>3, <1>4, <1>5, <1>6

\* A frame at the end of a list is one frame more of it.
LEMMA AppendElements ==
  ASSUME NEW S, NEW s \in Seq(S), NEW f \in S
  PROVE  /\ Append(s, f) \in Seq(S)
         /\ \A x : x \in ToSet(Append(s, f)) <=> x \in ToSet(s) \/ x = f
<1> DEFINE one == <<f>>
<1>1. one \in Seq(S) /\ Len(one) = 1 /\ DOMAIN one = 1..1 /\ one[1] = f
  OBVIOUS
<1>2. Append(s, f) = s \o one
  BY AppendIsConcat, Zenon
<1> HIDE DEF one
<1>3. ToSet(one) = {f}
  BY <1>1 DEF ToSet
<1>4. s \o one \in Seq(S) /\ ToSet(s \o one) = ToSet(s) \cup ToSet(one)
  BY <1>1, ConcatElements
<1>5. \A x : x \in ToSet(s \o one) <=> x \in ToSet(s) \/ x = f
  BY <1>3, <1>4
<1>. QED  BY <1>2, <1>4, <1>5, Zenon

\* A sorted list stays so with a frame at its end that none of it is newer than.
LEMMA AppendSorted ==
  ASSUME NEW S, NEW s \in Seq(S), NEW f \in S, Sorted(s), AllOlder(ToSet(s), {f})
  PROVE  Sorted(Append(s, f))
<1> DEFINE one == <<f>>
<1>1. one \in Seq(S) /\ DOMAIN one = 1..1 /\ one[1] = f
  OBVIOUS
<1>2. Append(s, f) = s \o one
  BY AppendIsConcat, Zenon
<1> HIDE DEF one
<1>3. ToSet(one) = {f} /\ Sorted(one)
  BY <1>1 DEF ToSet, Sorted
<1>4. Sorted(s \o one)
  BY <1>1, <1>3, ConcatSorted
<1>. QED  BY <1>2, <1>4, Zenon

\* The head and the rest of a list.
LEMMA TailElements ==
  ASSUME NEW S, NEW s \in Seq(S), s # <<>>
  PROVE  /\ Head(s) \in S /\ Tail(s) \in Seq(S)
         /\ Head(s) = s[1] /\ 1 \in DOMAIN s
         /\ \A i \in DOMAIN Tail(s) : i + 1 \in DOMAIN s /\ Tail(s)[i] = s[i + 1]
         /\ ToSet(s) = {Head(s)} \cup ToSet(Tail(s))
<1>1. /\ Len(s) \in Nat /\ Len(s) > 0 /\ DOMAIN s = 1..Len(s)
      /\ Head(s) \in S /\ Tail(s) \in Seq(S) /\ Len(Tail(s)) = Len(s) - 1
      /\ Head(s) = s[1]
      /\ DOMAIN Tail(s) = 1..Len(s) - 1
  <2>1. Len(s) \in Nat /\ Len(s) > 0 /\ DOMAIN s = 1..Len(s)
    BY LenProperties, EmptySeq
  <2>2. Head(s) \in S /\ Tail(s) \in Seq(S) /\ Len(Tail(s)) = Len(s) - 1
    BY HeadTailProperties
  <2>3. DOMAIN Tail(s) = 1..Len(s) - 1
    BY <2>2, LenProperties, Zenon
  <2>4. Head(s) = s[1]
    OBVIOUS
  <2>. QED  BY <2>1, <2>2, <2>3, <2>4
<1>2. \A i \in DOMAIN Tail(s) : i + 1 \in DOMAIN s /\ Tail(s)[i] = s[i + 1]
  BY <1>1, HeadTailProperties
<1>3. \A i \in DOMAIN s : i # 1 => i - 1 \in DOMAIN Tail(s) /\ s[i] = Tail(s)[i - 1]
  BY <1>1, <1>2
<1>4. ToSet(s) \subseteq {Head(s)} \cup ToSet(Tail(s))
  BY <1>1, <1>3 DEF ToSet
<1>5. {Head(s)} \cup ToSet(Tail(s)) \subseteq ToSet(s)
  BY <1>1, <1>2 DEF ToSet
<1>. QED  BY <1>1, <1>2, <1>4, <1>5

\* The rest of a sorted list is sorted, and newer than its head.
LEMMA TailSorted ==
  ASSUME NEW S, NEW s \in Seq(S), s # <<>>, Sorted(s)
  PROVE  Sorted(Tail(s)) /\ AllOlder({Head(s)}, ToSet(Tail(s)))
<1>1. Sorted(Tail(s))
  <2> SUFFICES ASSUME NEW i \in DOMAIN Tail(s), NEW j \in DOMAIN Tail(s), i < j
               PROVE  Older(Tail(s)[i], Tail(s)[j])
    BY DEF Sorted
  <2>1. i \in Int /\ j \in Int
    BY TailElements, LenProperties
  <2>2. i + 1 < j + 1
    BY <2>1
  <2>. QED  BY <2>2, TailElements DEF Sorted
<1>2. ASSUME NEW i \in DOMAIN Tail(s)  PROVE Older(Head(s), Tail(s)[i])
  <2>1. i \in Int /\ i >= 1
    BY TailElements, LenProperties
  <2>2. 1 < i + 1
    BY <2>1
  <2>. QED  BY <2>2, TailElements DEF Sorted
<1>. QED  BY <1>1, <1>2 DEF AllOlder, ToSet

\* The elements of a list and of a series of packets.
LEMMA ListElements ==
  ASSUME NEW S, NEW s \in Seq(S)
  PROVE  ToSet(s) \subseteq S
BY LenProperties, ElementOfSeq DEF ToSet

LEMMA PacketElements ==
  ASSUME NEW S, NEW q \in Seq(Seq(S))
  PROVE  InPackets(q) \subseteq S
<1>1. \A i \in DOMAIN q : q[i] \in Seq(S)
  BY LenProperties, ElementOfSeq
<1>. QED  BY <1>1, ListElements DEF InPackets

\* A packet at the end of a series.
LEMMA PacketsAppend ==
  ASSUME NEW S, NEW q \in Seq(Seq(S)), NEW p \in Seq(S)
  PROVE  /\ Append(q, p) \in Seq(Seq(S))
         /\ InPackets(Append(q, p)) = InPackets(q) \cup ToSet(p)
         /\ SortedPackets(q) /\ Sorted(p) /\ AllOlder(InPackets(q), ToSet(p))
              => SortedPackets(Append(q, p))
<1> DEFINE r == Append(q, p)
<1>1. /\ Len(q) \in Nat /\ DOMAIN q = 1..Len(q) /\ DOMAIN r = 1..Len(q) + 1
      /\ r \in Seq(Seq(S))
      /\ \A i \in DOMAIN q : i \in DOMAIN r /\ r[i] = q[i]
      /\ r[Len(q) + 1] = p
      /\ \A i \in DOMAIN r : i \in DOMAIN q \/ i = Len(q) + 1
  BY LenProperties
<1> HIDE DEF r
<1>2. InPackets(r) = InPackets(q) \cup ToSet(p)
  <2>1. InPackets(r) \subseteq InPackets(q) \cup ToSet(p)
    BY <1>1 DEF InPackets
  <2>2. InPackets(q) \subseteq InPackets(r)
    BY <1>1 DEF InPackets
  <2>3. ToSet(p) \subseteq InPackets(r)
    <3>1. Len(q) + 1 \in DOMAIN r
      BY <1>1
    <3>. QED  BY <1>1, <3>1 DEF InPackets
  <2>. QED  BY <2>1, <2>2, <2>3
<1>3. ASSUME SortedPackets(q), Sorted(p), AllOlder(InPackets(q), ToSet(p))
      PROVE  SortedPackets(r)
  <2>1. \A i \in DOMAIN r : Sorted(r[i])
    BY <1>1, <1>3 DEF SortedPackets
  <2>2. ASSUME NEW i \in DOMAIN r, NEW j \in DOMAIN r, i < j
        PROVE  AllOlder(ToSet(r[i]), ToSet(r[j]))
    <3>1. i \in DOMAIN q
      BY <1>1, <2>2
    <3>2. CASE j \in DOMAIN q
      BY <1>1, <1>3, <2>2, <3>1, <3>2 DEF SortedPackets
    <3>3. CASE j = Len(q) + 1
      <4>1. ToSet(r[i]) \subseteq InPackets(q) /\ r[j] = p
        BY <1>1, <3>1, <3>3 DEF InPackets
      <4>. QED  BY <1>3, <4>1 DEF AllOlder
    <3>. QED  BY <1>1, <3>2, <3>3
  <2>. QED  BY <2>1, <2>2 DEF SortedPackets
<1>. QED  BY <1>1, <1>2, <1>3 DEF r

\* The first packet of a series.
LEMMA PacketsTail ==
  ASSUME NEW S, NEW q \in Seq(Seq(S)), q # <<>>
  PROVE  /\ Head(q) \in Seq(S) /\ Tail(q) \in Seq(Seq(S))
         /\ InPackets(q) = ToSet(Head(q)) \cup InPackets(Tail(q))
         /\ SortedPackets(q) =>
              /\ Sorted(Head(q)) /\ SortedPackets(Tail(q))
              /\ AllOlder(ToSet(Head(q)), InPackets(Tail(q)))
<1> DEFINE r == Tail(q)
<1>1. /\ Head(q) \in Seq(S) /\ r \in Seq(Seq(S)) /\ Head(q) = q[1] /\ 1 \in DOMAIN q
      /\ \A i \in DOMAIN r : i + 1 \in DOMAIN q /\ r[i] = q[i + 1]
      /\ DOMAIN q \subseteq Int /\ DOMAIN r \subseteq Nat \ {0}
      /\ \A i \in DOMAIN q : i # 1 => i - 1 \in DOMAIN r /\ q[i] = r[i - 1]
  <2>1. /\ Head(q) \in Seq(S) /\ r \in Seq(Seq(S)) /\ Head(q) = q[1] /\ 1 \in DOMAIN q
        /\ \A i \in DOMAIN r : i + 1 \in DOMAIN q /\ r[i] = q[i + 1]
    BY TailElements
  <2>2. Len(q) \in Nat /\ DOMAIN q = 1..Len(q)
    BY LenProperties
  <2>3. Len(r) = Len(q) - 1
    BY HeadTailProperties
  <2>4. DOMAIN r = 1..Len(q) - 1
    BY <2>1, <2>3, LenProperties, Zenon
  <2> HIDE DEF r
  <2>5. \A i \in DOMAIN q : i # 1 => i - 1 \in DOMAIN r /\ q[i] = r[i - 1]
    BY <2>1, <2>2, <2>4
  <2>6. DOMAIN q \subseteq Int /\ DOMAIN r \subseteq Nat \ {0}
    BY <2>2, <2>4
  <2>. QED  BY <2>1, <2>5, <2>6
<1> HIDE DEF r
<1>2. InPackets(q) = ToSet(Head(q)) \cup InPackets(r)
  <2>1. InPackets(q) \subseteq ToSet(Head(q)) \cup InPackets(r)
    <3> SUFFICES ASSUME NEW i \in DOMAIN q
                 PROVE  ToSet(q[i]) \subseteq ToSet(Head(q)) \cup InPackets(r)
      BY DEF InPackets
    <3>1. CASE i = 1
      BY <1>1, <3>1
    <3>2. CASE i # 1
      BY <1>1, <3>2 DEF InPackets
    <3>. QED  BY <3>1, <3>2
  <2>2. ToSet(Head(q)) \cup InPackets(r) \subseteq InPackets(q)
    BY <1>1 DEF InPackets
  <2>. QED  BY <2>1, <2>2
<1>3. ASSUME SortedPackets(q)
      PROVE  /\ Sorted(Head(q)) /\ SortedPackets(r)
             /\ AllOlder(ToSet(Head(q)), InPackets(r))
  <2>1. Sorted(Head(q)) /\ \A i \in DOMAIN r : Sorted(r[i])
    BY <1>1, <1>3 DEF SortedPackets
  <2>2. ASSUME NEW i \in DOMAIN r, NEW j \in DOMAIN r, i < j
        PROVE  AllOlder(ToSet(r[i]), ToSet(r[j]))
    <3>1. i \in Int /\ j \in Int
      BY <1>1
    <3>2. i + 1 < j + 1
      BY <2>2, <3>1
    <3>. QED  BY <1>1, <1>3, <3>2 DEF SortedPackets
  <2>3. ASSUME NEW j \in DOMAIN r
        PROVE  AllOlder(ToSet(Head(q)), ToSet(r[j]))
    <3>1. 1 < j + 1
      <4>1. j \in Nat \ {0}
        BY <1>1
      <4>. QED  BY <4>1
    <3>. QED  BY <1>1, <1>3, <3>1 DEF SortedPackets
  <2>. QED  BY <2>1, <2>2, <2>3 DEF SortedPackets, InPackets, AllOlder
<1>. QED  BY <1>1, <1>2, <1>3 DEF r

-----------------------------------------------------------------------------
(* The rectangles of an area.                                              *)

\* The elements whose keys are not greater than the key of s.
UpTo(S, key, s) == {q \in S : key[q] <= key[s]}

\* In a finite set with a key for each element, every rank is somebody's.
LEMMA Ranked ==
  ASSUME NEW S, IsFiniteSet(S), NEW key \in [S -> Int],
         \A s, q \in S : key[s] = key[q] => s = q
  PROVE  /\ Cardinality(S) \in Nat
         /\ \A s \in S : /\ IsFiniteSet(UpTo(S, key, s))
                        /\ Cardinality(UpTo(S, key, s)) \in 1..Cardinality(S)
         /\ \A s, q \in S :
              Cardinality(UpTo(S, key, s)) = Cardinality(UpTo(S, key, q)) => s = q
         /\ \A k \in 1..Cardinality(S) :
              \E s \in S : Cardinality(UpTo(S, key, s)) = k
<1> DEFINE upTo(s) == UpTo(S, key, s)
<1> DEFINE n == Cardinality(S)
<1> DEFINE rank == [s \in S |-> Cardinality(upTo(s))]
<1>1. n \in Nat
  BY FS_CardinalityType
<1>2. ASSUME NEW s \in S
      PROVE  /\ upTo(s) \in SUBSET S /\ s \in upTo(s) /\ IsFiniteSet(upTo(s))
             /\ Cardinality(upTo(s)) \in 1..n
  <2>1. upTo(s) \in SUBSET S /\ s \in upTo(s)
    BY DEF UpTo
  <2> HIDE DEF upTo
  <2>2. IsFiniteSet(upTo(s)) /\ Cardinality(upTo(s)) <= n
    BY <2>1, FS_Subset
  <2>3. Cardinality(upTo(s)) \in Nat /\ Cardinality(upTo(s)) # 0
    BY <2>1, <2>2, FS_CardinalityType, FS_EmptySet
  <2>. QED  BY <1>1, <2>1, <2>2, <2>3
<1>3. ASSUME NEW s \in S, NEW q \in S, key[s] < key[q]
      PROVE  Cardinality(upTo(s)) # Cardinality(upTo(q))
  <2>1. upTo(s) \in SUBSET upTo(q) /\ q \in upTo(q) /\ q \notin upTo(s)
    BY <1>3 DEF UpTo
  <2>2. IsFiniteSet(upTo(q))
    BY <1>2
  <2> HIDE DEF upTo
  <2>. QED  BY <2>1, <2>2, FS_Subset
<1>4. ASSUME NEW s \in S, NEW q \in S, Cardinality(upTo(s)) = Cardinality(upTo(q))
      PROVE  s = q
  <2>1. ~(key[s] < key[q]) /\ ~(key[q] < key[s])
    BY <1>3, <1>4
  <2>2. key[s] = key[q]
    BY <2>1
  <2>. QED  BY <2>2
<1> HIDE DEF upTo
<1>5. rank \in Injection(S, 1..n)
  BY <1>2, <1>4 DEF Injection, IsInjective
<1> HIDE DEF rank
<1>6. IsFiniteSet(1..n) /\ Cardinality(1..n) = n
  <2>1. Cardinality(1..n) = IF 1 > n THEN 0 ELSE n - 1 + 1
    BY <1>1, FS_Interval
  <2>. QED  BY <1>1, <2>1, FS_Interval
<1>7. rank \in Surjection(S, 1..n)
  BY <1>5, <1>6, FS_Injection
<1>8. \A k \in 1..n : \E s \in S : Cardinality(upTo(s)) = k
  <2>1. \A k \in 1..n : \E s \in S : rank[s] = k
    BY <1>7 DEF Surjection
  <2>. QED  BY <2>1 DEF rank
<1>. QED  BY <1>1, <1>2, <1>4, <1>8 DEF upTo

\* The first and the last element by such a key.
LEMMA FirstAndLast ==
  ASSUME NEW S, IsFiniteSet(S), S # {}, NEW key \in [S -> Int],
         \A s, q \in S : key[s] = key[q] => s = q
  PROVE  /\ \E s \in S : \A q \in S : key[s] <= key[q]
         /\ \E s \in S : \A q \in S : key[q] <= key[s]
<1> DEFINE upTo(s) == UpTo(S, key, s)
<1> DEFINE n == Cardinality(S)
<1>2. /\ n \in Nat
      /\ \A s \in S : IsFiniteSet(upTo(s))
      /\ \A k \in 1..n : \E s \in S : Cardinality(upTo(s)) = k
  BY Ranked
<1>3. n # 0
  BY FS_EmptySet
<1>4. \E s \in S : \A q \in S : key[s] <= key[q]
  <2>1. PICK s \in S : Cardinality(upTo(s)) = 1
    BY <1>2, <1>3
  <2>2. PICK x : upTo(s) = {x}
    <3> HIDE DEF upTo
    <3>. QED  BY <1>2, <2>1, FS_Singleton
  <2>3. s \in upTo(s)
    BY DEF UpTo
  <2>4. upTo(s) = {s}
    BY <2>2, <2>3
  <2>5. \A q \in S : key[q] <= key[s] => q = s
    BY <2>4 DEF UpTo
  <2>. QED  BY <2>5
<1>5. \E s \in S : \A q \in S : key[q] <= key[s]
  <2>1. PICK s \in S : Cardinality(upTo(s)) = n
    BY <1>2, <1>3
  <2>2. upTo(s) \in SUBSET S
    BY DEF UpTo
  <2>3. upTo(s) = S
    <3> HIDE DEF upTo
    <3>. QED  BY <2>1, <2>2, FS_Subset
  <2>. QED  BY <2>3 DEF UpTo
<1>. QED  BY <1>4, <1>5

\* The least and the greatest of some numbers.
LEMMA Extremes ==
  ASSUME NEW S, S \subseteq Int, IsFiniteSet(S), S # {}
  PROVE  /\ \E s \in S : \A q \in S : s <= q
         /\ Max(S) \in S /\ \A q \in S : q <= Max(S)
<1> DEFINE key == [s \in S |-> s]
<1>1. key \in [S -> Int] /\ \A s, q \in S : key[s] = key[q] => s = q
  OBVIOUS
<1>2. /\ \E s \in S : \A q \in S : key[s] <= key[q]
      /\ \E s \in S : \A q \in S : key[q] <= key[s]
  <2> HIDE DEF key
  <2>. QED  BY <1>1, FirstAndLast, Zenon
<1>3. \E s \in S : \A q \in S : s >= q
  BY <1>2
<1>4. Max(S) \in S /\ \A q \in S : Max(S) >= q
  BY <1>3 DEF Max
<1>. QED  BY <1>2, <1>4

-----------------------------------------------------------------------------
(* What the steps do to the frames under way.                              *)

\* A detector queues a frame.
Queue == \E first, last \in Tiles : AddServerFrame(first, last)

\* The fields of a frame.
LEMMA FrameFields ==
  ASSUME NEW f \in Frames
  PROVE  /\ f.left \in Tiles /\ f.right \in Tiles /\ f.left <= f.right
         /\ \A t : Covers(f, t) => t \in Tiles /\ f.ver[t] \in 1..MaxVer
<1>1. PICK i \in Tiles \X Tiles :
        /\ i[1] <= i[2]
        /\ f \in [left : {i[1]}, right : {i[2]}, ver : [i[1]..i[2] -> 1..MaxVer]]
  BY DEF Frames
<1>2. f.left = i[1] /\ f.right = i[2] /\ f.ver \in [f.left..f.right -> 1..MaxVer]
  BY <1>1
<1>3. f.left \in Tiles /\ f.right \in Tiles
  BY <1>1, <1>2
<1>4. \A t : Covers(f, t) => t \in Tiles
  BY <1>3, SharingAssumption DEF Covers, Tiles
<1>. QED  BY <1>1, <1>2, <1>3, <1>4 DEF Covers

\* Its numbers are the next ones of its tiles.
LEMMA NewFrame ==
  ASSUME TypeOK, NEW first \in Tiles, NEW last \in Tiles, AddServerFrame(first, last)
  PROVE  /\ Frame(first, last) \in Frames
         /\ sent' \in [Tiles -> 0..MaxVer]
         /\ \A t \in Tiles : /\ Covers(Frame(first, last), t) <=> t \in first..last
                             /\ t \in first..last => sent'[t] = sent[t] + 1
                             /\ t \notin first..last => sent'[t] = sent[t]
         /\ \A t \in Tiles : Covers(Frame(first, last), t) =>
                               Frame(first, last).ver[t] = sent'[t]
<1>1. /\ Frame(first, last).left = first /\ Frame(first, last).right = last
      /\ Frame(first, last).ver = [t \in first..last |-> sent[t] + 1]
      /\ Frame(first, last) = [left |-> first, right |-> last, ver |-> Frame(first, last).ver]
  BY DEF Frame
<1>2. /\ first <= last /\ \A t \in first..last : t \in Tiles
      /\ \A t \in first..last : sent[t] \in 0..MaxVer /\ sent[t] < MaxVer
      /\ MaxVer \in Nat
  BY SharingAssumption DEF Tiles, AddServerFrame, TypeOK
<1>3. \A t \in first..last : sent[t] + 1 \in 1..MaxVer /\ sent[t] + 1 \in 0..MaxVer
  BY <1>2
<1>4. Frame(first, last).ver \in [first..last -> 1..MaxVer]
  BY <1>1, <1>3
<1>5. Frame(first, last) \in [left : {first}, right : {last}, ver : [first..last -> 1..MaxVer]]
  BY <1>1, <1>4
<1>6. Frame(first, last) \in Frames
  <2>1. /\ <<first, last>> \in Tiles \X Tiles
        /\ <<first, last>>[1] = first /\ <<first, last>>[2] = last
    OBVIOUS
  <2>. QED  BY <1>2, <1>5, <2>1 DEF Frames
<1>7. \A t \in Tiles : /\ t \in first..last => sent'[t] = sent[t] + 1
                       /\ t \notin first..last => sent'[t] = sent[t]
  BY DEF AddServerFrame
<1>8. sent' \in [Tiles -> 0..MaxVer]
  BY <1>3 DEF AddServerFrame, TypeOK
<1>9. \A t \in Tiles : Covers(Frame(first, last), t) <=> t \in first..last
  BY <1>1 DEF Covers
<1>10. \A t \in Tiles : Covers(Frame(first, last), t) =>
                          Frame(first, last).ver[t] = sent'[t]
  BY <1>1, <1>7, <1>9
<1>. QED  BY <1>6, <1>7, <1>8, <1>9, <1>10

\* The newest number is one of those it is taken from, and none is newer.
LEMMA OverNewest ==
  ASSUME NEW old \in [Tiles -> 0..MaxVer], NEW packet \in Seq(Frames)
  PROVE  /\ Over(old, packet) \in [Tiles -> 0..MaxVer]
         /\ \A t \in Tiles :
              /\ Over(old, packet)[t] >= old[t]
              /\ \A f \in ToSet(packet) : Covers(f, t) => Over(old, packet)[t] >= f.ver[t]
              /\ \/ Over(old, packet)[t] = old[t]
                 \/ \E f \in ToSet(packet) : Covers(f, t) /\ Over(old, packet)[t] = f.ver[t]
<1> DEFINE shown(t) == {f.ver[t] : f \in {g \in ToSet(packet) : Covers(g, t)}}
<1> DEFINE vs(t) == {old[t]} \cup shown(t)
<1>1. ToSet(packet) \subseteq Frames
  BY LenProperties, ElementOfSeq DEF ToSet
<1>2. \A t \in Tiles : vs(t) \subseteq 0..MaxVer /\ vs(t) # {}
  <2>1. \A t \in Tiles : shown(t) \subseteq 1..MaxVer
    BY <1>1, FrameFields
  <2>2. 1..MaxVer \subseteq 0..MaxVer
    BY SharingAssumption
  <2> HIDE DEF shown
  <2>. QED  BY <2>1, <2>2
<1>3. IsFiniteSet(0..MaxVer) /\ 0..MaxVer \subseteq Int
  BY SharingAssumption, FS_Interval
<1>4. \A t \in Tiles : Max(vs(t)) \in vs(t) /\ \A x \in vs(t) : x <= Max(vs(t))
  <2> HIDE DEF vs
  <2> SUFFICES ASSUME NEW t \in Tiles
               PROVE  Max(vs(t)) \in vs(t) /\ \A x \in vs(t) : x <= Max(vs(t))
    OBVIOUS
  <2>1. IsFiniteSet(vs(t)) /\ vs(t) \subseteq Int /\ vs(t) # {}
    BY <1>2, <1>3, FS_Subset
  <2>. QED  BY <2>1, Extremes
<1>5. Over(old, packet) = [t \in Tiles |-> Max(vs(t))]
  BY DEF Over
<1> DEFINE o == Over(old, packet)
<1>6. \A t \in Tiles : o[t] \in vs(t) /\ \A x \in vs(t) : x <= o[t]
  <2> HIDE DEF vs
  <2>. QED  BY <1>4, <1>5
<1>7. o \in [Tiles -> 0..MaxVer]
  <2> HIDE DEF vs
  <2>. QED  BY <1>2, <1>4, <1>5
<1> HIDE DEF o
<1>8. ASSUME NEW t \in Tiles
      PROVE  /\ o[t] >= old[t]
             /\ \A f \in ToSet(packet) : Covers(f, t) => o[t] >= f.ver[t]
             /\ \/ o[t] = old[t]
                \/ \E f \in ToSet(packet) : Covers(f, t) /\ o[t] = f.ver[t]
  <2>1. /\ old[t] \in vs(t)
        /\ \A f \in ToSet(packet) : Covers(f, t) => f.ver[t] \in vs(t)
    OBVIOUS
  <2>2. /\ \A x \in vs(t) : x <= o[t]
        /\ vs(t) \subseteq Int /\ o[t] \in Int
    BY <1>2, <1>3, <1>6
  <2>3. o[t] \in vs(t)
    BY <1>6
  <2>4. \/ o[t] = old[t]
        \/ \E f \in ToSet(packet) : Covers(f, t) /\ o[t] = f.ver[t]
    BY <2>3
  <2> HIDE DEF vs
  <2>. QED  BY <2>1, <2>2, <2>4
<1>. QED  BY <1>7, <1>8 DEF o

\* A frame lengthens the list of the frame thread.
LEMMA UpdateFlow ==
  ASSUME TypeOK, Queue
  PROVE  \E f \in Frames :
           /\ serverList' = Append(serverList, f) /\ serverList' \in Seq(Frames)
           /\ ToSet(serverList') = ToSet(serverList) \cup {f}
           /\ \A t \in Tiles : Covers(f, t) => f.ver[t] = sent'[t]
           /\ \A t \in Tiles : ~Covers(f, t) => sent'[t] = sent[t]
           /\ sent' \in [Tiles -> 0..MaxVer]
           /\ UNCHANGED <<handler, serverRoom, relay, link, viewer>>
<1>1. PICK first \in Tiles, last \in Tiles : AddServerFrame(first, last)
  BY DEF Queue
<1>2. PICK f \in Frames : f = Frame(first, last)
  BY <1>1, NewFrame
<1>3. /\ \A t \in Tiles : Covers(f, t) => f.ver[t] = sent'[t]
      /\ \A t \in Tiles : ~Covers(f, t) => sent'[t] = sent[t]
      /\ sent' \in [Tiles -> 0..MaxVer]
  BY <1>1, <1>2, NewFrame
<1>4. serverList' = Append(serverList, f) /\ serverList \in Seq(Frames)
  BY <1>1, <1>2 DEF AddServerFrame, TypeOK
<1>5. /\ serverList' \in Seq(Frames) /\ ToSet(serverList') = ToSet(serverList) \cup {f}
  <2>1. /\ Append(serverList, f) \in Seq(Frames)
        /\ ToSet(Append(serverList, f)) = ToSet(serverList) \cup {f}
    <3>1. serverList \in Seq(Frames) /\ f \in Frames
      BY <1>4
    <3>2. Append(serverList, f) \in Seq(Frames)
      BY <3>1, AppendElements
    <3>3. \A x : x \in ToSet(Append(serverList, f)) <=> x \in ToSet(serverList) \/ x = f
      BY <3>1, AppendElements
    <3>. QED  BY <3>2, <3>3
  <2>. QED  BY <1>4, <2>1, Zenon
<1>6. UNCHANGED <<handler, serverRoom, relay, link, viewer>>
  BY <1>1 DEF AddServerFrame
<1>. QED  BY <1>3, <1>4, <1>5, <1>6

\* updateServer makes a packet of the list.
LEMMA ServerFlow ==
  ASSUME TypeOK, UpdateServer
  PROVE  /\ up' = Append(up, serverList) /\ up' \in Seq(Seq(Frames))
         /\ serverList' = <<>> /\ serverList' \in Seq(Frames)
         /\ InPackets(up') = InPackets(up) \cup ToSet(serverList)
         /\ ToSet(serverList') = {}
<1>1. up' = Append(up, serverList) /\ serverList' = <<>>
  BY DEF UpdateServer, Packed
<1>2. up \in Seq(Seq(Frames)) /\ serverList \in Seq(Frames)
  BY DEF TypeOK
<1>3. up' \in Seq(Seq(Frames)) /\ InPackets(up') = InPackets(up) \cup ToSet(serverList)
  BY <1>1, <1>2, PacketsAppend
<1>4. serverList' \in Seq(Frames) /\ ToSet(serverList') = {}
  BY <1>1 DEF ToSet
<1>. QED  BY <1>1, <1>3, <1>4

\* The relay moves the oldest packet on, or drops it.
LEMMA SyncFlow ==
  ASSUME TypeOK, FrameSync
  PROVE  /\ up # <<>> /\ Head(up) \in Seq(Frames) /\ up' = Tail(up) /\ up' \in Seq(Seq(Frames))
         /\ InPackets(up) = ToSet(Head(up)) \cup InPackets(up')
         /\ \A v \in Viewers :
              /\ down[v] \in Seq(Seq(Frames)) /\ down'[v] \in Seq(Seq(Frames))
              /\ v \in room => /\ down'[v] = Append(down[v], Head(up))
                               /\ InPackets(down'[v]) = InPackets(down[v]) \cup ToSet(Head(up))
                               /\ lost'[v] = lost[v]
              /\ v \notin room => /\ down'[v] = down[v]
                                  /\ lost'[v] = Over(lost[v], Head(up))
<1>1. up # <<>> /\ up' = Tail(up) /\ up \in Seq(Seq(Frames))
  BY DEF FrameSync, TypeOK
<1>2. /\ Head(up) \in Seq(Frames) /\ up' \in Seq(Seq(Frames))
      /\ InPackets(up) = ToSet(Head(up)) \cup InPackets(up')
  BY <1>1, PacketsTail
<1>3. ASSUME NEW v \in Viewers
      PROVE  /\ down[v] \in Seq(Seq(Frames))
             /\ v \in room => down'[v] = Append(down[v], Head(up)) /\ lost'[v] = lost[v]
             /\ v \notin room => down'[v] = down[v] /\ lost'[v] = Over(lost[v], Head(up))
  BY DEF FrameSync, TypeOK
<1>4. ASSUME NEW v \in Viewers, v \in room
      PROVE  /\ down'[v] \in Seq(Seq(Frames))
             /\ InPackets(down'[v]) = InPackets(down[v]) \cup ToSet(Head(up))
  <2>1. /\ Append(down[v], Head(up)) \in Seq(Seq(Frames))
        /\ InPackets(Append(down[v], Head(up))) = InPackets(down[v]) \cup ToSet(Head(up))
    BY <1>2, <1>3, PacketsAppend
  <2>2. down'[v] = Append(down[v], Head(up))
    BY <1>3, <1>4
  <2>. QED  BY <2>1, <2>2, Zenon
<1>5. ASSUME NEW v \in Viewers  PROVE down'[v] \in Seq(Seq(Frames))
  BY <1>3, <1>4
<1>. QED  BY <1>1, <1>2, <1>3, <1>4, <1>5, Zenon

\* A packet that came is for the window, or dropped.
LEMMA ClientFlow ==
  ASSUME TypeOK, NEW v \in Viewers, OnFrameSync(v)
  PROVE  /\ down[v] # <<>> /\ Head(down[v]) \in Seq(Frames)
         /\ down[v] \in Seq(Seq(Frames)) /\ clientList[v] \in Seq(Frames)
         /\ down' = [down EXCEPT ![v] = Tail(down[v])]
         /\ down'[v] = Tail(down[v]) /\ down'[v] \in Seq(Seq(Frames))
         /\ InPackets(down[v]) = ToSet(Head(down[v])) \cup InPackets(down'[v])
         /\ v \in window =>
              /\ clientList' = [clientList EXCEPT ![v] = clientList[v] \o Head(down[v])]
              /\ clientList'[v] = clientList[v] \o Head(down[v])
              /\ clientList'[v] \in Seq(Frames)
              /\ ToSet(clientList'[v]) = ToSet(clientList[v]) \cup ToSet(Head(down[v]))
              /\ reached' = [reached EXCEPT ![v] = Over(reached[v], Head(down[v]))]
              /\ lost' = lost
         /\ v \notin window =>
              /\ clientList' = clientList /\ reached' = reached
              /\ lost' = [lost EXCEPT ![v] = Over(lost[v], Head(down[v]))]
<1>1. /\ down[v] # <<>> /\ down[v] \in Seq(Seq(Frames)) /\ clientList[v] \in Seq(Frames)
      /\ down' = [down EXCEPT ![v] = Tail(down[v])] /\ down'[v] = Tail(down[v])
  BY DEF OnFrameSync, TypeOK
<1>2. /\ Head(down[v]) \in Seq(Frames) /\ down'[v] \in Seq(Seq(Frames))
      /\ InPackets(down[v]) = ToSet(Head(down[v])) \cup InPackets(down'[v])
  BY <1>1, PacketsTail
<1>3. CASE v \in window
  <2>1. /\ clientList' = [clientList EXCEPT ![v] = clientList[v] \o Head(down[v])]
        /\ clientList'[v] = clientList[v] \o Head(down[v])
        /\ reached' = [reached EXCEPT ![v] = Over(reached[v], Head(down[v]))]
        /\ lost' = lost
    BY <1>3 DEF OnFrameSync, TypeOK, Unpacked
  <2>2. /\ clientList[v] \o Head(down[v]) \in Seq(Frames)
        /\ ToSet(clientList[v] \o Head(down[v])) = ToSet(clientList[v]) \cup ToSet(Head(down[v]))
    BY <1>1, <1>2, ConcatElements
  <2>3. /\ clientList'[v] \in Seq(Frames)
        /\ ToSet(clientList'[v]) = ToSet(clientList[v]) \cup ToSet(Head(down[v]))
    BY <2>1, <2>2, Zenon
  <2>. QED  BY <1>1, <1>2, <1>3, <2>1, <2>3
<1>4. CASE v \notin window
  <2>1. /\ clientList' = clientList /\ reached' = reached
        /\ lost' = [lost EXCEPT ![v] = Over(lost[v], Head(down[v]))]
    BY <1>4 DEF OnFrameSync
  <2>. QED  BY <1>1, <1>2, <1>4, <2>1
<1>. QED  BY <1>3, <1>4

\* The oldest frame that came is drawn.
LEMMA DrawFlow ==
  ASSUME TypeOK, NEW v \in Viewers, DrawFrame(v)
  PROVE  /\ clientList[v] # <<>> /\ clientList[v] \in Seq(Frames)
         /\ Head(clientList[v]) \in Frames
         /\ clientList' = [clientList EXCEPT ![v] = Tail(clientList[v])]
         /\ clientList'[v] = Tail(clientList[v]) /\ clientList'[v] \in Seq(Frames)
         /\ ToSet(clientList[v]) = {Head(clientList[v])} \cup ToSet(clientList'[v])
<1>1. /\ clientList[v] # <<>> /\ clientList[v] \in Seq(Frames)
      /\ clientList' = [clientList EXCEPT ![v] = Tail(clientList[v])]
      /\ clientList'[v] = Tail(clientList[v])
  BY DEF DrawFrame, TypeOK
<1>2. /\ Head(clientList[v]) \in Frames /\ clientList'[v] \in Seq(Frames)
      /\ ToSet(clientList[v]) = {Head(clientList[v])} \cup ToSet(clientList'[v])
  BY <1>1, TailElements
<1>. QED  BY <1>1, <1>2

\* Only a detector adds a frame to those under way to a viewer or come, with
\* the newest numbers.
LEMMA NoOtherFrames ==
  ASSUME TypeOK, Next, NEW v \in Viewers
  PROVE  \A f \in OnWay(v)' \cup Arrived(v)' :
           \/ f \in OnWay(v) \cup Arrived(v)
           \/ /\ Queue /\ f \in Frames
              /\ \A t \in Tiles : Covers(f, t) => f.ver[t] = sent'[t]
<1> USE DEF OnWay, Arrived
<1>1. CASE Queue
  <2>1. PICK new \in Frames :
          /\ ToSet(serverList') = ToSet(serverList) \cup {new}
          /\ \A t \in Tiles : Covers(new, t) => new.ver[t] = sent'[t]
          /\ UNCHANGED <<handler, serverRoom, relay, link, viewer>>
    BY <1>1, UpdateFlow
  <2>2. up' = up /\ down' = down /\ clientList' = clientList
    BY <2>1 DEF relay, link, viewer
  <2>. QED  BY <1>1, <2>1, <2>2
<1>2. CASE UpdateServer
  <2>1. down' = down /\ clientList' = clientList
    BY <1>2 DEF UpdateServer, link, viewer
  <2>. QED  BY <1>2, <2>1, ServerFlow
<1>3. CASE FrameSync
  <2>1. serverList' = serverList /\ clientList' = clientList
    BY <1>3 DEF FrameSync, sharer
  <2>. QED  BY <1>3, <2>1, SyncFlow
<1>4. ASSUME NEW w \in Viewers, OnFrameSync(w)
      PROVE  \A f \in OnWay(v)' \cup Arrived(v)' : f \in OnWay(v) \cup Arrived(v)
  <2>1. serverList' = serverList /\ up' = up
    BY <1>4 DEF OnFrameSync, sharer, relay
  <2>2. CASE v = w
    BY <1>4, <2>1, <2>2, ClientFlow
  <2>3. CASE v # w
    <3>1. clientList'[v] = clientList[v] /\ down'[v] = down[v]
      BY <1>4, <2>3 DEF OnFrameSync, TypeOK
    <3>. QED  BY <2>1, <3>1
  <2>. QED  BY <2>2, <2>3
<1>5. ASSUME NEW w \in Viewers, DrawFrame(w)
      PROVE  \A f \in OnWay(v)' \cup Arrived(v)' : f \in OnWay(v) \cup Arrived(v)
  <2>1. serverList' = serverList /\ up' = up /\ down' = down
    BY <1>5 DEF DrawFrame, sharer, relay, link
  <2>2. CASE v = w
    BY <1>5, <2>1, <2>2, DrawFlow
  <2>3. CASE v # w
    <3>1. clientList'[v] = clientList[v]
      BY <1>5, <2>3 DEF DrawFrame, TypeOK
    <3>. QED  BY <2>1, <3>1
  <2>. QED  BY <2>2, <2>3
<1>6. ASSUME serverList' = serverList, up' = up, down' = down, clientList' = clientList
      PROVE  OnWay(v)' = OnWay(v) /\ Arrived(v)' = Arrived(v)
  BY <1>6
<1>7. \/ Queue \/ UpdateServer \/ FrameSync
      \/ \E w \in Viewers : OnFrameSync(w) \/ DrawFrame(w)
      \/ serverList' = serverList /\ up' = up /\ down' = down /\ clientList' = clientList
  BY DEF Next, Deliver, Queue, OnBuildRetServer, OnUnbuildRetServer, BuildReq, UnbuildReq,
         OnBuildRetClient, ViewerClose, sharer, relay, link, viewer
<1>. QED  BY <1>1, <1>2, <1>3, <1>4, <1>5, <1>6, <1>7
-----------------------------------------------------------------------------
(* Types.                                                                  *)

\* A tile's count of frames only grows, and only by a detector.
LEMMA SentGrows ==
  ASSUME TypeOK, [Next]_vars
  PROVE  /\ \A t \in Tiles : /\ sent[t] \in 0..MaxVer /\ sent'[t] \in 0..MaxVer
                             /\ sent[t] <= sent'[t]
         /\ Queue \/ sent' = sent
         /\ sent' \in [Tiles -> 0..MaxVer]
<1>1. CASE Queue
  <2>1. PICK first \in Tiles, last \in Tiles : AddServerFrame(first, last)
    BY <1>1 DEF Queue
  <2>2. /\ sent' \in [Tiles -> 0..MaxVer]
        /\ \A t \in Tiles : /\ t \in first..last => sent'[t] = sent[t] + 1
                            /\ t \notin first..last => sent'[t] = sent[t]
    BY <2>1, NewFrame
  <2>3. \A t \in Tiles : /\ sent[t] \in 0..MaxVer /\ sent'[t] \in 0..MaxVer
                         /\ sent[t] <= sent'[t]
    <3> SUFFICES ASSUME NEW t \in Tiles
                 PROVE  /\ sent[t] \in 0..MaxVer /\ sent'[t] \in 0..MaxVer
                        /\ sent[t] <= sent'[t]
      OBVIOUS
    <3>1. sent[t] \in 0..MaxVer /\ sent'[t] \in 0..MaxVer
      BY <2>2 DEF TypeOK
    <3>2. sent'[t] = sent[t] + 1 \/ sent'[t] = sent[t]
      BY <2>2
    <3>3. sent[t] \in Int
      BY <3>1
    <3>. QED  BY <3>1, <3>2, <3>3
  <2>. QED  BY <1>1, <2>2, <2>3
<1>2. CASE sent' = sent
  BY <1>2, SharingAssumption DEF TypeOK
<1>. QED  BY <1>1, <1>2 DEF Next, Deliver, Queue, UpdateServer, OnBuildRetServer,
       OnUnbuildRetServer, FrameSync, BuildReq, UnbuildReq, OnBuildRetClient, OnFrameSync,
       DrawFrame, ViewerClose, sharer, vars

\* Frames have numbers that have been given: those of a new frame are the
\* newest, and the counts only grow.
LEMMA FramesOK ==
  ASSUME TypeOK, Next, NEW v \in Viewers, NEW f \in OnWay(v)' \cup Arrived(v)'
  PROVE  FrameOK(f)'
<1>1. \A t \in Tiles : sent[t] \in Int /\ sent'[t] \in Int /\ sent[t] <= sent'[t]
  BY SentGrows, SharingAssumption
<1>2. \A t \in Tiles : Covers(f, t) => f.ver[t] <= sent'[t] /\ f.ver[t] \in Int
  <2>1. CASE f \in OnWay(v) \cup Arrived(v)
    <3>1. FrameOK(f)
      BY <2>1 DEF TypeOK
    <3>2. f \in Frames
      <4>1. /\ serverList \in Seq(Frames) /\ up \in Seq(Seq(Frames))
            /\ down[v] \in Seq(Seq(Frames)) /\ clientList[v] \in Seq(Frames)
        BY DEF TypeOK
      <4>. QED  BY <2>1, <4>1, ListElements, PacketElements DEF OnWay, Arrived
    <3>. QED  BY <1>1, <3>1, <3>2, FrameFields DEF FrameOK
  <2>2. CASE \A t \in Tiles : Covers(f, t) => f.ver[t] = sent'[t]
    BY <1>1, <2>2
  <2>. QED  BY <2>1, <2>2, NoOtherFrames
<1>. QED  BY <1>2 DEF FrameOK, Covers

LEMMA TypeInit == Init => TypeOK
<1> SUFFICES ASSUME Init  PROVE TypeOK
  OBVIOUS
<1>1. /\ serverList = <<>> /\ up = <<>> /\ control = <<>>
      /\ \A v \in Viewers : down[v] = <<>> /\ clientList[v] = <<>>
  BY DEF Init
<1>2. \A v \in Viewers : OnWay(v) \cup Arrived(v) = {}
  BY <1>1 DEF OnWay, Arrived, InPackets, ToSet
<1>3. /\ serverList \in Seq(Frames) /\ up \in Seq(Seq(Frames))
      /\ control \in Seq([cmd : {"BUILD_RET", "UNBUILD_RET"}, viewer : Viewers])
  BY <1>1
<1>4. /\ down \in [Viewers -> Seq(Seq(Frames))]
      /\ clientList \in [Viewers -> Seq(Frames)]
  BY DEF Init
<1>5. /\ 0 \in 0..MaxVer /\ 0 \in 0..MaxJoins /\ 0 \in 0..Width
  BY SharingAssumption
<1>6. /\ Blank \in [Tiles -> 0..MaxVer]
  BY <1>5 DEF Blank
<1>7. /\ picture \in Pictures /\ reached \in Pictures /\ lost \in Pictures
  BY <1>6 DEF Init, Pictures
<1>8. sent \in [Tiles -> 0..MaxVer]
  BY <1>6 DEF Init
<1>9. pixmap \in [Viewers -> 0..Width] /\ joins \in 0..MaxJoins
  BY <1>5 DEF Init
<1>10. /\ handler = FALSE
       /\ serverRoom = {} /\ room = {} /\ built = {} /\ closing = {} /\ window = {}
  BY DEF Init
<1>. QED  BY <1>2, <1>3, <1>4, <1>7, <1>8, <1>9, <1>10 DEF TypeOK

LEMMA TypeNext == TypeOK /\ [Next]_vars => TypeOK'
<1> SUFFICES ASSUME TypeOK, [Next]_vars  PROVE TypeOK'
  OBVIOUS
<1> DEFINE Controls == [cmd : {"BUILD_RET", "UNBUILD_RET"}, viewer : Viewers]
<1> DEFINE sides == <<sent, handler>>
<1> DEFINE rooms == <<serverRoom, control, room, built, closing, window, joins>>
<1> DEFINE lists == <<serverList, up, down, clientList>>
<1> DEFINE SidesOK ==
             /\ sent \in [Tiles -> 0..MaxVer] /\ handler \in BOOLEAN
<1> DEFINE RoomsOK ==
             /\ control \in Seq(Controls)
             /\ \A S \in {serverRoom, room, built, closing, window} : S \subseteq Viewers
             /\ joins \in 0..MaxJoins
<1> DEFINE ListsOK ==
             /\ serverList \in Seq(Frames) /\ up \in Seq(Seq(Frames))
             /\ down \in [Viewers -> Seq(Seq(Frames))]
             /\ clientList \in [Viewers -> Seq(Frames)]
<1> DEFINE PicturesOK ==
             /\ pixmap \in [Viewers -> 0..Width]
             /\ picture \in Pictures /\ reached \in Pictures /\ lost \in Pictures
<1> DEFINE FramesShown == \A v \in Viewers : \A f \in OnWay(v) \cup Arrived(v) : FrameOK(f)
<1>1. TypeOK <=> SidesOK /\ RoomsOK /\ ListsOK /\ PicturesOK /\ FramesShown
  BY DEF TypeOK
<1>2. TypeOK' <=> SidesOK' /\ RoomsOK' /\ ListsOK' /\ PicturesOK' /\ FramesShown'
  BY DEF TypeOK
<1>3. SidesOK /\ RoomsOK /\ ListsOK /\ PicturesOK
  BY <1>1
<1>4. CASE UNCHANGED vars
  BY <1>4 DEF TypeOK, vars, sharer, relay, link, viewer, OnWay, Arrived, FrameOK
<1>5. CASE Next
  <2>1. FramesShown'
    BY <1>5, FramesOK
  <2>2. SidesOK'
    <3>1. CASE UNCHANGED sides
      BY <1>3, <3>1
    <3>2. CASE Queue
      BY <1>3, <3>2, UpdateFlow
    <3>3. CASE OnBuildRetServer \/ OnUnbuildRetServer
      BY <1>3, <3>3 DEF OnBuildRetServer, OnUnbuildRetServer
    <3>. QED  BY <1>5, <3>1, <3>2, <3>3 DEF Next, Deliver, Queue, UpdateServer, FrameSync,
           BuildReq, UnbuildReq, OnBuildRetClient, OnFrameSync, DrawFrame, ViewerClose, sharer
  <2>3. RoomsOK'
    <3>1. CASE UNCHANGED rooms
      BY <1>3, <3>1
    <3>2. CASE OnBuildRetServer \/ OnUnbuildRetServer
      <4>1. control # <<>> /\ control' = Tail(control)
        BY <3>2 DEF OnBuildRetServer, OnUnbuildRetServer
      <4>2. Head(control) \in Controls /\ control' \in Seq(Controls)
        <5> HIDE DEF Controls
        <5>. QED  BY <1>3, <4>1, TailElements
      <4>3. serverRoom' \subseteq Viewers
        BY <1>3, <3>2, <4>2 DEF OnBuildRetServer, OnUnbuildRetServer, RoomsLeft
      <4>4. UNCHANGED <<room, built, closing, window, joins>>
        BY <3>2 DEF OnBuildRetServer, OnUnbuildRetServer, link, viewer
      <4>. QED  BY <1>3, <4>2, <4>3, <4>4
    <3>3. ASSUME NEW v \in Viewers, BuildReq(v)  PROVE RoomsOK'
      <4>1. control' \in Seq(Controls)
        BY <1>3, <3>3 DEF BuildReq
      <4>2. joins' \in 0..MaxJoins
        BY <1>3, <3>3, SharingAssumption DEF BuildReq
      <4>. QED  BY <1>3, <3>3, <4>1, <4>2 DEF BuildReq, sharer, viewer
    <3>4. ASSUME NEW v \in Viewers, UnbuildReq(v)  PROVE RoomsOK'
      <4>1. control' \in Seq(Controls)
        BY <1>3, <3>4 DEF UnbuildReq
      <4>. QED  BY <1>3, <3>4, <4>1 DEF UnbuildReq, sharer, viewer
    <3>5. ASSUME NEW v \in Viewers, OnBuildRetClient(v)  PROVE RoomsOK'
      BY <1>3, <3>5 DEF OnBuildRetClient, sharer, relay
    <3>6. ASSUME NEW v \in Viewers, ViewerClose(v)  PROVE RoomsOK'
      BY <1>3, <3>6 DEF ViewerClose, sharer, relay
    <3>. QED  BY <1>5, <3>1, <3>2, <3>3, <3>4, <3>5, <3>6 DEF Next, Deliver, AddServerFrame,
           UpdateServer, FrameSync, OnFrameSync, DrawFrame, sharer, relay, link, viewer
  <2>4. ListsOK'
    <3>1. CASE UNCHANGED lists
      BY <1>3, <3>1
    <3>2. CASE Queue
      BY <1>3, <3>2, UpdateFlow DEF relay, link, viewer
    <3>3. CASE UpdateServer
      BY <1>3, <3>3, ServerFlow DEF UpdateServer, link, viewer
    <3>4. CASE FrameSync
      <4>1. down' \in [Viewers -> Seq(Seq(Frames))]
        <5>1. down' = [v \in Viewers |-> down'[v]]
          BY <3>4 DEF FrameSync
        <5>. QED  BY <3>4, <5>1, SyncFlow
      <4>. QED  BY <1>3, <3>4, <4>1, SyncFlow DEF FrameSync, sharer
    <3>5. ASSUME NEW v \in Viewers, OnFrameSync(v)  PROVE ListsOK'
      <4>1. serverList' = serverList /\ up' = up
        BY <3>5 DEF OnFrameSync, sharer, relay
      <4>2. down' \in [Viewers -> Seq(Seq(Frames))]
        BY <1>3, <3>5, ClientFlow
      <4>3. clientList' \in [Viewers -> Seq(Frames)]
        BY <1>3, <3>5, ClientFlow
      <4>. QED  BY <1>3, <4>1, <4>2, <4>3
    <3>6. ASSUME NEW v \in Viewers, DrawFrame(v)  PROVE ListsOK'
      BY <1>3, <3>6, DrawFlow DEF DrawFrame, sharer, relay, link
    <3>. QED  BY <1>5, <3>1, <3>2, <3>3, <3>4, <3>5, <3>6 DEF Next, Deliver, Queue,
           OnBuildRetServer, OnUnbuildRetServer, BuildReq, UnbuildReq, OnBuildRetClient,
           ViewerClose, sharer, relay, link, viewer
  <2>5. PicturesOK'
    <3>1. CASE UNCHANGED <<pixmap, picture, reached, lost>>
      BY <1>3, <3>1
    <3>2. CASE FrameSync
      <4>1. \A v \in Viewers : lost'[v] \in [Tiles -> 0..MaxVer]
        <5>1. \A v \in Viewers : lost[v] \in [Tiles -> 0..MaxVer]
          BY <1>3 DEF Pictures
        <5>2. \A v \in Viewers : Over(lost[v], Head(up)) \in [Tiles -> 0..MaxVer]
          BY <3>2, <5>1, SyncFlow, OverNewest
        <5>. QED  BY <3>2, <5>1, <5>2, SyncFlow
      <4>2. lost' \in Pictures
        <5>1. lost' = [v \in Viewers |-> lost'[v]]
          BY <3>2 DEF FrameSync
        <5>. QED  BY <4>1, <5>1 DEF Pictures
      <4>. QED  BY <1>3, <3>2, <4>2 DEF FrameSync
    <3>3. ASSUME NEW v \in Viewers, OnBuildRetClient(v)  PROVE PicturesOK'
      <4>1. 0 \in 0..Width /\ Blank \in [Tiles -> 0..MaxVer]
        BY SharingAssumption DEF Blank
      <4>. QED  BY <1>3, <3>3, <4>1 DEF OnBuildRetClient, Pictures
    <3>4. ASSUME NEW v \in Viewers, OnFrameSync(v)  PROVE PicturesOK'
      <4>1. /\ Over(lost[v], Head(down[v])) \in [Tiles -> 0..MaxVer]
            /\ Over(reached[v], Head(down[v])) \in [Tiles -> 0..MaxVer]
        <5>1. lost[v] \in [Tiles -> 0..MaxVer] /\ reached[v] \in [Tiles -> 0..MaxVer]
          BY <1>3 DEF Pictures
        <5>. QED  BY <3>4, <5>1, ClientFlow, OverNewest
      <4>2. lost' \in Pictures /\ reached' \in Pictures
        <5>1. \/ lost' = lost
              \/ lost' = [lost EXCEPT ![v] = Over(lost[v], Head(down[v]))]
          BY <3>4 DEF OnFrameSync
        <5>2. \/ reached' = reached
              \/ reached' = [reached EXCEPT ![v] = Over(reached[v], Head(down[v]))]
          BY <3>4 DEF OnFrameSync
        <5>3. lost \in [Viewers -> [Tiles -> 0..MaxVer]]
              /\ reached \in [Viewers -> [Tiles -> 0..MaxVer]]
          BY <1>3 DEF Pictures
        <5>4. lost' \in [Viewers -> [Tiles -> 0..MaxVer]]
          BY <4>1, <5>1, <5>3, Zenon
        <5>5. reached' \in [Viewers -> [Tiles -> 0..MaxVer]]
          BY <4>1, <5>2, <5>3, Zenon
        <5>. QED  BY <5>4, <5>5 DEF Pictures
      <4>. QED  BY <1>3, <3>4, <4>2 DEF OnFrameSync
    <3>5. ASSUME NEW v \in Viewers, DrawFrame(v)  PROVE PicturesOK'
      <4> DEFINE f == Head(clientList[v])
      <4>1. /\ f.left \in 1..Width /\ f.right \in 1..Width /\ f.left <= f.right
            /\ \A t \in Tiles : Covers(f, t) => f.ver[t] \in 0..MaxVer
        <5>1. f \in Frames
          BY <3>5, DrawFlow
        <5>2. \A t : Covers(f, t) => f.ver[t] \in 1..MaxVer
          BY <5>1, FrameFields
        <5>3. 1..MaxVer \subseteq 0..MaxVer
          BY SharingAssumption
        <5>. QED  BY <5>1, <5>2, <5>3, FrameFields DEF Tiles
      <4>2. pixmap' \in [Viewers -> 0..Width]
        <5>1. f.right - f.left + 1 \in 0..Width
          BY <4>1, SharingAssumption
        <5>. QED  BY <1>3, <3>5, <5>1 DEF DrawFrame
      <4>3. picture' \in Pictures
        <5>1. [t \in Tiles |-> IF Covers(f, t) /\ t <= pixmap'[v]
                               THEN f.ver[t] ELSE picture[v][t]] \in [Tiles -> 0..MaxVer]
          BY <1>3, <4>1 DEF Pictures
        <5>. QED  BY <1>3, <3>5, <5>1 DEF DrawFrame, Pictures
      <4>. QED  BY <1>3, <3>5, <4>2, <4>3 DEF DrawFrame
    <3>. QED  BY <1>5, <3>1, <3>2, <3>3, <3>4, <3>5 DEF Next, Deliver, AddServerFrame,
           UpdateServer, OnBuildRetServer, OnUnbuildRetServer, BuildReq, UnbuildReq,
           ViewerClose, viewer
  <2>. QED  BY <1>2, <2>1, <2>2, <2>3, <2>4, <2>5
<1>. QED  BY <1>4, <1>5

\* Every frame under way or come has numbers that have been given to its tiles,
\* and the lists, packets and pictures are of their types.
THEOREM TypeCorrect == Spec => []TypeOK
BY TypeInit, TypeNext, PTL DEF Spec

-----------------------------------------------------------------------------
(* Rooms and the handler.                                                  *)

\* What the last message about a viewer says is so at the relay; of a viewer
\* no message is about, both sides know the same.
LastFor(i) == \A j \in DOMAIN control : i < j => control[j].viewer # control[i].viewer

RoomInv ==
  /\ handler <=> serverRoom # {}
  /\ \A i \in DOMAIN control : LastFor(i) =>
       (control[i].cmd = "BUILD_RET" <=> control[i].viewer \in room)
  /\ \A v \in Viewers : (\A i \in DOMAIN control : control[i].viewer # v) =>
       (v \in serverRoom <=> v \in room)

\* A message at the end.
LEMMA RoomTold ==
  ASSUME TypeOK, RoomInv, NEW v \in Viewers, NEW c \in {"BUILD_RET", "UNBUILD_RET"},
         control' = Append(control, [cmd |-> c, viewer |-> v]),
         UNCHANGED <<handler, serverRoom>>,
         c = "BUILD_RET" <=> v \in room', room' \ {v} = room \ {v}
  PROVE  RoomInv'
<1> DEFINE msg == [cmd |-> c, viewer |-> v]
<1>1. /\ Len(control) \in Nat /\ DOMAIN control = 1..Len(control)
      /\ DOMAIN control' = 1..Len(control) + 1
      /\ \A i \in DOMAIN control : i \in DOMAIN control' /\ control'[i] = control[i]
      /\ Len(control) + 1 \in DOMAIN control' /\ control'[Len(control) + 1] = msg
      /\ \A i \in DOMAIN control' : i \in DOMAIN control \/ i = Len(control) + 1
  <2>1. control \in Seq([cmd : {"BUILD_RET", "UNBUILD_RET"}, viewer : Viewers])
    BY DEF TypeOK
  <2>2. Len(control) \in Nat /\ DOMAIN control = 1..Len(control)
    BY <2>1, LenProperties
  <2>3. /\ DOMAIN control' = 1..Len(control) + 1
        /\ \A i \in 1..Len(control) : control'[i] = control[i]
        /\ control'[Len(control) + 1] = msg
    BY <2>1
  <2>. QED  BY <2>2, <2>3
<1>2. msg.cmd = c /\ msg.viewer = v
  OBVIOUS
<1> HIDE DEF msg
<1>3. \A i \in DOMAIN control : i < Len(control) + 1
  BY <1>1
<1>4. ASSUME NEW i \in DOMAIN control', LastFor(i)'
      PROVE  control'[i].cmd = "BUILD_RET" <=> control'[i].viewer \in room'
  <2>1. CASE i = Len(control) + 1
    BY <1>1, <1>2, <2>1
  <2>2. CASE i \in DOMAIN control
    <3>1. control'[i] = control[i] /\ control[i].viewer # v
      BY <1>1, <1>2, <1>3, <1>4, <2>2 DEF LastFor
    <3>2. LastFor(i)
      BY <1>1, <1>4, <2>2 DEF LastFor
    <3>3. control[i].cmd = "BUILD_RET" <=> control[i].viewer \in room
      BY <2>2, <3>2 DEF RoomInv
    <3>. QED  BY <3>1, <3>3
  <2>. QED  BY <1>1, <2>1, <2>2
<1>5. ASSUME NEW w \in Viewers, \A i \in DOMAIN control' : control'[i].viewer # w
      PROVE  w \in serverRoom' <=> w \in room'
  <2>1. w # v
    BY <1>1, <1>2, <1>5
  <2>2. \A i \in DOMAIN control : control[i].viewer # w
    BY <1>1, <1>5
  <2>3. w \in serverRoom <=> w \in room
    BY <2>2 DEF RoomInv
  <2>. QED  BY <2>1, <2>3
<1>6. handler' <=> serverRoom' # {}
  BY DEF RoomInv
<1>. QED  BY <1>4, <1>5, <1>6 DEF RoomInv

\* The first message is heard.
LEMMA RoomHeard ==
  ASSUME TypeOK, RoomInv, control # <<>>, control' = Tail(control), room' = room,
         handler' <=> serverRoom' # {},
         Head(control).viewer \in serverRoom' <=> Head(control).cmd = "BUILD_RET",
         serverRoom' \ {Head(control).viewer} = serverRoom \ {Head(control).viewer}
  PROVE  RoomInv'
<1> DEFINE v == Head(control).viewer
<1>1. /\ control \in Seq([cmd : {"BUILD_RET", "UNBUILD_RET"}, viewer : Viewers])
  BY DEF TypeOK
<1>2. /\ 1 \in DOMAIN control /\ control[1] = Head(control)
      /\ \A i \in DOMAIN control' : i + 1 \in DOMAIN control /\ control'[i] = control[i + 1]
      /\ \A i \in DOMAIN control : i # 1 => i - 1 \in DOMAIN control' /\ control[i] = control'[i - 1]
      /\ DOMAIN control \subseteq Nat \ {0} /\ DOMAIN control' \subseteq Nat \ {0}
  <2>1. /\ 1 \in DOMAIN control /\ control[1] = Head(control)
        /\ \A i \in DOMAIN control' : i + 1 \in DOMAIN control /\ control'[i] = control[i + 1]
    BY <1>1, TailElements
  <2>2. Len(control) \in Nat /\ DOMAIN control = 1..Len(control)
    BY <1>1, LenProperties
  <2>3. Len(Tail(control)) = Len(control) - 1
        /\ Tail(control) \in Seq([cmd : {"BUILD_RET", "UNBUILD_RET"}, viewer : Viewers])
    BY <1>1, HeadTailProperties
  <2>4. DOMAIN control' = 1..Len(control) - 1
    BY <2>3, LenProperties, Zenon
  <2>5. \A i \in DOMAIN control : i # 1 => i - 1 \in DOMAIN control' /\ (i - 1) + 1 = i
    BY <2>2, <2>4
  <2>6. \A i \in DOMAIN control : i # 1 => i - 1 \in DOMAIN control' /\ control[i] = control'[i - 1]
    BY <2>1, <2>5
  <2>7. DOMAIN control \subseteq Nat \ {0} /\ DOMAIN control' \subseteq Nat \ {0}
    BY <2>2, <2>4
  <2>. QED  BY <2>1, <2>6, <2>7
<1>3. ASSUME NEW i \in DOMAIN control', LastFor(i)'
      PROVE  control'[i].cmd = "BUILD_RET" <=> control'[i].viewer \in room'
  <2>1. LastFor(i + 1)
    <3> SUFFICES ASSUME NEW j \in DOMAIN control, i + 1 < j
                 PROVE  control[j].viewer # control[i + 1].viewer
      BY DEF LastFor
    <3>1. i \in Nat \ {0} /\ j \in Nat
      BY <1>2
    <3>2. j # 1 /\ i < j - 1
      BY <3>1
    <3>. QED  BY <1>2, <1>3, <3>2 DEF LastFor
  <2>. QED  BY <1>2, <2>1 DEF RoomInv
<1>4. ASSUME NEW w \in Viewers, \A i \in DOMAIN control' : control'[i].viewer # w
      PROVE  w \in serverRoom' <=> w \in room'
  <2>1. CASE w = v
    <3>1. LastFor(1)
      <4> SUFFICES ASSUME NEW j \in DOMAIN control, 1 < j
                   PROVE  control[j].viewer # control[1].viewer
        BY DEF LastFor
      <4>1. j # 1
        BY <1>2
      <4>. QED  BY <1>2, <1>4, <2>1, <4>1
    <3>2. Head(control).cmd = "BUILD_RET" <=> w \in room
      BY <1>2, <2>1, <3>1 DEF RoomInv
    <3>. QED  BY <2>1, <3>2
  <2>2. CASE w # v
    <3>1. \A i \in DOMAIN control : control[i].viewer # w
      BY <1>2, <1>4, <2>2
    <3>2. w \in serverRoom <=> w \in room
      BY <3>1 DEF RoomInv
    <3>. QED  BY <2>2, <3>2
  <2>. QED  BY <2>1, <2>2
<1>. QED  BY <1>3, <1>4 DEF RoomInv

LEMMA RoomNext == TypeOK /\ RoomInv /\ [Next]_vars => RoomInv'
<1> SUFFICES ASSUME TypeOK, RoomInv, [Next]_vars  PROVE RoomInv'
  OBVIOUS
<1>1. CASE UNCHANGED <<handler, serverRoom, control, room>>
  BY <1>1 DEF RoomInv, LastFor
<1>2. CASE OnBuildRetServer
  <2>1. /\ control # <<>> /\ control' = Tail(control) /\ room' = room
        /\ Head(control).cmd = "BUILD_RET"
        /\ serverRoom' = serverRoom \cup {Head(control).viewer} /\ handler' = TRUE
    BY <1>2 DEF OnBuildRetServer, TypeOK
  <2>. QED  BY <2>1, RoomHeard
<1>3. CASE OnUnbuildRetServer
  <2>1. /\ control # <<>> /\ control' = Tail(control) /\ room' = room
        /\ Head(control).cmd # "BUILD_RET"
        /\ serverRoom' = serverRoom \ {Head(control).viewer}
        /\ handler' = (handler /\ serverRoom' # {})
    BY <1>3 DEF OnUnbuildRetServer, RoomsLeft
  <2>2. handler' <=> serverRoom' # {}
    <3>1. serverRoom' # {} => serverRoom # {}
      BY <2>1
    <3>. QED  BY <2>1, <3>1 DEF RoomInv
  <2>. QED  BY <2>1, <2>2, RoomHeard
<1>4. ASSUME NEW v \in Viewers, BuildReq(v)  PROVE RoomInv'
  <2>1. /\ control' = Append(control, [cmd |-> "BUILD_RET", viewer |-> v])
        /\ UNCHANGED <<handler, serverRoom>> /\ room' = room \cup {v}
    BY <1>4 DEF BuildReq, sharer
  <2>. QED  BY <2>1, RoomTold
<1>5. ASSUME NEW v \in Viewers, UnbuildReq(v)  PROVE RoomInv'
  <2>1. /\ control' = Append(control, [cmd |-> "UNBUILD_RET", viewer |-> v])
        /\ UNCHANGED <<handler, serverRoom>> /\ room' = room \ {v}
    BY <1>5 DEF UnbuildReq, sharer
  <2>2. "UNBUILD_RET" # "BUILD_RET"
    OBVIOUS
  <2>. QED  BY <2>1, <2>2, RoomTold
<1>. QED  BY <1>1, <1>2, <1>3, <1>4, <1>5 DEF Next, Deliver, AddServerFrame, UpdateServer,
       FrameSync, OnBuildRetClient, OnFrameSync, DrawFrame, ViewerClose, vars, sharer, relay,
       link, viewer

\* When the sharing client has heard all the relay told it, it knows the rooms
\* there are, and has a handler exactly if there is one.
THEOREM HandlerForRoomsHolds == Spec => []HandlerForRooms
<1>1. Init => RoomInv
  BY DEF Init, RoomInv, LastFor
<1>2. TypeOK /\ RoomInv => HandlerForRooms
  <2> SUFFICES ASSUME TypeOK, RoomInv, control = <<>>
               PROVE  serverRoom = room /\ (handler <=> room # {})
    BY DEF HandlerForRooms
  <2>1. \A v \in Viewers : v \in serverRoom <=> v \in room
    BY DEF RoomInv
  <2>2. serverRoom \subseteq Viewers /\ room \subseteq Viewers
    BY DEF TypeOK
  <2>3. serverRoom = room
    BY <2>1, <2>2
  <2>. QED  BY <2>3 DEF RoomInv
<1>. QED  BY <1>1, <1>2, TypeInit, TypeNext, RoomNext, PTL DEF Spec

-----------------------------------------------------------------------------
(* The order of the frames, and the pictures.                              *)

\* Frames are under way to a viewer from the oldest to the newest: those that
\* came, those in packets to it, those in packets to the relay, and those in
\* the list of the frame thread.
Ordered(v) ==
  /\ Sorted(serverList) /\ SortedPackets(up) /\ AllOlder(InPackets(up), ToSet(serverList))
  /\ SortedPackets(down[v]) /\ Sorted(clientList[v])
  /\ AllOlder(InPackets(down[v]), InPackets(up) \cup ToSet(serverList))
  /\ AllOlder(Arrived(v), OnWay(v))

OrderInv == \A v \in Viewers : Ordered(v)

\* The frames under way and come are frames.
LEMMA AllFrames ==
  ASSUME TypeOK, NEW v \in Viewers
  PROVE  /\ OnWay(v) \cup Arrived(v) \subseteq Frames
         /\ \A f \in OnWay(v) \cup Arrived(v) : FrameOK(f)
<1>1. /\ serverList \in Seq(Frames) /\ up \in Seq(Seq(Frames))
      /\ down[v] \in Seq(Seq(Frames)) /\ clientList[v] \in Seq(Frames)
  BY DEF TypeOK
<1>2. OnWay(v) \cup Arrived(v) \subseteq Frames
  BY <1>1, ListElements, PacketElements DEF OnWay, Arrived
<1>. QED  BY <1>2 DEF TypeOK

LEMMA OlderThanSent ==
  ASSUME TypeOK, [Next]_vars, NEW F, F \subseteq Frames, \A f \in F : FrameOK(f),
         NEW g, \A t \in Tiles : Covers(g, t) => g.ver[t] = sent'[t]
  PROVE  AllOlder(F, {g})
<1>1. ASSUME NEW f \in F, NEW t \in Tiles, Covers(f, t), Covers(g, t)
      PROVE  f.ver[t] <= g.ver[t]
  <2>1. /\ sent[t] \in Int /\ sent'[t] \in Int /\ sent[t] <= sent'[t]
    BY SentGrows, SharingAssumption
  <2>2. f.ver[t] \in Int /\ f.ver[t] <= sent[t] /\ g.ver[t] = sent'[t]
    BY <1>1, FrameFields, SharingAssumption DEF FrameOK
  <2>. QED  BY <2>1, <2>2
<1>. QED  BY <1>1 DEF AllOlder, Older

LEMMA OrderNext == TypeOK /\ OrderInv /\ [Next]_vars => OrderInv'
<1> SUFFICES ASSUME TypeOK, OrderInv, [Next]_vars, NEW v \in Viewers  PROVE Ordered(v)'
  BY DEF OrderInv
<1> USE DEF OnWay, Arrived
<1>1. Ordered(v)
  BY DEF OrderInv
<1>2. /\ serverList \in Seq(Frames) /\ up \in Seq(Seq(Frames))
      /\ down[v] \in Seq(Seq(Frames)) /\ clientList[v] \in Seq(Frames)
  BY DEF TypeOK
<1>3. ASSUME UNCHANGED <<serverList, up>>, down'[v] = down[v], clientList'[v] = clientList[v]
      PROVE  Ordered(v)'
  BY <1>1, <1>3 DEF Ordered
<1>4. CASE Queue
  <2>1. PICK new \in Frames :
          /\ serverList' = Append(serverList, new)
          /\ ToSet(serverList') = ToSet(serverList) \cup {new}
          /\ \A t \in Tiles : Covers(new, t) => new.ver[t] = sent'[t]
          /\ UNCHANGED <<handler, serverRoom, relay, link, viewer>>
    BY <1>4, UpdateFlow
  <2>2. up' = up /\ down' = down /\ clientList' = clientList
    BY <2>1 DEF relay, link, viewer
  <2>3. AllOlder(OnWay(v) \cup Arrived(v), {new})
    <3>1. /\ OnWay(v) \cup Arrived(v) \subseteq Frames
          /\ \A f \in OnWay(v) \cup Arrived(v) : FrameOK(f)
      BY AllFrames
    <3> HIDE DEF OnWay, Arrived
    <3>. QED  BY <2>1, <3>1, OlderThanSent
  <2>4. Sorted(serverList')
    <3>1. AllOlder(ToSet(serverList), {new}) /\ Sorted(serverList)
      BY <1>1, <2>3 DEF AllOlder, Ordered
    <3>2. Sorted(Append(serverList, new))
      BY <1>2, <3>1, AppendSorted
    <3>. QED  BY <2>1, <3>2, Zenon
  <2>5. /\ AllOlder(InPackets(up), ToSet(serverList'))
        /\ AllOlder(InPackets(down[v]), InPackets(up) \cup ToSet(serverList'))
        /\ AllOlder(Arrived(v), OnWay(v)')
    BY <1>1, <2>1, <2>2, <2>3 DEF Ordered, AllOlder
  <2>. QED  BY <1>1, <2>2, <2>4, <2>5 DEF Ordered
<1>5. CASE UpdateServer
  <2>1. down' = down /\ clientList' = clientList
    BY <1>5 DEF UpdateServer, link, viewer
  <2>2. /\ up' = Append(up, serverList) /\ serverList' = <<>>
        /\ InPackets(up') = InPackets(up) \cup ToSet(serverList)
        /\ ToSet(serverList') = {}
    BY <1>5, ServerFlow
  <2>3. SortedPackets(up')
    BY <1>1, <1>2, <2>2, PacketsAppend DEF Ordered
  <2>4. Sorted(serverList')
    BY <2>2 DEF Sorted
  <2>5. /\ AllOlder(InPackets(up'), ToSet(serverList'))
        /\ AllOlder(InPackets(down[v]), InPackets(up') \cup ToSet(serverList'))
        /\ AllOlder(Arrived(v), OnWay(v)')
    BY <1>1, <2>1, <2>2 DEF Ordered, AllOlder
  <2>. QED  BY <1>1, <2>1, <2>3, <2>4, <2>5 DEF Ordered
<1>6. CASE FrameSync
  <2>1. serverList' = serverList /\ clientList' = clientList
    BY <1>6 DEF FrameSync, sharer
  <2>2. /\ up # <<>> /\ up' = Tail(up) /\ Head(up) \in Seq(Frames)
        /\ InPackets(up) = ToSet(Head(up)) \cup InPackets(up')
    BY <1>6, SyncFlow
  <2>3. SortedPackets(up') /\ Sorted(Head(up)) /\ AllOlder(ToSet(Head(up)), InPackets(up'))
    BY <1>1, <1>2, <2>2, PacketsTail DEF Ordered
  <2>4. CASE v \in room
    <3>1. /\ down'[v] = Append(down[v], Head(up))
          /\ InPackets(down'[v]) = InPackets(down[v]) \cup ToSet(Head(up))
      BY <1>6, <2>4, SyncFlow
    <3>2. SortedPackets(down'[v])
      <4>1. AllOlder(InPackets(down[v]), ToSet(Head(up))) /\ SortedPackets(down[v])
        BY <1>1, <2>2 DEF Ordered, AllOlder
      <4>2. SortedPackets(Append(down[v], Head(up)))
        BY <1>2, <2>2, <2>3, <4>1, PacketsAppend
      <4>. QED  BY <3>1, <4>2
    <3>3. /\ AllOlder(InPackets(up'), ToSet(serverList'))
          /\ AllOlder(InPackets(down'[v]), InPackets(up') \cup ToSet(serverList'))
          /\ AllOlder(Arrived(v), OnWay(v)')
      BY <1>1, <2>1, <2>2, <2>3, <3>1 DEF Ordered, AllOlder
    <3>. QED  BY <1>1, <2>1, <2>3, <3>2, <3>3 DEF Ordered
  <2>5. CASE v \notin room
    <3>1. down'[v] = down[v]
      BY <1>6, <2>5, SyncFlow
    <3>2. /\ AllOlder(InPackets(up'), ToSet(serverList'))
          /\ AllOlder(InPackets(down'[v]), InPackets(up') \cup ToSet(serverList'))
          /\ AllOlder(Arrived(v), OnWay(v)')
      BY <1>1, <2>1, <2>2, <3>1 DEF Ordered, AllOlder
    <3>. QED  BY <1>1, <2>1, <2>3, <3>1, <3>2 DEF Ordered
  <2>. QED  BY <2>4, <2>5
<1>7. CASE OnFrameSync(v)
  <2>1. serverList' = serverList /\ up' = up
    BY <1>7 DEF OnFrameSync, sharer, relay
  <2>2. /\ down[v] # <<>> /\ down'[v] = Tail(down[v]) /\ Head(down[v]) \in Seq(Frames)
        /\ InPackets(down[v]) = ToSet(Head(down[v])) \cup InPackets(down'[v])
    BY <1>7, ClientFlow
  <2>3. /\ SortedPackets(down'[v]) /\ Sorted(Head(down[v]))
        /\ AllOlder(ToSet(Head(down[v])), InPackets(down'[v]))
    BY <1>1, <1>2, <2>2, PacketsTail DEF Ordered
  <2>4. CASE v \in window
    <3>1. /\ clientList'[v] = clientList[v] \o Head(down[v])
          /\ ToSet(clientList'[v]) = ToSet(clientList[v]) \cup ToSet(Head(down[v]))
      BY <1>7, <2>4, ClientFlow
    <3>2. Sorted(clientList'[v])
      <4>1. AllOlder(ToSet(clientList[v]), ToSet(Head(down[v]))) /\ Sorted(clientList[v])
        BY <1>1, <2>2 DEF Ordered, AllOlder
      <4>2. Sorted(clientList[v] \o Head(down[v]))
        BY <1>2, <2>2, <2>3, <4>1, ConcatSorted
      <4>. QED  BY <3>1, <4>2
    <3>3. /\ AllOlder(InPackets(down'[v]), InPackets(up') \cup ToSet(serverList'))
          /\ AllOlder(Arrived(v)', OnWay(v)')
      BY <1>1, <2>1, <2>2, <2>3, <3>1 DEF Ordered, AllOlder
    <3>. QED  BY <1>1, <2>1, <2>3, <3>2, <3>3 DEF Ordered
  <2>5. CASE v \notin window
    <3>1. clientList' = clientList
      BY <1>7, <2>5, ClientFlow
    <3>2. /\ AllOlder(InPackets(down'[v]), InPackets(up') \cup ToSet(serverList'))
          /\ AllOlder(Arrived(v)', OnWay(v)')
      BY <1>1, <2>1, <2>2, <3>1 DEF Ordered, AllOlder
    <3>. QED  BY <1>1, <2>1, <2>3, <3>1, <3>2 DEF Ordered
  <2>. QED  BY <2>4, <2>5
<1>8. CASE DrawFrame(v)
  <2>1. serverList' = serverList /\ up' = up /\ down' = down
    BY <1>8 DEF DrawFrame, sharer, relay, link
  <2>2. /\ clientList[v] # <<>> /\ clientList'[v] = Tail(clientList[v])
        /\ ToSet(clientList[v]) = {Head(clientList[v])} \cup ToSet(clientList'[v])
    BY <1>8, DrawFlow
  <2>3. Sorted(clientList'[v])
    BY <1>1, <1>2, <2>2, TailSorted DEF Ordered
  <2>4. AllOlder(Arrived(v)', OnWay(v)')
    BY <1>1, <2>1, <2>2 DEF Ordered, AllOlder
  <2>. QED  BY <1>1, <2>1, <2>3, <2>4 DEF Ordered
<1>9. ASSUME NEW w \in Viewers, w # v, OnFrameSync(w) \/ DrawFrame(w)  PROVE Ordered(v)'
  <2>1. UNCHANGED <<serverList, up>>
    BY <1>9 DEF OnFrameSync, DrawFrame, sharer, relay
  <2>2. down'[v] = down[v] /\ clientList'[v] = clientList[v]
    BY <1>9 DEF OnFrameSync, DrawFrame, TypeOK, link
  <2>. QED  BY <1>3, <2>1, <2>2
<1>10. CASE UNCHANGED <<serverList, up, down, clientList>>
  BY <1>3, <1>10
<1>. QED  BY <1>4, <1>5, <1>6, <1>7, <1>8, <1>9, <1>10 DEF Next, Deliver, Queue,
       OnBuildRetServer, OnUnbuildRetServer, BuildReq, UnbuildReq, OnBuildRetClient,
       ViewerClose, vars, sharer, relay, link, viewer

LEMMA OrderInit == Init => OrderInv
BY DEF Init, OrderInv, Ordered, Sorted, SortedPackets, AllOlder, InPackets, OnWay, Arrived, ToSet

\* No picture is newer than the newest frame queued, nor than a frame still to be drawn.
PictureInv ==
  \A v \in Viewers, t \in Tiles :
    /\ picture[v][t] <= sent[t]
    /\ \A f \in OnWay(v) \cup Arrived(v) : Covers(f, t) => picture[v][t] <= f.ver[t]

\* What is drawn is as old as the oldest frame that came.
LEMMA Drawn ==
  ASSUME TypeOK, NEW v \in Viewers, DrawFrame(v), NEW t \in Tiles
  PROVE  \/ picture'[v][t] = picture[v][t]
         \/ /\ Covers(Head(clientList[v]), t)
            /\ picture'[v][t] = Head(clientList[v]).ver[t]
BY DEF DrawFrame, TypeOK, Pictures

LEMMA PictureNext == TypeOK /\ OrderInv /\ PictureInv /\ [Next]_vars => PictureInv'
<1> SUFFICES ASSUME TypeOK, OrderInv, PictureInv, [Next]_vars,
                    NEW v \in Viewers, NEW t \in Tiles
             PROVE  /\ picture'[v][t] <= sent'[t]
                    /\ \A f \in OnWay(v)' \cup Arrived(v)' :
                         Covers(f, t) => picture'[v][t] <= f.ver[t]
  BY DEF PictureInv
<1>1. /\ sent[t] \in Int /\ sent'[t] \in Int /\ sent[t] <= sent'[t]
      /\ picture[v][t] \in Int /\ sent'[t] >= 0
  <2>1. sent[t] \in 0..MaxVer /\ sent'[t] \in 0..MaxVer /\ sent[t] <= sent'[t]
    BY SentGrows
  <2>2. picture[v][t] \in 0..MaxVer
    BY DEF TypeOK, Pictures
  <2>. QED  BY <2>1, <2>2
<1>2. /\ picture[v][t] <= sent[t]
      /\ \A f \in OnWay(v) \cup Arrived(v) : Covers(f, t) => picture[v][t] <= f.ver[t]
  BY DEF PictureInv
<1>3. \A f \in OnWay(v)' \cup Arrived(v)' :
        f \in OnWay(v) \cup Arrived(v) \/ (Covers(f, t) => f.ver[t] = sent'[t])
  <2>1. CASE Next
    BY <2>1, NoOtherFrames
  <2>2. CASE UNCHANGED vars
    BY <2>2 DEF vars, sharer, relay, link, viewer, OnWay, Arrived
  <2>. QED  BY <2>1, <2>2
<1>4. CASE picture'[v][t] = picture[v][t]
  <2>1. picture'[v][t] <= sent'[t]
    BY <1>1, <1>2, <1>4
  <2>2. ASSUME NEW f \in OnWay(v)' \cup Arrived(v)', Covers(f, t)
        PROVE  picture'[v][t] <= f.ver[t]
    BY <1>2, <1>3, <1>4, <2>1, <2>2
  <2>. QED  BY <2>1, <2>2
<1>5. CASE DrawFrame(v)
  <2> DEFINE h == Head(clientList[v])
  <2>1. CASE /\ Covers(h, t) /\ picture'[v][t] = h.ver[t]
    <3>1. /\ h \in Arrived(v) /\ Arrived(v) = {h} \cup Arrived(v)'
          /\ clientList[v] \in Seq(Frames) /\ clientList[v] # <<>>
          /\ clientList'[v] = Tail(clientList[v])
      BY <1>5, DrawFlow DEF Arrived
    <3>2. UNCHANGED <<serverList, up, down>>
      BY <1>5 DEF DrawFrame, sharer, relay, link
    <3>3. FrameOK(h)
      BY <3>1, AllFrames
    <3>4. OnWay(v)' = OnWay(v)
      BY <3>2 DEF OnWay
    <3>5. \A f \in Arrived(v)' : Older(h, f)
      <4>1. Sorted(clientList[v])
        BY DEF OrderInv, Ordered
      <4>2. AllOlder({h}, ToSet(Tail(clientList[v])))
        BY <3>1, <4>1, TailSorted
      <4>. QED  BY <3>1, <4>2 DEF Arrived, AllOlder
    <3>6. \A f \in OnWay(v) : Older(h, f)
      BY <3>1 DEF OrderInv, Ordered, AllOlder
    <3>7. \A f \in OnWay(v)' \cup Arrived(v)' : Covers(f, t) => h.ver[t] <= f.ver[t]
      BY <2>1, <3>4, <3>5, <3>6 DEF Older
    <3>8. h.ver[t] <= sent[t] /\ h.ver[t] \in Int
      <4>1. h \in Frames
        BY <1>5, DrawFlow
      <4>. QED  BY <2>1, <3>3, <4>1, FrameFields DEF FrameOK
    <3>. QED  BY <1>1, <2>1, <3>7, <3>8
  <2>. QED  BY <1>4, <1>5, <2>1, Drawn
<1>6. CASE OnBuildRetClient(v)
  <2>1. picture'[v][t] = 0 /\ UNCHANGED <<serverList, up, down, clientList>>
    BY <1>6 DEF OnBuildRetClient, Blank, TypeOK, Pictures, sharer, relay
  <2>2. OnWay(v)' \cup Arrived(v)' \subseteq Frames
    BY <2>1, AllFrames DEF OnWay, Arrived
  <2>. QED  BY <1>1, <2>1, <2>2, FrameFields
<1>7. picture'[v][t] = picture[v][t] \/ DrawFrame(v) \/ OnBuildRetClient(v)
  <2>1. CASE UNCHANGED picture
    BY <2>1
  <2>2. ASSUME NEW w \in Viewers, w # v, DrawFrame(w) \/ OnBuildRetClient(w)
        PROVE  picture'[v] = picture[v]
    BY <2>2 DEF DrawFrame, OnBuildRetClient, TypeOK, Pictures
  <2>. QED  BY <2>1, <2>2 DEF Next, Deliver, AddServerFrame, UpdateServer, OnBuildRetServer,
         OnUnbuildRetServer, FrameSync, BuildReq, UnbuildReq, OnFrameSync, ViewerClose, viewer, vars
<1>. QED  BY <1>4, <1>5, <1>6, <1>7

LEMMA PictureInit == Init => PictureInv
<1> SUFFICES ASSUME Init, NEW v \in Viewers, NEW t \in Tiles
             PROVE  picture[v][t] = 0 /\ sent[t] = 0 /\ OnWay(v) \cup Arrived(v) = {}
  BY DEF PictureInv
<1>. QED  BY DEF Init, Blank, OnWay, Arrived, InPackets, ToSet

\* A viewer's window, or the answer that opens one, stands for a room the
\* viewer has not asked to close.
WindowInv ==
  /\ built \cup window \subseteq room /\ (built \cup window) \cap closing = {}
  /\ built \cap window = {}

LEMMA WindowNext == TypeOK /\ WindowInv /\ [Next]_vars => WindowInv'
<1> SUFFICES ASSUME TypeOK, WindowInv, [Next]_vars  PROVE WindowInv'
  OBVIOUS
<1>1. CASE UNCHANGED <<room, built, closing, window>>
  BY <1>1 DEF WindowInv
<1>2. ASSUME NEW v \in Viewers,
             BuildReq(v) \/ UnbuildReq(v) \/ OnBuildRetClient(v) \/ ViewerClose(v)
      PROVE  WindowInv'
  BY <1>2 DEF WindowInv, BuildReq, UnbuildReq, OnBuildRetClient, ViewerClose, sharer, relay,
       viewer
<1>. QED  BY <1>1, <1>2 DEF Next, Deliver, AddServerFrame, UpdateServer, OnBuildRetServer,
       OnUnbuildRetServer, FrameSync, OnFrameSync, DrawFrame, vars, sharer, relay, link, viewer

\* A window never goes back to a frame of a tile queued before the one it
\* shows: the frames of the two lists, the packets and the relay stay in the
\* order they were queued, also those left over from an earlier window.
THEOREM NeverBackHolds == Spec => NeverBack
<1> DEFINE Inv == TypeOK /\ OrderInv /\ PictureInv /\ WindowInv
<1>1. Init => Inv
  <2>1. Init => WindowInv
    BY DEF Init, WindowInv
  <2>. QED  BY <2>1, TypeInit, OrderInit, PictureInit
<1>2. Inv /\ [Next]_vars => Inv'
  BY TypeNext, OrderNext, PictureNext, WindowNext
<1>3. Inv /\ [Next]_vars =>
        [\A v \in window \cap window' : \A t \in Tiles : picture'[v][t] >= picture[v][t]]_vars
  <2> SUFFICES ASSUME Inv, Next, NEW v \in window \cap window', NEW t \in Tiles
               PROVE  picture'[v][t] >= picture[v][t]
    OBVIOUS
  <2>1. v \in Viewers /\ v \notin built /\ picture[v][t] \in Int
    BY DEF TypeOK, WindowInv, Pictures
  <2>2. CASE DrawFrame(v)
    <3>1. Head(clientList[v]) \in Arrived(v) /\ Head(clientList[v]) \in Frames
      BY <2>1, <2>2, DrawFlow DEF Arrived
    <3>2. Covers(Head(clientList[v]), t) =>
            picture[v][t] <= Head(clientList[v]).ver[t] /\ Head(clientList[v]).ver[t] \in Int
      BY <2>1, <3>1, FrameFields DEF PictureInv
    <3>3. \/ picture'[v][t] = picture[v][t]
          \/ /\ Covers(Head(clientList[v]), t)
             /\ picture'[v][t] = Head(clientList[v]).ver[t]
      BY <2>1, <2>2, Drawn
    <3>. QED  BY <2>1, <3>2, <3>3
  <2>3. CASE picture'[v] = picture[v]
    BY <2>1, <2>3
  <2>4. CASE UNCHANGED picture
    BY <2>1, <2>4
  <2>5. ASSUME NEW w \in Viewers, w # v, DrawFrame(w) \/ OnBuildRetClient(w)
        PROVE  picture'[v] = picture[v]
    BY <2>5 DEF DrawFrame, OnBuildRetClient, TypeOK, Pictures
  <2>6. ~OnBuildRetClient(v)
    BY <2>1 DEF OnBuildRetClient
  <2>. QED  BY <2>2, <2>3, <2>4, <2>5, <2>6 DEF Next, Deliver, AddServerFrame, UpdateServer,
         OnBuildRetServer, OnUnbuildRetServer, FrameSync, BuildReq, UnbuildReq, OnFrameSync,
         ViewerClose, viewer
<1>. QED  BY <1>1, <1>2, <1>3, PTL DEF Spec, NeverBack

-----------------------------------------------------------------------------
(* A window in step with the list of frames.                               *)

\* One of the frames F shows a tile at least as new as number k.
Carries(F, t, k) == \E f \in F : Covers(f, t) /\ f.ver[t] >= k

\* The newest frame of a tile is on its way to a viewer that has a frame of the
\* tile under way or got one, or it came, or it is lost to it.
Follows(v, t) ==
  /\ (\E f \in OnWay(v) : Covers(f, t)) =>
        Carries(OnWay(v), t, sent[t]) \/ lost[v][t] >= sent[t]
  /\ reached[v][t] # 0 =>
        Carries(OnWay(v), t, sent[t]) \/ reached[v][t] >= sent[t] \/ lost[v][t] >= sent[t]

FollowInv == \A v \in Viewers, t \in Tiles : Follows(v, t)

\* The newest number that came for a window is drawn, or waits in its list.
DrawnInv ==
  \A v \in window, t \in Tiles : (pixmap[v] = 0 \/ t <= pixmap[v]) =>
    picture[v][t] >= reached[v][t] \/ Carries(Arrived(v), t, reached[v][t])

\* But for a detector's step, a frame that is no longer under way to a viewer is lost to
\* it, or came and is older than all that are still under way.
LEMMA Moved ==
  ASSUME TypeOK, OrderInv, [Next]_vars, ~Queue, NEW v \in Viewers, NEW t \in Tiles
  PROVE  /\ OnWay(v)' \subseteq OnWay(v)
         /\ lost'[v][t] \in 0..MaxVer /\ lost'[v][t] >= lost[v][t]
         /\ \/ reached'[v][t] = 0
            \/ /\ reached'[v][t] >= reached[v][t]
               /\ reached[v][t] # 0 \/ \E f \in OnWay(v) : Covers(f, t)
         /\ \A f \in OnWay(v) \ OnWay(v)' : Covers(f, t) =>
              \/ lost'[v][t] >= f.ver[t]
              \/ /\ reached'[v][t] >= f.ver[t]
                 /\ \A g \in OnWay(v)' : Covers(g, t) => g.ver[t] >= f.ver[t]
<1> USE DEF OnWay
<1>1. /\ lost[v] \in [Tiles -> 0..MaxVer] /\ reached[v] \in [Tiles -> 0..MaxVer]
      /\ \A x \in 0..MaxVer : x \in Int
  BY DEF TypeOK, Pictures
<1>2. CASE UNCHANGED <<serverList, up, down, lost>> /\ reached'[v] = reached[v]
  BY <1>1, <1>2
<1>3. CASE UpdateServer
  <2>1. UNCHANGED <<down, lost, reached>>
    BY <1>3 DEF UpdateServer, link, viewer
  <2>2. OnWay(v)' = OnWay(v)
    BY <1>3, <2>1, ServerFlow
  <2>. QED  BY <1>1, <2>1, <2>2
<1>4. CASE FrameSync
  <2>1. UNCHANGED <<serverList, reached>>
    BY <1>4 DEF FrameSync, sharer
  <2>2. CASE v \in room
    <3>1. OnWay(v)' = OnWay(v) /\ lost'[v] = lost[v]
      BY <1>4, <2>1, <2>2, SyncFlow
    <3>. QED  BY <1>1, <2>1, <3>1
  <2>3. CASE v \notin room
    <3>1. /\ down'[v] = down[v] /\ lost'[v] = Over(lost[v], Head(up))
          /\ InPackets(up) = ToSet(Head(up)) \cup InPackets(up') /\ Head(up) \in Seq(Frames)
      BY <1>4, <2>3, SyncFlow
    <3>2. /\ lost'[v][t] \in 0..MaxVer /\ lost'[v][t] >= lost[v][t]
          /\ \A f \in ToSet(Head(up)) : Covers(f, t) => lost'[v][t] >= f.ver[t]
      BY <1>1, <3>1, OverNewest
    <3>. QED  BY <1>1, <2>1, <3>1, <3>2
  <2>. QED  BY <2>2, <2>3
<1>5. CASE OnFrameSync(v)
  <2> DEFINE p == Head(down[v])
  <2>1. UNCHANGED <<serverList, up>>
    BY <1>5 DEF OnFrameSync, sharer, relay
  <2>2. /\ down[v] # <<>> /\ down'[v] = Tail(down[v]) /\ p \in Seq(Frames)
        /\ down[v] \in Seq(Seq(Frames))
        /\ InPackets(down[v]) = ToSet(p) \cup InPackets(down'[v])
    BY <1>5, ClientFlow
  <2>3. /\ \A f \in ToSet(p) : Covers(f, t) => Over(reached[v], p)[t] >= f.ver[t]
        /\ \A f \in ToSet(p) : Covers(f, t) => Over(lost[v], p)[t] >= f.ver[t]
        /\ Over(reached[v], p)[t] \in 0..MaxVer /\ Over(reached[v], p)[t] >= reached[v][t]
        /\ Over(lost[v], p)[t] \in 0..MaxVer /\ Over(lost[v], p)[t] >= lost[v][t]
        /\ Over(reached[v], p)[t] = reached[v][t] \/ \E f \in ToSet(p) : Covers(f, t)
    <3> HIDE DEF p
    <3>. QED  BY <1>1, <2>2, OverNewest
  <2>4. CASE v \notin window
    <3>1. /\ reached' = reached /\ lost' = [lost EXCEPT ![v] = Over(lost[v], p)]
      BY <1>5, <2>4, ClientFlow
    <3>2. lost'[v] = Over(lost[v], p)
      BY <3>1 DEF TypeOK, Pictures
    <3> HIDE DEF p
    <3>. QED  BY <1>1, <2>1, <2>2, <2>3, <3>1, <3>2
  <2>5. CASE v \in window
    <3>1. /\ lost' = lost /\ reached' = [reached EXCEPT ![v] = Over(reached[v], p)]
      BY <1>5, <2>5, ClientFlow
    <3>2. reached'[v] = Over(reached[v], p)
      BY <3>1 DEF TypeOK, Pictures
    <3>3. /\ AllOlder(ToSet(p), InPackets(down'[v]))
          /\ AllOlder(InPackets(down[v]), InPackets(up) \cup ToSet(serverList))
      <4>1. /\ SortedPackets(down[v])
            /\ AllOlder(InPackets(down[v]), InPackets(up) \cup ToSet(serverList))
        BY DEF OrderInv, Ordered
      <4>. QED  BY <2>2, <4>1, PacketsTail
    <3> HIDE DEF p
    <3>4. AllOlder(ToSet(p), OnWay(v)')
      BY <2>1, <2>2, <3>3 DEF AllOlder
    <3>5. \A f \in OnWay(v) \ OnWay(v)' : f \in ToSet(p)
      BY <2>1, <2>2
    <3>6. \A f \in OnWay(v) \ OnWay(v)' : Covers(f, t) =>
            /\ reached'[v][t] >= f.ver[t]
            /\ \A g \in OnWay(v)' : Covers(g, t) => f.ver[t] <= g.ver[t]
      BY <2>3, <3>2, <3>4, <3>5 DEF AllOlder, Older
    <3>7. OnWay(v)' \subseteq OnWay(v) /\ ToSet(p) \subseteq OnWay(v)
      BY <2>1, <2>2
    <3>8. \A g \in OnWay(v) : Covers(g, t) => g.ver[t] \in Int
      BY AllFrames, FrameFields
    <3>9. \A f \in OnWay(v) \ OnWay(v)' : Covers(f, t) =>
            \A g \in OnWay(v)' : Covers(g, t) => g.ver[t] >= f.ver[t]
      BY <3>6, <3>7, <3>8
    <3> HIDE DEF OnWay
    <3>10. /\ lost'[v][t] \in 0..MaxVer /\ lost'[v][t] >= lost[v][t]
      BY <1>1, <3>1
    <3>11. \/ reached'[v][t] = 0
           \/ /\ reached'[v][t] >= reached[v][t]
              /\ reached[v][t] # 0 \/ \E f \in OnWay(v) : Covers(f, t)
      BY <2>3, <3>2, <3>7
    <3>. QED  BY <3>6, <3>7, <3>9, <3>10, <3>11
  <2>. QED  BY <2>4, <2>5
<1>6. CASE OnBuildRetClient(v)
  <2>1. /\ UNCHANGED <<serverList, up, down, lost>> /\ reached'[v][t] = 0
    BY <1>6 DEF OnBuildRetClient, Blank, TypeOK, Pictures, sharer, relay
  <2>. QED  BY <1>1, <2>1
<1>7. ASSUME NEW w \in Viewers, w # v, OnFrameSync(w) \/ OnBuildRetClient(w)
      PROVE  /\ UNCHANGED <<serverList, up>> /\ down'[v] = down[v]
             /\ reached'[v] = reached[v] /\ lost'[v] = lost[v]
  <2>1. CASE OnFrameSync(w)
    <3>1. UNCHANGED <<serverList, up>> /\ down'[v] = down[v]
      BY <1>7, <2>1 DEF OnFrameSync, TypeOK, sharer, relay
    <3>2. reached'[v] = reached[v] /\ lost'[v] = lost[v]
      BY <1>7, <2>1 DEF OnFrameSync, TypeOK, Pictures
    <3>. QED  BY <3>1, <3>2
  <2>2. CASE OnBuildRetClient(w)
    BY <1>7, <2>2 DEF OnBuildRetClient, TypeOK, Pictures, sharer, relay
  <2>. QED  BY <1>7, <2>1, <2>2
<1>8. ASSUME NEW w \in Viewers, w # v, OnFrameSync(w) \/ OnBuildRetClient(w)
      PROVE  OnWay(v)' = OnWay(v) /\ reached'[v] = reached[v] /\ lost'[v] = lost[v]
  BY <1>7, <1>8
<1>9. ASSUME OnWay(v)' = OnWay(v), reached'[v] = reached[v], lost'[v] = lost[v]
      PROVE  /\ OnWay(v)' \subseteq OnWay(v)
             /\ lost'[v][t] \in 0..MaxVer /\ lost'[v][t] >= lost[v][t]
             /\ \/ reached'[v][t] = 0
                \/ /\ reached'[v][t] >= reached[v][t]
                   /\ reached[v][t] # 0 \/ \E f \in OnWay(v) : Covers(f, t)
             /\ OnWay(v) \ OnWay(v)' = {}
  <2> HIDE DEF OnWay
  <2>. QED  BY <1>1, <1>9
<1>10. \/ UNCHANGED <<serverList, up, down, lost, reached>>
       \/ UpdateServer \/ FrameSync
       \/ \E w \in Viewers : OnFrameSync(w) \/ OnBuildRetClient(w)
  BY DEF Next, Deliver, Queue, OnBuildRetServer, OnUnbuildRetServer, BuildReq, UnbuildReq,
         DrawFrame, ViewerClose, vars, sharer, relay, link, viewer
<1> HIDE DEF OnWay
<1>. QED  BY <1>2, <1>3, <1>4, <1>5, <1>6, <1>8, <1>9, <1>10

LEMMA FollowNext == TypeOK /\ OrderInv /\ FollowInv /\ [Next]_vars => FollowInv'
<1> SUFFICES ASSUME TypeOK, OrderInv, FollowInv, [Next]_vars,
                    NEW v \in Viewers, NEW t \in Tiles
             PROVE  Follows(v, t)'
  BY DEF FollowInv
<1>1. /\ sent[t] \in Int /\ sent'[t] \in Int
      /\ lost[v][t] \in Int /\ reached[v][t] \in Int
      /\ \A f \in OnWay(v) : Covers(f, t) => f.ver[t] \in Int
  <2>1. \A f \in OnWay(v) : Covers(f, t) => f.ver[t] \in Int
    BY AllFrames, FrameFields
  <2>. QED  BY <2>1, SentGrows, SharingAssumption DEF TypeOK, Pictures
<1>2. CASE Queue
  <2>1. PICK new \in Frames :
          /\ ToSet(serverList') = ToSet(serverList) \cup {new}
          /\ \A u \in Tiles : Covers(new, u) => new.ver[u] = sent'[u]
          /\ \A u \in Tiles : ~Covers(new, u) => sent'[u] = sent[u]
          /\ UNCHANGED <<handler, serverRoom, relay, link, viewer>>
    BY <1>2, UpdateFlow
  <2>2. UNCHANGED <<up, down, lost, reached>>
    BY <2>1 DEF relay, link, viewer
  <2>3. OnWay(v)' = OnWay(v) \cup {new}
    BY <2>1, <2>2 DEF OnWay
  <2>4. CASE Covers(new, t)
    <3>1. new.ver[t] >= sent'[t]
      BY <1>1, <2>1, <2>4
    <3>. QED  BY <2>3, <2>4, <3>1 DEF Follows, Carries
  <2>5. CASE ~Covers(new, t)
    <3>1. sent'[t] = sent[t] /\ Follows(v, t)
      BY <2>1, <2>5 DEF FollowInv
    <3>. QED  BY <2>2, <2>3, <2>5, <3>1 DEF Follows, Carries
  <2>. QED  BY <2>4, <2>5
<1>3. CASE ~Queue
  <2>1. sent' = sent
    BY <1>3, SentGrows
  <2>2. Follows(v, t)
    BY DEF FollowInv
  <2> DEFINE k == sent[t]
  <2>3. /\ OnWay(v)' \subseteq OnWay(v)
        /\ lost'[v][t] \in Int /\ lost'[v][t] >= lost[v][t]
        /\ \/ reached'[v][t] = 0
           \/ /\ reached'[v][t] >= reached[v][t]
              /\ reached[v][t] # 0 \/ \E f \in OnWay(v) : Covers(f, t)
    BY <1>3, Moved
  <2>4. \A f \in OnWay(v) \ OnWay(v)' : Covers(f, t) =>
              \/ lost'[v][t] >= f.ver[t]
              \/ /\ reached'[v][t] >= f.ver[t]
                 /\ \A g \in OnWay(v)' : Covers(g, t) => g.ver[t] >= f.ver[t]
    BY <1>3, Moved
  <2>5. reached'[v][t] \in Int
    BY TypeNext DEF TypeOK, Pictures
  <2>6. ASSUME Carries(OnWay(v), t, k)
        PROVE  \/ Carries(OnWay(v)', t, k) \/ lost'[v][t] >= k
               \/ /\ reached'[v][t] >= k
                  /\ \A g \in OnWay(v)' : Covers(g, t) => g.ver[t] >= k
    <3>1. PICK f \in OnWay(v) : Covers(f, t) /\ f.ver[t] >= k
      BY <2>6 DEF Carries
    <3>2. CASE f \in OnWay(v)'
      BY <3>1, <3>2 DEF Carries
    <3>3. CASE f \notin OnWay(v)'
      <4>1. \/ lost'[v][t] >= f.ver[t]
            \/ /\ reached'[v][t] >= f.ver[t]
               /\ \A g \in OnWay(v)' : Covers(g, t) => g.ver[t] >= f.ver[t]
        BY <2>4, <3>1, <3>3
      <4>2. f.ver[t] \in Int /\ \A g \in OnWay(v)' : Covers(g, t) => g.ver[t] \in Int
        BY <1>1, <2>3, <3>1
      <4>. QED  BY <1>1, <2>3, <2>5, <3>1, <4>1, <4>2
    <3>. QED  BY <3>2, <3>3
  <2>7. lost[v][t] >= k => lost'[v][t] >= k
    BY <1>1, <2>3
  <2>8. ASSUME \E f \in OnWay(v)' : Covers(f, t)
        PROVE  Carries(OnWay(v)', t, k) \/ lost'[v][t] >= k
    <3>1. Carries(OnWay(v), t, k) \/ lost[v][t] >= k
      BY <2>2, <2>3, <2>8 DEF Follows
    <3>. QED  BY <2>6, <2>7, <2>8, <3>1 DEF Carries
  <2>9. ASSUME reached'[v][t] # 0
        PROVE  Carries(OnWay(v)', t, k) \/ reached'[v][t] >= k \/ lost'[v][t] >= k
    <3>1. \/ Carries(OnWay(v), t, k) \/ lost[v][t] >= k
          \/ reached[v][t] >= k /\ reached'[v][t] >= reached[v][t]
      BY <2>2, <2>3, <2>9 DEF Follows
    <3>2. reached[v][t] >= k /\ reached'[v][t] >= reached[v][t] => reached'[v][t] >= k
      BY <1>1, <2>5
    <3>. QED  BY <2>6, <2>7, <3>1, <3>2
  <2>. QED  BY <2>1, <2>8, <2>9 DEF Follows
<1>. QED  BY <1>2, <1>3

LEMMA DrawnNext ==
  TypeOK /\ OrderInv /\ PictureInv /\ WindowInv /\ DrawnInv /\ [Next]_vars => DrawnInv'
<1> SUFFICES ASSUME TypeOK, OrderInv, PictureInv, WindowInv, DrawnInv, [Next]_vars,
                    NEW v \in window', NEW t \in Tiles, pixmap'[v] = 0 \/ t <= pixmap'[v]
             PROVE  \/ picture'[v][t] >= reached'[v][t]
                    \/ Carries(Arrived(v)', t, reached'[v][t])
  BY DEF DrawnInv
<1>1. v \in Viewers
  BY TypeNext DEF TypeOK
<1>2. picture[v][t] \in Int /\ reached[v][t] \in Int /\ pixmap[v] \in Nat /\ t \in Nat
  BY <1>1, SharingAssumption DEF TypeOK, Pictures, Tiles
<1>3. ASSUME v \in window, pixmap[v] = 0 \/ t <= pixmap[v]
      PROVE  picture[v][t] >= reached[v][t] \/ Carries(Arrived(v), t, reached[v][t])
  BY <1>3 DEF DrawnInv
<1>4. CASE /\ v \in window /\ pixmap'[v] = pixmap[v] /\ picture'[v] = picture[v]
           /\ reached'[v] = reached[v] /\ clientList'[v] = clientList[v]
  BY <1>3, <1>4 DEF Arrived
<1>5. CASE OnBuildRetClient(v)
  <2>1. picture'[v][t] = 0 /\ reached'[v][t] = 0
    BY <1>1, <1>5 DEF OnBuildRetClient, Blank, TypeOK, Pictures
  <2>. QED  BY <2>1
<1>6. CASE OnFrameSync(v)
  <2> DEFINE p == Head(down[v])
  <2>1. v \in window /\ pixmap' = pixmap /\ picture' = picture
    BY <1>6 DEF OnFrameSync
  <2>2. /\ p \in Seq(Frames)
        /\ ToSet(clientList'[v]) = ToSet(clientList[v]) \cup ToSet(p)
        /\ reached' = [reached EXCEPT ![v] = Over(reached[v], p)]
    BY <1>1, <1>6, <2>1, ClientFlow
  <2>3. reached'[v] = Over(reached[v], p) /\ reached[v] \in [Tiles -> 0..MaxVer]
    BY <1>1, <2>2 DEF TypeOK, Pictures
  <2> HIDE DEF p
  <2>4. \/ reached'[v][t] = reached[v][t]
        \/ \E f \in ToSet(p) : Covers(f, t) /\ reached'[v][t] = f.ver[t]
    BY <2>2, <2>3, OverNewest
  <2>5. CASE reached'[v][t] = reached[v][t]
    BY <1>3, <2>1, <2>2, <2>5 DEF Carries, Arrived
  <2>6. CASE \E f \in ToSet(p) : Covers(f, t) /\ reached'[v][t] = f.ver[t]
    <3>1. PICK f \in ToSet(p) : Covers(f, t) /\ reached'[v][t] = f.ver[t]
      BY <2>6
    <3>2. f.ver[t] \in Int
      BY <2>2, <3>1, ListElements, FrameFields
    <3>3. f.ver[t] >= reached'[v][t]
      BY <3>1, <3>2
    <3>. QED  BY <2>2, <3>1, <3>3 DEF Carries, Arrived
  <2>. QED  BY <2>4, <2>5, <2>6
<1>7. CASE DrawFrame(v)
  <2> DEFINE h == Head(clientList[v])
  <2>1. v \in window /\ reached' = reached
    BY <1>7 DEF DrawFrame
  <2>2. h \in Frames /\ ToSet(clientList[v]) = {h} \cup ToSet(clientList'[v])
    BY <1>1, <1>7, DrawFlow
  <2>3. /\ pixmap'[v] = IF pixmap[v] = 0 THEN h.right - h.left + 1 ELSE pixmap[v]
        /\ picture'[v][t] = IF Covers(h, t) /\ t <= pixmap'[v]
                            THEN h.ver[t] ELSE picture[v][t]
    BY <1>1, <1>7 DEF DrawFrame, TypeOK, Pictures
  <2>4. h.left \in Int /\ h.right \in Int /\ h.left <= h.right
    BY <2>2, SharingAssumption, FrameFields DEF Tiles
  <2>5. pixmap'[v] # 0 /\ t <= pixmap'[v] /\ (pixmap[v] = 0 \/ t <= pixmap[v])
    BY <1>2, <2>3, <2>4
  <2>6. Covers(h, t) => h.ver[t] \in Int /\ picture[v][t] <= h.ver[t]
    <3>1. h \in Arrived(v)
      BY <2>2 DEF Arrived
    <3>. QED  BY <1>1, <2>2, <3>1, FrameFields DEF PictureInv
  <2>7. picture'[v][t] >= picture[v][t] /\ picture'[v][t] \in Int
    BY <1>2, <2>3, <2>6
  <2>8. CASE picture[v][t] >= reached[v][t]
    BY <1>2, <2>1, <2>7, <2>8
  <2>9. CASE Carries(Arrived(v), t, reached[v][t])
    <3>1. PICK f \in Arrived(v) : Covers(f, t) /\ f.ver[t] >= reached[v][t]
      BY <2>9 DEF Carries
    <3>2. CASE f = h
      BY <2>1, <2>3, <2>5, <3>1, <3>2
    <3>3. CASE f # h
      BY <2>1, <2>2, <3>1, <3>3 DEF Carries, Arrived
    <3>. QED  BY <3>2, <3>3
  <2>. QED  BY <1>3, <2>1, <2>5, <2>8, <2>9
<1>8. ASSUME NEW w \in Viewers, w # v,
             OnBuildRetClient(w) \/ OnFrameSync(w) \/ DrawFrame(w) \/ ViewerClose(w)
      PROVE  /\ v \in window /\ pixmap'[v] = pixmap[v] /\ picture'[v] = picture[v]
             /\ reached'[v] = reached[v] /\ clientList'[v] = clientList[v]
  <2>1. CASE OnBuildRetClient(w)
    BY <1>8, <2>1, <1>1 DEF OnBuildRetClient, TypeOK, Pictures
  <2>2. CASE OnFrameSync(w)
    BY <1>8, <2>2, <1>1 DEF OnFrameSync, TypeOK, Pictures
  <2>3. CASE DrawFrame(w)
    BY <1>8, <2>3, <1>1 DEF DrawFrame, TypeOK, Pictures
  <2>4. CASE ViewerClose(w)
    BY <1>8, <2>4 DEF ViewerClose
  <2>. QED  BY <1>8, <2>1, <2>2, <2>3, <2>4
<1>9. ~ViewerClose(v)
  BY DEF ViewerClose
<1>10. CASE UNCHANGED <<window, pixmap, picture, reached, clientList>>
  BY <1>4, <1>10
<1>. QED  BY <1>4, <1>5, <1>6, <1>7, <1>8, <1>9, <1>10 DEF Next, Deliver, AddServerFrame,
       UpdateServer, OnBuildRetServer, OnUnbuildRetServer, FrameSync, BuildReq, UnbuildReq,
       viewer, vars

\* When nothing is under way, a window that got the last frame of a tile, and
\* has room for it, shows the frame queued last, whoever joined or left
\* meanwhile and made the handler go and come back.
THEOREM InStepHolds == Spec => []InStep
<1> DEFINE Inv == /\ TypeOK /\ OrderInv /\ PictureInv /\ WindowInv
                  /\ FollowInv /\ DrawnInv
<1>1. Init => Inv
  <2>1. Init => WindowInv /\ DrawnInv
    BY DEF Init, WindowInv, DrawnInv
  <2>2. Init => FollowInv
    BY DEF Init, Blank, FollowInv, Follows, OnWay, InPackets, ToSet
  <2>. QED  BY <2>1, <2>2, TypeInit, OrderInit, PictureInit
<1>2. Inv /\ [Next]_vars => Inv'
  BY TypeNext, OrderNext, PictureNext, WindowNext, FollowNext, DrawnNext
<1>3. Inv => InStep
  <2> SUFFICES ASSUME Inv, NEW v \in window, Quiet(v), NEW t \in Tiles, Shows(v, t)
               PROVE  picture[v][t] = sent[t]
    BY DEF InStep
  <2>1. v \in Viewers
    BY DEF TypeOK
  <2>2. OnWay(v) = {} /\ Arrived(v) = {}
    BY DEF Quiet, OnWay, Arrived, InPackets, ToSet
  <2>3. /\ picture[v][t] \in Int /\ reached[v][t] \in Int /\ lost[v][t] \in Int
        /\ sent[t] \in Int
    BY <2>1 DEF TypeOK, Pictures
  <2>4. reached[v][t] >= sent[t] \/ lost[v][t] >= sent[t]
    BY <2>1, <2>2 DEF Shows, FollowInv, Follows, Carries
  <2>5. picture[v][t] >= reached[v][t]
    BY <2>2 DEF Shows, DrawnInv, Carries
  <2>6. picture[v][t] <= sent[t]
    BY <2>1 DEF PictureInv
  <2>. QED  BY <2>3, <2>4, <2>5, <2>6 DEF Shows
<1>. QED  BY <1>1, <1>2, <1>3, PTL DEF Spec
=============================================================================
