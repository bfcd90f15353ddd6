--------------------------- MODULE Sorting_proofs ---------------------------
(***************************************************************************)
(* What the operators of Sorting give, for every finite set and every      *)
(* order of it, and what RemoveAt and EXCEPT leave of a sequence; the      *)
(* modules of proofs of the pages cite these lemmas.                       *)
(***************************************************************************)
EXTENDS Sorting, SequencesExt, Integers, FiniteSetTheorems, FunctionTheorems, SequenceTheorems, TLAPS

IsOrderOf(set, order) ==
    /\ \A m \in set : <<m, m>> \notin order
    /\ \A m, o \in set : m = o \/ <<m, o>> \in order \/ <<o, m>> \in order
    /\ \A m, o, p \in set : <<m, o>> \in order /\ <<o, p>> \in order => <<m, p>> \in order

Preceding(set, order, m) == {o \in set : <<o, m>> \in order}

\* Fewer elements precede an element than there are, and more precede it than
\* any of those that precede it.
LEMMA RankType ==
  ASSUME NEW set, IsFiniteSet(set), NEW order, IsOrderOf(set, order), NEW m \in set
  PROVE  /\ IsFiniteSet(Preceding(set, order, m))
         /\ Cardinality(Preceding(set, order, m)) \in 0 .. Cardinality(set) - 1
<1>1. Preceding(set, order, m) \in SUBSET (set \ {m})
  BY DEF Preceding, IsOrderOf
<1>2. IsFiniteSet(set \ {m}) /\ Cardinality(set \ {m}) = Cardinality(set) - 1
  BY FS_RemoveElement
<1>3. /\ IsFiniteSet(Preceding(set, order, m))
      /\ Cardinality(Preceding(set, order, m)) <= Cardinality(set \ {m})
  BY <1>1, <1>2, FS_Subset
<1>4. Cardinality(Preceding(set, order, m)) \in Nat /\ Cardinality(set) \in Nat
  BY <1>3, FS_CardinalityType
<1> QED BY <1>2, <1>3, <1>4

LEMMA RankGrows ==
  ASSUME NEW set, IsFiniteSet(set), NEW order, IsOrderOf(set, order),
         NEW m \in set, NEW o \in set, <<m, o>> \in order
  PROVE  Cardinality(Preceding(set, order, m)) < Cardinality(Preceding(set, order, o))
<1>1. Preceding(set, order, m) \in SUBSET Preceding(set, order, o)
  BY DEF Preceding, IsOrderOf
<1>2. Preceding(set, order, m) # Preceding(set, order, o)
  BY DEF Preceding, IsOrderOf
<1>3. IsFiniteSet(Preceding(set, order, o))
  BY RankType
<1>4. /\ Cardinality(Preceding(set, order, m)) <= Cardinality(Preceding(set, order, o))
      /\ Cardinality(Preceding(set, order, m)) # Cardinality(Preceding(set, order, o))
  BY <1>1, <1>2, <1>3, FS_Subset
<1>5. Cardinality(Preceding(set, order, m)) \in Nat /\ Cardinality(Preceding(set, order, o)) \in Nat
  BY RankType
<1> QED BY <1>4, <1>5

\* Two elements have not as many before them, so that each number of elements
\* is that of one of them.
LEMMA RankOnto ==
  ASSUME NEW set, IsFiniteSet(set), NEW order, IsOrderOf(set, order),
         NEW n \in 1 .. Cardinality(set)
  PROVE  \E m \in set : Cardinality(Preceding(set, order, m)) = n - 1
<1> DEFINE T == 0 .. Cardinality(set) - 1
           rank == [m \in set |-> Cardinality(Preceding(set, order, m))]
<1>1. Cardinality(set) \in Nat
  BY FS_CardinalityType
<1>2. rank \in [set -> T]
  BY RankType
<1>3. ASSUME NEW m \in set, NEW o \in set, rank[m] = rank[o] PROVE m = o
  <2>1. CASE <<m, o>> \in order
    <3>1. Cardinality(Preceding(set, order, m)) < Cardinality(Preceding(set, order, o))
      BY <2>1, RankGrows
    <3>2. rank[m] < rank[o]
      BY <3>1
    <3>3. rank[m] \in Nat /\ rank[o] \in Nat
      BY <1>2
    <3> QED BY <3>2, <3>3, <1>3
  <2>2. CASE <<o, m>> \in order
    <3>1. Cardinality(Preceding(set, order, o)) < Cardinality(Preceding(set, order, m))
      BY <2>2, RankGrows
    <3>2. rank[o] < rank[m]
      BY <3>1
    <3>3. rank[m] \in Nat /\ rank[o] \in Nat
      BY <1>2
    <3> QED BY <3>2, <3>3, <1>3
  <2> QED BY <2>1, <2>2 DEF IsOrderOf
<1>4. rank \in Injection(set, T)
  <2> HIDE DEF rank, T
  <2> QED BY <1>2, <1>3 DEF Injection, IsInjective
<1>5. IsFiniteSet(T) /\ Cardinality(T) = Cardinality(set)
  <2> DEFINE last == Cardinality(set) - 1
  <2>1. last \in Int
    BY <1>1
  <2>2. last + 1 = Cardinality(set) /\ T = 0 .. last
    BY <1>1
  <2> HIDE DEF last, T
  <2>3. /\ IsFiniteSet(0 .. last)
        /\ Cardinality(0 .. last) = IF 0 > last THEN 0 ELSE last - 0 + 1
    BY <2>1, FS_Interval
  <2> QED BY <1>1, <2>1, <2>2, <2>3
<1>6. rank \in Surjection(set, T)
  <2> HIDE DEF rank, T
  <2> QED BY <1>4, <1>5, FS_Injection
<1>7. n - 1 \in T
  BY <1>1
<1>8. PICK m \in set : rank[m] = n - 1
  <2> HIDE DEF rank, T
  <2> QED BY <1>6, <1>7 DEF Surjection
<1> QED BY <1>8

Increasing(list, order) ==
    \A i, j \in DOMAIN list : i < j => <<list[i], list[j]>> \in order

\* The elements of a finite set can be put as an order says.
LEMMA IncreasingExists ==
  ASSUME NEW set, IsFiniteSet(set), NEW order, IsOrderOf(set, order)
  PROVE  \E list \in [1 .. Cardinality(set) -> set] : Increasing(list, order)
<1> DEFINE at(n) == CHOOSE m \in set : Cardinality(Preceding(set, order, m)) = n - 1
           list == [n \in 1 .. Cardinality(set) |-> at(n)]
<1>1. ASSUME NEW n \in 1 .. Cardinality(set)
      PROVE  at(n) \in set /\ Cardinality(Preceding(set, order, at(n))) = n - 1
  <2>1. \E m \in set : Cardinality(Preceding(set, order, m)) = n - 1
    BY RankOnto
  <2> QED BY <2>1
<1> HIDE DEF at
<1>2. list \in [1 .. Cardinality(set) -> set]
  BY <1>1
<1>3. ASSUME NEW i \in 1 .. Cardinality(set), NEW j \in 1 .. Cardinality(set), i < j
      PROVE  <<at(i), at(j)>> \in order
  <2>1. i \in Int /\ j \in Int
    BY FS_CardinalityType
  <2>2. ASSUME <<at(j), at(i)>> \in order PROVE FALSE
    <3>1. Cardinality(Preceding(set, order, at(j))) < Cardinality(Preceding(set, order, at(i)))
      BY <1>1, <2>2, RankGrows
    <3> QED BY <3>1, <1>1, <1>3, <2>1
  <2>3. at(i) # at(j)
    BY <1>1, <1>3, <2>1
  <2> QED BY <1>1, <2>2, <2>3 DEF IsOrderOf
<1>4. Increasing(list, order)
  BY <1>3 DEF Increasing
<1> QED BY <1>2, <1>4

\* A list of as many elements of the set as it has, which increases, has each
\* of them once.
LEMMA IncreasingIsAll ==
  ASSUME NEW set, IsFiniteSet(set), NEW order, IsOrderOf(set, order),
         NEW list \in [1 .. Cardinality(set) -> set], Increasing(list, order)
  PROVE  /\ \A i, j \in 1 .. Cardinality(set) : list[i] = list[j] => i = j
         /\ \A m \in set : \E i \in 1 .. Cardinality(set) : list[i] = m
<1> DEFINE places == 1 .. Cardinality(set)
<1>1. Cardinality(set) \in Nat
  BY FS_CardinalityType
<1>2. ASSUME NEW i \in places, NEW j \in places, list[i] = list[j] PROVE i = j
  <2>1. i \in Int /\ j \in Int
    BY <1>1
  <2>2. ~(i < j) /\ ~(j < i)
    BY <1>2 DEF Increasing, IsOrderOf
  <2> QED BY <2>1, <2>2
<1>3. IsFiniteSet(places) /\ Cardinality(places) = Cardinality(set)
  <2> DEFINE n == Cardinality(set)
  <2>1. 1 \in Int /\ n \in Int /\ n >= 0
    BY <1>1
  <2> HIDE DEF n
  <2>2. IsFiniteSet(1 .. n) /\ Cardinality(1 .. n) = IF 1 > n THEN 0 ELSE n - 1 + 1
    BY <2>1, FS_Interval
  <2>3. IsFiniteSet(1 .. n) /\ Cardinality(1 .. n) = n
    BY <2>1, <2>2
  <2> QED BY <2>3 DEF n
<1> HIDE DEF places
<1>4. list \in [places -> set]
  BY DEF places
<1>5. list \in Injection(places, set)
  BY <1>2, <1>4 DEF Injection, IsInjective
<1>6. list \in Surjection(places, set)
  BY <1>3, <1>5, FS_Injection
<1> QED BY <1>2, <1>6 DEF Surjection, places

\* Sorted puts each element of the set once in a sequence.
LEMMA SortedType ==
  ASSUME NEW set, IsFiniteSet(set), NEW order, IsOrderOf(set, order)
  PROVE  /\ Cardinality(set) \in Nat
         /\ Sorted(set, order) \in [1 .. Cardinality(set) -> set]
         /\ \A i, j \in 1 .. Cardinality(set) :
              Sorted(set, order)[i] = Sorted(set, order)[j] => i = j
<1>1. \E list \in [1 .. Cardinality(set) -> set] :
         \A i, j \in DOMAIN list : i < j => <<list[i], list[j]>> \in order
  BY IncreasingExists DEF Increasing
<1>2. /\ Sorted(set, order) \in [1 .. Cardinality(set) -> set]
      /\ Increasing(Sorted(set, order), order)
  BY <1>1 DEF Sorted, Increasing
<1> QED BY <1>2, IncreasingIsAll, FS_CardinalityType

-----------------------------------------------------------------------------
(* Sets of numbers.                                                         *)

LessThan(set) == {pair \in set \X set : pair[1] < pair[2]}

LEMMA LessThanOrder ==
  ASSUME NEW set \in SUBSET Nat
  PROVE  /\ IsOrderOf(set, LessThan(set))
         /\ \A m, o \in set : <<m, o>> \in LessThan(set) <=> m < o
<1>1. \A m, o \in set : <<m, o>> \in LessThan(set) <=> m < o
  BY DEF LessThan
<1>2. set \subseteq Int
  OBVIOUS
<1>3. \A m \in set : ~(m < m)
  BY <1>2
<1>4. \A m, o \in set : m = o \/ m < o \/ o < m
  BY <1>2
<1>5. \A m, o, p \in set : m < o /\ o < p => m < p
  BY <1>2
<1> HIDE DEF LessThan
<1> QED BY <1>1, <1>3, <1>4, <1>5 DEF IsOrderOf

\* Ascending lists the elements of a finite set of numbers, each greater than
\* the one before it.
LEMMA AscendingType ==
  ASSUME NEW set \in SUBSET Nat, IsFiniteSet(set)
  PROVE  /\ Cardinality(set) \in Nat
         /\ Ascending(set) \in [1 .. Cardinality(set) -> set]
         /\ \A i, j \in 1 .. Cardinality(set) : i < j => Ascending(set)[i] < Ascending(set)[j]
         /\ \A m \in set : \E i \in 1 .. Cardinality(set) : Ascending(set)[i] = m
<1>1. IsOrderOf(set, LessThan(set)) /\ Cardinality(set) \in Nat
  BY LessThanOrder, FS_CardinalityType
<1>2. ASSUME NEW list \in [1 .. Cardinality(set) -> set]
      PROVE  Increasing(list, LessThan(set)) <=> \A i, j \in DOMAIN list : i < j => list[i] < list[j]
  BY LessThanOrder DEF Increasing
<1>3. PICK list \in [1 .. Cardinality(set) -> set] : Increasing(list, LessThan(set))
  BY <1>1, IncreasingExists
<1>4. \E other \in [1 .. Cardinality(set) -> set] :
         \A i, j \in DOMAIN other : i < j => other[i] < other[j]
  BY <1>2, <1>3
<1>5. /\ Ascending(set) \in [1 .. Cardinality(set) -> set]
      /\ \A i, j \in DOMAIN Ascending(set) : i < j => Ascending(set)[i] < Ascending(set)[j]
  BY <1>4 DEF Ascending
<1>6. Increasing(Ascending(set), LessThan(set))
  BY <1>2, <1>5
<1>7. \A m \in set : \E i \in 1 .. Cardinality(set) : Ascending(set)[i] = m
  BY <1>1, <1>5, <1>6, IncreasingIsAll
<1>8. DOMAIN Ascending(set) = 1 .. Cardinality(set)
  BY <1>5
<1> QED BY <1>1, <1>5, <1>7, <1>8

\* A finite set of numbers that is not empty has a least element.
LEMMA LeastOf ==
  ASSUME NEW set \in SUBSET Nat, IsFiniteSet(set), set # {}
  PROVE  \E m \in set : \A o \in set : m <= o
<1> DEFINE list == Ascending(set)
           n == Cardinality(set)
<1>1. n \in Nat /\ n # 0
  BY FS_CardinalityType, FS_EmptySet
<1>2. /\ list \in [1 .. n -> set]
      /\ \A i, j \in 1 .. n : i < j => list[i] < list[j]
      /\ \A m \in set : \E i \in 1 .. n : list[i] = m
  BY AscendingType
<1> HIDE DEF list, n
<1>3. 1 \in 1 .. n
  BY <1>1
<1>4. ASSUME NEW i \in 1 .. n PROVE list[1] <= list[i]
  <2>1. list[1] \in set /\ list[i] \in set
    BY <1>2, <1>3
  <2>2. list[1] \in Nat /\ list[i] \in Nat
    BY <2>1
  <2>3. i = 1 \/ 1 < i
    BY <1>1
  <2>4. i # 1 => list[1] < list[i]
    BY <1>2, <1>3, <2>3
  <2> QED BY <2>2, <2>4
<1>5. list[1] \in set /\ \A o \in set : list[1] <= o
  BY <1>2, <1>3, <1>4
<1> QED BY <1>5

\* Where keeps elements of the list, and no more than it has.
LEMMA WhereType ==
  ASSUME NEW S, NEW list \in Seq(S), NEW set
  PROVE  /\ Where(list, set) \in Seq(S \cap set)
         /\ Len(Where(list, set)) <= Len(list)
<1> DEFINE kept == {i \in DOMAIN list : list[i] \in set}
           places == Ascending(kept)
<1>1. /\ DOMAIN list = 1 .. Len(list) /\ Len(list) \in Nat
      /\ \A i \in 1 .. Len(list) : list[i] \in S
  OBVIOUS
<1>2. IsFiniteSet(1 .. Len(list)) /\ Cardinality(1 .. Len(list)) = Len(list)
  <2>1. /\ IsFiniteSet(1 .. Len(list))
        /\ Cardinality(1 .. Len(list)) = IF 1 > Len(list) THEN 0 ELSE Len(list) - 1 + 1
    BY <1>1, FS_Interval
  <2> QED BY <1>1, <2>1
<1>3. kept \in SUBSET (1 .. Len(list)) /\ kept \in SUBSET Nat
  BY <1>1
<1>4. IsFiniteSet(kept) /\ Cardinality(kept) <= Len(list)
  <2> HIDE DEF kept
  <2> QED BY <1>2, <1>3, FS_Subset
<1>5. Cardinality(kept) \in Nat /\ places \in [1 .. Cardinality(kept) -> kept]
  <2> HIDE DEF kept
  <2> QED BY <1>3, <1>4, AscendingType
<1>6. Where(list, set) = [n \in 1 .. Cardinality(kept) |-> list[places[n]]]
  <2>1. Where(list, set) = [n \in DOMAIN places |-> list[places[n]]]
    BY DEF Where
  <2>2. DOMAIN places = 1 .. Cardinality(kept)
    <3> HIDE DEF kept, places
    <3> QED BY <1>5
  <2> QED BY <2>1, <2>2
<1>7. \A n \in 1 .. Cardinality(kept) : list[places[n]] \in S \cap set
  BY <1>1, <1>5
<1> HIDE DEF kept, places
<1>8. Where(list, set) \in [1 .. Cardinality(kept) -> S \cap set]
  BY <1>6, <1>7
<1> QED BY <1>4, <1>5, <1>8, <1>6

LEMMA WhereOf ==
  ASSUME NEW S, NEW list \in Seq(S), NEW set
  PROVE  Where(list, set) \in Seq(S)
<1> DEFINE U == S \cap set
<1>1. Where(list, set) \in Seq(U) /\ U \subseteq S
  BY WhereType
<1> HIDE DEF U
<1> QED BY ONLY <1>1

\* What is in a sequence.
LEMMA ToSetType ==
  ASSUME NEW S, NEW list \in Seq(S)
  PROVE  ToSet(list) \subseteq S
BY DEF ToSet

-----------------------------------------------------------------------------
(* What RemoveAt leaves of a sequence.                                      *)
LEMMA RemoveAtFacts ==
    ASSUME NEW S, NEW s \in Seq(S), NEW i \in 1..Len(s)
    PROVE  /\ RemoveAt(s, i) \in Seq(S)
           /\ Len(RemoveAt(s, i)) = Len(s) - 1
           /\ \A k \in 1..Len(s) - 1 : RemoveAt(s, i)[k] = s[IF k < i THEN k ELSE k + 1]
<1> DEFINE before == SubSeq(s, 1, i - 1)
           after == SubSeq(s, i + 1, Len(s))
<1>1. Len(s) \in Nat /\ \A k \in 1..Len(s) : s[k] \in S
    OBVIOUS
<1>2. /\ before \in Seq(S) /\ Len(before) = i - 1
      /\ \A k \in 1..i - 1 : before[k] = s[k]
    <2>1. 1 \in Int /\ i - 1 \in Int /\ \A k \in 1..i - 1 : s[k] \in S
        BY <1>1
    <2> HIDE DEF before
    <2>2. /\ SubSeq(s, 1, i - 1) \in Seq(S)
          /\ Len(SubSeq(s, 1, i - 1)) = IF 1 <= i - 1 THEN i - 1 - 1 + 1 ELSE 0
          /\ \A k \in 1 .. i - 1 - 1 + 1 : SubSeq(s, 1, i - 1)[k] = s[1 + k - 1]
        BY <2>1, SubSeqProperties
    <2> QED BY <2>2 DEF before
<1>3. /\ after \in Seq(S) /\ Len(after) = Len(s) - i
      /\ \A k \in 1..Len(s) - i : after[k] = s[i + k]
    <2>1. i + 1 \in Int /\ Len(s) \in Int /\ \A k \in i + 1..Len(s) : s[k] \in S
        BY <1>1
    <2> HIDE DEF after
    <2>2. /\ SubSeq(s, i + 1, Len(s)) \in Seq(S)
          /\ Len(SubSeq(s, i + 1, Len(s))) = IF i + 1 <= Len(s) THEN Len(s) - (i + 1) + 1 ELSE 0
          /\ \A k \in 1 .. Len(s) - (i + 1) + 1 : SubSeq(s, i + 1, Len(s))[k] = s[i + 1 + k - 1]
        BY <2>1, SubSeqProperties
    <2>3. Len(s) - (i + 1) + 1 = Len(s) - i
        BY <1>1
    <2>4. Len(after) = Len(s) - i
        BY <1>1, <2>2 DEF after
    <2>5. ASSUME NEW k \in 1..Len(s) - i PROVE after[k] = s[i + k]
        <3>1. k \in 1..Len(s) - (i + 1) + 1 /\ i + 1 + k - 1 = i + k
            BY <1>1
        <3>2. after[k] = s[i + 1 + k - 1]
            BY <2>2, <3>1 DEF after
        <3> QED BY <3>1, <3>2
    <2> QED BY <2>2, <2>4, <2>5 DEF after
<1>4. RemoveAt(s, i) = before \o after
    BY DEF RemoveAt
<1> HIDE DEF before, after
<1>5. /\ before \o after \in Seq(S)
      /\ Len(before \o after) = Len(before) + Len(after)
      /\ \A k \in 1..Len(before) + Len(after) :
            (before \o after)[k] = IF k <= Len(before) THEN before[k] ELSE after[k - Len(before)]
    BY <1>2, <1>3, ConcatProperties
<1>6. Len(before) + Len(after) = Len(s) - 1
    BY <1>1, <1>2, <1>3
<1>7. ASSUME NEW k \in 1..Len(s) - 1
      PROVE RemoveAt(s, i)[k] = s[IF k < i THEN k ELSE k + 1]
    <2>1. CASE k < i
        BY <2>1, <1>1, <1>2, <1>4, <1>5, <1>6
    <2>2. CASE ~(k < i)
        <3>1. k - (i - 1) \in 1..Len(s) - i /\ i + (k - (i - 1)) = k + 1 /\ ~(k <= i - 1)
            BY <2>2, <1>1
        <3>2. (before \o after)[k] = after[k - (i - 1)]
            BY <3>1, <1>2, <1>5, <1>6
        <3>3. after[k - (i - 1)] = s[k + 1]
            BY <3>1, <1>3
        <3> QED BY <2>2, <3>2, <3>3, <1>4
    <2> QED BY <2>1, <2>2
<1> QED BY <1>4, <1>5, <1>6, <1>7

(* The rest is what a sequence has at other places than i, none twice.      *)
IsRest(rest, s, i) ==
    \E from \in [DOMAIN rest -> DOMAIN s \ {i}] :
        /\ \A k \in DOMAIN rest : rest[k] = s[from[k]]
        /\ \A j, k \in DOMAIN rest : from[j] = from[k] => j = k
        /\ \A j \in DOMAIN s \ {i} : \E k \in DOMAIN rest : from[k] = j

LEMMA RemoveAtFrom ==
    ASSUME NEW S, NEW s \in Seq(S), NEW i \in DOMAIN s
    PROVE  /\ RemoveAt(s, i) \in Seq(S)
           /\ Len(RemoveAt(s, i)) = Len(s) - 1
           /\ IsRest(RemoveAt(s, i), s, i)
<1> DEFINE r == RemoveAt(s, i)
<1>1. i \in 1..Len(s) /\ DOMAIN s = 1..Len(s) /\ Len(s) \in Nat
    OBVIOUS
<1>2. /\ r \in Seq(S) /\ Len(r) = Len(s) - 1
      /\ \A k \in 1..Len(s) - 1 : r[k] = s[IF k < i THEN k ELSE k + 1]
    BY <1>1, RemoveAtFacts
<1> HIDE DEF r
<1>3. DOMAIN r = 1..Len(s) - 1
    BY <1>1, <1>2
<1> DEFINE from == [k \in DOMAIN r |-> IF k < i THEN k ELSE k + 1]
<1>4. from \in [DOMAIN r -> DOMAIN s \ {i}]
    BY <1>1, <1>3
<1>5. \A k \in DOMAIN r : r[k] = s[from[k]]
    BY <1>2, <1>3
<1>6. \A j, k \in DOMAIN r : from[j] = from[k] => j = k
    BY <1>1, <1>3
<1>7. \A j \in DOMAIN s \ {i} : \E k \in DOMAIN r : from[k] = j
    <2> TAKE j \in DOMAIN s \ {i}
    <2> DEFINE k == IF j < i THEN j ELSE j - 1
    <2>1. k \in DOMAIN r /\ from[k] = j
        BY <1>1, <1>3
    <2> QED BY <2>1
<1> HIDE DEF from
<1>8. IsRest(r, s, i)
    BY <1>4, <1>5, <1>6, <1>7 DEF IsRest
<1> QED BY <1>2, <1>8 DEF r

\* A sequence with one element replaced.
LEMMA ReplacedType ==
    ASSUME NEW S, NEW s \in Seq(S), NEW i \in DOMAIN s, NEW c \in S
    PROVE  /\ [s EXCEPT ![i] = c] \in Seq(S)
           /\ Len([s EXCEPT ![i] = c]) = Len(s)
           /\ DOMAIN [s EXCEPT ![i] = c] = DOMAIN s
           /\ [s EXCEPT ![i] = c][i] = c
           /\ \A k \in DOMAIN s \ {i} : [s EXCEPT ![i] = c][k] = s[k]
OBVIOUS
=============================================================================
